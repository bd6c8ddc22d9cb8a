----------------------------- MODULE MCWatchTree -----------------------------
(* Constants for model-checking WatchTree: a directory d, its subdirectory s, *)
(* and a file f in s.                                                         *)
EXTENDS WatchTree, TLC

CONSTANTS d, s, f

MCDirs == {d, s}
MCFiles == {f}
MCParent == d :> NoDir @@ s :> d @@ f :> s

===============================================================================
