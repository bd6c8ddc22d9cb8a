------------------------------- MODULE MCDaemon -------------------------------
(* Constants for model-checking Daemon: watched files, no directories. *)
EXTENDS Daemon

CONSTANTS f, g

MCOneFile == {f}
MCTwoFiles == {f, g}
MCNoFiles == {}
MCNoDirs == {}
MCParent == [p \in Files |-> NoDir]
MCAddDel == {"add", "del"}
MCAllCommands == {"add", "del", "clean"}
MCAddOnly == {"add"}
MCAddClean == {"add", "clean"}

===============================================================================
