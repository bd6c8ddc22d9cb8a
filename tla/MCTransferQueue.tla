--------------------------- MODULE MCTransferQueue ---------------------------
(* Constants for model-checking TransferQueue: files in no watched directory. *)
EXTENDS TransferQueue

CONSTANTS f, g

MCFiles == {f}
MCTwoFiles == {f, g}
MCNoDirs == {}
MCParent == [p \in Files |-> NoDir]

===============================================================================
