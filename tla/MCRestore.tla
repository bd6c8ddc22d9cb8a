------------------------------ MODULE MCRestore ------------------------------
(* Constants for model-checking Restore: the index starts with two versions of *)
(* one file and one of another; chunks are two bytes.                          *)
EXTENDS Restore, TLC

CONSTANTS c1, c2, p, q

None == [o \in Options |-> <<>>]
MCRestoring == [None EXCEPT !.restore = <<All>>, !.target = <<"dir">>]
MCNextVersion == [None EXCEPT !.restore = <<4>>, !.target = <<"dir">>]
MCOldVersion == [None EXCEPT !.restore = <<1>>, !.target = <<"dir">>, !.index = <<"show">>]
MCInvocations == {MCRestoring, MCNextVersion, MCOldVersion}

MCFirstIndex == (p :> <<1, 2>>) @@ (q :> <<3>>)
MCFirstData == <<<<0, 1>>, <<0>>, <<1, 1, 0>>>>
MCNewContents == {<<1>>}
MCHeaders == 1..MaxVersions

\* Files of up to two chunks and a byte, and whatever can be put together of
\* the pieces of one of them.
MCContents == UNION {[1..n -> {0, 1}] : n \in 0..3} \cup {<<0, 1, 1, 0>>, <<0, 0, 1, 0, 1>>}
MCPieces ==
  {Push(1, <<0, 1, 1, 0>>, k) : k \in 1..3}
  \cup {[header |-> Damaged, nth |-> 0, final |-> FALSE, data |-> d] : d \in {<<>>, <<0, 0>>}}
MCStreams ==
  {[header |-> 1, pieces |-> s] : s \in UNION {[1..n -> MCPieces] : n \in 0..4}}
  \cup UNION {{EncryptFile(h, f), CutOff(EncryptFile(h, f))} : h \in Headers, f \in Contents}

ASSUME MCStreamsAreSound ==
  StreamRoundTrips /\ OnlyWholeStreamsDecrypt /\ OnlyPrefixesArePlain

===============================================================================
