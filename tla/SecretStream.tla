----------------------------- MODULE SecretStream -----------------------------
(***************************************************************************)
(* encryptFile and decryptFile (Encryption.cpp): a file is cut into chunks *)
(* of ChunkSize bytes, each sealed under the stream's header, its place in *)
(* the stream and a tag, which is FINAL on the last one.                   *)
(*                                                                         *)
(* A sealed chunk is a record no one can make or change without the key    *)
(* (libsodium's secretstream), and a header the number of the draw that    *)
(* gave it.  A file to decrypt is a header and pieces: sealed chunks, and  *)
(* damaged ones, which belong to no header.                                *)
(* Sizes are those of the plain bytes; sealing adds the same to each chunk.*)
(***************************************************************************)
EXTENDS Integers, Sequences

CONSTANTS Byte,
          ChunkSize,
          Headers,    \* the random headers of streams
          Contents,   \* the files that are encrypted
          Streams     \* the files that are decrypted

Damaged == 0

Piece == [header : Headers \cup {Damaged}, nth : Nat, final : BOOLEAN, data : Seq(Byte)]

ASSUME SecretStreamAssumption ==
  /\ ChunkSize \in Nat \ {0}
  /\ Headers \subseteq Nat \ {Damaged}
  /\ Contents \subseteq Seq(Byte)
  /\ \A s \in Streams :
       /\ s = [header |-> s.header, pieces |-> s.pieces]
       /\ s.header \in Headers
       /\ s.pieces \in Seq(Piece)

-------------------------------------------------------------------------------
(* encryptFile.                                                              *)

\* fread meets the end of the file only when it finds less than a whole chunk:
\* a file of n whole chunks gets an empty one more.
Chunks(f) == (Len(f) \div ChunkSize) + 1

Chunk(f, i) ==
  SubSeq(f, (i - 1) * ChunkSize + 1, IF i * ChunkSize < Len(f) THEN i * ChunkSize ELSE Len(f))

Push(h, f, i) == [header |-> h, nth |-> i, final |-> i = Chunks(f), data |-> Chunk(f, i)]

EncryptFile(h, f) == [header |-> h, pieces |-> [i \in 1..Chunks(f) |-> Push(h, f, i)]]

-------------------------------------------------------------------------------
(* decryptFile.                                                              *)

Full(c) == Len(c.data) = ChunkSize

\* The end of the file is noticed after the ith fread.
Eof(s, i) == i = Len(s.pieces) /\ ~Full(s.pieces[i])

\* A short piece that is not the last is read together with some of the next.
Pull(s, i) ==
  /\ s.pieces[i].header = s.header
  /\ s.pieces[i].nth = i
  /\ Full(s.pieces[i]) \/ i = Len(s.pieces)

\* The ith round of the loop writes its chunk: it opens, and is not the final
\* one with more to come.
Writes(s, i) == Pull(s, i) /\ (s.pieces[i].final => Eof(s, i))

\* The rounds before the first that fails.  After a last piece that is full
\* there is one more, which finds nothing and fails.
Written(s) ==
  CHOOSE n \in 0..Len(s.pieces) :
    /\ \A i \in 1..n : Writes(s, i)
    /\ n < Len(s.pieces) => ~Writes(s, n + 1)

\* What the first n pieces hold, all but the last of them full.
Joined(s, n) ==
  [i \in 1..(IF n = 0 THEN 0 ELSE (n - 1) * ChunkSize + Len(s.pieces[n].data)) |->
     s.pieces[((i - 1) \div ChunkSize) + 1].data[((i - 1) % ChunkSize) + 1]]

Decrypts(s) ==
  LET n == Len(s.pieces) IN n > 0 /\ (\A i \in 1..n : Writes(s, i)) /\ Eof(s, n)

\* What is in the target file afterwards, whether decryptFile succeeds or not.
Plain(s) == Joined(s, Written(s))

-------------------------------------------------------------------------------
(* Properties.                                                               *)

\* What encryptFile makes of a file, of any length, decryptFile takes back.
StreamRoundTrips ==
  \A h \in Headers, f \in Contents :
    Decrypts(EncryptFile(h, f)) /\ Plain(EncryptFile(h, f)) = f

\* Only f has been encrypted under the header of s.
Authentic(s, f) ==
  \A i \in 1..Len(s.pieces) :
    s.pieces[i].header = s.header => \E k \in 1..Chunks(f) : s.pieces[i] = Push(s.header, f, k)

\* A stream that has been cut off, reordered, extended or damaged does not
\* decrypt.
OnlyWholeStreamsDecrypt ==
  \A f \in Contents, s \in Streams :
    Authentic(s, f) /\ Decrypts(s) => s = EncryptFile(s.header, f)

\* What decryptFile has written when it fails is a beginning of the file.
OnlyPrefixesArePlain ==
  \A f \in Contents, s \in Streams :
    Authentic(s, f) => Plain(s) = SubSeq(f, 1, Len(Plain(s)))

===============================================================================
