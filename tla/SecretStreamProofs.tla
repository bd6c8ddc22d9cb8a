-------------------------- MODULE SecretStreamProofs --------------------------
(***************************************************************************)
(* Proofs about SecretStream, for any chunk size, any file and any stream. *)
(* A stream whose ith piece opens holds the ith chunk of its file, because *)
(* a piece says its place; so what is written are the chunks of the file   *)
(* in order, and only the last chunk is short.                             *)
(***************************************************************************)
EXTENDS SecretStream, WellFoundedInduction, TLAPS

-------------------------------------------------------------------------------
\* Numbers.

LEMMA LeastElement ==
  ASSUME NEW T, T \subseteq Nat, T /= {}
  PROVE  \E x \in T : \A y \in T : x <= y
<1>1. PICK x \in T : \A y \in T : ~(<<y, x>> \in OpToRel(<, Nat))
  BY WFMin, NatLessThanWellFounded, Zenon
<1>2. ASSUME NEW y \in T PROVE x <= y
  <2>1. ~(y < x)
    BY <1>1, Zenon DEF OpToRel
  <2> QED BY <2>1
<1> QED BY <1>2

LEMMA Quotient ==
  ASSUME NEW c \in Nat \ {0}, NEW n \in Nat
  PROVE  /\ n \div c \in Nat
         /\ n % c \in 0..(c - 1)
         /\ n = (n \div c) * c + (n % c)
  OBVIOUS

LEMMA Product ==
  ASSUME NEW c \in Nat \ {0}, NEW a \in Nat, NEW b \in Nat
  PROVE  /\ a * c \in Nat
         /\ (a + 1) * c = a * c + c
         /\ a < b => a * c + c <= b * c
  OBVIOUS

-------------------------------------------------------------------------------
\* The chunks of a file: all but the last are whole.

LEMMA ChunksProps ==
  ASSUME NEW f \in Seq(Byte)
  PROVE  /\ Chunks(f) \in Nat \ {0}
         /\ Len(f) % ChunkSize \in 0..(ChunkSize - 1)
         /\ Len(f) = (Chunks(f) - 1) * ChunkSize + (Len(f) % ChunkSize)
<1>1. Len(f) \in Nat
  OBVIOUS
<1>2. ChunkSize \in Nat \ {0}
  BY SecretStreamAssumption
<1> DEFINE q == Len(f) \div ChunkSize
<1>3. q \in Nat
  BY <1>1, <1>2, Quotient
<1>4. Chunks(f) = q + 1
  BY DEF Chunks
<1>5. Len(f) = q * ChunkSize + (Len(f) % ChunkSize) /\ Len(f) % ChunkSize \in 0..(ChunkSize - 1)
  BY <1>1, <1>2, Quotient
<1> HIDE DEF q
<1>6. Chunks(f) - 1 = q /\ Chunks(f) \in Nat \ {0}
  BY <1>3, <1>4
<1> QED BY <1>5, <1>6

LEMMA ChunkProps ==
  ASSUME NEW f \in Seq(Byte), NEW i \in 1..Chunks(f)
  PROVE  /\ (i - 1) * ChunkSize \in Nat
         /\ Len(Chunk(f, i)) = IF i < Chunks(f) THEN ChunkSize ELSE Len(f) % ChunkSize
         /\ (i - 1) * ChunkSize + Len(Chunk(f, i)) <= Len(f)
         /\ \A j \in 1..Len(Chunk(f, i)) : Chunk(f, i)[j] = f[(i - 1) * ChunkSize + j]
<1> DEFINE a == (i - 1) * ChunkSize
           b == IF i * ChunkSize < Len(f) THEN i * ChunkSize ELSE Len(f)
           r == Len(f) % ChunkSize
<1>1. ChunkSize \in Nat \ {0} /\ Len(f) \in Nat
  BY SecretStreamAssumption
<1>2. /\ Chunks(f) \in Nat \ {0}
      /\ r \in 0..(ChunkSize - 1)
      /\ Len(f) = (Chunks(f) - 1) * ChunkSize + r
  BY ChunksProps
<1>3. i - 1 \in Nat /\ a \in Nat /\ i * ChunkSize = a + ChunkSize
  BY <1>1, <1>2, Product
<1>4. i < Chunks(f) => b = a + ChunkSize /\ b <= Len(f)
  <2>1. ASSUME i < Chunks(f) PROVE a + ChunkSize <= (Chunks(f) - 1) * ChunkSize
    BY <1>1, <1>2, <1>3, <2>1, Product
  <2>2. (Chunks(f) - 1) * ChunkSize \in Nat
    BY <1>1, <1>2, Product
  <2> HIDE DEF a, r
  <2> QED BY <1>1, <1>2, <1>3, <2>1, <2>2
<1>5. i = Chunks(f) => b = a + r /\ b = Len(f)
  <2> HIDE DEF r
  <2> QED BY <1>1, <1>2, <1>3
<1>6. b \in Nat /\ b <= Len(f) /\ b - a \in Nat
      /\ b - a = IF i < Chunks(f) THEN ChunkSize ELSE r
  <2> HIDE DEF a, b, r
  <2> QED BY <1>1, <1>2, <1>3, <1>4, <1>5
<1>7. Chunk(f, i) = SubSeq(f, a + 1, b)
  BY DEF Chunk
<1> HIDE DEF a, b, r
<1>8. Len(Chunk(f, i)) = b - a /\ \A j \in 1..(b - a) : Chunk(f, i)[j] = f[a + j]
  BY <1>1, <1>3, <1>6, <1>7
<1> QED BY <1>1, <1>3, <1>6, <1>8 DEF a, r

LEMMA WholeChunks ==
  ASSUME NEW f \in Seq(Byte), NEW i \in 1..Chunks(f)
  PROVE  /\ Len(Chunk(f, i)) \in 0..ChunkSize
         /\ Len(Chunk(f, i)) = ChunkSize <=> i < Chunks(f)
<1> DEFINE r == Len(f) % ChunkSize
<1>1. ChunkSize \in Nat \ {0} /\ Chunks(f) \in Nat \ {0} /\ r \in 0..(ChunkSize - 1)
  BY SecretStreamAssumption, ChunksProps
<1>2. Len(Chunk(f, i)) = IF i < Chunks(f) THEN ChunkSize ELSE r
  BY ChunkProps
<1> HIDE DEF r
<1> QED BY <1>1, <1>2

LEMMA PushProps ==
  ASSUME NEW h, NEW f, NEW i
  PROVE  /\ Push(h, f, i).header = h
         /\ Push(h, f, i).nth = i
         /\ Push(h, f, i).final <=> i = Chunks(f)
         /\ Push(h, f, i).data = Chunk(f, i)
  BY DEF Push

-------------------------------------------------------------------------------
\* What decryptFile writes.

\* There is a first round that fails, or none does.
LEMMA WrittenProps ==
  ASSUME NEW s, Len(s.pieces) \in Nat
  PROVE  /\ Written(s) \in 0..Len(s.pieces)
         /\ \A i \in 1..Written(s) : Writes(s, i)
<1> DEFINE P(n) == /\ \A i \in 1..n : Writes(s, i)
                   /\ n < Len(s.pieces) => ~Writes(s, n + 1)
           T == {n \in 0..Len(s.pieces) : n < Len(s.pieces) => ~Writes(s, n + 1)}
<1>1. Len(s.pieces) \in T /\ T \subseteq Nat
  OBVIOUS
<1>2. PICK x \in T : \A y \in T : x <= y
  BY <1>1, LeastElement
<1>3. ASSUME NEW i \in 1..x PROVE Writes(s, i)
  <2>1. i - 1 \in 0..Len(s.pieces) /\ i - 1 < Len(s.pieces) /\ ~(x <= i - 1) /\ (i - 1) + 1 = i
    BY <1>1, <1>2
  <2>2. i - 1 \notin T
    BY <1>2, <2>1
  <2> QED BY <2>1, <2>2
<1>4. x \in 0..Len(s.pieces) /\ P(x)
  BY <1>2, <1>3
<1>5. Written(s) = CHOOSE n \in 0..Len(s.pieces) : P(n)
  BY DEF Written
<1> HIDE DEF P
<1>6. Written(s) \in 0..Len(s.pieces) /\ P(Written(s))
  BY <1>4, <1>5, Zenon
<1> QED BY <1>6 DEF P

\* The first n pieces of s are the first n chunks of f.
Begins(s, h, f, n) == \A i \in 1..n : s.pieces[i] = Push(h, f, i)

PrefixSize(f, n) == (n - 1) * ChunkSize + Len(Chunk(f, n))

\* The first n chunks of a file, joined, are a beginning of it.
LEMMA JoinedIsPrefix ==
  ASSUME NEW f \in Seq(Byte), NEW h, NEW s, NEW n \in 1..Chunks(f), Begins(s, h, f, n)
  PROVE  /\ PrefixSize(f, n) \in 0..Len(f)
         /\ Joined(s, n) = [i \in 1..PrefixSize(f, n) |-> f[i]]
<1> DEFINE size == (n - 1) * ChunkSize + Len(Chunk(f, n))
           q(i) == (i - 1) \div ChunkSize
           r(i) == (i - 1) % ChunkSize
<1>1. ChunkSize \in Nat \ {0} /\ Len(f) \in Nat /\ Chunks(f) \in Nat \ {0}
  BY SecretStreamAssumption, ChunksProps
<1>2. \A i \in 1..Chunks(f) :
        /\ Len(Chunk(f, i)) \in 0..ChunkSize
        /\ i < Chunks(f) => Len(Chunk(f, i)) = ChunkSize
  BY WholeChunks
<1>3. (n - 1) * ChunkSize \in Nat /\ size \in 0..Len(f)
  BY <1>1, <1>2, ChunkProps
<1>4. n > 0 /\ n <= Chunks(f) /\ n \in 1..n /\ \A i \in 1..n : s.pieces[i].data = Chunk(f, i)
  BY <1>1, PushProps DEF Begins
<1>5. Joined(s, n) = [i \in 1..size |-> s.pieces[q(i) + 1].data[r(i) + 1]]
  BY <1>4 DEF Joined
<1>6. ASSUME NEW i \in 1..size PROVE s.pieces[q(i) + 1].data[r(i) + 1] = f[i]
  <2>1. /\ q(i) \in Nat
        /\ r(i) \in 0..(ChunkSize - 1)
        /\ i - 1 = q(i) * ChunkSize + r(i)
        /\ q(i) * ChunkSize \in Nat
    <3>1. i - 1 \in Nat
      BY <1>3
    <3> QED BY <1>1, <3>1, Quotient, Product
  <2>2. ~(n - 1 < q(i))
    <3>1. n - 1 < q(i) => (n - 1) * ChunkSize + ChunkSize <= q(i) * ChunkSize
      BY <1>1, <2>1, Product
    <3> HIDE DEF q, r
    <3> QED BY <1>1, <1>2, <1>3, <2>1, <3>1
  <2>3. q(i) + 1 \in 1..n /\ (q(i) + 1) - 1 = q(i)
    <3> HIDE DEF q
    <3> QED BY <1>1, <2>1, <2>2
  <2>4. r(i) + 1 \in 1..Len(Chunk(f, q(i) + 1))
    <3>1. CASE q(i) + 1 = n
      <4>1. q(i) = n - 1
        BY <2>1, <3>1
      <4> HIDE DEF q, r
      <4> QED BY <1>1, <1>2, <1>3, <2>1, <3>1, <4>1
    <3>2. CASE q(i) + 1 < n
      <4>1. q(i) + 1 \in 1..Chunks(f) /\ q(i) + 1 < Chunks(f)
        BY <1>1, <1>4, <2>1, <2>3, <3>2
      <4>2. Len(Chunk(f, q(i) + 1)) = ChunkSize
        BY <1>2, <4>1
      <4> HIDE DEF q, r
      <4> QED BY <1>1, <2>1, <4>2
    <3> HIDE DEF q
    <3> QED BY <2>3, <3>1, <3>2
  <2> HIDE DEF q, r
  <2>5. s.pieces[q(i) + 1].data = Chunk(f, q(i) + 1) /\ q(i) + 1 \in 1..Chunks(f)
    BY <1>1, <1>4, <2>3
  <2>6. Chunk(f, q(i) + 1)[r(i) + 1] = f[q(i) * ChunkSize + (r(i) + 1)]
    BY <2>3, <2>4, <2>5, ChunkProps
  <2>7. q(i) * ChunkSize + (r(i) + 1) = i
    <3> HIDE DEF size
    <3> QED BY <1>3, <2>1
  <2> QED BY <2>5, <2>6, <2>7
<1>7. Joined(s, n) = [i \in 1..size |-> f[i]]
  <2> HIDE DEF size, q, r
  <2> QED BY <1>5, <1>6
<1> QED BY <1>3, <1>7 DEF PrefixSize

\* A file is its whole beginning.
LEMMA WholePrefix ==
  ASSUME NEW f \in Seq(Byte)
  PROVE  f = [i \in 1..Len(f) |-> f[i]]
  OBVIOUS

-------------------------------------------------------------------------------
\* The theorems.

\* decryptFile takes back what encryptFile makes of a file of any length, also
\* of one that ends with a whole chunk.
THEOREM RoundTrips == StreamRoundTrips
<1> SUFFICES ASSUME NEW h \in Headers, NEW f \in Contents
             PROVE  Decrypts(EncryptFile(h, f)) /\ Plain(EncryptFile(h, f)) = f
  BY DEF StreamRoundTrips
<1> DEFINE s == EncryptFile(h, f)
           n == Chunks(f)
<1>1. f \in Seq(Byte) /\ ChunkSize \in Nat \ {0}
  BY SecretStreamAssumption
<1>2. n \in Nat \ {0} /\ n \in 1..n
  BY <1>1, ChunksProps
<1>3. /\ s.header = h
      /\ Len(s.pieces) = n
      /\ \A i \in 1..n : s.pieces[i] = Push(h, f, i)
  BY <1>2 DEF EncryptFile
<1> HIDE DEF s
<1>4. \A i \in 1..n : /\ s.pieces[i].header = h
                      /\ s.pieces[i].nth = i
                      /\ s.pieces[i].final <=> i = n
                      /\ s.pieces[i].data = Chunk(f, i)
  BY <1>3, PushProps
<1>5. \A i \in 1..n : Full(s.pieces[i]) <=> i < n
  BY <1>1, <1>4, WholeChunks DEF Full
<1>6. \A i \in 1..n : Eof(s, i) <=> i = n
  BY <1>2, <1>3, <1>5 DEF Eof
<1>7. \A i \in 1..n : Writes(s, i)
  <2> SUFFICES ASSUME NEW i \in 1..n PROVE Writes(s, i)
    OBVIOUS
  <2>1. Full(s.pieces[i]) \/ i = Len(s.pieces)
    BY <1>2, <1>3, <1>5
  <2>2. s.pieces[i].final => Eof(s, i)
    BY <1>4, <1>6
  <2> QED BY <1>3, <1>4, <2>1, <2>2 DEF Writes, Pull
<1>8. Decrypts(s)
  BY <1>2, <1>3, <1>6, <1>7 DEF Decrypts
<1>9. Written(s) = n
  <2> DEFINE P(k) == /\ \A i \in 1..k : Writes(s, i)
                     /\ k < Len(s.pieces) => ~Writes(s, k + 1)
  <2>1. n \in 0..Len(s.pieces) /\ P(n)
    BY <1>2, <1>3, <1>7
  <2>2. ASSUME NEW k \in 0..Len(s.pieces), P(k) PROVE k = n
    BY <1>2, <1>3, <1>7, <2>2
  <2>3. Written(s) = CHOOSE k \in 0..Len(s.pieces) : P(k)
    BY DEF Written
  <2> HIDE DEF P
  <2> QED BY <2>1, <2>2, <2>3
<1>10. Plain(s) = f
  <2>1. Joined(s, n) = [i \in 1..PrefixSize(f, n) |-> f[i]]
    <3> HIDE DEF n
    <3>1. n \in 1..Chunks(f)
      BY <1>2 DEF n
    <3>2. Begins(s, h, f, n)
      BY <1>3 DEF Begins
    <3> QED BY <1>1, <3>1, <3>2, JoinedIsPrefix
  <2>2. PrefixSize(f, n) = Len(f)
    <3> DEFINE r == Len(f) % ChunkSize
    <3>1. Len(f) = (n - 1) * ChunkSize + r
      BY <1>1, ChunksProps
    <3>2. Len(Chunk(f, n)) = IF n < n THEN ChunkSize ELSE r
      BY <1>2, <1>1, ChunkProps
    <3>3. Len(Chunk(f, n)) = r
      BY <1>2, <3>2
    <3> QED BY <3>1, <3>3 DEF PrefixSize
  <2> QED BY <1>1, <1>9, <2>1, <2>2, WholePrefix DEF Plain
<1> QED BY <1>8, <1>10 DEF s

\* The rounds of decryptFile that write read the chunks of the one file that
\* was encrypted under the header, in order and from the first.
LEMMA WritesChunks ==
  ASSUME NEW f \in Contents, NEW s \in Streams, Authentic(s, f),
         NEW n \in 0..Len(s.pieces), \A i \in 1..n : Writes(s, i)
  PROVE  /\ n <= Chunks(f)
         /\ Begins(s, s.header, f, n)
<1>1. f \in Seq(Byte) /\ Len(s.pieces) \in Nat /\ Chunks(f) \in Nat \ {0}
  BY SecretStreamAssumption, ChunksProps
<1>2. ASSUME NEW i \in 1..n PROVE i <= Chunks(f) /\ s.pieces[i] = Push(s.header, f, i)
  <2>1. i \in 1..Len(s.pieces) /\ s.pieces[i].header = s.header /\ s.pieces[i].nth = i
    BY <1>1 DEF Writes, Pull
  <2>2. PICK k \in 1..Chunks(f) : s.pieces[i] = Push(s.header, f, k)
    BY <2>1 DEF Authentic
  <2>3. k = i
    BY <2>1, <2>2, PushProps
  <2> QED BY <1>1, <2>2, <2>3
<1> QED BY <1>1, <1>2 DEF Begins

\* A stream that was cut off, reordered, extended or damaged is never reported
\* as decrypted.
THEOREM OnlyWholeDecrypt == OnlyWholeStreamsDecrypt
<1> SUFFICES ASSUME NEW f \in Contents, NEW s \in Streams, Authentic(s, f), Decrypts(s)
             PROVE  s = EncryptFile(s.header, f)
  BY DEF OnlyWholeStreamsDecrypt
<1> DEFINE n == Len(s.pieces)
<1>1. /\ f \in Seq(Byte)
      /\ ChunkSize \in Nat \ {0}
      /\ s = [header |-> s.header, pieces |-> s.pieces]
      /\ s.pieces \in Seq(Piece)
      /\ n \in Nat
      /\ Chunks(f) \in Nat \ {0}
  BY SecretStreamAssumption, ChunksProps
<1>2. n > 0 /\ (\A i \in 1..n : Writes(s, i)) /\ Eof(s, n)
  BY DEF Decrypts
<1>3. n <= Chunks(f) /\ Begins(s, s.header, f, n)
  BY <1>1, <1>2, WritesChunks
<1>4. n = Chunks(f)
  <2>1. n \in 1..n /\ n \in 1..Chunks(f)
    BY <1>1, <1>2, <1>3
  <2>2. Len(Chunk(f, n)) /= ChunkSize
    BY <1>2, <1>3, <2>1, PushProps DEF Eof, Full, Begins
  <2> QED BY <1>1, <2>1, <2>2, WholeChunks
<1>5. s.pieces = [i \in 1..Chunks(f) |-> Push(s.header, f, i)]
  BY <1>1, <1>3, <1>4 DEF Begins
<1> QED BY <1>1, <1>5 DEF EncryptFile

\* What a failing decryptFile leaves in the target file is a beginning of the
\* file: chunks are neither lost nor swapped before the place where it fails.
THEOREM PrefixesArePlain == OnlyPrefixesArePlain
<1> SUFFICES ASSUME NEW f \in Contents, NEW s \in Streams, Authentic(s, f)
             PROVE  Plain(s) = SubSeq(f, 1, Len(Plain(s)))
  BY DEF OnlyPrefixesArePlain
<1> DEFINE n == Written(s)
<1>1. f \in Seq(Byte) /\ Len(s.pieces) \in Nat /\ Chunks(f) \in Nat \ {0}
  BY SecretStreamAssumption, ChunksProps
<1>2. n \in 0..Len(s.pieces) /\ \A i \in 1..n : Writes(s, i)
  BY <1>1, WrittenProps
<1>3. n <= Chunks(f) /\ Begins(s, s.header, f, n)
  BY <1>2, WritesChunks
<1>4. PICK size \in 0..Len(f) : Plain(s) = [i \in 1..size |-> f[i]]
  <2>1. CASE n = 0
    BY <1>1, <2>1 DEF Plain, Joined
  <2>2. CASE n /= 0
    <3>1. n \in 1..Chunks(f)
      BY <1>1, <1>2, <1>3, <2>2
    <3>2. /\ PrefixSize(f, n) \in 0..Len(f)
          /\ Joined(s, n) = [i \in 1..PrefixSize(f, n) |-> f[i]]
      <4> HIDE DEF n
      <4> QED BY <1>1, <1>3, <3>1, JoinedIsPrefix
    <3> QED BY <3>2 DEF Plain
  <2> QED BY <2>1, <2>2
<1> QED BY <1>1, <1>4

===============================================================================
