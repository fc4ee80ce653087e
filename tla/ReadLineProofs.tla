--------------------------- MODULE ReadLineProofs ---------------------------
(***************************************************************************)
(* That read_line returns the lines of a stream whole and leaves none      *)
(* where select() cannot see it, for any number of lines of four bytes or  *)
(* more, however the stream is cut and wherever it breaks off.  The        *)
(* argument: what was not returned is a beginning of what follows in the   *)
(* stream (Unbroken), so the first end of a line in the buffer is that of  *)
(* the next line; and four bytes on end hold one end of a line at most.    *)
(***************************************************************************)
EXTENDS ReadLine, SequenceTheorems, WellFoundedInduction, TLAPS

-----------------------------------------------------------------------------
(* The lines of the stream.                                                *)
LineEnds ==
  /\ ends \in [0 .. Lines -> Nat]
  /\ \A n \in 1 .. Lines : ends[n] - ends[n - 1] >= 4

Types ==
  /\ LineEnds
  /\ pc \in {"select", "read"}
  /\ coming \in Seq(Nat) /\ socket \in Seq(Nat) /\ buffer \in Seq(Nat)
  /\ last \in Nat
  /\ returned \in Seq(Seq(Nat))

IInv == Types /\ Unbroken /\ LinesIntact /\ NothingHidden

LEMMA Least ==
  ASSUME NEW T \in SUBSET Nat, T # {}
  PROVE  \E x \in T : \A y \in T : x <= y
  <1>1. \E x \in T : \A y \in T : ~(<<y, x>> \in OpToRel(<, Nat))
    BY NatLessThanWellFounded, WFMin
  <1>2. PICK x \in T : \A y \in T : ~(<<y, x>> \in OpToRel(<, Nat)) BY <1>1
  <1>3. ASSUME NEW y \in T PROVE x <= y
    <2>1. x \in Nat /\ y \in Nat OBVIOUS
    <2>2. ~(y < x) BY <1>2, <2>1 DEF OpToRel
    <2> QED BY <2>1, <2>2
  <1> QED BY <1>3

(* Lines that follow one another by four bytes or more are all apart by    *)
(* four bytes or more: the first that was not would follow its neighbour.  *)
LEMMA Apart ==
  ASSUME LineEnds, NEW m \in 0 .. Lines, NEW n \in 0 .. Lines, m < n
  PROVE  ends[n] - ends[m] >= 4
  <1> DEFINE T == {k \in 0 .. Lines : m < k /\ ~(ends[k] - ends[m] >= 4)}
  <1>0. Lines \in Nat /\ \A k \in 0 .. Lines : ends[k] \in Nat
    BY ReadLineAssumption DEF LineEnds
  <1> SUFFICES ASSUME T # {} PROVE FALSE OBVIOUS
  <1>1. T \in SUBSET Nat BY <1>0
  <1>2. PICK k \in T : \A y \in T : k <= y
    <2> HIDE DEF T
    <2> QED BY <1>1, Least
  <1>3. k \in 1 .. Lines /\ k - 1 \in 0 .. Lines /\ m <= k - 1 /\ k - 1 < k BY <1>0
  <1>4. k - 1 \notin T
    <2> HIDE DEF T
    <2> QED BY <1>2, <1>3
  <1>5. k - 1 = m \/ ends[k - 1] - ends[m] >= 4 BY <1>3, <1>4
  <1>6. ends[k] - ends[k - 1] >= 4 BY <1>3 DEF LineEnds
  <1>7. ~(ends[k] - ends[m] >= 4) OBVIOUS
  <1>8. ends[k] \in Nat /\ ends[k - 1] \in Nat /\ ends[m] \in Nat BY <1>0, <1>3
  <1> HIDE DEF T
  <1> QED BY <1>5, <1>6, <1>7, <1>8

(* Four bytes on end hold the end of one line at most.                     *)
LEMMA OneEndInFour ==
  ASSUME LineEnds, NEW a \in Nat, NEW b \in Nat, IsEol(a), IsEol(b), a <= b, b < a + 4
  PROVE  a = b
  <1>1. PICK m \in 1 .. Lines : a = ends[m] BY DEF IsEol
  <1>2. PICK n \in 1 .. Lines : b = ends[n] BY DEF IsEol
  <1>3. Lines \in Nat /\ m \in 0 .. Lines /\ n \in 0 .. Lines BY ReadLineAssumption
  <1>4. CASE m < n
    <2>1. ends[n] - ends[m] >= 4 BY <1>3, <1>4, Apart
    <2> QED BY <2>1, <1>1, <1>2
  <1>5. CASE n < m
    <2>1. ends[m] - ends[n] >= 4 BY <1>3, <1>5, Apart
    <2> QED BY <2>1, <1>1, <1>2
  <1>6. CASE m = n BY <1>6, <1>1, <1>2
  <1> QED BY <1>3, <1>4, <1>5, <1>6

-----------------------------------------------------------------------------
(* A stretch of the stream, and how stretches are cut and joined.          *)
Stretch(a, n) == [k \in 1 .. n |-> a + k]

LEMMA StretchIs ==
  ASSUME NEW a \in Nat, NEW n \in Nat
  PROVE  /\ Stretch(a, n) \in Seq(Nat) /\ Len(Stretch(a, n)) = n
         /\ \A k \in 1 .. n : Stretch(a, n)[k] = a + k
  BY DEF Stretch

LEMMA IsStretch ==
  ASSUME NEW a \in Nat, NEW s \in Seq(Nat), \A k \in 1 .. Len(s) : s[k] = a + k
  PROVE  s = Stretch(a, Len(s))
  BY DEF Stretch

LEMMA Joined ==
  ASSUME NEW s \in Seq(Nat), NEW t \in Seq(Nat)
  PROVE  /\ s \o t \in Seq(Nat) /\ Len(s \o t) = Len(s) + Len(t)
         /\ \A k \in 1 .. Len(s) : (s \o t)[k] = s[k]
         /\ \A k \in 1 .. Len(t) : (s \o t)[Len(s) + k] = t[k]
  BY ConcatProperties

LEMMA Cut ==
  ASSUME NEW s \in Seq(Nat), NEW a \in 0 .. Len(s), NEW b \in a .. Len(s)
  PROVE  /\ SubSeq(s, a + 1, b) \in Seq(Nat) /\ Len(SubSeq(s, a + 1, b)) = b - a
         /\ \A k \in 1 .. b - a : SubSeq(s, a + 1, b)[k] = s[a + k]
  BY SubSeqProperties

LEMMA Associative ==
  ASSUME NEW s \in Seq(Nat), NEW t \in Seq(Nat), NEW u \in Seq(Nat)
  PROVE  (s \o t) \o u = s \o (t \o u)
  BY ConcatAssociative, SMTT(30)

(* What is cut in two is put together again.                               *)
LEMMA CutAndJoined ==
  ASSUME NEW s \in Seq(Nat), NEW n \in 0 .. Len(s)
  PROVE  /\ SubSeq(s, 1, n) \in Seq(Nat) /\ SubSeq(s, n + 1, Len(s)) \in Seq(Nat)
         /\ SubSeq(s, 1, n) \o SubSeq(s, n + 1, Len(s)) = s
  <1>1. /\ SubSeq(s, 0 + 1, n) \in Seq(Nat) /\ Len(SubSeq(s, 0 + 1, n)) = n - 0
        /\ \A k \in 1 .. n - 0 : SubSeq(s, 0 + 1, n)[k] = s[0 + k]
    <2>1. 0 \in 0 .. Len(s) /\ n \in 0 .. Len(s) OBVIOUS
    <2> QED BY <2>1, Cut
  <1>2. /\ SubSeq(s, n + 1, Len(s)) \in Seq(Nat) /\ Len(SubSeq(s, n + 1, Len(s))) = Len(s) - n
        /\ \A k \in 1 .. Len(s) - n : SubSeq(s, n + 1, Len(s))[k] = s[n + k]
    <2>1. Len(s) \in n .. Len(s) OBVIOUS
    <2> QED BY <2>1, Cut
  <1> DEFINE x == SubSeq(s, 1, n)
             y == SubSeq(s, n + 1, Len(s))
             z == x \o y
  <1>3. x \in Seq(Nat) /\ Len(x) = n /\ \A k \in 1 .. n : x[k] = s[k] BY <1>1
  <1>4. y \in Seq(Nat) /\ Len(y) = Len(s) - n /\ \A k \in 1 .. Len(s) - n : y[k] = s[n + k]
    BY <1>2
  <1> HIDE DEF x, y
  <1>5. /\ z \in Seq(Nat) /\ Len(z) = Len(x) + Len(y)
        /\ \A k \in 1 .. Len(x) : z[k] = x[k]
        /\ \A k \in 1 .. Len(y) : z[Len(x) + k] = y[k]
    BY <1>3, <1>4, Joined
  <1> HIDE DEF z
  <1>6. Len(z) = Len(s) BY <1>3, <1>4, <1>5
  <1>7. ASSUME NEW k \in 1 .. Len(s) PROVE z[k] = s[k]
    <2>1. CASE k <= n BY <2>1, <1>3, <1>5
    <2>2. CASE k > n
      <3>1. k - n \in 1 .. Len(s) - n /\ n + (k - n) = k BY <2>2
      <3>2. z[Len(x) + (k - n)] = y[k - n] BY <3>1, <1>4, <1>5
      <3>3. y[k - n] = s[n + (k - n)] BY <3>1, <1>4
      <3> QED BY <3>1, <3>2, <3>3, <1>3
    <2> QED BY <2>1, <2>2
  <1>8. z = s BY <1>5, <1>6, <1>7, SeqEqual
  <1> QED BY <1>3, <1>4, <1>8 DEF x, y, z

(* Three pieces, one behind the other.                                     *)
InPieces(a, x, y, z) ==
  /\ \A k \in 1 .. Len(x) : x[k] = a + k
  /\ \A k \in 1 .. Len(y) : y[k] = a + Len(x) + k
  /\ \A k \in 1 .. Len(z) : z[k] = a + Len(x) + Len(y) + k

LEMMA Pieces ==
  ASSUME NEW x \in Seq(Nat), NEW y \in Seq(Nat), NEW z \in Seq(Nat), NEW a \in Nat, NEW n \in Nat
  PROVE  x \o y \o z = Stretch(a, n) <=> Len(x) + Len(y) + Len(z) = n /\ InPieces(a, x, y, z)
  <1> DEFINE xy == x \o y
             w == xy \o z
             f == Stretch(a, n)
  <1>1. /\ xy \in Seq(Nat) /\ Len(xy) = Len(x) + Len(y)
        /\ \A k \in 1 .. Len(x) : xy[k] = x[k]
        /\ \A k \in 1 .. Len(y) : xy[Len(x) + k] = y[k]
    BY Joined
  <1> HIDE DEF xy
  <1>2. /\ w \in Seq(Nat) /\ Len(w) = Len(xy) + Len(z)
        /\ \A k \in 1 .. Len(xy) : w[k] = xy[k]
        /\ \A k \in 1 .. Len(z) : w[Len(xy) + k] = z[k]
    BY <1>1, Joined
  <1>3. f \in Seq(Nat) /\ Len(f) = n /\ \A k \in 1 .. n : f[k] = a + k BY StretchIs
  <1> HIDE DEF w, f
  <1>n. Len(x) \in Nat /\ Len(y) \in Nat /\ Len(z) \in Nat OBVIOUS
  <1>4. Len(w) = Len(x) + Len(y) + Len(z) BY <1>1, <1>2
  <1>5. \A k \in 1 .. Len(x) : w[k] = x[k]
    <2> SUFFICES ASSUME NEW k \in 1 .. Len(x) PROVE w[k] = x[k] OBVIOUS
    <2>1. k \in 1 .. Len(xy) BY <1>1, <1>n
    <2> QED BY <2>1, <1>1, <1>2
  <1>6. \A k \in 1 .. Len(y) : w[Len(x) + k] = y[k]
    <2> SUFFICES ASSUME NEW k \in 1 .. Len(y) PROVE w[Len(x) + k] = y[k] OBVIOUS
    <2>1. Len(x) + k \in 1 .. Len(xy) BY <1>1, <1>n
    <2> QED BY <2>1, <1>1, <1>2
  <1>7. \A k \in 1 .. Len(z) : w[Len(x) + Len(y) + k] = z[k] BY <1>1, <1>2
  <1>8. ASSUME w = f
        PROVE  Len(x) + Len(y) + Len(z) = n /\ InPieces(a, x, y, z)
    <2>1. Len(x) + Len(y) + Len(z) = n BY <1>3, <1>4, <1>8
    <2>2. \A k \in 1 .. n : w[k] = a + k BY <1>3, <1>8
    <2>3. ASSUME NEW k \in 1 .. Len(x) PROVE x[k] = a + k
      <3>1. k \in 1 .. n BY <2>1, <1>n
      <3> QED BY <3>1, <2>2, <1>5
    <2>4. ASSUME NEW k \in 1 .. Len(y) PROVE y[k] = a + Len(x) + k
      <3>1. Len(x) + k \in 1 .. n BY <2>1, <1>n
      <3>2. w[Len(x) + k] = a + (Len(x) + k) BY <3>1, <2>2
      <3> QED BY <3>2, <1>6, <1>n
    <2>5. ASSUME NEW k \in 1 .. Len(z) PROVE z[k] = a + Len(x) + Len(y) + k
      <3>1. Len(x) + Len(y) + k \in 1 .. n BY <2>1, <1>n
      <3>2. w[Len(x) + Len(y) + k] = a + (Len(x) + Len(y) + k) BY <3>1, <2>2
      <3> QED BY <3>2, <1>7, <1>n
    <2> QED BY <2>1, <2>3, <2>4, <2>5 DEF InPieces
  <1>9. ASSUME Len(x) + Len(y) + Len(z) = n, InPieces(a, x, y, z)
        PROVE  w = f
    <2>1. ASSUME NEW k \in 1 .. n PROVE w[k] = f[k]
      <3>1. CASE k <= Len(x)
        <4>1. k \in 1 .. Len(x) BY <3>1, <1>n
        <4> QED BY <4>1, <1>9, <1>3, <1>5 DEF InPieces
      <3>2. CASE k > Len(x) /\ k <= Len(x) + Len(y)
        <4> DEFINE j == k - Len(x)
        <4>1. j \in 1 .. Len(y) /\ Len(x) + j = k BY <3>2, <1>n
        <4> HIDE DEF j
        <4>2. w[Len(x) + j] = y[j] /\ y[j] = a + Len(x) + j BY <4>1, <1>6, <1>9 DEF InPieces
        <4>3. a + Len(x) + j = a + k
          <5>1. j \in Nat /\ Len(x) + j = k BY <4>1
          <5>2. \A b, c, d \in Nat : b + c + d = b + (c + d) OBVIOUS
          <5>3. a + Len(x) + j = a + (Len(x) + j) BY <5>1, <5>2, <1>n
          <5> QED BY <5>1, <5>3
        <4> QED BY <4>1, <4>2, <4>3, <1>3
      <3>3. CASE k > Len(x) + Len(y)
        <4> DEFINE j == k - (Len(x) + Len(y))
        <4>1. j \in 1 .. Len(z) /\ Len(x) + Len(y) + j = k BY <3>3, <1>n, <1>9
        <4> HIDE DEF j
        <4>2. w[Len(x) + Len(y) + j] = z[j] /\ z[j] = a + Len(x) + Len(y) + j
          BY <4>1, <1>7, <1>9 DEF InPieces
        <4>3. a + Len(x) + Len(y) + j = a + k BY <4>1, <1>n
        <4> QED BY <4>1, <4>2, <4>3, <1>3
      <3> QED BY <3>1, <3>2, <3>3, <1>n
    <2>2. Len(w) = Len(f) BY <1>9, <1>3, <1>4
    <2> QED BY <2>1, <2>2, <1>2, <1>3, SeqEqual
  <1> QED BY <1>8, <1>9 DEF w, xy, f

(* What is on its way, and where the next line begins.                     *)
LEMMA Bounds ==
  ASSUME IInv
  PROVE  /\ Lines \in Nat /\ Len(returned) \in 0 .. Lines /\ Begin \in Nat
         /\ last - Begin \in Nat
         /\ buffer \o socket \o coming = Stretch(Begin, last - Begin)
         /\ Len(buffer) + Len(socket) + Len(coming) = last - Begin
         /\ InPieces(Begin, buffer, socket, coming)
  <1>1. /\ Lines \in Nat /\ returned \in Seq(Seq(Nat)) /\ Len(returned) <= Lines
        /\ ends \in [0 .. Lines -> Nat] /\ last \in Nat /\ Begin <= last
        /\ buffer \o socket \o coming = Stretch(Begin, last - Begin)
        /\ buffer \in Seq(Nat) /\ socket \in Seq(Nat) /\ coming \in Seq(Nat)
    BY ReadLineAssumption DEF IInv, Types, LineEnds, Unbroken, Stretch
  <1>2. Len(returned) \in 0 .. Lines BY <1>1
  <1>3. Begin \in Nat BY <1>1, <1>2 DEF Begin
  <1>4. last - Begin \in Nat BY <1>1, <1>3
  <1> DEFINE d == last - Begin
  <1>5. d \in Nat /\ buffer \o socket \o coming = Stretch(Begin, d) BY <1>1, <1>4
  <1> HIDE DEF d
  <1>6. Len(buffer) + Len(socket) + Len(coming) = d /\ InPieces(Begin, buffer, socket, coming)
    BY <1>1, <1>3, <1>5, Pieces
  <1> QED BY <1>1, <1>2, <1>3, <1>4, <1>6 DEF d

-----------------------------------------------------------------------------
(* The steps.                                                              *)

(* Bytes that only move on leave the stream unbroken.                      *)
LEMMA MovedOn ==
  ASSUME IInv,
         buffer' \in Seq(Nat), socket' \in Seq(Nat), coming' \in Seq(Nat),
         buffer' \o socket' \o coming' = buffer \o socket \o coming,
         UNCHANGED <<ends, last, returned>>, pc' \in {"select", "read"},
         NothingHidden',
         \A j, k \in 1 .. Len(buffer') :
           IsEol(buffer'[j]) /\ IsEol(buffer'[k]) => j = k
  PROVE  IInv'
  <1>1. Types' BY DEF IInv, Types, LineEnds
  <1>2. Unbroken' BY DEF IInv, Unbroken, Begin, IsEol
  <1>3. LinesIntact' BY DEF IInv, LinesIntact, Text
  <1> QED BY <1>1, <1>2, <1>3 DEF IInv

LEMMA ArriveKeeps ==
  ASSUME IInv, NEW n \in 1 .. Len(coming), Arrive(n)
  PROVE  IInv'
  <1> DEFINE x == SubSeq(coming, 1, n)
             y == SubSeq(coming, n + 1, Len(coming))
  <1>1. /\ buffer \in Seq(Nat) /\ socket \in Seq(Nat) /\ coming \in Seq(Nat)
        /\ pc \in {"select", "read"}
    BY DEF IInv, Types
  <1>2. /\ socket' = socket \o x /\ coming' = y
        /\ UNCHANGED <<pc, closed, buffer, ends, last, returned>>
    BY DEF Arrive
  <1>3. x \in Seq(Nat) /\ y \in Seq(Nat) /\ x \o y = coming
    <2>1. n \in 0 .. Len(coming) BY <1>1
    <2> QED BY <1>1, <2>1, CutAndJoined
  <1> HIDE DEF x, y
  <1>4. buffer \o (socket \o x) \o y = buffer \o socket \o (x \o y)
    <2> DEFINE b == buffer
    <2>1. b \o (socket \o x) = (b \o socket) \o x
      <3>1. b \in Seq(Nat) /\ socket \in Seq(Nat) /\ x \in Seq(Nat) BY <1>1, <1>3
      <3> QED BY ONLY <3>1, Associative
    <2>2. b \o socket \in Seq(Nat) BY <1>1, Joined
    <2>3. ((b \o socket) \o x) \o y = (b \o socket) \o (x \o y)
      <3> DEFINE bs == b \o socket
      <3>1. bs \in Seq(Nat) BY <2>2
      <3> HIDE DEF bs, b
      <3>2. (bs \o x) \o y = bs \o (x \o y) BY <3>1, <1>3, Associative
      <3> QED BY <3>2 DEF bs
    <2> QED BY <2>1, <2>3
  <1>5. buffer' \o socket' \o coming' = buffer \o socket \o coming BY <1>2, <1>3, <1>4
  <1>6. socket' \in Seq(Nat) BY <1>1, <1>2, <1>3, Joined
  <1>7. NothingHidden' BY <1>2 DEF IInv, NothingHidden, HasLine, IsEol
  <1>8. \A j, k \in 1 .. Len(buffer') : IsEol(buffer'[j]) /\ IsEol(buffer'[k]) => j = k
    BY <1>2 DEF IInv, Unbroken
  <1> QED BY <1>1, <1>2, <1>3, <1>5, <1>6, <1>7, <1>8, MovedOn

LEMMA ReadChunkKeeps ==
  ASSUME IInv, ReadChunk
  PROVE  IInv'
  <1> DEFINE n == IF Len(socket) < Chunk THEN Len(socket) ELSE Chunk
             x == SubSeq(socket, 1, n)
             y == SubSeq(socket, n + 1, Len(socket))
  <1>1. /\ buffer \in Seq(Nat) /\ socket \in Seq(Nat) /\ coming \in Seq(Nat)
        /\ LineEnds
    BY DEF IInv, Types
  <1>2. /\ pc = "read" /\ ~HasLine(buffer)
        /\ buffer' = buffer \o x /\ socket' = y
        /\ UNCHANGED <<pc, coming, closed, ends, last, returned>>
    BY DEF ReadChunk
  <1>3. n \in 0 .. Len(socket) /\ n <= 4 BY <1>1 DEF Chunk
  <1> HIDE DEF n
  <1>4. x \in Seq(Nat) /\ y \in Seq(Nat) /\ x \o y = socket BY <1>1, <1>3, CutAndJoined
  <1>5. Len(x) = n /\ \A k \in 1 .. n : x[k] = socket[k] BY <1>1, <1>3
  <1> HIDE DEF x, y
  <1>6. (buffer \o x) \o y = buffer \o (x \o y)
    <2>1. buffer \in Seq(Nat) /\ x \in Seq(Nat) /\ y \in Seq(Nat) BY <1>1, <1>4
    <2> QED BY ONLY <2>1, Associative
  <1>7. buffer' \o socket' \o coming' = buffer \o socket \o coming BY <1>2, <1>4, <1>6
  <1>8. /\ buffer' \in Seq(Nat) /\ Len(buffer') = Len(buffer) + n
        /\ \A k \in 1 .. Len(buffer) : buffer'[k] = buffer[k]
        /\ \A k \in 1 .. n : buffer'[Len(buffer) + k] = x[k]
    <2>1. /\ buffer \o x \in Seq(Nat) /\ Len(buffer \o x) = Len(buffer) + Len(x)
          /\ \A k \in 1 .. Len(buffer) : (buffer \o x)[k] = buffer[k]
          /\ \A k \in 1 .. Len(x) : (buffer \o x)[Len(buffer) + k] = x[k]
      BY <1>1, <1>4, Joined
    <2> QED BY <2>1, <1>2, <1>5
  (* Only the bytes that were read last can end a line, and these are four. *)
  <1>9. ASSUME NEW k \in 1 .. Len(buffer'), IsEol(buffer'[k])
        PROVE  k - Len(buffer) \in 1 .. n /\ buffer'[k] = Begin + k /\ k \in Nat
    <2>1. k \notin 1 .. Len(buffer) BY <1>2, <1>8, <1>9 DEF HasLine
    <2> DEFINE j == k - Len(buffer)
    <2>2. j \in 1 .. n /\ Len(buffer) + j = k /\ j \in 1 .. Len(socket)
      BY <2>1, <1>1, <1>3, <1>8
    <2>3. socket[j] = Begin + Len(buffer) + j BY <2>2, Bounds DEF InPieces
    <2>4. buffer'[Len(buffer) + j] = socket[j] BY <2>2, <1>5, <1>8
    <2>5. Begin + Len(buffer) + j = Begin + k
      <3>1. Begin \in Nat /\ Len(buffer) \in Nat /\ j \in Nat /\ Len(buffer) + j = k
        BY <2>2, <1>1, Bounds
      <3> HIDE DEF j
      <3> QED BY <3>1
    <2> QED BY <2>2, <2>3, <2>4, <2>5
  <1>10. ASSUME NEW j \in 1 .. Len(buffer'), NEW k \in 1 .. Len(buffer'),
                IsEol(buffer'[j]), IsEol(buffer'[k]), j <= k
         PROVE  j = k
    <2>1. /\ j - Len(buffer) \in 1 .. n /\ buffer'[j] = Begin + j /\ j \in Nat
          /\ k - Len(buffer) \in 1 .. n /\ buffer'[k] = Begin + k /\ k \in Nat
      BY <1>9, <1>10
    <2>2. Begin \in Nat /\ Len(buffer) \in Nat BY <1>1, Bounds
    <2>3. Begin + j \in Nat /\ Begin + k \in Nat /\ Begin + j <= Begin + k
          /\ Begin + k < (Begin + j) + 4
      BY <2>1, <2>2, <1>3, <1>10
    <2>4. IsEol(Begin + j) /\ IsEol(Begin + k) BY <2>1, <1>10
    <2>5. Begin + j = Begin + k BY <2>3, <2>4, <1>1, OneEndInFour
    <2> QED BY <2>5, <2>1, <2>2
  <1>11. \A j, k \in 1 .. Len(buffer') : IsEol(buffer'[j]) /\ IsEol(buffer'[k]) => j = k
    <2> SUFFICES ASSUME NEW j \in 1 .. Len(buffer'), NEW k \in 1 .. Len(buffer'),
                        IsEol(buffer'[j]), IsEol(buffer'[k])
                 PROVE  j = k
      OBVIOUS
    <2>1. j <= k \/ k <= j OBVIOUS
    <2> QED BY <2>1, <1>10
  <1>12. NothingHidden' BY <1>2 DEF NothingHidden
  <1> QED BY <1>1, <1>2, <1>4, <1>7, <1>8, <1>11, <1>12, MovedOn

(* A line is returned: the first end of a line in the buffer is that of    *)
(* the line behind the last that was returned, and there is no other.      *)
LEMMA ReturnLineKeeps ==
  ASSUME IInv, ReturnLine
  PROVE  IInv'
  <1> DEFINE r == Len(returned)
             I == {k \in 1 .. Len(buffer) : IsEol(buffer[k])}
             res == SelectInSeq(buffer, IsEol)
             line == SubSeq(buffer, 1, res - 1)
             left == SubSeq(buffer, res + 1, Len(buffer))
             B == Begin
  <1>1. /\ buffer \in Seq(Nat) /\ socket \in Seq(Nat) /\ coming \in Seq(Nat)
        /\ LineEnds /\ returned \in Seq(Seq(Nat)) /\ last \in Nat
    BY DEF IInv, Types
  <1>2. /\ HasLine(buffer)
        /\ returned' = Append(returned, line) /\ buffer' = left
        /\ pc' = "select"
        /\ UNCHANGED <<coming, closed, socket, ends, last>>
    BY DEF ReturnLine
  <1>3. /\ Lines \in Nat /\ r \in 0 .. Lines /\ B \in Nat /\ last - B \in Nat
        /\ Len(buffer) + Len(socket) + Len(coming) = last - B
        /\ InPieces(B, buffer, socket, coming)
    BY Bounds
  <1>4. I # {} BY <1>2 DEF HasLine
  <1>5. PICK f \in I : \A k \in I : k = f
    BY <1>4 DEF IInv, Unbroken
  <1>6. res = f
    <2>1. res = CHOOSE k \in I : \A j \in I : k <= j BY <1>4 DEF SelectInSeq, Min
    <2>2. f \in Nat BY <1>5
    <2> HIDE DEF I, res
    <2>3. \E k \in I : \A j \in I : k <= j BY <1>5, <2>2
    <2>4. res \in I BY <2>1, <2>3
    <2> QED BY <1>5, <2>4
  <1>7. f \in 1 .. Len(buffer) /\ IsEol(buffer[f]) /\ buffer[f] = B + f
    BY <1>3, <1>5 DEF InPieces
  <1> HIDE DEF res, B
  <1>8. r + 1 \in 1 .. Lines /\ ends[r + 1] = B + f
    <2>1. PICK m \in 1 .. Lines : B + f = ends[m] BY <1>7 DEF IsEol
    <2>2. /\ B = ends[r] /\ \A k \in 0 .. Lines : ends[k] \in Nat
          /\ m \in 0 .. Lines
      BY <1>1, <1>3 DEF B, Begin, LineEnds
    <2>3. r < m
      <3> SUFFICES ASSUME m < r \/ m = r PROVE FALSE BY <1>3, <2>2
      <3>1. ends[m] <= ends[r]
        <4>1. CASE m < r
          <5>1. ends[r] - ends[m] >= 4 BY <4>1, <1>1, <1>3, <2>2, Apart
          <5> QED BY <5>1, <2>2, <1>3
        <4>2. CASE m = r BY <4>2, <2>2
        <4> QED BY <4>1, <4>2
      <3> QED BY <3>1, <2>1, <2>2, <1>3, <1>7
    <2>4. CASE m = r + 1 BY <2>4, <2>1
    <2>5. CASE m # r + 1
      <3>1. r + 1 \in 0 .. Lines /\ r + 1 < m /\ r + 1 \in 1 .. Lines /\ r < r + 1
        BY <2>3, <2>5, <1>3
      <3>2. ends[m] - ends[r + 1] >= 4 /\ ends[r + 1] - ends[r] >= 4
        BY <3>1, <1>1, <1>3, <2>2, Apart
      <3> DEFINE g == ends[r + 1] - B
      <3>3. ends[r + 1] \in Nat /\ ends[m] \in Nat BY <3>1, <2>2
      <3>4. g \in 1 .. Len(buffer) /\ B + g = ends[r + 1] /\ g # f
        <4>1. /\ B \in Nat /\ f \in Nat /\ Len(buffer) \in Nat /\ f <= Len(buffer)
              /\ ends[m] = B + f /\ B = ends[r]
          BY <2>1, <2>2, <1>1, <1>3, <1>7
        <4> DEFINE e == ends[r + 1]
                   h == ends[m]
                   l == Len(buffer)
        <4>2. e \in Nat /\ h \in Nat /\ h - e >= 4 /\ e - B >= 4 BY <4>1, <3>2, <3>3
        <4>5. h = B + f /\ f <= l /\ l \in Nat /\ B \in Nat /\ f \in Nat BY <4>1
        <4> HIDE DEF e, h, l
        <4>3. e - B \in 1 .. l /\ B + (e - B) = e /\ e - B # f BY <4>2, <4>5
        <4> QED BY <4>3 DEF e, l
      <3> HIDE DEF g
      <3>5. IsEol(buffer[g]) BY <3>1, <3>4, <1>3 DEF IsEol, InPieces
      <3> QED BY <3>4, <3>5, <1>5
    <2> QED BY <2>4, <2>5
  <1>9. /\ line \in Seq(Nat) /\ Len(line) = f - 1 /\ \A k \in 1 .. f - 1 : line[k] = buffer[k]
    <2>1. f - 1 \in 0 .. Len(buffer) /\ 0 \in 0 .. Len(buffer) /\ f - 1 \in 0 .. Len(buffer)
      BY <1>7, <1>1
    <2>2. /\ SubSeq(buffer, 0 + 1, f - 1) \in Seq(Nat)
          /\ Len(SubSeq(buffer, 0 + 1, f - 1)) = (f - 1) - 0
          /\ \A k \in 1 .. (f - 1) - 0 : SubSeq(buffer, 0 + 1, f - 1)[k] = buffer[0 + k]
      BY <2>1, <1>1, Cut
    <2>3. (f - 1) - 0 = f - 1 /\ 0 + 1 = 1 BY <1>7
    <2>4. \A k \in 1 .. f - 1 : 0 + k = k OBVIOUS
    <2> QED BY <2>2, <2>3, <2>4, <1>6
  <1>10. /\ left \in Seq(Nat) /\ Len(left) = Len(buffer) - f
         /\ \A k \in 1 .. Len(buffer) - f : left[k] = buffer[f + k]
    <2>1. f \in 0 .. Len(buffer) /\ Len(buffer) \in f .. Len(buffer) BY <1>7, <1>1
    <2> QED BY <2>1, <1>1, <1>6, Cut
  <1>11. /\ returned' \in Seq(Seq(Nat)) /\ Len(returned') = r + 1
         /\ \A k \in 1 .. r : returned'[k] = returned[k]
         /\ returned'[r + 1] = line
    <2> HIDE DEF line
    <2> QED BY <1>1, <1>2, <1>9, AppendProperties
  <1> HIDE DEF line, left, r
  <1>12. \A k \in 1 .. Len(left) : ~IsEol(left[k])
    <2> SUFFICES ASSUME NEW k \in 1 .. Len(left), IsEol(left[k]) PROVE FALSE OBVIOUS
    <2>1. /\ k \in 1 .. Len(buffer) - f
          /\ f \in 1 .. Len(buffer) /\ Len(buffer) \in Nat
      BY <1>10, <1>7, <1>1
    <2>2. f + k \in 1 .. Len(buffer) /\ f + k # f BY ONLY <2>1
    <2>3. left[k] = buffer[f + k] BY <1>10
    <2> QED BY <2>2, <2>3, <1>5
  <1>13. NothingHidden'
    BY <1>2, <1>12 DEF NothingHidden, HasLine, IsEol
  <1>14. Begin' = B + f
    BY <1>2, <1>8, <1>11 DEF Begin
  <1>15. LinesIntact'
    <2>1. line = [k \in 1 .. (B + f) - B - 1 |-> B + k]
      <3>1. (B + f) - B - 1 = f - 1 BY <1>3, <1>7
      <3>2. \A k \in 1 .. f - 1 : line[k] = B + k BY <1>3, <1>9, <1>7 DEF InPieces
      <3> QED BY <3>1, <3>2, <1>9
    <2>2. B = ends[r] /\ (r + 1) - 1 = r BY <1>3 DEF B, Begin, r
    <2>3. line = Text(r + 1)
      <3>1. Text(r + 1) = [k \in 1 .. ends[r + 1] - ends[r] - 1 |-> ends[r] + k]
        BY <2>2 DEF Text
      <3> QED BY <3>1, <2>1, <2>2, <1>8
    <2>4. \A n : Text(n)' = Text(n) BY <1>2 DEF Text
    <2>5. ASSUME NEW n \in 1 .. r + 1 PROVE returned'[n] = Text(n)
      <3>1. CASE n = r + 1 BY <3>1, <2>3, <1>11
      <3>2. CASE n # r + 1
        <4>1. n \in 1 .. r BY <3>2, <1>3
        <4> QED BY <4>1, <1>11 DEF IInv, LinesIntact, r
      <3> QED BY <3>1, <3>2
    <2>6. r + 1 <= Lines BY <1>8, <1>3
    <2> QED BY <2>4, <2>5, <2>6, <1>11 DEF LinesIntact
  <1>16. Unbroken'
    <2>1. B + f <= last /\ B + f \in Nat /\ last - (B + f) \in Nat
      <3>1. Len(socket) \in Nat /\ Len(coming) \in Nat /\ Len(buffer) \in Nat BY <1>1
      <3> QED BY <3>1, <1>3, <1>7, <1>1
    <2>2. Len(left) + Len(socket) + Len(coming) = last - (B + f)
      <3>1. Len(socket) \in Nat /\ Len(coming) \in Nat /\ Len(buffer) \in Nat BY <1>1
      <3> QED BY <3>1, <1>10, <1>3, <1>7, <1>1
    <2>3. InPieces(B + f, left, socket, coming)
      <3>1. Len(buffer) \in Nat /\ Len(left) \in Nat /\ f \in Nat /\ Len(socket) \in Nat
            /\ f + Len(left) = Len(buffer)
        BY <1>1, <1>7, <1>10
      <3>2. ASSUME NEW k \in 1 .. Len(left) PROVE left[k] = B + f + k
        <4>1. f + k \in 1 .. Len(buffer) BY <3>1
        <4>2. left[k] = B + (f + k) BY <4>1, <1>10, <1>3 DEF InPieces
        <4> QED BY <4>2, <3>1, <1>3
      <3>3. ASSUME NEW k \in 1 .. Len(socket) PROVE socket[k] = B + f + Len(left) + k
        <4>1. socket[k] = B + Len(buffer) + k BY <1>3 DEF InPieces
        <4> QED BY <4>1, <3>1, <1>3
      <3>4. ASSUME NEW k \in 1 .. Len(coming)
            PROVE  coming[k] = B + f + Len(left) + Len(socket) + k
        <4>1. coming[k] = B + Len(buffer) + Len(socket) + k BY <1>3 DEF InPieces
        <4> QED BY <4>1, <3>1, <1>3
      <3> QED BY <3>2, <3>3, <3>4 DEF InPieces
    <2>4. left \o socket \o coming = Stretch(B + f, last - (B + f))
      <3> DEFINE d == last - (B + f)
                 e == B + f
      <3>1. d \in Nat /\ e \in Nat /\ Len(left) + Len(socket) + Len(coming) = d
            /\ InPieces(e, left, socket, coming)
        BY <2>1, <2>2, <2>3
      <3> HIDE DEF d, e
      <3>2. left \in Seq(Nat) /\ socket \in Seq(Nat) /\ coming \in Seq(Nat) BY <1>1, <1>10
      <3>3. e \in Nat /\ d \in Nat BY <3>1
      <3>4. left \o socket \o coming = Stretch(e, d)
            <=> Len(left) + Len(socket) + Len(coming) = d /\ InPieces(e, left, socket, coming)
        BY ONLY <3>2, <3>3, Pieces
      <3>5. left \o socket \o coming = Stretch(e, d) BY <3>1, <3>4
      <3> QED BY <3>5 DEF d, e
    <2>5. r + 1 <= Lines /\ last <= ends[Lines] BY <1>8, <1>3 DEF IInv, Unbroken
    <2>6. \A j, k \in 1 .. Len(left) : IsEol(left[j]) /\ IsEol(left[k]) => j = k BY <1>12
    <2>7. \A b : IsEol(b)' <=> IsEol(b) BY <1>2 DEF IsEol
    <2>8. \A j, k \in 1 .. Len(buffer') : IsEol(buffer[j])' /\ IsEol(buffer[k])' => j = k
      BY <1>2, <2>6 DEF IsEol
    <2>9. buffer' \o socket' \o coming' =
            [k \in 1 .. last' - Begin' |-> Begin' + k]
      BY <1>2, <1>14, <2>4 DEF Stretch
    <2> QED BY <1>2, <1>11, <1>14, <2>1, <2>5, <2>8, <2>9 DEF Unbroken
  <1>17. Types' BY <1>1, <1>2, <1>10, <1>11 DEF Types, LineEnds
  <1> QED BY <1>13, <1>15, <1>16, <1>17 DEF IInv

(* QEMU ends: the stream is a beginning of what it would have been.        *)
LEMMA CloseKeeps ==
  ASSUME IInv, NEW n \in 0 .. Len(coming), Close(n)
  PROVE  IInv'
  <1> DEFINE x == SubSeq(coming, 1, n)
             B == Begin
             d == Len(buffer) + Len(socket) + n
  <1>1. /\ buffer \in Seq(Nat) /\ socket \in Seq(Nat) /\ coming \in Seq(Nat)
        /\ LineEnds /\ last \in Nat /\ Lines \in Nat
    BY ReadLineAssumption DEF IInv, Types
  <1>2. /\ coming' = x /\ last' = last - (Len(coming) - n)
        /\ UNCHANGED <<pc, socket, buffer, ends, returned>>
    BY DEF Close
  <1>3. /\ B \in Nat /\ last - B \in Nat /\ InPieces(B, buffer, socket, coming)
        /\ Len(buffer) + Len(socket) + Len(coming) = last - B
    BY Bounds
  <1>4. x \in Seq(Nat) /\ Len(x) = n /\ \A k \in 1 .. n : x[k] = coming[k]
    BY <1>1
  <1> HIDE DEF x, B
  <1>5. /\ d \in Nat /\ last' - B = d /\ B <= last' /\ last' <= last /\ last' \in Nat
    <2>1. /\ Len(buffer) \in Nat /\ Len(socket) \in Nat /\ Len(coming) \in Nat
          /\ n \in 0 .. Len(coming)
      BY <1>1
    <2>2. d \in Nat BY <2>1
    <2>3. last' = last - (Len(coming) - n) /\ last \in Nat BY <1>1, <1>2
    <2>4. last - (Len(coming) - n) - B = d BY <2>1, <2>3, <1>3
    <2>5. last - (Len(coming) - n) = B + d /\ last - (Len(coming) - n) <= last
      BY <2>1, <2>3, <1>3
    <2> HIDE DEF d
    <2>6. last' = B + d /\ last' <= last BY <2>3, <2>5
    <2> QED BY <2>2, <2>6, <1>3
  <1>6. InPieces(B, buffer, socket, x)
    <2>1. \A k \in 1 .. Len(x) : x[k] = B + Len(buffer) + Len(socket) + k
      <3> SUFFICES ASSUME NEW k \in 1 .. Len(x)
                   PROVE  x[k] = B + Len(buffer) + Len(socket) + k
        OBVIOUS
      <3>1. k \in 1 .. n /\ k \in 1 .. Len(coming) BY <1>1, <1>4
      <3> QED BY <3>1, <1>3, <1>4 DEF InPieces
    <2> QED BY <2>1, <1>3 DEF InPieces
  <1> HIDE DEF d
  <1>7. buffer \o socket \o x = Stretch(B, d)
    <2>1. Len(buffer) + Len(socket) + Len(x) = d BY <1>4 DEF d
    <2>2. buffer \in Seq(Nat) /\ socket \in Seq(Nat) /\ x \in Seq(Nat) BY <1>1, <1>4
    <2>3. B \in Nat /\ d \in Nat BY <1>3, <1>5
    <2>4. buffer \o socket \o x = Stretch(B, d)
          <=> Len(buffer) + Len(socket) + Len(x) = d /\ InPieces(B, buffer, socket, x)
      <3> HIDE DEF B, x
      <3> QED BY ONLY <2>2, <2>3, Pieces
    <2> QED BY <2>1, <2>4, <1>6
  <1>8. Begin' = B BY <1>2 DEF B, Begin
  <1>9. Unbroken'
    <2>1. last <= ends[Lines] /\ ends[Lines] \in Nat
      BY <1>1 DEF IInv, Unbroken, LineEnds
    <2>2. last' <= ends'[Lines] BY <2>1, <1>1, <1>2, <1>5
    <2>3. buffer' \o socket' \o coming' = [k \in 1 .. last' - Begin' |-> Begin' + k]
      BY <1>2, <1>5, <1>7, <1>8 DEF Stretch
    <2>4. \A j, k \in 1 .. Len(buffer') : IsEol(buffer[j])' /\ IsEol(buffer[k])' => j = k
      BY <1>2 DEF IInv, Unbroken, IsEol
    <2> QED BY <1>2, <1>5, <1>8, <2>2, <2>3, <2>4 DEF IInv, Unbroken
  <1>10. Types' BY <1>2, <1>4, <1>5 DEF IInv, Types, LineEnds
  <1>11. LinesIntact' BY <1>2 DEF IInv, LinesIntact, Text
  <1>12. NothingHidden' BY <1>2 DEF IInv, NothingHidden, HasLine, IsEol
  <1> QED BY <1>9, <1>10, <1>11, <1>12 DEF IInv

LEMMA InitInv == Init => IInv
  <1> SUFFICES ASSUME Init PROVE IInv OBVIOUS
  <1>0. Lines \in Nat /\ Longest \in Nat /\ Lengths \subseteq 4 .. Longest
    BY ReadLineAssumption
  <1>1. /\ ends \in [0 .. Lines -> 0 .. Lines * Longest] /\ ends[0] = 0
        /\ \A n \in 1 .. Lines : ends[n] - ends[n - 1] \in Lengths
        /\ pc = "select" /\ coming = [k \in 1 .. ends[Lines] |-> k] /\ last = ends[Lines]
        /\ socket = <<>> /\ buffer = <<>> /\ returned = <<>>
    BY DEF Init
  <1>2. LineEnds
    <2>1. \A k \in 0 .. Lines : ends[k] \in Nat BY <1>1
    <2>2. ends \in [0 .. Lines -> Nat] BY <1>1, <2>1
    <2>3. \A n \in 1 .. Lines : ends[n] - ends[n - 1] >= 4 BY <1>0, <1>1
    <2> QED BY <2>2, <2>3 DEF LineEnds
  <1>3. ends[Lines] \in Nat /\ Len(returned) = 0 /\ Begin = 0
    BY <1>0, <1>1, <1>2 DEF LineEnds, Begin
  <1>4. coming = Stretch(0, ends[Lines])
    <2> DEFINE e == ends[Lines]
    <2>1. e \in Nat /\ coming = [k \in 1 .. e |-> k] BY <1>1, <1>3
    <2> HIDE DEF e
    <2>2. [k \in 1 .. e |-> k] = [k \in 1 .. e |-> 0 + k] BY <2>1
    <2> QED BY <2>1, <2>2 DEF Stretch, e
  <1>5. coming \in Seq(Nat) /\ Len(coming) = ends[Lines]
    <2>1. 0 \in Nat OBVIOUS
    <2>2. \A e \in Nat : Stretch(0, e) \in Seq(Nat) /\ Len(Stretch(0, e)) = e
      BY <2>1, StretchIs
    <2> QED BY <2>2, <1>3, <1>4
  <1>6. Types
    <2>1. <<>> \in Seq(Nat) /\ <<>> \in Seq(Seq(Nat)) OBVIOUS
    <2> QED BY <2>1, <1>1, <1>2, <1>3, <1>5 DEF Types
  <1>7. buffer \o socket \o coming = coming BY <1>1, <1>5
  <1>8. Unbroken
    <2>1. Len(buffer) = 0 BY <1>1
    <2>2. last - Begin = ends[Lines] BY <1>1, <1>3
    <2>3. buffer \o socket \o coming = [k \in 1 .. last - Begin |-> Begin + k]
      BY <1>3, <1>4, <1>7, <2>2 DEF Stretch
    <2>4. Begin <= last /\ last <= ends[Lines] /\ Len(returned) <= Lines BY <1>0, <1>1, <1>3
    <2> QED BY <2>1, <2>3, <2>4 DEF Unbroken
  <1>9. LinesIntact BY <1>0, <1>3 DEF LinesIntact
  <1>10. NothingHidden BY <1>1 DEF NothingHidden, HasLine
  <1> QED BY <1>6, <1>8, <1>9, <1>10 DEF IInv

LEMMA NextInv == IInv /\ [Next]_vars => IInv'
  <1> SUFFICES ASSUME IInv, [Next]_vars PROVE IInv' OBVIOUS
  <1>1. ASSUME UNCHANGED <<coming, socket, buffer, ends, last, returned>>,
               pc' = pc \/ pc' = "read"
        PROVE  IInv'
    <2>1. Types' BY <1>1 DEF IInv, Types, LineEnds
    <2>2. Unbroken' BY <1>1 DEF IInv, Unbroken, Begin, IsEol
    <2>3. LinesIntact' BY <1>1 DEF IInv, LinesIntact, Text
    <2>4. NothingHidden' BY <1>1 DEF IInv, NothingHidden, HasLine, IsEol
    <2> QED BY <2>1, <2>2, <2>3, <2>4 DEF IInv
  <1>2. ASSUME NEW n \in 1 .. Len(coming), Arrive(n) PROVE IInv' BY <1>2, ArriveKeeps
  <1>3. ASSUME NEW n \in 0 .. Len(coming), Close(n) PROVE IInv' BY <1>3, CloseKeeps
  <1>4. CASE Readable BY <1>1, <1>4 DEF Readable
  <1>5. CASE Timeout BY <1>1, <1>5 DEF Timeout, vars
  <1>6. CASE ReadChunk BY <1>6, ReadChunkKeeps
  <1>7. CASE ReadNothing BY <1>1, <1>7 DEF ReadNothing, vars
  <1>8. CASE ReturnLine BY <1>8, ReturnLineKeeps
  <1>9. CASE UNCHANGED vars BY <1>1, <1>9 DEF vars
  <1> QED BY <1>2, <1>3, <1>4, <1>5, <1>6, <1>7, <1>8, <1>9 DEF Next

-----------------------------------------------------------------------------
LEMMA InvCorrect == Spec => []IInv
  BY InitInv, NextInv, PTL DEF Spec

(* What was not returned is the rest of the stream, in order and without a *)
(* gap, and the buffer holds one end of a line at most (Unbroken).         *)
THEOREM StreamIsUnbroken == Spec => []Unbroken
  <1>1. IInv => Unbroken BY DEF IInv
  <1> QED BY <1>1, InvCorrect, PTL

(* read_line returns the lines of QEMU whole, in order and each once       *)
(* (LinesIntact), for any lines and however the bytes arrive.              *)
THEOREM LinesAreIntact == Spec => []LinesIntact
  <1>1. IInv => LinesIntact BY DEF IInv
  <1> QED BY <1>1, InvCorrect, PTL

(* When the loop of the slice asks select(), no whole line is left in the  *)
(* buffer of read_line (NothingHidden): as long as a line has no less than *)
(* the four bytes that are read at a time.                                 *)
THEOREM NothingIsHidden == Spec => []NothingHidden
  <1>1. IInv => NothingHidden BY DEF IInv
  <1> QED BY <1>1, InvCorrect, PTL
=============================================================================
