------------------------------- MODULE Framing -------------------------------
(***************************************************************************)
(* One direction of one link of the broadcast: broadcast() and the read    *)
(* part of the main loop of node/src/main.rs.                              *)
(*                                                                         *)
(* A message is written to a non-blocking stream with one write(), whose   *)
(* count is ignored.  The reader takes up to ReadSize bytes at a time,     *)
(* appends them to what it had kept, takes all the whole messages from the *)
(* front of that and keeps the rest.  A byte is known by the message it is *)
(* of and its place in it; messages are numbered in the order they are     *)
(* written.                                                                *)
(***************************************************************************)
EXTENDS Integers, Sequences, FiniteSets

CONSTANTS
  Size,        \* Size[m]: length of message m; all the messages are 1 .. Len(Size)
  ReadSize,    \* length of temp_recv_buffer
  Capacities   \* bound: how many bytes the two sockets hold, one of these

ASSUME FramingAssumption ==
  /\ Size \in Seq(Nat \ {0})
  /\ ReadSize \in Nat \ {0}
  /\ Capacities \subseteq Nat \ {0}

VARIABLES
  capacity,    \* what the sockets hold in this run
  written,     \* number of messages write() has been called for
  cutAt,       \* the first message of which a byte is lost, or 0
  panicked,    \* write() failed with WouldBlock and unwrap() ended the sender
  wire,        \* bytes written and not read
  recvBuffer,  \* tcp_stream_recv_buffers[stream]
  received     \* the messages parsed so far

framingVars == <<capacity, written, cutAt, panicked, wire, recvBuffer, received>>

FramingInit ==
  /\ capacity \in Capacities
  /\ written = 0
  /\ cutAt = 0
  /\ panicked = FALSE
  /\ wire = <<>>
  /\ recvBuffer = <<>>
  /\ received = <<>>

Bytes(m, n) == [k \in 1 .. n |-> [msg |-> m, pos |-> k]]
IsLast(b) == b.pos = Size[b.msg]
Free == capacity - Len(wire)

(* serde_json reads one message after the other as long as each begins     *)
(* where the last one ended and all its bytes follow; at anything else the *)
(* stream of results ends, after one error.  byte_offset() is then the end *)
(* of the last whole message.                                              *)
InPlace(s, k) ==
  IF k = 1 \/ IsLast(s[k - 1])
  THEN s[k].pos = 1
  ELSE s[k].msg = s[k - 1].msg /\ s[k].pos = s[k - 1].pos + 1
ByteOffsetOfFirst(s) ==                                          \* mutant
  CHOOSE n \in 0 .. Len(s) :
    /\ n > 0 => IsLast(s[n]) /\ (\A k \in 1 .. n : InPlace(s, k) /\ (k < n => ~IsLast(s[k])))
    /\ n = 0 => ~\E k \in 1 .. Len(s) : IsLast(s[k]) /\ (\A j \in 1 .. k : InPlace(s, j))
ByteOffset(s) ==
  CHOOSE n \in 0 .. Len(s) :
    /\ n > 0 => IsLast(s[n]) /\ (\A k \in 1 .. n : InPlace(s, k))
    /\ \A k \in n + 1 .. Len(s) : IsLast(s[k]) => \E j \in 1 .. k : ~InPlace(s, j)
Ends(s) == {k \in 1 .. ByteOffset(s) : IsLast(s[k])}
Parsed(s) ==
  [i \in 1 .. Cardinality(Ends(s)) |->
     s[CHOOSE k \in Ends(s) : Cardinality({e \in Ends(s) : e <= k}) = i].msg]

-----------------------------------------------------------------------------
(* broadcast() writes the next message to the stream.                      *)
Write ==
  /\ ~panicked
  /\ written < Len(Size)
  /\ Free > 0
  /\ LET m == written + 1
         n == IF Size[m] <= Free THEN Size[m] ELSE Free
     IN /\ wire' = wire \o Bytes(m, n)
        /\ cutAt' = IF cutAt = 0 /\ n < Size[m] THEN m ELSE cutAt
        /\ written' = m
  /\ UNCHANGED <<capacity, panicked, recvBuffer, received>>

(* write() would block: the `?' of broadcast() and the unwrap() behind it  *)
(* end the sender.  Its sockets are closed, and what its kernel still had  *)
(* to transmit may be lost.                                                *)
WriteFails ==
  /\ ~panicked
  /\ written < Len(Size)
  /\ Free <= 0
  /\ panicked' = TRUE
  /\ \E n \in 0 .. Len(wire) :
       /\ wire' = SubSeq(wire, 1, n)
       /\ cutAt' = IF n < Len(wire) /\ (cutAt = 0 \/ wire[n + 1].msg < cutAt)
                   THEN wire[n + 1].msg ELSE cutAt
  /\ UNCHANGED <<capacity, written, recvBuffer, received>>

\* mutant: what was not a whole message is cleared with the rest
ReadAndClear ==
  /\ wire # <<>>
  /\ \E n \in 1 .. Len(wire) :
       /\ n <= ReadSize
       /\ LET s == recvBuffer \o SubSeq(wire, 1, n) IN
            /\ received' = received \o Parsed(s)
            /\ recvBuffer' = <<>>
       /\ wire' = SubSeq(wire, n + 1, Len(wire))
  /\ UNCHANGED <<capacity, written, cutAt, panicked>>

\* mutant: the messages that were parsed stay in the buffer
ReadWithoutDrain ==
  /\ wire # <<>>
  /\ \E n \in 1 .. Len(wire) :
       /\ n <= ReadSize
       /\ LET s == recvBuffer \o SubSeq(wire, 1, n) IN
            /\ received' = received \o Parsed(s)
            /\ recvBuffer' = s
       /\ wire' = SubSeq(wire, n + 1, Len(wire))
  /\ UNCHANGED <<capacity, written, cutAt, panicked>>

(* select() has reported the stream: read, parse, drain.  The bytes of the *)
(* wire may have arrived only in part.                                     *)
ReadStream ==
  /\ wire # <<>>
  /\ \E n \in 1 .. Len(wire) :
       /\ n <= ReadSize
       /\ LET s == recvBuffer \o SubSeq(wire, 1, n) IN
            /\ received' = received \o Parsed(s)
            /\ recvBuffer' = SubSeq(s, ByteOffset(s) + 1, Len(s))
       /\ wire' = SubSeq(wire, n + 1, Len(wire))
  /\ UNCHANGED <<capacity, written, cutAt, panicked>>

-----------------------------------------------------------------------------
FramingTypeOK ==
  /\ capacity \in Capacities
  /\ written \in 0 .. Len(Size)
  /\ cutAt \in 0 .. written
  /\ panicked \in BOOLEAN
  /\ wire \in Seq([msg : 1 .. Len(Size), pos : Nat \ {0}]) /\ Len(wire) <= capacity
  /\ recvBuffer \in Seq([msg : 1 .. Len(Size), pos : Nat \ {0}])
  /\ received \in Seq(1 .. Len(Size))

(* What is on its way from the one process to the other: the bytes of the  *)
(* messages that are not received yet, in the order of the messages and of *)
(* the bytes in a message; of each of them all the bytes, up to the first  *)
(* that lost one.  Of that one there is a byte on its way for ever, but    *)
(* never the last, and behind it begins another message.  This is the      *)
(* inductive invariant from which the theorems of LinksProofs follow.      *)
End(m) == [msg |-> m, pos |-> Size[m]]
InOrder(s) ==
  /\ \A k \in 1 .. Len(s) :
       /\ s[k].msg \in Len(received) + 1 .. written
       /\ s[k].pos <= Size[s[k].msg]
       /\ s[k].pos <= k
       /\ \A p \in 1 .. s[k].pos - 1 : s[k - p].msg = s[k].msg
  /\ \A k, l \in 1 .. Len(s) : k < l =>
       /\ s[k].msg <= s[l].msg
       /\ s[k].msg = s[l].msg => s[l].pos = s[k].pos + (l - k)
WholeUntilCut(s) ==
  \A m \in Len(received) + 1 .. written :
    cutAt = 0 \/ m < cutAt => \E k \in 1 .. Len(s) : s[k] = End(m)
CutForEver(s) ==
  cutAt # 0 =>
    /\ Len(received) < cutAt
    /\ ~panicked => s # <<>> /\ s[Len(s)].msg = written
    /\ \A k \in 1 .. Len(s) :
         /\ s[k] # End(cutAt)
         /\ s[k].msg > cutAt =>
              \E c \in 1 .. k - 1 : s[c].msg = cutAt /\ s[c + 1].msg > cutAt
StreamInOrder ==
  /\ Len(received) <= written
  /\ received = [m \in 1 .. Len(received) |-> m]
  /\ LET s == recvBuffer \o wire IN InOrder(s) /\ WholeUntilCut(s) /\ CutForEver(s)
  /\ cutAt = 0 => \A k \in 1 .. Len(recvBuffer) : ~IsLast(recvBuffer[k])

(* What stays in the buffer between two reads is the beginning of one      *)
(* message, never a whole one: select() would not return for it, and no    *)
(* other read would either.  Only behind a message that was cut does the   *)
(* buffer grow.                                                            *)
OnlyARemainder ==
  \/ cutAt # 0
  \/ recvBuffer = <<>>
  \/ LET m == recvBuffer[1].msg IN
       Len(recvBuffer) < Size[m] /\ recvBuffer = Bytes(m, Len(recvBuffer))

(* The link as the protocol sees it (module Link): everything before the   *)
(* first lost byte is received, once and in order; the message it was of   *)
(* and those behind it never are, whatever of them arrives.                *)
SentWhole == [m \in 1 .. (IF cutAt = 0 THEN written ELSE cutAt - 1) |-> m]
TheLink == INSTANCE Link WITH
  Message <- 1 .. Len(Size), sent <- SentWhole, received <- received,
  broken <- (cutAt # 0 \/ panicked)
ImplementsLink == TheLink!Spec

(* Nothing that was sent before a break waits for ever.                    *)
DeliversLink == TheLink!Fairness
=============================================================================
