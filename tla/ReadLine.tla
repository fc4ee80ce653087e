------------------------------ MODULE ReadLine ------------------------------
(***************************************************************************)
(* read_line of helpers.h and its caller, the loop over a slice: the QMP   *)
(* socket is a stream of bytes that arrive in pieces of any size.  The     *)
(* loop asks select() whether bytes are waiting in the socket, and         *)
(* read_line collects bytes in a buffer of its own until it holds a line.  *)
(* select() knows nothing of that buffer: a whole line left in it would    *)
(* not be seen until QEMU happens to send something more, and after a STOP *)
(* event it may not.  QEMU may end at any time; from then on read() gives  *)
(* nothing, at once, and read_line turns for ever unless it has a line.    *)
(*                                                                         *)
(* A byte is its place among all that QEMU has to send: the stream is      *)
(* 1, 2, 3 .. and line n ends with byte ends[n].                           *)
(***************************************************************************)
EXTENDS Integers, Sequences, SequencesExt

CONSTANTS
  Lines,    \* number of lines that QEMU has to send
  Longest,  \* bound: length of the longest line
  Lengths   \* their possible lengths, the end of line included

(* No line of QMP is shorter than four bytes: the shortest is the empty    *)
(* reply, {"return": {}} and the end of line.                              *)
ASSUME ReadLineAssumption ==
  /\ Lines \in Nat /\ Longest \in Nat
  /\ Lengths \subseteq 4 .. Longest

VARIABLES
  pc,        \* "select", or "read" inside read_line
  coming,    \* bytes sent by QEMU, or still to be sent, that have not arrived
  closed,    \* QEMU has ended
  socket,    \* bytes waiting in the socket
  buffer,    \* qmp_socket_to_buffers[socket]
  ends,      \* ends[n]: the byte that ends line n; line 1 begins behind ends[0]
  last,      \* the last byte that QEMU sends
  returned   \* the lines that read_line has returned, oldest first

vars == <<pc, coming, closed, socket, buffer, ends, last, returned>>

(* sizeof(BUFF_SIZE), which is the size of an int and not of the buffer.   *)
WholeBuffer == 1024    \* mutant
Chunk == 4

IsEol(b) == \E n \in 1 .. Lines : b = ends[n]
HasLine(bytes) == \E k \in 1 .. Len(bytes) : IsEol(bytes[k])

-----------------------------------------------------------------------------
Init ==
  /\ pc = "select"
  /\ ends \in {e \in [0 .. Lines -> 0 .. Lines * Longest] :
                 e[0] = 0 /\ \A n \in 1 .. Lines : e[n] - e[n - 1] \in Lengths}
  /\ coming = [k \in 1 .. ends[Lines] |-> k]
  /\ closed = FALSE /\ last = ends[Lines]
  /\ socket = <<>> /\ buffer = <<>> /\ returned = <<>>

Arrive(n) ==
  /\ socket' = socket \o SubSeq(coming, 1, n)
  /\ coming' = SubSeq(coming, n + 1, Len(coming))
  /\ UNCHANGED <<pc, closed, buffer, ends, last, returned>>

(* QEMU ends when it has sent all but the last bytes, perhaps inside a     *)
(* line.                                                                   *)
Close(n) ==
  /\ ~closed
  /\ closed' = TRUE
  /\ coming' = SubSeq(coming, 1, n)
  /\ last' = last - (Len(coming) - n)
  /\ UNCHANGED <<pc, socket, buffer, ends, returned>>
AtEnd == closed /\ coming = <<>> /\ socket = <<>>

(* select() finds bytes or the end in the socket; read_line is called...   *)
Readable ==
  /\ pc = "select"
  /\ socket # <<>> \/ AtEnd
  /\ pc' = "read"
  /\ UNCHANGED <<coming, closed, socket, buffer, ends, last, returned>>

(* ...or it times out.                                                     *)
Timeout ==
  /\ pc = "select"
  /\ socket = <<>> /\ ~AtEnd
  /\ UNCHANGED vars

(* A turn of the loop of read_line; read() blocks while there is nothing.  *)
ReadChunk ==
  /\ pc = "read"
  /\ ~HasLine(buffer)
  /\ socket # <<>>
  /\ LET n == IF Len(socket) < Chunk THEN Len(socket) ELSE Chunk
     IN /\ buffer' = buffer \o SubSeq(socket, 1, n)
        /\ socket' = SubSeq(socket, n + 1, Len(socket))
  /\ UNCHANGED <<pc, coming, closed, ends, last, returned>>

(* At the end of the stream read() returns 0, and the loop turns.          *)
ReadNothing ==
  /\ pc = "read"
  /\ ~HasLine(buffer)
  /\ AtEnd
  /\ UNCHANGED vars

\* mutant: erase(0, res)
ReturnLineButEol ==
  /\ pc = "read"
  /\ HasLine(buffer)
  /\ LET res == SelectInSeq(buffer, IsEol)
     IN /\ returned' = Append(returned, SubSeq(buffer, 1, res - 1))
        /\ buffer' = SubSeq(buffer, res, Len(buffer))
  /\ pc' = "select"
  /\ UNCHANGED <<coming, closed, socket, ends, last>>

\* mutant: clear() for erase()
ReturnAndClear ==
  /\ pc = "read"
  /\ HasLine(buffer)
  /\ LET res == SelectInSeq(buffer, IsEol)
     IN returned' = Append(returned, SubSeq(buffer, 1, res - 1))
  /\ buffer' = <<>>
  /\ pc' = "select"
  /\ UNCHANGED <<coming, closed, socket, ends, last>>

(* The first line is cut off the buffer and returned without its end.      *)
ReturnLine ==
  /\ pc = "read"
  /\ HasLine(buffer)
  /\ LET res == SelectInSeq(buffer, IsEol)
     IN /\ returned' = Append(returned, SubSeq(buffer, 1, res - 1))
        /\ buffer' = SubSeq(buffer, res + 1, Len(buffer))
  /\ pc' = "select"
  /\ UNCHANGED <<coming, closed, socket, ends, last>>

Next ==
  \/ \E n \in 1 .. Len(coming) : Arrive(n)
  \/ \E n \in 0 .. Len(coming) : Close(n)
  \/ Readable \/ Timeout \/ ReadChunk \/ ReadNothing \/ ReturnLine

(* What was sent arrives, and the simulator's thread keeps running.        *)
Spec ==
  /\ Init /\ [][Next]_vars
  /\ WF_vars(\E n \in 1 .. Len(coming) : Arrive(n))
  /\ WF_vars(Readable \/ ReadChunk \/ ReturnLine)

-----------------------------------------------------------------------------
(* What was not returned is on its way in order and without a gap; what is *)
(* in the buffer holds one end of a line at most, for no line is shorter   *)
(* than what is read at a time.  From this the theorems of ReadLineProofs  *)
(* follow.                                                                 *)
Begin == ends[Len(returned)]
Unbroken ==
  /\ Len(returned) <= Lines /\ Begin <= last /\ last <= ends[Lines]
  /\ buffer \o socket \o coming = [k \in 1 .. last - Begin |-> Begin + k]
  /\ \A j, k \in 1 .. Len(buffer) : IsEol(buffer[j]) /\ IsEol(buffer[k]) => j = k

(* The lines are returned whole, in order and none twice, however the      *)
(* stream was cut: each one is the text QEMU sent, without its end.        *)
Text(n) == [k \in 1 .. ends[n] - ends[n - 1] - 1 |-> ends[n - 1] + k]
LinesIntact ==
  /\ Len(returned) <= Lines
  /\ \A n \in 1 .. Len(returned) : returned[n] = Text(n)

(* No whole line stays behind in the buffer when the loop goes back to     *)
(* select(), so what select() says of the socket is all there is to know.  *)
NothingHidden == pc = "select" => ~HasLine(buffer)

(* Every whole line that was sent is returned in the end, the last one     *)
(* too, and the one before the end of the stream.                          *)
EveryLineReturned == <>[](\A n \in 1 .. Lines : ends[n] <= last <=> n <= Len(returned))
=============================================================================
