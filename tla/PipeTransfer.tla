----------------------------- MODULE PipeTransfer -----------------------------
(* The channel to a game on Windows, below AuthBroker: overlapped reads and *)
(* writes of a named pipe with timeouts (auth/broker/windows_channel.rs),   *)
(* and the loop of the worker that puts the frames of the game together and *)
(* answers them (read_exact_until and serve of auth/broker/channel.rs).  A  *)
(* transfer that is late is cancelled, while the kernel may be completing   *)
(* it.  Each direction carries the bytes 1, 2, 3, ...                       *)
EXTENDS Naturals, Sequences

CONSTANTS
    HeaderSize,     \* bytes that tell the length of what follows
    RequestSize,    \* bytes of a request
    AnswerSize,     \* bytes of an answer
    PipeCapacity,   \* bytes the pipe holds for a reader
    MaxSent         \* bound of the model: bytes the game sends

ASSUME PipeAssumption ==
    /\ HeaderSize \in Nat /\ HeaderSize > 1
    /\ {RequestSize, AnswerSize, PipeCapacity} \subseteq Nat \ {0}
    /\ MaxSent \in Nat

VARIABLES
    sentBytes,  \* how many bytes the game has sent
    toWorker,   \* the bytes in the pipe towards the worker
    toGame,     \* and towards the game
    heard,      \* what the game has read
    gone,       \* the game has closed its end, or ended
    stopped,    \* the guard was dropped, or the lease revoked
    io,         \* the operation the kernel has, with the buffer
    transfer,       \* where transfer is: "out", "waiting", "late", "draining"
    piece,       \* what the worker reads or writes
    rest,       \* how many bytes of it are missing
    overdue,    \* five seconds have passed since the first byte of a frame
    taken,      \* what the worker has read
    spoken      \* how many bytes the worker has written

pipeEnds == <<sentBytes, toWorker, toGame, heard, gone, stopped>>
workerVars == <<piece, rest, overdue, taken, spoken>>
pipeVars == <<pipeEnds, io, transfer, workerVars>>

NoIo == [dir |-> "none", state |-> "none", want |-> 0, bytes |-> <<>>, cancelled |-> FALSE]

Reading == {"first", "header", "request"}
Writing == {"length", "answer"}

Size == [first |-> 1, header |-> HeaderSize - 1, request |-> RequestSize,
         length |-> HeaderSize, answer |-> AnswerSize, ended |-> 0]

Following == [first |-> "header", header |-> "request", request |-> "length",
              length |-> "answer", answer |-> "first"]

\* The pipe is connected before the game exists.
PipeInit ==
    /\ sentBytes = 0 /\ toWorker = <<>> /\ toGame = <<>> /\ heard = <<>>
    /\ gone = FALSE /\ stopped = FALSE
    /\ io = NoIo /\ transfer = "out"
    /\ piece = "first" /\ rest = 1 /\ overdue = FALSE
    /\ taken = <<>> /\ spoken = 0

PipeTypeOK ==
    /\ sentBytes \in Nat /\ toWorker \in Seq(Nat) /\ toGame \in Seq(Nat) /\ heard \in Seq(Nat)
    /\ gone \in BOOLEAN /\ stopped \in BOOLEAN
    /\ io \in [dir : {"none", "read", "write"},
               state : {"none", "pending", "done", "broken", "aborted"},
               want : Nat, bytes : Seq(Nat), cancelled : BOOLEAN]
    /\ transfer \in {"out", "waiting", "late", "draining"}
    /\ piece \in Reading \cup Writing \cup {"ended"}
    /\ rest \in Nat /\ overdue \in BOOLEAN /\ taken \in Seq(Nat) /\ spoken \in Nat

-----------------------------------------------------------------------------
(* The worker begins a transfer.                                            *)

\* Before each read it looks whether it still may, and at the deadline.
ReadGivesUp ==
    /\ transfer = "out" /\ piece \in Reading
    /\ stopped \/ overdue
    /\ piece' = "ended" /\ rest' = 0
    /\ UNCHANGED <<pipeEnds, io, transfer, overdue, taken, spoken>>

BeginRead ==
    /\ transfer = "out" /\ piece \in Reading
    /\ ~stopped /\ ~overdue
    /\ io' = [NoIo EXCEPT !.dir = "read", !.state = "pending", !.want = rest]
    /\ transfer' = "waiting"
    /\ UNCHANGED <<pipeEnds, workerVars>>

BeginWrite ==
    /\ transfer = "out" /\ piece \in Writing
    /\ io' = [NoIo EXCEPT !.dir = "write", !.state = "pending", !.want = rest,
                          !.bytes = [k \in 1 .. rest |-> spoken + k]]
    /\ transfer' = "waiting"
    /\ UNCHANGED <<pipeEnds, workerVars>>

-----------------------------------------------------------------------------
(* The kernel.                                                              *)

Pending(dir) == io.state = "pending" /\ io.dir = dir

\* A read is complete with the bytes there are.
KernelReads ==
    /\ Pending("read") /\ toWorker # <<>>
    /\ LET n == IF Len(toWorker) < io.want THEN Len(toWorker) ELSE io.want
       IN  /\ io' = [io EXCEPT !.state = "done", !.bytes = SubSeq(toWorker, 1, n)]
           /\ toWorker' = SubSeq(toWorker, n + 1, Len(toWorker))
    /\ UNCHANGED <<sentBytes, toGame, heard, gone, stopped, transfer, workerVars>>

\* A write is complete when the pipe has all of it.
KernelWrites ==
    /\ Pending("write") /\ ~gone /\ Len(toGame) < PipeCapacity
    /\ toGame' = Append(toGame, Head(io.bytes))
    /\ io' = [io EXCEPT !.bytes = Tail(@), !.state = IF Len(io.bytes) = 1 THEN "done" ELSE @]
    /\ UNCHANGED <<sentBytes, toWorker, heard, gone, stopped, transfer, workerVars>>

KernelBreaks ==
    /\ io.state = "pending" /\ gone
    /\ io.dir = "read" => toWorker = <<>>
    /\ io' = [io EXCEPT !.state = "broken"]
    /\ UNCHANGED <<pipeEnds, transfer, workerVars>>

KernelAborts ==
    /\ io.state = "pending" /\ io.cancelled
    /\ io' = [io EXCEPT !.state = "aborted"]
    /\ UNCHANGED <<pipeEnds, transfer, workerVars>>

-----------------------------------------------------------------------------
(* transfer waits, and is told how the operation ended.                     *)

Late ==
    /\ transfer = "waiting" /\ io.state = "pending"
    /\ transfer' = "late"
    /\ UNCHANGED <<pipeEnds, io, workerVars>>

\* The kernel is asked to cancel what it may have completed meanwhile.
Cancel ==
    /\ transfer = "late"
    /\ transfer' = "draining"
    /\ io' = [io EXCEPT !.cancelled = TRUE]
    /\ UNCHANGED <<pipeEnds, workerVars>>

TimedOut == "timed out"

Outcome(o) == CASE o.state = "done" -> "transferred"
                [] o.state = "broken" -> "no peer"
                [] o.state = "aborted" -> "interrupted"

\* Faulty: what has been cancelled is taken for late.
AtDeadlineUnseen(o) == TimedOut

AtDeadline(o) == IF o.state = "aborted" THEN TimedOut ELSE Outcome(o)

\* A piece is complete: the next one, unless its content makes the worker end.
Advance(done) ==
    \E next \in {Following[done]} \cup (IF done \in {"header", "request", "answer"}
                                         THEN {"ended"} ELSE {}) :
        /\ piece' = next
        /\ rest' = Size[next]
        /\ overdue' = FALSE

\* read_exact_until: nothing is an end, a timeout another round.
ReadReturns(outcome) ==
    /\ piece \in Reading
    /\ CASE outcome = "transferred" ->
              /\ taken' = taken \o io.bytes
              /\ IF Len(io.bytes) = rest THEN Advance(piece)
                 ELSE rest' = rest - Len(io.bytes) /\ UNCHANGED <<piece, overdue>>
         [] outcome = "no peer" -> piece' = "ended" /\ rest' = 0 /\ UNCHANGED <<overdue, taken>>
         [] outcome \in {TimedOut, "interrupted"} -> UNCHANGED <<piece, rest, overdue, taken>>
    /\ UNCHANGED spoken

\* write_all: a timeout ends the worker.
WriteReturns(outcome) ==
    /\ piece \in Writing
    /\ IF outcome = "transferred" THEN spoken' = spoken + rest /\ Advance(piece)
       ELSE piece' = "ended" /\ rest' = 0 /\ UNCHANGED <<overdue, spoken>>
    /\ UNCHANGED taken

Returns(outcome) ==
    /\ ReadReturns(outcome) \/ WriteReturns(outcome)
    /\ io' = NoIo /\ transfer' = "out"
    /\ UNCHANGED pipeEnds

Completed ==
    /\ transfer = "waiting" /\ io.state # "pending"
    /\ Returns(Outcome(io))

Drained ==
    /\ transfer = "draining" /\ io.state # "pending"
    /\ Returns(AtDeadline(io))

-----------------------------------------------------------------------------
(* The game, the rest of the launcher, and time.                            *)

GameSends ==
    /\ ~gone /\ sentBytes < MaxSent /\ Len(toWorker) < PipeCapacity
    /\ sentBytes' = sentBytes + 1
    /\ toWorker' = Append(toWorker, sentBytes + 1)
    /\ UNCHANGED <<toGame, heard, gone, stopped, io, transfer, workerVars>>

GameHears ==
    /\ ~gone /\ toGame # <<>>
    /\ heard' = Append(heard, Head(toGame))
    /\ toGame' = Tail(toGame)
    /\ UNCHANGED <<sentBytes, toWorker, gone, stopped, io, transfer, workerVars>>

GameCloses ==
    /\ ~gone /\ gone' = TRUE
    /\ UNCHANGED <<sentBytes, toWorker, toGame, heard, stopped, io, transfer, workerVars>>

StopServing ==
    /\ ~stopped /\ stopped' = TRUE
    /\ UNCHANGED <<sentBytes, toWorker, toGame, heard, gone, io, transfer, workerVars>>

FiveSeconds ==
    /\ piece \in {"header", "request"} /\ overdue' = TRUE
    /\ UNCHANGED <<pipeEnds, io, transfer, piece, rest, taken, spoken>>

PipeNext ==
    \/ ReadGivesUp \/ BeginRead \/ BeginWrite
    \/ KernelReads \/ KernelWrites \/ KernelBreaks \/ KernelAborts
    \/ Late \/ Cancel \/ Completed \/ Drained
    \/ GameSends \/ GameHears \/ GameCloses \/ StopServing \/ FiveSeconds

PipeSpec == PipeInit /\ [][PipeNext]_pipeVars

-----------------------------------------------------------------------------
(* Properties.                                                              *)

UpTo(n) == [k \in 1 .. n |-> k]

\* What a read has in its buffer, and what a write has not put into the pipe.
Buffered == IF io.dir = "read" THEN io.bytes ELSE <<>>

\* Whatever is late and whenever it is cancelled, the worker gets the bytes the
\* game sent, each once and in order, the game reads nothing but the beginning
\* of the answers, and no operation is left to write to a buffer that is gone.
NothingLostOrRepeated ==
    /\ taken \o Buffered \o toWorker = UpTo(sentBytes)
    /\ heard \o toGame = UpTo(Len(heard) + Len(toGame))
    /\ piece # "ended" /\ transfer = "out" => Len(heard) + Len(toGame) = spoken
    /\ transfer = "out" <=> io = NoIo
=============================================================================
