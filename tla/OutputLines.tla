----------------------------- MODULE OutputLines -----------------------------
(* The lines of the game's output (read_lines of minecraft/launcher.rs).    *)
(* The pipe gives the bytes in pieces of any size; a line ends at a newline *)
(* or at the end of the output, is cut at a limit, and loses one carriage   *)
(* return.  Both brokers of a game read their commands from these lines.    *)
EXTENDS Naturals, Sequences

CONSTANTS
    MaxOutput,   \* bound of the model: bytes the game writes
    MaxLine      \* MAX_LOG_LINE_BYTES

ASSUME OutputAssumption == MaxOutput \in Nat /\ MaxLine \in Nat

VARIABLES
    output,      \* what the game writes
    consumed,    \* how much of it has been read
    beginning,   \* where the present line begins
    line, truncated,
    reading,     \* "read", "cut" once a line has ended, "said", "ended"
    said         \* the last line handed on

linesVars == <<output, consumed, beginning, line, truncated, reading, said>>

Bytes == {"\n", "\r", "x"}
NoLine == [text |-> <<>>, truncated |-> FALSE]

LinesInit ==
    /\ output \in UNION {[1..n -> Bytes] : n \in 0..MaxOutput}
    /\ consumed = 0 /\ beginning = 0
    /\ line = <<>> /\ truncated = FALSE
    /\ reading = "read" /\ said = NoLine

Least(a, b) == IF a < b THEN a ELSE b

\* The bytes after the first that precede a newline, up to the last.
Content(first, last) ==
    LET ends == {k \in first + 1 .. last : output[k] = "\n"}
    IN  IF ends = {} THEN last - first
        ELSE (CHOOSE k \in ends : \A l \in ends : k <= l) - first - 1

\* Faulty: the limit is that of a piece.
RoomForPiece == MaxLine

\* How many more bytes the line may take.
Room == MaxLine - Least(MaxLine, Len(line))

\* A piece is read up to its first newline.
ReadPiece(last) ==
    /\ reading = "read" /\ consumed < last
    /\ LET length == Content(consumed, last)
           copied == Least(length, Room)
           newline == consumed + length < last
       IN  /\ line' = line \o SubSeq(output, consumed + 1, consumed + copied)
           /\ truncated' = (truncated \/ copied < length)
           /\ consumed' = consumed + length + (IF newline THEN 1 ELSE 0)
           /\ reading' = IF newline THEN "cut" ELSE "read"
    /\ UNCHANGED <<output, beginning, said>>

\* The output ends, or cannot be read; an unfinished line is handed on only in
\* the first case.
EndOfOutput ==
    /\ reading = "read" /\ consumed = Len(output)
    /\ reading' = IF consumed > beginning THEN "cut" ELSE "ended"
    /\ UNCHANGED <<output, consumed, beginning, line, truncated, said>>

OutputFails ==
    /\ reading = "read" /\ reading' = "ended"
    /\ UNCHANGED <<output, consumed, beginning, line, truncated, said>>

WithoutReturn(bytes) ==
    IF bytes # <<>> /\ bytes[Len(bytes)] = "\r"
    THEN SubSeq(bytes, 1, Len(bytes) - 1) ELSE bytes

OnLine ==
    /\ reading = "cut"
    /\ said' = [text |-> WithoutReturn(line), truncated |-> truncated]
    /\ reading' = "said"
    /\ UNCHANGED <<output, consumed, beginning, line, truncated>>

NextLine ==
    /\ reading = "said" /\ reading' = "read"
    /\ line' = <<>> /\ truncated' = FALSE
    /\ beginning' = consumed
    /\ UNCHANGED <<output, consumed, said>>

LinesNext ==
    \/ \E last \in 1 .. Len(output) : ReadPiece(last)
    \/ EndOfOutput \/ OutputFails \/ OnLine \/ NextLine

LinesSpec == LinesInit /\ [][LinesNext]_linesVars

-----------------------------------------------------------------------------
(* Properties.                                                              *)

\* A line handed on is the output from the end of the line before it to the
\* first newline after that, cut at the limit and marked if it was cut: however
\* the pipe divides the bytes, nothing is lost, repeated or joined.
LinesAsWritten ==
    reading = "said" =>
        LET length == Content(beginning, Len(output))
        IN  /\ consumed = Least(Len(output), beginning + length + 1)
            /\ said = [text |-> WithoutReturn(SubSeq(output, beginning + 1,
                                                     beginning + Least(length, MaxLine))),
                       truncated |-> length > MaxLine]
=============================================================================
