--------------------------- MODULE NarratorBroker ---------------------------
(* Speech for a sandboxed game (platform/narrator_broker.rs and the worker  *)
(* of macOS and Linux).  The game writes commands to its output; a broker   *)
(* bounds their rate and drops repeated text, a bounded channel carries     *)
(* them to a worker, and the worker queues them again behind the voice.     *)
(* Utterances are numbered in the order the game asked for them.            *)
EXTENDS Naturals, Sequences

CONSTANTS
    Texts,          \* what may be said
    NoText,         \* nothing has been said
    MaxPerWindow,   \* MAX_COMMANDS_PER_SECOND
    QueueCapacity,  \* QUEUE_CAPACITY
    MaxCommands     \* bound of the model: commands the game sends

ASSUME NarratorAssumption ==
    /\ NoText \notin Texts
    /\ MaxPerWindow \in Nat \ {0} /\ QueueCapacity \in Nat \ {0} /\ MaxCommands \in Nat

VARIABLES
    sent,       \* how many commands the game has sent
    accepted,   \* commands accepted in the present window of a second
    last_text,  \* the last text accepted, while it is younger than 100 ms
    commands,   \* commands on their way to the worker
    waiting,    \* utterances behind the voice
    speaking,   \* the utterance being spoken, 0 when there is none
    silenced,   \* the latest command that silences what came before it
    speaker     \* "running", "closing" once the broker is gone, "ended"

narratorVars == <<sent, accepted, last_text, commands, waiting, speaking, silenced, speaker>>

NarratorCommand == [id : 1..MaxCommands, say : BOOLEAN, silences : BOOLEAN]

NarratorTypeOK ==
    /\ sent \in 0..MaxCommands /\ accepted \in 0..MaxPerWindow
    /\ last_text \in Texts \cup {NoText}
    /\ commands \in Seq(NarratorCommand) /\ Len(commands) <= QueueCapacity
    /\ waiting \in Seq(1..MaxCommands) /\ Len(waiting) <= QueueCapacity
    /\ speaking \in 0..MaxCommands /\ silenced \in 0..MaxCommands
    /\ speaker \in {"running", "closing", "ended"}

NarratorInit ==
    /\ sent = 0 /\ accepted = 0 /\ last_text = NoText
    /\ commands = <<>> /\ waiting = <<>> /\ speaking = 0 /\ silenced = 0
    /\ speaker = "running"

-----------------------------------------------------------------------------
(* The broker.                                                              *)

Limits == <<accepted, last_text>>
Voice == <<waiting, speaking, silenced>>

\* A full window refuses everything, a young duplicate only itself.
Allowed(text) == accepted < MaxPerWindow /\ (text = NoText \/ text # last_text)

\* A channel that is full, or closed, loses an accepted command silently.
TrySend(command) ==
    IF Len(commands) < QueueCapacity THEN Append(commands, command) ELSE commands

HandleSpeech(text, interrupt) ==
    /\ sent < MaxCommands /\ speaker = "running"
    /\ sent' = sent + 1
    /\ IF ~Allowed(text)
       THEN UNCHANGED <<Limits, commands>>
       ELSE /\ accepted' = accepted + 1
            /\ last_text' = text
            /\ commands' = TrySend([id |-> sent + 1, say |-> TRUE, silences |-> interrupt])
    /\ UNCHANGED <<Voice, speaker>>

HandleClear ==
    /\ sent < MaxCommands /\ speaker = "running"
    /\ sent' = sent + 1
    /\ IF ~Allowed(NoText)
       THEN UNCHANGED <<accepted, commands>>
       ELSE /\ accepted' = accepted + 1
            /\ commands' = TrySend([id |-> sent + 1, say |-> FALSE, silences |-> TRUE])
    /\ UNCHANGED <<last_text, Voice, speaker>>

\* A tenth of a second ages the last text; a second opens a new window.
TextAges ==
    /\ last_text # NoText /\ last_text' = NoText
    /\ UNCHANGED <<sent, accepted, commands, Voice, speaker>>

NewWindow ==
    /\ accepted > 0 /\ accepted' = 0
    /\ UNCHANGED <<sent, last_text, commands, Voice, speaker>>

\* The game's output ended and the broker is dropped.
NarratorDrop ==
    /\ speaker = "running" /\ speaker' = "closing"
    /\ UNCHANGED <<sent, Limits, commands, Voice>>

-----------------------------------------------------------------------------
(* The worker.                                                              *)

\* Faulty: only the voice is silenced, what waits behind it stays.
KeptWhenFaulty(command) == waiting

\* What stays in the queue behind the voice when a command arrives.
Kept(command) == IF command.silences THEN <<>> ELSE waiting

\* Muted text is not queued on Linux; text beyond the bound is lost.
TakeCommand(muted) ==
    /\ speaker # "ended" /\ commands # <<>>
    /\ LET command == Head(commands)
           kept == Kept(command)
       IN  /\ commands' = Tail(commands)
           /\ waiting' = IF command.say /\ ~muted /\ Len(kept) < QueueCapacity
                         THEN Append(kept, command.id) ELSE kept
           /\ speaking' = IF command.silences THEN 0 ELSE speaking
           /\ silenced' = IF command.silences THEN command.id ELSE silenced
    /\ UNCHANGED <<sent, Limits, speaker>>

\* The voice finishes, or is stopped after a minute.
VoiceEnds ==
    /\ speaking # 0 /\ speaking' = 0
    /\ UNCHANGED <<sent, Limits, commands, waiting, silenced, speaker>>

\* The next utterance; the voice may fail to start.
VoiceStarts ==
    /\ speaking = 0 /\ waiting # <<>> /\ speaker # "ended"
    /\ waiting' = Tail(waiting)
    /\ speaking' \in {Head(waiting), 0}
    /\ UNCHANGED <<sent, Limits, commands, silenced, speaker>>

\* The channel is drained and has no sender: the voice is stopped.
WorkerEnds ==
    /\ speaker = "closing" /\ commands = <<>>
    /\ speaker' = "ended" /\ speaking' = 0
    /\ UNCHANGED <<sent, Limits, commands, waiting, silenced>>

NarratorNext ==
    \/ \E text \in Texts, interrupt \in BOOLEAN : HandleSpeech(text, interrupt)
    \/ HandleClear \/ TextAges \/ NewWindow \/ NarratorDrop
    \/ \E muted \in BOOLEAN : TakeCommand(muted)
    \/ VoiceEnds \/ VoiceStarts \/ WorkerEnds

NarratorSpec == NarratorInit /\ [][NarratorNext]_narratorVars

-----------------------------------------------------------------------------
(* Properties.                                                              *)

Increasing(s) == \A i, j \in DOMAIN s : i < j => s[i] < s[j]

\* Speech is heard in the order the game asked for it, through both queues, and
\* nothing asked for before the last silencing command the worker has taken is
\* heard or waits to be; after the worker's end there is no voice.
SpokenInOrder ==
    LET ids == [i \in DOMAIN commands |-> commands[i].id]
        heard == IF speaking = 0 THEN <<>> ELSE <<speaking>>
    IN  /\ Increasing(heard \o waiting \o ids)
        /\ \A i \in DOMAIN (heard \o waiting) : (heard \o waiting)[i] >= silenced
        /\ speaker = "ended" => speaking = 0
=============================================================================
