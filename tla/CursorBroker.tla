---------------------------- MODULE CursorBroker ----------------------------
(* The worker that confines the mouse to the window of a sandboxed game on  *)
(* Windows (platform/windows/cursor_broker.rs).  The game asks through its  *)
(* output, Windows reports focus and window changes, and both reach the     *)
(* worker as messages of one queue.  The cursor clip itself belongs to the  *)
(* whole desktop: the system drops it and other programs set it.            *)
EXTENDS Naturals, Sequences

CONSTANTS
    Rects,        \* rectangles a window or a clip may have
    NoRect,       \* no rectangle
    MaxMessages   \* bound of the model: messages waiting in the queue

ASSUME CursorAssumption == NoRect \notin Rects /\ MaxMessages \in Nat \ {0}

VARIABLES
    clip,         \* the clip of the desktop and who installed it
    foreground,   \* whether the game's window is the foreground window
    window,       \* the client rectangle of the game's window
    winEvent,     \* a window event Windows has not delivered yet
    messages,     \* the queue of the worker's thread
    handling,     \* "idle", the message being handled, or "stopped"
    game_clip,    \* what the worker saw of the game's window for it
    requested_grab,
    owned_clip

cursorVars == <<clip, foreground, window, winEvent, messages, handling,
                game_clip, requested_grab, owned_clip>>

Commands == {"GRAB", "RELEASE"}

Unclipped == [rect |-> NoRect, by |-> "nobody"]

CursorTypeOK ==
    /\ clip \in [rect : Rects \cup {NoRect}, by : {"nobody", "broker", "other"}]
    /\ foreground \in BOOLEAN /\ window \in Rects /\ winEvent \in BOOLEAN
    /\ messages \in Seq(Commands \cup {"EVENT", "STOP"}) /\ Len(messages) <= MaxMessages
    /\ handling \in Commands \cup {"EVENT", "idle", "stopped"}
    /\ game_clip \in Rects \cup {NoRect}
    /\ requested_grab \in BOOLEAN /\ owned_clip \in Rects \cup {NoRect}

CursorInit ==
    /\ clip = Unclipped
    /\ foreground \in BOOLEAN /\ window \in Rects /\ winEvent = FALSE
    /\ messages = <<>> /\ handling = "idle" /\ game_clip = NoRect
    /\ requested_grab = FALSE /\ owned_clip = NoRect

-----------------------------------------------------------------------------
(* What reaches the queue.                                                  *)

Desktop == <<clip, foreground, window, winEvent>>
State == <<game_clip, requested_grab, owned_clip>>

Post(message) ==
    /\ Len(messages) < MaxMessages
    /\ messages' = Append(messages, message)

Owned == handling # "stopped" /\ \A i \in DOMAIN messages : messages[i] # "STOP"

\* A line of the game's output carries its token and a command.
HandleLine(command) ==
    /\ Owned
    /\ Post(command)
    /\ UNCHANGED <<Desktop, handling, State>>

\* The last owner drops the broker; nothing is posted after.
DropBroker ==
    /\ Owned
    /\ Post("STOP")
    /\ UNCHANGED <<Desktop, handling, State>>

\* The callback of a hook runs on the worker's thread, between two messages.
Callback ==
    /\ winEvent /\ handling = "idle"
    /\ winEvent' = FALSE
    /\ Post("EVENT")
    /\ UNCHANGED <<clip, foreground, window, handling, State>>

-----------------------------------------------------------------------------
(* The worker.                                                              *)

\* Faulty: the rectangle of the game's window, whichever is in front.
SeenInBackground == window

\* The rectangle of the foreground window if that window is the game's.
Seen == IF foreground THEN window ELSE NoRect

\* A message is taken from the queue and the foreground window is looked at.
TakeMessage ==
    /\ handling = "idle" /\ messages # <<>> /\ Head(messages) # "STOP"
    /\ handling' = Head(messages)
    /\ messages' = Tail(messages)
    /\ game_clip' = Seen
    /\ requested_grab' = CASE Head(messages) = "GRAB" -> TRUE
                           [] Head(messages) = "RELEASE" -> FALSE
                           [] OTHER -> requested_grab
    /\ UNCHANGED <<Desktop, owned_clip>>

\* Only the clip this broker installed is taken away.
Released == IF owned_clip # NoRect /\ clip.rect = owned_clip THEN Unclipped ELSE clip

Wanted == IF handling # "RELEASE" /\ requested_grab THEN game_clip ELSE NoRect

\* Nothing is to be clipped: what is owned is released.
ApplyRelease ==
    /\ handling \in Commands \cup {"EVENT"} /\ Wanted = NoRect
    /\ clip' = Released
    /\ owned_clip' = NoRect
    /\ handling' = "idle"
    /\ UNCHANGED <<foreground, window, winEvent, messages, game_clip, requested_grab>>

\* A new rectangle is installed in place of the owned one; Windows may refuse.
ApplyClip ==
    /\ handling \in Commands \cup {"EVENT"} /\ Wanted \notin {NoRect, owned_clip}
    /\ \/ clip' = [rect |-> Wanted, by |-> "broker"] /\ owned_clip' = Wanted
       \/ clip' = Released /\ owned_clip' = NoRect
    /\ handling' = "idle"
    /\ UNCHANGED <<foreground, window, winEvent, messages, game_clip, requested_grab>>

\* The rectangle is the owned one already.
ApplyNothing ==
    /\ handling \in Commands \cup {"EVENT"} /\ Wanted # NoRect /\ Wanted = owned_clip
    /\ handling' = "idle"
    /\ UNCHANGED <<Desktop, messages, State>>

StopWorker ==
    /\ handling = "idle" /\ messages # <<>> /\ Head(messages) = "STOP"
    /\ handling' = "stopped"
    /\ clip' = Released
    /\ owned_clip' = NoRect
    /\ messages' = <<>>
    /\ winEvent' = FALSE
    /\ UNCHANGED <<foreground, window, game_clip, requested_grab>>

-----------------------------------------------------------------------------
(* The desktop.                                                             *)

Hooked == winEvent' = (handling # "stopped")

\* Windows may drop the clip when the foreground changes.
FocusChanges ==
    /\ foreground' = ~foreground
    /\ clip' \in {clip, Unclipped}
    /\ Hooked
    /\ UNCHANGED <<window, messages, handling, State>>

WindowMoves ==
    /\ window' \in Rects \ {window}
    /\ Hooked
    /\ UNCHANGED <<clip, foreground, messages, handling, State>>

\* A program in front sets a clip of its own, or removes what it finds.
OtherClips ==
    /\ ~foreground
    /\ \/ \E r \in Rects : clip' = [rect |-> r, by |-> "other"]
       \/ clip' = Unclipped
    /\ UNCHANGED <<foreground, window, winEvent, messages, handling, State>>

CursorNext ==
    \/ \E command \in Commands : HandleLine(command)
    \/ DropBroker \/ Callback
    \/ TakeMessage \/ ApplyRelease \/ ApplyClip \/ ApplyNothing \/ StopWorker
    \/ FocusChanges \/ WindowMoves \/ OtherClips

CursorSpec == CursorInit /\ [][CursorNext]_cursorVars

-----------------------------------------------------------------------------
(* Properties.                                                              *)

\* Once the worker has seen every event and command, a clip it installed is in
\* force only while the game asks for it, is in front, and has that rectangle;
\* after it has stopped none of its clips is left on the desktop.  Focus may
\* change between its look at the window and its call.
ClipSettled ==
    (clip.by = "broker" /\ handling \in {"idle", "stopped"} /\ messages = <<>> /\ ~winEvent)
        => /\ handling = "idle"
           /\ requested_grab /\ foreground /\ clip.rect = window
=============================================================================
