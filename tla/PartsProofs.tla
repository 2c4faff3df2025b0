----------------------------- MODULE PartsProofs -----------------------------
(***************************************************************************)
(* Proofs about four parts that share no state: CursorBroker, for every    *)
(* set of rectangles and length of the queue; News, for every number of    *)
(* refreshes; NarratorBroker, for every length of the queues and every     *)
(* limit; and OutputLines, for every output and limit of a line.           *)
(***************************************************************************)
EXTENDS CursorBroker, NarratorBroker, News, OutputLines, TLAPS, WellFoundedInduction

(* The worker that confines the mouse.                                     *)

Messages == Commands \cup {"EVENT", "STOP"}

(* A clip of the broker is the one it owns; a stopped worker owns none.    *)
Ownership ==
    /\ clip.by = "broker" => clip.rect = owned_clip /\ owned_clip # NoRect
    /\ handling = "stopped" => owned_clip = NoRect

(* While a message is handled the look at the window is fresh, or an event *)
(* is on its way.                                                          *)
FreshLook == handling \in Commands \cup {"EVENT"} /\ ~winEvent => game_clip = Seen

(* Between messages the owned clip was asked for, and is right unless       *)
(* something waits.                                                         *)
Settled ==
    handling = "idle" /\ owned_clip # NoRect =>
        /\ requested_grab
        /\ messages = <<>> /\ ~winEvent => owned_clip = Seen

CInv == CursorTypeOK /\ Ownership /\ FreshLook /\ Settled

-----------------------------------------------------------------------------
(* A broker begins with no clip and an empty queue.                        *)
LEMMA InitCInv == CursorInit => CInv
<1> SUFFICES ASSUME CursorInit PROVE CInv
  OBVIOUS
<1>1. messages \in Seq(Messages) /\ Len(messages) <= MaxMessages
  BY CursorAssumption DEF CursorInit
<1> QED
  BY <1>1 DEF CursorInit, CInv, CursorTypeOK, Ownership, FreshLook, Settled, Unclipped, Messages, Commands

(* A posted message makes the queue longer and leaves it typed.            *)
LEMMA Posted ==
    ASSUME CursorTypeOK, NEW m \in Messages, Post(m)
    PROVE  /\ messages' \in Seq(Messages) /\ Len(messages') <= MaxMessages
           /\ messages' # <<>>
<1>1. messages \in Seq(Messages)
  BY DEF CursorTypeOK, Messages
<1> QED
  BY <1>1, CursorAssumption DEF Post

(* What reaches the queue.                                                 *)
LEMMA PostStep ==
    ASSUME CInv, (\E command \in Commands : HandleLine(command)) \/ DropBroker \/ Callback
    PROVE  CInv'
<1>1. ASSUME NEW m \in Messages, Post(m), UNCHANGED <<clip, foreground, window, handling, State>>,
             winEvent' = winEvent \/ (winEvent' = FALSE /\ handling = "idle")
      PROVE  CInv'
  <2>1. messages' \in Seq(Messages) /\ Len(messages') <= MaxMessages /\ messages' # <<>>
    BY <1>1, Posted DEF CInv
  <2>2. CursorTypeOK'
    BY <1>1, <2>1 DEF State, CInv, CursorTypeOK, Messages
  <2>3. Ownership' /\ FreshLook'
    BY <1>1 DEF State, CInv, Ownership, FreshLook, Seen, Commands
  <2>4. Settled'
    BY <1>1, <2>1 DEF State, CInv, Settled
  <2> QED
    BY <2>2, <2>3, <2>4 DEF CInv
<1>2. CASE \E command \in Commands : HandleLine(command)
  BY <1>1, <1>2 DEF HandleLine, Desktop, Messages
<1>3. CASE DropBroker
  BY <1>1, <1>3 DEF DropBroker, Desktop, Messages
<1>4. CASE Callback
  BY <1>1, <1>4 DEF Callback, Messages
<1> QED
  BY <1>2, <1>3, <1>4

(* The worker takes a message and looks at the window.                     *)
LEMMA TakeStep ==
    ASSUME CInv, TakeMessage
    PROVE  CInv'
<1>1. messages \in Seq(Messages) /\ messages # <<>> /\ Len(messages) <= MaxMessages
  BY DEF CInv, CursorTypeOK, Messages, TakeMessage
<1>2. /\ Head(messages) \in Messages /\ Tail(messages) \in Seq(Messages)
      /\ Len(Tail(messages)) <= MaxMessages
  BY <1>1, CursorAssumption
<1>3. handling' \in Commands \cup {"EVENT"} /\ messages' = Tail(messages)
  BY <1>2 DEF TakeMessage, Messages
<1>4. game_clip' = Seen /\ Seen' = Seen /\ Seen \in Rects \cup {NoRect}
  BY DEF TakeMessage, Desktop, Seen, CInv, CursorTypeOK
<1>5. requested_grab' \in BOOLEAN
  BY DEF TakeMessage, CInv, CursorTypeOK
<1> QED
  BY <1>2, <1>3, <1>4, <1>5 DEF TakeMessage, Desktop, CInv, CursorTypeOK, Ownership, FreshLook, Settled,
      Messages, Commands

(* Letting go of what is owned leaves no clip of the broker.               *)
LEMMA ReleasedIsNotOurs ==
    ASSUME CInv
    PROVE  /\ Released.by # "broker"
           /\ Released \in [rect : Rects \cup {NoRect}, by : {"nobody", "broker", "other"}]
  BY DEF CInv, CursorTypeOK, Ownership, Released, Unclipped

(* The worker applies the message it has taken.                            *)
LEMMA ApplyStep ==
    ASSUME CInv, ApplyRelease \/ ApplyClip \/ ApplyNothing
    PROVE  CInv'
<1> USE DEF CInv, CursorTypeOK, Ownership, FreshLook, Settled, Seen, Commands
<1>1. CASE ApplyRelease
  BY <1>1, ReleasedIsNotOurs DEF ApplyRelease
<1>2. CASE ApplyNothing
  BY <1>2 DEF ApplyNothing, Desktop, State, Wanted
<1>3. CASE ApplyClip
  <2>1. /\ Wanted = game_clip /\ requested_grab /\ Wanted \in Rects /\ Wanted # NoRect
        /\ handling \in {"GRAB", "EVENT"}
    BY <1>3 DEF ApplyClip, Wanted
  <2>2. CASE clip' = [rect |-> Wanted, by |-> "broker"] /\ owned_clip' = Wanted
    BY <1>3, <2>1, <2>2 DEF ApplyClip
  <2>3. CASE clip' = Released /\ owned_clip' = NoRect
    BY <1>3, <2>3, ReleasedIsNotOurs DEF ApplyClip
  <2> QED
    BY <1>3, <2>2, <2>3 DEF ApplyClip
<1> QED
  BY <1>1, <1>2, <1>3

(* The worker stops, and lets go of what it owns.                          *)
LEMMA StopStep ==
    ASSUME CInv, StopWorker
    PROVE  CInv'
<1>1. messages' \in Seq(Messages) /\ Len(messages') <= MaxMessages
  BY CursorAssumption DEF StopWorker
<1> QED
  BY <1>1, ReleasedIsNotOurs DEF StopWorker, CInv, CursorTypeOK, Ownership, FreshLook, Settled, Seen,
      Messages, Commands

(* The desktop changes under the worker.                                   *)
LEMMA DesktopStep ==
    ASSUME CInv, FocusChanges \/ WindowMoves \/ OtherClips
    PROVE  CInv'
<1> USE DEF State, Hooked, CInv, CursorTypeOK, Ownership, FreshLook, Settled, Seen, Commands
<1>1. CASE FocusChanges
  <2>1. clip' \in [rect : Rects \cup {NoRect}, by : {"nobody", "broker", "other"}]
        /\ (clip' = clip \/ clip'.by = "nobody")
    BY <1>1 DEF FocusChanges, Unclipped
  <2> QED
    BY <1>1, <2>1 DEF FocusChanges
<1>2. CASE WindowMoves
  BY <1>2 DEF WindowMoves
<1>3. CASE OtherClips
  <2>1. clip' \in [rect : Rects \cup {NoRect}, by : {"nobody", "broker", "other"}]
        /\ clip'.by # "broker"
    BY <1>3 DEF OtherClips, Unclipped
  <2> QED
    BY <1>3, <2>1 DEF OtherClips
<1> QED
  BY <1>1, <1>2, <1>3

(* Every step of the broker or of the desktop keeps the invariant.         *)
LEMMA NextCInv == CInv /\ [CursorNext]_cursorVars => CInv'
<1> SUFFICES ASSUME CInv, [CursorNext]_cursorVars PROVE CInv'
  OBVIOUS
<1>1. CASE UNCHANGED cursorVars
  BY <1>1 DEF cursorVars, CInv, CursorTypeOK, Ownership, FreshLook, Settled, Seen
<1>2. CASE CursorNext
  BY <1>2, PostStep, TakeStep, ApplyStep, StopStep, DesktopStep DEF CursorNext
<1> QED
  BY <1>1, <1>2

(* The cursor broker's invariant holds, whatever the window does.          *)
THEOREM CursorInvariance == CursorSpec => []CInv
  BY InitCInv, NextCInv, PTL DEF CursorSpec

(* Whatever Windows, other programs and the game do in which order: once    *)
(* nothing waits, a clip of the broker is asked for, in front and right,    *)
(* and a stopped worker leaves none.                                        *)
THEOREM ClipAlwaysSettled == CursorSpec => []ClipSettled
<1>1. CInv => ClipSettled
  BY DEF CInv, Ownership, Settled, Seen, ClipSettled
<1> QED
  BY <1>1, CursorInvariance, PTL

-----------------------------------------------------------------------------
(* The news. A refresh that has not begun has no answers, one that has     *)
(* answered has all of them, and an answer names the refresh it is of.     *)
Answers ==
    \A i \in Refreshes :
        /\ i > current <=> stage[i] = "new"
        /\ stage[i] \in {"new", "saved"} => \A s \in Feeds : result[i][s] = NoAnswer
        /\ stage[i] = "answered" => \A s \in Feeds : result[i][s] # NoAnswer
        /\ \A s \in Feeds :
              /\ result[i][s].kind = "none" => result[i][s] = NoAnswer
              /\ result[i][s].kind = "fresh" => result[i][s].from = i
              /\ result[i][s].kind = "failed" => result[i][s].from = Absent

(* A page that does not load shows the answers of the latest refresh.      *)
Shown ==
    ~loading =>
        /\ current \in Refreshes
        /\ stage[current] = "done"
        /\ \A s \in Feeds : result[current][s].kind # "none"
        /\ ~error => feed = Combined(result[current]) /\ cached = CombinedCached(result[current])

NInv == NewsTypeOK /\ Answers /\ Shown

(* A page begins without articles.                                         *)
LEMMA InitNInv == NewsInit => NInv
<1> SUFFICES ASSUME NewsInit PROVE NInv
  OBVIOUS
<1>1. Earlier \in Fetches /\ Absent \in Fetches /\ 0 \in 0..MaxRefreshes
  BY NewsAssumption DEF Fetches, Earlier, Absent
<1>2. NewsTypeOK
  BY <1>1 DEF NewsInit, NewsTypeOK, NoAnswer
<1>3. Answers
  BY NewsAssumption DEF NewsInit, Answers, NoAnswer, Refreshes
<1> QED
  BY <1>2, <1>3 DEF NewsInit, NInv, Shown

(* A thread of a refresh answers.                                          *)
LEMMA AcceptStep ==
    ASSUME NInv, NEW i \in Refreshes, NEW s \in Feeds, NEW usable \in BOOLEAN,
           NEW stored \in BOOLEAN, AcceptFetched(i, s, usable, stored)
    PROVE  NInv'
<1> DEFINE answer == IF usable THEN [kind |-> "fresh", from |-> i]
                     ELSE IF cacheOf[s] # Absent THEN [kind |-> "cached", from |-> cacheOf[s]]
                     ELSE [kind |-> "failed", from |-> Absent]
<1>1. /\ stage[i] = "fetching" /\ result' = [result EXCEPT ![i][s] = answer]
      /\ stage' = stage /\ current' = current /\ feed' = feed /\ cached' = cached
      /\ loading' = loading /\ error' = error
      /\ cacheOf' = cacheOf \/ cacheOf' = [cacheOf EXCEPT ![s] = i]
  BY DEF AcceptFetched, Page
<1>2. i \in Fetches /\ Absent \in Fetches /\ cacheOf[s] \in Fetches
  BY NewsAssumption DEF Refreshes, Fetches, Earlier, Absent, NInv, NewsTypeOK
<1>3. /\ answer \in [kind : {"none", "fresh", "cached", "failed"}, from : Fetches]
      /\ answer.kind # "none"
      /\ answer.kind = "fresh" => answer.from = i
      /\ answer.kind = "failed" => answer.from = Absent
  BY <1>2
<1>4. \A j \in Refreshes, t \in Feeds :
        result'[j][t] = IF j = i /\ t = s THEN answer ELSE result[j][t]
  BY <1>1 DEF NInv, NewsTypeOK
<1>5. NewsTypeOK'
  <2>1. cacheOf' \in [Feeds -> Fetches]
    BY <1>1, <1>2 DEF NInv, NewsTypeOK
  <2>2. result' \in [Refreshes -> [Feeds -> [kind : {"none", "fresh", "cached", "failed"},
                                           from : Fetches]]]
    BY <1>1, <1>3 DEF NInv, NewsTypeOK
  <2> QED
    BY <1>1, <2>1, <2>2 DEF NInv, NewsTypeOK
<1>6. Answers'
  BY <1>1, <1>3, <1>4 DEF NInv, Answers, NoAnswer
<1>7. Shown'
  <2> SUFFICES ASSUME ~loading PROVE Shown'
    BY <1>1 DEF Shown
  <2>1. current \in Refreshes /\ stage[current] = "done"
    BY DEF NInv, Shown
  <2>2. result'[current] = result[current]
    BY <1>1, <2>1 DEF NInv, NewsTypeOK
  <2> QED
    BY <1>1, <2>1, <2>2 DEF NInv, Shown, Combined, CombinedCached
<1> QED
  BY <1>5, <1>6, <1>7 DEF NInv

(* A refresh begins, reads the caches, or has all answers.                 *)
LEMMA RefreshStep ==
    ASSUME NInv, NEW i \in Refreshes, Refresh(i) \/ CachedNews(i) \/ AllFetched(i)
    PROVE  NInv'
<1>1. i \in Nat /\ i \in 0..MaxRefreshes /\ MaxRefreshes \in Nat
  BY NewsAssumption DEF Refreshes
<1>2. CASE Refresh(i)
  <2> DEFINE next == IF i = 1 THEN "saved" ELSE "fetching"
  <2>1. /\ stage[i] = "new" /\ current = i - 1 /\ current' = i /\ loading'
        /\ error' = FALSE /\ stage' = [stage EXCEPT ![i] = next]
        /\ cacheOf' = cacheOf /\ result' = result /\ feed' = feed /\ cached' = cached
    BY <1>2 DEF Refresh
  <2>2. NewsTypeOK'
    BY <1>1, <2>1 DEF NInv, NewsTypeOK
  <2>3. Answers'
    <3>1. ASSUME NEW j \in Refreshes
          PROVE  /\ j > current' <=> stage'[j] = "new"
                 /\ stage'[j] \in {"new", "saved"} => \A s \in Feeds : result[j][s] = NoAnswer
                 /\ stage'[j] = "answered" => \A s \in Feeds : result[j][s] # NoAnswer
      <4>1. stage'[j] = IF j = i THEN next ELSE stage[j]
        BY <2>1 DEF NInv, NewsTypeOK
      <4>2. j > current' <=> j > current /\ j # i
        BY <1>1, <2>1 DEF Refreshes
      <4> QED
        BY <2>1, <4>1, <4>2 DEF NInv, Answers
    <3> QED
      BY <2>1, <3>1 DEF NInv, Answers
  <2> QED
    BY <2>1, <2>2, <2>3 DEF NInv, Shown
<1>3. CASE CachedNews(i)
  <2>1. /\ stage[i] = "saved" /\ result' = result /\ current' = current /\ cacheOf' = cacheOf
        /\ loading' = loading /\ error' = error
        /\ stage' = [stage EXCEPT ![i] = "done"] \/ stage' = [stage EXCEPT ![i] = "fetching"]
        /\ (feed' = feed /\ cached' = cached)
              \/ (feed' = cacheOf /\ cached' = TRUE /\ current = i)
    BY <1>3 DEF CachedNews
  <2>2. NewsTypeOK'
    BY <2>1 DEF NInv, NewsTypeOK
  <2>3. Answers'
    BY <2>1 DEF NInv, NewsTypeOK, Answers
  <2>4. Shown'
    BY <2>1 DEF NInv, NewsTypeOK, Shown
  <2> QED
    BY <2>2, <2>3, <2>4 DEF NInv
<1>4. CASE AllFetched(i)
  <2>1. /\ stage[i] = "fetching" /\ \A s \in Feeds : result[i][s] # NoAnswer
        /\ stage' = [stage EXCEPT ![i] = "answered"]
        /\ result' = result /\ current' = current /\ cacheOf' = cacheOf
        /\ loading' = loading /\ error' = error /\ feed' = feed /\ cached' = cached
    BY <1>4 DEF AllFetched, Page
  <2>2. NewsTypeOK'
    BY <2>1 DEF NInv, NewsTypeOK
  <2>3. Answers'
    BY <2>1 DEF NInv, NewsTypeOK, Answers
  <2>4. Shown'
    BY <2>1 DEF NInv, NewsTypeOK, Shown
  <2> QED
    BY <2>2, <2>3, <2>4 DEF NInv
<1> QED
  BY <1>2, <1>3, <1>4

(* The page takes the answers of the latest refresh, and no other.         *)
LEMMA ShowStep ==
    ASSUME NInv, NEW i \in Refreshes, ShowFetched(i)
    PROVE  NInv'
<1>1. /\ stage[i] = "answered" /\ stage' = [stage EXCEPT ![i] = "done"]
      /\ cacheOf' = cacheOf /\ result' = result /\ current' = current
  BY DEF ShowFetched
<1>2. Answers'
  BY <1>1 DEF NInv, NewsTypeOK, Answers
<1>3. CASE current # i
  BY <1>1, <1>2, <1>3 DEF ShowFetched, NInv, NewsTypeOK, Shown
<1>4. CASE current = i
  <2>1. \A s \in Feeds : result[i][s].kind # "none"
    BY <1>1 DEF NInv, Answers
  <2>2. /\ Combined(result[i]) \in [Feeds -> Fetches]
        /\ CombinedCached(result[i]) \in BOOLEAN
    BY DEF NInv, NewsTypeOK, Combined, CombinedCached
  <2>3. NewsTypeOK'
    BY <1>1, <1>4, <2>2 DEF ShowFetched, NInv, NewsTypeOK
  <2>4. stage'[i] = "done"
    BY <1>1 DEF NInv, NewsTypeOK
  <2>5. \/ error'
        \/ error' = error /\ feed' = Combined(result[i]) /\ cached' = CombinedCached(result[i])
    BY <1>4 DEF ShowFetched
  <2>6. Shown'
    BY <1>1, <1>4, <2>1, <2>4, <2>5 DEF Shown
  <2> QED
    BY <1>2, <2>3, <2>6 DEF NInv
<1> QED
  BY <1>3, <1>4

(* Every step of a refresh or of the page keeps the invariant.             *)
LEMMA NextNInv == NInv /\ [NewsNext]_newsVars => NInv'
<1> SUFFICES ASSUME NInv, [NewsNext]_newsVars PROVE NInv'
  OBVIOUS
<1>1. CASE UNCHANGED newsVars
  BY <1>1 DEF newsVars, NInv, NewsTypeOK, Answers, Shown
<1>2. CASE NewsNext
  BY <1>2, AcceptStep, RefreshStep, ShowStep DEF NewsNext
<1> QED
  BY <1>1, <1>2

(* The invariant of the news holds, however refreshes overlap.             *)
THEOREM NewsInvariance == NewsSpec => []NInv
  BY InitNInv, NextNInv, PTL DEF NewsSpec

(* For any number of overlapping refreshes and of feeds: what the page     *)
(* does not call saved articles, its latest refresh has fetched.           *)
THEOREM FreshAlwaysFetched == NewsSpec => []FreshMeansFetched
<1>1. NInv => FreshMeansFetched
  <2> SUFFICES ASSUME NInv, ~loading, ~error, NEW s \in Feeds
               PROVE  /\ ~cached => feed[s] \in {current, Absent}
                      /\ result[current][s].kind = "fresh" => feed[s] = current
    BY DEF FreshMeansFetched
  <2>1. /\ current \in Refreshes /\ feed[s] = result[current][s].from
        /\ result[current][s].kind # "none"
        /\ cached = \E t \in Feeds : result[current][t].kind = "cached"
    BY DEF NInv, Shown, Combined, CombinedCached
  <2>2. result[current][s].kind \in {"none", "fresh", "cached", "failed"}
    BY <2>1 DEF NInv, NewsTypeOK
  <2> QED
    BY <2>1, <2>2 DEF NInv, Answers
<1> QED
  BY <1>1, NewsInvariance, PTL

-----------------------------------------------------------------------------
(* The narrator. Commands keep their order in the channel, behind the      *)
(* voice waits only what is older than they are, and nothing is older than *)
(* the last command that silenced.                                         *)
InChannel ==
    /\ \A i, j \in 1 .. Len(commands) : i < j => commands[i].id < commands[j].id
    /\ \A j \in 1 .. Len(commands) :
          commands[j].id <= sent /\ silenced < commands[j].id /\ speaking < commands[j].id

BehindVoice ==
    /\ \A i, j \in 1 .. Len(waiting) : i < j => waiting[i] < waiting[j]
    /\ \A i \in 1 .. Len(waiting) :
          waiting[i] <= sent /\ silenced <= waiting[i] /\ speaking < waiting[i]
    /\ \A i \in 1 .. Len(waiting), j \in 1 .. Len(commands) : waiting[i] < commands[j].id

AtVoice ==
    /\ silenced <= sent /\ speaking <= sent
    /\ speaking # 0 => silenced <= speaking
    /\ speaker = "ended" => speaking = 0

VInv == NarratorTypeOK /\ InChannel /\ BehindVoice /\ AtVoice

(* Elements of a queue, and of one that has got or lost an element.        *)
LEMMA Elements ==
    ASSUME NEW S, NEW q \in Seq(S)
    PROVE  Len(q) \in Nat /\ \A i \in 1 .. Len(q) : q[i] \in S
  OBVIOUS

(* What a queue holds after a message is added.                            *)
LEMMA Appended ==
    ASSUME NEW S, NEW q \in Seq(S), NEW x \in S
    PROVE  /\ Append(q, x) \in Seq(S) /\ Len(Append(q, x)) = Len(q) + 1
           /\ \A i \in 1 .. Len(Append(q, x)) :
                 \/ i \in 1 .. Len(q) /\ Append(q, x)[i] = q[i]
                 \/ i = Len(q) + 1 /\ Append(q, x)[i] = x
  OBVIOUS

(* What a queue holds after its first message is taken.                    *)
LEMMA Shortened ==
    ASSUME NEW S, NEW q \in Seq(S), q # <<>>
    PROVE  /\ Len(q) \in Nat /\ Len(q) >= 1 /\ Head(q) = q[1] /\ q[1] \in S
           /\ Tail(q) \in Seq(S) /\ Len(Tail(q)) = Len(q) - 1
           /\ \A i \in 1 .. Len(Tail(q)) : i + 1 \in 1 .. Len(q) /\ Tail(q)[i] = q[i + 1]
  OBVIOUS

(* The numbers of queued commands.                                         *)
LEMMA CommandIds ==
    ASSUME NEW q \in Seq(NarratorCommand)
    PROVE  \A i \in 1 .. Len(q) : q[i].id \in 1..MaxCommands
<1>1. \A i \in 1 .. Len(q) : q[i] \in NarratorCommand
  BY Elements
<1> QED
  BY <1>1 DEF NarratorCommand

(* A voice begins silent, with nothing said.                               *)
LEMMA InitVInv == NarratorInit => VInv
<1> SUFFICES ASSUME NarratorInit PROVE VInv
  OBVIOUS
<1>1. /\ commands \in Seq(NarratorCommand) /\ Len(commands) = 0
      /\ waiting \in Seq(1..MaxCommands) /\ Len(waiting) = 0
  BY DEF NarratorInit
<1> QED
  BY <1>1, NarratorAssumption DEF NarratorInit, VInv, NarratorTypeOK, InChannel, BehindVoice, AtVoice

(* What is sent comes last, or is lost.                                    *)
LEMMA SendStep ==
    ASSUME VInv, NEW command \in NarratorCommand, command.id = sent + 1, sent < MaxCommands,
           sent' = sent + 1, accepted' \in 0..MaxPerWindow, last_text' \in Texts \cup {NoText},
           commands' = commands \/ commands' = TrySend(command), UNCHANGED <<Voice, speaker>>
    PROVE  VInv'
<1>1. /\ commands \in Seq(NarratorCommand) /\ Len(commands) <= QueueCapacity
      /\ waiting \in Seq(1..MaxCommands) /\ Len(waiting) <= QueueCapacity
      /\ sent \in Nat /\ silenced \in Nat /\ speaking \in Nat
      /\ MaxCommands \in Nat /\ QueueCapacity \in Nat
      /\ waiting' = waiting /\ speaking' = speaking /\ silenced' = silenced /\ speaker' = speaker
  BY NarratorAssumption DEF VInv, NarratorTypeOK, Voice
<1>2. Len(commands) \in Nat /\ \A i \in 1 .. Len(commands) : commands[i].id \in Nat
  BY <1>1, Elements, CommandIds
<1>3. Len(waiting) \in Nat /\ \A i \in 1 .. Len(waiting) : waiting[i] \in Nat
  BY <1>1
<1>4. commands' = commands \/ (commands' = Append(commands, command) /\ Len(commands) < QueueCapacity)
  BY DEF TrySend
<1>5. /\ commands' \in Seq(NarratorCommand) /\ Len(commands') <= QueueCapacity
      /\ \A i \in 1 .. Len(commands') :
            \/ i \in 1 .. Len(commands) /\ commands'[i] = commands[i]
            \/ i = Len(commands) + 1 /\ commands'[i] = command
  <2>1. CASE commands' = commands
    BY <1>1, <2>1
  <2>2. CASE commands' = Append(commands, command) /\ Len(commands) < QueueCapacity
    <3>1. /\ Append(commands, command) \in Seq(NarratorCommand)
          /\ Len(Append(commands, command)) = Len(commands) + 1
          /\ \A i \in 1 .. Len(Append(commands, command)) :
                \/ i \in 1 .. Len(commands) /\ Append(commands, command)[i] = commands[i]
                \/ i = Len(commands) + 1 /\ Append(commands, command)[i] = command
      BY <1>1, Appended
    <3>2. Len(commands) + 1 <= QueueCapacity
      BY <1>1, <1>2, <2>2
    <3> QED
      BY <2>2, <3>1, <3>2
  <2> QED
    BY <1>4, <2>1, <2>2
<1>6. NarratorTypeOK'
  BY <1>1, <1>5, NarratorAssumption DEF VInv, NarratorTypeOK
<1>7. InChannel'
  <2>1. ASSUME NEW i \in 1 .. Len(commands'), NEW j \in 1 .. Len(commands'), i < j
        PROVE  commands'[i].id < commands'[j].id
    BY <1>1, <1>2, <1>5, <2>1 DEF VInv, InChannel
  <2>2. ASSUME NEW j \in 1 .. Len(commands')
        PROVE  commands'[j].id <= sent' /\ silenced' < commands'[j].id /\ speaking' < commands'[j].id
    BY <1>1, <1>2, <1>5 DEF VInv, InChannel, AtVoice
  <2> QED
    BY <2>1, <2>2 DEF InChannel
<1>8. BehindVoice'
  <2>1. ASSUME NEW i \in 1 .. Len(waiting), NEW j \in 1 .. Len(commands')
        PROVE  waiting[i] < commands'[j].id
    BY <1>1, <1>2, <1>3, <1>5 DEF VInv, BehindVoice
  <2>2. ASSUME NEW i \in 1 .. Len(waiting)
        PROVE  waiting[i] <= sent' /\ silenced' <= waiting[i] /\ speaking' < waiting[i]
    BY <1>1, <1>3 DEF VInv, BehindVoice
  <2> QED
    BY <1>1, <2>1, <2>2 DEF VInv, BehindVoice
<1>9. AtVoice'
  BY <1>1 DEF VInv, AtVoice
<1> QED
  BY <1>6, <1>7, <1>8, <1>9 DEF VInv

(* The game's commands, as the broker bounds them.                         *)
LEMMA BrokerStep ==
    ASSUME VInv,
           (\E text \in Texts, interrupt \in BOOLEAN : HandleSpeech(text, interrupt)) \/ HandleClear
    PROVE  VInv'
<1>1. /\ sent \in Nat /\ accepted \in Nat /\ MaxPerWindow \in Nat /\ MaxCommands \in Nat
      /\ accepted \in 0..MaxPerWindow /\ last_text \in Texts \cup {NoText}
  BY NarratorAssumption DEF VInv, NarratorTypeOK
<1>2. CASE \E text \in Texts, interrupt \in BOOLEAN : HandleSpeech(text, interrupt)
  <2>1. PICK text \in Texts, interrupt \in BOOLEAN : HandleSpeech(text, interrupt)
    BY <1>2
  <2> DEFINE command == [id |-> sent + 1, say |-> TRUE, silences |-> interrupt]
  <2>2. /\ sent < MaxCommands /\ sent' = sent + 1 /\ UNCHANGED <<Voice, speaker>>
        /\ commands' = commands \/ commands' = TrySend(command)
        /\ accepted' = accepted \/ (accepted' = accepted + 1 /\ accepted < MaxPerWindow)
        /\ last_text' = last_text \/ last_text' = text
    BY <2>1 DEF HandleSpeech, Limits, Allowed
  <2>3. command \in NarratorCommand /\ command.id = sent + 1
    BY <1>1, <2>2 DEF NarratorCommand
  <2>4. accepted' \in 0..MaxPerWindow /\ last_text' \in Texts \cup {NoText}
    BY <1>1, <2>2
  <2> QED
    BY <2>2, <2>3, <2>4, SendStep
<1>3. CASE HandleClear
  <2> DEFINE command == [id |-> sent + 1, say |-> FALSE, silences |-> TRUE]
  <2>2. /\ sent < MaxCommands /\ sent' = sent + 1 /\ UNCHANGED <<Voice, speaker>>
        /\ commands' = commands \/ commands' = TrySend(command)
        /\ accepted' = accepted \/ (accepted' = accepted + 1 /\ accepted < MaxPerWindow)
        /\ last_text' = last_text
    BY <1>3 DEF HandleClear, Allowed
  <2>3. command \in NarratorCommand /\ command.id = sent + 1
    BY <1>1, <2>2 DEF NarratorCommand
  <2>4. accepted' \in 0..MaxPerWindow /\ last_text' \in Texts \cup {NoText}
    BY <1>1, <2>2
  <2> QED
    BY <2>2, <2>3, <2>4, SendStep
<1> QED
  BY <1>2, <1>3

(* The worker takes the oldest command: it is younger than all that waits, *)
(* and silences all of it or comes last.                                   *)
LEMMA TakeCommandStep ==
    ASSUME VInv, NEW muted \in BOOLEAN, TakeCommand(muted)
    PROVE  VInv'
<1> DEFINE command == Head(commands)
           kept == Kept(command)
<1>1. /\ commands \in Seq(NarratorCommand) /\ commands # <<>> /\ Len(commands) <= QueueCapacity
      /\ waiting \in Seq(1..MaxCommands) /\ Len(waiting) <= QueueCapacity
      /\ sent \in Nat /\ silenced \in 0..MaxCommands /\ speaking \in 0..MaxCommands
      /\ MaxCommands \in Nat /\ QueueCapacity \in Nat \ {0}
      /\ sent' = sent /\ accepted' = accepted /\ last_text' = last_text /\ speaker' = speaker
      /\ speaker # "ended"
  BY NarratorAssumption DEF VInv, NarratorTypeOK, TakeCommand, Limits
<1>2. /\ commands' = Tail(commands) /\ commands' \in Seq(NarratorCommand)
      /\ Len(commands') = Len(commands) - 1 /\ Len(commands) >= 1
      /\ \A i \in 1 .. Len(commands') : i + 1 \in 1 .. Len(commands) /\ commands'[i] = commands[i + 1]
  BY <1>1, Shortened DEF TakeCommand
<1>3. command = commands[1] /\ command \in NarratorCommand
  BY <1>1, Shortened
<1>4. /\ Len(commands) \in Nat /\ command.id \in 1..MaxCommands
      /\ \A i \in 1 .. Len(commands) : commands[i].id \in 1..MaxCommands
  BY <1>1, <1>2, <1>3, CommandIds, Elements
<1>5. /\ kept \in Seq(1..MaxCommands) /\ Len(kept) <= Len(waiting)
      /\ \A i \in 1 .. Len(kept) : i \in 1 .. Len(waiting) /\ kept[i] = waiting[i]
      /\ command.silences => Len(kept) = 0
  <2>1. kept = waiting \/ kept = <<>>
    BY DEF Kept
  <2>2. command.silences => kept = <<>>
    BY DEF Kept
  <2>3. CASE kept = <<>>
    <3>1. <<>> \in Seq(1..MaxCommands) /\ Len(<<>>) = 0 /\ Len(waiting) \in Nat
      BY <1>1
    <3> HIDE DEF kept
    <3> QED
      BY <2>3, <3>1
  <2>4. CASE kept = waiting /\ ~command.silences
    BY <1>1, <2>4
  <2> QED
    BY <2>1, <2>2, <2>3, <2>4
<1>6. waiting' = kept \/ (waiting' = Append(kept, command.id) /\ Len(kept) < QueueCapacity)
  BY DEF TakeCommand
<1>7. /\ waiting' \in Seq(1..MaxCommands) /\ Len(waiting') <= QueueCapacity
      /\ \A i \in 1 .. Len(waiting') :
            \/ i \in 1 .. Len(kept) /\ waiting'[i] = kept[i]
            \/ i = Len(kept) + 1 /\ waiting'[i] = command.id
  <2> DEFINE longer == Append(kept, command.id)
  <2>1. /\ Len(kept) \in Nat /\ longer \in Seq(1..MaxCommands) /\ Len(longer) = Len(kept) + 1
        /\ \A i \in 1 .. Len(longer) :
              \/ i \in 1 .. Len(kept) /\ longer[i] = kept[i]
              \/ i = Len(kept) + 1 /\ longer[i] = command.id
    BY <1>4, <1>5, Elements, Appended
  <2>2. Len(waiting) \in Nat
    BY <1>1
  <2> HIDE DEF kept, command, longer
  <2>3. CASE waiting' = kept
    BY <1>1, <1>5, <2>1, <2>2, <2>3
  <2>4. CASE waiting' = longer /\ Len(kept) < QueueCapacity
    BY <1>1, <2>1, <2>4
  <2> QED
    BY <1>6, <2>3, <2>4 DEF longer
<1>8. \/ command.silences /\ speaking' = 0 /\ silenced' = command.id
      \/ ~command.silences /\ speaking' = speaking /\ silenced' = silenced
  BY DEF TakeCommand
<1>9. /\ silenced < command.id /\ speaking < command.id /\ command.id <= sent
      /\ \A j \in 1 .. Len(commands') : command.id < commands'[j].id
      /\ \A i \in 1 .. Len(waiting) : waiting[i] < command.id
  BY <1>2, <1>3 DEF VInv, InChannel, BehindVoice
<1>10. NarratorTypeOK'
  <2>1. Len(commands') <= QueueCapacity
    BY <1>1, <1>2, <1>4
  <2>2. silenced' \in 0..MaxCommands /\ speaking' \in 0..MaxCommands
    BY <1>1, <1>4, <1>8
  <2> QED
    BY <1>1, <1>2, <1>7, <2>1, <2>2 DEF VInv, NarratorTypeOK
<1>11. InChannel'
  <2>1. \A j \in 1 .. Len(commands') :
          commands'[j].id <= sent' /\ silenced' < commands'[j].id /\ speaking' < commands'[j].id
    BY <1>1, <1>2, <1>3, <1>4, <1>8, <1>9 DEF VInv, InChannel
  <2>2. \A i, j \in 1 .. Len(commands') : i < j => commands'[i].id < commands'[j].id
    BY <1>1, <1>2 DEF VInv, InChannel
  <2> QED
    BY <2>1, <2>2 DEF InChannel
<1>12. \A i \in 1 .. Len(waiting) : waiting[i] \in 1..MaxCommands
  BY <1>1
<1>13. BehindVoice'
  <2> HIDE DEF kept, command
  <2>0. Len(kept) \in Nat /\ Len(waiting) \in Nat
    BY <1>1, <1>5, Elements
  <2>1. ASSUME NEW i \in 1 .. Len(waiting'), NEW j \in 1 .. Len(waiting'), i < j
        PROVE  waiting'[i] < waiting'[j]
    <3>1. i \in 1 .. Len(kept) /\ waiting'[i] = waiting[i] /\ i \in 1 .. Len(waiting)
      BY <1>5, <1>7, <2>0, <2>1
    <3>2. CASE j \in 1 .. Len(kept) /\ waiting'[j] = kept[j]
      BY <1>5, <2>1, <3>1, <3>2 DEF VInv, BehindVoice
    <3>3. CASE waiting'[j] = command.id
      BY <1>9, <3>1, <3>3
    <3> QED
      BY <1>7, <3>2, <3>3
  <2>2. ASSUME NEW i \in 1 .. Len(waiting')
        PROVE  waiting'[i] <= sent' /\ silenced' <= waiting'[i] /\ speaking' < waiting'[i]
    <3>1. CASE waiting'[i] = command.id
      BY <1>1, <1>4, <1>8, <1>9, <3>1
    <3>2. CASE i \in 1 .. Len(kept) /\ waiting'[i] = kept[i]
      <4>1. ~command.silences /\ i \in 1 .. Len(waiting) /\ waiting'[i] = waiting[i]
        BY <1>5, <2>0, <3>2
      <4> QED
        BY <1>1, <1>8, <4>1 DEF VInv, BehindVoice
    <3> QED
      BY <1>7, <3>1, <3>2
  <2>3. \A i \in 1 .. Len(waiting'), j \in 1 .. Len(commands') : waiting'[i] < commands'[j].id
    BY <1>2, <1>4, <1>5, <1>7, <1>9, <1>12 DEF VInv, BehindVoice
  <2> QED
    BY <2>1, <2>2, <2>3 DEF BehindVoice
<1>14. AtVoice'
  BY <1>1, <1>4, <1>8, <1>9 DEF VInv, AtVoice
<1> QED
  BY <1>10, <1>11, <1>13, <1>14 DEF VInv

(* The voice takes the oldest utterance that waits.                        *)
LEMMA VoiceStartsStep ==
    ASSUME VInv, VoiceStarts
    PROVE  VInv'
<1>1. /\ waiting \in Seq(1..MaxCommands) /\ waiting # <<>> /\ Len(waiting) <= QueueCapacity
      /\ sent \in Nat /\ silenced \in 0..MaxCommands /\ speaking = 0
      /\ MaxCommands \in Nat /\ QueueCapacity \in Nat \ {0}
      /\ sent' = sent /\ accepted' = accepted /\ last_text' = last_text /\ speaker' = speaker
      /\ commands' = commands /\ silenced' = silenced /\ speaker # "ended"
  BY NarratorAssumption DEF VInv, NarratorTypeOK, VoiceStarts, Limits
<1>2. /\ waiting' = Tail(waiting) /\ waiting' \in Seq(1..MaxCommands)
      /\ Len(waiting') = Len(waiting) - 1 /\ Len(waiting) >= 1
      /\ \A i \in 1 .. Len(waiting') : i + 1 \in 1 .. Len(waiting) /\ waiting'[i] = waiting[i + 1]
  BY <1>1 DEF VoiceStarts
<1>3. speaking' \in {waiting[1], 0} /\ waiting[1] \in 1..MaxCommands
  BY <1>1, <1>2 DEF VoiceStarts
<1>4. \A i \in 1 .. Len(waiting) : waiting[i] \in 1..MaxCommands
  BY <1>1
<1>5. NarratorTypeOK'
  BY <1>1, <1>2, <1>3 DEF VInv, NarratorTypeOK
<1>6. InChannel'
  BY <1>1, <1>2, <1>3 DEF VInv, InChannel, BehindVoice
<1>7. BehindVoice'
  BY <1>1, <1>2, <1>3, <1>4 DEF VInv, BehindVoice
<1>8. AtVoice'
  BY <1>1, <1>2, <1>3 DEF VInv, AtVoice, BehindVoice
<1> QED
  BY <1>5, <1>6, <1>7, <1>8 DEF VInv

(* Time passes, the voice ends, the broker or the worker ends.             *)
LEMMA OtherVoiceStep ==
    ASSUME VInv, TextAges \/ NewWindow \/ NarratorDrop \/ VoiceEnds \/ WorkerEnds
                 \/ UNCHANGED narratorVars
    PROVE  VInv'
<1>1. /\ MaxCommands \in Nat /\ sent \in Nat /\ MaxPerWindow \in Nat
      /\ commands \in Seq(NarratorCommand) /\ waiting \in Seq(1..MaxCommands)
  BY NarratorAssumption DEF VInv, NarratorTypeOK
<1>2. /\ \A i \in 1 .. Len(commands) : commands[i].id \in 1..MaxCommands
      /\ \A i \in 1 .. Len(waiting) : waiting[i] \in 1..MaxCommands
  BY <1>1, CommandIds
<1>3. /\ sent' = sent /\ commands' = commands /\ waiting' = waiting /\ silenced' = silenced
      /\ speaking' \in {speaking, 0} /\ (speaker' = "ended" => speaking' = 0)
      /\ speaker' \in {"running", "closing", "ended"}
      /\ accepted' \in {accepted, 0} /\ last_text' \in {last_text, NoText}
  BY DEF VInv, NarratorTypeOK, AtVoice, TextAges, NewWindow, NarratorDrop, VoiceEnds, WorkerEnds,
         narratorVars, Limits, Voice
<1>4. NarratorTypeOK'
  BY <1>1, <1>3 DEF VInv, NarratorTypeOK
<1>5. InChannel'
  BY <1>2, <1>3 DEF VInv, InChannel
<1>6. BehindVoice'
  BY <1>2, <1>3 DEF VInv, BehindVoice
<1>7. AtVoice'
  BY <1>1, <1>3 DEF VInv, AtVoice
<1> QED
  BY <1>4, <1>5, <1>6, <1>7 DEF VInv

(* Every step of the broker or of its worker keeps the invariant.          *)
LEMMA NextVInv == VInv /\ [NarratorNext]_narratorVars => VInv'
  BY BrokerStep, TakeCommandStep, VoiceStartsStep, OtherVoiceStep DEF NarratorNext

(* The narrator's invariant holds, whatever the game sends.                *)
THEOREM NarratorInvariance == NarratorSpec => []VInv
  BY InitVInv, NextVInv, PTL DEF NarratorSpec

(* Two sequences in order, the first before the second, are one in order.  *)
LEMMA InOrder ==
    ASSUME NEW s \in Seq(Nat), NEW t \in Seq(Nat), Increasing(s), Increasing(t),
           \A i \in 1 .. Len(s), j \in 1 .. Len(t) : s[i] < t[j]
    PROVE  /\ s \o t \in Seq(Nat) /\ Increasing(s \o t) /\ Len(s \o t) = Len(s) + Len(t)
           /\ \A k \in 1 .. Len(s \o t) :
                 \/ k \in 1 .. Len(s) /\ (s \o t)[k] = s[k]
                 \/ k - Len(s) \in 1 .. Len(t) /\ (s \o t)[k] = t[k - Len(s)]
<1>1. s \o t \in Seq(Nat) /\ Len(s \o t) = Len(s) + Len(t)
  OBVIOUS
<1>2. \A k \in 1 .. Len(s \o t) :
        \/ k \in 1 .. Len(s) /\ (s \o t)[k] = s[k]
        \/ k - Len(s) \in 1 .. Len(t) /\ (s \o t)[k] = t[k - Len(s)]
  BY <1>1
<1>3. Increasing(s \o t)
  <2> DEFINE u == s \o t
  <2>1. ASSUME NEW i \in 1 .. Len(u), NEW j \in 1 .. Len(u), i < j
        PROVE  u[i] < u[j]
    <3>1. CASE j \in 1 .. Len(s)
      BY <1>1, <2>1, <3>1 DEF Increasing
    <3>2. CASE i \in 1 .. Len(s) /\ j - Len(s) \in 1 .. Len(t)
      BY <1>1, <2>1, <3>2
    <3>3. CASE i - Len(s) \in 1 .. Len(t) /\ j - Len(s) \in 1 .. Len(t)
      <4>1. t[i - Len(s)] < t[j - Len(s)]
        BY <2>1, <3>3 DEF Increasing
      <4> QED
        BY <1>1, <2>1, <3>3, <4>1
    <3> QED
      BY <1>1, <2>1, <3>1, <3>2, <3>3
  <2> QED
    BY <1>1, <2>1 DEF Increasing
<1> QED
  BY <1>1, <1>2, <1>3

(* However many commands of whatever kinds the game sends, and however     *)
(* short the queues are: what is spoken is spoken in the order it was said *)
(* in, and nothing from before a silencing command.                        *)
THEOREM AlwaysInOrder == NarratorSpec => []SpokenInOrder
<1>1. VInv => SpokenInOrder
  <2> SUFFICES ASSUME VInv PROVE SpokenInOrder
    OBVIOUS
  <2> DEFINE ids == [i \in DOMAIN commands |-> commands[i].id]
             heard == IF speaking = 0 THEN <<>> ELSE <<speaking>>
  <2>1. /\ commands \in Seq(NarratorCommand) /\ waiting \in Seq(1..MaxCommands)
        /\ speaking \in Nat /\ silenced \in Nat /\ MaxCommands \in Nat
    BY NarratorAssumption DEF VInv, NarratorTypeOK
  <2>2. waiting \in Seq(Nat)
    BY <2>1
  <2>3. /\ ids \in Seq(Nat) /\ Len(ids) = Len(commands)
        /\ \A i \in 1 .. Len(commands) : ids[i] = commands[i].id
    <3>1. \A i \in 1 .. Len(commands) : commands[i].id \in Nat
      BY <2>1, CommandIds
    <3>2. DOMAIN commands = 1 .. Len(commands) /\ Len(commands) \in Nat
      BY <2>1
    <3> QED
      BY <3>1, <3>2
  <2>4. heard \in Seq(Nat) /\ Increasing(heard)
        /\ \A i \in 1 .. Len(heard) : heard[i] = speaking /\ speaking # 0
    BY <2>1 DEF Increasing
  <2>5. Increasing(waiting)
    BY <2>1 DEF VInv, BehindVoice, Increasing
  <2>6. Increasing(ids)
    BY <2>1, <2>3 DEF VInv, InChannel, Increasing
  <2>7. \A i \in 1 .. Len(heard), j \in 1 .. Len(waiting) : heard[i] < waiting[j]
    BY <2>4 DEF VInv, BehindVoice
  <2>8. /\ heard \o waiting \in Seq(Nat) /\ Increasing(heard \o waiting)
        /\ \A k \in 1 .. Len(heard \o waiting) :
              \/ (heard \o waiting)[k] = speaking /\ speaking # 0
              \/ \E i \in 1 .. Len(waiting) : (heard \o waiting)[k] = waiting[i]
    <3>1. /\ heard \o waiting \in Seq(Nat) /\ Increasing(heard \o waiting)
          /\ \A k \in 1 .. Len(heard \o waiting) :
                \/ k \in 1 .. Len(heard) /\ (heard \o waiting)[k] = heard[k]
                \/ /\ k - Len(heard) \in 1 .. Len(waiting)
                   /\ (heard \o waiting)[k] = waiting[k - Len(heard)]
      <4> HIDE DEF heard
      <4> QED
        BY <2>2, <2>4, <2>5, <2>7, InOrder
    <3> HIDE DEF heard
    <3> QED
      BY <2>4, <3>1
  <2>9. \A i \in 1 .. Len(heard \o waiting), j \in 1 .. Len(ids) : (heard \o waiting)[i] < ids[j]
    <3>1. \A j \in 1 .. Len(commands) :
             /\ speaking # 0 => speaking < commands[j].id
             /\ \A i \in 1 .. Len(waiting) : waiting[i] < commands[j].id
      BY DEF VInv, InChannel, BehindVoice
    <3> HIDE DEF heard, ids
    <3> QED
      BY <2>3, <2>8, <3>1
  <2>10. Increasing((heard \o waiting) \o ids)
    BY <2>3, <2>6, <2>8, <2>9, InOrder
  <2>11. \A i \in DOMAIN (heard \o waiting) : (heard \o waiting)[i] >= silenced
    <3>1. speaking # 0 => speaking >= silenced
      BY <2>1 DEF VInv, AtVoice
    <3>2. \A j \in 1 .. Len(waiting) : waiting[j] >= silenced
      <4>1. \A j \in 1 .. Len(waiting) : silenced =< waiting[j]
        BY DEF VInv, BehindVoice
      <4>2. \A j \in 1 .. Len(waiting) : waiting[j] \in Nat
        BY <2>2
      <4> QED
        BY <2>1, <4>1, <4>2
    <3>3. DOMAIN (heard \o waiting) = 1 .. Len(heard \o waiting)
      <4> HIDE DEF heard
      <4> QED
        BY <2>8
    <3> HIDE DEF heard
    <3> QED
      BY <2>8, <3>1, <3>2, <3>3
  <2>12. Increasing(heard \o waiting \o ids)
    BY <2>10
  <2> QED
    BY <2>11, <2>12 DEF SpokenInOrder, VInv, AtVoice
<1> QED
  BY <1>1, NarratorInvariance, PTL
-----------------------------------------------------------------------------
(* The lines of the output. The first n bytes of a line, cut at the limit, *)
(* and none of them a newline.                                             *)
LineRead(n) ==
    /\ line = SubSeq(output, beginning + 1, beginning + Least(n, MaxLine))
    /\ truncated <=> n > MaxLine
    /\ \A k \in beginning + 1 .. beginning + n : output[k] # "\n"

(* A line ends at a newline or with the output.                            *)
LineEnds(first, n, last) ==
    /\ n \in 0 .. last - first
    /\ \A k \in first + 1 .. first + n : output[k] # "\n"
    /\ n = last - first \/ output[first + n + 1] = "\n"

OInv ==
    /\ output \in Seq(Bytes)
    /\ beginning \in Nat /\ consumed \in beginning .. Len(output)
    /\ truncated \in BOOLEAN
    /\ reading = "read" => LineRead(consumed - beginning)
    /\ reading \in {"cut", "said"} =>
          \E n \in Nat : /\ LineRead(n)
                         /\ LineEnds(beginning, n, Len(output))
                         /\ consumed = Least(Len(output), beginning + n + 1)
    /\ reading = "said" => said = [text |-> WithoutReturn(line), truncated |-> truncated]

(* A set of numbers has a least one.                                       *)
LEMMA LeastNumber ==
    ASSUME NEW T \in SUBSET Nat, T # {}
    PROVE  \E x \in T : \A y \in T : x <= y
<1>1. PICK x \in T : \A y \in T : ~(<<y, x>> \in OpToRel(<, Nat))
  BY NatLessThanWellFounded, WFMin
<1>2. \A y \in T : ~(y < x)
  BY <1>1 DEF OpToRel
<1> QED
  BY <1>2

(* The length of a line is where it ends,                                  *)
LEMMA ContentEnds ==
    ASSUME output \in Seq(Bytes), NEW first \in Nat, NEW last \in first .. Len(output)
    PROVE  LineEnds(first, Content(first, last), last)
<1> DEFINE ends == {k \in first + 1 .. last : output[k] = "\n"}
<1>1. Len(output) \in Nat /\ last \in Nat
  OBVIOUS
<1>2. CASE ends = {}
  <2>1. Content(first, last) = last - first
    BY <1>2 DEF Content
  <2> QED
    BY <1>1, <1>2, <2>1 DEF LineEnds
<1>3. CASE ends # {}
  <2> DEFINE least == CHOOSE k \in ends : \A l \in ends : k <= l
  <2>1. \E k \in ends : \A l \in ends : k <= l
    <3>1. ends \in SUBSET Nat
      BY <1>1
    <3> HIDE DEF ends
    <3> QED
      BY <1>3, <3>1, LeastNumber
  <2>2. least \in ends /\ \A l \in ends : least <= l
    BY <2>1
  <2>3. Content(first, last) = least - first - 1
    BY <1>3 DEF Content
  <2>4. least \in first + 1 .. last /\ output[least] = "\n"
    BY <2>2
  <2>5. \A k \in first + 1 .. least - 1 : output[k] # "\n"
    <3>1. ASSUME NEW k \in first + 1 .. least - 1, output[k] = "\n" PROVE FALSE
      <4>1. k \in ends
        BY <1>1, <2>4, <3>1
      <4> HIDE DEF least, ends
      <4> QED
        BY <1>1, <2>2, <2>4, <3>1, <4>1
    <3> QED
      BY <3>1
  <2> HIDE DEF least
  <2> QED
    BY <1>1, <2>3, <2>4, <2>5 DEF LineEnds
<1> QED
  BY <1>2, <1>3

(* and nowhere else.                                                       *)
LEMMA OneEnd ==
    ASSUME NEW first \in Nat, NEW last \in Nat, NEW n, NEW m,
           LineEnds(first, n, last), LineEnds(first, m, last)
    PROVE  n = m
<1>1. n \in Nat /\ m \in Nat /\ n <= last - first /\ m <= last - first
  BY DEF LineEnds
<1>2. ~(n < m) /\ ~(m < n)
  BY <1>1 DEF LineEnds
<1> QED
  BY <1>1, <1>2

(* What one sequence after another is.                                     *)
LEMMA OneAfterAnother ==
    ASSUME NEW S, NEW s \in Seq(S), NEW t \in Seq(S)
    PROVE  /\ s \o t \in Seq(S) /\ Len(s \o t) = Len(s) + Len(t)
           /\ \A i \in 1 .. Len(s) + Len(t) :
                 (s \o t)[i] = IF i <= Len(s) THEN s[i] ELSE t[i - Len(s)]
  OBVIOUS

(* Sequences with the same elements are the same.                          *)
LEMMA SameElements ==
    ASSUME NEW S, NEW s \in Seq(S), NEW t \in Seq(S), Len(s) = Len(t),
           \A i \in 1 .. Len(s) : s[i] = t[i]
    PROVE  s = t
  OBVIOUS

(* A part of the output that follows another part.                         *)
LEMMA NextPart ==
    ASSUME output \in Seq(Bytes), NEW a \in Nat, NEW b \in a .. Len(output),
           NEW c \in b .. Len(output)
    PROVE  SubSeq(output, a + 1, b) \o SubSeq(output, b + 1, c) = SubSeq(output, a + 1, c)
<1> DEFINE s == SubSeq(output, a + 1, b)
           t == SubSeq(output, b + 1, c)
           u == SubSeq(output, a + 1, c)
<1>0. Len(output) \in Nat /\ b \in Nat /\ c \in Nat /\ \A i \in 1 .. Len(output) : output[i] \in Bytes
  OBVIOUS
<1>1. s \in Seq(Bytes) /\ Len(s) = b - a /\ \A i \in 1 .. Len(s) : s[i] = output[a + i]
  BY <1>0
<1>2. t \in Seq(Bytes) /\ Len(t) = c - b /\ \A i \in 1 .. Len(t) : t[i] = output[b + i]
  BY <1>0
<1>3. u \in Seq(Bytes) /\ Len(u) = c - a /\ \A i \in 1 .. Len(u) : u[i] = output[a + i]
  BY <1>0
<1> HIDE DEF s, t, u
<1>4. /\ s \o t \in Seq(Bytes) /\ Len(s \o t) = Len(s) + Len(t)
      /\ \A i \in 1 .. Len(s) + Len(t) :
            (s \o t)[i] = IF i <= Len(s) THEN s[i] ELSE t[i - Len(s)]
  BY <1>1, <1>2, OneAfterAnother
<1>5. Len(s \o t) = Len(u)
  BY <1>0, <1>1, <1>2, <1>3, <1>4
<1>6. \A i \in 1 .. Len(s \o t) : (s \o t)[i] = u[i]
  <2> SUFFICES ASSUME NEW i \in 1 .. Len(s) + Len(t)
               PROVE  (s \o t)[i] = u[i]
    BY <1>4
  <2>1. i \in 1 .. Len(u)
    BY <1>4, <1>5
  <2>2. CASE i <= Len(s)
    <3>1. i \in 1 .. Len(s)
      BY <1>0, <1>1, <1>2, <2>2
    <3> QED
      BY <1>1, <1>3, <1>4, <2>1, <2>2, <3>1
  <2>3. CASE ~(i <= Len(s))
    <3>1. i - Len(s) \in 1 .. Len(t) /\ b + (i - Len(s)) = a + i
      BY <1>0, <1>1, <1>2, <2>3
    <3> QED
      BY <1>2, <1>3, <1>4, <2>1, <2>3, <3>1
  <2> QED
    BY <2>2, <2>3
<1>7. s \o t = u
  BY <1>3, <1>4, <1>5, <1>6, SameElements
<1> QED
  BY <1>7 DEF s, t, u

(* A reader begins at the beginning.                                       *)
LEMMA InitOInv == LinesInit => OInv
<1> SUFFICES ASSUME LinesInit PROVE OInv
  OBVIOUS
<1>1. PICK n \in 0 .. MaxOutput : output \in [1 .. n -> Bytes]
  BY DEF LinesInit
<1>2. n \in Nat /\ MaxLine \in Nat
  BY OutputAssumption
<1>3. output \in Seq(Bytes)
  BY <1>1, <1>2
<1>4. Least(0, MaxLine) = 0
  BY <1>2 DEF Least
<1>5. SubSeq(output, 1, 0) = <<>>
  BY <1>3
<1>6. LineRead(consumed - beginning)
  BY <1>2, <1>4, <1>5 DEF LinesInit, LineRead
<1>7. beginning \in Nat /\ consumed \in beginning .. Len(output)
  BY <1>3 DEF LinesInit
<1> QED
  BY <1>3, <1>6, <1>7 DEF LinesInit, OInv

(* A piece: what it adds to the line, and where it ends.                   *)
LEMMA PieceStep ==
    ASSUME OInv, NEW last \in 1 .. Len(output), ReadPiece(last)
    PROVE  OInv'
<1> DEFINE length == Content(consumed, last)
           copied == Least(length, Room)
           read == consumed - beginning
           newline == consumed + length < last
<1>1. /\ output \in Seq(Bytes) /\ Len(output) \in Nat /\ MaxLine \in Nat
      /\ beginning \in Nat /\ consumed \in Nat /\ beginning <= consumed
      /\ last \in Nat /\ consumed < last /\ last <= Len(output)
      /\ reading = "read" /\ truncated \in BOOLEAN
  BY OutputAssumption DEF OInv, ReadPiece
<1>2. /\ line' = line \o SubSeq(output, consumed + 1, consumed + copied)
      /\ truncated' = (truncated \/ copied < length)
      /\ consumed' = consumed + length + (IF newline THEN 1 ELSE 0)
      /\ reading' = IF newline THEN "cut" ELSE "read"
      /\ output' = output /\ beginning' = beginning /\ said' = said
  BY DEF ReadPiece
<1>3. LineEnds(consumed, length, last)
  BY <1>1, ContentEnds
<1>4. LineRead(read)
  BY <1>1 DEF OInv
<1> HIDE DEF length, copied, read, newline
<1>5. /\ length \in Nat /\ consumed + length <= last
      /\ \A k \in consumed + 1 .. consumed + length : output[k] # "\n"
      /\ newline => output[consumed + length + 1] = "\n"
      /\ newline <=> consumed + length < last
  BY <1>1, <1>3 DEF LineEnds, newline
<1>6. read \in Nat /\ beginning + read = consumed
  BY <1>1 DEF read
<1>7. Least(read, MaxLine) \in Nat /\ Least(read, MaxLine) <= read
  BY <1>1, <1>6 DEF Least
<1>8. Len(line) = Least(read, MaxLine)
  BY <1>1, <1>4, <1>6, <1>7 DEF LineRead
<1>9. /\ copied \in Nat /\ copied <= length
      /\ Least(read + length, MaxLine) = Least(read, MaxLine) + copied
      /\ truncated' \in BOOLEAN /\ (truncated' <=> read + length > MaxLine)
      /\ read > MaxLine => copied = 0
      /\ read <= MaxLine => Least(read, MaxLine) = read
  <2>1. truncated' \in BOOLEAN /\ (truncated' <=> truncated \/ copied < length)
    BY <1>2
  <2>2. Room = MaxLine - Least(read, MaxLine)
    BY <1>1, <1>7, <1>8 DEF Room, Least
  <2>3. copied = IF length < MaxLine - Least(read, MaxLine)
                 THEN length ELSE MaxLine - Least(read, MaxLine)
    BY <2>2 DEF copied, Least
  <2>4. CASE read <= MaxLine
    <3>1. Least(read, MaxLine) = read /\ ~truncated
      BY <1>1, <1>4, <1>6, <2>4 DEF Least, LineRead
    <3> QED
      BY <1>1, <1>5, <1>6, <2>1, <2>4, <2>3, <3>1 DEF Least
  <2>5. CASE read > MaxLine
    <3>1. Least(read, MaxLine) = MaxLine /\ truncated
      BY <1>1, <1>4, <1>6, <2>5 DEF Least, LineRead
    <3> QED
      BY <1>1, <1>5, <1>6, <2>1, <2>5, <2>3, <3>1 DEF Least
  <2> QED
    BY <1>1, <1>6, <2>4, <2>5
<1>10. line' = SubSeq(output, beginning + 1, beginning + Least(read + length, MaxLine))
  <2>1. CASE read <= MaxLine
    <3>1. line = SubSeq(output, beginning + 1, consumed)
      BY <1>4, <1>6, <1>9, <2>1 DEF LineRead
    <3>2. beginning + Least(read + length, MaxLine) = consumed + copied
      BY <1>1, <1>6, <1>9, <2>1
    <3>3. consumed \in beginning .. Len(output) /\ consumed + copied \in consumed .. Len(output)
      BY <1>1, <1>5, <1>9
    <3> QED
      BY <1>1, <1>2, <3>1, <3>2, <3>3, NextPart
  <2>2. CASE read > MaxLine
    <3>1. SubSeq(output, consumed + 1, consumed + copied) = <<>>
      BY <1>1, <1>9, <2>2
    <3>2. line \in Seq(Bytes)
      BY <1>1, <1>4, <1>6, <1>7 DEF LineRead
    <3> QED
      BY <1>1, <1>2, <1>4, <1>6, <1>7, <1>9, <2>2, <3>1, <3>2 DEF LineRead
  <2> QED
    BY <1>1, <1>6, <2>1, <2>2
<1>11. \A k \in beginning + 1 .. beginning + (read + length) : output[k] # "\n"
  BY <1>1, <1>4, <1>5, <1>6 DEF LineRead
<1>12. PICK total \in Nat : total = read + length
  BY <1>5, <1>6
<1>13. LineRead(total)'
  BY <1>2, <1>9, <1>10, <1>11, <1>12 DEF LineRead
<1> QED
  <2>1. CASE newline
    <3>1. /\ consumed' = beginning + total + 1 /\ consumed' \in beginning .. Len(output)
          /\ reading' = "cut"
      BY <1>1, <1>2, <1>5, <1>6, <1>12, <2>1
    <3>2. LineEnds(beginning, total, Len(output))
      BY <1>1, <1>5, <1>6, <1>11, <1>12, <2>1 DEF LineEnds
    <3>3. consumed' = Least(Len(output), beginning + total + 1)
      BY <1>1, <1>12, <3>1 DEF Least
    <3>4. LineEnds(beginning, total, Len(output))' /\ consumed' = Least(Len(output), beginning + total + 1)'
      BY <1>2, <3>2, <3>3 DEF LineEnds, Least
    <3> QED
      BY <1>1, <1>2, <1>9, <1>13, <3>1, <3>4 DEF OInv
  <2>2. CASE ~newline
    <3>1. /\ consumed' = beginning + total /\ consumed' \in beginning .. Len(output)
          /\ reading' = "read" /\ consumed' - beginning' = total
      BY <1>1, <1>2, <1>5, <1>6, <1>12, <2>2
    <3>2. LineRead(consumed - beginning)'
      BY <1>13, <3>1 DEF LineRead
    <3> QED
      BY <1>1, <1>2, <1>9, <3>1, <3>2 DEF OInv
  <2> QED
    BY <2>1, <2>2

(* The output ends or fails, and a line is handed on.                      *)
LEMMA OtherLineStep ==
    ASSUME OInv, EndOfOutput \/ OutputFails \/ OnLine \/ NextLine \/ UNCHANGED linesVars
    PROVE  OInv'
<1>1. /\ output \in Seq(Bytes) /\ Len(output) \in Nat /\ MaxLine \in Nat
      /\ beginning \in Nat /\ consumed \in Nat /\ beginning <= consumed /\ consumed <= Len(output)
      /\ truncated \in BOOLEAN
  BY OutputAssumption DEF OInv
<1>2. CASE EndOfOutput
  <2>1. LineRead(consumed - beginning) /\ consumed - beginning \in Nat /\ consumed = Len(output)
    BY <1>1, <1>2 DEF OInv, EndOfOutput
  <2>2. LineEnds(beginning, consumed - beginning, Len(output))
    BY <1>1, <2>1 DEF LineEnds, LineRead
  <2>3. consumed = Least(Len(output), beginning + (consumed - beginning) + 1)
    BY <1>1, <2>1 DEF Least
  <2> QED
    BY <1>1, <1>2, <2>1, <2>2, <2>3 DEF OInv, EndOfOutput, LineRead, LineEnds
<1>3. CASE OutputFails
  BY <1>1, <1>3 DEF OInv, OutputFails
<1>4. CASE OnLine
  BY <1>1, <1>4 DEF OInv, OnLine, LineRead, LineEnds
<1>5. CASE NextLine
  <2>1. consumed - consumed = 0 /\ Least(0, MaxLine) = 0 /\ SubSeq(output, consumed + 1, consumed) = <<>>
    BY <1>1 DEF Least
  <2>2. LineRead(consumed - beginning)'
    BY <1>1, <1>5, <2>1 DEF NextLine, LineRead
  <2>3. beginning' \in Nat /\ consumed' \in beginning' .. Len(output')
    BY <1>1, <1>5 DEF NextLine
  <2> QED
    BY <1>1, <1>5, <2>2, <2>3 DEF OInv, NextLine
<1>6. CASE UNCHANGED linesVars
  BY <1>6 DEF OInv, linesVars, LineRead, LineEnds
<1> QED
  BY <1>2, <1>3, <1>4, <1>5, <1>6

(* Every step of the reader keeps the invariant.                           *)
LEMMA NextOInv == OInv /\ [LinesNext]_linesVars => OInv'
  BY PieceStep, OtherLineStep DEF LinesNext

(* The invariant of the output holds, however the pipe divides the bytes.  *)
THEOREM LinesInvariance == LinesSpec => []OInv
  BY InitOInv, NextOInv, PTL DEF LinesSpec

(* Every line is handed on as the game wrote it, cut at the limit and      *)
(* marked when it was, for any output, any limit and any division of the   *)
(* output into pieces.                                                     *)
THEOREM AlwaysAsWritten == LinesSpec => []LinesAsWritten
<1>1. OInv => LinesAsWritten
  <2> SUFFICES ASSUME OInv, reading = "said" PROVE LinesAsWritten
    BY DEF LinesAsWritten
  <2> DEFINE length == Content(beginning, Len(output))
  <2>1. PICK n \in Nat : /\ LineRead(n)
                         /\ LineEnds(beginning, n, Len(output))
                         /\ consumed = Least(Len(output), beginning + n + 1)
    BY DEF OInv
  <2>2. output \in Seq(Bytes) /\ beginning \in Nat /\ Len(output) \in beginning .. Len(output)
    BY DEF OInv
  <2>3. LineEnds(beginning, length, Len(output))
    BY <2>2, ContentEnds
  <2>4. n = length
    BY <2>1, <2>2, <2>3, OneEnd
  <2> HIDE DEF length
  <2>5. said = [text |-> WithoutReturn(line), truncated |-> truncated]
    BY DEF OInv
  <2>6. truncated = (length > MaxLine)
    <3>1. truncated \in BOOLEAN /\ (truncated <=> length > MaxLine)
      BY <2>1, <2>4 DEF OInv, LineRead
    <3> QED
      BY <3>1
  <2> QED
    BY <2>1, <2>4, <2>5, <2>6 DEF LinesAsWritten, LineRead, length
<1> QED
  BY <1>1, LinesInvariance, PTL
=============================================================================
