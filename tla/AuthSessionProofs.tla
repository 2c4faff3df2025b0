--------------------------- MODULE AuthSessionProofs ---------------------------
(***************************************************************************)
(* Proofs about AuthSession, for any callers, accounts and bounds: however *)
(* sign-ins, sign-outs, refreshes and launches overlap, the token store,   *)
(* the cached session and the leases of running games name one account.    *)
(***************************************************************************)
EXTENDS AuthSession, TLAPS

(* The places of a caller that has the mutex and has begun to work.        *)
Holding == {"polling", "saving", "saved", "deleting", "refreshing", "rotating", "authenticating"}
Waiting == Holding \cup {"queued"}

Records == [pc : PCs, op : Ops, sid : Nat, acct : Accounts \cup {None}, gen : Nat]

SessionType ==
    /\ generation \in Nat
    /\ token \in Accounts \cup {None}
    /\ session \in Accounts \cup {None}
    /\ issued \in Nat
    /\ queue \in Seq(Callers)
    /\ caller \in [Callers -> Records]
    /\ leases \subseteq [gen : Nat, acct : Accounts]

(* The queue is exactly the callers that wait, each once, and only its     *)
(* first one works.                                                        *)
Mutex ==
    /\ \A k \in 1 .. Len(queue) : /\ caller[queue[k]].pc \in Waiting
                                  /\ k > 1 => caller[queue[k]].pc = "queued"
    /\ \A k, n \in 1 .. Len(queue) : queue[k] = queue[n] => k = n
    /\ \A c \in Callers : caller[c].pc \in Holding => queue # <<>> /\ queue[1] = c

(* What the caller with the mutex knows of the store and the cache. Here   *)
(* is why a refresh cannot undo a sign-out: what it has loaded is there    *)
(* until it saves.                                                         *)
Credentials ==
    \A c \in Callers :
        /\ caller[c].pc \in {"refreshing", "rotating", "authenticating"} =>
              caller[c].acct = token /\ token # None /\ session = None
        /\ caller[c].pc = "deleting" => session = None
        /\ caller[c].pc \in {"saving", "saved"} => caller[c].op = "poll"
        /\ caller[c].pc \in {"saving", "acquired"} => caller[c].acct # None

(* No generation is ahead; and one that is current was read after the last *)
(* change of account: no lease has it while a new token is being saved.    *)
Fresh(g, a) == g < generation \/ (g = generation /\ token \in {a, None})

Generations ==
    /\ \A c \in Callers : caller[c].gen <= generation
    /\ \A c \in Callers : caller[c].pc = "acquired" /\ caller[c].op = "launch" =>
          Fresh(caller[c].gen, caller[c].acct)
    /\ \A l \in leases : Fresh(l.gen, l.acct)
    /\ \A c \in Callers : caller[c].pc = "saving" =>
          /\ \A l \in leases : l.gen < generation
          /\ \A d \in Callers : caller[d].pc = "acquired" /\ caller[d].op = "launch" =>
                caller[d].gen < generation

IInv ==
    /\ SessionType
    /\ Mutex
    /\ Credentials
    /\ Generations
    /\ SessionMatchesToken
    /\ SignedOutStaysOut

-----------------------------------------------------------------------------
(* Sequences.                                                              *)
LEMMA HeadIsFirst ==
    ASSUME NEW S, NEW q \in Seq(S), q # <<>>
    PROVE  /\ Head(q) = q[1] /\ Head(q) \in S
           /\ Tail(q) \in Seq(S)
           /\ Len(q) \in Nat /\ Len(q) > 0
           /\ Len(Tail(q)) = Len(q) - 1
           /\ \A k \in 1 .. Len(Tail(q)) : Tail(q)[k] = q[k + 1]
  OBVIOUS

(* What appending an element to a sequence leaves and adds.                *)
LEMMA AppendedLast ==
    ASSUME NEW S, NEW q \in Seq(S), NEW e \in S
    PROVE  /\ Append(q, e) \in Seq(S) /\ Append(q, e) # <<>>
           /\ Len(q) \in Nat
           /\ Len(Append(q, e)) = Len(q) + 1
           /\ \A k \in 1 .. Len(q) : Append(q, e)[k] = q[k]
           /\ Append(q, e)[Len(q) + 1] = e
  OBVIOUS

(* A caller that does not wait has no place in the queue.                  *)
LEMMA NoPlace ==
    ASSUME SessionType, Mutex, NEW c \in Callers, caller[c].pc \notin Waiting
    PROVE  \A k \in 1 .. Len(queue) : queue[k] # c
  BY DEF Mutex

-----------------------------------------------------------------------------
(* The mutex: what a step of caller c does to the queue.                   *)

(* A caller outside goes on outside.                                       *)
LEMMA MutexOutside ==
    ASSUME SessionType, Mutex, NEW c \in Callers, NEW w \in Records,
           caller' = [caller EXCEPT ![c] = w], UNCHANGED queue,
           caller[c].pc \notin Waiting, w.pc \notin Waiting
    PROVE  Mutex'
<1>1. \A d \in Callers : d # c => caller'[d] = caller[d]
  BY DEF SessionType
<1>2. caller'[c] = w
  BY DEF SessionType
<1>3. \A k \in 1 .. Len(queue) : queue[k] # c /\ queue[k] \in Callers
  BY NoPlace DEF SessionType
<1> QED
  BY <1>1, <1>2, <1>3 DEF Mutex, Waiting

(* A caller joins the queue.                                               *)
LEMMA MutexEnqueue ==
    ASSUME SessionType, Mutex, NEW c \in Callers, NEW w \in Records,
           caller' = [caller EXCEPT ![c] = w], queue' = Append(queue, c),
           caller[c].pc \notin Waiting, w.pc = "queued"
    PROVE  Mutex'
<1>1. \A d \in Callers : d # c => caller'[d] = caller[d]
  BY DEF SessionType
<1>2. caller'[c] = w
  BY DEF SessionType
<1>3. \A k \in 1 .. Len(queue) : queue[k] # c /\ queue[k] \in Callers
  BY NoPlace DEF SessionType
<1>4. /\ queue' # <<>> /\ Len(queue) \in Nat /\ Len(queue') = Len(queue) + 1
      /\ \A k \in 1 .. Len(queue) : queue'[k] = queue[k]
      /\ queue'[Len(queue) + 1] = c
  BY AppendedLast DEF SessionType
<1>5. \A k \in 1 .. Len(queue') : k \in 1 .. Len(queue) \/ k = Len(queue) + 1
  BY <1>4
<1>6. ASSUME NEW k \in 1 .. Len(queue')
      PROVE  caller'[queue'[k]].pc \in Waiting /\ (k > 1 => caller'[queue'[k]].pc = "queued")
  BY <1>1, <1>2, <1>3, <1>4, <1>5 DEF Mutex, Waiting
<1>7. ASSUME NEW k \in 1 .. Len(queue'), NEW n \in 1 .. Len(queue'), queue'[k] = queue'[n]
      PROVE  k = n
  BY <1>3, <1>4, <1>5, <1>7 DEF Mutex
<1>8. ASSUME NEW d \in Callers, caller'[d].pc \in Holding
      PROVE  queue' # <<>> /\ queue'[1] = d
  <2>1. d # c /\ queue # <<>> /\ queue[1] = d
    BY <1>1, <1>2, <1>8 DEF Mutex, Holding
  <2>2. 1 \in 1 .. Len(queue)
    BY <2>1, HeadIsFirst DEF SessionType
  <2> QED
    BY <1>4, <2>1, <2>2
<1> QED
  BY <1>6, <1>7, <1>8 DEF Mutex

(* The caller with the mutex works on.                                     *)
LEMMA MutexHeld ==
    ASSUME SessionType, Mutex, NEW c \in Callers, NEW w \in Records, Granted(c),
           caller' = [caller EXCEPT ![c] = w], UNCHANGED queue, w.pc \in Holding
    PROVE  Mutex'
<1>1. \A d \in Callers : d # c => caller'[d] = caller[d]
  BY DEF SessionType
<1>2. caller'[c] = w
  BY DEF SessionType
<1>3. queue # <<>> /\ queue[1] = c /\ 1 \in 1 .. Len(queue)
  BY HeadIsFirst DEF SessionType, Granted
<1>4. \A k \in 1 .. Len(queue) : queue[k] \in Callers /\ (k > 1 => queue[k] # c)
  BY <1>3 DEF SessionType, Mutex
<1>5. ASSUME NEW k \in 1 .. Len(queue)
      PROVE  caller'[queue[k]].pc \in Waiting /\ (k > 1 => caller'[queue[k]].pc = "queued")
  BY <1>1, <1>2, <1>3, <1>4 DEF Mutex, Waiting
<1>6. ASSUME NEW d \in Callers, caller'[d].pc \in Holding
      PROVE  queue # <<>> /\ queue[1] = d
  BY <1>1, <1>3, <1>6 DEF Mutex
<1> QED
  BY <1>5, <1>6 DEF Mutex

(* The caller with the mutex lets it go.                                   *)
LEMMA MutexDropped ==
    ASSUME SessionType, Mutex, NEW c \in Callers, NEW w \in Records, Granted(c),
           caller' = [caller EXCEPT ![c] = w], queue' = Tail(queue), w.pc \notin Waiting
    PROVE  Mutex' /\ queue' \in Seq(Callers) /\ \A d \in Callers : caller'[d].pc \notin Holding
<1>1. \A d \in Callers : d # c => caller'[d] = caller[d]
  BY DEF SessionType
<1>2. caller'[c] = w
  BY DEF SessionType
<1>3. /\ queue # <<>> /\ queue[1] = c /\ Len(queue) \in Nat /\ Len(queue) > 0
      /\ queue' \in Seq(Callers) /\ Len(queue') = Len(queue) - 1
      /\ \A k \in 1 .. Len(queue') : queue'[k] = queue[k + 1]
  BY HeadIsFirst DEF SessionType, Granted
<1>4. \A k \in 1 .. Len(queue') : k + 1 \in 1 .. Len(queue) /\ k + 1 > 1 /\ 1 \in 1 .. Len(queue)
  BY <1>3
<1>5. ASSUME NEW k \in 1 .. Len(queue')
      PROVE  queue'[k] \in Callers /\ queue'[k] # c /\ caller[queue'[k]].pc = "queued"
  BY <1>3, <1>4 DEF Mutex, SessionType
<1>6. \A d \in Callers : caller'[d].pc \notin Holding
  BY <1>1, <1>2, <1>3 DEF Mutex, Waiting
<1>7. \A k, n \in 1 .. Len(queue') : queue'[k] = queue'[n] => k = n
  <2> SUFFICES ASSUME NEW k \in 1 .. Len(queue'), NEW n \in 1 .. Len(queue'), queue'[k] = queue'[n]
               PROVE  k = n
    OBVIOUS
  <2>1. k + 1 = n + 1
    BY <1>3, <1>4 DEF Mutex
  <2> QED
    BY <1>3, <2>1
<1> QED
  BY <1>1, <1>3, <1>5, <1>6, <1>7 DEF Mutex, Waiting

(* While one has the mutex no other works.                                 *)
LEMMA Alone ==
    ASSUME SessionType, Mutex, NEW c \in Callers, Granted(c), NEW d \in Callers, d # c
    PROVE  caller[d].pc \notin Holding
  BY HeadIsFirst DEF SessionType, Mutex, Granted

-----------------------------------------------------------------------------
(* Records.                                                                *)
LEMMA StartedType ==
    ASSUME NEW op \in Ops, NEW sid \in Nat, NEW pc \in PCs
    PROVE  /\ Started(op, sid, pc) \in Records
           /\ Started(op, sid, pc).pc = pc /\ Started(op, sid, pc).gen = 0
  BY DEF Started, Idle, Records, PCs, Ops, Acquirers

(* A caller that does nothing has a record of its type.                    *)
LEMMA IdleType == Idle \in Records /\ Idle.pc = "idle" /\ Idle.gen = 0
  BY DEF Idle, Records, PCs, Ops, Acquirers

-----------------------------------------------------------------------------
(* Steps outside the mutex, which leave the store, the cache and the       *)
(* leases alone, may only raise the generation, and end before a session.  *)
LEMMA OutsideStep ==
    ASSUME IInv, NEW c \in Callers, NEW w \in Records,
           caller' = [caller EXCEPT ![c] = w], UNCHANGED <<token, session, issued, leases, signedOut>>,
           generation' \in Nat, generation' = generation \/ generation' = generation + 1,
           \/ UNCHANGED queue /\ w.pc \in {"idle", "checked", "called"}
           \/ queue' = Append(queue, c) /\ w.pc = "queued",
           caller[c].pc \notin Waiting, w.gen <= generation
    PROVE  IInv'
<1>1. /\ caller' \in [Callers -> Records] /\ caller'[c] = w
      /\ \A d \in Callers : d # c => caller'[d] = caller[d]
  BY DEF IInv, SessionType
<1>2. queue' \in Seq(Callers)
  BY AppendedLast DEF IInv, SessionType
<1>3. Mutex'
  BY MutexOutside, MutexEnqueue DEF IInv, Waiting, Holding
<1>4. SessionType'
  BY <1>1, <1>2 DEF IInv, SessionType
<1>5. Credentials'
  BY <1>1 DEF IInv, Credentials
<1>6. Generations'
  <2>1. /\ generation \in Nat /\ generation <= generation'
        /\ \A d \in Callers : caller[d].gen \in Nat
        /\ \A l \in leases : l.gen \in Nat
    BY DEF IInv, SessionType, Records
  <2>2. \A l \in leases : Fresh(l.gen, l.acct)'
    BY <2>1 DEF IInv, Generations, Fresh
  <2>3. \A d \in Callers : caller'[d].pc = "acquired" /\ caller'[d].op = "launch" =>
           Fresh(caller[d].gen, caller[d].acct)' /\ caller'[d] = caller[d]
    BY <1>1, <2>1 DEF IInv, Generations, Fresh
  <2>4. \A d \in Callers : caller'[d].gen <= generation'
    BY <1>1, <2>1 DEF IInv, Generations, Records
  <2>5. ASSUME NEW d \in Callers, caller'[d].pc = "saving"
        PROVE  /\ \A l \in leases : l.gen < generation'
               /\ \A e \in Callers : caller'[e].pc = "acquired" /\ caller'[e].op = "launch" =>
                     caller'[e].gen < generation'
    BY <1>1, <2>1, <2>5 DEF IInv, Generations
  <2> QED
    BY <1>1, <2>2, <2>3, <2>4, <2>5 DEF Generations, Fresh
<1>7. SessionMatchesToken'
  <2>1. ASSUME NEW d \in Callers, At(d, "saved", {"poll"})
        PROVE  At(d, "saved", {"poll"})'
    <3>1. d # c /\ queue # <<>> /\ queue[1] = d
      BY <2>1, HeadIsFirst DEF At, Granted, Waiting, Holding, IInv, SessionType
    <3>2. 1 \in 1 .. Len(queue)
      BY <3>1, HeadIsFirst DEF IInv, SessionType
    <3>3. queue' # <<>> /\ Head(queue') = d
      BY <1>2, <3>1, <3>2, AppendedLast, HeadIsFirst DEF IInv, SessionType
    <3> QED
      BY <1>1, <2>1, <3>1, <3>3 DEF At, Granted
  <2> QED
    BY <2>1 DEF IInv, SessionMatchesToken
<1> QED
  BY <1>3, <1>4, <1>5, <1>6, <1>7 DEF IInv, SignedOutStaysOut

(* The commands up to the mutex.                                           *)
LEMMA RequestStep ==
    ASSUME IInv, NEW c \in Callers, Request(c)
    PROVE  IInv'
<1> USE DEF slots
<1>1. /\ generation \in Nat /\ issued \in Nat /\ caller[c] \in Records
      /\ caller[c].gen <= generation
  BY DEF IInv, SessionType, Generations
<1>2. ASSUME NEW w \in Records, caller' = [caller EXCEPT ![c] = w],
             UNCHANGED <<generation, token, session, issued, leases, signedOut>>,
             caller[c].pc \notin Waiting, w.gen <= generation,
             \/ UNCHANGED queue /\ w.pc \in {"idle", "checked", "called"}
             \/ queue' = Append(queue, c) /\ w.pc = "queued"
      PROVE  IInv'
  BY <1>1, <1>2, OutsideStep
<1>3. CASE Begin(c)
  <2>1. PICK op \in Ops, s \in Nat : caller' = [caller EXCEPT ![c] = Started(op, s, "called")]
    BY <1>1, <1>3 DEF Begin, Ops, Acquirers
  <2>2. "called" \in PCs /\ caller[c].pc \notin Waiting
    BY <1>3 DEF Begin, PCs, Waiting, Holding
  <2>3. Started(op, s, "called") \in Records /\ Started(op, s, "called").pc = "called"
        /\ Started(op, s, "called").gen <= generation
    BY <1>1, <2>2, StartedType
  <2> QED
    BY <1>2, <1>3, <2>1, <2>2, <2>3 DEF Begin
<1>4. CASE SignOut(c)
  <2> DEFINE w == Started("signout", 0, "called")
  <2>1. w \in Records /\ w.pc = "called" /\ w.gen <= generation
    BY <1>1, StartedType DEF PCs, Ops, Acquirers
  <2> HIDE DEF w
  <2>2. caller' = [caller EXCEPT ![c] = w] /\ caller[c].pc \notin Waiting
    BY <1>4 DEF SignOut, Waiting, Holding, w
  <2>3. /\ UNCHANGED <<token, session, issued, leases, signedOut>> /\ UNCHANGED queue
        /\ generation' \in Nat /\ generation' = generation + 1
    BY <1>1, <1>4 DEF SignOut
  <2> QED
    BY <2>1, <2>2, <2>3, OutsideStep
<1>5. CASE CheckAuthorization(c)
  <2> DEFINE w == Started("launch", 0, "checked")
  <2>1. w \in Records /\ w.pc = "checked" /\ w.gen <= generation
    BY <1>1, StartedType DEF PCs, Ops, Acquirers
  <2> HIDE DEF w
  <2>2. caller' = [caller EXCEPT ![c] = w] /\ caller[c].pc \notin Waiting
    BY <1>5 DEF CheckAuthorization, Waiting, Holding, w
  <2> QED
    BY <1>2, <1>5, <2>1, <2>2 DEF CheckAuthorization
<1>6. CASE UseLease(c)
  <2> DEFINE w == Started("lease", 0, "called")
  <2>1. w \in Records /\ w.pc = "called" /\ w.gen <= generation
    BY <1>1, StartedType DEF PCs, Ops, Acquirers
  <2> HIDE DEF w
  <2>2. caller' = [caller EXCEPT ![c] = w] /\ caller[c].pc \notin Waiting
    BY <1>6 DEF UseLease, Waiting, Holding, w
  <2> QED
    BY <1>2, <1>6, <2>1, <2>2 DEF UseLease
<1>7. CASE ReadGeneration(c)
  <2> DEFINE v == [caller[c] EXCEPT !.pc = "called"]
             w == [v EXCEPT !.gen = generation]
  <2>1. v \in Records /\ v.pc = "called"
    BY <1>1 DEF Records, PCs
  <2> HIDE DEF v
  <2>2. w \in Records /\ w.pc = "called" /\ w.gen <= generation
    BY <1>1, <2>1 DEF Records
  <2>3. caller' = [caller EXCEPT ![c] = w] /\ caller[c].pc \notin Waiting
    BY <1>1, <1>7 DEF ReadGeneration, Waiting, Holding, v
  <2> HIDE DEF w
  <2> QED
    BY <1>2, <1>7, <2>2, <2>3 DEF ReadGeneration
<1>8. CASE Enqueue(c)
  <2> DEFINE w == [caller[c] EXCEPT !.pc = "queued"]
  <2>1. w \in Records /\ w.pc = "queued" /\ w.gen <= generation
    BY <1>1 DEF Records, PCs
  <2>2. caller' = [caller EXCEPT ![c] = w] /\ caller[c].pc \notin Waiting
    BY <1>8 DEF Enqueue, Waiting, Holding
  <2> HIDE DEF w
  <2> QED
    BY <1>2, <1>8, <2>1, <2>2 DEF Enqueue
<1> QED
  BY <1>3, <1>4, <1>5, <1>6, <1>7, <1>8 DEF Request

-----------------------------------------------------------------------------
(* Steps behind the mutex.                                                 *)

(* Caller c, who has the mutex, works on or lets it go.                    *)
Works(c, w) ==
    /\ Granted(c) /\ caller' = [caller EXCEPT ![c] = w]
    /\ \/ UNCHANGED queue /\ w.pc \in Holding
       \/ queue' = Tail(queue) /\ w.pc \notin Waiting

(* A call that works under the mutex changes its own record and no other,  *)
(* and keeps the order of those who wait.                                  *)
LEMMA WorksFrame ==
    ASSUME IInv, NEW c \in Callers, NEW w \in Records, Works(c, w)
    PROVE  /\ Mutex' /\ queue' \in Seq(Callers) /\ caller' \in [Callers -> Records]
           /\ caller'[c] = w
           /\ \A d \in Callers : d # c => caller'[d] = caller[d] /\ caller[d].pc \notin Holding
           /\ w.pc \in Holding => Granted(c)'
  BY Alone, MutexHeld, MutexDropped DEF Works, IInv, SessionType, Granted, Waiting

(* A step that leaves the accounts as they are, or empties the cache, ends *)
(* before a session and loads nothing.                                     *)
LEMMA PlainStep ==
    ASSUME IInv, NEW c \in Callers, NEW w \in Records, Works(c, w),
           UNCHANGED <<generation, token, leases, signedOut>>,
           session' \in {session, None}, issued' \in Nat, w.gen <= generation,
           caller[c].pc = "saved" => session' = None,
           \/ w.pc \in {"idle", "polling"}
           \/ w.pc = "deleting" /\ session' = None
    PROVE  IInv'
<1>1. /\ Mutex' /\ queue' \in Seq(Callers) /\ caller' \in [Callers -> Records] /\ caller'[c] = w
      /\ \A d \in Callers : d # c => caller'[d] = caller[d] /\ caller[d].pc \notin Holding
  BY WorksFrame
<1>2. SessionType'
  BY <1>1 DEF IInv, SessionType
<1>3. Credentials'
  BY <1>1 DEF IInv, Credentials, Holding
<1>4. Generations'
  BY <1>1 DEF IInv, Generations, Fresh, Holding
<1>5. SessionMatchesToken' /\ SignedOutStaysOut'
  <2>1. ASSUME NEW d \in Callers, At(d, "saved", {"poll"})
        PROVE  session' = None
    BY <1>1, <2>1 DEF At, Holding
  <2> QED
    BY <2>1 DEF IInv, SessionMatchesToken, SignedOutStaysOut
<1> QED
  BY <1>1, <1>2, <1>3, <1>4, <1>5 DEF IInv

(* A caller moves on with its record.                                      *)
LEMMA ToWorks ==
    ASSUME IInv, NEW c \in Callers, Granted(c), NEW pc \in Holding, To(c, pc)
    PROVE  \E w \in Records : /\ Works(c, w) /\ w.pc = pc /\ w.gen = caller[c].gen
                              /\ w.acct = caller[c].acct /\ w.op = caller[c].op
<1> DEFINE w == [caller[c] EXCEPT !.pc = pc]
<1>1. caller[c] \in Records /\ pc \in PCs
  BY DEF IInv, SessionType, Holding, PCs
<1>2. w \in Records /\ w.pc = pc /\ w.gen = caller[c].gen /\ w.acct = caller[c].acct /\ w.op = caller[c].op
  BY <1>1 DEF Records
<1>3. Works(c, w)
  BY <1>2 DEF To, Works
<1> HIDE DEF w
<1> QED
  BY <1>2, <1>3

(* A call that returns under the mutex gives it up and is idle.            *)
LEMMA ReturnWorks ==
    ASSUME IInv, NEW c \in Callers, Granted(c), Return(c)
    PROVE  Works(c, Idle) /\ Idle \in Records /\ Idle.pc = "idle" /\ Idle.gen <= generation
<1>1. generation \in Nat
  BY DEF IInv, SessionType
<1> QED
  BY <1>1, IdleType DEF Return, Works, Waiting, Holding

(* No call has read a generation that is yet to come.                      *)
LEMMA OwnGeneration ==
    ASSUME IInv, NEW c \in Callers
    PROVE  caller[c].gen <= generation /\ caller[c] \in Records /\ generation \in Nat /\ issued \in Nat
  BY DEF IInv, SessionType, Generations

(* Sign-in up to the answer, and the clearing at its end; sign-out.        *)
LEMMA PollStep ==
    ASSUME IInv, NEW c \in Callers, BeginChallenge(c) \/ PollTake(c) \/ PollAgain(c) \/ PollClear(c)
                                    \/ SignOutClear(c)
    PROVE  IInv'
<1>1. Granted(c) /\ issued' \in Nat /\ UNCHANGED <<generation, token, leases, signedOut>>
  BY OwnGeneration DEF BeginChallenge, PollTake, PollAgain, PollClear, SignOutClear, At
<1>2. session' \in {session, None} /\ (caller[c].pc = "saved" => session' = None)
  BY DEF BeginChallenge, PollTake, PollAgain, PollClear, SignOutClear, At
<1>3. CASE Return(c)
  BY <1>1, <1>2, <1>3, ReturnWorks, PlainStep
<1>4. CASE PollTake(c) /\ To(c, "polling")
  <2>1. PICK w \in Records : Works(c, w) /\ w.pc = "polling" /\ w.gen <= generation
    BY <1>1, <1>4, ToWorks, OwnGeneration DEF Holding
  <2> QED
    BY <1>1, <1>2, <2>1, PlainStep
<1>5. CASE SignOutClear(c)
  <2>1. PICK w \in Records : Works(c, w) /\ w.pc = "deleting" /\ w.gen <= generation
    BY <1>1, <1>5, ToWorks, OwnGeneration DEF Holding, SignOutClear
  <2>2. session' = None
    BY <1>5 DEF SignOutClear
  <2> QED
    BY <1>1, <1>2, <2>1, <2>2, PlainStep
<1> QED
  BY <1>3, <1>4, <1>5 DEF BeginChallenge, PollTake, PollAgain, PollClear

(* The generation is raised before the new token is saved: from here on no *)
(* lease is current.                                                       *)
LEMMA AuthorizedStep ==
    ASSUME IInv, NEW c \in Callers, NEW a \in Accounts, PollAuthorized(c, a)
    PROVE  IInv'
<1> DEFINE v == [caller[c] EXCEPT !.pc = "saving"]
           w == [v EXCEPT !.acct = a]
<1>1. v \in Records /\ v.pc = "saving" /\ v.gen = caller[c].gen /\ v.op = caller[c].op
  BY OwnGeneration DEF Records, PCs
<1> HIDE DEF v
<1>2. w \in Records /\ w.pc = "saving" /\ w.gen <= generation /\ w.op = caller[c].op /\ w.acct = a
  BY <1>1, OwnGeneration DEF Records
<1>3. /\ Works(c, w) /\ w.op = "poll" /\ generation' = generation + 1 /\ generation \in Nat
      /\ UNCHANGED <<token, session, issued, leases, signedOut>>
      /\ caller[c].pc = "polling"
  BY <1>1, <1>2, OwnGeneration DEF PollAuthorized, At, Works, Holding, v, slots
<1> HIDE DEF w
<1>4. /\ Mutex' /\ queue' \in Seq(Callers) /\ caller' \in [Callers -> Records] /\ caller'[c] = w
      /\ \A d \in Callers : d # c => caller'[d] = caller[d] /\ caller[d].pc \notin Holding
  BY <1>2, <1>3, WorksFrame
<1>5. SessionType'
  BY <1>3, <1>4 DEF IInv, SessionType
<1>6. Credentials'
  BY <1>2, <1>3, <1>4, AuthAssumption DEF IInv, Credentials, Holding
<1>7. Generations'
  <2>1. /\ \A l \in leases : l.gen \in Nat /\ l.gen <= generation
        /\ \A d \in Callers : caller[d].gen \in Nat /\ caller[d].gen <= generation
    BY DEF IInv, SessionType, Records, Generations, Fresh
  <2>2. /\ \A l \in leases : l.gen < generation'
        /\ \A d \in Callers : d # c => caller'[d].gen < generation'
    BY <1>3, <1>4, <2>1
  <2>3. w.gen <= generation' /\ w.gen \in Nat
    BY <1>2, <1>3 DEF Records
  <2>4. \A d \in Callers : caller'[d].gen <= generation'
    BY <1>3, <1>4, <2>1, <2>2, <2>3
  <2> QED
    BY <1>2, <1>3, <1>4, <2>2, <2>4 DEF Generations, Fresh
<1>8. SessionMatchesToken' /\ SignedOutStaysOut'
  <2>1. \A d \in Callers : ~At(d, "saved", {"poll"})
    BY <1>3, <1>4 DEF At, Holding
  <2> QED
    BY <1>3, <2>1 DEF IInv, SessionMatchesToken, SignedOutStaysOut
<1> QED
  BY <1>4, <1>5, <1>6, <1>7, <1>8 DEF IInv

(* The store refuses: the caller returns.                                  *)
LEMMA RefusedStep ==
    ASSUME IInv, NEW c \in Callers, Granted(c), Return(c), caller[c].pc # "saved",
           UNCHANGED <<generation, token, session, issued, leases, signedOut>>
    PROVE  IInv'
  BY ReturnWorks, PlainStep, OwnGeneration

(* The new token is in the store, the old session still in the cache.      *)
LEMMA SaveStep ==
    ASSUME IInv, NEW c \in Callers, PollSave(c)
    PROVE  IInv'
<1> USE DEF slots
<1>1. Granted(c) /\ caller[c].pc = "saving" /\ UNCHANGED <<generation, session, issued, leases>>
  BY DEF PollSave, At
<1>2. CASE StoreFails(c) /\ UNCHANGED signedOut
  BY <1>1, <1>2, RefusedStep DEF StoreFails
<1>3. CASE SaveRefreshToken(caller[c].acct) /\ signedOut' = FALSE /\ To(c, "saved")
  <2>1. PICK w \in Records : /\ Works(c, w) /\ w.pc = "saved" /\ w.gen <= generation
                             /\ w.acct = caller[c].acct /\ w.op = caller[c].op
    BY <1>1, <1>3, ToWorks, OwnGeneration DEF Holding
  <2>2. /\ Mutex' /\ queue' \in Seq(Callers) /\ caller' \in [Callers -> Records] /\ caller'[c] = w
        /\ \A d \in Callers : d # c => caller'[d] = caller[d] /\ caller[d].pc \notin Holding
        /\ Granted(c)'
    BY <2>1, WorksFrame DEF Holding
  <2>3. w.op = "poll" /\ token' = caller[c].acct /\ token' \in Accounts
    BY <1>1, <1>3, <2>1, OwnGeneration DEF IInv, Credentials, Records, SaveRefreshToken
  <2>4. SessionType'
    BY <1>1, <2>2, <2>3 DEF IInv, SessionType
  <2>5. Credentials'
    BY <1>1, <2>1, <2>2, <2>3 DEF IInv, Credentials, Holding
  <2>6. Generations'
    BY <1>1, <2>1, <2>2 DEF IInv, Generations, Fresh, Holding
  <2>7. SessionMatchesToken' /\ SignedOutStaysOut'
    BY <1>3, <2>1, <2>2, <2>3 DEF SessionMatchesToken, SignedOutStaysOut, At
  <2> QED
    BY <2>2, <2>4, <2>5, <2>6, <2>7 DEF IInv
<1> QED
  BY <1>2, <1>3 DEF PollSave

(* The store is emptied after the cache.                                   *)
LEMMA DeleteStep ==
    ASSUME IInv, NEW c \in Callers, SignOutDelete(c)
    PROVE  IInv'
<1> USE DEF slots
<1>1. Granted(c) /\ caller[c].pc = "deleting" /\ UNCHANGED <<generation, session, issued, leases>>
  BY DEF SignOutDelete, At
<1>2. CASE StoreFails(c) /\ UNCHANGED signedOut
  BY <1>1, <1>2, RefusedStep DEF StoreFails
<1>3. CASE DeleteRefreshToken /\ signedOut' = TRUE /\ Return(c)
  <2>1. Works(c, Idle) /\ Idle \in Records /\ Idle.pc = "idle" /\ Idle.gen <= generation
    BY <1>1, <1>3, ReturnWorks
  <2>2. /\ Mutex' /\ queue' \in Seq(Callers) /\ caller' \in [Callers -> Records] /\ caller'[c] = Idle
        /\ \A d \in Callers : d # c => caller'[d] = caller[d] /\ caller[d].pc \notin Holding
    BY <2>1, WorksFrame
  <2>3. token' = None /\ session' = None
    BY <1>1, <1>3 DEF DeleteRefreshToken, IInv, Credentials
  <2>4. SessionType'
    BY <1>1, <2>2, <2>3 DEF IInv, SessionType
  <2>5. Credentials'
    BY <1>1, <2>1, <2>2, <2>3 DEF IInv, Credentials, Holding
  <2>6. Generations'
    BY <1>1, <2>1, <2>2, <2>3 DEF IInv, Generations, Fresh, Holding
  <2> QED
    BY <2>2, <2>3, <2>4, <2>5, <2>6 DEF IInv, SessionMatchesToken, SignedOutStaysOut
<1> QED
  BY <1>2, <1>3 DEF SignOutDelete

-----------------------------------------------------------------------------
(* acquire_minecraft_session.                                              *)

(* The holder of the mutex has, or is given, an account that the store     *)
(* names: it works on with it or takes it away as a session.               *)
LEMMA AccountStep ==
    ASSUME IInv, NEW c \in Callers, NEW w \in Records, Works(c, w),
           UNCHANGED <<generation, token, issued, leases, signedOut>>,
           token # None, w.acct = token, w.gen <= generation,
           caller[c].pc \in {"queued", "refreshing", "rotating", "authenticating"},
           \/ w.pc \in {"refreshing", "rotating", "authenticating"} /\ session' = None
           \/ w.pc = "acquired" /\ session' = token
    PROVE  IInv'
<1>1. /\ Mutex' /\ queue' \in Seq(Callers) /\ caller' \in [Callers -> Records] /\ caller'[c] = w
      /\ \A d \in Callers : d # c => caller'[d] = caller[d] /\ caller[d].pc \notin Holding
  BY WorksFrame
<1>2. SessionType'
  BY <1>1 DEF IInv, SessionType
<1>3. Credentials'
  BY <1>1 DEF IInv, Credentials, Holding
<1>4. Generations'
  <2>1. w.gen \in Nat /\ generation \in Nat /\ Fresh(w.gen, w.acct)
    BY OwnGeneration DEF Records, Fresh
  <2>2. \A d \in Callers : caller'[d].pc # "saving"
    BY <1>1 DEF Holding
  <2>3. \A d \in Callers : caller'[d].gen <= generation'
    BY <1>1 DEF IInv, Generations
  <2>4. \A d \in Callers : caller'[d].pc = "acquired" /\ caller'[d].op = "launch" =>
           Fresh(caller'[d].gen, caller'[d].acct)
    BY <1>1, <2>1 DEF IInv, Generations
  <2>5. \A l \in leases' : Fresh(l.gen, l.acct)
    BY DEF IInv, Generations
  <2> QED
    BY <2>2, <2>3, <2>4, <2>5 DEF Generations, Fresh
<1> QED
  BY <1>1, <1>2, <1>3, <1>4 DEF IInv, SessionMatchesToken, SignedOutStaysOut

(* A caller is handed a session.                                           *)
LEMMA AcquiredWorks ==
    ASSUME IInv, NEW c \in Callers, Granted(c), NEW a \in Accounts, Acquired(c, a)
    PROVE  \E w \in Records : Works(c, w) /\ w.pc = "acquired" /\ w.gen <= generation /\ w.acct = a
<1> DEFINE v == [caller[c] EXCEPT !.pc = "acquired"]
           w == [v EXCEPT !.acct = a]
<1>1. v \in Records /\ v.pc = "acquired" /\ v.gen = caller[c].gen
  BY OwnGeneration DEF Records, PCs
<1> HIDE DEF v
<1>2. w \in Records /\ w.pc = "acquired" /\ w.gen <= generation /\ w.acct = a
  BY <1>1, OwnGeneration DEF Records
<1>3. Works(c, w)
  BY <1>2 DEF Acquired, Works, Waiting, Holding, v
<1> HIDE DEF w
<1> QED
  BY <1>2, <1>3

(* An acquisition that finds a session in memory takes it.                 *)
LEMMA CachedStep ==
    ASSUME IInv, NEW c \in Callers, AcquireCached(c)
    PROVE  IInv'
<1>1. /\ Granted(c) /\ caller[c].pc = "queued" /\ session # None /\ Acquired(c, session)
      /\ UNCHANGED <<generation, token, session, issued, leases, signedOut>>
  BY DEF AcquireCached, At, slots
<1>2. session = token /\ session \in Accounts
  <2>1. ASSUME NEW d \in Callers PROVE ~At(d, "saved", {"poll"})
    BY <1>1, Alone DEF IInv, At, Holding
  <2> QED
    BY <1>1, <2>1 DEF IInv, SessionMatchesToken, SessionType
<1>3. PICK w \in Records : Works(c, w) /\ w.pc = "acquired" /\ w.gen <= generation /\ w.acct = session
  BY <1>1, <1>2, AcquiredWorks
<1> QED
  BY <1>1, <1>2, <1>3, AccountStep

(* An acquisition that finds no session in memory looks for a stored       *)
(* credential.                                                             *)
LEMMA LoadStep ==
    ASSUME IInv, NEW c \in Callers, AcquireLoad(c)
    PROVE  IInv'
<1>1. /\ Granted(c) /\ caller[c].pc = "queued" /\ session' = None
      /\ UNCHANGED <<generation, token, issued, leases, signedOut>>
  BY DEF AcquireLoad, At
<1>2. CASE Return(c)
  BY <1>1, <1>2, ReturnWorks, PlainStep, OwnGeneration
<1>3. CASE /\ LoadRefreshToken
           /\ caller' = [caller EXCEPT ![c].pc = "refreshing", ![c].acct = token]
           /\ UNCHANGED queue
  <2> DEFINE v == [caller[c] EXCEPT !.pc = "refreshing"]
             w == [v EXCEPT !.acct = token]
  <2>1. v \in Records /\ v.pc = "refreshing" /\ v.gen = caller[c].gen
    BY OwnGeneration DEF Records, PCs
  <2>2. caller' = [caller EXCEPT ![c] = w]
    BY <1>3
  <2> HIDE DEF v
  <2>3. w \in Records /\ w.pc = "refreshing" /\ w.gen <= generation /\ w.acct = token
    BY <2>1, OwnGeneration DEF Records, IInv, SessionType
  <2>4. Works(c, w) /\ token # None
    BY <1>1, <1>3, <2>2, <2>3 DEF Works, Holding, LoadRefreshToken
  <2> HIDE DEF w
  <2> QED
    BY <1>1, <2>3, <2>4, AccountStep
<1> QED
  BY <1>2, <1>3 DEF AcquireLoad

(* What was loaded is still in the store, so that the token saved is of    *)
(* the account it replaces.                                                *)
LEMMA RefreshStep ==
    ASSUME IInv, NEW c \in Callers, AcquireRefresh(c) \/ AcquireSave(c) \/ AcquireStore(c)
    PROVE  IInv'
<1>1. /\ Granted(c) /\ caller[c].pc \in {"refreshing", "rotating", "authenticating"}
      /\ caller[c].acct = token /\ token # None /\ session = None
      /\ UNCHANGED <<generation, issued, leases, signedOut>>
  BY DEF AcquireRefresh, AcquireSave, AcquireStore, At, slots, IInv, Credentials
<1>2. UNCHANGED token
  BY <1>1 DEF AcquireRefresh, AcquireSave, AcquireStore, SaveRefreshToken, StoreFails
<1>3. CASE Return(c) /\ session' = None
  BY <1>1, <1>2, <1>3, ReturnWorks, PlainStep, OwnGeneration
<1>4. ASSUME NEW pc \in {"rotating", "authenticating"}, To(c, pc), session' = None
      PROVE  IInv'
  <2>1. PICK w \in Records : /\ Works(c, w) /\ w.pc = pc /\ w.gen <= generation
                             /\ w.acct = caller[c].acct /\ w.op = caller[c].op
    BY <1>1, <1>4, ToWorks, OwnGeneration DEF Holding
  <2> QED
    BY <1>1, <1>2, <1>4, <2>1, AccountStep
<1>5. CASE session' = token /\ Acquired(c, token)
  <2>1. token \in Accounts
    BY <1>1 DEF IInv, SessionType
  <2>2. PICK w \in Records : Works(c, w) /\ w.pc = "acquired" /\ w.gen <= generation /\ w.acct = token
    BY <1>1, <1>5, <2>1, AcquiredWorks
  <2> QED
    BY <1>1, <1>2, <1>5, <2>2, AccountStep
<1>6. CASE AcquireRefresh(c)
  BY <1>1, <1>3, <1>4, <1>6 DEF AcquireRefresh, Refreshed, slots
<1>7. CASE AcquireSave(c)
  BY <1>1, <1>3, <1>4, <1>7 DEF AcquireSave, StoreFails, slots
<1>8. CASE AcquireStore(c)
  BY <1>1, <1>3, <1>5, <1>8 DEF AcquireStore, Authenticated
<1> QED
  BY <1>6, <1>7, <1>8

(* The launch hands its session on as a lease, outside the mutex.          *)
LEMMA FinishStep ==
    ASSUME IInv, NEW c \in Callers, Finish(c)
    PROVE  IInv'
<1>1. /\ caller[c].pc = "acquired" /\ caller' = [caller EXCEPT ![c] = Idle]
      /\ UNCHANGED <<generation, token, session, issued, queue, signedOut>>
      /\ leases' = leases \/ (caller[c].op = "launch" /\ leases' = leases \cup {LeaseOf(c)})
  BY DEF Finish, slots
<1>2. /\ caller' \in [Callers -> Records] /\ caller'[c] = Idle /\ Idle.pc = "idle" /\ Idle.gen = 0
      /\ \A d \in Callers : d # c => caller'[d] = caller[d]
  BY <1>1, IdleType DEF IInv, SessionType
<1>3. Mutex'
  BY <1>1, IdleType, MutexOutside DEF IInv, Waiting, Holding
<1>4. /\ LeaseOf(c).gen = caller[c].gen /\ LeaseOf(c).acct = caller[c].acct
      /\ LeaseOf(c) \in [gen : Nat, acct : Accounts]
  BY <1>1, OwnGeneration DEF LeaseOf, Records, IInv, Credentials
<1>5. SessionType'
  BY <1>1, <1>2, <1>4 DEF IInv, SessionType
<1>6. Credentials'
  BY <1>1, <1>2 DEF IInv, Credentials
<1>7. Generations'
  <2>1. \A l \in leases' : Fresh(l.gen, l.acct)
    BY <1>1, <1>4 DEF IInv, Generations
  <2>2. \A d \in Callers : caller'[d].gen <= generation
    BY <1>2, OwnGeneration
  <2>3. \A d \in Callers : caller'[d].pc = "acquired" /\ caller'[d].op = "launch" =>
           Fresh(caller'[d].gen, caller'[d].acct)
    BY <1>2 DEF IInv, Generations
  <2>4. ASSUME NEW d \in Callers, caller'[d].pc = "saving"
        PROVE  /\ \A l \in leases' : l.gen < generation
               /\ \A e \in Callers : caller'[e].pc = "acquired" /\ caller'[e].op = "launch" =>
                     caller'[e].gen < generation
    BY <1>1, <1>2, <1>4, <2>4 DEF IInv, Generations
  <2> QED
    BY <1>1, <2>1, <2>2, <2>3, <2>4 DEF Generations, Fresh
<1>8. SessionMatchesToken'
  <2>1. ASSUME NEW d \in Callers, At(d, "saved", {"poll"})
        PROVE  At(d, "saved", {"poll"})'
    BY <1>1, <1>2, <2>1 DEF At, Granted
  <2> QED
    BY <1>1, <2>1 DEF IInv, SessionMatchesToken
<1> QED
  BY <1>1, <1>3, <1>5, <1>6, <1>7, <1>8 DEF IInv, SignedOutStaysOut

(* A game ends with its lease.                                             *)
LEMMA GameEndsStep ==
    ASSUME IInv, GameEnds
    PROVE  IInv'
<1>1. leases' \subseteq leases /\ UNCHANGED <<generation, token, session, issued, queue, caller, signedOut>>
  BY DEF GameEnds, slots
<1> QED
  BY <1>1 DEF IInv, SessionType, Mutex, Credentials, Generations, Fresh, SessionMatchesToken, At,
      Granted, SignedOutStaysOut

(* Nothing is left of a process but its token store.                       *)
LEMMA NothingHeld ==
    ASSUME token \in Accounts \cup {None}, generation = 0, session = None, issued = 0, queue = <<>>,
           caller = [c \in Callers |-> Idle], leases = {}, signedOut => token = None
    PROVE  IInv
<1>1. \A c \in Callers : caller[c].pc = "idle" /\ caller[c].gen = 0 /\ caller[c] \in Records
  BY IdleType
<1>2. SessionType
  BY <1>1, IdleType DEF SessionType
<1>3. Len(queue) = 0
  OBVIOUS
<1> QED
  BY <1>1, <1>2, <1>3 DEF IInv, Mutex, Credentials, Generations, SessionMatchesToken,
      SignedOutStaysOut, Holding

(* A launcher that has just started satisfies the invariant.               *)
LEMMA InitIInv == Init => IInv
  BY NothingHeld DEF Init

(* The launcher ends at any moment and starts again from the stored        *)
(* credential alone.                                                       *)
LEMMA RestartStep ==
    ASSUME IInv, Restart
    PROVE  IInv'
<1>1. /\ (token \in Accounts \cup {None})' /\ (generation = 0)' /\ (session = None)' /\ (issued = 0)'
      /\ (queue = <<>>)' /\ (caller = [c \in Callers |-> Idle])' /\ (leases = {})'
      /\ (signedOut => token = None)'
  BY DEF Restart, IInv, SessionType, SignedOutStaysOut
<1>2. SessionType' /\ (\A c \in Callers : caller'[c].pc = "idle" /\ caller'[c].gen = 0)
  BY <1>1, IdleType DEF SessionType
<1>3. Len(queue') = 0
  BY <1>1
<1> QED
  BY <1>1, <1>2, <1>3 DEF IInv, Mutex, Credentials, Generations, SessionMatchesToken,
      SignedOutStaysOut, Holding

-----------------------------------------------------------------------------
(* Every step of the specification keeps the invariant.                    *)
LEMMA NextIInv == IInv /\ [Next]_vars => IInv'
<1> SUFFICES ASSUME IInv, [Next]_vars PROVE IInv'
  OBVIOUS
<1>1. ASSUME NEW c \in Callers, Request(c) PROVE IInv'
  BY <1>1, RequestStep
<1>2. ASSUME NEW c \in Callers, SignIn(c) \/ SigningOut(c) PROVE IInv'
  BY <1>2, PollStep, AuthorizedStep, SaveStep, DeleteStep DEF SignIn, SigningOut
<1>3. ASSUME NEW c \in Callers, Acquire(c) PROVE IInv'
  BY <1>3, CachedStep, LoadStep, RefreshStep, FinishStep DEF Acquire
<1>4. CASE UNCHANGED vars
  BY <1>4 DEF vars, slots, IInv, SessionType, Mutex, Credentials, Generations, Fresh,
      SessionMatchesToken, At, Granted, SignedOutStaysOut
<1> QED
  BY <1>1, <1>2, <1>3, <1>4, GameEndsStep, RestartStep DEF Next

(* The inductive invariant.                                                *)
THEOREM Invariance == Spec => []IInv
  BY InitIInv, NextIInv, PTL DEF Spec

(* While a rotated token waits to be saved, nothing but its saving touches *)
(* the store, and that leaves the account as it is.                        *)
LEMMA RotationKeeps ==
    ASSUME IInv, [Next]_vars, NEW c \in Callers, caller[c].pc = "rotating"
    PROVE  token' = token
<1>1. ASSUME NEW d \in Callers, PollSave(d) \/ SignOutDelete(d)
      PROVE  FALSE
  <2>1. Granted(d) /\ d # c
    BY <1>1 DEF PollSave, SignOutDelete, At
  <2> QED
    BY <2>1, Alone DEF IInv, Holding
<1>2. ASSUME NEW d \in Callers, AcquireSave(d)
      PROVE  token' = token
  <2>1. caller[d].acct = token
    BY <1>2 DEF AcquireSave, At, IInv, Credentials
  <2> QED
    BY <1>2, <2>1 DEF AcquireSave, SaveRefreshToken, StoreFails
<1>3. ASSUME NEW d \in Callers, Request(d)
      PROVE  token' = token
  BY <1>3 DEF Request, Begin, SignOut, CheckAuthorization, ReadGeneration, UseLease, Enqueue
<1>4. ASSUME NEW d \in Callers, SignIn(d) \/ SigningOut(d)
      PROVE  token' = token
  BY <1>1, <1>4 DEF SignIn, SigningOut, BeginChallenge, PollTake, PollAgain, PollAuthorized, PollClear,
      SignOutClear
<1>5. ASSUME NEW d \in Callers, Acquire(d)
      PROVE  token' = token
  BY <1>2, <1>5 DEF Acquire, AcquireCached, AcquireLoad, AcquireRefresh, AcquireStore, Finish
<1> QED
  BY <1>3, <1>4, <1>5 DEF Next, GameEnds, Restart, vars

(* However launches, refreshes, sign-ins and sign-outs overlap, a lease    *)
(* that has not been revoked names the account that is signed in.          *)
THEOREM LeasesAlwaysNameAccount == Spec => []LeaseNamesAccount
<1>1. IInv => LeaseNamesAccount
  BY DEF IInv, SessionType, Generations, Fresh, LeaseNamesAccount, Valid
<1> QED
  BY <1>1, Invariance, PTL

(* Nobody is handed a session of an account signed in before.              *)
THEOREM SessionAlwaysMatchesToken == Spec => []SessionMatchesToken
<1>1. IInv => SessionMatchesToken
  BY DEF IInv
<1> QED
  BY <1>1, Invariance, PTL

(* No refresh in flight brings back what a sign-out has removed.           *)
THEOREM SignedOutForGood == Spec => []SignedOutStaysOut
<1>1. IInv => SignedOutStaysOut
  BY DEF IInv
<1> QED
  BY <1>1, Invariance, PTL

(* A refresh saves a token of the account it has loaded, which is still    *)
(* the one signed in.                                                      *)
THEOREM RefreshAlwaysKeepsAccount == Spec => RefreshKeepsAccount
<1>1. IInv /\ [Next]_vars =>
         [\A c \in Callers : caller[c].pc = "rotating" /\ caller'[c].pc = "authenticating" =>
             token' = token]_vars
  BY RotationKeeps
<1> QED
  BY <1>1, Invariance, PTL DEF Spec, RefreshKeepsAccount

-----------------------------------------------------------------------------
(* What a game's broker is entitled to assume of the account state, which  *)
(* AuthBroker takes as its environment (Revoke, SwitchAccount): a lease    *)
(* that was revoked stays so, as every lease there is when the generation  *)
(* rises is, and while it is valid every session handed out is one of its  *)
(* account.                                                                *)
ServesLeases ==
    \A l \in leases :
        /\ l \in leases' /\ Valid(l)' => Valid(l) /\ generation' = generation
        /\ \A c \in Callers :
              Valid(l) /\ caller[c].pc # "acquired" /\ caller'[c].pc = "acquired" =>
                  caller'[c].acct = l.acct

(* The generation never falls in the life of a process.                    *)
LEMMA GenerationRises ==
    ASSUME IInv, [Next]_vars
    PROVE  generation' = generation \/ generation' = generation + 1 \/ leases' = {}
<1>1. ASSUME NEW c \in Callers, Request(c) \/ SignIn(c) \/ SigningOut(c) \/ Acquire(c)
      PROVE  generation' = generation \/ generation' = generation + 1
  BY <1>1 DEF Request, SignIn, SigningOut, Acquire, Begin, SignOut, CheckAuthorization,
      ReadGeneration, UseLease, Enqueue, BeginChallenge, PollTake, PollAgain, PollAuthorized,
      PollSave, PollClear, SignOutClear, SignOutDelete, AcquireCached, AcquireLoad,
      AcquireRefresh, AcquireSave, AcquireStore, Finish
<1> QED
  BY <1>1 DEF Next, GameEnds, Restart, vars

(* A session is handed out of the cache or by the services, and in both    *)
(* cases it is of the account whose token is stored.                       *)
LEMMA HandedOut ==
    ASSUME IInv, [Next]_vars, NEW c \in Callers,
           caller[c].pc # "acquired", caller'[c].pc = "acquired"
    PROVE  token # None /\ caller'[c].acct = token
<1>0. caller \in [Callers -> Records] /\ Idle.pc = "idle"
  BY IdleType DEF IInv, SessionType
<1>1. ASSUME NEW d \in Callers, Acquired(d, token), token # None
      PROVE  token # None /\ caller'[c].acct = token
  BY <1>0, <1>1 DEF Acquired, Records
<1>2. ASSUME NEW d \in Callers, AcquireCached(d)
      PROVE  token # None /\ caller'[c].acct = token
  <2>1. session # None /\ Acquired(d, session) /\ Granted(d) /\ caller[d].pc = "queued"
    BY <1>2 DEF AcquireCached, At
  <2>2. ASSUME NEW e \in Callers PROVE ~At(e, "saved", {"poll"})
    BY <2>1, Alone DEF IInv, At, Holding
  <2>3. session = token
    BY <2>1, <2>2 DEF IInv, SessionMatchesToken
  <2> QED
    BY <1>1, <2>1, <2>3
<1>3. ASSUME NEW d \in Callers, AcquireStore(d)
      PROVE  token # None /\ caller'[c].acct = token
  <2>1. caller[d].acct = token /\ token # None
    BY <1>3 DEF AcquireStore, At, IInv, Credentials
  <2>2. Return(d) \/ Acquired(d, token)
    BY <1>3, <2>1 DEF AcquireStore, Authenticated
  <2>3. ~Return(d)
    BY <1>0 DEF Return
  <2> QED
    BY <1>1, <2>1, <2>2, <2>3
<1>4. ASSUME NEW d \in Callers, Request(d)
      PROVE  FALSE
  BY <1>0, <1>4 DEF Request, Begin, SignOut, CheckAuthorization, ReadGeneration, UseLease,
      Enqueue, Started, Idle, Records
<1>5. ASSUME NEW d \in Callers, SignIn(d) \/ SigningOut(d)
      PROVE  FALSE
  BY <1>0, <1>5 DEF SignIn, SigningOut, BeginChallenge, PollTake, PollAgain, PollAuthorized,
      PollSave, PollClear, SignOutClear, SignOutDelete, StoreFails, To, Return, Records
<1>6. ASSUME NEW d \in Callers, AcquireLoad(d) \/ AcquireRefresh(d) \/ AcquireSave(d) \/ Finish(d)
      PROVE  FALSE
  BY <1>0, <1>6 DEF AcquireLoad, AcquireRefresh, AcquireSave, Finish, StoreFails, To, Return,
      Records
<1> QED
  BY <1>0, <1>2, <1>3, <1>4, <1>5, <1>6 DEF Next, Acquire, GameEnds, Restart, vars

(* While the lease of a running game is valid the games' sessions are of   *)
(* its account only, however sign-ins, sign-outs and refreshes overlap,    *)
(* and a lease revoked by sign_out or a new sign-in is so for good.        *)
THEOREM LeasesAlwaysServed == Spec => [][ServesLeases]_vars
<1>1. IInv /\ [Next]_vars => [ServesLeases]_vars
  <2> SUFFICES ASSUME IInv, [Next]_vars, NEW l \in leases
               PROVE  /\ l \in leases' /\ Valid(l)' => Valid(l) /\ generation' = generation
                      /\ \A c \in Callers :
                            Valid(l) /\ caller[c].pc # "acquired" /\ caller'[c].pc = "acquired" =>
                                caller'[c].acct = l.acct
    BY DEF ServesLeases
  <2>1. Fresh(l.gen, l.acct) /\ l.gen \in Nat /\ generation \in Nat
    BY DEF IInv, SessionType, Generations
  <2>2. l \in leases' /\ Valid(l)' => Valid(l) /\ generation' = generation
    BY <2>1, GenerationRises DEF Fresh, Valid
  <2>3. ASSUME NEW c \in Callers, Valid(l), caller[c].pc # "acquired", caller'[c].pc = "acquired"
        PROVE  caller'[c].acct = l.acct
    BY <2>1, <2>3, HandedOut DEF Fresh, Valid
  <2> QED
    BY <2>2, <2>3
<1> QED
  BY <1>1, Invariance, PTL DEF Spec
=============================================================================
