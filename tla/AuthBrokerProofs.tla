--------------------------- MODULE AuthBrokerProofs ---------------------------
(***************************************************************************)
(* Proofs about AuthBroker, for any accounts, limits and requests: what a  *)
(* revocation, a replay and a change of account cannot do; and about       *)
(* PipeTransfer below it, for every size of a frame and of the pipe.       *)
(***************************************************************************)
EXTENDS AuthBroker, PipeTransfer, TLAPS

Places == {"reading", "executing", "asking", "checking", "working", "fetching", "executed",
           "answering", "writing", "leaving", "ended"}

(* As much of the type as the proofs need.                                 *)
WorkerType ==
    /\ worker \in [pc : Places, id : 0 .. MaxId, ask : Asks, account : Accounts,
                   result : {"ok", "error", "revoked"}]
    /\ signedIn \in Accounts
    /\ previous \in Nat
    /\ answered \in Nat

(* A worker that was caught finds the lease revoked or the guard dropped.  *)
CaughtRevoked == caught => ~Live

(* From its acceptance on, a request's id is above all answered before.    *)
Accepted == {"executing", "asking", "checking", "working", "fetching", "executed"}

IdsRise ==
    /\ answered <= previous
    /\ worker.pc \in Accepted \/ (worker.result = "ok" /\ worker.pc \in {"answering", "writing"}) =>
          answered < worker.id /\ worker.id <= previous

IInv ==
    /\ WorkerType
    /\ CaughtRevoked
    /\ NoLateResult
    /\ OwnAccountOnly
    /\ IdsRise

-----------------------------------------------------------------------------
(* A worker at rest has its type.                                          *)
LEMMA RestingType ==
    /\ Resting \in [pc : Places, id : 0 .. MaxId, ask : Asks, account : Accounts,
                    result : {"ok", "error", "revoked"}]
    /\ Resting.pc = "reading"
    /\ MaxId \in Nat
  BY BrokerAssumption DEF Resting, Places, Asks

(* A worker with a result.                                                 *)
LEMMA WithType ==
    ASSUME NEW pc \in Places, NEW id \in 0 .. MaxId, NEW r \in {"ok", "error", "revoked"}
    PROVE  /\ With(pc, id, r) \in [pc : Places, id : 0 .. MaxId, ask : Asks,
                                   account : Accounts, result : {"ok", "error", "revoked"}]
           /\ With(pc, id, r).pc = pc /\ With(pc, id, r).id = id /\ With(pc, id, r).result = r
  BY RestingType DEF With, Resting

(* The worker moves on with all it has.                                    *)
LEMMA ToType ==
    ASSUME WorkerType, NEW pc \in Places, To(pc)
    PROVE  /\ worker' \in [pc : Places, id : 0 .. MaxId, ask : Asks,
                           account : Accounts, result : {"ok", "error", "revoked"}]
           /\ worker'.pc = pc /\ worker'.id = worker.id /\ worker'.result = worker.result
           /\ worker'.account = worker.account
  BY DEF WorkerType, To

(* At first nothing has been asked.                                        *)
LEMMA InitIInv == Init => IInv
  BY RestingType, BrokerAssumption DEF Init, IInv, WorkerType, CaughtRevoked, NoLateResult, OwnAccountOnly, IdsRise,
      Live, Accepted

-----------------------------------------------------------------------------
(* A step of the worker within a request: it gets no new id, and a result  *)
(* only from execute.                                                      *)
LEMMA RequestStep ==
    ASSUME IInv, UNCHANGED <<active, valid, signedIn, previous, answered, caught>>,
           worker' \in [pc : Places, id : 0 .. MaxId, ask : Asks, account : Accounts,
                        result : {"ok", "error", "revoked"}],
           worker.pc \in Accepted, worker'.id = worker.id,
           worker'.pc \in Accepted \cup {"answering"},
           worker'.pc \in {"working", "fetching"} => worker'.account = Owner
    PROVE  IInv'
  BY DEF IInv, WorkerType, CaughtRevoked, NoLateResult, OwnAccountOnly, IdsRise, Live, Accepted

(* The worker leaves the request behind, without a result.                 *)
LEMMA LeaveStep ==
    ASSUME IInv, UNCHANGED <<active, valid, signedIn, previous, answered, caught>>,
           worker' \in [pc : Places, id : 0 .. MaxId, ask : Asks, account : Accounts,
                        result : {"ok", "error", "revoked"}],
           worker'.pc \in {"leaving", "ended"}
    PROVE  IInv'
  BY DEF IInv, WorkerType, CaughtRevoked, NoLateResult, OwnAccountOnly, IdsRise, Live, Accepted

(* An id is accepted only above all the ones before.                       *)
LEMMA ReceiveStep ==
    ASSUME IInv, NEW id \in 0 .. MaxId, NEW ask \in Asks, Receive(id, ask)
    PROVE  IInv'
<1>1. id \in Nat /\ previous \in Nat /\ answered \in Nat /\ MaxId \in Nat
  BY RestingType DEF IInv, WorkerType
<1>2. previous' = IF id > previous THEN id ELSE previous
  BY DEF Receive
<1>3. UNCHANGED <<active, valid, signedIn, answered, caught>>
  BY DEF Receive, lease
<1>4. \/ /\ ~Refused(id) /\ worker' = [Resting EXCEPT !.pc = "executing", !.id = id, !.ask = ask]
      \/ ~Refused(id) /\ worker' = With("answering", id, "ok")
      \/ worker' = With("answering", id, "error")
  BY DEF Receive
<1>5. /\ worker' \in [pc : Places, id : 0 .. MaxId, ask : Asks, account : Accounts,
                      result : {"ok", "error", "revoked"}]
      /\ worker'.pc \in {"executing", "answering"} /\ worker'.id = id
      /\ worker'.pc = "executing" \/ worker'.result = "ok" => id > previous
  <2>1. CASE /\ ~Refused(id)
             /\ worker' = [Resting EXCEPT !.pc = "executing", !.id = id, !.ask = ask]
    <3> DEFINE w == [Resting EXCEPT !.pc = "executing", !.id = id, !.ask = ask]
    <3>1. /\ w \in [pc : Places, id : 0 .. MaxId, ask : Asks, account : Accounts,
                    result : {"ok", "error", "revoked"}]
          /\ w.pc = "executing" /\ w.id = id
      BY RestingType DEF Places
    <3>2. id > previous
      BY <1>1, <2>1 DEF Refused
    <3> QED
      BY <2>1, <3>1, <3>2
  <2>2. CASE ~Refused(id) /\ worker' = With("answering", id, "ok")
    BY <1>1, <2>2, WithType DEF Refused, Places
  <2>3. CASE worker' = With("answering", id, "error")
    BY <2>3, WithType DEF Places
  <2> QED
    BY <1>4, <2>1, <2>2, <2>3
<1> QED
  BY <1>1, <1>2, <1>3, <1>5 DEF IInv, WorkerType, CaughtRevoked, NoLateResult, OwnAccountOnly,
      IdsRise, Live, Accepted

(* execute finds the lease revoked.                                        *)
LEMMA RevokedStep ==
    ASSUME IInv, worker.pc \in Accepted, Revoked
    PROVE  IInv'
<1>1. worker' = With("answering", worker.id, "revoked") /\ worker.id \in 0 .. MaxId
  BY DEF Revoked, Answers, IInv, WorkerType
<1>2. /\ worker' \in [pc : Places, id : 0 .. MaxId, ask : Asks, account : Accounts,
                      result : {"ok", "error", "revoked"}]
      /\ worker'.pc = "answering" /\ worker'.id = worker.id
  BY <1>1, WithType DEF Places
<1> QED
  BY <1>2, RequestStep DEF Revoked, lease, channel

(* execute has a result.                                                   *)
LEMMA ResultStep ==
    ASSUME IInv, worker.pc \in Accepted, NEW r \in {"ok", "error", "revoked"}, Yields(r) \/ Answers(r),
           UNCHANGED <<active, valid, signedIn, previous, answered, caught>>
    PROVE  IInv'
<1>1. worker.id \in 0 .. MaxId
  BY DEF IInv, WorkerType
<1>2. /\ worker' \in [pc : Places, id : 0 .. MaxId, ask : Asks, account : Accounts,
                      result : {"ok", "error", "revoked"}]
      /\ worker'.pc \in {"executed", "answering"} /\ worker'.id = worker.id
  BY <1>1, WithType DEF Yields, Answers, Places
<1> QED
  BY <1>2, RequestStep DEF Accepted

(* execute goes on to its next part.                                       *)
LEMMA OnwardStep ==
    ASSUME IInv, worker.pc \in Accepted, NEW pc \in Accepted \cup {"answering"}, To(pc),
           pc \in {"working", "fetching"} => worker.account = Owner,
           UNCHANGED <<active, valid, signedIn, previous, answered, caught>>
    PROVE  IInv'
<1>1. pc \in Places
  BY DEF Accepted, Places
<1> QED
  BY <1>1, ToType, RequestStep DEF IInv

-----------------------------------------------------------------------------
(* The parts of execute.                                                   *)
LEMMA ExecuteStep ==
    ASSUME IInv, Execute \/ AskSource \/ CheckSession \/ Executed
    PROVE  IInv'
<1> USE DEF Accepted
<1>1. CASE Execute
  BY <1>1, RevokedStep, OnwardStep DEF Execute, lease, channel
<1>2. CASE AskSource
  <2>1. CASE Answers("error")
    BY <1>2, <2>1, ResultStep DEF AskSource, lease, channel
  <2>2. CASE worker' = [worker EXCEPT !.pc = "checking", !.account = signedIn]
    <3>1. /\ worker' \in [pc : Places, id : 0 .. MaxId, ask : Asks, account : Accounts,
                          result : {"ok", "error", "revoked"}]
          /\ worker'.pc = "checking" /\ worker'.id = worker.id
      BY <2>2 DEF IInv, WorkerType, Places
    <3> QED
      BY <1>2, <3>1, RequestStep DEF AskSource, lease, channel
  <2> QED
    BY <1>2, <2>1, <2>2 DEF AskSource
<1>3. CASE CheckSession
  <2>1. worker.pc \in Accepted
    BY <1>3 DEF CheckSession
  <2>2. CASE Answers("revoked") /\ UNCHANGED <<lease, channel, chat, answered, caught>>
    BY <2>1, <2>2, ResultStep DEF lease, channel
  <2>3. CASE Revoked
    BY <2>1, <2>3, RevokedStep
  <2>4. CASE /\ worker.account = Owner
             /\ To("working")
             /\ UNCHANGED <<lease, channel, chat, answered, caught>>
    BY <2>1, <2>4, OnwardStep DEF lease, channel
  <2> QED
    BY <1>3, <2>2, <2>3, <2>4 DEF CheckSession
<1>4. CASE Executed
  BY <1>4, RevokedStep, OnwardStep DEF Executed, lease, channel
<1> QED
  BY <1>1, <1>2, <1>3, <1>4

(* What the session is used for.                                           *)
LEMMA WorkStep ==
    ASSUME IInv, Query \/ Certificate \/ InstallKey \/ Sign
    PROVE  IInv'
<1> USE DEF Accepted
<1>1. CASE Query
  <2>1. /\ worker.pc \in Accepted
        /\ Yields("ok") \/ Yields("error") \/ Answers("error")
        /\ UNCHANGED <<active, valid, signedIn, previous, answered, caught>>
    BY <1>1 DEF Query, Sanitized, Working, lease, channel
  <2> QED
    BY <2>1, ResultStep
<1>2. CASE Certificate
  <2>1. worker.account = Owner
    BY <1>2 DEF IInv, OwnAccountOnly, Certificate, Working
  <2> QED
    BY <1>2, <2>1, ResultStep, OnwardStep DEF Certificate, Working, lease, channel
<1>3. CASE InstallKey
  BY <1>3, ResultStep DEF InstallKey, lease, channel
<1>4. CASE Sign
  <2>1. /\ worker.pc \in Accepted
        /\ Yields("ok") \/ Yields("error")
        /\ UNCHANGED <<active, valid, signedIn, previous, answered, caught>>
    BY <1>4 DEF Sign, Working, lease, channel
  <2> QED
    BY <2>1, ResultStep
<1> QED
  BY <1>1, <1>2, <1>3, <1>4

(* The last look at the lease: who was caught sees it.                     *)
LEMMA SettleStep ==
    ASSUME IInv, Settle
    PROVE  IInv'
<1>1. UNCHANGED <<active, valid, signedIn, previous, answered, caught>> /\ worker.pc = "answering"
  BY DEF Settle, lease, channel
<1>2. CASE ~Live /\ worker' = [worker EXCEPT !.pc = "leaving", !.result = "revoked"]
  <2>1. /\ worker' \in [pc : Places, id : 0 .. MaxId, ask : Asks, account : Accounts,
                        result : {"ok", "error", "revoked"}]
        /\ worker'.pc = "leaving"
    BY <1>2 DEF IInv, WorkerType, Places
  <2> QED
    BY <1>1, <2>1, LeaveStep
<1>3. CASE Live /\ \E r \in {worker.result, "error"} :
                     worker' = [worker EXCEPT !.pc = "writing", !.result = r]
  <2>1. /\ worker' \in [pc : Places, id : 0 .. MaxId, ask : Asks, account : Accounts,
                        result : {"ok", "error", "revoked"}]
        /\ worker'.pc = "writing" /\ worker'.id = worker.id
        /\ worker'.result = "ok" => worker.result = "ok"
    BY <1>3 DEF IInv, WorkerType, Places
  <2>2. ~caught
    BY <1>3 DEF IInv, CaughtRevoked
  <2> QED
    BY <1>1, <2>1, <2>2 DEF IInv, WorkerType, CaughtRevoked, NoLateResult, OwnAccountOnly, IdsRise,
        Live, Accepted
<1> QED
  BY <1>2, <1>3 DEF Settle

(* The answer is out; only a result moves the last id answered up.         *)
LEMMA WriteStep ==
    ASSUME IInv, Write
    PROVE  IInv'
<1>1. worker.id \in Nat
  BY RestingType DEF IInv, WorkerType
<1> QED
  BY <1>1, RestingType DEF Write, lease, channel, IInv, WorkerType, CaughtRevoked, NoLateResult,
      OwnAccountOnly, IdsRise, Live, Accepted

(* The worker ends.                                                        *)
LEMMA EndStep ==
    ASSUME IInv, ReadStops \/ ReadFails \/ WriteEnds
    PROVE  IInv'
<1>1. To("ended") /\ UNCHANGED <<active, valid, signedIn, previous, answered, caught>>
  BY DEF ReadStops, ReadFails, WriteEnds, Ends, lease, channel
<1>2. "ended" \in Places
  BY DEF Places
<1> QED
  BY <1>1, <1>2, ToType, LeaveStep DEF IInv

(* The other threads, and time. Who is caught is not writing.              *)
LEMMA OthersStep ==
    ASSUME IInv, Others
    PROVE  IInv'
<1> USE DEF IInv, WorkerType, CaughtRevoked, NoLateResult, OwnAccountOnly, IdsRise, Live, lease,
      channel
<1>1. CASE Revoke
  BY <1>1 DEF Revoke, AtRequest
<1>2. CASE DropGuard
  BY <1>2 DEF DropGuard, AtRequest
<1>3. ASSUME NEW a \in Accounts, SwitchAccount(a)
      PROVE  IInv'
  BY <1>3 DEF SwitchAccount
<1>4. ASSUME NEW k \in KeyIds, Age(k)
      PROVE  IInv'
  BY <1>4 DEF Age
<1> QED
  BY <1>1, <1>2, <1>3, <1>4 DEF Others

-----------------------------------------------------------------------------
(* Every step of the specification keeps the invariant.                    *)
LEMMA NextIInv == IInv /\ [Next]_vars => IInv'
<1> SUFFICES ASSUME IInv, [Next]_vars PROVE IInv'
  OBVIOUS
<1>1. CASE Work
  BY <1>1, ExecuteStep, WorkStep, SettleStep, WriteStep, EndStep DEF Work
<1>2. CASE Game
  BY <1>2, EndStep, ReceiveStep DEF Game
<1>3. CASE Others
  BY <1>3, OthersStep
<1>4. CASE UNCHANGED vars
  BY <1>4 DEF vars, lease, channel, chat, IInv, WorkerType, CaughtRevoked, NoLateResult,
      OwnAccountOnly, IdsRise, Live
<1> QED
  BY <1>1, <1>2, <1>3, <1>4 DEF Next

(* The inductive invariant.                                                *)
THEOREM Invariance == Spec => []IInv
  BY InitIInv, NextIInv, PTL DEF Spec

(* However the worker's steps fall between those of a sign-out or the end  *)
(* of the game, a request caught by them is not answered with its result.  *)
THEOREM NeverLate == Spec => []NoLateResult
<1>1. IInv => NoLateResult
  BY DEF IInv
<1> QED
  BY <1>1, Invariance, PTL

(* Whichever accounts come and go, the game is served with its own.        *)
THEOREM OwnAccountAlways == Spec => []OwnAccountOnly
<1>1. IInv => OwnAccountOnly
  BY DEF IInv
<1> QED
  BY <1>1, Invariance, PTL

(* No replay of a request is answered with a second result.                *)
THEOREM NoReplay == Spec => []AnsweredOnce
<1>1. IInv => AnsweredOnce
  <2>1. IInv => answered \in Nat /\ worker.id \in Nat
    BY RestingType DEF IInv, WorkerType
  <2> QED
    BY <2>1 DEF IInv, IdsRise, AnsweredOnce
<1> QED
  BY <1>1, Invariance, PTL

-----------------------------------------------------------------------------
(* Signatures. What has been signed under a key that is still there is not *)
(* above what the key remembers, and under a key yet to come is nothing.   *)
SignedRemembered ==
    \A k \in DOMAIN keys, s \in Sessions :
        \A m \in DOMAIN signed[<<k, s>>] : signed[<<k, s>>][m] <= keys[k].used[s]

SignInv ==
    /\ issued \in Nat
    /\ signed \in [KeyIds \X Sessions -> Seq(Indexes)]
    /\ keys \in [DOMAIN keys -> Keys]
    /\ \A k \in DOMAIN keys : k \in KeyIds /\ k <= issued
    /\ \A k \in KeyIds, s \in Sessions : k > issued => signed[<<k, s>>] = <<>>
    /\ SignedRemembered
    /\ IndexesIncrease

(* Ids and indexes are numbers.                                            *)
LEMMA Numbers ==
    /\ MaxIssued \in Nat /\ KeyIds \subseteq Nat /\ Indexes \subseteq Nat
    /\ \A k : k \in KeyIds <=> k \in Nat /\ 1 <= k /\ k <= MaxIssued
<1>1. MaxIssued \in Nat /\ MaxIndex \in Nat
  BY BrokerAssumption
<1> QED
  BY <1>1 DEF KeyIds, Indexes

(* What a game may ask names keys, sessions and indexes.                   *)
LEMMA AskType ==
    ASSUME NEW ask \in Asks
    PROVE  ask.key \in KeyIds /\ ask.session \in Sessions /\ ask.index \in Indexes
<1>1. 1 \in KeyIds /\ 0 \in Indexes /\ (CHOOSE s \in Sessions : TRUE) \in Sessions
  BY BrokerAssumption DEF KeyIds, Indexes
<1> QED
  BY <1>1 DEF Asks, Plain

(* Nothing is signed: keys age, go, or are new and unused.                 *)
LEMMA UnsignedStep ==
    ASSUME SignInv, UNCHANGED signed,
           issued' = issued \/ issued' = issued + 1,
           keys' \in [DOMAIN keys' -> Keys],
           \A k \in DOMAIN keys' :
              \/ k \in DOMAIN keys /\ keys'[k].used = keys[k].used
              \/ k = issued + 1 /\ k = issued' /\ k \in KeyIds
                 /\ \A s \in Sessions : keys'[k].used[s] = Unused
    PROVE  SignInv'
<1>1. \A k \in DOMAIN keys' : k \in KeyIds /\ k <= issued'
  BY Numbers DEF SignInv
<1>2. \A k \in KeyIds, s \in Sessions : k > issued' => signed'[<<k, s>>] = <<>>
  BY Numbers DEF SignInv
<1>3. SignedRemembered'
  <2> SUFFICES ASSUME NEW k \in DOMAIN keys', NEW s \in Sessions, NEW m \in DOMAIN signed[<<k, s>>]
               PROVE  signed[<<k, s>>][m] <= keys'[k].used[s]
    BY DEF SignedRemembered
  <2>1. CASE k \in DOMAIN keys /\ keys'[k].used = keys[k].used
    BY <2>1 DEF SignInv, SignedRemembered
  <2>2. CASE k = issued + 1 /\ k \in KeyIds
    <3>1. signed[<<k, s>>] = <<>>
      BY <2>2 DEF SignInv
    <3> QED
      BY <3>1
  <2> QED
    BY <2>1, <2>2
<1>4. issued' \in Nat
  BY DEF SignInv
<1> QED
  BY <1>1, <1>2, <1>3, <1>4 DEF SignInv, IndexesIncrease

(* The keys that have not expired are what they were.                      *)
LEMMA UnexpiredKeys ==
    ASSUME SignInv
    PROVE  /\ Unexpired(keys) \in [DOMAIN Unexpired(keys) -> Keys]
           /\ \A k \in DOMAIN Unexpired(keys) : k \in DOMAIN keys /\ Unexpired(keys)[k] = keys[k]
  BY DEF SignInv, Unexpired

(* No key is nothing to remember.                                          *)
LEMMA DroppedKeys ==
    ASSUME SignInv, keys' = NoKeys, UNCHANGED <<issued, signed>>
    PROVE  SignInv'
<1>1. DOMAIN keys' = {} /\ keys' \in [DOMAIN keys' -> Keys]
  BY DEF NoKeys
<1> QED
  BY <1>1, UnsignedStep

(* A new key has signed nothing, and its id is new.                        *)
LEMMA InstallKeySigns ==
    ASSUME SignInv, InstallKey
    PROVE  SignInv'
<1>1. UNCHANGED signed
  BY DEF InstallKey
<1>2. CASE UNCHANGED <<keys, issued>>
  BY <1>1, <1>2, UnsignedStep DEF SignInv
<1>3. CASE keys' = Unexpired(keys) /\ UNCHANGED issued
  BY <1>1, <1>3, UnexpiredKeys, UnsignedStep
<1>4. CASE /\ issued < MaxIssued
           /\ issued' = issued + 1
           /\ keys' = [k \in DOMAIN Unexpired(keys) \cup {issued'} |->
                         IF k = issued' THEN NewKey ELSE keys[k]]
  <2>1. NewKey \in Keys /\ \A s \in Sessions : NewKey.used[s] = Unused
    BY DEF NewKey, Keys
  <2>2. issued + 1 \in KeyIds
    BY <1>4, Numbers DEF SignInv
  <2>3. \A k \in DOMAIN Unexpired(keys) : k \in DOMAIN keys /\ keys[k] \in Keys
    BY UnexpiredKeys
  <2>4. keys' \in [DOMAIN keys' -> Keys]
    BY <1>4, <2>1, <2>3
  <2>5. \A k \in DOMAIN keys' :
            \/ k \in DOMAIN keys /\ keys'[k].used = keys[k].used
            \/ k = issued + 1 /\ k = issued' /\ k \in KeyIds
               /\ \A s \in Sessions : keys'[k].used[s] = Unused
    BY <1>4, <2>1, <2>2, <2>3
  <2> QED
    BY <1>1, <1>4, <2>4, <2>5, UnsignedStep
<1> QED
  BY <1>2, <1>3, <1>4 DEF InstallKey

(* What is signed is above all that the key remembers of its session.      *)
LEMMA SignSigns ==
    ASSUME IInv, SignInv, Sign
    PROVE  SignInv'
<1> DEFINE a == worker.ask
           q == signed[<<a.key, a.session>>]
<1>1. a.key \in KeyIds /\ a.session \in Sessions /\ a.index \in Indexes
  BY AskType DEF IInv, WorkerType
<1>2. CASE UNCHANGED <<keys, signed>>
  BY <1>2, UnsignedStep DEF Sign, SignInv
<1>3. CASE /\ a.key \in DOMAIN Unexpired(keys)
           /\ MaySign(keys[a.key], a.session, a.index)
           /\ keys' = [keys EXCEPT ![a.key].used[a.session] = a.index]
           /\ signed' = [signed EXCEPT ![<<a.key, a.session>>] = Append(@, a.index)]
  <2>1. /\ a.key \in DOMAIN keys /\ keys[a.key] \in Keys
        /\ q \in Seq(Indexes) /\ Indexes \subseteq Nat
        /\ issued' = issued
    BY <1>1, <1>3, UnexpiredKeys, Numbers DEF SignInv, Sign
  <2>2. keys[a.key].used[a.session] < a.index
    <3>1. keys[a.key].used[a.session] \in Indexes \cup {Unused}
      BY <1>1, <2>1 DEF Keys
    <3> QED
      BY <1>1, <1>3, <3>1 DEF MaySign, Unused, Indexes
  <2>3. \A m \in DOMAIN q : q[m] < a.index /\ q[m] \in Nat
    <3>1. keys[a.key].used[a.session] \in Int /\ a.index \in Nat
      <4>1. keys[a.key].used[a.session] \in Indexes \cup {Unused}
        BY <1>1, <2>1 DEF Keys
      <4>2. Unused \in Int
        BY DEF Unused
      <4>3. a.index \in Nat /\ \A i \in Indexes : i \in Int
        BY <1>1 DEF Indexes
      <4> QED
        BY <4>1, <4>2, <4>3
    <3>2. \A m \in DOMAIN q : q[m] \in Nat /\ q[m] <= keys[a.key].used[a.session]
      BY <1>1, <2>1 DEF SignInv, SignedRemembered
    <3> QED
      BY <2>2, <3>1, <3>2
  <2>4. /\ Append(q, a.index) \in Seq(Indexes)
        /\ DOMAIN q = 1 .. Len(q) /\ Len(q) \in Nat
        /\ DOMAIN Append(q, a.index) = 1 .. Len(q) + 1
        /\ Append(q, a.index)[Len(q) + 1] = a.index
        /\ \A m \in 1 .. Len(q) : Append(q, a.index)[m] = q[m]
    BY <1>1, <2>1
  <2>5. /\ signed' \in [KeyIds \X Sessions -> Seq(Indexes)]
        /\ signed'[<<a.key, a.session>>] = Append(q, a.index)
        /\ \A k \in KeyIds, s \in Sessions :
              <<k, s>> # <<a.key, a.session>> => signed'[<<k, s>>] = signed[<<k, s>>]
    BY <1>1, <1>3, <2>4 DEF SignInv
  <2>6. /\ DOMAIN keys' = DOMAIN keys
        /\ keys' \in [DOMAIN keys' -> Keys]
        /\ keys'[a.key].used[a.session] = a.index
        /\ \A s \in Sessions \ {a.session} : keys'[a.key].used[s] = keys[a.key].used[s]
        /\ \A k \in DOMAIN keys \ {a.key} : keys'[k] = keys[k]
    <3> DEFINE u == [keys[a.key].used EXCEPT ![a.session] = a.index]
               w == [keys[a.key] EXCEPT !.used = u]
    <3>1. keys' = [keys EXCEPT ![a.key] = w]
      BY <1>3
    <3>2. u \in [Sessions -> Indexes \cup {Unused}] /\ u[a.session] = a.index
          /\ \A s \in Sessions \ {a.session} : u[s] = keys[a.key].used[s]
      BY <1>1, <2>1 DEF Keys
    <3>3. w \in Keys /\ w.used = u
      BY <2>1, <3>2 DEF Keys
    <3> HIDE DEF w, u
    <3> QED
      BY <2>1, <3>1, <3>2, <3>3 DEF SignInv
  <2>7. SignedRemembered'
    <3> SUFFICES ASSUME NEW k \in DOMAIN keys', NEW s \in Sessions, NEW m \in DOMAIN signed'[<<k, s>>]
                 PROVE  signed'[<<k, s>>][m] <= keys'[k].used[s]
      BY DEF SignedRemembered
    <3>0. k \in KeyIds /\ k \in DOMAIN keys
      BY <2>6 DEF SignInv
    <3>1. CASE <<k, s>> = <<a.key, a.session>>
      <4>1. k = a.key /\ s = a.session /\ a.index \in Nat
        BY <1>1, <3>1, Numbers
      <4>2. signed'[<<k, s>>] = Append(q, a.index) /\ keys'[k].used[s] = a.index
        BY <2>5, <2>6, <4>1
      <4>3. m \in 1 .. Len(q) \/ m = Len(q) + 1
        BY <2>4, <4>2
      <4>4. CASE m \in 1 .. Len(q)
        <5>1. signed'[<<k, s>>][m] = q[m] /\ m \in DOMAIN q
          BY <2>4, <4>2, <4>4
        <5>2. q[m] <= a.index
          BY <2>3, <4>1, <5>1
        <5> QED
          BY <4>2, <5>1, <5>2
      <4>5. CASE m = Len(q) + 1
        BY <2>4, <4>1, <4>2, <4>5
      <4> QED
        BY <4>3, <4>4, <4>5
    <3>2. CASE <<k, s>> # <<a.key, a.session>>
      <4>1. signed'[<<k, s>>] = signed[<<k, s>>] /\ keys'[k].used[s] = keys[k].used[s]
        BY <2>5, <2>6, <3>0, <3>2
      <4> QED
        BY <3>0, <4>1 DEF SignInv, SignedRemembered
    <3> QED
      BY <3>1, <3>2
  <2>8. IndexesIncrease'
    <3> SUFFICES ASSUME NEW k \in KeyIds, NEW s \in Sessions,
                        NEW m \in DOMAIN signed'[<<k, s>>], NEW n \in DOMAIN signed'[<<k, s>>], m < n
                 PROVE  signed'[<<k, s>>][m] < signed'[<<k, s>>][n]
      BY DEF IndexesIncrease
    <3>1. CASE <<k, s>> = <<a.key, a.session>>
      <4>1. signed'[<<k, s>>] = Append(q, a.index) /\ m \in 1 .. Len(q) /\ n \in 1 .. Len(q) + 1
        <5>1. signed'[<<k, s>>] = Append(q, a.index)
          BY <2>5, <3>1
        <5>2. m \in 1 .. Len(q) + 1 /\ n \in 1 .. Len(q) + 1
          BY <2>4, <5>1
        <5> QED
          BY <2>4, <5>1, <5>2
      <4>2. CASE n = Len(q) + 1
        BY <2>3, <2>4, <4>1, <4>2
      <4>3. CASE n \in 1 .. Len(q)
        BY <1>1, <2>4, <3>1, <4>1, <4>3 DEF SignInv, IndexesIncrease
      <4> QED
        BY <2>4, <4>1, <4>2, <4>3
    <3>2. CASE <<k, s>> # <<a.key, a.session>>
      BY <2>5, <3>2 DEF SignInv, IndexesIncrease
    <3> QED
      BY <3>1, <3>2
  <2>9. \A k \in KeyIds, s \in Sessions : k > issued' => signed'[<<k, s>>] = <<>>
    <3> SUFFICES ASSUME NEW k \in KeyIds, NEW s \in Sessions, k > issued'
                 PROVE  signed'[<<k, s>>] = <<>>
      OBVIOUS
    <3>1. k > issued /\ a.key <= issued /\ k \in Nat /\ a.key \in Nat /\ issued \in Nat
      BY <1>1, <2>1, Numbers DEF SignInv
    <3>2. k # a.key
      BY <3>1
    <3> QED
      BY <2>5, <3>1, <3>2 DEF SignInv
  <2> QED
    BY <2>1, <2>5, <2>6, <2>7, <2>8, <2>9 DEF SignInv
<1> QED
  BY <1>2, <1>3 DEF Sign

(* Every step keeps what the keys remember true.                           *)
LEMMA NextSigns == IInv /\ SignInv /\ [Next]_vars => SignInv'
<1> SUFFICES ASSUME IInv, SignInv, [Next]_vars PROVE SignInv'
  OBVIOUS
<1>1. CASE UNCHANGED chat
  BY <1>1, UnsignedStep DEF chat, SignInv
<1>2. CASE keys' = NoKeys /\ UNCHANGED <<issued, signed>>
  BY <1>2, DroppedKeys
<1>3. CASE Work
  <2>1. CASE ReadStops \/ WriteEnds
    BY <1>2, <2>1 DEF ReadStops, WriteEnds, Ends
  <2>2. CASE Execute \/ AskSource \/ CheckSession \/ Query \/ Executed \/ Settle \/ Write
    BY <1>1, <1>2, <2>2 DEF Execute, AskSource, CheckSession, Query, Executed, Settle, Write, Revoked
  <2>3. CASE Certificate
    BY <2>3, UnexpiredKeys, UnsignedStep DEF Certificate
  <2> QED
    BY <1>3, <2>1, <2>2, <2>3, InstallKeySigns, SignSigns DEF Work
<1>4. CASE Game
  BY <1>1, <1>2, <1>4 DEF Game, ReadFails, Ends, Receive
<1>5. CASE Others
  <2>1. ASSUME NEW k \in KeyIds, Age(k) PROVE SignInv'
    <3>1. PICK age \in {"stale", "expired"} : keys' = [keys EXCEPT ![k].age = age]
      BY <2>1 DEF Age
    <3>2. keys' \in [DOMAIN keys' -> Keys] /\ DOMAIN keys' = DOMAIN keys
      BY <3>1 DEF SignInv, Keys
    <3>3. \A h \in DOMAIN keys' : keys'[h].used = keys[h].used
      BY <3>1, <3>2 DEF SignInv, Keys
    <3> QED
      BY <2>1, <3>2, <3>3, UnsignedStep DEF Age
  <2> QED
    BY <1>1, <1>5, <2>1 DEF Others, Revoke, DropGuard, SwitchAccount
<1> QED
  BY <1>1, <1>3, <1>4, <1>5 DEF Next, vars

(* No index is signed twice or after a later one under one key and in one  *)
(* session, for any number of keys, sessions, renewals and requests.       *)
THEOREM IndexesAlwaysIncrease == Spec => []IndexesIncrease
<1>1. Init => SignInv
  <2> SUFFICES ASSUME Init PROVE SignInv
    OBVIOUS
  <2>1. DOMAIN keys = {} /\ keys \in [DOMAIN keys -> Keys] /\ issued \in Nat
    BY DEF Init, NoKeys
  <2>2. \A k \in KeyIds, s \in Sessions : signed[<<k, s>>] = <<>>
    BY DEF Init
  <2>3. signed \in [KeyIds \X Sessions -> Seq(Indexes)]
    BY DEF Init
  <2> QED
    BY <2>1, <2>2, <2>3 DEF SignInv, SignedRemembered, IndexesIncrease
<1>2. SignInv => IndexesIncrease
  BY DEF SignInv
<1> QED
  BY <1>1, <1>2, NextSigns, Invariance, PTL DEF Spec

-----------------------------------------------------------------------------
(* The transfers of the pipe.                                              *)
States == {"none", "pending", "done", "broken", "aborted"}

Ios == [dir : {"none", "read", "write"}, state : States, want : Nat, bytes : Seq(Nat),
        cancelled : BOOLEAN]

(* The bytes of s are those that follow the first n.                       *)
Follows(s, n) == \A k \in 1 .. Len(s) : s[k] = n + k

(* What the game sent, in the worker, the buffer of a read and the pipe.   *)
Stream ==
    /\ Follows(taken, 0)
    /\ Follows(Buffered, Len(taken))
    /\ Follows(toWorker, Len(taken) + Len(Buffered))
    /\ Len(taken) + Len(Buffered) + Len(toWorker) = sentBytes

(* The answers, in the game, the pipe and the buffer of a write.           *)
AnswersSent ==
    /\ Follows(heard, 0)
    /\ Follows(toGame, Len(heard))
    /\ io.dir = "write" =>
          /\ Follows(io.bytes, Len(heard) + Len(toGame))
          /\ Len(heard) + Len(toGame) + Len(io.bytes) = spoken + rest
    /\ io.dir # "write" /\ piece # "ended" => Len(heard) + Len(toGame) = spoken

(* The operation the kernel has is the one the worker waits for.           *)
Operation ==
    /\ transfer = "out" => io = NoIo
    /\ transfer # "out" =>
          /\ piece # "ended" /\ io.state # "none" /\ io.want = rest
          /\ io.dir = IF piece \in Reading THEN "read" ELSE "write"
    /\ io.dir = "read" => Len(io.bytes) <= rest
    /\ io.dir = "read" /\ io.state # "done" => io.bytes = <<>>
    /\ io.dir = "read" /\ io.state = "done" => io.bytes # <<>>
    /\ io.dir = "write" /\ io.state = "pending" => io.bytes # <<>>
    /\ io.dir = "write" /\ io.state = "done" => io.bytes = <<>>
    /\ piece # "ended" => rest > 0

PInv == PipeTypeOK /\ Stream /\ AnswersSent /\ Operation

-----------------------------------------------------------------------------
(* Sequences that follow one another.                                      *)

(* Bytes that follow one another, put after bytes they follow, still do.   *)
LEMMA Joined ==
    ASSUME NEW s \in Seq(Nat), NEW t \in Seq(Nat), NEW n \in Nat
    PROVE  /\ s \o t \in Seq(Nat) /\ Len(s \o t) = Len(s) + Len(t)
           /\ Follows(s, n) /\ Follows(t, n + Len(s)) => Follows(s \o t, n)
<1>1. s \o t \in Seq(Nat) /\ Len(s \o t) = Len(s) + Len(t)
  OBVIOUS
<1>2. ASSUME Follows(s, n), Follows(t, n + Len(s)), NEW k \in 1 .. Len(s \o t)
      PROVE  (s \o t)[k] = n + k
  <2>1. CASE k <= Len(s)
    BY <1>1, <1>2, <2>1 DEF Follows
  <2>2. CASE k > Len(s)
    <3>1. k - Len(s) \in 1 .. Len(t) /\ (s \o t)[k] = t[k - Len(s)]
      BY <1>1, <1>2, <2>2
    <3> QED
      BY <1>2, <3>1 DEF Follows
  <2> QED
    BY <2>1, <2>2
<1> QED
  BY <1>1, <1>2 DEF Follows

(* Bytes that follow the zeroth are the first ones sent.                   *)
LEMMA Counted ==
    ASSUME NEW s \in Seq(Nat), Follows(s, 0)
    PROVE  s = UpTo(Len(s))
  BY DEF Follows, UpTo

(* Arithmetic about the length of a sequence of bytes.                     *)
LEMMA Lengths ==
    ASSUME NEW s \in Seq(Nat), NEW n \in Nat
    PROVE  /\ Len(s) \in Nat /\ 0 + Len(s) = Len(s) /\ Len(s) + 0 = Len(s)
           /\ Len(s) < n => n - Len(s) \in Nat /\ n - Len(s) > 0
           /\ Len(s) <= n /\ Len(s) # n => Len(s) < n
  OBVIOUS

(* A sequence has no tail exactly when it has one element.                 *)
LEMMA TailEmpty ==
    ASSUME NEW s \in Seq(Nat), s # <<>>
    PROVE  Tail(s) = <<>> <=> Len(s) = 1
<1>1. Len(s) \in Nat /\ Len(s) > 0 /\ Tail(s) \in Seq(Nat) /\ Len(Tail(s)) = Len(s) - 1
  OBVIOUS
<1>2. \A u \in Seq(Nat) : Len(u) = 0 <=> u = <<>>
  OBVIOUS
<1>3. Tail(s) = <<>> <=> Len(Tail(s)) = 0
  BY <1>1, <1>2
<1> QED
  BY <1>1, <1>3

(* The next byte sent may be put behind those before it.                   *)
LEMMA Appended ==
    ASSUME NEW s \in Seq(Nat), NEW n \in Nat, Follows(s, n)
    PROVE  /\ Append(s, n + Len(s) + 1) \in Seq(Nat)
           /\ Len(Append(s, n + Len(s) + 1)) = Len(s) + 1
           /\ Follows(Append(s, n + Len(s) + 1), n)
  BY DEF Follows

(* The first byte taken off is the next one, and the rest follow it.       *)
LEMMA FirstTaken ==
    ASSUME NEW s \in Seq(Nat), NEW n \in Nat, Follows(s, n), s # <<>>
    PROVE  /\ Head(s) = n + 1 /\ Tail(s) \in Seq(Nat) /\ Len(Tail(s)) = Len(s) - 1
           /\ Len(s) > 0 /\ Follows(Tail(s), n + 1)
  BY DEF Follows

(* A sequence of bytes in order, cut anywhere, leaves two of them.         *)
LEMMA Cut ==
    ASSUME NEW s \in Seq(Nat), NEW n \in Nat, Follows(s, n), NEW m \in 0 .. Len(s)
    PROVE  /\ SubSeq(s, 1, m) \in Seq(Nat) /\ Len(SubSeq(s, 1, m)) = m
           /\ Follows(SubSeq(s, 1, m), n)
           /\ SubSeq(s, m + 1, Len(s)) \in Seq(Nat) /\ Len(SubSeq(s, m + 1, Len(s))) = Len(s) - m
           /\ Follows(SubSeq(s, m + 1, Len(s)), n + m)
  BY DEF Follows

(* A record of which two fields change.                                    *)
LEMMA Changed ==
    ASSUME NEW o \in Ios, NEW s \in States, NEW b \in Seq(Nat)
    PROVE  [o EXCEPT !.state = s, !.bytes = b]
             = [dir |-> o.dir, state |-> s, want |-> o.want, bytes |-> b, cancelled |-> o.cancelled]
<1> DEFINE v == [o EXCEPT !.state = s]
           w == [v EXCEPT !.bytes = b]
<1>1. v = [dir |-> o.dir, state |-> s, want |-> o.want, bytes |-> o.bytes, cancelled |-> o.cancelled]
  BY DEF Ios
<1>2. w = [o EXCEPT !.state = s, !.bytes = b]
  OBVIOUS
<1> HIDE DEF v
<1>3. w = [dir |-> o.dir, state |-> s, want |-> o.want, bytes |-> b, cancelled |-> o.cancelled]
  BY <1>1
<1> QED
  BY <1>2, <1>3

(* Every piece of a frame has a size; the first one is a single byte.      *)
LEMMA Sizes ==
    /\ \A p \in Reading \cup Writing : Size[p] \in Nat /\ Size[p] > 0
    /\ Size["ended"] = 0
    /\ Size["first"] = 1
  BY PipeAssumption DEF Size, Reading, Writing

(* An open pipe with nothing sent satisfies the invariant.                 *)
LEMMA InitPInv == PipeInit => PInv
<1> SUFFICES ASSUME PipeInit PROVE PInv
  OBVIOUS
<1>1. io.dir = "none" /\ io \in Ios /\ Buffered = <<>>
  BY DEF PipeInit, NoIo, Ios, States, Buffered
<1>2. PipeTypeOK
  <2>1. <<>> \in Seq(Nat)
    OBVIOUS
  <2> QED
    BY <1>1, <2>1 DEF PipeInit, PipeTypeOK, Ios, States, Reading, Writing
<1>3. Stream /\ AnswersSent
  BY <1>1 DEF PipeInit, Stream, AnswersSent, Follows
<1>4. Operation
  BY <1>1 DEF PipeInit, Operation
<1> QED
  BY <1>2, <1>3, <1>4 DEF PInv

-----------------------------------------------------------------------------
(* The worker begins a transfer.                                           *)
LEMMA BeginStep ==
    ASSUME PInv, ReadGivesUp \/ BeginRead
    PROVE  PInv'
<1> USE DEF pipeEnds, workerVars
<1>1. CASE ReadGivesUp
  <2>1. io = NoIo /\ UNCHANGED <<sentBytes, toWorker, toGame, heard, io, taken, spoken, transfer>>
        /\ piece' = "ended" /\ rest' = 0
    BY <1>1 DEF ReadGivesUp, PInv, Operation
  <2> QED
    BY <1>1, <2>1 DEF ReadGivesUp, PInv, PipeTypeOK, Stream, AnswersSent, Operation, Follows, Buffered, NoIo
<1>2. CASE BeginRead
  <2>1. io = NoIo /\ UNCHANGED <<sentBytes, toWorker, toGame, heard, piece, rest, taken, spoken>>
        /\ transfer' = "waiting" /\ piece \in Reading /\ rest \in Nat
    BY <1>2 DEF BeginRead, PInv, Operation, PipeTypeOK
  <2>2. io' = [dir |-> "read", state |-> "pending", want |-> rest, bytes |-> <<>>, cancelled |-> FALSE]
    BY <1>2, <2>1 DEF BeginRead, NoIo
  <2>3. io' \in Ios /\ Buffered' = <<>> /\ Buffered = <<>>
    BY <2>1, <2>2 DEF Ios, States, Buffered, NoIo
  <2>4. PipeTypeOK'
    BY <1>2, <2>1, <2>3 DEF BeginRead, PInv, PipeTypeOK, Ios, States
  <2>5. Stream'
    BY <2>1, <2>3 DEF PInv, Stream, Follows
  <2>6. AnswersSent'
    BY <2>1, <2>2 DEF PInv, AnswersSent, Follows, Reading, NoIo
  <2>7. Operation'
    BY <2>1, <2>2 DEF PInv, Operation, Reading
  <2> QED
    BY <2>4, <2>5, <2>6, <2>7 DEF PInv
<1> QED
  BY <1>1, <1>2

(* The worker hands a piece of its answer to the kernel.                   *)
LEMMA BeginWriteStep ==
    ASSUME PInv, BeginWrite
    PROVE  PInv'
<1> DEFINE b == [k \in 1 .. rest |-> spoken + k]
<1>1. io = NoIo /\ UNCHANGED <<sentBytes, toWorker, toGame, heard, piece, rest, taken, spoken>>
      /\ transfer' = "waiting" /\ piece \in Writing /\ rest \in Nat /\ spoken \in Nat /\ rest > 0
  BY DEF BeginWrite, pipeEnds, workerVars, PInv, Operation, PipeTypeOK, Writing
<1>2. io' = [dir |-> "write", state |-> "pending", want |-> rest, bytes |-> b, cancelled |-> FALSE]
  BY <1>1 DEF BeginWrite, NoIo
<1>3. b \in Seq(Nat) /\ Len(b) = rest /\ Follows(b, spoken) /\ b # <<>>
  BY <1>1 DEF Follows
<1> HIDE DEF b
<1>4. io' \in Ios /\ Buffered' = <<>> /\ Buffered = <<>>
  BY <1>1, <1>2, <1>3 DEF Ios, States, Buffered, NoIo
<1>5. PipeTypeOK'
  BY <1>1, <1>4 DEF BeginWrite, pipeEnds, workerVars, PInv, PipeTypeOK, Ios, States
<1>6. Stream'
  BY <1>1, <1>4 DEF PInv, Stream, Follows
<1>7. AnswersSent'
  <2>1. Len(heard) + Len(toGame) = spoken
    BY <1>1 DEF PInv, AnswersSent, Writing, NoIo
  <2>2. Follows(heard', 0) /\ Follows(toGame', Len(heard'))
    BY <1>1 DEF PInv, AnswersSent, Follows
  <2> QED
    BY <1>1, <1>2, <1>3, <2>1, <2>2 DEF AnswersSent, PInv, PipeTypeOK
<1>8. Operation'
  BY <1>1, <1>2, <1>3 DEF PInv, Operation, Reading, Writing
<1> QED
  BY <1>5, <1>6, <1>7, <1>8 DEF PInv

-----------------------------------------------------------------------------
(* The kernel.                                                             *)

(* A pending operation is one the worker waits for.                        *)
LEMMA PendingIo ==
    ASSUME PInv, io.state = "pending"
    PROVE  /\ io \in Ios /\ transfer # "out" /\ piece # "ended" /\ io.want = rest
           /\ io.dir = IF piece \in Reading THEN "read" ELSE "write"
           /\ rest \in Nat /\ rest > 0
           /\ io.dir = "read" => io.bytes = <<>> /\ Buffered = <<>>
           /\ io.dir = "write" => io.bytes # <<>> /\ Buffered = <<>>
  BY DEF PInv, PipeTypeOK, Operation, NoIo, Ios, States, Buffered

(* The kernel moves bytes of the pipe into the buffer.                     *)
LEMMA KernelReadsStep ==
    ASSUME PInv, KernelReads
    PROVE  PInv'
<1> DEFINE n == IF Len(toWorker) < io.want THEN Len(toWorker) ELSE io.want
           b == SubSeq(toWorker, 1, n)
           w == SubSeq(toWorker, n + 1, Len(toWorker))
<1>1. /\ io \in Ios /\ io.dir = "read" /\ io.state = "pending" /\ io.bytes = <<>> /\ io.want = rest
      /\ Buffered = <<>> /\ transfer # "out" /\ piece \in Reading /\ rest \in Nat /\ rest > 0
  BY PendingIo DEF KernelReads, Pending
<1>2. /\ toWorker \in Seq(Nat) /\ Follows(toWorker, Len(taken)) /\ taken \in Seq(Nat)
      /\ Len(taken) + Len(toWorker) = sentBytes /\ toWorker # <<>>
  BY <1>1 DEF KernelReads, PInv, PipeTypeOK, Stream
<1>3. n \in 1 .. Len(toWorker) /\ n <= rest
  BY <1>1, <1>2
<1>4. toWorker' = w /\ io' = [io EXCEPT !.state = "done", !.bytes = b]
      /\ UNCHANGED <<sentBytes, toGame, heard, gone, stopped, transfer, workerVars>>
  BY DEF KernelReads
<1> HIDE DEF n
<1>5. /\ b \in Seq(Nat) /\ Len(b) = n /\ Follows(b, Len(taken))
      /\ w \in Seq(Nat) /\ Len(w) = Len(toWorker) - n /\ Follows(w, Len(taken) + n)
  BY <1>2, <1>3, Cut
<1> HIDE DEF b, w
<1>6. io' = [dir |-> "read", state |-> "done", want |-> rest, bytes |-> b, cancelled |-> io.cancelled]
  BY <1>1, <1>4, <1>5, Changed DEF States
<1>7. io' \in Ios /\ Buffered' = b
  BY <1>1, <1>5, <1>6 DEF Ios, States, Buffered
<1>8. PipeTypeOK'
  BY <1>4, <1>5, <1>7 DEF workerVars, PInv, PipeTypeOK, Ios, States
<1>9. Stream'
  BY <1>2, <1>3, <1>4, <1>5, <1>7 DEF workerVars, PInv, Stream
<1>10. AnswersSent'
  BY <1>1, <1>4, <1>6 DEF workerVars, PInv, AnswersSent
<1>11. Operation'
  BY <1>1, <1>3, <1>4, <1>5, <1>6 DEF workerVars, PInv, Operation
<1> QED
  BY <1>8, <1>9, <1>10, <1>11 DEF PInv

(* The kernel moves a byte of the buffer into the pipe.                    *)
LEMMA KernelWritesStep ==
    ASSUME PInv, KernelWrites
    PROVE  PInv'
<1> DEFINE L == Len(heard) + Len(toGame)
           t == IF Len(io.bytes) = 1 THEN "done" ELSE io.state
<1>1. /\ io \in Ios /\ io.dir = "write" /\ io.state = "pending" /\ io.bytes # <<>> /\ io.want = rest
      /\ Buffered = <<>> /\ transfer # "out" /\ piece # "ended" /\ piece \notin Reading
  BY PendingIo DEF KernelWrites, Pending
<1>2. /\ toGame \in Seq(Nat) /\ heard \in Seq(Nat) /\ io.bytes \in Seq(Nat) /\ L \in Nat
      /\ Follows(heard, 0) /\ Follows(toGame, Len(heard)) /\ Follows(io.bytes, L)
      /\ L + Len(io.bytes) = spoken + rest
  BY <1>1 DEF PInv, PipeTypeOK, AnswersSent, Ios
<1>3. /\ Head(io.bytes) = L + 1 /\ Tail(io.bytes) \in Seq(Nat) /\ Len(Tail(io.bytes)) = Len(io.bytes) - 1
      /\ Len(io.bytes) > 0 /\ Follows(Tail(io.bytes), L + 1)
  BY <1>1, <1>2, FirstTaken
<1>4. /\ toGame' = Append(toGame, Len(heard) + Len(toGame) + 1)
      /\ io' = [io EXCEPT !.state = t, !.bytes = Tail(io.bytes)]
      /\ UNCHANGED <<sentBytes, toWorker, heard, gone, stopped, transfer, workerVars>>
  BY <1>3 DEF KernelWrites
<1>5. /\ toGame' \in Seq(Nat) /\ Len(toGame') = Len(toGame) + 1 /\ Follows(toGame', Len(heard))
  BY <1>2, <1>4, Appended
<1>6. io' = [dir |-> "write", state |-> t, want |-> rest, bytes |-> Tail(io.bytes),
             cancelled |-> io.cancelled]
  BY <1>1, <1>3, <1>4, Changed DEF States
<1>7. io' \in Ios /\ Buffered' = <<>>
  BY <1>1, <1>3, <1>6 DEF Ios, States, Buffered
<1>8. PipeTypeOK'
  BY <1>4, <1>5, <1>7 DEF workerVars, PInv, PipeTypeOK, Ios, States
<1>9. Stream'
  BY <1>1, <1>4, <1>7 DEF workerVars, PInv, Stream
<1>10. AnswersSent'
  <2>1. Follows(io'.bytes, Len(heard') + Len(toGame'))
        /\ Len(heard') + Len(toGame') + Len(io'.bytes) = spoken' + rest'
    BY <1>2, <1>3, <1>4, <1>5, <1>6 DEF workerVars
  <2> QED
    BY <1>1, <1>2, <1>4, <1>5, <1>6, <2>1 DEF AnswersSent
<1>11. Operation'
  <2>1. t = "pending" => Tail(io.bytes) # <<>>
    BY <1>1, <1>2, TailEmpty
  <2>2. t = "done" => Tail(io.bytes) = <<>>
    BY <1>1, <1>2, TailEmpty
  <2>3. t \in {"pending", "done"}
    BY <1>1
  <2> QED
    BY <1>1, <1>4, <1>6, <2>1, <2>2, <2>3 DEF workerVars, PInv, Operation
<1> QED
  BY <1>8, <1>9, <1>10, <1>11 DEF PInv

(* The operation ends without its data, or is marked to be cancelled.      *)
LEMMA MarkedStep ==
    ASSUME PInv, NEW s \in States \ {"none"}, NEW c \in BOOLEAN,
           io.state = s \/ (io.state = "pending" /\ s # "done"),
           io' = [dir |-> io.dir, state |-> s, want |-> io.want, bytes |-> io.bytes, cancelled |-> c],
           transfer # "out", transfer' \in {"waiting", "late", "draining"},
           UNCHANGED <<pipeEnds, workerVars>>
    PROVE  PInv'
<1>1. io \in Ios
  BY DEF PInv, PipeTypeOK, Ios, States
<1>2. io' \in Ios /\ Buffered' = Buffered
  BY <1>1 DEF Ios, States, Buffered
<1>3. PipeTypeOK'
  BY <1>2 DEF pipeEnds, workerVars, PInv, PipeTypeOK, Ios, States
<1>4. Stream'
  BY <1>2 DEF pipeEnds, workerVars, PInv, Stream
<1>5. AnswersSent'
  BY DEF pipeEnds, workerVars, PInv, AnswersSent
<1>6. Operation'
  BY <1>1 DEF pipeEnds, workerVars, PInv, Operation
<1> QED
  BY <1>3, <1>4, <1>5, <1>6 DEF PInv

(* The kernel ends an operation because the peer has gone or it was        *)
(* cancelled.                                                              *)
LEMMA KernelEndsStep ==
    ASSUME PInv, KernelBreaks \/ KernelAborts
    PROVE  PInv'
<1> DEFINE s == io'.state
<1>1. /\ io.state = "pending" /\ UNCHANGED <<pipeEnds, transfer, workerVars>>
      /\ io' = [io EXCEPT !.state = "broken"] \/ io' = [io EXCEPT !.state = "aborted"]
  BY DEF KernelBreaks, KernelAborts
<1>2. io \in Ios /\ transfer # "out" /\ transfer \in {"waiting", "late", "draining"}
  BY <1>1, PendingIo DEF PInv, PipeTypeOK
<1>3. /\ s \in {"broken", "aborted"}
      /\ io' = [dir |-> io.dir, state |-> s, want |-> io.want, bytes |-> io.bytes,
                cancelled |-> io.cancelled]
  BY <1>1, <1>2 DEF Ios
<1>4. io.cancelled \in BOOLEAN /\ s \in States \ {"none"} /\ s # "done"
  BY <1>2, <1>3 DEF Ios, States
<1> HIDE DEF s
<1> QED
  BY <1>1, <1>2, <1>3, <1>4, MarkedStep

(* The worker is late, and asks the kernel to cancel.                      *)
LEMMA LateStep ==
    ASSUME PInv, Late \/ Cancel
    PROVE  PInv'
<1> DEFINE s == io.state
           c == io'.cancelled
<1>1. /\ transfer \in {"waiting", "late"} /\ UNCHANGED <<pipeEnds, workerVars>>
      /\ transfer' \in {"late", "draining"}
      /\ io' = io \/ io' = [io EXCEPT !.cancelled = TRUE]
  BY DEF Late, Cancel
<1>2. io \in Ios /\ transfer # "out" /\ s \in States \ {"none"}
  BY <1>1 DEF PInv, PipeTypeOK, Operation, Ios, States
<1>3. c \in BOOLEAN /\ io' = [dir |-> io.dir, state |-> s, want |-> io.want, bytes |-> io.bytes,
                              cancelled |-> c]
  BY <1>1, <1>2 DEF Ios
<1>4. io.state = s
  OBVIOUS
<1> HIDE DEF s, c
<1> QED
  BY <1>1, <1>2, <1>3, <1>4, MarkedStep

-----------------------------------------------------------------------------
(* An operation has ended, and transfer returns.                           *)

(* What a piece is followed by.                                            *)
LEMMA AdvanceSizes ==
    ASSUME NEW p \in Reading \cup Writing, Advance(p)
    PROVE  /\ piece' \in Reading \cup Writing \cup {"ended"} /\ rest' \in Nat
           /\ piece' # "ended" => rest' > 0
           /\ overdue' = FALSE
<1>1. PICK next \in {Following[p]} \cup {"ended"} :
          piece' = next /\ rest' = Size[next] /\ overdue' = FALSE
  BY DEF Advance
<1>2. Following[p] \in Reading \cup Writing
  BY DEF Following, Reading, Writing
<1>3. CASE next = "ended"
  BY <1>1, <1>3, Sizes
<1>4. CASE next \in Reading \cup Writing
  BY <1>1, <1>4, Sizes DEF Reading, Writing
<1> QED
  BY <1>1, <1>2, <1>3, <1>4

(* Back in the loop, with nothing in the kernel.                           *)
LEMMA ReturnedStep ==
    ASSUME PInv, io' = NoIo, transfer' = "out", UNCHANGED pipeEnds,
           piece' \in Reading \cup Writing \cup {"ended"}, rest' \in Nat, overdue' \in BOOLEAN,
           piece' # "ended" => rest' > 0,
           taken' \in Seq(Nat), Follows(taken', 0), Len(taken') = Len(taken) + Len(Buffered),
           spoken' \in Nat, piece' # "ended" => Len(heard) + Len(toGame) = spoken'
    PROVE  PInv'
<1>1. io' \in Ios /\ Buffered' = <<>> /\ io'.dir = "none" /\ Len(Buffered') = 0 /\ Follows(Buffered', Len(taken'))
  BY DEF NoIo, Ios, States, Buffered, Follows
<1>2. PipeTypeOK'
  BY <1>1 DEF pipeEnds, PInv, PipeTypeOK, Ios, States
<1>3. Stream'
  BY <1>1 DEF pipeEnds, PInv, Stream, PipeTypeOK
<1>4. AnswersSent'
  BY <1>1 DEF pipeEnds, PInv, AnswersSent
<1>5. Operation'
  BY <1>1 DEF pipeEnds, PInv, Operation
<1> QED
  BY <1>2, <1>3, <1>4, <1>5 DEF PInv

(* An operation that has ended, before transfer returns.                   *)
LEMMA EndedIo ==
    ASSUME PInv, transfer # "out", io.state # "pending"
    PROVE  /\ io \in Ios /\ io.state \in {"done", "broken", "aborted"} /\ rest \in Nat /\ rest > 0
           /\ piece \in Reading => io.dir = "read" /\ Buffered = io.bytes /\ Len(io.bytes) <= rest
           /\ piece \in Writing => io.dir = "write" /\ Buffered = <<>>
           /\ piece \in Reading /\ io.state # "done" => io.bytes = <<>>
           /\ piece \in Reading /\ io.state = "done" => Len(io.bytes) > 0
           /\ piece \in Writing /\ io.state = "done" => io.bytes = <<>>
           /\ taken \in Seq(Nat) /\ spoken \in Nat /\ overdue \in BOOLEAN
<1>1. io \in Ios /\ io.bytes \in Seq(Nat)
  BY DEF PInv, PipeTypeOK, Ios, States
<1>2. io.bytes # <<>> => Len(io.bytes) > 0
  BY <1>1
<1> QED
  BY <1>1, <1>2 DEF PInv, PipeTypeOK, Operation, Ios, States, Buffered, Reading, Writing

(* A read that is over, with whatever outcome, returns to the worker.      *)
LEMMA ReadStep ==
    ASSUME PInv, transfer # "out", io.state # "pending", NEW outcome,
           outcome \in {"transferred", "no peer", "interrupted", TimedOut},
           outcome = "transferred" <=> io.state = "done",
           ReadReturns(outcome), io' = NoIo, transfer' = "out", UNCHANGED pipeEnds
    PROVE  PInv'
<1>1. /\ io \in Ios /\ rest \in Nat /\ rest > 0 /\ piece \in Reading /\ io.dir = "read"
      /\ Buffered = io.bytes /\ Len(io.bytes) <= rest /\ taken \in Seq(Nat) /\ spoken \in Nat
      /\ overdue \in BOOLEAN /\ spoken' = spoken /\ io.bytes \in Seq(Nat)
  BY EndedIo DEF ReadReturns, Ios
<1>2. /\ Follows(taken, 0) /\ Follows(io.bytes, Len(taken)) /\ Len(heard) + Len(toGame) = spoken
  BY <1>1 DEF PInv, Stream, AnswersSent, Reading
<1>3. CASE outcome = "transferred"
  <2>1. /\ taken' = taken \o io.bytes /\ Len(io.bytes) > 0
        /\ IF Len(io.bytes) = rest THEN Advance(piece)
           ELSE rest' = rest - Len(io.bytes) /\ UNCHANGED <<piece, overdue>>
    BY <1>1, <1>3, EndedIo DEF ReadReturns, TimedOut
  <2>2. taken' \in Seq(Nat) /\ Len(taken') = Len(taken) + Len(Buffered) /\ Follows(taken', 0)
    <3>1. 0 \in Nat /\ 0 + Len(taken) = Len(taken)
      BY <1>1, Lengths
    <3> QED
      BY <1>1, <1>2, <2>1, <3>1, Joined
  <2>3. /\ piece' \in Reading \cup Writing \cup {"ended"} /\ rest' \in Nat /\ overdue' \in BOOLEAN
        /\ piece' # "ended" => rest' > 0
    <3>1. CASE Len(io.bytes) = rest
      BY <1>1, <2>1, <3>1, AdvanceSizes
    <3>2. CASE Len(io.bytes) # rest
      <4>1. rest - Len(io.bytes) \in Nat /\ rest - Len(io.bytes) > 0
        BY <1>1, <3>2, Lengths
      <4>2. rest' = rest - Len(io.bytes) /\ piece' = piece /\ overdue' = overdue
        BY <2>1, <3>2
      <4> QED
        BY <1>1, <2>1, <4>1, <4>2
    <3> QED
      BY <3>1, <3>2
  <2> QED
    BY <1>1, <1>2, <2>2, <2>3, ReturnedStep
<1>4. CASE outcome # "transferred"
  <2>1. /\ piece' \in Reading \cup Writing \cup {"ended"} /\ rest' \in Nat /\ overdue' \in BOOLEAN
        /\ piece' # "ended" => rest' > 0
        /\ taken' = taken
    <3>1. CASE outcome = "no peer"
      <4>1. piece' = "ended" /\ rest' = 0 /\ UNCHANGED <<overdue, taken>>
        BY <3>1 DEF ReadReturns, TimedOut
      <4> QED
        BY <1>1, <4>1
    <3>2. CASE outcome \in {TimedOut, "interrupted"}
      <4>1. UNCHANGED <<piece, rest, overdue, taken>>
        BY <3>2 DEF ReadReturns, TimedOut
      <4> QED
        BY <1>1, <4>1
    <3> QED
      BY <1>4, <3>1, <3>2
  <2>2. Len(Buffered) = 0 /\ Len(taken) \in Nat
    <3>1. Buffered = <<>>
      BY <1>1, <1>4, EndedIo
    <3>2. Len(<<>>) = 0
      OBVIOUS
    <3> QED
      BY <1>1, <3>1, <3>2, Lengths
  <2>3. Len(taken') = Len(taken) + Len(Buffered)
    BY <1>1, <2>1, <2>2, Lengths
  <2> QED
    BY <1>1, <1>2, <2>1, <2>3, ReturnedStep
<1> QED
  BY <1>3, <1>4

(* A write that is over, with whatever outcome, returns to the worker.     *)
LEMMA FrameWriteStep ==
    ASSUME PInv, transfer # "out", io.state # "pending", NEW outcome,
           outcome = "transferred" <=> io.state = "done",
           WriteReturns(outcome), io' = NoIo, transfer' = "out", UNCHANGED pipeEnds
    PROVE  PInv'
<1>1. /\ io \in Ios /\ rest \in Nat /\ rest > 0 /\ piece \in Writing /\ io.dir = "write"
      /\ Buffered = <<>> /\ taken \in Seq(Nat) /\ spoken \in Nat
      /\ overdue \in BOOLEAN /\ taken' = taken
  BY EndedIo DEF WriteReturns
<1>2. Follows(taken', 0) /\ Len(taken') = Len(taken) + Len(Buffered)
  BY <1>1 DEF PInv, Stream
<1>3. CASE outcome = "transferred"
  <2>1. Advance(piece) /\ spoken' = spoken + rest
    BY <1>3 DEF WriteReturns
  <2>2. Len(heard) + Len(toGame) = spoken'
    <3>1. io.bytes = <<>> /\ Len(heard) + Len(toGame) + Len(io.bytes) = spoken + rest
      BY <1>1, <1>3, EndedIo DEF PInv, AnswersSent
    <3>2. Len(heard) \in Nat /\ Len(toGame) \in Nat
      BY DEF PInv, PipeTypeOK
    <3> QED
      BY <2>1, <3>1, <3>2
  <2>3. /\ piece' \in Reading \cup Writing \cup {"ended"} /\ rest' \in Nat /\ overdue' \in BOOLEAN
        /\ piece' # "ended" => rest' > 0
    BY <1>1, <2>1, AdvanceSizes
  <2>4. spoken' \in Nat
    BY <1>1, <2>1
  <2> QED
    BY <1>1, <1>2, <2>2, <2>3, <2>4, ReturnedStep
<1>4. CASE outcome # "transferred"
  <2>1. piece' = "ended" /\ rest' = 0 /\ UNCHANGED <<overdue, spoken>>
    BY <1>4 DEF WriteReturns
  <2> QED
    BY <1>1, <1>2, <2>1, ReturnedStep
<1> QED
  BY <1>3, <1>4

(* The worker takes the outcome, in time or after it has cancelled the     *)
(* operation.                                                              *)
LEMMA ReturnStep ==
    ASSUME PInv, Completed \/ Drained
    PROVE  PInv'
<1>1. PICK outcome : /\ outcome = Outcome(io) \/ outcome = AtDeadline(io)
                     /\ Returns(outcome) /\ transfer # "out" /\ io.state # "pending"
  BY DEF Completed, Drained
<1>2. io.state \in {"done", "broken", "aborted"}
  BY <1>1, EndedIo
<1>3. /\ outcome \in {"transferred", "no peer", "interrupted", TimedOut}
      /\ outcome = "transferred" <=> io.state = "done"
  BY <1>1, <1>2 DEF Outcome, AtDeadline, TimedOut
<1> QED
  BY <1>1, <1>3, ReadStep, FrameWriteStep DEF Returns

-----------------------------------------------------------------------------
(* The game, the rest of the launcher, and time.                           *)
LEMMA GameStep ==
    ASSUME PInv, GameSends \/ GameHears
    PROVE  PInv'
<1>1. toWorker \in Seq(Nat) /\ toGame \in Seq(Nat) /\ heard \in Seq(Nat) /\ sentBytes \in Nat
  BY DEF PInv, PipeTypeOK
<1>2. CASE GameSends
  <2> DEFINE n == Len(taken) + Len(Buffered)
  <2>1. Follows(toWorker, n) /\ n \in Nat /\ n + Len(toWorker) = sentBytes
    BY DEF PInv, PipeTypeOK, Stream, Buffered
  <2>2. toWorker' = Append(toWorker, n + Len(toWorker) + 1) /\ sentBytes' = sentBytes + 1
        /\ UNCHANGED <<toGame, heard, gone, stopped, io, transfer, workerVars>>
    BY <1>2, <2>1 DEF GameSends
  <2>3. toWorker' \in Seq(Nat) /\ Len(toWorker') = Len(toWorker) + 1 /\ Follows(toWorker', n)
    BY <1>1, <2>1, <2>2, Appended
  <2>4. n' = n /\ Buffered' = Buffered
    BY <2>2 DEF Buffered, workerVars
  <2>5. PipeTypeOK'
    BY <1>1, <2>2, <2>3 DEF workerVars, PInv, PipeTypeOK
  <2>6. Stream'
    <3>1. sentBytes' = n' + Len(toWorker')
      <4>1. Len(toWorker) \in Nat
        BY <1>1
      <4> HIDE DEF n
      <4> QED
        BY <2>1, <2>2, <2>3, <2>4, <4>1
    <3> QED
      BY <2>2, <2>3, <2>4, <3>1 DEF workerVars, PInv, Stream
  <2>7. AnswersSent' /\ Operation'
    BY <2>2 DEF workerVars, PInv, AnswersSent, Operation
  <2> QED
    BY <2>5, <2>6, <2>7 DEF PInv
<1>3. CASE GameHears
  <2>1. Follows(heard, 0) /\ Follows(toGame, Len(heard)) /\ toGame # <<>> /\ Len(heard) \in Nat
    BY <1>1, <1>3 DEF GameHears, PInv, AnswersSent
  <2>2. heard' = Append(heard, Head(toGame)) /\ toGame' = Tail(toGame)
        /\ UNCHANGED <<sentBytes, toWorker, gone, stopped, io, transfer, workerVars>>
    BY <1>3 DEF GameHears
  <2>3. /\ Head(toGame) = 0 + Len(heard) + 1 /\ toGame' \in Seq(Nat) /\ Len(toGame') = Len(toGame) - 1
        /\ Len(toGame) > 0 /\ Follows(toGame', Len(heard) + 1)
    BY <1>1, <2>1, <2>2, FirstTaken
  <2>4. heard' \in Seq(Nat) /\ Len(heard') = Len(heard) + 1 /\ Follows(heard', 0)
    BY <1>1, <2>1, <2>2, <2>3, Appended
  <2>5. Len(heard') + Len(toGame') = Len(heard) + Len(toGame)
    BY <1>1, <2>3, <2>4
  <2>6. PipeTypeOK'
    BY <2>2, <2>3, <2>4 DEF workerVars, PInv, PipeTypeOK
  <2>7. Stream'
    BY <2>2 DEF workerVars, PInv, Stream, Buffered
  <2>8. AnswersSent'
    BY <2>2, <2>3, <2>4, <2>5 DEF workerVars, PInv, AnswersSent
  <2>9. Operation'
    BY <2>2 DEF workerVars, PInv, Operation
  <2> QED
    BY <2>6, <2>7, <2>8, <2>9 DEF PInv
<1> QED
  BY <1>2, <1>3

(* The game closes its end, the guard is dropped, or time passes.          *)
LEMMA AroundStep ==
    ASSUME PInv, GameCloses \/ StopServing \/ FiveSeconds \/ UNCHANGED pipeVars
    PROVE  PInv'
<1> USE DEF pipeEnds, workerVars
<1>1. UNCHANGED <<sentBytes, toWorker, toGame, heard, io, transfer, piece, rest, taken, spoken>>
      /\ gone' \in BOOLEAN /\ stopped' \in BOOLEAN /\ overdue' \in BOOLEAN
  BY DEF GameCloses, StopServing, FiveSeconds, pipeVars, PInv, PipeTypeOK
<1>2. PipeTypeOK'
  BY <1>1 DEF PInv, PipeTypeOK
<1>3. Stream' /\ AnswersSent' /\ Operation'
  BY <1>1 DEF PInv, Stream, AnswersSent, Operation, Buffered
<1> QED
  BY <1>2, <1>3 DEF PInv

(* Every step of the worker, the kernel and the game preserves the         *)
(* invariant.                                                              *)
LEMMA NextPInv == PInv /\ [PipeNext]_pipeVars => PInv'
  BY BeginStep, BeginWriteStep, KernelReadsStep, KernelWritesStep, KernelEndsStep, LateStep, ReturnStep,
      GameStep, AroundStep DEF PipeNext

(* The invariant of the pipe holds in every reachable state.               *)
THEOREM PipeInvariance == PipeSpec => []PInv
  BY InitPInv, NextPInv, PTL DEF PipeSpec

(* Whatever is late and whenever it is cancelled, no byte is lost, repeated *)
(* or out of order, and no operation outlives the buffer it writes to.      *)
THEOREM NothingEverLostOrRepeated == PipeSpec => []NothingLostOrRepeated
<1>1. ASSUME PInv PROVE NothingLostOrRepeated
  <2>1. /\ taken \in Seq(Nat) /\ Buffered \in Seq(Nat) /\ toWorker \in Seq(Nat)
        /\ heard \in Seq(Nat) /\ toGame \in Seq(Nat)
    BY <1>1 DEF PInv, PipeTypeOK, Buffered
  <2>2. taken \o Buffered \o toWorker = UpTo(sentBytes)
    <3>1. /\ Follows(taken, 0) /\ Follows(Buffered, 0 + Len(taken))
          /\ Follows(toWorker, 0 + (Len(taken) + Len(Buffered)))
          /\ Len(taken) + Len(Buffered) + Len(toWorker) = sentBytes
      BY <1>1, <2>1 DEF PInv, Stream
    <3> DEFINE s == taken \o Buffered
    <3>2. s \in Seq(Nat) /\ Len(s) = Len(taken) + Len(Buffered) /\ Follows(s, 0)
      BY <2>1, <3>1, Joined
    <3> HIDE DEF s
    <3>3. s \o toWorker \in Seq(Nat) /\ Len(s \o toWorker) = sentBytes /\ Follows(s \o toWorker, 0)
      <4>1. Follows(toWorker, 0 + Len(s))
        BY <3>1, <3>2
      <4>2. Len(s) + Len(toWorker) = sentBytes
        BY <3>1, <3>2
      <4> QED
        BY <2>1, <3>2, <4>1, <4>2, Joined
    <3>4. s \o toWorker = UpTo(sentBytes)
      BY <3>3, Counted
    <3> QED
      BY <3>4 DEF s
  <2>3. heard \o toGame = UpTo(Len(heard) + Len(toGame))
    <3>1. Follows(heard, 0) /\ Follows(toGame, 0 + Len(heard))
      BY <1>1, <2>1 DEF PInv, AnswersSent
    <3>2. heard \o toGame \in Seq(Nat) /\ Len(heard \o toGame) = Len(heard) + Len(toGame)
          /\ Follows(heard \o toGame, 0)
      BY <2>1, <3>1, Joined
    <3> QED
      BY <3>2, Counted
  <2>4. transfer = "out" <=> io = NoIo
    BY <1>1 DEF PInv, Operation, NoIo
  <2>5. piece # "ended" /\ transfer = "out" => Len(heard) + Len(toGame) = spoken
    BY <1>1 DEF PInv, AnswersSent, Operation, NoIo
  <2> QED
    BY <2>2, <2>3, <2>4, <2>5 DEF NothingLostOrRepeated
<1> QED
  BY <1>1, PipeInvariance, PTL
===============================================================================
