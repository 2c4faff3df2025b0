----------------------------- MODULE AuthSession -----------------------------
(***************************************************************************)
(* The Microsoft account of src-tauri/src/commands/auth.rs: sign-in by     *)
(* device code, the refresh token in the operating system's store, the     *)
(* cached Minecraft session, sign-out, and the account leases the games    *)
(* hold.                                                                   *)
(*                                                                         *)
(* One FIFO tokio mutex (credential_operation) serialises the commands. An *)
(* await under it is a point where the other callers move, but they see    *)
(* only what is not behind the mutex: the generation and the token store.  *)
(***************************************************************************)
EXTENDS Naturals, Sequences

CONSTANTS
    Callers,        \* slots for concurrent callers (bound)
    Accounts,       \* Microsoft accounts
    None,           \* no account
    MaxGeneration,  \* bound on the generation
    MaxChallenges   \* bound on sign-ins begun

ASSUME AuthAssumption ==
    /\ None \notin Accounts
    /\ MaxGeneration \in Nat
    /\ MaxChallenges \in Nat

VARIABLES
    generation, \* MicrosoftAuthState.generation
    token,      \* the account whose refresh token the store holds, or None
    session,    \* the account of the cached Minecraft session, or None
    pending,    \* the challenge waiting for the user, or 0
    issued,     \* challenges issued so far; they are numbered 1, 2, ...
    queue,      \* callers at credential_operation; the first one holds it
    caller,     \* the callers' progress
    leases,     \* AccountLeases in the hands of running games
    signedOut   \* history: a sign-out has completed and no sign-in since

slots == <<session, pending>>
vars  == <<generation, token, slots, issued, queue, caller, leases, signedOut>>

-----------------------------------------------------------------------------
(* Callers of acquire_minecraft_session: refresh_minecraft_account, a      *)
(* launch, and a lease's current().                                        *)
Acquirers == {"profile", "launch", "lease"}
Ops == Acquirers \cup {"begin", "poll", "signout"}

(* A caller: where it stands, its command, the challenge it polls, the     *)
(* account it handles, and the generation a launch has read.               *)
PCs == {"idle", "checked", "called", "queued", "polling", "saving", "saved",
        "deleting", "refreshing", "rotating", "authenticating", "acquired"}

Idle == [pc |-> "idle", op |-> "profile", sid |-> 0, acct |-> None, gen |-> 0]

Valid(l) == l.gen = generation

Init ==
    /\ generation = 0
    /\ token \in Accounts \cup {None}
    /\ session = None
    /\ pending = 0
    /\ issued = 0
    /\ queue = <<>>
    /\ caller = [c \in Callers |-> Idle]
    /\ leases = {}
    /\ signedOut = FALSE

-----------------------------------------------------------------------------
(* The commands up to the mutex.                                           *)

Started(op, sid, pc) == [Idle EXCEPT !.op = op, !.sid = sid, !.pc = pc]

Begin(c) ==
    /\ caller[c].pc = "idle"
    /\ \/ \E op \in {"begin", "profile"} :
              caller' = [caller EXCEPT ![c] = Started(op, 0, "called")]
       \/ \E s \in 1 .. issued :
              caller' = [caller EXCEPT ![c] = Started("poll", s, "called")]
    /\ UNCHANGED <<generation, token, slots, issued, queue, leases, signedOut>>

(* sign_out_microsoft revokes the leases before it waits for the mutex.    *)
SignOut(c) ==
    /\ caller[c].pc = "idle"
    /\ generation < MaxGeneration
    /\ generation' = generation + 1
    /\ caller' = [caller EXCEPT ![c] = Started("signout", 0, "called")]
    /\ UNCHANGED <<token, slots, issued, queue, leases, signedOut>>

(* A launch looks into the store without the mutex, and reads the          *)
(* generation before it asks for a session.                                *)
CheckAuthorization(c) ==
    /\ caller[c].pc = "idle"
    /\ token # None
    /\ caller' = [caller EXCEPT ![c] = Started("launch", 0, "checked")]
    /\ UNCHANGED <<generation, token, slots, issued, queue, leases, signedOut>>

ReadGeneration(c) ==
    /\ caller[c].pc = "checked"
    /\ caller' = [caller EXCEPT ![c].pc = "called", ![c].gen = generation]
    /\ UNCHANGED <<generation, token, slots, issued, queue, leases, signedOut>>

(* AccountLease.current refuses at once when the lease is revoked.         *)
UseLease(c) ==
    /\ caller[c].pc = "idle"
    /\ \E l \in leases : Valid(l)
    /\ caller' = [caller EXCEPT ![c] = Started("lease", 0, "called")]
    /\ UNCHANGED <<generation, token, slots, issued, queue, leases, signedOut>>

Enqueue(c) ==
    /\ caller[c].pc = "called"
    /\ queue' = Append(queue, c)
    /\ caller' = [caller EXCEPT ![c].pc = "queued"]
    /\ UNCHANGED <<generation, token, slots, issued, leases, signedOut>>

(* Faulty variant: there is no mutex.                                      *)
GrantedToAll(c) == TRUE

Granted(c) == queue # <<>> /\ Head(queue) = c

(* The caller at the mutex, standing at pc with one of the commands ops.   *)
At(c, pc, ops) == Granted(c) /\ caller[c].pc = pc /\ caller[c].op \in ops

To(c, pc) == caller' = [caller EXCEPT ![c].pc = pc] /\ UNCHANGED queue

(* The command returns, and drops the mutex.                               *)
Return(c) == caller' = [caller EXCEPT ![c] = Idle] /\ queue' = Tail(queue)

-----------------------------------------------------------------------------
(* The operating system's store and the services.                          *)

(* Each access may fail, by the user's refusal or the store's, and always  *)
(* does on a system without a store. Nothing is changed then.              *)
StoreFails(c) == Return(c) /\ UNCHANGED token

SaveRefreshToken(a) == token' = a

(* A store without a token is not a failure, but has nothing to load.      *)
LoadRefreshToken == token # None

(* Deleting what is not there succeeds.                                    *)
DeleteRefreshToken == token' = None

(* What the token service says to a poll.                                  *)
Polled == {"pending", "slow down", "authorized", "request failed", "refused"}

(* After these the challenge goes back.                                    *)
Retried == {"pending", "slow down", "request failed"}

(* A refresh answers with a new token, with none (the old one stays good), *)
(* or fails: the token saved is of the same account.                       *)
Refreshed(a) == {a, None}

(* Xbox, its security token service, the Minecraft login, the entitlements *)
(* and the profile are asked in turn, each with what the one before has    *)
(* answered; the first that fails or answers amiss ends it.                *)
Authenticated(a) == {a, None}

-----------------------------------------------------------------------------
(* Sign-in.                                                                *)

(* A new challenge replaces the old one. The request may fail.             *)
BeginChallenge(c) ==
    /\ At(c, "queued", {"begin"})
    /\ \/ /\ issued < MaxChallenges
          /\ issued' = issued + 1
          /\ pending' = issued + 1
       \/ UNCHANGED <<issued, pending>>
    /\ Return(c)
    /\ UNCHANGED <<generation, token, session, leases, signedOut>>

(* Without a challenge, with another one than the caller's, or too early   *)
(* the slot is left as it was; an expired challenge is dropped.            *)
PollTake(c) ==
    /\ At(c, "queued", {"poll"})
    /\ \/ Return(c) /\ UNCHANGED pending
       \/ pending = caller[c].sid /\ pending' = 0 /\ (Return(c) \/ To(c, "polling"))
    /\ UNCHANGED <<generation, token, session, issued, leases, signedOut>>

Restored(sid) == IF pending = 0 THEN sid ELSE pending

PollAgain(c) ==
    /\ At(c, "polling", {"poll"})
    /\ \E said \in Polled \ {"authorized"} :
          pending' = IF said \in Retried THEN Restored(caller[c].sid) ELSE pending
    /\ Return(c)
    /\ UNCHANGED <<generation, token, session, issued, leases, signedOut>>

PollAuthorized(c, a) ==
    /\ At(c, "polling", {"poll"})
    /\ generation < MaxGeneration
    /\ generation' = generation + 1
    /\ caller' = [caller EXCEPT ![c].pc = "saving", ![c].acct = a]
    /\ UNCHANGED <<token, slots, issued, queue, leases, signedOut>>

(* When the store refuses the token, the cached session stays as well.     *)
PollSave(c) ==
    /\ At(c, "saving", {"poll"})
    /\ \/ SaveRefreshToken(caller[c].acct) /\ signedOut' = FALSE /\ To(c, "saved")
       \/ StoreFails(c) /\ UNCHANGED signedOut
    /\ UNCHANGED <<generation, slots, issued, leases>>

(* Faulty variant: the session of the account before is kept.              *)
PollClearKeeping(c) ==
    /\ At(c, "saved", {"poll"})
    /\ Return(c)
    /\ UNCHANGED <<generation, token, slots, issued, leases, signedOut>>

PollClear(c) ==
    /\ At(c, "saved", {"poll"})
    /\ session' = None
    /\ Return(c)
    /\ UNCHANGED <<generation, token, pending, issued, leases, signedOut>>

-----------------------------------------------------------------------------
(* Sign-out, behind the mutex.                                             *)

(* Faulty variant: sign-out forgets the cached session.                    *)
SignOutClearKeeping(c) ==
    /\ At(c, "queued", {"signout"})
    /\ pending' = 0
    /\ To(c, "deleting")
    /\ UNCHANGED <<generation, token, session, issued, leases, signedOut>>

SignOutClear(c) ==
    /\ At(c, "queued", {"signout"})
    /\ pending' = 0
    /\ session' = None
    /\ To(c, "deleting")
    /\ UNCHANGED <<generation, token, issued, leases, signedOut>>

SignOutDelete(c) ==
    /\ At(c, "deleting", {"signout"})
    /\ \/ DeleteRefreshToken /\ signedOut' = TRUE /\ Return(c)
       \/ StoreFails(c) /\ UNCHANGED signedOut
    /\ UNCHANGED <<generation, slots, issued, leases>>

-----------------------------------------------------------------------------
(* acquire_minecraft_session.                                              *)

(* The mutex is dropped, the session is in the caller's hands.             *)
Acquired(c, a) ==
    /\ caller' = [caller EXCEPT ![c].pc = "acquired", ![c].acct = a]
    /\ queue' = Tail(queue)

(* A cached session is returned while it is fresh.                         *)
AcquireCached(c) ==
    /\ At(c, "queued", Acquirers)
    /\ session # None
    /\ Acquired(c, session)
    /\ UNCHANGED <<generation, token, slots, issued, leases, signedOut>>

(* Otherwise it is dropped and the refresh token loaded.                   *)
AcquireLoad(c) ==
    /\ At(c, "queued", Acquirers)
    /\ session' = None
    /\ \/ Return(c)
       \/ /\ LoadRefreshToken
          /\ caller' = [caller EXCEPT ![c].pc = "refreshing", ![c].acct = token]
          /\ UNCHANGED queue
    /\ UNCHANGED <<generation, token, pending, issued, leases, signedOut>>

AcquireRefresh(c) ==
    /\ At(c, "refreshing", Acquirers)
    /\ \E a \in Refreshed(caller[c].acct) : IF a = None THEN Return(c) ELSE To(c, "rotating")
    /\ UNCHANGED <<generation, token, slots, issued, leases, signedOut>>

(* The rotated token is saved before the session is asked for.             *)
AcquireSave(c) ==
    /\ At(c, "rotating", Acquirers)
    /\ \/ SaveRefreshToken(caller[c].acct) /\ To(c, "authenticating")
       \/ StoreFails(c)
    /\ UNCHANGED <<generation, slots, issued, leases, signedOut>>

AcquireStore(c) ==
    /\ At(c, "authenticating", Acquirers)
    /\ \E a \in Authenticated(caller[c].acct) :
          IF a = None THEN Return(c) /\ UNCHANGED session
          ELSE session' = a /\ Acquired(c, a)
    /\ UNCHANGED <<generation, token, pending, issued, leases, signedOut>>

(* Faulty variant: the launch reads the generation when it has a session.  *)
LeaseOfNow(c) == [gen |-> generation, acct |-> caller[c].acct]

LeaseOf(c) == [gen |-> caller[c].gen, acct |-> caller[c].acct]

(* broker_source: the launch hands a lease to the game. The other callers  *)
(* use the session and return.                                             *)
Finish(c) ==
    /\ caller[c].pc = "acquired"
    /\ leases' = IF caller[c].op = "launch" THEN leases \cup {LeaseOf(c)} ELSE leases
    /\ caller' = [caller EXCEPT ![c] = Idle]
    /\ UNCHANGED <<generation, token, slots, issued, queue, signedOut>>

GameEnds ==
    /\ \E l \in leases : leases' = leases \ {l}
    /\ UNCHANGED <<generation, token, slots, issued, queue, caller, signedOut>>

(* The launcher ends at any moment and is started again; only the token    *)
(* store survives. A game may outlive it, the channel to it does not.      *)
Restart ==
    /\ generation' = 0
    /\ session' = None
    /\ pending' = 0
    /\ issued' = 0
    /\ queue' = <<>>
    /\ caller' = [c \in Callers |-> Idle]
    /\ leases' = {}
    /\ UNCHANGED <<token, signedOut>>

-----------------------------------------------------------------------------
Request(c) ==
    Begin(c) \/ SignOut(c) \/ CheckAuthorization(c) \/ ReadGeneration(c)
        \/ UseLease(c) \/ Enqueue(c)

SignIn(c) ==
    \/ BeginChallenge(c) \/ PollTake(c) \/ PollAgain(c)
    \/ \E a \in Accounts : PollAuthorized(c, a)
    \/ PollSave(c) \/ PollClear(c)

SigningOut(c) == SignOutClear(c) \/ SignOutDelete(c)

Acquire(c) ==
    AcquireCached(c) \/ AcquireLoad(c) \/ AcquireRefresh(c) \/ AcquireSave(c)
        \/ AcquireStore(c) \/ Finish(c)

Next ==
    \/ \E c \in Callers : Request(c) \/ SignIn(c) \/ SigningOut(c) \/ Acquire(c)
    \/ GameEnds \/ Restart

Spec == Init /\ [][Next]_vars

-----------------------------------------------------------------------------
(* Every variable has its type, and a caller that works on an account's    *)
(* credentials has an account.                                             *)
TypeOK ==
    /\ generation \in Nat
    /\ token \in Accounts \cup {None}
    /\ session \in Accounts \cup {None}
    /\ pending \in Nat
    /\ issued \in Nat
    /\ queue \in Seq(Callers)
    /\ caller \in [Callers -> [pc : PCs, op : Ops, sid : Nat,
                                acct : Accounts \cup {None}, gen : Nat]]
    /\ \A c \in Callers :
          caller[c].pc \in {"saving", "refreshing", "rotating", "authenticating", "acquired"} =>
              caller[c].acct # None
    /\ leases \subseteq [gen : Nat, acct : Accounts]
    /\ signedOut \in BOOLEAN

(* A lease that has not been revoked never stands for another account than *)
(* the one signed in, however launches, refreshes, sign-ins and sign-outs  *)
(* overlap: the generation a launch read before it had its session is      *)
(* outdated by any change of account in between.                           *)
LeaseNamesAccount ==
    \A l \in leases : Valid(l) => token \in {l.acct, None}

(* The cached session belongs to the account whose token is stored, except *)
(* while the sign-in that has just stored another one still holds the      *)
(* mutex: nobody is handed a session of the account before.                *)
SessionMatchesToken ==
    session \in {token, None} \/ \E c \in Callers : At(c, "saved", {"poll"})

(* After a completed sign-out neither the store nor the cache has anything *)
(* until the next sign-in: no refresh that was in flight writes its        *)
(* rotated token or its session back.                                      *)
SignedOutStaysOut == signedOut => token = None /\ session = None

(* A refresh replaces a token only by one of the same account: it can undo *)
(* neither a sign-out nor a change of account made since it loaded it.     *)
RefreshKeepsAccount ==
    [][\A c \in Callers :
          caller[c].pc = "rotating" /\ caller'[c].pc = "authenticating" =>
              token' = token]_vars

(* What auth/broker/service.rs requires of a lease: it rejects sign-out.   *)
(* After a completed sign-out no lease is valid.                           *)
SignOutRevokes == signedOut => \A l \in leases : ~Valid(l)
=============================================================================
