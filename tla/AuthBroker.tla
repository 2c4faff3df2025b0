----------------------------- MODULE AuthBroker -----------------------------
(***************************************************************************)
(* The authentication broker of src-tauri/src/auth/broker: the channel to  *)
(* one game, the worker thread that serves it, the chat keys it keeps for  *)
(* the game, and the account lease under which it answers. The game may    *)
(* send anything.                                                          *)
(*                                                                         *)
(* The lease and the flag `active' are read by the worker and cleared by   *)
(* other threads at any moment: each place where the worker looks at them  *)
(* is an action.                                                           *)
(***************************************************************************)
EXTENDS Integers, Sequences, FiniteSets

CONSTANTS
    Accounts,       \* Microsoft accounts
    Owner,          \* the account the game was launched with
    Network,        \* the game has the network permission
    Sessions,       \* chat sessions
    MaxKeys,        \* MAX_KEYS
    MaxSessions,    \* MAX_SESSIONS
    MaxRequests,    \* requests in a window (16)
    MaxId,          \* bound on request ids
    MaxIndex,       \* bound on message indexes
    MaxIssued       \* bound on keys issued

ASSUME BrokerAssumption ==
    /\ Owner \in Accounts
    /\ Network \in BOOLEAN
    /\ Sessions # {}
    /\ {MaxKeys, MaxSessions, MaxRequests, MaxId, MaxIndex, MaxIssued} \subseteq Nat \ {0}

VARIABLES
    active,     \* BrokerGuard has not been dropped
    valid,      \* the lease's generation is the present one
    signedIn,   \* the account whose session the source hands out
    previous,   \* previous_id
    greeted,    \* hello has been answered
    requests,   \* requests counted in the current window
    keys,       \* ChatKeys.keys, by id
    issued,     \* number of keys issued; their random ids are 1, 2, ...
    worker,     \* the worker thread
    answered,   \* history: the last id answered with a result
    signed,     \* history: per key id and session, the indexes signed
    caught      \* history: revoked while the worker was at a request

lease   == <<active, valid, signedIn>>
channel == <<previous, greeted, requests>>
chat    == <<keys, issued, signed>>
vars    == <<lease, channel, chat, worker, answered, caught>>

-----------------------------------------------------------------------------
(* A chat key: how old it is, and the last index signed in each session    *)
(* (BTreeMap without the sessions that are Unused). The list of keys is in *)
(* the order of their ids.                                                 *)
Unused  == -1
KeyIds  == 1 .. MaxIssued
Indexes == 0 .. MaxIndex    \* of a message that is well-formed, recent and the account's
Keys    == [age : {"fresh", "stale", "expired"}, used : [Sessions -> Indexes \cup {Unused}]]
NoKeys  == [k \in {} |-> "none"]

SessionsOf(key) == {s \in Sessions : key.used[s] # Unused}
Unexpired(ks)   == [k \in {k \in DOMAIN ks : ks[k].age # "expired"} |-> ks[k]]

(* What the game asks for: a greeting, something the services know (join,  *)
(* properties, block list), a certificate, or a signature under a key.     *)
Plain(c) == [cmd |-> c, key |-> 1, session |-> CHOOSE s \in Sessions : TRUE, index |-> 0]
Asks == {Plain(c) : c \in {"hello", "query", "certificate"}}
            \cup [cmd : {"sign"}, key : KeyIds, session : Sessions, index : Indexes]

Resting ==
    [pc |-> "reading", id |-> 0, ask |-> Plain("hello"), account |-> Owner, result |-> "error"]

Init ==
    /\ active = TRUE
    /\ valid = TRUE
    /\ signedIn = Owner
    /\ previous = 0
    /\ greeted = FALSE
    /\ requests = 0
    /\ keys = NoKeys
    /\ issued = 0
    /\ worker = Resting
    /\ answered = 0
    /\ signed = [p \in KeyIds \X Sessions |-> <<>>]
    /\ caught = FALSE

Live == active /\ valid

To(pc) == worker' = [worker EXCEPT !.pc = pc]

(* What was asked and with which session is forgotten with the result.     *)
With(pc, id, result) == [Resting EXCEPT !.pc = pc, !.id = id, !.result = result]
Yields(result)  == worker' = With("executed", worker.id, result)
Answers(result) == worker' = With("answering", worker.id, result)

(* execute finds the lease revoked: the keys go at once.                   *)
Revoked ==
    /\ ~valid
    /\ keys' = NoKeys
    /\ Answers("revoked")
    /\ UNCHANGED <<lease, channel, issued, signed, answered, caught>>

-----------------------------------------------------------------------------
(* serve: reading.                                                         *)

(* Faulty variant: an id that is not lower is taken for a new one.         *)
RefusedBelow(id) == id < previous

Refused(id) == id <= previous

(* A request is read and judged. The first in a second starts a new window *)
(* and is counted in it (the count stops at the first one too many).       *)
Receive(id, ask) ==
    /\ worker.pc = "reading"
    /\ \E n \in {0, requests} :
          LET count == IF n > MaxRequests THEN n ELSE n + 1
              goes == ~Refused(id) /\ Live /\ count <= MaxRequests
          IN
          /\ requests' = count
          /\ greeted' = (greeted \/ (goes /\ ask.cmd = "hello"))
          /\ worker' =
                IF goes /\ ask.cmd # "hello" /\ greeted /\ Network
                THEN [Resting EXCEPT !.pc = "executing", !.id = id, !.ask = ask]
                ELSE With("answering", id, IF goes /\ ask.cmd = "hello" THEN "ok" ELSE "error")
    /\ previous' = IF id > previous THEN id ELSE previous
    /\ UNCHANGED <<lease, chat, answered, caught>>

(* The worker ends and with it the keys.                                   *)
Ends ==
    /\ To("ended")
    /\ keys' = NoKeys
    /\ UNCHANGED <<lease, channel, issued, signed, answered, caught>>

(* Faulty variant: a worker that waits looks at the guard only.            *)
ReadStopsOnDrop ==
    /\ worker.pc = "reading"
    /\ ~active
    /\ Ends

(* Every 250 ms a worker that waits looks whether it still may.            *)
ReadStops ==
    /\ worker.pc = "reading"
    /\ ~Live
    /\ Ends

(* The game has closed the channel, sent something that is no request, or  *)
(* not sent the rest of one in time.                                       *)
ReadFails == worker.pc = "reading" /\ Ends

-----------------------------------------------------------------------------
(* OfficialOperations::execute.                                            *)

Execute ==
    /\ worker.pc = "executing"
    /\ \/ Revoked
       \/ valid /\ To("asking") /\ UNCHANGED <<lease, channel, chat, answered, caught>>

(* The source may fail or find the lease revoked; or it takes its time and *)
(* has a session.                                                          *)
AskSource ==
    /\ worker.pc = "asking"
    /\ \/ Answers("error")
       \/ worker' = [worker EXCEPT !.pc = "checking", !.account = signedIn]
    /\ UNCHANGED <<lease, channel, chat, answered, caught>>

(* Faulty variant: whatever session the source has will do.                *)
CheckSessionTrusting ==
    /\ worker.pc = "checking"
    /\ To("working")
    /\ UNCHANGED <<lease, channel, chat, answered, caught>>

(* The lease refuses another account's session, and any after a revocation;*)
(* execute looks once more, and then drops the keys too.                   *)
CheckSession ==
    /\ worker.pc = "checking"
    /\ \/ /\ ~valid \/ worker.account # Owner
          /\ Answers("revoked")
          /\ UNCHANGED <<lease, channel, chat, answered, caught>>
       \/ Revoked
       \/ /\ valid
          /\ worker.account = Owner
          /\ To("working")
          /\ UNCHANGED <<lease, channel, chat, answered, caught>>

Working(cmd) == worker.pc = "working" /\ worker.ask.cmd = cmd

(* What the game is given of an answer: nothing of one with another        *)
(* status, too large, or without a restriction that it has to name.        *)
Sanitized == {"ok", "error"}

(* An error of the connection is returned at once.                         *)
Query ==
    /\ Working("query")
    /\ (\E r \in Sanitized : Yields(r)) \/ Answers("error")
    /\ UNCHANGED <<lease, channel, chat, answered, caught>>

(* ChatKeys::cached: the newest key, unless it is to be refreshed.         *)
Current(ks) == {k \in DOMAIN ks : ks[k].age = "fresh" /\ \A h \in DOMAIN ks : h <= k}

(* A certificate is in the cache, or requested.                            *)
Certificate ==
    /\ Working("certificate")
    /\ keys' = Unexpired(keys)
    /\ IF Current(keys') # {} THEN Yields("ok") ELSE To("fetching")
    /\ UNCHANGED <<lease, channel, issued, signed, answered, caught>>

NewKey == [age |-> "fresh", used |-> [s \in Sessions |-> Unused]]

(* ChatKeys::install. A new key is kept at least a minute unless it        *)
(* expires before, so that it starts out fresh.                            *)
InstallKey ==
    /\ worker.pc = "fetching"
    /\ \/ /\ Cardinality(DOMAIN Unexpired(keys)) < MaxKeys
          /\ issued < MaxIssued
          /\ issued' = issued + 1
          /\ keys' = [k \in DOMAIN Unexpired(keys) \cup {issued'} |->
                        IF k = issued' THEN NewKey ELSE keys[k]]
          /\ Yields("ok")
       \/ keys' = Unexpired(keys) /\ Yields("error") /\ UNCHANGED issued
       \/ Answers("error") /\ UNCHANGED <<keys, issued>>
    /\ UNCHANGED <<lease, channel, signed, answered, caught>>

(* Faulty variant: an index may be signed a second time.                   *)
MaySignAgain(key, s, i) ==
    IF key.used[s] = Unused
    THEN i = 0 /\ Cardinality(SessionsOf(key)) < MaxSessions
    ELSE i >= key.used[s]

(* A session starts at index 0 and goes up.                                *)
MaySign(key, s, i) ==
    IF key.used[s] = Unused
    THEN i = 0 /\ Cardinality(SessionsOf(key)) < MaxSessions
    ELSE i > key.used[s]

(* ChatKeys::sign.                                                         *)
Sign ==
    LET ask == worker.ask IN
    /\ Working("sign")
    /\ \/ /\ ask.key \in DOMAIN Unexpired(keys)
          /\ MaySign(keys[ask.key], ask.session, ask.index)
          /\ keys' = [keys EXCEPT ![ask.key].used[ask.session] = ask.index]
          /\ signed' = [signed EXCEPT ![<<ask.key, ask.session>>] = Append(@, ask.index)]
          /\ Yields("ok")
       \/ UNCHANGED <<keys, signed>> /\ Yields("error")
    /\ UNCHANGED <<lease, channel, issued, answered, caught>>

(* The end of execute.                                                     *)
Executed ==
    /\ worker.pc = "executed"
    /\ \/ Revoked
       \/ valid /\ To("answering") /\ UNCHANGED <<lease, channel, chat, answered, caught>>

-----------------------------------------------------------------------------
(* serve: the answer.                                                      *)

(* Faulty variant: the result is sent as it is.                            *)
SettleUnchecked ==
    /\ worker.pc = "answering"
    /\ To("writing")
    /\ UNCHANGED <<lease, channel, chat, answered, caught>>

(* The last look at the lease. A result that is too large becomes an error.*)
Settle ==
    /\ worker.pc = "answering"
    /\ \/ /\ Live
          /\ \E r \in {worker.result, "error"} :
                worker' = [worker EXCEPT !.pc = "writing", !.result = r]
       \/ ~Live /\ worker' = [worker EXCEPT !.pc = "leaving", !.result = "revoked"]
    /\ UNCHANGED <<lease, channel, chat, answered, caught>>

Write ==
    /\ worker.pc = "writing"
    /\ worker' = Resting
    /\ answered' = IF worker.result = "ok" THEN worker.id ELSE answered
    /\ caught' = FALSE
    /\ UNCHANGED <<lease, channel, chat>>

(* The game does not read, or the answer was the last one.                 *)
WriteEnds == worker.pc \in {"writing", "leaving"} /\ Ends

-----------------------------------------------------------------------------
(* The rest of the launcher, and time.                                     *)

AtRequest == worker.pc \notin {"reading", "writing", "leaving", "ended"}

(* Sign-out or another account: the generation goes up (see AuthSession).  *)
Revoke ==
    /\ valid
    /\ valid' = FALSE
    /\ caught' = (caught \/ AtRequest)
    /\ UNCHANGED <<active, signedIn, channel, chat, worker, answered>>

(* Another account's session is handed out only after that.                *)
SwitchAccount(a) ==
    /\ ~valid
    /\ signedIn' = a
    /\ UNCHANGED <<active, valid, channel, chat, worker, answered, caught>>

(* The game's process handle is dropped, and its BrokerGuard with it.      *)
DropGuard ==
    /\ active
    /\ active' = FALSE
    /\ caught' = (caught \/ AtRequest)
    /\ UNCHANGED <<valid, signedIn, channel, chat, worker, answered>>

Age(k) ==
    /\ k \in DOMAIN keys
    /\ \/ keys[k].age = "fresh" /\ keys' = [keys EXCEPT ![k].age = "stale"]
       \/ keys[k].age # "expired" /\ keys' = [keys EXCEPT ![k].age = "expired"]
    /\ UNCHANGED <<lease, channel, issued, signed, worker, answered, caught>>

-----------------------------------------------------------------------------
Work ==
    \/ ReadStops
    \/ Execute \/ AskSource \/ CheckSession \/ Query \/ Certificate \/ InstallKey \/ Sign \/ Executed
    \/ Settle \/ Write \/ WriteEnds

Game == ReadFails \/ \E id \in 0 .. MaxId, ask \in Asks : Receive(id, ask)

Others ==
    \/ Revoke \/ DropGuard
    \/ \E a \in Accounts : SwitchAccount(a)
    \/ \E k \in KeyIds : Age(k)

Next == Work \/ Game \/ Others

(* The worker thread goes on: reads return after 250 ms, writes after 3 s, *)
(* requests to the services after 30 s, and the source when the credential *)
(* store has answered. The game need not do anything.                      *)
Spec == Init /\ [][Next]_vars /\ WF_vars(Work)

-----------------------------------------------------------------------------
(* Every variable has its type, and the number of keys and of sessions of  *)
(* a key is bounded.                                                       *)
TypeOK ==
    /\ active \in BOOLEAN /\ valid \in BOOLEAN /\ greeted \in BOOLEAN /\ caught \in BOOLEAN
    /\ signedIn \in Accounts
    /\ previous \in 0 .. MaxId
    /\ requests \in 0 .. MaxRequests + 1
    /\ DOMAIN keys \subseteq KeyIds /\ Cardinality(DOMAIN keys) <= MaxKeys
    /\ \A k \in DOMAIN keys : keys[k] \in Keys /\ Cardinality(SessionsOf(keys[k])) <= MaxSessions
    /\ issued \in 0 .. MaxIssued
    /\ worker \in [pc : {"reading", "executing", "asking", "checking", "working", "fetching", "executed",
                          "answering", "writing", "leaving", "ended"},
                    id : 0 .. MaxId, ask : Asks, account : Accounts, result : {"ok", "error", "revoked"}]
    /\ answered \in 0 .. previous
    /\ signed \in [KeyIds \X Sessions -> Seq(Indexes)]

(* A request in flight when the lease is revoked or the game's handle is   *)
(* dropped is never answered with its result, wherever the worker is then  *)
(* (the comment in BrokerGuard::drop).                                     *)
NoLateResult == caught /\ worker.pc = "writing" => worker.result # "ok"

(* No service is asked and nothing signed for the game with the session of *)
(* another account, although the source hands out whatever account is      *)
(* signed in when the worker's turn has come.                              *)
OwnAccountOnly == worker.pc \in {"working", "fetching"} => worker.account = Owner

(* An id is answered with a result at most once, and none that is lower    *)
(* than one answered before: a replayed request is not executed again,     *)
(* whatever was refused in between.                                        *)
AnsweredOnce == worker.pc = "writing" /\ worker.result = "ok" => worker.id > answered

(* Under a key and in a session no index is signed twice or after a later  *)
(* one, over key renewals and expiries and however requests fail.          *)
IndexesIncrease ==
    \A k \in KeyIds, s \in Sessions :
        \A m, n \in DOMAIN signed[<<k, s>>] : m < n => signed[<<k, s>>][m] < signed[<<k, s>>][n]

(* After a revocation the keys go, even when the game never sends another  *)
(* request (the comment in read_exact_until).                              *)
KeysDropped == ~Live ~> DOMAIN keys = {} /\ worker.pc = "ended"
=============================================================================
