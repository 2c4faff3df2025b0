--------------------------- MODULE SyscallFilter ---------------------------
(* The system call filter of the Linux sandbox (platform/linux/seccomp.rs): *)
(* a straight-line program of loads, jumps and returns which the kernel     *)
(* interprets for every system call of the game.  A word the program loads  *)
(* is the set of the bits it tests: JEQ compares the word, JSET intersects. *)
EXTENDS Integers, Sequences, FiniteSets

CONSTANTS
    Denied,        \* system calls refused outright
    Ordinary       \* the others

ASSUME FilterAssumption ==
    /\ IsFiniteSet(Denied)
    /\ Denied \cap {"clone", "clone3", "socket", "socketpair", "ioctl"} = {}
    /\ "x32" \notin Denied \cup Ordinary

VARIABLES
    network,       \* the program was made for a game with network access
    call,          \* the system call the kernel asks about
    pc, accumulator,
    verdict

filterVars == <<network, call, pc, accumulator, verdict>>

Special == {"clone", "clone3", "socket", "socketpair", "ioctl"}
Namespaces == {"newuser", "newns", "newnet", "newpid", "newipc", "newuts", "newcgroup"}
Families == {"unix", "inet", "inet6", "packet"}
IoctlRequests == {"TIOCSTI", "TIOCLINUX", "TCGETS"}

Argument(name) == CASE name = "clone" -> SUBSET {"newuser", "newnet", "vm"}
                    [] name \in {"socket", "socketpair"} -> {{f} : f \in Families}
                    [] OTHER -> {{}}

Calls == UNION {[arch : {{"native"}, {"foreign"}}, nr : {{name}, {name, "x32"}},
                 arg0 : Argument(name),
                 arg1 : IF name = "ioctl" THEN {{r} : r \in IoctlRequests} ELSE {{}}]
                : name \in Special \cup Denied \cup Ordinary}

Name(c) == CHOOSE name \in Special \cup Denied \cup Ordinary : name \in c.nr

-----------------------------------------------------------------------------
(* The program.                                                             *)

Load(word) == [op |-> "load", word |-> word]
Jeq(jt, jf, value) == [op |-> "jump", jt |-> jt, jf |-> jf, value |-> {value}, all |-> TRUE]
Jset(jt, jf, bits) == [op |-> "jump", jt |-> jt, jf |-> jf, value |-> bits, all |-> FALSE]
Ret(answer) == [op |-> "ret", answer |-> answer]

\* Another architecture and the x32 calls of this one.
Entry == <<Load("arch"), Jeq(1, 0, "native"), Ret("kill"),
           Load("nr"), Jset(0, 1, {"x32"}), Ret("kill")>>

\* One refusal for each denied call, in any order.
Refused == CHOOSE s \in [1..Cardinality(Denied) -> Denied] :
              \A name \in Denied : \E i \in DOMAIN s : s[i] = name

Refusals ==
    [k \in 1 .. 2 * Cardinality(Denied) |->
        IF k % 2 = 1 THEN Jeq(0, 1, Refused[(k + 1) \div 2]) ELSE Ret("EPERM")]

Clones == <<Jeq(0, 1, "clone3"), Ret("ENOSYS"),
            Jeq(0, 3, "clone"), Load("arg0"), Jset(0, 1, Namespaces), Ret("EPERM"), Load("nr")>>

\* Faulty: the jump is as long as if the loop over the families began at one.
FamilyJumpShort(families, index) == Len(families) - index - 1

\* From the comparison with the family of this index, past the refusal.
FamilyJump(families, index) == Len(families) - index

Sockets(families, name) ==
    <<Jeq(0, Len(families) + 2, name), Load("arg0")>>
    \o [k \in 1 .. Len(families) |-> Jeq(FamilyJump(families, k - 1), 0, families[k])]
    \o <<Ret("EAFNOSUPPORT"), Load("nr")>>

Ioctls == <<Jeq(0, 5, "ioctl"), Load("arg1"), Jeq(0, 1, "TIOCSTI"), Ret("EPERM"),
            Jeq(0, 1, "TIOCLINUX"), Ret("EPERM"), Ret("allow")>>

\* Which families of sockets a game may use depends on its network access.
Program(families) ==
    Entry \o Refusals \o Clones
    \o Sockets(families, "socket") \o Sockets(families, "socketpair") \o Ioctls

Offline == Program(<<"unix">>)
Online == Program(<<"unix", "inet", "inet6">>)

-----------------------------------------------------------------------------
(* The kernel.                                                              *)

FilterInit ==
    /\ network \in BOOLEAN /\ call \in Calls
    /\ pc = 1 /\ accumulator = {} /\ verdict = "none"

Fetched == IF network THEN Online[pc] ELSE Offline[pc]

LoadWord ==
    /\ verdict = "none" /\ Fetched.op = "load"
    /\ accumulator' = call[Fetched.word]
    /\ pc' = pc + 1
    /\ UNCHANGED <<network, call, verdict>>

Jump ==
    /\ verdict = "none" /\ Fetched.op = "jump"
    /\ LET matched == IF Fetched.all THEN accumulator = Fetched.value
                      ELSE accumulator \cap Fetched.value # {}
       IN  pc' = pc + 1 + (IF matched THEN Fetched.jt ELSE Fetched.jf)
    /\ UNCHANGED <<network, call, accumulator, verdict>>

Answer ==
    /\ verdict = "none" /\ Fetched.op = "ret"
    /\ verdict' = Fetched.answer
    /\ UNCHANGED <<network, call, pc, accumulator>>

FilterNext == LoadWord \/ Jump \/ Answer

FilterSpec == FilterInit /\ [][FilterNext]_filterVars

-----------------------------------------------------------------------------
(* Properties.                                                              *)

\* What the sandbox means to answer.
Intended ==
    LET name == Name(call)
        allowed == {"unix"} \cup (IF network THEN {"inet", "inet6"} ELSE {})
    IN  IF call.arch # {"native"} \/ "x32" \in call.nr THEN "kill"
        ELSE CASE name = "clone3" -> "ENOSYS"
               [] name \in Denied -> "EPERM"
               [] name = "clone" /\ call.arg0 \cap Namespaces # {} -> "EPERM"
               [] name \in {"socket", "socketpair"} /\ call.arg0 \notin {{f} : f \in allowed} -> "EAFNOSUPPORT"
               [] name = "ioctl" /\ call.arg1 \in {{"TIOCSTI"}, {"TIOCLINUX"}} -> "EPERM"
               [] OTHER -> "allow"

\* The jumps lead the interpreter, from whatever call it is asked about, to the
\* answer meant for that call, and never past the end of the program.
AnswersAsIntended ==
    /\ pc \in 1 .. Len(IF network THEN Online ELSE Offline)
    /\ verdict # "none" => verdict = Intended
=============================================================================
