------------------------------- MODULE MCParts -------------------------------
(* The components that share no state with one another, for TLC.  The first *)
(* state chooses one component, which then takes all the steps; the others  *)
(* stay in one of their initial states.                                     *)
EXTENDS AuthSession, SandboxGrants, GameLaunch, CursorBroker, NarratorBroker,
        OutputLines, SyscallFilter, News, PipeTransfer, TLC

CONSTANTS saves, world

VARIABLE part

MCAreaOf == [item \in {world} |-> saves]

Symmetry == Permutations(Callers) \cup Permutations(Accounts)

Chosen(name, still) == part = name \/ still

PartsInit ==
    /\ part \in {"session", "grants", "launch", "cursor", "narrator", "lines", "filter", "news", "pipe"}
    /\ Init         /\ Chosen("session", token = None)
    /\ GrantInit    /\ Chosen("grants", platform = "linux" /\ exists = Objects /\ saved.protected = {}
                                        /\ saved.on = Free /\ own["instance"] = "none"
                                        /\ own[world] = "none")
    /\ LaunchInit   /\ Chosen("launch", launchOS = "linux" /\ request.mode = "demo" /\ request.savedDemo
                                        /\ request.brokered /\ request.account = "none" /\ request.known)
    /\ CursorInit   /\ Chosen("cursor", foreground /\ window = CHOOSE r \in Rects : TRUE)
    /\ NarratorInit
    /\ NewsInit     /\ Chosen("news", \A s \in Feeds : cacheOf[s] = Absent)
    /\ PipeInit
    /\ LinesInit    /\ Chosen("lines", output = <<>>)
    /\ FilterInit   /\ Chosen("filter", ~network /\ call.nr = {"read"} /\ call.arch = {"native"})

PartsNext ==
    /\ part' = part
    /\ \/ part = "session"  /\ Next         /\ UNCHANGED <<grantVars, launchVars, cursorVars, narratorVars, linesVars, filterVars, newsVars, pipeVars>>
       \/ part = "grants"   /\ GrantNext    /\ UNCHANGED <<vars, launchVars, cursorVars, narratorVars, linesVars, filterVars, newsVars, pipeVars>>
       \/ part = "launch"   /\ LaunchNext   /\ UNCHANGED <<vars, grantVars, cursorVars, narratorVars, linesVars, filterVars, newsVars, pipeVars>>
       \/ part = "cursor"   /\ CursorNext   /\ UNCHANGED <<vars, grantVars, launchVars, narratorVars, linesVars, filterVars, newsVars, pipeVars>>
       \/ part = "narrator" /\ NarratorNext /\ UNCHANGED <<vars, grantVars, launchVars, cursorVars, linesVars, filterVars, newsVars, pipeVars>>
       \/ part = "lines"    /\ LinesNext    /\ UNCHANGED <<vars, grantVars, launchVars, cursorVars, narratorVars, filterVars, newsVars, pipeVars>>
       \/ part = "filter"   /\ FilterNext   /\ UNCHANGED <<vars, grantVars, launchVars, cursorVars, narratorVars, linesVars, newsVars, pipeVars>>
       \/ part = "news"     /\ NewsNext     /\ UNCHANGED <<vars, grantVars, launchVars, cursorVars, narratorVars, linesVars, filterVars, pipeVars>>
       \/ part = "pipe"     /\ PipeNext     /\ UNCHANGED <<vars, grantVars, launchVars, cursorVars, narratorVars, linesVars, filterVars, newsVars>>

PartsSpec == PartsInit /\ [][PartsNext]_<<part, vars, grantVars, launchVars, cursorVars,
                                         narratorVars, linesVars, filterVars, newsVars, pipeVars>>
=============================================================================
