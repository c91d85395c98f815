-------------------------- MODULE PrEnvironments --------------------------
(***************************************************************************)
(* The environments a project has for pull requests (internal/dashboard/   *)
(* pr_environments.go, environments.go).  Every event of GitHub is handled *)
(* by itself, in writes that nothing holds together: the list of           *)
(* environments, the pull requests in the status, and the copies of what   *)
(* the base environment has.  A project also loses an environment when     *)
(* somebody removes it in the dashboard.                                   *)
(***************************************************************************)
EXTENDS Naturals, FiniteSets

CONSTANTS
    Repo, Number, \* repositories of the project, and numbers of their pull requests
    MaxOpen,      \* config.MaxOpen
    Pieces,       \* databases and services of the base environment
    Handler,      \* requests that are handled at once
    PrHappens     \* what else may happen, see PrIncidents

(* overlap: two requests about one pull request are handled at once; lag:  *)
(* the cache misses a copy that was made, or still shows one that is gone. *)
PrIncidents == {"overlap", "lag"}

ASSUME PrAssumption == MaxOpen \in Nat /\ Pieces \in Nat /\ IsFiniteSet(Handler) /\ PrHappens \subseteq PrIncidents

VARIABLES
    envs,      \* the environments of the project, but the base
    entries,   \* status.pullRequests: the environment of each
    clones,    \* the copies: the environment each is in
    dying,     \* the copies that were deleted, which their finalizers still hold
    skipped,   \* history: the copies that were still dying when they were last looked for
    handler,   \* what each request does
    outcome    \* how the last request about each pull request ended, if it did what it was for

prVars == <<envs, entries, clones, dying, skipped, handler, outcome>>

PullRequest == Repo \X Number
Nothing == <<>>
PlainName(p) == <<"pr", p[2]>>
LongName(p) == <<"pr", p[2], p[1]>>
EnvName == {PlainName(p) : p \in PullRequest} \cup {LongName(p) : p \in PullRequest}
Copy == Number \X (1 .. Pieces)
NoWork == [kind |-> "none", pr |-> Nothing, at |-> "idle", env |-> Nothing, piece |-> 0]

PrInit ==
    /\ envs = {} /\ entries = [p \in PullRequest |-> Nothing]
    /\ clones = [c \in Copy |-> Nothing] /\ dying = {} /\ skipped = {}
    /\ handler = [h \in Handler |-> NoWork] /\ outcome = [p \in PullRequest |-> "none"]

-----------------------------------------------------------------------------
(* What happens around it.                                                 *)

(* The controller of a copy that was deleted has taken down what it ran.   *)
CopyGoes(c) ==
    /\ c \in dying /\ dying' = dying \ {c} /\ clones' = [clones EXCEPT ![c] = Nothing]
    /\ UNCHANGED <<envs, entries, skipped, handler, outcome>>

(* An event, the button that closes, or the removal of an environment: a   *)
(* pull request is opened, pushed to, closed and opened again at any time. *)
RequestComes(h, p) ==
    /\ handler[h] = NoWork /\ \A g \in Handler : handler[g].pr # p \/ "overlap" \in PrHappens
    /\ \E k \in {"ensure", "close", "remove"} : handler' = [handler EXCEPT ![h] = [kind |-> k, pr |-> p, at |-> "read", env |-> Nothing, piece |-> 0]]
    /\ outcome' = [outcome EXCEPT ![p] = "none"] /\ UNCHANGED <<envs, entries, clones, dying, skipped>>

-----------------------------------------------------------------------------
MovesOn(h, at) == handler' = [handler EXCEPT ![h].at = at]
Ends(h, how) ==
    /\ handler' = [handler EXCEPT ![h] = NoWork]
    /\ outcome' = [outcome EXCEPT ![handler[h].pr] = how]

(* pullRequestEnvironmentName                                              *)
EnvironmentNameOf(p) ==
    IF \E q \in PullRequest : q[1] # p[1] /\ entries[q] = PlainName(p) THEN LongName(p) ELSE PlainName(p)

UnderLimit == Cardinality({p \in PullRequest : entries[p] # Nothing}) < MaxOpen

(* ensurePullRequestEnvironment, up to the first write.  The project may   *)
(* have the environments of pull requests switched off, no base for them,  *)
(* or nothing that builds this branch; past the limit, and where an        *)
(* environment has the name, nothing is made either.                       *)
ensurePullRequestEnvironment(h) ==
    LET p == handler[h].pr env == EnvironmentNameOf(p) IN
    /\ handler[h].kind = "ensure" /\ handler[h].at = "read"
    /\ \/ Ends(h, "none")
       \/ /\ entries[p] # Nothing /\ UNCHANGED outcome
          /\ handler' = [handler EXCEPT ![h].at = "clone", ![h].env = entries[p], ![h].piece = 1]
       \/ /\ entries[p] = Nothing /\ UnderLimit /\ env \notin envs /\ UNCHANGED outcome
          /\ handler' = [handler EXCEPT ![h].at = "list", ![h].env = env]
    /\ UNCHANGED <<envs, entries, clones, dying, skipped>>

(* createPullRequestEnvironment: the project, then its status.             *)
createPullRequestEnvironment(h) ==
    /\ handler[h].kind = "ensure"
    /\ \/ handler[h].at = "list" /\ envs' = envs \cup {handler[h].env} /\ MovesOn(h, "note") /\ UNCHANGED entries
       \/ /\ handler[h].at = "note" /\ UNCHANGED envs
          /\ handler' = [handler EXCEPT ![h].at = "clone", ![h].piece = 1]
          /\ entries' = [entries EXCEPT ![handler[h].pr] = IF @ = Nothing THEN handler[h].env ELSE @]
    /\ UNCHANGED <<clones, dying, skipped, outcome>>

(* cloneEnvironmentResources: one after the other, what is there is kept,  *)
(* though it be on its way out.                                            *)
cloneName(h) == <<handler[h].pr[2], handler[h].piece>>

AllCloned(h) == handler[h].piece > Pieces

cloneEnvironmentResources(h) ==
    /\ handler[h].kind = "ensure" /\ handler[h].at = "clone"
    /\ IF AllCloned(h) THEN Ends(h, "ensured") /\ UNCHANGED <<clones, skipped>>
       ELSE /\ handler' = [handler EXCEPT ![h].piece = @ + 1] /\ UNCHANGED outcome
            /\ \/ clones' = [c \in Copy |-> IF c = cloneName(h) /\ clones[c] = Nothing THEN handler[h].env ELSE clones[c]]
               \/ "lag" \in PrHappens /\ UNCHANGED clones
            /\ skipped' = (skipped \ {cloneName(h)}) \cup (dying \cap {cloneName(h)})
    /\ UNCHANGED <<envs, entries, dying>>

(* closePullRequestEnvironment; the dashboard's removal asks for the       *)
(* environment by its name.                                                *)

closePullRequestEnvironment(h) ==
    LET p == handler[h].pr IN
    /\ handler[h].kind \in {"close", "remove"} /\ handler[h].at = "read"
    /\ IF entries[p] # Nothing THEN handler' = [handler EXCEPT ![h].at = "unlist", ![h].env = entries[p]] /\ UNCHANGED outcome
       ELSE IF handler[h].kind = "remove" /\ PlainName(p) \in envs
       THEN handler' = [handler EXCEPT ![h].at = "unlist", ![h].env = PlainName(p)] /\ UNCHANGED outcome
       ELSE Ends(h, "none")
    /\ UNCHANGED <<envs, entries, clones, dying, skipped>>

(* removeEnvironment: the list first, then what the environment has; when  *)
(* it is not listed any more, what is left of it all the same.             *)

(* A mutant: the pull request is forgotten before its copies are gone.     *)
ForgetsAtOnce(h) ==
    /\ handler[h].at = "unlist" /\ envs' = envs \ {handler[h].env} /\ MovesOn(h, "sweep")
    /\ entries' = [entries EXCEPT ![handler[h].pr] = Nothing]
    /\ UNCHANGED <<clones, dying, skipped, outcome>>

removeEnvironment(h) ==
    /\ handler[h].at = "unlist" /\ envs' = envs \ {handler[h].env} /\ MovesOn(h, "sweep")
    /\ UNCHANGED <<entries, clones, dying, skipped, outcome>>

(* environmentObjects                                                      *)
CopiesIn(env) == {c \in Copy : clones[c] = env}

(* Each is deleted, and goes once its controller lets it.                  *)
deleteEnvironmentResources(h) ==
    /\ handler[h].at = "sweep"
    /\ \E found \in SUBSET CopiesIn(handler[h].env) :
          (found = CopiesIn(handler[h].env) \/ "lag" \in PrHappens) /\ dying' = dying \cup found /\ skipped' = skipped \ found
    /\ IF handler[h].kind = "remove" THEN Ends(h, "none") ELSE MovesOn(h, "forget") /\ UNCHANGED outcome
    /\ UNCHANGED <<envs, entries, clones>>

ForgetsPullRequest(h) ==
    /\ handler[h].at = "forget" /\ entries' = [entries EXCEPT ![handler[h].pr] = Nothing] /\ Ends(h, "closed")
    /\ UNCHANGED <<envs, clones, dying, skipped>>

(* An error, or the server stops.  Some of the copies may be deleted.      *)
RequestFails(h) ==
    /\ handler[h] # NoWork /\ Ends(h, "none")
    /\ \E deleted \in SUBSET IF handler[h].at = "sweep" THEN CopiesIn(handler[h].env) ELSE {} : dying' = dying \cup deleted
    /\ UNCHANGED <<envs, entries, clones, skipped>>

PrNext ==
    \/ \E h \in Handler, p \in PullRequest : RequestComes(h, p)
    \/ \E c \in Copy : CopyGoes(c)
    \/ \E h \in Handler :
          \/ ensurePullRequestEnvironment(h) \/ createPullRequestEnvironment(h) \/ cloneEnvironmentResources(h)
          \/ closePullRequestEnvironment(h) \/ removeEnvironment(h) \/ deleteEnvironmentResources(h) \/ ForgetsPullRequest(h)
          \/ RequestFails(h)

PrSpec == PrInit /\ [][PrNext]_prVars
-----------------------------------------------------------------------------
(* Types.                                                                  *)
PrTypeOK ==
    /\ envs \subseteq EnvName
    /\ entries \in [PullRequest -> EnvName \cup {Nothing}] /\ clones \in [Copy -> EnvName \cup {Nothing}]
    /\ dying \subseteq {c \in Copy : clones[c] # Nothing} /\ skipped \subseteq Copy
    /\ outcome \in [PullRequest -> {"none", "ensured", "closed"}]
    /\ \A h \in Handler : /\ handler[h].kind \in {"none", "ensure", "close", "remove"}
                          /\ handler[h].at \in {"idle", "read", "list", "note", "clone", "unlist", "sweep", "forget"}
                          /\ handler[h].piece \in 0 .. Pieces + 1

Busy(p) == \E h \in Handler : handler[h].pr = p

(* "so the leftovers are not stranded with no way to reach them"           *)
(* (removeEnvironment): wherever a request stops, a copy is on its way     *)
(* out, or in an environment that the project lists or that a pull request *)
(* in its status names, so that closing it again removes the copy.         *)
NotStranded ==
    \A c \in Copy : clones[c] # Nothing /\ c \notin dying =>
        \/ clones[c] \in envs \/ \E p \in PullRequest : entries[p] = clones[c]
        \/ \E h \in Handler : handler[h].env = clones[c]

(* A pull request that was closed without an error leaves nothing but what *)
(* is on its way out: whatever failed before, and whatever else is handled *)
(* at the same time.                                                       *)
ClosedLeavesNothing ==
    \A p \in PullRequest : outcome[p] = "closed" /\ ~Busy(p) =>
        /\ entries[p] = Nothing /\ {PlainName(p), LongName(p)} \cap envs = {}
        /\ CopiesIn(PlainName(p)) \cup CopiesIn(LongName(p)) \subseteq dying

(* "It is safe to repeat: existing pieces are kept and missing ones are    *)
(* created" (ensurePullRequestEnvironment): an event that was handled      *)
(* without an error leaves a copy of everything, in its own environment    *)
(* and not on its way out, but for those that were still dying when it     *)
(* came to them.                                                           *)
EnsuredIsWhole ==
    \A p \in PullRequest : outcome[p] = "ensured" /\ ~Busy(p) =>
        /\ entries[p] # Nothing /\ \A q \in PullRequest \ {p} : entries[q] # entries[p]
        /\ \A c \in Copy \ skipped : c[1] = p[2] => clones[c] = entries[p] /\ c \notin dying

(* What the comment says without that exception: a pull request that is    *)
(* opened again too soon keeps copies that go.                             *)
EveryPieceIsMade ==
    \A p \in PullRequest : outcome[p] = "ensured" /\ ~Busy(p) => \A c \in Copy : c[1] = p[2] => clones[c] # Nothing

(* Environments of pull requests (ensurePullRequestEnvironment,            *)
(* closePullRequestEnvironment, removeEnvironment), wherever an event      *)
(* stops: whole when it was handled, nothing when it is closed, never out  *)
(* of reach.                                                               *)
PrSafe == PrTypeOK /\ NotStranded /\ ClosedLeavesNothing /\ EnsuredIsWhole

(* The limit of the project (maxOpenPREnvironments) is looked at before    *)
(* the pull request is noted, and not again.                               *)
OpenLimitHolds == Cardinality({p \in PullRequest : entries[p] # Nothing}) <= MaxOpen
=============================================================================
