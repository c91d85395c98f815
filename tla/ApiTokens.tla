----------------------------- MODULE ApiTokens -----------------------------
(***************************************************************************)
(* The API tokens, all kept in one Secret that several requests change at  *)
(* once, and the sign-in of the command line, whose approval makes one     *)
(* (internal/dashboard/api_tokens.go, api_v1_device.go, deploy_hook.go).   *)
(* A request does one thing; the token it makes bears the request's name.  *)
(***************************************************************************)
EXTENDS Naturals, FiniteSets

CONSTANTS
    Request,          \* the requests
    MaxTokens,        \* how many records the Secret may hold
    MaxTokensPerOrg,  \* how many of them one organisation may
    TokenHappens      \* what else may happen

(* vanish: a project is deleted while a token for it is being made.        *)
TokenIncidents == {"vanish"}

ASSUME TokensAssumption ==
    /\ IsFiniteSet(Request) /\ MaxTokens \in Nat /\ MaxTokensPerOrg \in Nat
    /\ TokenHappens \subseteq TokenIncidents

Creates == {"workspace", "platform", "project", "service", "approve"}
Jobs == Creates \cup {"none", "revoke", "use", "clean"}

VARIABLES
    job,       \* what each request does
    about,     \* the token it is about
    tokenStep,      \* idle, read, write, settle, done, or failed
    records,   \* the Secret
    copy,      \* the records a request read
    freshReads,     \* nobody has written since
    project,   \* the project of the project's tokens is there
    flow,      \* the sign-in: none, pending, approved, denied, taken
    flowToken, \* the token the sign-in was given
    refused    \* somebody refused the sign-in

tokenRequests == <<job, about, tokenStep, copy>>
deviceVars == <<flow, flowToken, refused>>
tokenVars == <<tokenRequests, records, freshReads, project, deviceVars>>

TokensInit ==
    /\ job = [r \in Request |-> "none"] /\ about = [r \in Request |-> r]
    /\ tokenStep = [r \in Request |-> "idle"] /\ copy = [r \in Request |-> {}]
    /\ records = {} /\ freshReads = {} /\ project = TRUE
    /\ flow = "none" /\ flowToken = {} /\ refused = FALSE

Begins(r, what, t) ==
    /\ tokenStep[r] = "idle" /\ tokenStep' = [tokenStep EXCEPT ![r] = "read"]
    /\ job' = [job EXCEPT ![r] = what] /\ about' = [about EXCEPT ![r] = t]
    /\ UNCHANGED <<records, copy, freshReads>>

ProjectToken(t) == job[t] \in {"project", "service"}

(* What the token is for has to be there when the request looks.           *)
handleAPITokenCreate(r) ==
    /\ \E scope \in Creates \ {"approve"} : Begins(r, scope, r) /\ (scope \in {"project", "service"} => project)
    /\ UNCHANGED <<project, deviceVars>>

handleAPITokenRevoke(r) == \E t \in Request : Begins(r, "revoke", t) /\ UNCHANGED <<project, deviceVars>>

(* A token that is presented: its last use is written back.  A deploy hook *)
(* is no credential.                                                       *)
authenticateAPIToken(r) ==
    /\ \E t \in records : job[t] # "service" /\ Begins(r, "use", t)
    /\ UNCHANGED <<project, deviceVars>>

(* The project is deleted, and its tokens revoked.                         *)
deleteAPITokensFor(r) ==
    /\ project /\ project' = FALSE
    /\ (\E q \in Request : ProjectToken(q) /\ tokenStep[q] \in {"read", "write"}) => "vanish" \in TokenHappens
    /\ Begins(r, "clean", r) /\ UNCHANGED deviceVars

-----------------------------------------------------------------------------
(* mutateAPITokens: read, change the copy, write if nobody wrote since;    *)
(* on a conflict again, and after some conflicts no more.                  *)

OrgTokens(held) == {t \in held : job[t] # "platform"}

tooManyTokens(held, r) ==
    \/ Cardinality(held) >= MaxTokens
    \/ job[r] # "platform" /\ Cardinality(OrgTokens(held)) >= MaxTokensPerOrg

HookExists(held, r) == job[r] = "service" /\ \E t \in held : job[t] = "service"

GoesWithProject(t) == ProjectToken(t)

Mutated(r, held) ==
    CASE job[r] \in Creates -> held \cup {r}
      [] job[r] = "revoke" -> held \ {about[r]}
      [] job[r] = "use" -> held
      [] OTHER -> {t \in held : ~GoesWithProject(t)}

Refuses(r, held) ==
    \/ job[r] \in Creates /\ (tooManyTokens(held, r) \/ HookExists(held, r))
    \/ job[r] = "revoke" /\ about[r] \notin held

NoChange(r, held) ==
    \/ job[r] = "use" /\ about[r] \notin held
    \/ job[r] = "clean" /\ Mutated(r, held) = held

listAPITokens(r) ==
    /\ tokenStep[r] = "read" /\ copy' = [copy EXCEPT ![r] = records] /\ freshReads' = freshReads \cup {r}
    /\ tokenStep' = [tokenStep EXCEPT ![r] = IF Refuses(r, records) THEN "failed"
                                   ELSE IF NoChange(r, records) THEN "done" ELSE "write"]
    /\ UNCHANGED <<job, about, records, project, deviceVars>>

Outdated == {}

(* A mutant: the Secret is written whatever its version.                   *)
WritesOver(r) == TRUE

Current(r) == r \in freshReads

mutateAPITokens(r) ==
    /\ tokenStep[r] = "write"
    /\ \/ /\ Current(r) /\ records' = Mutated(r, copy[r]) /\ freshReads' = Outdated
          /\ tokenStep' = [tokenStep EXCEPT ![r] = IF job[r] = "approve" THEN "settle" ELSE "done"]
       \/ /\ ~Current(r) /\ \E next \in {"read", "failed"} : tokenStep' = [tokenStep EXCEPT ![r] = next]
          /\ UNCHANGED <<records, freshReads>>
    /\ UNCHANGED <<job, about, copy, project, deviceVars>>

-----------------------------------------------------------------------------
(* The sign-in of a device.  It is looked at under a lock that is let go   *)
(* while the token is stored.                                              *)

handleDeviceStart ==
    /\ flow = "none" /\ flow' = "pending"
    /\ UNCHANGED <<tokenRequests, records, freshReads, project, flowToken, refused>>

prune ==
    /\ flow \in {"pending", "approved", "denied"} /\ flow' = "taken"
    /\ UNCHANGED <<tokenRequests, records, freshReads, project, flowToken, refused>>

handleDeviceApprove(r) ==
    /\ flow = "pending" /\ Begins(r, "approve", r) /\ UNCHANGED <<project, deviceVars>>

DeviceDenied ==
    /\ flow = "pending" /\ flow' = "denied" /\ refused' = TRUE
    /\ UNCHANGED <<tokenRequests, records, freshReads, project, flowToken>>

StillPending == flow = "pending"

DeviceApproved(r) ==
    /\ tokenStep[r] = "settle" /\ tokenStep' = [tokenStep EXCEPT ![r] = "done"]
    /\ IF StillPending THEN flow' = "approved" /\ flowToken' = {r} ELSE UNCHANGED <<flow, flowToken>>
    /\ UNCHANGED <<job, about, copy, records, freshReads, project, refused>>

handleDeviceToken ==
    /\ flow \in {"approved", "denied"} /\ flow' = "taken"
    /\ UNCHANGED <<tokenRequests, records, freshReads, project, flowToken, refused>>

TokensNext ==
    \/ \E r \in Request :
          \/ handleAPITokenCreate(r) \/ handleAPITokenRevoke(r) \/ authenticateAPIToken(r) \/ deleteAPITokensFor(r)
          \/ listAPITokens(r) \/ mutateAPITokens(r) \/ handleDeviceApprove(r) \/ DeviceApproved(r)
    \/ handleDeviceStart \/ prune \/ DeviceDenied \/ handleDeviceToken

TokensSpec == TokensInit /\ [][TokensNext]_tokenVars

-----------------------------------------------------------------------------
TokensTypeOK ==
    /\ job \in [Request -> Jobs] /\ about \in [Request -> Request]
    /\ tokenStep \in [Request -> {"idle", "read", "write", "settle", "done", "failed"}]
    /\ records \subseteq Request /\ copy \in [Request -> SUBSET Request] /\ freshReads \subseteq Request
    /\ project \in BOOLEAN /\ flow \in {"none", "pending", "approved", "denied", "taken"}
    /\ flowToken \subseteq Request /\ refused \in BOOLEAN
    /\ \A r \in freshReads : copy[r] = records

TokenAnswered(r) == tokenStep[r] \in {"settle", "done"}
Revoked(t) == \E q \in Request : /\ TokenAnswered(q)
                                 /\ \/ job[q] = "revoke" /\ about[q] = t
                                    \/ job[q] = "clean" /\ ProjectToken(t)

(* "parallel creates keep every token" (mutateAPITokens), whoever else     *)
(* writes the Secret; and what is revoked is not written back by a request *)
(* that read it before, such as the one that notes its last use.           *)
NoTokenLost ==
    /\ \A r \in Request : job[r] \in Creates /\ TokenAnswered(r) /\ ~Revoked(r) => r \in records
    /\ \A q \in Request : job[q] = "revoke" /\ TokenAnswered(q) => about[q] \notin records

(* The limits, and one deploy hook per service, hold whatever requests     *)
(* overlap: they are looked at on the copy that is written.                *)
TokenLimitsHold ==
    /\ Cardinality(records) <= MaxTokens /\ Cardinality(OrgTokens(records)) <= MaxTokensPerOrg
    /\ Cardinality({t \in records : job[t] = "service"}) <= 1

(* A device is given one token, never after the sign-in was refused, and   *)
(* it is a token that works unless it has been revoked: an approval that   *)
(* comes back from storing its token looks again (handleDeviceApprove).    *)
OneSignIn ==
    flowToken' # flowToken =>
        /\ flowToken = {} /\ ~refused /\ Cardinality(flowToken') = 1
        /\ \A r \in flowToken' : r \in records \/ Revoked(r)

(* "so a stale token never outlives what it was created for"               *)
(* (deleteAPITokensFor): once the project is gone and its tokens revoked,  *)
(* none is left.                                                           *)
NoStaleToken ==
    \A q \in Request : job[q] = "clean" /\ TokenAnswered(q) => \A t \in records : ~ProjectToken(t)

(* Tokens that requests make, use and revoke at the same time in one       *)
(* Secret (mutateAPITokens, handleDeviceApprove, deleteAPITokensFor): none *)
(* lost, none back, none too many, none for nothing.                       *)
TokensSafe == [][tokenVars' # tokenVars => (TokensTypeOK /\ NoTokenLost /\ TokenLimitsHold /\ NoStaleToken)' /\ OneSignIn]_tokenVars
=============================================================================
