-------------------------- MODULE DashboardProofs --------------------------
(***************************************************************************)
(* Proofs about what the dashboard keeps while requests overlap: sessions  *)
(* of the identity provider (SsoSessions), webhooks and their secrets      *)
(* (Webhooks) and API tokens (ApiTokens), for any number of each.          *)
(***************************************************************************)
EXTENDS SsoSessions, Webhooks, ApiTokens, FiniteSetTheorems, SequenceTheorems, TLAPS

(* One element more or less is at most one more or less to count.          *)
LEMMA OneMore ==
    ASSUME NEW S, NEW x, IsFiniteSet(S)
    PROVE  /\ Cardinality(S) \in Nat /\ Cardinality(S \cup {x}) \in Nat /\ Cardinality(S \ {x}) \in Nat
           /\ Cardinality(S \cup {x}) <= Cardinality(S) + 1 /\ Cardinality(S \ {x}) <= Cardinality(S)
<1>1. Cardinality(S) \in Nat /\ Cardinality(S \ {x}) \in Nat
  BY FS_CardinalityType, FS_RemoveElement
<1>2. Cardinality(S \cup {x}) = IF x \in S THEN Cardinality(S) ELSE Cardinality(S) + 1
  BY FS_AddElement
<1>3. Cardinality(S \ {x}) = IF x \in S THEN Cardinality(S) - 1 ELSE Cardinality(S)
  BY FS_RemoveElement
<1> QED
  BY <1>1, <1>2, <1>3

-----------------------------------------------------------------------------
(* Sessions.                                                               *)

(* The types apart from that of late, which only Zenon decides.            *)
SsoOthers ==
    /\ says \in Saying /\ signing \in [Browser -> {"idle", "exchanged", "issued"}]
    /\ got \in [Browser -> Saying] /\ session \in [Browser -> Saying]
    /\ entry \in Saying /\ record \in Saying /\ logout \in {"idle", "revoke"}
    /\ refresh \in {"idle", "ask", "write", "forget", "revoke", "drop"}
    /\ refresh = "idle" <=> record = 0

LEMMA SsoTypeInit == SsoInit => SsoTypeOK
<1>1. SsoInit => SsoOthers
  BY SsoAssumption DEF SsoInit, SsoOthers, Saying
<1>2. SsoInit => late \in BOOLEAN
  BY Zenon DEF SsoInit
<1> QED
  BY <1>1, <1>2, Zenon DEF SsoOthers, SsoTypeOK

LEMMA SsoTypeStep ==
    ASSUME SsoTypeOK, [SsoNext]_ssoVars PROVE SsoTypeOK'
<1>1. SsoOthers /\ late \in BOOLEAN
  BY Zenon DEF SsoTypeOK, SsoOthers
<1>2. SsoOthers'
  <2> USE <1>1, SsoAssumption DEF SsoOthers, Saying, signIns
  <2>1. CASE UNCHANGED ssoVars
    BY <2>1 DEF ssoVars
  <2>2. CASE ProviderChanges \/ GraceEnds
    BY <2>2 DEF ProviderChanges, GraceEnds
  <2>3. ASSUME NEW b \in Browser, CookieEnds(b) \/ handleOIDCCallback(b) PROVE SsoOthers'
    BY <2>3 DEF CookieEnds, handleOIDCCallback
  <2>4. ASSUME NEW b \in Browser, SsoSign(b) PROVE SsoOthers'
    BY <2>4 DEF SsoSign, finishSSO, rememberRefresh
  <2>5. CASE refreshSessionsOnce \/ refreshOne \/ keepsAnswer
    BY <2>5 DEF refreshSessionsOnce, refreshOne, keepsAnswer, KeptEntry, Stops
  <2>6. CASE forgetRefresh \/ revokeSSOIdentity \/ dropRefreshEntry
    BY <2>6 DEF forgetRefresh, revokeSSOIdentity, dropRefreshEntry, Stops, Forgets
  <2>7. CASE NoAnswer \/ PassLost \/ handleOIDCBackchannelLogout
    BY <2>7 DEF NoAnswer, PassLost, handleOIDCBackchannelLogout, Stops, Forgets
  <2> QED
    BY <2>1, <2>2, <2>3, <2>4, <2>5, <2>6, <2>7 DEF SsoNext, SsoPass
<1>3. late' \in BOOLEAN
  <2>1. late' \in {late, TRUE, FALSE}
    <3>1. CASE UNCHANGED ssoVars \/ ProviderChanges \/ GraceEnds \/ NoAnswer \/ PassLost
      BY <3>1, Zenon DEF ssoVars, ProviderChanges, GraceEnds, NoAnswer, PassLost
    <3>2. ASSUME NEW b \in Browser, CookieEnds(b) \/ handleOIDCCallback(b) \/ SsoSign(b) PROVE late' \in {late, TRUE, FALSE}
      BY <3>2, Zenon DEF CookieEnds, handleOIDCCallback, SsoSign, finishSSO, rememberRefresh
    <3>3. CASE SsoPass
      BY <3>3, Zenon DEF SsoPass, refreshSessionsOnce, refreshOne, keepsAnswer, forgetRefresh, revokeSSOIdentity, dropRefreshEntry, Forgets
    <3>4. CASE handleOIDCBackchannelLogout
      BY <3>4, Zenon DEF handleOIDCBackchannelLogout, Forgets
    <3> QED
      BY <3>1, <3>2, <3>3, <3>4, Zenon DEF SsoNext
  <2> QED
    BY <1>1, <2>1, Zenon
<1> QED
  BY <1>2, <1>3, Zenon DEF SsoOthers, SsoTypeOK

(* A refresh entry that was forgotten comes back only with a sign-in: no   *)
(* pass that read it before writes it again (refreshOne, forgetRefresh),   *)
(* whatever sign-ins, logouts, restarts and failed writes fall in between. *)
THEOREM ForgottenStaysForgotten == SsoSpec => SsoSafe
<1> DEFINE Right == ssoVars' # ssoVars => SsoTypeOK' /\ SignedOutStaysForgotten
<1>1. SsoTypeOK /\ [SsoNext]_ssoVars => SsoTypeOK'
  BY SsoTypeStep
<1>2. [SsoNext]_ssoVars => SignedOutStaysForgotten
  <2> USE DEF SignedOutStaysForgotten
  <2>1. CASE UNCHANGED ssoVars
    BY <2>1 DEF ssoVars
  <2>2. ASSUME NEW b \in Browser, SsoSign(b) PROVE SignedOutStaysForgotten
    BY <2>2 DEF SsoSign, finishSSO
  <2>3. ASSUME NEW b \in Browser, CookieEnds(b) \/ handleOIDCCallback(b) PROVE SignedOutStaysForgotten
    BY <2>3 DEF CookieEnds, handleOIDCCallback
  <2>4. CASE SsoPass
    BY <2>4 DEF SsoPass, refreshSessionsOnce, refreshOne, keepsAnswer, KeptEntry, forgetRefresh,
                revokeSSOIdentity, dropRefreshEntry, Forgets
  <2>5. CASE ProviderChanges \/ GraceEnds \/ NoAnswer \/ PassLost \/ handleOIDCBackchannelLogout
    BY <2>5 DEF ProviderChanges, GraceEnds, NoAnswer, PassLost, handleOIDCBackchannelLogout, Forgets
  <2> QED
    BY <2>1, <2>2, <2>3, <2>4, <2>5 DEF SsoNext
<1>3. SsoTypeOK /\ [SsoNext]_ssoVars => [Right]_ssoVars
  BY <1>1, <1>2
<1> QED
  BY SsoTypeInit, <1>1, <1>3, PTL DEF SsoSpec, SsoSafe

-----------------------------------------------------------------------------
(* Webhooks.                                                               *)

(* What is counted of an event: a hook whose event waits or is not there   *)
(* has not been sent to, one that is being sent to has a try left; and the *)
(* deliveries that are remembered are a sequence.                          *)
TriesInv ==
    /\ deliveries \in Seq(Hook)
    /\ \A h \in Hook : /\ event[h] \in {"none", "queued"} => tries[h] = 0
                       /\ event[h] = "sending" => tries[h] < MaxAttempts

(* A webhook that is stored or listed has its secret, and so it has in     *)
(* what a removal of another's secret read: nothing is stored while one is *)
(* being removed.  Only a listed webhook has an event.                     *)
SecretInv ==
    /\ \A h \in Hook : hookLife[h] \in {"stored", "listed"} => h \in keys
    /\ \A g, h \in Hook : hookLife[g] = "removing" /\ hookLife[h] \in {"stored", "listed"} => h \in keysRead[g]
    /\ \A h \in Hook : event[h] # "none" => hookLife[h] = "listed"

NoHookIncident == HookHappens = {}

LEMMA HooksFinite == ASSUME NEW S \in SUBSET Hook PROVE IsFiniteSet(S) /\ Cardinality(S) \in Nat
  BY HooksAssumption, FS_Subset, FS_CardinalityType

(* One more delivery at the front, and no more than are remembered.        *)
LEMMA ShortenedIsShort ==
    ASSUME NEW log \in Seq(Hook), NEW h \in Hook
    PROVE  Shortened(<<h>> \o log) \in Seq(Hook) /\ Len(Shortened(<<h>> \o log)) <= MaxDeliveries
<1> DEFINE s == <<h>> \o log
           n == IF Len(s) > MaxDeliveries THEN MaxDeliveries ELSE Len(s)
<1>1. s \in Seq(Hook) /\ Len(s) \in Nat
  OBVIOUS
<1>2. MaxDeliveries \in Nat
  BY HooksAssumption
<1>3. n \in Nat /\ n <= MaxDeliveries /\ n <= Len(s)
  BY <1>1, <1>2
<1>4. SubSeq(s, 1, n) \in Seq(Hook) /\ Len(SubSeq(s, 1, n)) = n
  BY <1>1, <1>3
<1> QED
  BY <1>3, <1>4 DEF Shortened

LEMMA HooksStart == HooksInit => HooksTypeOK /\ TriesInv /\ SecretInv /\ NeverUnsigned
<1> SUFFICES ASSUME HooksInit PROVE HooksTypeOK /\ TriesInv /\ SecretInv /\ NeverUnsigned
  OBVIOUS
<1>1. Running = {} /\ {h \in Hook : hookLife[h] = "listed"} = {}
  BY DEF HooksInit, Running
<1>2. Cardinality({}) = 0
  BY FS_EmptySet
<1> QED
  BY <1>1, <1>2, HooksAssumption DEF HooksInit, HooksTypeOK, TriesInv, SecretInv, NeverUnsigned

(* The life of a webhook keeps what the project lists within its limit.    *)
LEMMA HooksTypeStep ==
    ASSUME HooksTypeOK, TriesInv, [HooksNext]_hookVars
    PROVE  HooksTypeOK' /\ TriesInv'
<1> DEFINE Goal == HooksTypeOK' /\ TriesInv'
           Listed == {h \in Hook : hookLife[h] = "listed"}
<1> USE HooksAssumption DEF TriesInv, noDelivery, HookGoes
<1>1. CASE UNCHANGED hookVars
  BY <1>1 DEF hookVars, HooksTypeOK, Running
<1>2. ASSUME NEW h \in Hook,
             saveWebhook(h) \/ ReadsSecret(h) \/ removeWebhookSecret(h) \/ rotateWebhookSecret(h)
      PROVE  Goal
  <2>1. Running' = Running
    BY <1>2 DEF saveWebhook, ReadsSecret, removeWebhookSecret, rotateWebhookSecret, Running
  <2>2. Listed' = Listed
    BY <1>2 DEF saveWebhook, ReadsSecret, removeWebhookSecret, rotateWebhookSecret, HooksTypeOK
  <2>3. hookLife' \in [Hook -> {"none", "stored", "listed", "unlisted", "removing", "gone"}]
    BY <1>2 DEF saveWebhook, ReadsSecret, removeWebhookSecret, rotateWebhookSecret, HooksTypeOK
  <2>4. keys' \subseteq Hook
    BY <1>2 DEF saveWebhook, ReadsSecret, removeWebhookSecret, rotateWebhookSecret, HooksTypeOK, SecretFirst
  <2>5. keysRead' \in [Hook -> SUBSET Hook]
    <3>1. keysRead' = keysRead \/ keysRead' = [keysRead EXCEPT ![h] = keys]
      BY <1>2 DEF saveWebhook, ReadsSecret, removeWebhookSecret, rotateWebhookSecret
    <3>2. keysRead \in [Hook -> SUBSET Hook] /\ keys \in SUBSET Hook
      BY DEF HooksTypeOK
    <3> QED
      BY <3>1, <3>2
  <2>6. hooks' = hooks /\ UNCHANGED noDelivery
    BY <1>2 DEF saveWebhook, ReadsSecret, removeWebhookSecret, rotateWebhookSecret
  <2> QED
    BY <2>1, <2>2, <2>3, <2>4, <2>5, <2>6 DEF HooksTypeOK
<1>3. ASSUME NEW h \in Hook, ListsWebhook(h) \/ deleteWebhook(h) PROVE Goal
  <2>1. Running' = Running
    BY <1>3 DEF ListsWebhook, deleteWebhook, Running
  <2>2. Listed' = hooks'
    BY <1>3 DEF ListsWebhook, deleteWebhook, HooksTypeOK
  <2>3. Cardinality(hooks') <= MaxHooks
    <3>1. IsFiniteSet(hooks) /\ Cardinality(hooks) \in Nat
      BY HooksFinite DEF HooksTypeOK
    <3>2. /\ Cardinality(hooks \cup {h}) <= Cardinality(hooks) + 1 /\ Cardinality(hooks \cup {h}) \in Nat
          /\ Cardinality(hooks \ {h}) <= Cardinality(hooks) /\ Cardinality(hooks \ {h}) \in Nat
      BY <3>1, OneMore
    <3>4. MaxHooks \in Nat /\ Cardinality(hooks) <= MaxHooks
      BY DEF HooksTypeOK
    <3>7. \/ hooks' = hooks
          \/ hooks' = hooks \cup {h} /\ Cardinality(hooks) < MaxHooks
          \/ hooks' = hooks \ {h}
      BY <1>3 DEF ListsWebhook, deleteWebhook
    <3>8. CASE hooks' = hooks
      BY <3>4, <3>8
    <3>9. CASE hooks' = hooks \cup {h} /\ Cardinality(hooks) < MaxHooks
      BY <3>1, <3>2, <3>4, <3>9
    <3>10. CASE hooks' = hooks \ {h}
      BY <3>1, <3>2, <3>4, <3>10
    <3> QED
      BY <3>7, <3>8, <3>9, <3>10
  <2> QED
    BY <1>3, <2>1, <2>2, <2>3 DEF ListsWebhook, deleteWebhook, HooksTypeOK
<1>4. CASE Emit
  <2>1. Running' = Running
    BY <1>4 DEF Emit, Running
  <2> QED
    BY <1>4, <2>1 DEF Emit, HooksTypeOK
<1>5. ASSUME NEW h \in Hook, Deliver(h) PROVE Goal
  <2>1. Running' = Running \cup {h} /\ Running \in SUBSET Hook
    BY <1>5 DEF Deliver, Running, HooksTypeOK
  <2>2. Cardinality(Running') <= MaxConcurrent
    <3>1. IsFiniteSet(Running) /\ Cardinality(Running) \in Nat
      BY <2>1, HooksFinite
    <3>2. Cardinality(Running \cup {h}) <= Cardinality(Running) + 1 /\ Cardinality(Running \cup {h}) \in Nat
      BY <3>1, OneMore
    <3>4. MaxConcurrent \in Nat /\ Cardinality(Running) < MaxConcurrent
      BY <1>5 DEF Deliver, PlaceFree
    <3>5. Cardinality(Running') = Cardinality(Running \cup {h})
      BY <2>1
    <3> QED
      BY <3>1, <3>2, <3>4, <3>5
  <2> QED
    BY <1>5, <2>2 DEF Deliver, signingSecret, HooksTypeOK
<1>6. ASSUME NEW h \in Hook, TimesOut(h) \/ send(h) PROVE Goal
  <2>1. Running' = Running
    BY <1>6 DEF TimesOut, send, Running, HooksTypeOK
  <2>2. CASE TimesOut(h)
    BY <2>1, <2>2 DEF TimesOut, HooksTypeOK
  <2>3. CASE send(h)
    <3>1. tries[h] \in Nat /\ tries[h] < MaxAttempts /\ MaxAttempts \in Nat
      BY <2>3 DEF send, HooksTypeOK
    <3>2. tries' \in [Hook -> 0 .. MaxAttempts]
      BY <2>3, <3>1 DEF send, HooksTypeOK
    <3>3. \A g \in Hook : g # h => tries'[g] = tries[g] /\ event'[g] = event[g]
      BY <2>3 DEF send, HooksTypeOK
    <3>4. tries'[h] = tries[h] + 1 /\ (event'[h] = "sending" => tries[h] + 1 < MaxAttempts)
          /\ event'[h] \in {"sending", "recording"}
      <4>1. tries'[h] = tries[h] + 1
        BY <2>3 DEF send, HooksTypeOK
      <4>2. event' = [event EXCEPT ![h] = "recording"] \/ (event' = event /\ tries[h] + 1 < MaxAttempts)
        BY <2>3, Zenon DEF send
      <4>3. event[h] = "sending" /\ event \in [Hook -> {"none", "queued", "sending", "recording"}]
        BY <2>3 DEF send, HooksTypeOK
      <4> QED
        BY <4>1, <4>2, <4>3
    <3>5. event' \in [Hook -> {"none", "queued", "sending", "recording"}]
      BY <2>3 DEF send, HooksTypeOK
    <3>6. TriesInv'
      <4>1. deliveries' \in Seq(Hook)
        BY <2>3 DEF send
      <4>2. ASSUME NEW g \in Hook
            PROVE  (event[g] \in {"none", "queued"} => tries[g] = 0)' /\ (event[g] = "sending" => tries[g] < MaxAttempts)'
        BY <3>1, <3>3, <3>4
      <4> QED
        BY <4>1, <4>2
    <3> QED
      BY <2>1, <2>3, <3>2, <3>5, <3>6 DEF send, HooksTypeOK
  <2> QED
    BY <1>6, <2>2, <2>3
<1>7. ASSUME NEW h \in Hook, recordDelivery(h) PROVE Goal
  <2>1. Running' \subseteq Running /\ Running \in SUBSET Hook
    BY <1>7 DEF recordDelivery, LeavesPlace, Running, HooksTypeOK
  <2>2. Cardinality(Running') <= Cardinality(Running) /\ Cardinality(Running) \in Nat /\ Cardinality(Running') \in Nat
    BY <2>1, HooksFinite, FS_Subset
  <2>3. deliveries' \in Seq(Hook) /\ Len(deliveries') <= MaxDeliveries
    BY <1>7, ShortenedIsShort DEF recordDelivery, HooksTypeOK
  <2> QED
    BY <1>7, <2>2, <2>3 DEF recordDelivery, LeavesPlace, HooksTypeOK
<1> QED
  BY <1>1, <1>2, <1>3, <1>4, <1>5, <1>6, <1>7 DEF HooksNext

(* A delivery finds the secret: making and removing webhooks do not        *)
(* overlap, and none is removed with an event under way.                   *)
LEMMA SecretStep ==
    ASSUME NoHookIncident, HooksTypeOK, SecretInv, NeverUnsigned, [HooksNext]_hookVars
    PROVE  SecretInv' /\ NeverUnsigned'
<1> DEFINE Goal == SecretInv' /\ NeverUnsigned'
<1> USE DEF HooksTypeOK, SecretInv, NeverUnsigned, noDelivery, HookGoes
<1>1. CASE UNCHANGED hookVars
  BY <1>1 DEF hookVars
<1>2. ASSUME NEW h \in Hook, saveWebhook(h) PROVE Goal
  BY <1>2 DEF saveWebhook, SecretFirst, NoHookIncident
<1>3. ASSUME NEW h \in Hook, ListsWebhook(h) PROVE Goal
  BY <1>3 DEF ListsWebhook
<1>4. ASSUME NEW h \in Hook, deleteWebhook(h) PROVE Goal
  BY <1>4 DEF deleteWebhook, NoHookIncident
<1>5. ASSUME NEW h \in Hook, ReadsSecret(h) PROVE Goal
  BY <1>5 DEF ReadsSecret
<1>6. ASSUME NEW h \in Hook, removeWebhookSecret(h) PROVE Goal
  BY <1>6 DEF removeWebhookSecret, Empties
<1>7. ASSUME NEW h \in Hook, rotateWebhookSecret(h) PROVE Goal
  BY <1>7 DEF rotateWebhookSecret
<1>8. CASE Emit
  BY <1>8 DEF Emit
<1>9. ASSUME NEW h \in Hook, Deliver(h) PROVE Goal
  BY <1>9 DEF Deliver, signingSecret
<1>10. ASSUME NEW h \in Hook, TimesOut(h) \/ send(h) \/ recordDelivery(h) PROVE Goal
  BY <1>10 DEF TimesOut, send, recordDelivery, LeavesPlace
<1> QED
  BY <1>1, <1>2, <1>3, <1>4, <1>5, <1>6, <1>7, <1>8, <1>9, <1>10 DEF HooksNext

(* A delivery that reads the Secret finds the webhook's secret there, in   *)
(* whatever order webhooks are made, rotated, deleted and delivered to ("a *)
(* webhook without one would be delivered unsigned", saveWebhook), as long *)
(* as none is deleted under an event or made while a secret is being       *)
(* removed; and no limit is passed.  Only a read that fails sends an event *)
(* unsigned (signingSecret).                                               *)
THEOREM DeliveriesAreSigned == ASSUME NoHookIncident PROVE HooksSpec => []HooksSafe
<1> DEFINE Inv == HooksTypeOK /\ TriesInv /\ SecretInv /\ NeverUnsigned
<1>1. HooksInit => Inv
  BY HooksStart
<1>2. Inv /\ [HooksNext]_hookVars => Inv'
  BY HooksTypeStep, SecretStep
<1>3. Inv => HooksSafe
  BY DEF HooksSafe
<1> QED
  BY <1>1, <1>2, <1>3, PTL DEF HooksSpec
-----------------------------------------------------------------------------
(* API tokens.                                                             *)

TokenMade(t) == job[t] \in Creates /\ TokenAnswered(t)

(* What requests are: one that has not begun does nothing yet, and one     *)
(* with something to settle approves a sign-in.                            *)
RequestInv ==
    \A r \in Request : /\ tokenStep[r] = "idle" <=> job[r] = "none"
                       /\ tokenStep[r] = "settle" => job[r] = "approve"

(* The Secret, and every copy of it, holds tokens of creations that have   *)
(* been written; a request that is to write found nothing to refuse in its *)
(* copy, and one that revokes found what it revokes.                       *)
CopyInv ==
    /\ \A t \in records : TokenMade(t)
    /\ \A r \in Request : \A t \in copy[r] : TokenMade(t)
    /\ \A r \in Request : tokenStep[r] = "write" => ~Refuses(r, copy[r])
    /\ \A r \in Request : job[r] = "revoke" /\ (tokenStep[r] = "write" \/ TokenAnswered(r)) => TokenMade(about[r])

(* Once the project is gone, no token for it is being made; a clean-up     *)
(* runs only then.                                                         *)
ProjectInv ==
    \A r \in Request : /\ ProjectToken(r) /\ tokenStep[r] \in {"read", "write"} => project
                       /\ job[r] = "clean" => ~project

(* A sign-in that nobody has decided has no token and was not refused.     *)
FlowInv == flow \in {"none", "pending"} => flowToken = {} /\ ~refused

NoTokenIncident == TokenHappens = {}

TokensInv ==
    /\ TokensTypeOK /\ RequestInv /\ CopyInv /\ ProjectInv /\ FlowInv
    /\ NoTokenLost /\ TokenLimitsHold /\ NoStaleToken

(* The types apart from those of the two truth values.                     *)
TokensOthers ==
    /\ job \in [Request -> Jobs] /\ about \in [Request -> Request]
    /\ tokenStep \in [Request -> {"idle", "read", "write", "settle", "done", "failed"}]
    /\ records \subseteq Request /\ copy \in [Request -> SUBSET Request] /\ freshReads \subseteq Request
    /\ flow \in {"none", "pending", "approved", "denied", "taken"} /\ flowToken \subseteq Request
    /\ \A r \in freshReads : copy[r] = records

LEMMA TokensTypes == TokensTypeOK <=> TokensOthers /\ project \in BOOLEAN /\ refused \in BOOLEAN
  BY Zenon DEF TokensTypeOK, TokensOthers

LEMMA TokensFinite == ASSUME NEW S \in SUBSET Request PROVE IsFiniteSet(S) /\ Cardinality(S) \in Nat
  BY TokensAssumption, FS_Subset, FS_CardinalityType

(* No fewer limits hold of fewer tokens, when what each is for is the      *)
(* same.                                                                   *)
LEMMA LimitsOfSubset ==
    ASSUME TokenLimitsHold, records \subseteq Request, records' \subseteq records,
           \A t \in records : job'[t] = job[t]
    PROVE  TokenLimitsHold'
<1> DEFINE Org == {t \in records : job[t] # "platform"}
           Hooked == {t \in records : job[t] = "service"}
<1>1. Org' \subseteq Org /\ Hooked' \subseteq Hooked /\ Org \in SUBSET Request /\ Hooked \in SUBSET Request
  OBVIOUS
<1>2. /\ Cardinality(records') <= Cardinality(records) /\ Cardinality(Org') <= Cardinality(Org)
      /\ Cardinality(Hooked') <= Cardinality(Hooked)
  BY <1>1, TokensFinite, FS_Subset
<1>3. {Cardinality(records'), Cardinality(records), Cardinality(Org'), Cardinality(Org),
       Cardinality(Hooked'), Cardinality(Hooked)} \subseteq Nat
  BY <1>1, TokensFinite
<1>4. Cardinality(records) <= MaxTokens /\ Cardinality(Org) <= MaxTokensPerOrg /\ Cardinality(Hooked) <= 1
  BY DEF TokenLimitsHold, OrgTokens
<1>5. Cardinality(records') <= MaxTokens /\ Cardinality(Org') <= MaxTokensPerOrg /\ Cardinality(Hooked') <= 1
  <2> HIDE DEF Org, Hooked
  <2> QED
    BY <1>2, <1>3, <1>4, TokensAssumption
<1> QED
  BY <1>5 DEF TokenLimitsHold, OrgTokens

(* One token more, which the copy had room for.                            *)
LEMMA LimitsOfOneMore ==
    ASSUME TokenLimitsHold, records \subseteq Request, NEW r \in Request, r \notin records, job[r] \in Creates,
           job' = job, records' = records \cup {r}, ~Refuses(r, records)
    PROVE  TokenLimitsHold'
<1> DEFINE Org == {t \in records : job[t] # "platform"}
           Hooked == {t \in records : job[t] = "service"}
<1>1. Org' = (IF job[r] = "platform" THEN Org ELSE Org \cup {r})
  OBVIOUS
<1>2. Hooked' = IF job[r] = "service" THEN Hooked \cup {r} ELSE Hooked
  OBVIOUS
<1>3. /\ Cardinality(records) < MaxTokens \/ ~(Cardinality(records) >= MaxTokens)
      /\ job[r] # "platform" => ~(Cardinality(Org) >= MaxTokensPerOrg)
      /\ job[r] = "service" => Hooked = {}
  BY DEF Refuses, tooManyTokens, HookExists, OrgTokens
<1>4. IsFiniteSet(records) /\ IsFiniteSet(Org) /\ IsFiniteSet(Hooked)
  BY TokensFinite
<1>5. Cardinality(records) <= MaxTokens /\ Cardinality(Org) <= MaxTokensPerOrg /\ Cardinality(Hooked) <= 1
  BY DEF TokenLimitsHold, OrgTokens
<1>6. /\ Cardinality(records) \in Nat /\ Cardinality(Org) \in Nat
      /\ Cardinality(records \cup {r}) \in Nat /\ Cardinality(records \cup {r}) <= Cardinality(records) + 1
      /\ Cardinality(Org \cup {r}) \in Nat /\ Cardinality(Org \cup {r}) <= Cardinality(Org) + 1
  BY <1>4, OneMore
<1>7. Cardinality({} \cup {r}) = 1
  BY FS_Singleton
<1>8. Cardinality(records') <= MaxTokens
  <2> HIDE DEF Org, Hooked
  <2> QED
    BY <1>3, <1>6, TokensAssumption
<1>9. Cardinality(Org') <= MaxTokensPerOrg
  <2> HIDE DEF Org, Hooked
  <2> QED
    BY <1>1, <1>3, <1>5, <1>6, TokensAssumption
<1>10. Cardinality(Hooked') <= 1
  <2> HIDE DEF Org, Hooked
  <2> QED
    BY <1>2, <1>3, <1>5, <1>7
<1> QED
  BY <1>8, <1>9, <1>10 DEF TokenLimitsHold, OrgTokens

LEMMA TokensStart == TokensInit => TokensInv
<1> SUFFICES ASSUME TokensInit PROVE TokensInv
  OBVIOUS
<1>1. TokensOthers
  BY DEF TokensInit, TokensOthers, Jobs
<1>2. project \in BOOLEAN /\ refused \in BOOLEAN
  BY Zenon DEF TokensInit
<1>3. TokenLimitsHold
  <2>1. records = {} /\ OrgTokens(records) = {} /\ {t \in records : job[t] = "service"} = {}
    BY DEF TokensInit, OrgTokens
  <2>2. Cardinality({}) = 0
    BY FS_EmptySet
  <2> QED
    BY <2>1, <2>2, TokensAssumption DEF TokenLimitsHold
<1>4. RequestInv /\ CopyInv /\ ProjectInv /\ FlowInv /\ NoTokenLost /\ NoStaleToken
  BY DEF TokensInit, RequestInv, CopyInv, ProjectInv, FlowInv, NoTokenLost, NoStaleToken,
         TokenMade, TokenAnswered, ProjectToken, Creates
<1> QED
  BY <1>1, <1>2, <1>3, <1>4, TokensTypes DEF TokensInv

(* A request begins, whatever it is to do.                                 *)
LEMMA BeginsKeeps ==
    ASSUME TokensInv, NEW r \in Request, NEW what \in Jobs \ {"none"}, NEW t \in Request,
           Begins(r, what, t), UNCHANGED deviceVars,
           \/ what # "clean" /\ UNCHANGED project /\ (what \in {"project", "service"} => project)
           \/ /\ what = "clean" /\ project' = FALSE
              /\ \A q \in Request : ~(ProjectToken(q) /\ tokenStep[q] \in {"read", "write"})
    PROVE  TokensInv'
<1>1. TokensOthers /\ project \in BOOLEAN /\ refused \in BOOLEAN
  BY TokensTypes DEF TokensInv
<1>2. TokensOthers'
  BY <1>1 DEF TokensOthers, Begins, deviceVars
<1>3. project' \in BOOLEAN /\ refused' \in BOOLEAN
  BY <1>1, Zenon DEF deviceVars
<1>4. job[r] = "none" /\ tokenStep[r] = "idle"
  BY DEF TokensInv, RequestInv, Begins
<1>5. \A q \in Request : q # r => job'[q] = job[q] /\ about'[q] = about[q] /\ tokenStep'[q] = tokenStep[q]
  BY <1>1 DEF Begins, TokensOthers
<1>6. job'[r] = what /\ about'[r] = t /\ tokenStep'[r] = "read"
  BY <1>1 DEF Begins, TokensOthers
<1>7. UNCHANGED <<records, copy, freshReads, flow, flowToken, refused>>
  BY DEF Begins, deviceVars
<1>8. \A q \in Request : /\ TokenAnswered(q)' <=> TokenAnswered(q)
                         /\ TokenMade(q)' <=> TokenMade(q)
                         /\ TokenAnswered(q) => job'[q] = job[q] /\ about'[q] = about[q]
  BY <1>4, <1>5, <1>6 DEF TokenAnswered, TokenMade
<1>9. RequestInv'
  BY <1>5, <1>6 DEF TokensInv, RequestInv
<1>10. r \notin records /\ \A q \in Request : r \notin copy[q]
  BY <1>4 DEF TokensInv, CopyInv, TokenMade, Creates
<1>11. \A q \in Request : tokenStep'[q] = "write" => ~Refuses(q, copy[q])'
  <2> SUFFICES ASSUME NEW q \in Request, tokenStep'[q] = "write" PROVE ~Refuses(q, copy[q])'
    OBVIOUS
  <2>1. q # r /\ tokenStep[q] = "write" /\ ~Refuses(q, copy[q])
    BY <1>5, <1>6 DEF TokensInv, CopyInv
  <2>2. copy'[q] = copy[q] /\ job'[q] = job[q] /\ about'[q] = about[q]
    BY <1>5, <1>7, <2>1
  <2>3. \A u \in copy[q] : job'[u] = job[u]
    BY <1>1, <1>5, <1>10 DEF TokensOthers
  <2>4. OrgTokens(copy[q])' = OrgTokens(copy[q])
    BY <2>2, <2>3 DEF OrgTokens
  <2> QED
    BY <2>1, <2>2, <2>3, <2>4 DEF Refuses, tooManyTokens, HookExists
<1>12. CopyInv'
  BY <1>1, <1>5, <1>6, <1>7, <1>8, <1>11 DEF TokensInv, CopyInv, TokensOthers, TokenMade, TokenAnswered
<1>13. ProjectInv'
  BY <1>4, <1>5, <1>6 DEF TokensInv, ProjectInv, ProjectToken
<1>14. FlowInv'
  BY <1>7 DEF TokensInv, FlowInv
<1>15. \A u \in Request : Revoked(u) => Revoked(u)'
  BY <1>4, <1>5, <1>8 DEF Revoked, ProjectToken
<1>16. NoTokenLost'
  BY <1>4, <1>5, <1>6, <1>7, <1>8, <1>15 DEF TokensInv, NoTokenLost
<1>17. TokenLimitsHold'
  BY <1>1, <1>5, <1>7, <1>10, LimitsOfSubset DEF TokensInv, TokensOthers
<1>18. NoStaleToken'
  BY <1>1, <1>5, <1>6, <1>7, <1>8, <1>10 DEF TokensInv, NoStaleToken, ProjectToken, TokensOthers
<1>19. TokensTypeOK'
  BY <1>2, <1>3, Zenon DEF TokensTypeOK, TokensOthers
<1> QED
  BY <1>9, <1>12, <1>13, <1>14, <1>16, <1>17, <1>18, <1>19 DEF TokensInv

(* A request reads the Secret, and refuses, has nothing to do or goes on.  *)
LEMMA ListKeeps ==
    ASSUME TokensInv, NEW r \in Request, listAPITokens(r) PROVE TokensInv'
<1>1. TokensOthers /\ project \in BOOLEAN /\ refused \in BOOLEAN
  BY TokensTypes DEF TokensInv
<1>2. TokensOthers'
  BY <1>1 DEF TokensOthers, listAPITokens, deviceVars
<1>3. TokensTypeOK'
  <2>1. project' = project /\ refused' = refused
    BY DEF listAPITokens, deviceVars
  <2> QED
    BY <1>1, <1>2, <2>1, Zenon DEF TokensTypeOK, TokensOthers
<1>4. UNCHANGED <<job, about, records, project, flow, flowToken, refused>>
  BY DEF listAPITokens, deviceVars
<1>5. \A q \in Request : q # r => tokenStep'[q] = tokenStep[q] /\ copy'[q] = copy[q]
  BY <1>1 DEF listAPITokens, TokensOthers
<1>6. /\ tokenStep[r] = "read" /\ copy'[r] = records
      /\ tokenStep'[r] = IF Refuses(r, records) THEN "failed" ELSE IF NoChange(r, records) THEN "done" ELSE "write"
  BY <1>1 DEF listAPITokens, TokensOthers
<1>7. \A q \in Request : q # r => (TokenAnswered(q)' <=> TokenAnswered(q)) /\ (TokenMade(q)' <=> TokenMade(q))
  BY <1>4, <1>5 DEF TokenAnswered, TokenMade
<1>8. tokenStep'[r] \in {"failed", "done", "write"} /\ ~TokenAnswered(r)
  BY <1>6 DEF TokenAnswered
<1>9. tokenStep'[r] = "done" => job[r] \in {"use", "clean"} /\ (job[r] = "clean" => \A t \in records : ~ProjectToken(t))
  BY <1>6 DEF NoChange, Mutated, GoesWithProject, Creates
<1>10. \A q \in Request : TokenMade(q)' <=> TokenMade(q)
  BY <1>4, <1>7, <1>8, <1>9 DEF TokenMade, TokenAnswered, Creates
<1>11. RequestInv'
  BY <1>4, <1>5, <1>6, <1>8 DEF TokensInv, RequestInv
<1>12. CopyInv'
  <2>1. \A q \in Request : tokenStep'[q] = "write" => ~Refuses(q, copy[q])'
    <3> SUFFICES ASSUME NEW q \in Request, tokenStep'[q] = "write" PROVE ~Refuses(q, copy[q])'
      OBVIOUS
    <3>1. ~Refuses(q, copy'[q])
      BY <1>5, <1>6 DEF TokensInv, CopyInv
    <3> QED
      BY <1>4, <3>1 DEF Refuses, tooManyTokens, HookExists, OrgTokens
  <2>2. job[r] = "revoke" /\ tokenStep'[r] = "write" => about[r] \in records
    BY <1>6 DEF Refuses
  <2>3. \A q \in Request : \A t \in copy'[q] : TokenMade(t)
    BY <1>5, <1>6 DEF TokensInv, CopyInv
  <2>4. \A q \in Request : job[q] = "revoke" /\ (tokenStep'[q] = "write" \/ TokenAnswered(q)') => TokenMade(about[q])
    BY <1>5, <1>7, <1>8, <1>9, <2>2 DEF TokensInv, CopyInv, TokenAnswered
  <2> QED
    BY <1>1, <1>2, <1>4, <1>10, <2>1, <2>3, <2>4 DEF TokensInv, CopyInv, TokensOthers
<1>13. ProjectInv'
  BY <1>4, <1>5, <1>6 DEF TokensInv, ProjectInv, ProjectToken
<1>14. FlowInv'
  BY <1>4 DEF TokensInv, FlowInv
<1>15. \A t \in Request : Revoked(t) => Revoked(t)'
  BY <1>4, <1>7, <1>8 DEF Revoked, ProjectToken
<1>16. NoTokenLost'
  BY <1>4, <1>7, <1>8, <1>9, <1>15 DEF TokensInv, NoTokenLost, TokenAnswered, Creates
<1>17. TokenLimitsHold'
  BY <1>1, <1>4, LimitsOfSubset DEF TokensInv, TokensOthers
<1>18. NoStaleToken'
  BY <1>4, <1>7, <1>8, <1>9 DEF TokensInv, NoStaleToken, ProjectToken, TokenAnswered
<1> QED
  BY <1>3, <1>11, <1>12, <1>13, <1>14, <1>16, <1>17, <1>18 DEF TokensInv

(* What a request makes of the tokens it read.                             *)
LEMMA WhatIsWritten ==
    ASSUME NEW r \in Request, NEW held
    PROVE  /\ job[r] \in Creates => Mutated(r, held) = held \cup {r}
           /\ job[r] = "revoke" => Mutated(r, held) = held \ {about[r]}
           /\ job[r] = "use" => Mutated(r, held) = held
           /\ job[r] = "clean" => Mutated(r, held) = {t \in held : ~ProjectToken(t)}
<1>1. CASE job[r] \in Creates
  BY <1>1 DEF Mutated, Creates
<1>2. CASE job[r] = "revoke"
  BY <1>2 DEF Mutated, Creates
<1>3. CASE job[r] = "use"
  BY <1>3 DEF Mutated, Creates
<1>4. CASE job[r] = "clean"
  BY <1>4 DEF Mutated, Creates, GoesWithProject
<1> QED
  BY <1>1, <1>2, <1>3, <1>4 DEF Creates

(* A request writes the Secret, or finds that somebody wrote it before.    *)
LEMMA MutateKeeps ==
    ASSUME TokensInv, NEW r \in Request, mutateAPITokens(r) PROVE TokensInv'
<1>1. TokensOthers /\ project \in BOOLEAN /\ refused \in BOOLEAN
  BY TokensTypes DEF TokensInv
<1>2. UNCHANGED <<job, about, copy, project, flow, flowToken, refused>> /\ tokenStep[r] = "write"
  BY DEF mutateAPITokens, deviceVars
<1>3. \A q \in Request : q # r => tokenStep'[q] = tokenStep[q]
  BY <1>1 DEF mutateAPITokens, TokensOthers
<1>4. \A q \in Request : q # r => (TokenAnswered(q)' <=> TokenAnswered(q)) /\ (TokenMade(q)' <=> TokenMade(q))
  BY <1>2, <1>3 DEF TokenAnswered, TokenMade
<1>5. ~TokenAnswered(r) /\ r \notin records /\ \A q \in Request : r \notin copy[q]
  BY <1>2 DEF TokensInv, CopyInv, TokenMade, TokenAnswered
<1>6. \A t \in Request : (ProjectToken(t)' <=> ProjectToken(t)) /\ (Revoked(t) => Revoked(t)')
  BY <1>2, <1>4, <1>5 DEF Revoked, ProjectToken
<1>7. \A q \in Request : TokenMade(q) => TokenMade(q)'
  BY <1>4, <1>5 DEF TokenMade
<1>8. \A q \in Request : tokenStep'[q] = "write" => ~Refuses(q, copy[q])'
  <2> SUFFICES ASSUME NEW q \in Request, tokenStep'[q] = "write" PROVE ~Refuses(q, copy[q])'
    OBVIOUS
  <2>1. tokenStep[q] = "write" /\ ~Refuses(q, copy[q])
    BY <1>2, <1>3 DEF TokensInv, CopyInv
  <2> QED
    BY <1>2, <2>1 DEF Refuses, tooManyTokens, HookExists, OrgTokens
<1>9. FlowInv'
  BY <1>2 DEF TokensInv, FlowInv
<1>10. project' \in BOOLEAN /\ refused' \in BOOLEAN
  BY <1>1, <1>2, Zenon
<1>11. CASE ~Current(r)
  <2>1. records' = records /\ freshReads' = freshReads /\ tokenStep'[r] \in {"read", "failed"}
        /\ tokenStep' \in [Request -> {"idle", "read", "write", "settle", "done", "failed"}]
    BY <1>1, <1>11 DEF mutateAPITokens, TokensOthers
  <2>2. ~TokenAnswered(r)'
    BY <2>1 DEF TokenAnswered
  <2>3. TokensOthers'
    BY <1>1, <1>2, <2>1 DEF TokensOthers
  <2>4. TokensTypeOK'
    BY <1>10, <2>3, Zenon DEF TokensTypeOK, TokensOthers
  <2>5. RequestInv' /\ ProjectInv'
    BY <1>2, <1>3, <2>1 DEF TokensInv, RequestInv, ProjectInv, ProjectToken
  <2>6. CopyInv'
    BY <1>1, <1>2, <1>3, <1>4, <1>5, <1>7, <1>8, <2>1, <2>2 DEF TokensInv, CopyInv, TokensOthers
  <2>7. NoTokenLost' /\ NoStaleToken'
    BY <1>1, <1>2, <1>4, <1>6, <2>1, <2>2 DEF TokensInv, NoTokenLost, NoStaleToken, TokensOthers
  <2>8. TokenLimitsHold'
    BY <1>1, <1>2, <2>1, LimitsOfSubset DEF TokensInv, TokensOthers
  <2> QED
    BY <1>9, <2>4, <2>5, <2>6, <2>7, <2>8 DEF TokensInv
<1>12. CASE Current(r)
  <2>1. copy[r] = records
    BY <1>1, <1>12 DEF Current, TokensOthers
  <2>2. /\ records' = Mutated(r, records) /\ freshReads' = {}
        /\ tokenStep'[r] = IF job[r] = "approve" THEN "settle" ELSE "done"
        /\ tokenStep' \in [Request -> {"idle", "read", "write", "settle", "done", "failed"}]
    BY <1>1, <1>12, <2>1 DEF mutateAPITokens, TokensOthers, Outdated
  <2>3. TokenAnswered(r)'
    BY <2>2 DEF TokenAnswered
  <2>4. /\ records' \subseteq records \cup {r} /\ (job[r] \notin Creates => r \notin records')
        /\ job[r] \in Creates => records' = records \cup {r}
    <3>1. job[r] \in Creates \cup {"revoke", "use", "clean"}
      BY <1>1, <1>2 DEF TokensInv, RequestInv, Jobs, TokensOthers
    <3> QED
      BY <1>5, <2>2, <3>1, WhatIsWritten
  <2>5. TokensOthers'
    BY <1>1, <1>2, <2>2, <2>4 DEF TokensOthers
  <2>6. TokensTypeOK'
    BY <1>10, <2>5, Zenon DEF TokensTypeOK, TokensOthers
  <2>7. RequestInv' /\ ProjectInv'
    BY <1>2, <1>3, <2>2 DEF TokensInv, RequestInv, ProjectInv, ProjectToken
  <2>8. CopyInv'
    <3>1. \A t \in records' : TokenMade(t)'
      BY <1>1, <1>2, <1>7, <2>3, <2>4 DEF TokensInv, CopyInv, TokenMade, TokensOthers
    <3>2. \A q \in Request : job[q] = "revoke" /\ (tokenStep'[q] = "write" \/ TokenAnswered(q)') => TokenMade(about[q])
      BY <1>2, <1>3, <1>4 DEF TokensInv, CopyInv
    <3> QED
      BY <1>1, <1>2, <1>7, <1>8, <3>1, <3>2 DEF TokensInv, CopyInv, TokensOthers
  <2>9. NoTokenLost'
    <3>1. ASSUME NEW q \in Request, job[q] \in Creates, TokenAnswered(q)', ~Revoked(q)' PROVE q \in records'
      <4>1. CASE q = r
        BY <2>4, <3>1, <4>1
      <4>2. CASE q # r
        <5>1. q \in records
          BY <1>4, <1>6, <3>1, <4>2 DEF TokensInv, NoTokenLost
        <5>2. ~(job[r] = "revoke" /\ about[r] = q) /\ ~(job[r] = "clean" /\ ProjectToken(q))
          BY <1>2, <1>6, <2>3, <3>1 DEF Revoked
        <5>3. job[r] \in Creates \cup {"revoke", "use", "clean"}
          BY <1>1, <1>2 DEF TokensInv, RequestInv, Jobs, TokensOthers
        <5> QED
          BY <2>2, <5>1, <5>2, <5>3, WhatIsWritten
      <4> QED
        BY <4>1, <4>2
    <3>2. ASSUME NEW q \in Request, job[q] = "revoke", TokenAnswered(q)' PROVE about[q] \notin records'
      <4>1. about[q] # r
        <5>1. TokenMade(about[q])
          BY <1>2, <1>4, <3>2 DEF TokensInv, CopyInv
        <5> QED
          BY <1>5, <5>1 DEF TokenMade
      <4>2. CASE q = r
        BY <2>2, <3>2, <4>2 DEF Mutated, Creates
      <4>3. CASE q # r
        BY <1>4, <2>4, <3>2, <4>1, <4>3 DEF TokensInv, NoTokenLost
      <4> QED
        BY <4>2, <4>3
    <3> QED
      BY <1>2, <3>1, <3>2 DEF NoTokenLost
  <2>10. NoStaleToken'
    <3> SUFFICES ASSUME NEW q \in Request, job[q] = "clean", TokenAnswered(q)', NEW t \in records'
                 PROVE  ~ProjectToken(t)
      BY <1>1, <1>2, <1>6, <2>4 DEF NoStaleToken, TokensOthers
    <3>1. ~ProjectToken(r)
      BY <1>2, <1>1 DEF TokensInv, ProjectInv
    <3>2. CASE q = r
      BY <2>2, <3>2 DEF Mutated, GoesWithProject, Creates
    <3>3. CASE q # r
      BY <1>4, <2>4, <3>1, <3>3 DEF TokensInv, NoStaleToken
    <3> QED
      BY <3>2, <3>3
  <2>11. TokenLimitsHold'
    <3>1. CASE job[r] \in Creates
      <4>1. ~Refuses(r, records)
        BY <1>2, <2>1 DEF TokensInv, CopyInv
      <4> QED
        BY <1>1, <1>2, <1>5, <2>4, <3>1, <4>1, LimitsOfOneMore DEF TokensInv, TokensOthers
    <3>2. CASE job[r] \notin Creates
      BY <1>1, <1>2, <1>5, <2>4, <3>2, LimitsOfSubset DEF TokensInv, TokensOthers
    <3> QED
      BY <3>1, <3>2
  <2> QED
    BY <1>9, <2>6, <2>7, <2>8, <2>9, <2>10, <2>11 DEF TokensInv
<1> QED
  BY <1>11, <1>12

(* The steps of the sign-in itself.                                        *)
LEMMA DeviceKeeps ==
    ASSUME TokensInv,
           handleDeviceStart \/ prune \/ DeviceDenied \/ handleDeviceToken \/ \E r \in Request : DeviceApproved(r)
    PROVE  TokensInv'
<1>1. TokensOthers /\ project \in BOOLEAN /\ refused \in BOOLEAN
  BY TokensTypes DEF TokensInv
<1>2. UNCHANGED <<job, about, copy, records, freshReads, project>>
  BY DEF handleDeviceStart, prune, DeviceDenied, handleDeviceToken, DeviceApproved, tokenRequests
<1>3. refused' = refused \/ refused' = TRUE
  BY Zenon DEF handleDeviceStart, prune, DeviceDenied, handleDeviceToken, DeviceApproved
<1>4. /\ tokenStep' \in [Request -> {"idle", "read", "write", "settle", "done", "failed"}]
      /\ \A q \in Request : tokenStep'[q] = tokenStep[q] \/ (tokenStep[q] = "settle" /\ tokenStep'[q] = "done")
  BY <1>1 DEF handleDeviceStart, prune, DeviceDenied, handleDeviceToken, DeviceApproved, tokenRequests, TokensOthers
<1>5. /\ flow' \in {"none", "pending", "approved", "denied", "taken"} /\ flowToken' \subseteq Request
      /\ FlowInv'
  BY <1>1 DEF handleDeviceStart, prune, DeviceDenied, handleDeviceToken, DeviceApproved, StillPending, TokensOthers,
              TokensInv, FlowInv
<1>6. TokensOthers'
  BY <1>1, <1>2, <1>4, <1>5 DEF TokensOthers
<1>7. TokensTypeOK'
  BY <1>1, <1>2, <1>3, <1>6, Zenon DEF TokensTypeOK, TokensOthers
<1>8. \A q \in Request : (TokenAnswered(q)' <=> TokenAnswered(q)) /\ (TokenMade(q)' <=> TokenMade(q))
  BY <1>2, <1>4 DEF TokenAnswered, TokenMade
<1>9. \A q \in Request : (ProjectToken(q)' <=> ProjectToken(q)) /\ (Revoked(q)' <=> Revoked(q))
  BY <1>2, <1>8 DEF ProjectToken, Revoked
<1>10. RequestInv' /\ ProjectInv'
  BY <1>2, <1>4, <1>9 DEF TokensInv, RequestInv, ProjectInv
<1>11. CopyInv'
  <2>1. \A q \in Request : tokenStep'[q] = "write" => ~Refuses(q, copy[q])'
    <3> SUFFICES ASSUME NEW q \in Request, tokenStep'[q] = "write" PROVE ~Refuses(q, copy[q])'
      OBVIOUS
    <3>1. ~Refuses(q, copy[q])
      BY <1>4 DEF TokensInv, CopyInv
    <3> QED
      BY <1>2, <3>1 DEF Refuses, tooManyTokens, HookExists, OrgTokens
  <2> QED
    BY <1>1, <1>2, <1>4, <1>8, <2>1 DEF TokensInv, CopyInv, TokensOthers
<1>12. NoTokenLost' /\ NoStaleToken'
  BY <1>1, <1>2, <1>8, <1>9 DEF TokensInv, NoTokenLost, NoStaleToken, TokensOthers
<1>13. TokenLimitsHold'
  BY <1>1, <1>2, LimitsOfSubset DEF TokensInv, TokensOthers
<1> QED
  BY <1>5, <1>7, <1>10, <1>11, <1>12, <1>13 DEF TokensInv

LEMMA TokensStep ==
    ASSUME NoTokenIncident, TokensInv, [TokensNext]_tokenVars
    PROVE  TokensInv'
<1>1. CASE UNCHANGED tokenVars
  <2>1. UNCHANGED <<job, about, tokenStep, copy, records, freshReads, project, flow, flowToken, refused>>
    BY <1>1 DEF tokenVars, tokenRequests, deviceVars
  <2> QED
    BY <2>1 DEF TokensInv, TokensTypeOK, RequestInv, CopyInv, ProjectInv, FlowInv, NoTokenLost, TokenLimitsHold, NoStaleToken,
       TokenMade, TokenAnswered, Refuses, tooManyTokens, HookExists, OrgTokens, ProjectToken, Revoked
<1>2. ASSUME NEW r \in Request, handleAPITokenCreate(r) PROVE TokensInv'
  <2>1. PICK scope \in Creates \ {"approve"} : Begins(r, scope, r) /\ (scope \in {"project", "service"} => project)
    BY <1>2 DEF handleAPITokenCreate
  <2>2. scope \in Jobs \ {"none"} /\ scope # "clean"
    BY DEF Creates, Jobs
  <2> QED
    BY <1>2, <2>1, <2>2, BeginsKeeps DEF handleAPITokenCreate
<1>3. ASSUME NEW r \in Request, handleAPITokenRevoke(r) \/ authenticateAPIToken(r) \/ handleDeviceApprove(r) PROVE TokensInv'
  <2>1. PICK what \in {"revoke", "use", "approve"}, t \in Request : Begins(r, what, t)
    BY <1>3 DEF handleAPITokenRevoke, authenticateAPIToken, handleDeviceApprove, TokensInv, TokensTypeOK
  <2>2. what \in Jobs \ {"none"} /\ what \notin {"clean", "project", "service"}
    BY DEF Creates, Jobs
  <2> QED
    BY <1>3, <2>1, <2>2, BeginsKeeps DEF handleAPITokenRevoke, authenticateAPIToken, handleDeviceApprove
<1>4. ASSUME NEW r \in Request, deleteAPITokensFor(r) PROVE TokensInv'
  <2>1. \A q \in Request : ~(ProjectToken(q) /\ tokenStep[q] \in {"read", "write"})
    BY <1>4 DEF deleteAPITokensFor, NoTokenIncident
  <2>2. "clean" \in Jobs \ {"none"}
    BY DEF Jobs
  <2> QED
    BY <1>4, <2>1, <2>2, BeginsKeeps DEF deleteAPITokensFor
<1> QED
  BY <1>1, <1>2, <1>3, <1>4, ListKeeps, MutateKeeps, DeviceKeeps DEF TokensNext

(* A device is given one token, which works or was revoked.                *)
LEMMA SignInOnce == ASSUME TokensInv, [TokensNext]_tokenVars PROVE OneSignIn
<1>1. SUFFICES ASSUME flowToken' # flowToken
               PROVE  /\ flowToken = {} /\ ~refused /\ Cardinality(flowToken') = 1
                      /\ \A r \in flowToken' : r \in records \/ Revoked(r)
  BY DEF OneSignIn
<1>2. PICK r \in Request : DeviceApproved(r)
  BY <1>1 DEF TokensNext, tokenVars, deviceVars, handleAPITokenCreate, handleAPITokenRevoke, authenticateAPIToken,
     deleteAPITokensFor, listAPITokens, mutateAPITokens, handleDeviceApprove, handleDeviceStart, prune, DeviceDenied,
     handleDeviceToken
<1>3. flow = "pending" /\ flowToken' = {r} /\ tokenStep[r] = "settle"
  BY <1>1, <1>2 DEF DeviceApproved, StillPending
<1>4. Cardinality(flowToken') = 1
  BY <1>3, FS_Singleton
<1>5. job[r] \in Creates /\ TokenAnswered(r)
  BY <1>3 DEF TokensInv, RequestInv, TokenAnswered, Creates
<1> QED
  BY <1>3, <1>4, <1>5 DEF TokensInv, FlowInv, NoTokenLost

(* However requests that make, use and revoke tokens overlap in the one    *)
(* Secret (mutateAPITokens): no token that was answered for is lost, none  *)
(* that was revoked comes back, no limit is passed, none outlives its      *)
(* project (deleteAPITokensFor) unless it was being made when the project  *)
(* was deleted; and a device is signed in once, never after a refusal      *)
(* (handleDeviceApprove).                                                  *)
THEOREM TokensKept == ASSUME NoTokenIncident PROVE TokensSpec => TokensSafe
<1> DEFINE Right == tokenVars' # tokenVars =>
                       (TokensTypeOK /\ NoTokenLost /\ TokenLimitsHold /\ NoStaleToken)' /\ OneSignIn
<1>1. TokensInv /\ [TokensNext]_tokenVars => TokensInv'
  BY TokensStep
<1>2. TokensInv /\ [TokensNext]_tokenVars => [Right]_tokenVars
  BY <1>1, SignInOnce DEF TokensInv
<1> QED
  BY TokensStart, <1>1, <1>2, PTL DEF TokensSpec, TokensSafe
=============================================================================
