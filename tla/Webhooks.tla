------------------------------ MODULE Webhooks ------------------------------
(***************************************************************************)
(* The webhooks of a project: how one is made and deleted, which takes a   *)
(* write to the project and one to the Secret with the signing secrets     *)
(* (internal/dashboard/webhooks.go), and how an event reaches it           *)
(* (pkg/webhooks).  A hook is made once, and its id is its own.            *)
(***************************************************************************)
EXTENDS Naturals, FiniteSets, Sequences

CONSTANTS
    Hook,            \* webhooks
    MaxHooks,        \* how many a project may have
    MaxAttempts,     \* how often an event is sent
    MaxConcurrent,   \* how many deliveries run at once
    MaxDeliveries,   \* how many are remembered
    HookHappens

(* underway: a webhook is deleted while an event is on its way to it;      *)
(* together: one is made while the last one is being deleted.              *)
HookIncidents == {"underway", "together"}

ASSUME HooksAssumption ==
    /\ IsFiniteSet(Hook) /\ {MaxHooks, MaxAttempts, MaxConcurrent, MaxDeliveries} \subseteq Nat \ {0}
    /\ HookHappens \subseteq HookIncidents

VARIABLES
    hookLife,        \* none, stored, listed, unlisted, removing, gone
    hooks,       \* project.Spec.Webhooks
    keys,        \* the Secret: the hooks it has a signing secret for
    keysRead,    \* the Secret as removeWebhookSecret read it
    event,       \* of each hook: none, queued, sending, recording
    tries,       \* how often the event was sent
    signed,      \* what the delivery found of its signing secret: yes, no, unread
    deliveries   \* project.Status.WebhookDeliveries

hookVars == <<hookLife, hooks, keys, keysRead, event, tries, signed, deliveries>>

HooksInit ==
    /\ hookLife = [h \in Hook |-> "none"] /\ hooks = {} /\ keys = {} /\ keysRead = [h \in Hook |-> {}]
    /\ event = [h \in Hook |-> "none"] /\ tries = [h \in Hook |-> 0]
    /\ signed = [h \in Hook |-> "unread"] /\ deliveries = << >>

HookGoes(h, to) == hookLife' = [hookLife EXCEPT ![h] = to]
noDelivery == <<event, tries, signed, deliveries>>

-----------------------------------------------------------------------------

(* A mutant: the webhook is listed before its secret is stored.            *)
SecretLater(h) == UNCHANGED keys

(* "Store the signing secret first": upsertSecretKey, then mutateProject.  *)
SecretFirst(h) == keys' = keys \cup {h}

saveWebhook(h) ==
    /\ hookLife[h] = "none" /\ HookGoes(h, "stored") /\ SecretFirst(h)
    /\ (\E g \in Hook : hookLife[g] \in {"unlisted", "removing"}) => "together" \in HookHappens
    /\ UNCHANGED <<hooks, keysRead, noDelivery>>

(* One too many, or the write fails: the secret is taken back.             *)
ListsWebhook(h) ==
    /\ hookLife[h] = "stored"
    /\ \/ Cardinality(hooks) < MaxHooks /\ hooks' = hooks \cup {h} /\ HookGoes(h, "listed")
       \/ HookGoes(h, "unlisted") /\ UNCHANGED hooks
    /\ (\E g \in Hook \ {h} : hookLife[g] = "stored") => "together" \in HookHappens
    /\ UNCHANGED <<keys, keysRead, noDelivery>>

deleteWebhook(h) ==
    /\ hookLife[h] = "listed" /\ hooks' = hooks \ {h} /\ HookGoes(h, "unlisted")
    /\ event[h] # "none" => "underway" \in HookHappens
    /\ (\E g \in Hook : hookLife[g] = "stored") => "together" \in HookHappens
    /\ UNCHANGED <<keys, keysRead, noDelivery>>

(* removeWebhookSecret: read, then an update that a later write refuses,   *)
(* or, when nothing would be left, a delete that nothing refuses.          *)
ReadsSecret(h) ==
    /\ hookLife[h] = "unlisted" /\ HookGoes(h, "removing") /\ keysRead' = [keysRead EXCEPT ![h] = keys]
    /\ UNCHANGED <<hooks, keys, noDelivery>>

Empties(h) == keysRead[h] \subseteq {h}

removeWebhookSecret(h) ==
    /\ hookLife[h] = "removing" /\ HookGoes(h, "gone")
    /\ keys' = IF keysRead[h] = {} THEN keys ELSE IF Empties(h) THEN {} ELSE IF keysRead[h] = keys THEN keys \ {h} ELSE keys
    /\ UNCHANGED <<hooks, keysRead, noDelivery>>

rotateWebhookSecret(h) ==
    /\ hookLife[h] = "listed" /\ event[h] = "none" /\ keys' = keys \cup {h}
    /\ UNCHANGED <<hookLife, hooks, keysRead, noDelivery>>

-----------------------------------------------------------------------------
(* An event: the project's hooks are read, and each delivery waits for a   *)
(* place.                                                                  *)
Emit ==
    /\ hooks # {} /\ \A h \in Hook : event[h] = "none"
    /\ event' = [h \in Hook |-> IF h \in hooks THEN "queued" ELSE "none"]
    /\ UNCHANGED <<hookLife, hooks, keys, keysRead, tries, signed, deliveries>>

Running == {h \in Hook : event[h] \in {"sending", "recording"}}

PlaceFree == Cardinality(Running) < MaxConcurrent

(* What a delivery finds of its signing secret: a read that fails, or that *)
(* a cache answers too early, is sent without one.                         *)
signingSecret(h) == {IF h \in keys THEN "yes" ELSE "no", "unread"}

Deliver(h) ==
    /\ event[h] = "queued" /\ PlaceFree /\ event' = [event EXCEPT ![h] = "sending"]
    /\ \E got \in signingSecret(h) : signed' = [signed EXCEPT ![h] = got]
    /\ UNCHANGED <<hookLife, hooks, keys, keysRead, tries, deliveries>>

(* The two minutes of an event are over before there was a place.          *)
TimesOut(h) ==
    /\ event[h] = "queued" /\ ~PlaceFree /\ event' = [event EXCEPT ![h] = "none"]
    /\ UNCHANGED <<hookLife, hooks, keys, keysRead, tries, signed, deliveries>>

(* An answer, or one that calls for another try while there is one left.   *)
send(h) ==
    /\ event[h] = "sending" /\ tries' = [tries EXCEPT ![h] = @ + 1]
    /\ \/ tries[h] + 1 < MaxAttempts /\ UNCHANGED event
       \/ event' = [event EXCEPT ![h] = "recording"]
    /\ UNCHANGED <<hookLife, hooks, keys, keysRead, signed, deliveries>>

Shortened(log) == SubSeq(log, 1, IF Len(log) > MaxDeliveries THEN MaxDeliveries ELSE Len(log))

(* A mutant: a delivery does not give its place back.                      *)
KeepsPlace(h) == event' = event

LeavesPlace(h) == event' = [event EXCEPT ![h] = "none"]

recordDelivery(h) ==
    /\ event[h] = "recording"
    /\ LeavesPlace(h) /\ tries' = [tries EXCEPT ![h] = 0]
    /\ deliveries' \in {Shortened(<<h>> \o deliveries), deliveries}
    /\ UNCHANGED <<hookLife, hooks, keys, keysRead, signed>>

HooksNext ==
    \/ \E h \in Hook :
          \/ saveWebhook(h) \/ ListsWebhook(h) \/ deleteWebhook(h) \/ ReadsSecret(h) \/ removeWebhookSecret(h)
          \/ rotateWebhookSecret(h) \/ Deliver(h) \/ TimesOut(h) \/ send(h) \/ recordDelivery(h)
    \/ Emit

HooksSpec == HooksInit /\ [][HooksNext]_hookVars

(* A delivery goes on until it is recorded; places come free.              *)
HooksFair == \A h \in Hook : WF_hookVars(send(h) \/ recordDelivery(h)) /\ SF_hookVars(Deliver(h))

-----------------------------------------------------------------------------
HooksTypeOK ==
    /\ hookLife \in [Hook -> {"none", "stored", "listed", "unlisted", "removing", "gone"}]
    /\ hooks = {h \in Hook : hookLife[h] = "listed"} /\ Cardinality(hooks) <= MaxHooks
    /\ keys \subseteq Hook /\ keysRead \in [Hook -> SUBSET Hook]
    /\ event \in [Hook -> {"none", "queued", "sending", "recording"}]
    /\ tries \in [Hook -> 0 .. MaxAttempts] /\ signed \in [Hook -> {"yes", "no", "unread"}]
    /\ Len(deliveries) <= MaxDeliveries /\ Cardinality(Running) <= MaxConcurrent

(* "a webhook without one would be delivered unsigned" (saveWebhook): a    *)
(* delivery that reads its Secret finds a secret there, in whatever order  *)
(* hooks are made, deleted, rotated and delivered to; what goes out        *)
(* unsigned is what could not read it (signingSecret).                     *)
NeverUnsigned == \A h \in Hook : event[h] = "sending" => signed[h] # "no"

(* Webhooks (saveWebhook, Deliver) stay within their limits and have their *)
(* secret while they are delivered to.                                     *)
HooksSafe == HooksTypeOK /\ NeverUnsigned

(* Every event that is emitted is delivered or given up; one slow receiver *)
(* does not hold the others' deliveries for ever.                          *)
EventEnds == HooksFair => \A h \in Hook : event[h] = "queued" ~> event[h] = "none"
=============================================================================
