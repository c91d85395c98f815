---------------------------- MODULE ServiceAbuse ----------------------------
(***************************************************************************)
(* Abuse detection: the minute samples of the sustained-CPU signal         *)
(* (AbuseDetector, pkg/abuse), reports from outside, what administrators   *)
(* decide in the dashboard, and the AbuseReconciler that turns the two     *)
(* annotations of a service into conditions.  One project.                 *)
(***************************************************************************)
EXTENDS Naturals, FiniteSets

CONSTANTS
    Service,      \* services of the project
    Window,       \* minutes a run has to last
    MaxGap,       \* longest time between two samples of a run
    Exemption,    \* minutes a review holds
    MaxMinute,    \* bound on the time
    MaxChanges,   \* bound on the changes of a service's copies
    AbuseHappens  \* what else may happen, see AbuseIncidents

(* during: a service is cleared while a sample of it is being taken;       *)
(* unsaved: a sample ends without its runs being written, because another  *)
(* service could not be measured or the operator stopped.                  *)
AbuseIncidents == {"during", "unsaved"}

ASSUME AbuseAssumption ==
    /\ IsFiniteSet(Service) /\ Window \in Nat /\ MaxGap \in Nat /\ Exemption \in Nat /\ MaxMinute \in Nat \ {0} /\ MaxChanges \in Nat
    /\ AbuseHappens \subseteq AbuseIncidents

VARIABLES
    abuseOn,    \* spec.tenancy.abuse is set, and whether it suspends
    marks,      \* the two annotations of each service
    verdict,    \* the AbuseSuspected condition of each service
    accused,    \* the services the project's condition names
    runs,       \* the runs kept in the ConfigMap
    sampling,   \* the sample at work
    abusePass,  \* the pass of the reconciler at work
    minute,     \* the time
    sampledAt,  \* when the last sample was begun: one a minute
    copiesOf,   \* which copies each service has
    spell       \* the latest samples of each service's copies that were all at the threshold, no two further apart than MaxGap

abuseVars == <<abuseOn, marks, verdict, accused, runs, sampling, abusePass, minute, sampledAt, copiesOf, spell>>

NoSuspect == [source |-> "none", suspended |-> FALSE]
NoRun == [since |-> 0, last |-> 0, copies |-> 0]
NoSpell == [from |-> 0, last |-> 0]
NoSample == [at |-> 0, left |-> {}, runs |-> [s \in Service |-> NoRun], suspends |-> FALSE, calm |-> {}]
NoAbusePass == [working |-> FALSE, left |-> {}, accused |-> {}, again |-> TRUE]

AbuseInit ==
    /\ abuseOn \in [on : {TRUE}, suspends : BOOLEAN]
    /\ marks = [s \in Service |-> [suspect |-> NoSuspect, until |-> 0]]
    /\ verdict = [s \in Service |-> "none"] /\ accused = {} /\ minute = 1 /\ sampledAt = 0
    /\ runs = [s \in Service |-> NoRun] /\ sampling = NoSample /\ abusePass = NoAbusePass
    /\ copiesOf = [s \in Service |-> 0] /\ spell = [s \in Service |-> NoSpell]

MinutePasses ==
    /\ minute < MaxMinute /\ minute' = minute + 1
    /\ UNCHANGED <<abuseOn, marks, verdict, accused, runs, sampling, abusePass, sampledAt, copiesOf, spell>>

(* A rollout, a restart or a change in the number of copies.               *)
CopiesChange(s) ==
    /\ copiesOf[s] < MaxChanges /\ copiesOf' = [copiesOf EXCEPT ![s] = @ + 1] /\ spell' = [spell EXCEPT ![s] = NoSpell]
    /\ UNCHANGED <<abuseOn, marks, verdict, accused, runs, sampling, abusePass, minute, sampledAt>>

(* The setting is taken away: the reconciler is woken for the project.     *)
SettingGoes ==
    /\ abuseOn.on /\ abuseOn' = [abuseOn EXCEPT !.on = FALSE] /\ abusePass' = [abusePass EXCEPT !.again = TRUE]
    /\ UNCHANGED <<marks, verdict, accused, runs, sampling, minute, sampledAt, copiesOf, spell>>

(***************************************************************************)
(* Annotate: the service is read, changed and patched under its version,   *)
(* again on a conflict; a change of the annotations wakes the reconciler   *)
(* (abuseAnnotationsChanged).                                              *)
(***************************************************************************)
Suspected(s) == marks[s].suspect # NoSuspect
Annotate(s, mark) == /\ marks' = [marks EXCEPT ![s] = mark]
                     /\ abusePass' = [abusePass EXCEPT !.again = @ \/ mark # marks[s]]

handleAbuseReport(s) ==
    /\ abuseOn.on /\ ~Suspected(s)
    /\ Annotate(s, [suspect |-> [source |-> "report", suspended |-> abuseOn.suspends], until |-> 0])
    /\ UNCHANGED <<abuseOn, verdict, accused, runs, sampling, minute, sampledAt, copiesOf, spell>>

handleAbuseClear(s) ==
    /\ abuseOn.on /\ (s \in sampling.left => "during" \in AbuseHappens)
    /\ Annotate(s, [suspect |-> NoSuspect, until |-> minute + Exemption])
    /\ UNCHANGED <<abuseOn, verdict, accused, runs, sampling, minute, sampledAt, copiesOf, spell>>

handleAbuseRelease(s) ==
    /\ abuseOn.on /\ marks[s].suspect.suspended /\ Annotate(s, [marks[s] EXCEPT !.suspect.suspended = FALSE])
    /\ UNCHANGED <<abuseOn, verdict, accused, runs, sampling, minute, sampledAt, copiesOf, spell>>

(***************************************************************************)
(* AbuseDetector.Sample.                                                   *)
(***************************************************************************)
targets == {s \in Service : ~Suspected(s) /\ ~(minute < marks[s].until)}

(* The setting is gone: DeleteState.                                       *)
SampleBegins ==
    /\ sampling = NoSample /\ sampledAt < minute /\ sampledAt' = minute
    /\ IF abuseOn.on THEN /\ sampling' = [NoSample EXCEPT !.at = minute, !.left = targets, !.suspends = abuseOn.suspends] /\ UNCHANGED runs
                     ELSE /\ runs' = NoSample.runs /\ UNCHANGED sampling
    /\ UNCHANGED <<abuseOn, marks, verdict, accused, abusePass, minute, copiesOf, spell>>

(* A mutant: a run goes on over a sample that is missing.                  *)
GoesOnAnyway(run, whose) == run # NoRun

(* Observe: a sample of other copies, or too long after the last, starts a *)
(* new run.                                                                *)
GoesOn(run, whose) == run # NoRun /\ run.copies = whose /\ sampling.at > run.last /\ sampling.at - run.last <= MaxGap
Observe(run, whose) ==
    IF GoesOn(run, whose) THEN [run EXCEPT !.last = sampling.at] ELSE [since |-> sampling.at, last |-> sampling.at, copies |-> whose]
Lasted(run) == run.last - run.since >= Window

(* Below the threshold, or not measured: Measure counts only copies that   *)
(* settled.                                                                *)
Calm(s) == /\ sampling' = [sampling EXCEPT !.left = @ \ {s}, !.calm = @ \cup {s}]
           /\ spell' = [spell EXCEPT ![s] = NoSpell] /\ UNCHANGED <<marks, abusePass>>

(* What a sample at the threshold makes of the spell it may belong to.     *)
Longer(past) == IF past # NoSpell /\ sampling.at - past.last <= MaxGap THEN [past EXCEPT !.last = sampling.at]
                ELSE [from |-> sampling.at, last |-> sampling.at]

(* recordSuspect, unless a report came first.                              *)
recordSuspect(s, run) ==
    IF Suspected(s) THEN UNCHANGED <<marks, abusePass>>
    ELSE Annotate(s, [marks[s] EXCEPT !.suspect = [source |-> "cpu", suspended |-> sampling.suspends]])

(* The run is kept when it has not lasted, or could not be recorded.       *)
measure(s) ==
    /\ s \in sampling.left
    /\ \/ Calm(s)
       \/ LET run == Observe(runs[s], copiesOf[s])
          IN  /\ spell' = [spell EXCEPT ![s] = Longer(@)]
              /\ \/ Lasted(run) /\ recordSuspect(s, run) /\ sampling' = [sampling EXCEPT !.left = @ \ {s}]
                 \/ sampling' = [sampling EXCEPT !.left = @ \ {s}, !.runs[s] = run] /\ UNCHANGED <<marks, abusePass>>
    /\ UNCHANGED <<abuseOn, verdict, accused, runs, minute, sampledAt, copiesOf>>

(* StoreState.  When the metrics server did not answer the runs stay as    *)
(* they were; a sample that fails in the middle writes nothing.            *)
StoreState ==
    /\ sampling # NoSample /\ sampling.left = {} /\ sampling' = NoSample /\ runs' = sampling.runs
    /\ UNCHANGED <<abuseOn, marks, verdict, accused, abusePass, minute, sampledAt, copiesOf, spell>>

SampleFails ==
    /\ sampling # NoSample /\ sampling' = NoSample
    /\ sampling.calm # {} => "unsaved" \in AbuseHappens
    /\ UNCHANGED <<abuseOn, marks, verdict, accused, runs, abusePass, minute, sampledAt, copiesOf, spell>>

(***************************************************************************)
(* AbuseReconciler.Reconcile: each service, then the project.  It is woken *)
(* by a change of the annotations and when a review ends.                  *)
(***************************************************************************)
ReviewEnded(s) == marks[s].until > 0 /\ minute >= marks[s].until

(* A mutant: nobody looks again at a service without a mark.               *)
OnlyWhenMarked == abusePass.again

IsWoken == abusePass.again \/ \E s \in Service : ReviewEnded(s)
AbusePassBegins ==
    /\ ~abusePass.working /\ IsWoken
    /\ abusePass' = [working |-> TRUE, left |-> Service, accused |-> {}, again |-> FALSE]
    /\ UNCHANGED <<abuseOn, marks, verdict, accused, runs, sampling, minute, sampledAt, copiesOf, spell>>

Remaining(s) == IF ~abuseOn.on THEN [suspect |-> NoSuspect, until |-> 0]
                ELSE IF ReviewEnded(s) THEN [marks[s] EXCEPT !.until = 0]
                ELSE marks[s]
VerdictOf(mark) == IF mark.suspect.suspended THEN "Suspended" ELSE IF mark.suspect # NoSuspect THEN "Suspected"
                   ELSE IF mark.until > 0 THEN "Reviewed" ELSE "none"

(* The annotations are changed, and what is left of them is said.  The     *)
(* service may be marked again between its list and its condition: that    *)
(* wakes the reconciler again.                                             *)
reconcileService(s) ==
    /\ abusePass.working /\ s \in abusePass.left
    /\ LET kept == Remaining(s)
       IN  /\ marks' = [marks EXCEPT ![s] = kept]
           /\ verdict' = [verdict EXCEPT ![s] = VerdictOf(kept)]
           /\ abusePass' = [abusePass EXCEPT !.left = @ \ {s}, !.again = @ \/ kept # marks[s],
                                             !.accused = IF kept.suspect # NoSuspect THEN @ \cup {s} ELSE @]
    /\ UNCHANGED <<abuseOn, accused, runs, sampling, minute, sampledAt, copiesOf, spell>>

reconcileProject ==
    /\ abusePass.working /\ abusePass.left = {} /\ accused' = abusePass.accused
    /\ abusePass' = [NoAbusePass EXCEPT !.again = abusePass.again]
    /\ UNCHANGED <<abuseOn, marks, verdict, runs, sampling, minute, sampledAt, copiesOf, spell>>

(* An error, or the operator stops: the request is taken up again.         *)
AbusePassFails ==
    /\ abusePass.working /\ abusePass' = NoAbusePass
    /\ UNCHANGED <<abuseOn, marks, verdict, accused, runs, sampling, minute, sampledAt, copiesOf, spell>>

AbuseStep == AbusePassBegins \/ reconcileProject \/ \E s \in Service : reconcileService(s)
AbuseNext ==
    \/ MinutePasses \/ SettingGoes \/ SampleBegins \/ StoreState \/ SampleFails \/ AbuseStep \/ AbusePassFails
    \/ \E s \in Service : CopiesChange(s) \/ handleAbuseReport(s) \/ handleAbuseClear(s) \/ handleAbuseRelease(s) \/ measure(s)

AbuseSpec == AbuseInit /\ [][AbuseNext]_abuseVars

(* The reconciler works and its errors end; a sample comes to its end.     *)
AbuseFair == WF_abuseVars(AbuseStep) /\ <>[][~AbusePassFails]_abuseVars
             /\ WF_abuseVars(StoreState) /\ \A s \in Service : WF_abuseVars(measure(s))
-----------------------------------------------------------------------------
(* Types; and a suspicion is of its time.                                  *)
AbuseTypeOK ==
    /\ abuseOn \in [on : BOOLEAN, suspends : BOOLEAN] /\ minute \in 1 .. MaxMinute
    /\ \A s \in Service : /\ marks[s].suspect.source \in {"none", "cpu", "report"} /\ marks[s].until \in 0 .. MaxMinute + Exemption
                          /\ runs[s].since <= runs[s].last /\ runs[s].last <= minute
    /\ verdict \in [Service -> {"none", "Suspended", "Suspected", "Reviewed"}] /\ accused \subseteq Service
    /\ sampling.left \subseteq Service /\ abusePass.left \subseteq Service

(* "A run is broken ... by a sample that was not measured, that is below   *)
(* the threshold" and by other copies (Observe, Measure): what is          *)
(* suspected for its CPU was at the threshold in every sample that was     *)
(* taken of it for at least the window, with the same copies all the time  *)
(* and samples no further apart than MaxGap.                               *)
SustainedOnly ==
    \A s \in Service : marks'[s].suspect.source = "cpu" /\ ~Suspected(s) => spell'[s] # NoSpell /\ sampling.at - spell'[s].from >= Window

(* "The sustained-CPU signal leaves the service alone until then"          *)
(* (handleAbuseClear): no service is suspected for its CPU under a review  *)
(* that has not ended.                                                     *)
ClearedLeftAlone == \A s \in Service : marks[s].suspect.source = "cpu" => marks[s].until <= minute

(* The detection by CPU (Sample, Observe, recordSuspect), with copies that *)
(* are replaced, samples that are missing and reviews in between, marks    *)
(* only what was busy all the time and is under no review.                 *)
AbuseSafe == [][abuseVars' # abuseVars => (AbuseTypeOK /\ ClearedLeftAlone)' /\ SustainedOnly]_abuseVars

(* "With spec.tenancy.abuse unset it removes what the detection wrote"     *)
(* (AbuseReconciler), even what a sample or a report taken under the old   *)
(* setting writes after.                                                   *)
OffIsClean == AbuseFair => (~abuseOn.on ~> (accused = {} /\ \A s \in Service : ~Suspected(s) /\ verdict[s] = "none"))

(* The conditions come to say what the annotations say, and a review that  *)
(* ended is no longer said.                                                *)
VerdictAgrees ==
    AbuseFair /\ <>[][\A s \in Service : marks'[s].suspect = marks[s].suspect /\ (marks'[s].until = marks[s].until \/ ReviewEnded(s))]_abuseVars
        => <>[](/\ accused = {s \in Service : Suspected(s)}
                /\ \A s \in Service : verdict[s] = VerdictOf(marks[s]) /\ ~ReviewEnded(s))

(* What is said of services follows the settings and the marks             *)
(* (AbuseReconciler, reconcileService).                                    *)
AbuseSettles == OffIsClean /\ VerdictAgrees
=============================================================================
