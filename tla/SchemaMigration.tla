-------------------------- MODULE SchemaMigration --------------------------
(***************************************************************************)
(* The migrations an operator runs before its controllers start, the       *)
(* record of how far they got, and the lease they wait for                 *)
(* (pkg/migrations, cmd/main.go).  An operator of a release knows the      *)
(* migrations up to a level.  What the stored data looks like (shape) and  *)
(* what the record says (schema) are two things.                           *)
(***************************************************************************)
EXTENDS Naturals, FiniteSets

CONSTANTS
    Operator,        \* processes that run the controllers
    MaxLevel,        \* the newest schema level of any release
    SchemaHappens    \* what else may happen

(* standby: an operator takes the lease although a newer release is past   *)
(* its wait for it, or has migrated since this one checked the record      *)
(* (neither looks again); back: an older release is started over data that *)
(* has been migrated without that being recorded.                          *)
SchemaIncidents == {"standby", "back"}

ASSUME SchemaAssumption ==
    /\ IsFiniteSet(Operator) /\ MaxLevel \in Nat \ {0}
    /\ "none" \notin Operator /\ SchemaHappens \subseteq SchemaIncidents

Levels == 0 .. MaxLevel

VARIABLES
    opAt,      \* down, begin, wait, migrate, save, last, ready, running
    opLevel,   \* the level the release of an operator knows
    stored,    \* the level it read, or has recorded since
    uptodate,  \* operators whose copy of the record is the current one
    schema,    \* the record
    shape,     \* what has been done to the data
    lease,     \* who leader election says leads
    overtaken  \* history: the data was migrated past their level since they checked

opVars == <<opAt, opLevel, stored, uptodate, overtaken>>
schemaVars == <<opVars, schema, shape, lease>>

SchemaInit ==
    /\ opAt = [o \in Operator |-> "down"] /\ opLevel = [o \in Operator |-> 1]
    /\ stored = [o \in Operator |-> 0] /\ uptodate = {} /\ overtaken = {}
    /\ schema = 0 /\ shape = 0 /\ lease = "none"

StandsAt(o, where) == opAt' = [opAt EXCEPT ![o] = where]

(* A release is installed, a newer or an older one.                        *)
OperatorStarts(o) ==
    /\ opAt[o] = "down" /\ lease # o /\ StandsAt(o, "begin")
    /\ \E l \in Levels \ {0} : opLevel' = [opLevel EXCEPT ![o] = l]
    /\ UNCHANGED <<stored, uptodate, schema, shape, lease, overtaken>>

TooNew(o) == schema > opLevel[o]

runMigrations(o) ==
    /\ opAt[o] = "begin"
    /\ shape > schema /\ opLevel[o] < shape => "back" \in SchemaHappens
    /\ stored' = [stored EXCEPT ![o] = schema] /\ uptodate' = uptodate \cup {o} /\ overtaken' = overtaken \ {o}
    /\ StandsAt(o, IF TooNew(o) THEN "down" ELSE IF schema < opLevel[o] THEN "wait" ELSE "last")
    /\ UNCHANGED <<opLevel, schema, shape, lease>>

(* A mutant: nobody waits for the operator that is replaced.               *)
NoWait(o) == TRUE

LeaseFree(o) == lease = "none"

(* The wait for the operator this one replaces, for a while.               *)
waitForLeaseRelease(o) ==
    /\ opAt[o] = "wait" /\ StandsAt(o, IF LeaseFree(o) THEN "migrate" ELSE "down")
    /\ UNCHANGED <<opLevel, stored, uptodate, schema, shape, lease, overtaken>>

Migrate(o) ==
    /\ opAt[o] = "migrate" /\ StandsAt(o, "save")
    /\ shape' = IF shape > stored[o] + 1 THEN shape ELSE stored[o] + 1
    /\ overtaken' = overtaken \cup {p \in Operator : opAt[p] \in {"last", "ready"} /\ stored[o] + 1 > opLevel[p]}
    /\ UNCHANGED <<opLevel, stored, uptodate, schema, lease>>

Unmoved(o) == o \in uptodate

(* Another operator moved the record: start over, a few times.             *)
Conflict(o) ==
    /\ ~Unmoved(o) /\ \E where \in {"begin", "down"} : StandsAt(o, where)
    /\ UNCHANGED <<stored, uptodate, schema>>

Records(o) == stored[o] + 1

save(o) ==
    /\ opAt[o] = "save"
    /\ \/ /\ Unmoved(o) /\ schema' = Records(o) /\ uptodate' = {o}
          /\ stored' = [stored EXCEPT ![o] = Records(o)]
          /\ StandsAt(o, IF Records(o) < opLevel[o] THEN "migrate" ELSE "last")
       \/ Conflict(o)
    /\ UNCHANGED <<opLevel, shape, lease, overtaken>>

(* The release is written when it is another than the record has.          *)
SaveRelease(o) ==
    /\ opAt[o] = "last"
    /\ \/ UNCHANGED <<stored, uptodate, schema>> /\ StandsAt(o, "ready")
       \/ Unmoved(o) /\ uptodate' = {o} /\ StandsAt(o, "ready") /\ UNCHANGED <<stored, schema>>
       \/ Conflict(o)
    /\ UNCHANGED <<opLevel, shape, lease, overtaken>>

(* A newer release is about to migrate, or has since o checked.            *)
Superseded(o) ==
    o \in overtaken \/ \E p \in Operator : opAt[p] \in {"migrate", "save"} /\ opLevel[p] > opLevel[o]

Leads(o) ==
    /\ opAt[o] = "ready" /\ lease = "none" /\ (Superseded(o) => "standby" \in SchemaHappens)
    /\ lease' = o /\ StandsAt(o, "running")
    /\ UNCHANGED <<opLevel, stored, uptodate, schema, shape, overtaken>>

(* It is told to stop and gives the lease back, or it is killed.           *)
OperatorStops(o) ==
    /\ opAt[o] # "down" /\ StandsAt(o, "down")
    /\ \/ lease' = IF lease = o THEN "none" ELSE lease
       \/ UNCHANGED lease
    /\ UNCHANGED <<opLevel, stored, uptodate, schema, shape, overtaken>>

LeaseExpires ==
    /\ lease # "none" /\ opAt[lease] # "running" /\ lease' = "none"
    /\ UNCHANGED <<opVars, schema, shape>>

SchemaNext ==
    \/ \E o \in Operator :
          \/ OperatorStarts(o) \/ runMigrations(o) \/ waitForLeaseRelease(o) \/ Migrate(o) \/ save(o) \/ SaveRelease(o)
          \/ Leads(o) \/ OperatorStops(o)
    \/ LeaseExpires

SchemaSpec == SchemaInit /\ [][SchemaNext]_schemaVars

-----------------------------------------------------------------------------
(* The record never says more than has been done, and a copy of it that is *)
(* current says the same.                                                  *)
SchemaTypeOK ==
    /\ opAt \in [Operator -> {"down", "begin", "wait", "migrate", "save", "last", "ready", "running"}]
    /\ opLevel \in [Operator -> Levels] /\ stored \in [Operator -> Levels] /\ uptodate \subseteq Operator
    /\ overtaken \subseteq Operator
    /\ schema \in Levels /\ shape \in Levels /\ lease \in Operator \cup {"none"}
    /\ schema <= shape /\ \A o \in uptodate : stored[o] = schema

(* "Data written by an earlier release is brought up to what this one      *)
(* reads before a single controller starts, and an operator that is older  *)
(* than the data refuses to run over it" (cmd/main.go): controllers run    *)
(* over data of their own level, whatever releases start, stop and are     *)
(* killed on the way.                                                      *)
RunsAtItsLevel ==
    \A o \in Operator : opAt[o] = "running" => shape = opLevel[o] /\ schema = opLevel[o]

(* Migrations run one after the other, none skipped, and the record only   *)
(* grows: a slow operator does not write an old level over a newer one.    *)
MigratesInOrder ==
    /\ schema' \in {schema, schema + 1} /\ shape' \in {shape, shape + 1}
    /\ shape' > shape => schema = shape

(* Releases that start, are killed and follow each other (Run of           *)
(* migrations.go): controllers only over data of their level, migrations   *)
(* in order.                                                               *)
SchemaSafe == [][schemaVars' # schemaVars => (SchemaTypeOK /\ RunsAtItsLevel)' /\ MigratesInOrder]_schemaVars
=============================================================================
