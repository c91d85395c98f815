-------------------------- MODULE NodePoolHistory --------------------------
(***************************************************************************)
(* NodePool with two history variables, for what the pool should remember  *)
(* and what it should forget of the machines that failed.                  *)
(***************************************************************************)
EXTENDS NodePool

VARIABLES
    forgot, \* failed nodes that a resume made the pool forget
    owed    \* failed nodes cleared away, their failure in no status yet

histVars == <<vars, forgot, owed>>

HistInit == Init /\ forgot = {} /\ owed = {}

HistNext ==
    /\ Next
    /\ forgot' = IF clearResumeRequest THEN forgot \union status.counted ELSE forgot
    /\ owed' = IF finish THEN owed \ work.counted
               ELSE IF clearFailedNodes
               THEN owed \union ({n \in Name : node[n] = "failed" /\ node'[n] = "clearing"}
                                   \ status.counted)
               ELSE owed

HistSpec == HistInit /\ [][HistNext]_histVars

(* A pool that was resumed pauses again only for a failure that the resume *)
(* did not make it forget (clearResumeRequest, accountFailures).           *)
ResumeForgets ==
    [][(status.paused = "no" /\ status'.paused = "yes")
         => ~(status'.counted \subseteq forgot)]_histVars

(* A failed node is cleared away with its failure in the pool's status     *)
(* (clearFailedNodes, finish).                                             *)
FailureKept == pc = "idle" => owed = {}
=============================================================================
