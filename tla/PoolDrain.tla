----------------------------- MODULE PoolDrain -----------------------------
(***************************************************************************)
(* How an autoscaled pool takes nodes away (internal/controller/           *)
(* nodepool_scale.go from releaseDrains on, and nodedrain.go): it picks    *)
(* nodes that are not needed, cordons them, asks their pods to leave, and  *)
(* deletes a node that is empty or puts it back into service.  Beside it   *)
(* an administrator cordons and uncordons nodes, pods come and go, nodes   *)
(* fail.  The counting part of a pass is in module NodePool; here a pass   *)
(* begins with what it knows of demand.                                    *)
(*                                                                         *)
(* Nodes are numbered in the order they were created.                      *)
(***************************************************************************)
EXTENDS Naturals, FiniteSets

CONSTANTS
    Nodes,      \* how many nodes the pool begins with
    MinNodes,   \* spec.minNodes
    SpareNodes, \* spec.autoscaling.spareNodes
    MaxEmptyNodesRemoved,
    Happens     \* what may happen, of Incidents

(* lost: nodes fail or are deleted by the user; race: an administrator     *)
(* cordons a node between cordonNode's look at it and its patch; override: *)
(* an administrator uncordons a node that the pool cordoned; behind: the   *)
(* operator's cache of pods hears late of a pod that came.                 *)
Incidents == {"lost", "race", "override", "behind"}

ASSUME DrainAssumption ==
    /\ Nodes \in Nat /\ MinNodes \in Nat /\ SpareNodes \in Nat
    /\ MaxEmptyNodesRemoved \in Nat \ {0}
    /\ Happens \subseteq Incidents

Node == 1 .. Nodes

VARIABLES
    up,       \* the GeassNodes
    busy,     \* nodes with pods that would have to move
    shown,    \* such nodes as the operator's cache of pods has them
    cordoned, \* spec.unschedulable of the Kubernetes nodes
    mark,     \* nodes with the annotation geass.dev/pool-cordon
    admin,    \* nodes an administrator cordoned and wants cordoned
    pc,       \* what the pass does next
    list,     \* the pool's nodes as the pass listed them
    rest,     \* nodes the loop of the pass has still to look at
    cur,      \* the node it looks at, or 0
    saw,      \* that node was cordoned when the pass looked
    draining  \* the pass left a node that is being emptied as it is

podVars == <<busy, shown>>
clusterVars == <<up, podVars, cordoned, mark, admin>>
passVars == <<pc, list, rest, cur, saw, draining>>
vars == <<clusterVars, passVars>>

UpStates == {"ready", "coming", "deleting", "gone"}
Alive(f) == {n \in Node : f[n] \in {"ready", "coming"}}
Ready(f) == {n \in Node : f[n] = "ready"}
NoList == [n \in Node |-> "gone"]

Init ==
    /\ up = [n \in Node |-> "ready"]
    /\ busy \in SUBSET Node /\ shown = busy
    /\ cordoned = {} /\ mark = {} /\ admin = {}
    /\ pc = "idle" /\ list = NoList /\ rest = {}
    /\ cur = 0 /\ saw = FALSE /\ draining = FALSE

-----------------------------------------------------------------------------
(* The cluster, its users and its administrator.                           *)

PodsCome(n) ==
    /\ up[n] = "ready" /\ n \notin cordoned /\ n \notin busy
    /\ busy' = busy \union {n}
    /\ \/ shown' = shown \union {n}
       \/ "behind" \in Happens /\ UNCHANGED shown
    /\ UNCHANGED <<up, cordoned, mark, admin, passVars>>

(* The pods of a node have left, or the cache hears that they came.        *)
PodsSeen(n) ==
    /\ n \in busy /\ busy' \in {busy, busy \ {n}}
    /\ shown' = IF n \in busy' THEN shown \union {n} ELSE shown \ {n}
    /\ UNCHANGED <<up, cordoned, mark, admin, passVars>>

Cordon(n) ==
    /\ n \notin cordoned /\ up[n] # "gone"
    /\ (pc = "cordonPatch" /\ cur = n) => "race" \in Happens
    /\ cordoned' = cordoned \union {n}
    /\ admin' = admin \union {n}
    /\ UNCHANGED <<up, podVars, mark, passVars>>

Uncordon(n) ==
    /\ n \in cordoned
    /\ n \in mark => "override" \in Happens
    /\ cordoned' = cordoned \ {n}
    /\ admin' = admin \ {n}
    /\ UNCHANGED <<up, podVars, mark, passVars>>

Lost(n) ==
    /\ "lost" \in Happens /\ up[n] \in {"ready", "coming"}
    /\ up' \in {[up EXCEPT ![n] = "deleting"], [up EXCEPT ![n] = "coming"]}
    /\ UNCHANGED <<podVars, cordoned, mark, admin, passVars>>

Recover(n) ==
    /\ up[n] = "coming"
    /\ up' = [up EXCEPT ![n] = "ready"]
    /\ UNCHANGED <<podVars, cordoned, mark, admin, passVars>>

(* The Kubernetes node goes with the node.                                 *)
Gone(n) ==
    /\ up[n] = "deleting"
    /\ up' = [up EXCEPT ![n] = "gone"]
    /\ busy' = busy \ {n} /\ shown' = shown \ {n} /\ cordoned' = cordoned \ {n}
    /\ mark' = mark \ {n} /\ admin' = admin \ {n}
    /\ UNCHANGED passVars

-----------------------------------------------------------------------------
(* The pass.                                                               *)

EndPass ==
    /\ pc' = "idle" /\ list' = NoList /\ rest' = {}
    /\ cur' = 0 /\ saw' = FALSE /\ draining' = FALSE

(* An error or a crash.                                                    *)
Return ==
    /\ pc # "idle"
    /\ EndPass
    /\ UNCHANGED clusterVars

(* A loop is done and there is nothing more to do: after a release; in     *)
(* scaleDown while a node is being emptied, for some time after a removal  *)
(* that failed or a node that was added, and during a K3s upgrade.         *)
endPass ==
    /\ pc \in {"release", "drain", "cordon"} /\ rest = {}
    /\ EndPass
    /\ UNCHANGED clusterVars

(* manage: with pods waiting, or autoscaling turned off, the nodes being   *)
(* emptied are taken back; with no demand the drains go on.                *)
manage ==
    /\ pc = "idle"
    /\ list' = up
    /\ rest' = Alive(up)
    /\ pc' \in {"release", "drain"}
    /\ UNCHANGED <<clusterVars, cur, saw, draining>>

(* A mutant: the loop does not keep the node it looks at.                  *)
LookAndForget(from, n, next) ==
    /\ pc = from /\ n \in rest
    /\ rest' = rest \ {n}
    /\ pc' = next /\ saw' = (next # from /\ n \in cordoned)
    /\ UNCHANGED <<list, cur, draining>>

(* One turn of a loop over nodes: Get the Kubernetes node n, and pass over *)
(* it or go on to what is to be done with it.                              *)
Look(from, n, next) ==
    /\ pc = from /\ n \in rest
    /\ rest' = rest \ {n}
    /\ pc' = next /\ cur' = IF next = from THEN 0 ELSE n
    /\ saw' = (next # from /\ n \in cordoned)
    /\ UNCHANGED <<list, draining>>

NextNode(loop) == pc' = loop /\ cur' = 0 /\ saw' = FALSE /\ UNCHANGED <<list, rest, draining>>

(* A mutant: whoever cordoned the node.                                    *)
ReleaseEveryNode(n) ==
    /\ \/ n \notin cordoned /\ Look("release", n, "release")
       \/ n \in cordoned /\ Look("release", n, "releasePatch")
    /\ UNCHANGED clusterVars

(* releaseDrains, a node of the list: one that the pool marked.            *)
releaseDrains(n) ==
    /\ \/ n \notin mark /\ Look("release", n, "release")
       \/ n \in mark /\ Look("release", n, "releasePatch")
    /\ UNCHANGED clusterVars

(* A mutant: the mark stays on a node that is put back into service.       *)
UncordonKeepsMark(from, loop) ==
    /\ pc = from
    /\ cordoned' = IF saw THEN cordoned \ {cur} ELSE cordoned
    /\ NextNode(loop)
    /\ UNCHANGED <<up, podVars, mark, admin>>

(* uncordonNode, the patch.  It carries no version, and what differs from  *)
(* the node as it was read: the mark, and the cordon if there was one.     *)
uncordonNode(from, loop) ==
    /\ pc = from
    /\ cordoned' = IF saw THEN cordoned \ {cur} ELSE cordoned
    /\ mark' = mark \ {cur}
    /\ NextNode(loop)
    /\ UNCHANGED <<up, podVars, admin>>

(* continueDrains, a node of the list that the pool marked: evictFrom has  *)
(* listed its pods and asked them to leave.                                *)
continueDrains(n) ==
    \/ n \notin mark /\ Look("drain", n, "drain") /\ UNCHANGED clusterVars
    \/ n \in mark /\ n \notin shown /\ Look("drain", n, "delete") /\ UNCHANGED clusterVars
    \/ /\ n \in mark /\ n \in shown /\ pc = "drain" /\ n \in rest
       /\ rest' = rest \ {n} /\ draining' = TRUE
       /\ UNCHANGED <<clusterVars, pc, list, cur, saw>>

(* It would not empty within ScaleDownDrainTimeout, and is put back.       *)
drainTimeout(n) ==
    /\ n \in mark /\ n \in shown
    /\ Look("drain", n, "putBack")
    /\ UNCHANGED clusterVars

deleteEmptied ==
    /\ pc = "delete"
    /\ up' = IF up[cur] = "gone" THEN up ELSE [up EXCEPT ![cur] = "deleting"]
    /\ NextNode("drain")
    /\ UNCHANGED <<podVars, cordoned, mark, admin>>

(* removalBlocker: what is cordoned and not by the pool stays.             *)
Removable == {n \in Ready(list) : up[n] # "gone" /\ (n \in cordoned => n \in mark)}

(* The newest k nodes of S.                                                *)
Newest(S, k) == {n \in S : Cardinality({m \in S : m > n}) < k}

Least(a, b) == IF a <= b THEN a ELSE b

(* The nodes to remove, by how much they are used and then the newest      *)
(* first: empty ones together, all but the spare ones; or one with pods    *)
(* alone.  eligible have been under-used for long enough and their pods    *)
(* fit elsewhere; the pods of those in light request nothing, so that they *)
(* sort with the empty ones and end the group.                             *)
chosen(eligible, light) ==
    LET empty == eligible \ shown
        group == {n \in empty : \A m \in light : n > m}
        spare == Least(SpareNodes, Cardinality(empty))
        removable == Cardinality(Ready(list)) - MinNodes
        take == Least(Least(removable, MaxEmptyNodesRemoved), Cardinality(empty) - spare)
    IN  IF take > 0 /\ group # {} THEN {Newest(group, take)}
        ELSE IF light # {} THEN {Newest(light, 1)}
        ELSE {{n} : n \in eligible \intersect shown}

(* scaleDown after continueDrains: not while a node is being emptied or is *)
(* coming up, and only above the minimum.                                  *)
scaleDown ==
    /\ pc = "drain" /\ rest = {}
    /\ ~draining
    /\ \A n \in Node : list[n] # "coming"
    /\ Cardinality(Ready(list)) > MinNodes
    /\ \E eligible \in SUBSET Removable : \E light \in SUBSET (eligible \intersect shown) :
         \E c \in chosen(eligible, light) : rest' = c
    /\ pc' = "cordon"
    /\ UNCHANGED <<clusterVars, list, cur, saw, draining>>

(* cordonNode: one that is cordoned is left as it is.                      *)
cordonNode(n) ==
    /\ \/ n \in cordoned /\ Look("cordon", n, "cordon")
       \/ n \notin cordoned /\ Look("cordon", n, "cordonPatch")
    /\ UNCHANGED clusterVars

(* A mutant: the node is marked and stays schedulable.                     *)
MarkOnly ==
    /\ pc = "cordonPatch"
    /\ mark' = IF up[cur] = "gone" THEN mark ELSE mark \union {cur}
    /\ NextNode("cordon")
    /\ UNCHANGED <<up, podVars, cordoned, admin>>

cordonPatch ==
    /\ pc = "cordonPatch"
    /\ IF up[cur] = "gone" THEN UNCHANGED <<cordoned, mark>>
       ELSE cordoned' = cordoned \union {cur} /\ mark' = mark \union {cur}
    /\ NextNode("cordon")
    /\ UNCHANGED <<up, podVars, admin>>

PassOn(n) == releaseDrains(n) \/ continueDrains(n) \/ drainTimeout(n) \/ cordonNode(n)

Pass == \/ \E n \in Node : PassOn(n)
        \/ uncordonNode("releasePatch", "release") \/ uncordonNode("putBack", "drain")
        \/ deleteEmptied \/ scaleDown \/ cordonPatch \/ endPass

ClusterNext(n) == \/ PodsCome(n) \/ PodsSeen(n) \/ Cordon(n) \/ Uncordon(n)
                  \/ Lost(n) \/ Recover(n) \/ Gone(n)

Next == manage \/ Pass \/ Return \/ \E n \in Node : ClusterNext(n)

Spec == Init /\ [][Next]_vars

(* A pass ends before it is done.                                          *)
Trouble == /\ pc # "idle" /\ pc' = "idle"
           /\ pc \in {"release", "drain", "cordon"} => rest # {}

(* The work queue runs passes for ever and the pool may scale; errors end  *)
(* in the end; a node that does not empty reaches its deadline; a deleted  *)
(* node goes.                                                              *)
DrainFairness ==
    /\ WF_vars(manage) /\ WF_vars(Pass)
    /\ <>[][~Trouble]_vars
    /\ \A n \in Node : SF_vars(drainTimeout(n)) /\ WF_vars(Gone(n))

FairSpec == Spec /\ DrainFairness

-----------------------------------------------------------------------------
(* Properties.                                                             *)

TypeOK ==
    /\ up \in [Node -> UpStates]
    /\ shown \subseteq busy /\ busy \subseteq Node /\ cordoned \subseteq Node
    /\ mark \subseteq Node /\ admin \subseteq Node
    /\ pc \in {"idle", "release", "releasePatch", "drain", "putBack", "delete",
              "cordon", "cordonPatch"}
    /\ list \in [Node -> UpStates]
    /\ rest \subseteq Node /\ {saw, draining} \subseteq BOOLEAN
    /\ cur \in IF pc \in {"releasePatch", "putBack", "delete", "cordonPatch"}
              THEN Node ELSE {0}

PoolDeletes(n) == /\ pc = "delete" /\ pc' = "drain" /\ cur = n
                  /\ up[n] \in {"ready", "coming"}

(* A node that an administrator cordoned is neither put back into service  *)
(* nor removed by the pool (cordonNode, uncordonNode, continueDrains).     *)
AdminCordonKept ==
    [][\A n \in admin \intersect admin' : n \in cordoned' /\ ~PoolDeletes(n)]_vars

(* The pool deletes a node only when no pod that has to move is on it, at  *)
(* the moment of the deletion and not only when it looked.                 *)
OnlyEmptyDeleted == [][\A n \in Node : PoolDeletes(n) => n \notin busy]_vars

(* A removal never leaves the pool with fewer nodes than its minimum       *)
(* (scaleDown, continueDrains).                                            *)
NeverBelowMin ==
    [][\A n \in Node : PoolDeletes(n) => Cardinality(Alive(up')) >= MinNodes]_vars

(* A node that the pool began to empty is put back or goes, in the end.    *)
DrainEnds == \A n \in Node : n \in mark ~> n \notin mark
=============================================================================
