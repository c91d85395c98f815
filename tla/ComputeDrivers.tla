--------------------------- MODULE ComputeDrivers ---------------------------
(***************************************************************************)
(* The cloud drivers (under pkg/compute): the calls each makes to create   *)
(* and to delete the machine of one node, and what the contract            *)
(* (compute.Provider) promises whichever call is the last one that got     *)
(* through.  The node is given up and made again under its name, as often  *)
(* as Lives says.  The clouds are external, modelled from what the drivers *)
(* expect of them: names that are unique or not, request tokens that are   *)
(* remembered after the machine is gone, lists that show a machine at once *)
(* or not.                                                                 *)
(***************************************************************************)
EXTENDS Naturals, Sequences, FiniteSets

CONSTANTS
    Clouds,       \* the drivers to look at
    Lives,        \* how often the node is made
    MaxMachines,  \* bound: machines that are ever made for it
    DriverHappens

(* late: the list of a driver still misses the machine that an earlier     *)
(* Create made when the next one looks.                                    *)
DriverIncidents == {"late"}

(* The calls of Create up to the machine, those that follow also when the  *)
(* machine was found, and those of Delete.  `find` lists, `group`, `rules` *)
(* and `wall` see to the cluster's firewall, in two calls or one, `attach` *)
(* puts a machine behind it, `data` and `power` start one that was made    *)
(* off.  any: a machine is found whatever its state; unique: the cloud has *)
(* one machine of a name; clash: a name that is taken is looked up; token: *)
(* what the request token is made of.                                      *)
Plain == [create |-> <<"post">>, after |-> <<>>, any |-> FALSE, unique |-> FALSE,
          clash |-> FALSE, token |-> "none", delete |-> <<"delete">>]

HetznerFirewall == <<"wall">>
HetznerCreate == HetznerFirewall \o <<"post">>
HetznerFinds(d) == [d EXCEPT !.any = TRUE, !.unique = TRUE, !.clash = TRUE]
Hetzner == [HetznerFinds(Plain) EXCEPT !.create = HetznerCreate]

AwsFirewall == <<"group">>
AwsPermissions == <<"rules">>
AwsCreate == AwsFirewall \o AwsPermissions \o <<"post">>
AwsFinds(d) == [d EXCEPT !.clash = TRUE]
NameToken == "name"
AwsToken == "node"
Aws == [AwsFinds(Plain) EXCEPT !.create = AwsCreate, !.token = AwsToken]

AzureFirewall == <<"wall">>
AzureCreate == <<"find">> \o AzureFirewall \o <<"post">>
Azure == [Plain EXCEPT !.create = AzureCreate, !.unique = TRUE, !.any = TRUE]

GcpFirewall == <<"wall">>
GcpCreate == <<"find">> \o GcpFirewall \o <<"post">>
GcpToken == NameToken
Gcp == [Plain EXCEPT !.create = GcpCreate, !.unique = TRUE, !.any = TRUE, !.clash = TRUE, !.token = GcpToken]

ScalewayFirewall == <<"group", "rules">>
ScalewayCreate == <<"find">> \o ScalewayFirewall \o <<"post">>
ScalewayFinds(d) == [d EXCEPT !.any = TRUE]
ScalewayStart == <<"data", "power">>
ScalewayDelete == <<"look", "terminate", "cleanup">>
Scaleway == [ScalewayFinds(Plain) EXCEPT !.create = ScalewayCreate, !.after = ScalewayStart, !.delete = ScalewayDelete]

UpCloudFirewall == <<"attach">>
UpCloudCreate == <<"find", "post">>
UpCloudFinds(d) == [d EXCEPT !.any = TRUE]
UpCloudDelete == <<"look", "stop">>
UpCloud == [UpCloudFinds(Plain) EXCEPT !.create = UpCloudCreate, !.after = UpCloudFirewall, !.delete = UpCloudDelete]

LinodeFirewall == <<"wall">>
LinodeFinds == <<"find">>
LinodeCreate == LinodeFirewall \o LinodeFinds \o <<"post">>
Linode == [Plain EXCEPT !.create = LinodeCreate, !.unique = TRUE]

VultrFirewall == <<"group">>
VultrRules == <<"rules">>

(* A mutant: the machine of an earlier call is not looked for.             *)
FindsNothing == <<>>

VultrFinds == <<"find">>
VultrCreate == VultrFirewall \o VultrRules \o VultrFinds \o <<"post">>
Vultr == [Plain EXCEPT !.create = VultrCreate]

DigitalOceanFirewall == <<"wall">>
DigitalOceanFinds == <<"find">>
DigitalOceanCreate == DigitalOceanFirewall \o DigitalOceanFinds \o <<"post">>
DigitalOcean == [Plain EXCEPT !.create = DigitalOceanCreate]
attachNamed == <<"attach">>
DigitalOceanNamed == [Plain EXCEPT !.create = DigitalOceanFinds \o <<"post">>, !.after = attachNamed]

OciToken == NameToken
OciCreate == <<"post">>
OciDelete == <<"delete">>
Oci == [Plain EXCEPT !.create = OciCreate, !.token = OciToken, !.delete = OciDelete]

OvhCloudCreate == <<"find", "post">>
OvhCloudDelete == <<"delete">>
OvhCloud == [Plain EXCEPT !.create = OvhCloudCreate, !.any = TRUE, !.delete = OvhCloudDelete]

WebhookCreate == <<"post">>
Webhook == [Plain EXCEPT !.create = WebhookCreate, !.unique = TRUE, !.clash = TRUE]

Driver(c) ==
    CASE c = "hetzner" -> Hetzner [] c = "aws" -> Aws [] c = "azure" -> Azure [] c = "gcp" -> Gcp
      [] c = "scaleway" -> Scaleway [] c = "upcloud" -> UpCloud [] c = "linode" -> Linode
      [] c = "vultr" -> Vultr [] c = "digitalocean" -> DigitalOcean
      [] c = "digitalocean-named" -> DigitalOceanNamed [] c = "oci" -> Oci
      [] c = "ovhcloud" -> OvhCloud [] c = "webhook" -> Webhook

AllClouds == {"hetzner", "aws", "azure", "gcp", "scaleway", "upcloud", "linode", "vultr",
              "digitalocean", "digitalocean-named", "oci", "ovhcloud", "webhook"}

ASSUME DriversAssumption ==
    /\ Clouds \subseteq AllClouds /\ Clouds # {}
    /\ Lives \in Nat \ {0} /\ MaxMachines \in Nat \ {0} /\ DriverHappens \subseteq DriverIncidents

Box == 1 .. MaxMachines

VARIABLES
    cloud,     \* the driver in use
    life,      \* the node in the series of nodes of this name
    leaving,   \* that node is being deleted
    instanceID,\* status.cloud.instanceID, 0 is none
    sawReady,  \* Get has shown the machine ready
    box,       \* the machines: none, off, on, dying, gone
    born,      \* the node a machine was made for
    data,      \* machines that have the cloud-init document
    walledBoxes,    \* machines behind the firewall
    disk,      \* machines whose disk and address are still there
    group,     \* the cluster's firewall: none, bare, ruled
    memory,    \* the machine a request token stands for, 0 is none
    op,        \* the calls that are left, the last one is the answer
    hand,      \* the machine the call is about
    fresh      \* made by this very call

boxes == <<box, born, data, walledBoxes, disk>>
driverNode == <<cloud, life, leaving, instanceID, sawReady>>
driverVars == <<driverNode, boxes, group, memory, op, hand, fresh>>

D == Driver(cloud)
Token == IF D.token = "node" THEN life ELSE 1

DriversInit ==
    /\ cloud \in Clouds /\ life = 1 /\ leaving = FALSE /\ instanceID = 0 /\ sawReady = FALSE
    /\ box = [b \in Box |-> "none"] /\ born = [b \in Box |-> 0]
    /\ data = {} /\ walledBoxes = {} /\ disk = {} /\ group = "none"
    /\ memory = [t \in 1 .. Lives |-> 0]
    /\ op = <<>> /\ hand = 0 /\ fresh = FALSE

IsAlive(b) == box[b] \in {"off", "on"}
Listed == {b \in Box : box[b] \in {"off", "on"} \/ (D.any /\ box[b] = "dying")}
Taken == {b \in Box : box[b] \in {"off", "on", "dying"}}
LeastBox(s) == CHOOSE b \in s : \A c \in s : b <= c
Doing(step) == op # <<>> /\ Head(op) = step

-----------------------------------------------------------------------------
(* The node's controller (geassnode_cloud.go), and the users.              *)

(* Until the id is written down, the controller looks for the machine in   *)
(* the list, and takes the one it finds as it is.                          *)
FindsMachine ==
    /\ op = <<>> /\ ~leaving /\ life <= Lives /\ instanceID = 0
    /\ \E b \in Box : IsAlive(b) /\ instanceID' = b
    /\ UNCHANGED <<cloud, life, leaving, sawReady, boxes, group, memory, op, hand, fresh>>

(* Create is asked for when the list shows none, which it may do a moment  *)
(* too long, and again while the machine is off.                           *)
CallsCreate ==
    /\ op = <<>> /\ ~leaving /\ life <= Lives
    /\ instanceID # 0 => box[instanceID] = "off"
    /\ op' = D.create /\ hand' = 0 /\ fresh' = FALSE
    /\ UNCHANGED <<driverNode, boxes, group, memory>>

AnswersCreate ==
    /\ Doing("answer") /\ instanceID' = hand
    /\ op' = <<>> /\ hand' = 0 /\ fresh' = FALSE
    /\ UNCHANGED <<cloud, life, leaving, sawReady, boxes, group, memory>>

(* Get; at UpCloud it sees to the firewall before it calls a machine       *)
(* running.                                                                *)
Get ==
    /\ op = <<>> /\ ~leaving /\ instanceID # 0 /\ box[instanceID] = "on" /\ ~sawReady
    /\ sawReady' = TRUE
    /\ walledBoxes' = IF cloud = "upcloud" THEN walledBoxes \union {instanceID} ELSE walledBoxes
    /\ UNCHANGED <<cloud, life, leaving, instanceID, box, born, data, disk, group, memory, op, hand, fresh>>

UserDeletes ==
    /\ ~leaving /\ op = <<>> /\ life <= Lives /\ leaving' = TRUE
    /\ UNCHANGED <<cloud, life, instanceID, sawReady, boxes, group, memory, op, hand, fresh>>

(* handleCloudDeletion: Delete of the id, or of the machine that is found  *)
(* by its labels, until the machine is not alive.                          *)
ToDelete == IF instanceID # 0 THEN {instanceID} ELSE {b \in Box : IsAlive(b)}

CallsDelete ==
    /\ op = <<>> /\ leaving /\ hand' \in ToDelete
    /\ op' = D.delete \o <<"check">> /\ fresh' = FALSE
    /\ UNCHANGED <<driverNode, boxes, group, memory>>

NodeGone ==
    /\ \/ op = <<>> /\ leaving /\ ToDelete = {}
       \/ Doing("check") /\ ~IsAlive(hand)
    /\ life' = life + 1 /\ leaving' = FALSE /\ instanceID' = 0 /\ sawReady' = FALSE
    /\ op' = <<>> /\ hand' = 0
    /\ UNCHANGED <<cloud, boxes, group, memory, fresh>>

StillThere ==
    /\ Doing("check") /\ IsAlive(hand) /\ op' = <<>> /\ hand' = 0
    /\ UNCHANGED <<driverNode, boxes, group, memory, fresh>>

-----------------------------------------------------------------------------
(* The calls of Create.                                                    *)

AfterFound == D.after

(* The driver looks itself, by then at a list that has the machine.        *)
find ==
    /\ Doing("find")
    /\ \/ (Listed = {} \/ "late" \in DriverHappens) /\ op' = Tail(op) /\ UNCHANGED hand
       \/ Listed # {} /\ hand' = LeastBox(Listed) /\ op' = AfterFound \o <<"answer">>
    /\ UNCHANGED <<driverNode, boxes, group, memory, fresh>>

ensureFirewall ==
    /\ \/ Doing("group") /\ group' = IF group = "none" THEN "bare" ELSE group
       \/ (Doing("rules") \/ Doing("wall")) /\ group' = "ruled"
    /\ op' = Tail(op)
    /\ UNCHANGED <<driverNode, boxes, memory, hand, fresh>>

Walled == \E i \in 1 .. Len(D.create) : D.create[i] \in {"rules", "wall"}
Attached == \E i \in 1 .. Len(D.after) : D.after[i] = "attach"
MadeOff == \E i \in 1 .. Len(D.after) : D.after[i] = "power"

Answered(b) == hand' = b /\ op' = D.after \o <<"answer">> /\ fresh' = FALSE /\ UNCHANGED <<boxes, memory>>
Refused == op' = <<>> /\ hand' = 0 /\ fresh' = FALSE /\ UNCHANGED <<boxes, memory>>

Remembered == D.token # "none" /\ memory[Token] # 0
NameTaken == D.unique /\ Taken # {}

Makes ==
    \E b \in Box :
        /\ box[b] = "none" /\ \A c \in Box : box[c] = "none" => b <= c
        /\ box' = [box EXCEPT ![b] = IF MadeOff THEN "off" ELSE "on"]
        /\ born' = [born EXCEPT ![b] = life]
        /\ data' = IF MadeOff THEN data ELSE data \union {b}
        /\ walledBoxes' = IF Attached \/ (Walled /\ group # "ruled") THEN walledBoxes ELSE walledBoxes \union {b}
        /\ disk' = disk \union {b}
        /\ memory' = IF D.token = "none" THEN memory ELSE [memory EXCEPT ![Token] = b]
        /\ hand' = b /\ fresh' = TRUE /\ op' = D.after \o <<"answer">>

post ==
    /\ Doing("post")
    /\ \/ Remembered /\ Answered(memory[Token])
       \/ D.clash /\ (Remembered \/ NameTaken) /\ Listed # {} /\ Answered(LeastBox(Listed))
       \/ (Remembered \/ NameTaken) /\ Refused
       \/ ~Remembered /\ ~NameTaken /\ Makes
    /\ UNCHANGED <<driverNode, group>>

(* A machine that is on, or on its way out, is not started again.          *)
start ==
    /\ Doing("data") \/ Doing("power")
    /\ data' = IF Doing("data") /\ box[hand] = "off" THEN data \union {hand} ELSE data
    /\ box' = [box EXCEPT ![hand] = IF Doing("power") /\ @ = "off" THEN "on" ELSE @]
    /\ op' = Tail(op)
    /\ UNCHANGED <<driverNode, born, walledBoxes, disk, group, memory, hand, fresh>>

attach ==
    /\ Doing("attach") /\ op' = Tail(op)
    /\ walledBoxes' = walledBoxes \union {hand}
    /\ UNCHANGED <<driverNode, box, born, data, disk, group, memory, hand, fresh>>

(* The calls of Delete.                                                    *)
look ==
    /\ Doing("look")
    /\ op' = IF box[hand] = "gone" THEN <<"check">> ELSE Tail(op)
    /\ UNCHANGED <<driverNode, boxes, group, memory, hand, fresh>>

(* A started server at UpCloud is stopped, and deleted by the next call.   *)
remove ==
    /\ Doing("delete") \/ Doing("stop") \/ Doing("terminate")
    /\ box' = [box EXCEPT ![hand] = IF Doing("stop") /\ @ = "on" THEN "off"
                                    ELSE IF @ \in {"off", "on"} THEN "dying" ELSE @]
    /\ op' = Tail(op) /\ hand' = IF Len(op) = 1 THEN 0 ELSE hand
    /\ UNCHANGED <<driverNode, born, data, walledBoxes, disk, group, memory, fresh>>

(* The volumes are let go of a moment after the server is terminated; the  *)
(* call fails when that takes too long.                                    *)
cleanup ==
    /\ Doing("cleanup") /\ op' = Tail(op) /\ hand' = IF Len(op) = 1 THEN 0 ELSE hand
    /\ disk' = disk \ {hand}
    /\ UNCHANGED <<driverNode, box, born, data, walledBoxes, group, memory, fresh>>

(* The cloud is done with a machine; all but Scaleway remove its disk and  *)
(* address too, as the drivers ask them to.                                *)
BoxGoes(b) ==
    /\ box[b] = "dying" /\ box' = [box EXCEPT ![b] = "gone"]
    /\ disk' = IF cloud = "scaleway" THEN disk ELSE disk \ {b}
    /\ UNCHANGED <<driverNode, born, data, walledBoxes, group, memory, op, hand, fresh>>

(* The operator restarts; or a call fails, and a machine that this Create  *)
(* made at Scaleway and could not start is deleted.  UpCloud's firewall    *)
(* may fail without an error.                                              *)
Restarts == op # <<>> /\ op' = <<>> /\ hand' = 0
Fails ==
    /\ op # <<>> /\ ~Doing("answer")
    /\ IF cloud = "scaleway" /\ fresh /\ (Doing("data") \/ Doing("power")) THEN op' = D.delete /\ hand' = hand
       ELSE IF cloud = "upcloud" /\ Doing("attach") THEN op' = Tail(op) /\ hand' = hand
       ELSE op' = <<>> /\ hand' = 0

DriverBreaks == (Restarts \/ Fails) /\ fresh' = FALSE /\ UNCHANGED <<driverNode, boxes, group, memory>>

DriverCall == find \/ ensureFirewall \/ post \/ start \/ attach \/ look \/ remove \/ cleanup \/ AnswersCreate \/ NodeGone \/ StillThere

DriversNext ==
    \/ FindsMachine \/ CallsCreate \/ Get \/ UserDeletes \/ CallsDelete
    \/ DriverCall \/ DriverBreaks \/ \E b \in Box : BoxGoes(b)

DriversSpec == DriversInit /\ [][DriversNext]_driverVars

-----------------------------------------------------------------------------
DriversTypeOK ==
    /\ cloud \in Clouds /\ life \in 1 .. Lives + 1 /\ leaving \in BOOLEAN
    /\ instanceID \in 0 .. MaxMachines /\ sawReady \in BOOLEAN
    /\ box \in [Box -> {"none", "off", "on", "dying", "gone"}] /\ born \in [Box -> 0 .. Lives]
    /\ data \subseteq Box /\ walledBoxes \subseteq Box /\ disk \subseteq Box
    /\ group \in {"none", "bare", "ruled"} /\ memory \in [1 .. Lives -> 0 .. MaxMachines]
    /\ hand \in 0 .. MaxMachines /\ fresh \in BOOLEAN
    /\ op = <<>> => hand = 0 /\ ~fresh

(* However often Create is cut off and repeated, there is one machine for  *)
(* the node ("returns that machine instead of a second one", compute.go).  *)
OneMachine == Cardinality({b \in Box : IsAlive(b)}) <= 1

(* A machine that Get has shown ready has its cloud-init document and is   *)
(* behind the firewall, also when an earlier Create stopped half way: "The *)
(* Droplet exists; a repeated Create finds it by its tag and tries the     *)
(* firewall again" (digitalocean.go:380).                                  *)
ReadyIsGuarded == sawReady /\ box[instanceID] = "on" => instanceID \in data \intersect walledBoxes

(* The same but for DigitalOcean with a firewall that the user has named:  *)
(* the controller finds the Droplet itself, and Create is not repeated.    *)
ReadyIsGuardedElsewhere == cloud # "digitalocean-named" => ReadyIsGuarded

(* A second node of the same name is not answered with the first one's     *)
(* dead machine: "A provider that remembers a request token after the      *)
(* machine is gone includes [Incarnation] in the token" (compute.go:104).  *)
AnswersLive ==
    [][post /\ hand' # 0 => box'[hand'] # "gone"]_driverVars

(* The same of the drivers whose token has the Incarnation, or that have   *)
(* no token.                                                               *)
AnswersLiveElsewhere ==
    post /\ hand' # 0 /\ cloud \notin {"gcp", "oci"} => box'[hand'] # "gone"

(* What the twelve drivers promise of Create and Get (compute.go): one     *)
(* machine, guarded before it is shown ready, and never a dead one for an  *)
(* answer.                                                                 *)
DriversSafe == [][driverVars' # driverVars => (DriversTypeOK /\ OneMachine /\ ReadyIsGuardedElsewhere)' /\ AnswersLiveElsewhere]_driverVars

(* A machine that is deleted leaves no disk and no address behind          *)
(* (Provider.Delete, compute.go).                                          *)
NothingLeft ==
    \A b \in disk : op = <<>> /\ box[b] = "gone" => FALSE

(* A node that is deleted loses its machine.                               *)
DriversFair ==
    /\ WF_driverVars(CallsDelete) /\ WF_driverVars(DriverCall)
    /\ <>[][DriverBreaks => DriverCall]_driverVars

MachineRemovedAtLast ==
    DriversFair => (leaving ~> \A b \in Box : ~IsAlive(b))
=============================================================================
