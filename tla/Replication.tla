---------------------------- MODULE Replication ----------------------------
(***************************************************************************)
(* The adaptive replication manager (pkg/coordinator/replication.go): one  *)
(* goroutine that on every tick lists all objects and, for each, compares  *)
(* the number of healthy replicas with the factor of its access tier, then *)
(* scales up, scales down or just rewrites the factor.  Every database     *)
(* access and every call to a storage node is a step of its own.           *)
(*                                                                         *)
(* As in SelfHealing, ReconcileAll is the only caller of ReconcileObject,  *)
(* so the inProgress guard never fires and is not modelled; the guards of  *)
(* the two loops are separate maps and do not exclude each other.          *)
(***************************************************************************)
EXTENDS Cluster

CONSTANT Tiers    \* the access tiers an object's traffic may put it in

ASSUME TiersAssumption == Tiers \subseteq {"HOT", "WARM", "COLD"}

VARIABLE rm       \* the goroutine's control state and local variables

(* ClassifyTier: the factor a tier asks for.                               *)
TierFactor(tier) == CASE tier = "HOT"  -> MaxRF
                      [] tier = "WARM" -> DefaultRF
                      [] tier = "COLD" -> MinRF

RMPc == {"idle", "objects", "object", "tier", "count", "sync",
         "upRows", "upPlace", "upSources", "upFetch", "upPush", "upInsert",
         "upUndo", "upFactor",
         "downList", "downCheck", "downPurge", "downDrop", "downFactor"}

RMTypeOK ==
    rm \in [pc: RMPc,
            objs: SUBSET Object,       \* objects still to be reconciled
            obj: Object \cup {NoObject},
            seen: Nat,                 \* the factor GetObjectByID returned
            target: Nat,
            count: Nat,                \* healthy replicas counted at first
            nodes: SUBSET Node,        \* exclusions, sources or candidates
            dests: SUBSET Node,        \* destinations still to be pushed to
            node: Node \cup {NoNode},  \* the one being worked on
            left: Nat,                 \* prune attempts left
            done: Nat]                 \* replicas created or pruned

RMIdle == [pc |-> "idle", objs |-> {}, obj |-> NoObject, seen |-> 0,
           target |-> 0, count |-> 0, nodes |-> {}, dests |-> {},
           node |-> NoNode, left |-> 0, done |-> 0]

RMInit == rm = RMIdle

(* ReconcileObject returns: the loop of ReconcileAll takes the next one.   *)
NextObject == [RMIdle EXCEPT !.pc = "objects", !.objs = rm.objs]

RMAt(pc) == rm.pc = pc
RMGo(pc) == rm' = [rm EXCEPT !.pc = pc]

-----------------------------------------------------------------------------
(* ReconcileAll and ReconcileObject.                                       *)

(* GetAllObjects.                                                          *)
ReconcileTick ==
    /\ RMAt("idle")
    /\ rm' = [rm EXCEPT !.pc = "objects", !.objs = {o \in Object : Exists(o)}]
    /\ UNCHANGED clusterVars

ReconcileDone ==
    /\ RMAt("objects") /\ rm.objs = {}
    /\ rm' = RMIdle
    /\ UNCHANGED clusterVars

TakeObject ==
    /\ RMAt("objects")
    /\ \E o \in rm.objs :
        rm' = [rm EXCEPT !.pc = "object", !.objs = @ \ {o}, !.obj = o]
    /\ UNCHANGED clusterVars

LoadObject ==
    /\ RMAt("object")
    /\ rm' = IF Exists(rm.obj)
             THEN [rm EXCEPT !.pc = "tier", !.seen = factor[rm.obj]]
             ELSE NextObject
    /\ UNCHANGED clusterVars

(* GetObjectTier: the access log decides, and may say anything in Tiers.   *)
ReadTier ==
    /\ RMAt("tier")
    /\ \E tier \in Tiers :
        rm' = [rm EXCEPT !.pc = "count", !.target = TierFactor(tier)]
    /\ UNCHANGED clusterVars

(* Mutants of PruneExcess: the operands swapped; one replica too few.      *)
SwappedExcess(count, target) ==
    (IF target < MinRF THEN MinRF ELSE target) - count
ShortExcess(count, target) ==
    count - (IF target < MinRF THEN MinRF ELSE target) - 1

(* min(targetFactor, ...) and the excess of scaleDown: how many replicas it *)
(* will try to prune, never planning to go below MinRF.                    *)
PruneExcess(count, target) ==
    count - (IF target < MinRF THEN MinRF ELSE target)

Compare ==
    /\ RMAt("count")
    /\ LET count == CountHealthyReplicas(rm.obj)
       IN  rm' = CASE count < rm.target ->
                        [rm EXCEPT !.pc = "upRows", !.count = count]
                   [] count > rm.target ->
                        [rm EXCEPT !.pc = "downList", !.count = count,
                                   !.left = PruneExcess(count, rm.target)]
                   [] OTHER ->
                        IF rm.seen # rm.target THEN [rm EXCEPT !.pc = "sync"]
                        ELSE NextObject
    /\ UNCHANGED clusterVars

(* UpdateReplicationFactor: its error is ignored; so is the one of a       *)
(* statement that fails.                                                   *)
WriteFactor(f) ==
    /\ \E out \in TxOutcome :
        /\ TxCost(out)
        /\ IF out = "rolledBack" THEN UNCHANGED factor
           ELSE UpdateReplicationFactor(rm.obj, f)
    /\ rm' = NextObject
    /\ UNCHANGED <<replica, nodeStatus, disk, late, listed>>

SyncFactor == RMAt("sync") /\ WriteFactor(rm.target)

-----------------------------------------------------------------------------
(* scaleUp.                                                                *)

(* Mutant of ListRows: only the nodes of healthy replicas are excluded.    *)
ListHealthyRows ==
    /\ RMAt("upRows")
    /\ rm' = [rm EXCEPT !.pc = "upPlace", !.nodes = HealthyReplicas(rm.obj)]
    /\ UNCHANGED clusterVars

ListRows ==
    /\ RMAt("upRows")
    /\ rm' = [rm EXCEPT !.pc = "upPlace", !.nodes = ReplicaRows(rm.obj)]
    /\ UNCHANGED clusterVars

(* All the missing replicas at once, or none.                              *)
SelectDestinations ==
    /\ RMAt("upPlace")
    /\ LET answers == SelectNodes(rm.target - rm.count, rm.nodes)
       IN  \/ /\ answers = {}
              /\ rm' = NextObject
           \/ \E S \in answers :
                rm' = [rm EXCEPT !.pc = "upSources", !.nodes = {}, !.dests = S]
    /\ UNCHANGED clusterVars

ListSources ==
    /\ RMAt("upSources")
    /\ LET found == HealthyReplicas(rm.obj)
       IN  rm' = IF found = {} THEN NextObject
                 ELSE [rm EXCEPT !.pc = "upFetch", !.nodes = found]
    /\ UNCHANGED clusterVars

FetchCopy ==
    /\ RMAt("upFetch")
    /\ \E n \in rm.nodes :
        \/ /\ FetchVerified(rm.obj, n)
           /\ rm' = IF rm.obj \in EmptyObject THEN NextObject
                    ELSE [rm EXCEPT !.pc = "upPush", !.nodes = {}]
        \/ /\ FetchUnusable(rm.obj, n) \/ Inject("db")  \* or GetNodeByID
           /\ rm' = [rm EXCEPT !.nodes = @ \ {n}]
    /\ UNCHANGED <<factor, replica, nodeStatus, disk, late, listed>>

NoCopyFetched ==
    /\ RMAt("upFetch") /\ rm.nodes = {}
    /\ rm' = NextObject
    /\ UNCHANGED clusterVars

(* Mutant of PushCopy: a push that failed is recorded, too.                *)
PushCopyUnchecked ==
    /\ RMAt("upPush")
    /\ \E n \in rm.dests :
        /\ StoreChunk(rm.obj, n) \/ StoreChunkFails(rm.obj, n)
        /\ rm' = [rm EXCEPT !.pc = "upInsert", !.dests = @ \ {n}, !.node = n]
    /\ UNCHANGED <<factor, replica, nodeStatus, listed>>

PushCopy ==
    /\ RMAt("upPush")
    /\ \E n \in rm.dests :
        \/ /\ StoreChunk(rm.obj, n)
           /\ rm' = [rm EXCEPT !.pc = "upInsert", !.dests = @ \ {n},
                               !.node = n]
        \/ /\ StoreChunkFails(rm.obj, n)
           /\ rm' = [rm EXCEPT !.dests = @ \ {n}]
    /\ UNCHANGED <<factor, replica, nodeStatus, listed>>

(* InsertHealthyReplicaTx: any error, a UNIQUE conflict too, leads to the  *)
(* deletion of the chunk.                                                  *)
InsertCopy ==
    /\ RMAt("upInsert")
    /\ IF CanInsert(rm.obj, rm.node)
       THEN \E out \in TxOutcome :
              /\ TxCost(out)
              /\ IF out = "rolledBack" THEN UNCHANGED replica
                 ELSE SetRow(rm.obj, rm.node, "HEALTHY")
              /\ IF out = "committed"
                 THEN rm' = [rm EXCEPT !.pc = "upPush", !.node = NoNode,
                                       !.done = @ + 1]
                 ELSE RMGo("upUndo")
       ELSE RMGo("upUndo") /\ UNCHANGED <<replica, faults>>
    /\ UNCHANGED <<factor, nodeStatus, disk, late, listed>>

UndoCopy ==
    /\ RMAt("upUndo")
    /\ DeleteChunk(rm.obj, rm.node) \/ DeleteChunkFails(rm.obj, rm.node)
    /\ rm' = [rm EXCEPT !.pc = "upPush", !.node = NoNode]
    /\ UNCHANGED <<factor, replica, nodeStatus, listed>>

AllPushed ==
    /\ RMAt("upPush") /\ rm.dests = {}
    /\ rm' = IF rm.done > 0 THEN [rm EXCEPT !.pc = "upFactor"] ELSE NextObject
    /\ UNCHANGED clusterVars

(* newTotal is computed from the count of the first read.                  *)
ScaledUp == RMAt("upFactor") /\ WriteFactor(rm.count + rm.done)

-----------------------------------------------------------------------------
(* scaleDown.                                                              *)

(* The guards at its head, then the candidates.                            *)
ListCandidates ==
    /\ RMAt("downList")
    /\ LET found == HealthyReplicas(rm.obj)
       IN  rm' = IF \/ rm.count <= MinRF \/ rm.left = 0
                    \/ Cardinality(found) <= MinRF
                 THEN NextObject
                 ELSE [rm EXCEPT !.pc = "downCheck", !.nodes = found]
    /\ UNCHANGED clusterVars

(* "Safety check": at least MinRF healthy replicas must remain.  A failed  *)
(* count reads as zero and stops the loop, too.                            *)
CheckRemaining ==
    /\ RMAt("downCheck")
    /\ rm.left > 0 /\ rm.nodes # {}
    /\ \/ /\ CountHealthyReplicas(rm.obj) > MinRF
          /\ \E n \in rm.nodes :     \* the highest load first: any order
                rm' = [rm EXCEPT !.pc = "downPurge", !.nodes = @ \ {n},
                                 !.node = n, !.left = @ - 1]
          /\ NoFault
       \/ /\ \/ CountHealthyReplicas(rm.obj) <= MinRF /\ NoFault
             \/ Inject("db")
          /\ rm' = [rm EXCEPT !.left = 0]
    /\ UNCHANGED <<factor, replica, nodeStatus, disk, late, listed>>

(* Mutant of PurgeChunk: the row is dropped without a call to the node.    *)
PurgeNothing ==
    /\ RMAt("downPurge")
    /\ RMGo("downDrop")
    /\ UNCHANGED clusterVars

(* deleteFromNode: a failure is only warned about.  It is not called at all *)
(* when GetNodeByID failed while the candidates were scored.               *)
PurgeChunk ==
    /\ RMAt("downPurge")
    /\ \/ DeleteChunk(rm.obj, rm.node)
       \/ DeleteChunkFails(rm.obj, rm.node)
       \/ Inject("db") /\ UNCHANGED <<disk, late>>
    /\ RMGo("downDrop")
    /\ UNCHANGED <<factor, replica, nodeStatus, listed>>

(* DeleteReplicaTx; on an error the loop goes on without counting it.      *)
DropRow ==
    /\ RMAt("downDrop")
    /\ LET failed == [rm EXCEPT !.pc = "downCheck", !.node = NoNode]
       IN  IF replica[rm.obj][rm.node] # "NONE"
           THEN \E out \in TxOutcome :
                  /\ TxCost(out)
                  /\ IF out = "rolledBack" THEN UNCHANGED <<replica, listed>>
                     ELSE DeleteRow(rm.obj, rm.node)
                  /\ rm' = IF out = "committed"
                           THEN [failed EXCEPT !.done = @ + 1] ELSE failed
           ELSE rm' = failed /\ UNCHANGED <<replica, listed, faults>>
    /\ UNCHANGED <<factor, nodeStatus, disk, late>>

AllPruned ==
    /\ RMAt("downCheck") /\ (rm.left = 0 \/ rm.nodes = {})
    /\ rm' = IF rm.done > 0 THEN [rm EXCEPT !.pc = "downFactor"] ELSE NextObject
    /\ UNCHANGED clusterVars

ScaledDown == RMAt("downFactor") /\ WriteFactor(rm.count - rm.done)

-----------------------------------------------------------------------------
(* A failing read ends the sweep or the object's turn.                     *)
RMReadFails ==
    /\ Inject("db")
    /\ \/ RMAt("idle") /\ UNCHANGED rm
       \/ /\ rm.pc \in {"object", "tier", "count", "upRows", "upPlace",
                        "upSources", "downList"}
          /\ rm' = NextObject
    /\ UNCHANGED <<factor, replica, nodeStatus, disk, late, listed>>

RMInFlight ==
    CASE RMAt("upPush") -> {<<rm.obj, n, "store">> : n \in rm.dests}
      [] rm.pc \in {"upUndo", "downPurge"} -> {<<rm.obj, rm.node, "delete">>}
      [] OTHER -> {}

(* The process dies; the call that was under way goes on at its node.      *)
CrashRM ==
    /\ ~RMAt("idle")
    /\ Inject("crash")
    /\ rm' = RMIdle
    /\ \E orphan \in AtMostOne(RMInFlight) : late' = late \cup orphan
    /\ UNCHANGED <<factor, replica, nodeStatus, disk, listed>>

RMStep ==
    \/ ReconcileTick \/ ReconcileDone \/ TakeObject \/ LoadObject \/ ReadTier
    \/ Compare \/ SyncFactor \/ RMReadFails
    \/ ListRows \/ SelectDestinations \/ ListSources \/ FetchCopy
    \/ NoCopyFetched \/ PushCopy \/ InsertCopy \/ UndoCopy \/ AllPushed
    \/ ScaledUp
    \/ ListCandidates \/ CheckRemaining \/ PurgeChunk \/ DropRow \/ AllPruned
    \/ ScaledDown
-----------------------------------------------------------------------------
(* The manager alone against a failing cluster.                            *)

RMVars == <<clusterVars, rm>>

RMNext == \/ RMStep
          \/ CrashRM
          \/ Environment /\ UNCHANGED rm

ReplicationInit == Uploaded /\ RMInit

RMSpec == ReplicationInit /\ [][RMNext]_RMVars

ReplicationTypeOK == ClusterTypeOK /\ RMTypeOK

-----------------------------------------------------------------------------
(* Properties.                                                             *)

(* The copies a reader can rely on: a HEALTHY row and good bytes.          *)
Copies(o) == {n \in RowsWith(o, "HEALTHY") : disk[o][n] = "good"}

(* What may leave the rows and the files of an object at odds: a failed    *)
(* metadata write, a restart, a handler that outlives its caller.          *)
Mishaps == faults["db"] + faults["crash"] + faults["late"]

(* No step takes an object below MinRF copies, or below the rows it had if *)
(* those were fewer, nodes coming and going at any moment, except that a   *)
(* mishap costs one copy: the row that it leaves behind is counted by the  *)
(* next sweep's safety check.                                              *)
CopyFloor ==
    [][faults'["rot"] = 0 => \A o \in Object :
          Cardinality(Copies(o)') < Cardinality(Copies(o)) =>
              \/ Cardinality(Copies(o)') + Mishaps' >= MinRF
              \/ Cardinality(Copies(o)') + Mishaps' >=
                    Cardinality(RowsWith(o, "HEALTHY"))]_RMVars

(* A HEALTHY row whose chunk the manager itself removed: one per mishap,   *)
(* and the one it is about to delete.  In particular, undoing a scale-up   *)
(* never takes the chunk of an older row.                                  *)
Phantoms == {p \in Object \X Node : /\ replica[p[1]][p[2]] = "HEALTHY"
                                    /\ disk[p[1]][p[2]] # "good"}
BeingDropped == IF RMAt("downDrop") THEN {<<rm.obj, rm.node>>} ELSE {}
PhantomsArePaidFor ==
    faults["rot"] = 0 =>
        Cardinality(Phantoms \ BeingDropped) <= Mishaps

(* A file without a row is never cleaned up: while all nodes answer, each  *)
(* one is the price of a fault, none of a scaling that went well.          *)
Leaks == {p \in Object \X Node : /\ replica[p[1]][p[2]] = "NONE"
                                 /\ disk[p[1]][p[2]] # "none"}
BeingRecorded == IF rm.pc \in {"upInsert", "upUndo"}
                 THEN {<<rm.obj, rm.node>>} ELSE {}
LeaksArePaidFor ==
    faults["outage"] = 0 =>
        Cardinality(Leaks \ BeingRecorded) <= Mishaps + faults["net"]

(* Scaling implements its abstract specification: readers are sent to whole *)
(* files only; a file is purged and a row dropped only while more than     *)
(* MinRF rows are there, one replica at a time; nothing else touches a     *)
(* file that readers are sent to -- but for what a mishap leaves behind.   *)
ReplicaSet == INSTANCE ReplicaSet WITH
    healthy <- [o \in Object |-> RowsWith(o, "HEALTHY")],
    recovering <- [o \in Object |-> RowsWith(o, "RECOVERING")],
    lost <- [o \in Object |-> RowsWith(o, "LOST")],
    good <- [o \in Object |-> {n \in Node : disk[o][n] = "good"}],
    decayed <- faults["rot"] > 0,
    mishap <- Mishaps > 0

ScalesAsPromised == ReplicaSet!ScaleSpec

(* With a steady tier and failures that end, the sweeps reach its factor:  *)
(* an excess is pruned, a shortage is filled when a good source and enough *)
(* eligible nodes without a row are there, and the factor in the object's  *)
(* row, which scaling computes from an old count and self-healing goes by, *)
(* says in the end what there is.                                          *)
OffTarget(o, target) ==
    \/ CountHealthyReplicas(o) > target
    \/ CountHealthyReplicas(o) = target /\ factor[o] # target
    \/ /\ CountHealthyReplicas(o) < target
       /\ SelectNodes(target - CountHealthyReplicas(o), ReplicaRows(o)) # {}
       /\ \E n \in HealthyReplicas(o) : disk[o][n] = "good"
       /\ o \notin EmptyObject
TierIsReached ==
    \A tier \in Tiers : Tiers = {tier} =>
        \A o \in Object : []<>~OffTarget(o, TierFactor(tier))
=============================================================================
