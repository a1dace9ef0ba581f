---------------------------- MODULE SelfHealing ----------------------------
(***************************************************************************)
(* The self-healing engine (pkg/coordinator/self_healing.go): one          *)
(* goroutine that on every tick lists the OFFLINE nodes, lists the rows of *)
(* each, and recovers them one at a time.  Every database access and every *)
(* call to a storage node of RecoverReplica is a step of its own.          *)
(*                                                                         *)
(* The inProgress map guards RecoverReplica against a second caller; Run   *)
(* is its only one, so the guard never fires and is not modelled.          *)
(***************************************************************************)
EXTENDS Cluster

VARIABLE she    \* the goroutine's control state and local variables

Clamp(f) == IF f < MinRF THEN MinRF ELSE IF f > MaxRF THEN MaxRF ELSE f

SHEPc == {"idle", "nodes", "rows", "object", "count", "sources", "exclude",
          "place", "fetch", "record", "push", "compensate", "finalize"}

SHETypeOK ==
    she \in [pc: SHEPc,
             nodes: SUBSET Node,      \* OFFLINE nodes still to be healed
             failed: Node \cup {NoNode},
             rows: SUBSET Object,     \* its rows still to be recovered
             obj: Object \cup {NoObject},
             target: Nat,
             sources: SUBSET Node,
             exclude: SUBSET Node,
             dest: Node \cup {NoNode}]

SHEIdle == [pc |-> "idle", nodes |-> {}, failed |-> NoNode, rows |-> {},
            obj |-> NoObject, target |-> 0, sources |-> {}, exclude |-> {},
            dest |-> NoNode]

SHEInit == she = SHEIdle

(* RecoverReplica returns: the loop of HealNode takes the next row.        *)
NextRow == [she EXCEPT !.pc = "rows", !.obj = NoObject, !.target = 0,
                       !.sources = {}, !.exclude = {}, !.dest = NoNode]

At(pc) == she.pc = pc
Go(pc) == she' = [she EXCEPT !.pc = pc]

-----------------------------------------------------------------------------
(* Heal and HealNode.                                                      *)

(* GetOfflineNodes: nothing to do when there is none.                      *)
HealTick ==
    /\ At("idle")
    /\ she' = IF OfflineNodes = {} THEN she
              ELSE [she EXCEPT !.pc = "nodes", !.nodes = OfflineNodes]
    /\ UNCHANGED clusterVars

(* GetReplicasByNode; the rows that are LOST already are skipped.          *)
HealNode ==
    /\ At("nodes")
    /\ \E n \in she.nodes :
        LET rows == {o \in Object : replica[o][n] \in {"HEALTHY", "RECOVERING"}}
        IN  /\ she' = [she EXCEPT !.pc = "rows", !.nodes = @ \ {n},
                                  !.failed = n, !.rows = rows]
            /\ listed' = rows \X {n}
    /\ UNCHANGED <<factor, replica, nodeStatus, disk, late, faults>>

HealDone ==
    /\ At("nodes") /\ she.nodes = {}
    /\ she' = SHEIdle
    /\ UNCHANGED clusterVars

TakeRow ==
    /\ At("rows")
    /\ \E o \in she.rows :
        she' = [she EXCEPT !.pc = "object", !.rows = @ \ {o}, !.obj = o]
    /\ UNCHANGED clusterVars

NodeHealed ==
    /\ At("rows") /\ she.rows = {}
    /\ she' = [she EXCEPT !.pc = "nodes", !.failed = NoNode]
    /\ listed' = {}
    /\ UNCHANGED <<factor, replica, nodeStatus, disk, late, faults>>

-----------------------------------------------------------------------------
(* RecoverReplica: the reads.                                              *)

(* GetObjectByID gives the factor, clamped to [MinRF, MaxRF].              *)
ReadObject ==
    /\ At("object")
    /\ she' = IF Exists(she.obj)
              THEN [she EXCEPT !.pc = "count", !.target = Clamp(factor[she.obj])]
              ELSE NextRow
    /\ UNCHANGED clusterVars

CheckCount ==
    /\ At("count")
    /\ she' = IF CountHealthyReplicas(she.obj) >= she.target THEN NextRow
              ELSE [she EXCEPT !.pc = "sources"]
    /\ UNCHANGED clusterVars

FindSources ==
    /\ At("sources")
    /\ LET found == HealthyReplicas(she.obj)
       IN  she' = IF found = {} THEN NextRow
                  ELSE [she EXCEPT !.pc = "exclude", !.sources = found]
    /\ UNCHANGED clusterVars

(* The failed node and every node with a row of the object, LOST or not.   *)
BuildExclusion ==
    /\ At("exclude")
    /\ she' = [she EXCEPT !.pc = "place",
                          !.exclude = {she.failed} \cup ReplicaRows(she.obj)]
    /\ UNCHANGED clusterVars

SelectDestination ==
    /\ At("place")
    /\ LET answers == SelectNodes(1, she.exclude)
       IN  \/ /\ answers = {}
              /\ she' = NextRow
           \/ \E n \in Node :
                /\ {n} \in answers
                /\ she' = [she EXCEPT !.pc = "fetch", !.exclude = {},
                                      !.dest = n]
    /\ UNCHANGED clusterVars

(* Any of the reads above fails: the sweep, the node or the row is left.   *)
ReadFails ==
    /\ Inject("db")
    /\ \/ At("idle") /\ UNCHANGED she
       \/ At("nodes") /\ \E n \in she.nodes :
                            she' = [she EXCEPT !.nodes = @ \ {n}]
       \/ /\ she.pc \in {"object", "count", "sources", "exclude", "place"}
          /\ she' = NextRow
    /\ UNCHANGED <<factor, replica, nodeStatus, disk, late, listed>>

-----------------------------------------------------------------------------
(* RecoverReplica: copying the bytes and the two transactions.             *)

(* Mutants of FetchSource: the first source that cannot be used ends the   *)
(* recovery; its copy is evicted.                                          *)
FetchFirstSource ==
    /\ At("fetch")
    /\ \E n \in she.sources :
        \/ /\ FetchVerified(she.obj, n)
           /\ she' = IF she.obj \in EmptyObject THEN NextRow
                     ELSE [she EXCEPT !.pc = "record", !.sources = {}]
        \/ /\ FetchUnusable(she.obj, n) \/ Inject("db")
           /\ she' = NextRow
    /\ UNCHANGED <<factor, replica, nodeStatus, disk, late, listed>>

FetchSourceOrEvict ==
    /\ At("fetch")
    /\ \E n \in she.sources :
        \/ /\ FetchVerified(she.obj, n)
           /\ she' = [she EXCEPT !.pc = "record", !.sources = {}]
           /\ UNCHANGED disk
        \/ /\ FetchUnusable(she.obj, n)
           /\ she' = [she EXCEPT !.sources = @ \ {n}]
           /\ SetDisk(she.obj, n, "none")
    /\ UNCHANGED <<factor, replica, nodeStatus, late, listed>>

(* The first source whose bytes match the checksum ends the loop; no bytes *)
(* at all count as a failed retrieval.                                     *)
FetchSource ==
    /\ At("fetch")
    /\ \E n \in she.sources :
        \/ /\ FetchVerified(she.obj, n)
           /\ she' = IF she.obj \in EmptyObject THEN NextRow
                     ELSE [she EXCEPT !.pc = "record", !.sources = {}]
        \/ /\ FetchUnusable(she.obj, n) \/ Inject("db")  \* or GetNodeByID
           /\ she' = [she EXCEPT !.sources = @ \ {n}]
    /\ UNCHANGED <<factor, replica, nodeStatus, disk, late, listed>>

FetchExhausted ==
    /\ At("fetch") /\ she.sources = {}
    /\ she' = NextRow
    /\ UNCHANGED clusterVars

(* MarkReplicaLostTx needs the very row that was listed, InsertReplicaTx a *)
(* free (object, node) pair and an object.                                 *)
RowIsListed == <<she.obj, she.failed>> \in listed

(* Mutants of MarkLostAndInsert: the node's status is written into the     *)
(* row; the new row is HEALTHY at once; the failed row is left as it is.   *)
MarkOfflineAndInsert ==
    replica' = [replica EXCEPT ![she.obj][she.failed] = "OFFLINE",
                               ![she.obj][she.dest] = "RECOVERING"]
MarkLostAndInsertHealthy ==
    replica' = [replica EXCEPT ![she.obj][she.failed] = "LOST",
                               ![she.obj][she.dest] = "HEALTHY"]
InsertOnly == SetRow(she.obj, she.dest, "RECOVERING")

MarkLostAndInsert ==
    replica' = [replica EXCEPT ![she.obj][she.failed] = "LOST",
                               ![she.obj][she.dest] = "RECOVERING"]

RecordRecovery ==
    /\ At("record")
    /\ IF RowIsListed /\ CanInsert(she.obj, she.dest)
       THEN \E out \in TxOutcome :
              /\ TxCost(out)
              /\ IF out = "rolledBack" THEN UNCHANGED replica
                 ELSE MarkLostAndInsert
              /\ IF out = "committed" THEN Go("push") ELSE she' = NextRow
       ELSE she' = NextRow /\ UNCHANGED <<replica, faults>>
    /\ UNCHANGED <<factor, nodeStatus, disk, late, listed>>

(* Mutant of PushChunk: the answer of the node is not looked at.           *)
PushUnchecked ==
    /\ At("push")
    /\ StoreChunk(she.obj, she.dest) \/ StoreChunkFails(she.obj, she.dest)
    /\ Go("finalize")
    /\ UNCHANGED <<factor, replica, nodeStatus, listed>>

PushChunk ==
    /\ At("push")
    /\ \/ StoreChunk(she.obj, she.dest) /\ Go("finalize")
       \/ StoreChunkFails(she.obj, she.dest) /\ Go("compensate")
    /\ UNCHANGED <<factor, replica, nodeStatus, listed>>

(* UpdateReplicaStatus of the new row, which exists unless its object was  *)
(* deleted meanwhile.                                                      *)
UpdateNewRow(status) ==
    IF replica[she.obj][she.dest] # "NONE"
    THEN \E out \in TxOutcome :
            /\ TxCost(out)
            /\ IF out = "rolledBack" THEN UNCHANGED replica
               ELSE SetRow(she.obj, she.dest, status)
    ELSE UNCHANGED <<replica, faults>>

(* Mutant of Compensate: a failed push returns without touching the row.   *)
LeaveRecovering ==
    /\ At("compensate")
    /\ she' = NextRow
    /\ UNCHANGED clusterVars

Compensate ==
    /\ At("compensate")
    /\ UpdateNewRow("LOST")
    /\ she' = NextRow
    /\ UNCHANGED <<factor, nodeStatus, disk, late, listed>>

Finalize ==
    /\ At("finalize")
    /\ UpdateNewRow("HEALTHY")
    /\ she' = NextRow
    /\ UNCHANGED <<factor, nodeStatus, disk, late, listed>>

SHEInFlight ==
    IF At("push") THEN {<<she.obj, she.dest, "store">>} ELSE {}

(* The coordinator process dies: a restarted one starts from an idle loop, *)
(* while the call that was under way goes on at the node.                  *)
CrashSHE ==
    /\ ~At("idle")
    /\ Inject("crash")
    /\ she' = SHEIdle /\ listed' = {}
    /\ \E orphan \in AtMostOne(SHEInFlight) : late' = late \cup orphan
    /\ UNCHANGED <<factor, replica, nodeStatus, disk>>

SHEStep ==
    \/ HealTick \/ HealNode \/ HealDone \/ TakeRow \/ NodeHealed
    \/ ReadObject \/ CheckCount \/ FindSources \/ BuildExclusion
    \/ SelectDestination \/ ReadFails
    \/ FetchSource \/ FetchExhausted
    \/ RecordRecovery \/ PushChunk \/ Compensate \/ Finalize

-----------------------------------------------------------------------------
(* The engine alone against a failing cluster.                             *)

SHVars == <<clusterVars, she>>

SHInit == Uploaded /\ SHEInit

SHNext == \/ SHEStep
          \/ CrashSHE
          \/ Environment /\ UNCHANGED she

SHSpec == SHInit /\ [][SHNext]_SHVars

(* The ticker fires for ever and every call returns.                       *)
SHFairSpec == SHSpec /\ WF_SHVars(SHEStep)

SHTypeOK == ClusterTypeOK /\ SHETypeOK

-----------------------------------------------------------------------------
(* Properties.                                                             *)

(* "A recovered replica is only marked HEALTHY after its SHA-256 checksum  *)
(* has been verified": whatever fails, is lost or crashes on the way, a    *)
(* HEALTHY row denotes a good file, unless stored files decay by           *)
(* themselves.                                                             *)
HealthyRowsHaveBytes ==
    faults["rot"] = 0 =>
        \A o \in Object, n \in Node :
            replica[o][n] = "HEALTHY" => disk[o][n] = "good"

(* The recovery in progress and its placeholder row.                       *)
Placeholder == IF she.pc \in {"push", "compensate", "finalize"}
               THEN {<<she.obj, she.dest>>} ELSE {}
RecoveringRows == {p \in Object \X Node : replica[p[1]][p[2]] = "RECOVERING"}

(* A RECOVERING row without a recovery behind it is stuck: nothing visits  *)
(* it while its node is ONLINE.  Each one is the price of one database     *)
(* failure or crash between the two transactions; no network failure and   *)
(* no node failure leaves one.                                             *)
StuckRowsArePaidFor ==
    Cardinality(RecoveringRows \ Placeholder) <= faults["db"] + faults["crash"]

(* LOST is final: no later heartbeat, sweep or failure revives a row, so   *)
(* a returning node can never serve a copy the engine has written off.     *)
LostStaysLost ==
    [][\A o \in Object, n \in Node :
          replica[o][n] = "LOST" => replica'[o][n] = "LOST"]_SHVars

(* A recovery replaces one row by one: rows that are or may become HEALTHY *)
(* never grow in number, so repeated sweeps, crashes and returning nodes   *)
(* cannot pile up copies of an object.                                     *)
LiveRows(o) == RowsWith(o, "HEALTHY") \cup RowsWith(o, "RECOVERING")
OneForOne ==
    [][\A o \in Object :
          Cardinality(LiveRows(o)') <= Cardinality(LiveRows(o))]_SHVars

(* The engine never costs an object its bytes: while files do not decay,   *)
(* some node holds a good copy, even one whose row was written off.        *)
BytesSurvive ==
    faults["rot"] = 0 =>
        \A o \in Object : Exists(o) => \E n \in Node : disk[o][n] = "good"

(* The engine implements the healing of a replica set: whatever fails, a   *)
(* row is written off only against a replacement and while there are bytes *)
(* to copy, readers are sent to whole files only, and neither a push nor a *)
(* handler that outlives one touches a file that readers or the next       *)
(* recovery depend on.                                                     *)
Abstract == INSTANCE ReplicaSet WITH
    healthy <- [o \in Object |-> RowsWith(o, "HEALTHY")],
    recovering <- [o \in Object |-> RowsWith(o, "RECOVERING")],
    lost <- [o \in Object |-> RowsWith(o, "LOST")],
    good <- [o \in Object |-> {n \in Node : disk[o][n] = "good"}],
    decayed <- faults["rot"] > 0,
    mishap <- FALSE

HealsAsPromised == Abstract!HealSpec

(* An object with a row on an OFFLINE node that the engine can repair: too *)
(* few readable replicas, a readable source with good bytes (perhaps not   *)
(* the first it tries), and an eligible node without a row.                *)
Repairable(o, n) ==
    /\ replica[o][n] = "HEALTHY" /\ nodeStatus[n] = "OFFLINE"
    /\ CountHealthyReplicas(o) < Clamp(factor[o])
    /\ \E m \in HealthyReplicas(o) : disk[o][m] = "good"
    /\ (OnlineNodes \ FullNode) \ ReplicaRows(o) # {}
    /\ o \notin EmptyObject

(* Once failures stop, the periodic sweep repairs what can be repaired: no *)
(* repairable row stays so for ever.                                       *)
RepairsHappen == \A o \in Object, n \in Node : []<>~Repairable(o, n)

(* Claimed by the code's comments, and refuted by what it does.            *)

(* "All metadata state changes within a single recovery [...] execute      *)
(* inside a single PostgreSQL transaction so that a partial failure never  *)
(* leaves metadata in an inconsistent state" (self_healing.go:64-67): when *)
(* no recovery is under way, a stored object has a row that a reader or a  *)
(* later recovery can use, even if the one before failed to push.          *)
AlwaysAHealthyRow ==
    Placeholder = {} =>
        \A o \in Object : Exists(o) => RowsWith(o, "HEALTHY") # {}

(* "Recreates lost replicas up to the object's configured                  *)
(* replication_factor" (self_healing.go:75): with a readable source and as *)
(* many ONLINE nodes as the factor asks for, the row of an OFFLINE node    *)
(* does not stay unreplaced for ever.                                      *)
Unreplaced(o, n) ==
    /\ replica[o][n] = "HEALTHY" /\ nodeStatus[n] = "OFFLINE"
    /\ CountHealthyReplicas(o) < Clamp(factor[o])
    /\ HealthyReplicas(o) # {}
    /\ Cardinality(OnlineNodes \ FullNode) >= Clamp(factor[o])
LostReplicasRecreated == \A o \in Object, n \in Node : []<>~Unreplaced(o, n)
=============================================================================
