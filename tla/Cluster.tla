------------------------------- MODULE Cluster -------------------------------
(***************************************************************************)
(* The state every part of the coordinator shares: the PostgreSQL metadata *)
(* (objects, replicas, storage_nodes), the files on the storage nodes, and *)
(* the faults the environment may inject.  The repository queries of       *)
(* pkg/database are operators over it; the HTTP calls to a storage node    *)
(* and the commit of a transaction are action fragments that the component *)
(* modules conjoin with their own control state.                           *)
(*                                                                         *)
(* Each database statement (or transaction) and each HTTP call is one      *)
(* step: between two of them any other part of the system may run.         *)
(***************************************************************************)
EXTENDS Naturals, FiniteSets

CONSTANTS
    Node,         \* rows of storage_nodes: the nodes that ever registered
    Object,       \* object ids (uuid.New(): never used by two uploads)
    Stored,       \* the sets of objects that may be stored at the start
    EmptyObject,  \* the objects whose file has no bytes
    FullNode,     \* nodes over the placement thresholds (CPU, RAM, free space)
    NoNode,       \* "no node" in a process's local state
    NoObject,     \* "no object" in a process's local state
    MinRF, DefaultRF, MaxRF,  \* config.ReplicationConfig
    Factors,      \* the replication factors that uploads asked for
    FaultBound    \* how many faults of each kind a behaviour may contain

FaultKind == {"db", "net", "outage", "crash", "rot", "late"}

(* What config.Validate enforces on the configured factors, and the CHECK  *)
(* of the schema on those of the objects.                                  *)
ASSUME FactorAssumption ==
    /\ MinRF \in Nat /\ DefaultRF \in Nat /\ MaxRF \in Nat
    /\ MinRF <= DefaultRF /\ DefaultRF <= MaxRF
    /\ Factors \subseteq Nat \ {0}

ASSUME ClusterAssumption ==
    /\ NoNode \notin Node /\ NoObject \notin Object
    /\ \A S \in Stored : S \subseteq Object /\ IsFiniteSet(S)
    /\ EmptyObject \subseteq Object
    /\ FullNode \subseteq Node
    /\ FaultBound \in [FaultKind -> Nat]
    /\ IsFiniteSet(Node)

VARIABLES
    factor,      \* objects.replication_factor; 0 when the object has no row
    replica,     \* replicas: status of the (object, node) row, "NONE" without
    nodeStatus,  \* storage_nodes.status
    disk,        \* what the file {storagePath}/{object_id} holds on a node
    late,        \* calls whose handler goes on at the node, unawaited
    listed,      \* rows that self-healing listed and that are still there
    faults       \* faults injected so far, by kind

clusterVars == <<factor, replica, nodeStatus, disk, late, listed, faults>>

RowStatus == {"NONE", "HEALTHY", "RECOVERING", "LOST"}
DiskState == {"none", "good", "bad"}
NodeCall == Object \X Node \X {"store", "delete"}

ClusterTypeOK ==
    /\ factor \in [Object -> Nat]
    /\ replica \in [Object -> [Node -> RowStatus]]
    /\ nodeStatus \in [Node -> {"ONLINE", "OFFLINE"}]
    /\ disk \in [Object -> [Node -> DiskState]]
    /\ late \subseteq NodeCall
    /\ listed \subseteq Object \X Node
    /\ faults \in [FaultKind -> Nat]

-----------------------------------------------------------------------------
(* Repository queries.                                                     *)

Exists(o) == factor[o] # 0
OnlineNodes == {n \in Node : nodeStatus[n] = "ONLINE"}
OfflineNodes == Node \ OnlineNodes
ReplicaRows(o) == {n \in Node : replica[o][n] # "NONE"}
RowsWith(o, status) == {n \in Node : replica[o][n] = status}
HealthyReplicas(o) == RowsWith(o, "HEALTHY") \cap OnlineNodes
CountHealthyReplicas(o) == Cardinality(HealthyReplicas(o))

(* Mutant of SelectNodes: the exclusion set is not looked at.              *)
SelectAnyNodes(count, exclude) ==
    {S \in SUBSET (OnlineNodes \ FullNode) :
        count > 0 /\ Cardinality(S) = count}

(* The answers SelectNodes may give: the empty set is its error.  Which of *)
(* the eligible nodes it prefers depends on metrics that are left open.    *)
SelectNodes(count, exclude) ==
    {S \in SUBSET ((OnlineNodes \ FullNode) \ exclude) :
        count > 0 /\ Cardinality(S) = count}

-----------------------------------------------------------------------------
(* Metadata writes.                                                        *)

(* INSERT INTO replicas: UNIQUE(object_id, node_id) and the foreign key.   *)
CanInsert(o, n) == Exists(o) /\ replica[o][n] = "NONE"
SetRow(o, n, status) == replica' = [replica EXCEPT ![o][n] = status]

(* A deleted row's uuid never comes back, so self-healing, which goes on   *)
(* with the rows it listed, must not reach one inserted later for the pair. *)
DeleteRow(o, n) ==
    /\ SetRow(o, n, "NONE")
    /\ listed' = listed \ {<<o, n>>}

(* UPDATE objects SET replication_factor; CHECK (replication_factor >= 1). *)
UpdateReplicationFactor(o, f) ==
    factor' = IF Exists(o) /\ f >= 1 THEN [factor EXCEPT ![o] = f] ELSE factor

(* DELETE FROM objects, ON DELETE CASCADE to replicas.                     *)
DeleteObjectRow(o) ==
    /\ factor' = [factor EXCEPT ![o] = 0]
    /\ replica' = [replica EXCEPT ![o] = [n \in Node |-> "NONE"]]
    /\ listed' = listed \ ({o} \X Node)

-----------------------------------------------------------------------------
(* Faults and calls to storage nodes.                                      *)

Inject(kind) ==
    /\ faults[kind] < FaultBound[kind]
    /\ faults' = [faults EXCEPT ![kind] = @ + 1]

NoFault == UNCHANGED faults

(* A call to an OFFLINE node may fail at no cost; to an ONLINE one, only as *)
(* a network fault.  The status is metadata: a call to an OFFLINE node may *)
(* succeed, too.                                                           *)
CallFails(n) ==
    IF nodeStatus[n] = "OFFLINE" THEN NoFault ELSE Inject("net")

SetDisk(o, n, d) == disk' = [disk EXCEPT ![o][n] = d]

(* The coordinator gives up on a call (its client's timeout, or the end of *)
(* the request), but the handler at the node goes on.                      *)
GivenUp(o, n, op) ==
    /\ Inject("late")
    /\ late' = late \cup {<<o, n, op>>}
    /\ UNCHANGED disk

(* POST /internal/storage/store of verified bytes.  A failed call may have *)
(* written the file (answer lost), removed it (write error), left it       *)
(* truncated (node died) or never reached the node.                        *)
StoreChunk(o, n) == SetDisk(o, n, "good") /\ UNCHANGED late /\ NoFault
StoreChunkFails(o, n) ==
    \/ /\ CallFails(n)
       /\ \E d \in DiskState : SetDisk(o, n, d)
       /\ UNCHANGED late
    \/ GivenUp(o, n, "store")

(* DELETE /internal/storage/:id; 404 counts as success.                    *)
DeleteChunk(o, n) == SetDisk(o, n, "none") /\ UNCHANGED late /\ NoFault
DeleteChunkFails(o, n) ==
    \/ /\ CallFails(n)
       /\ \E d \in {"none", disk[o][n]} : SetDisk(o, n, d)
       /\ UNCHANGED late
    \/ GivenUp(o, n, "delete")

(* What a process that dies may leave running: the call it waits for.      *)
AtMostOne(calls) == {{}} \cup {{c} : c \in calls}

(* GET /internal/storage/:id, then the comparison of checksums.            *)
FetchVerified(o, n) == disk[o][n] = "good" /\ NoFault
FetchUnusable(o, n) ==
    \/ disk[o][n] # "good" /\ NoFault
    \/ CallFails(n)

(* A statement that writes is committed, or fails and is rolled back, or   *)
(* is committed while its caller sees an error (connection lost at COMMIT). *)
TxOutcome == {"committed", "rolledBack", "unacknowledged"}
TxCost(out) == IF out = "committed" THEN NoFault ELSE Inject("db")

-----------------------------------------------------------------------------
(* Environment.                                                            *)

(* FailureDetector.Detect marks a node OFFLINE.                            *)
NodeTimesOut(n) ==
    /\ nodeStatus[n] = "ONLINE"
    /\ Inject("outage")
    /\ nodeStatus' = [nodeStatus EXCEPT ![n] = "OFFLINE"]
    /\ UNCHANGED <<factor, replica, disk, late, listed>>

(* Mutant of NodeReturns: the node comes back with the rows written off.   *)
NodeReturnsWithRows(n) ==
    /\ nodeStatus[n] = "OFFLINE"
    /\ nodeStatus' = [nodeStatus EXCEPT ![n] = "ONLINE"]
    /\ replica' = [o \in Object |-> [replica[o] EXCEPT ![n] =
                     IF @ = "LOST" THEN "HEALTHY" ELSE @]]
    /\ UNCHANGED <<factor, disk, late, listed, faults>>

(* UpsertNode re-activates an OFFLINE node on its next heartbeat.          *)
NodeReturns(n) ==
    /\ nodeStatus[n] = "OFFLINE"
    /\ nodeStatus' = [nodeStatus EXCEPT ![n] = "ONLINE"]
    /\ UNCHANGED <<factor, replica, disk, late, listed, faults>>

(* A stored file is damaged, or lost with its volume.                      *)
ChunkRots(o, n) ==
    /\ disk[o][n] = "good"
    /\ Inject("rot")
    /\ \E d \in {"bad", "none"} : SetDisk(o, n, d)
    /\ UNCHANGED <<factor, replica, nodeStatus, late, listed>>

(* A handler nobody waits for: Store truncates the file, writes it whole,  *)
(* removes it after an error or dies on the way; Delete unlinks it or does *)
(* nothing.  Another handler of the same call may still be there.          *)
LateHandler(o, n, op) ==
    /\ <<o, n, op>> \in late
    /\ \E d \in IF op = "store" THEN DiskState ELSE {"none", disk[o][n]} :
          SetDisk(o, n, d)
    /\ late' \in {late, late \ {<<o, n, op>>}}
    /\ UNCHANGED <<factor, replica, nodeStatus, listed, faults>>

Environment ==
    \/ \E n \in Node : NodeTimesOut(n) \/ NodeReturns(n)
    \/ \E o \in Object, n \in Node : ChunkRots(o, n)
    \/ \E o \in Object, n \in Node, op \in {"store", "delete"} :
          LateHandler(o, n, op)

(* A cluster with some objects, each uploaded with a factor in Factors:    *)
(* as many HEALTHY rows as nodes that acknowledged the chunk, at least one. *)
Uploaded ==
    /\ factor \in [Object -> Factors \cup {0}]
    /\ {o \in Object : Exists(o)} \in Stored
    /\ \E holders \in [Object -> SUBSET Node] :
        /\ \A o \in Object : /\ Cardinality(holders[o]) <= factor[o]
                             /\ Exists(o) => holders[o] # {}
        /\ replica = [o \in Object |-> [n \in Node |->
                         IF n \in holders[o] THEN "HEALTHY" ELSE "NONE"]]
        /\ disk = [o \in Object |-> [n \in Node |->
                         IF n \in holders[o] THEN "good" ELSE "none"]]
    /\ nodeStatus = [n \in Node |-> "ONLINE"]
    /\ late = {} /\ listed = {}
    /\ faults = [k \in FaultKind |-> 0]
=============================================================================
