------------------------ MODULE SelfHealing_proofs ------------------------
(***************************************************************************)
(* Theorems about the self-healing engine alone (SHSpec), for every number *)
(* of nodes and objects, every configuration of the factors and every      *)
(* budget of faults.                                                       *)
(***************************************************************************)
EXTENDS SelfHealing, FiniteSetTheorems, TLAPS

-----------------------------------------------------------------------------
(* Type correctness.                                                       *)

(* The engine starts in a state of the right types: an idle loop over a    *)
(* cluster as the uploads left it.                                         *)
LEMMA InitTyped == SHInit => SHTypeOK
<1> SUFFICES ASSUME SHInit PROVE SHTypeOK
  OBVIOUS
<1>1. factor \in [Object -> Nat]
  <2>1. factor \in [Object -> Factors \cup {0}]
    BY DEF SHInit, Uploaded
  <2>2. Factors \cup {0} \subseteq Nat
    BY FactorAssumption
  <2> QED
    BY <2>1, <2>2
<1>2. replica \in [Object -> [Node -> RowStatus]]
  BY DEF SHInit, Uploaded, RowStatus
<1>3. disk \in [Object -> [Node -> DiskState]]
  BY DEF SHInit, Uploaded, DiskState
<1>4. /\ nodeStatus \in [Node -> {"ONLINE", "OFFLINE"}]
      /\ late \subseteq NodeCall /\ listed \subseteq Object \X Node
      /\ faults \in [FaultKind -> Nat]
  BY DEF SHInit, Uploaded
<1>5. SHETypeOK
  BY DEF SHInit, SHEInit, SHEIdle, SHETypeOK, SHEPc
<1> QED
  BY <1>1, <1>2, <1>3, <1>4, <1>5 DEF SHTypeOK, ClusterTypeOK

(* Counting a fault keeps the counters natural numbers, and no counter     *)
(* ever goes down: what has decayed once stays counted.                    *)
LEMMA InjectTyped ==
    ASSUME faults \in [FaultKind -> Nat], NEW kind \in FaultKind,
           Inject(kind)
    PROVE  /\ faults' \in [FaultKind -> Nat]
           /\ faults'["rot"] = 0 => faults["rot"] = 0
           /\ kind # "rot" => faults'["rot"] = faults["rot"]
BY DEF Inject, FaultKind

(* A transaction, a lost call or nothing: faults stay typed and none of    *)
(* them is a decayed file.                                                 *)
FaultStep == /\ faults' \in [FaultKind -> Nat]
             /\ faults'["rot"] = faults["rot"]

LEMMA CallFailsTyped ==
    ASSUME faults \in [FaultKind -> Nat], NEW n, CallFails(n)
    PROVE  FaultStep
BY InjectTyped DEF CallFails, NoFault, FaultStep, FaultKind

LEMMA GivenUpTyped ==
    ASSUME faults \in [FaultKind -> Nat], late \subseteq NodeCall,
           NEW o \in Object, NEW n \in Node, NEW op \in {"store", "delete"},
           GivenUp(o, n, op)
    PROVE  FaultStep /\ late' \subseteq NodeCall
<1>1. FaultStep
  BY InjectTyped DEF GivenUp, FaultStep, FaultKind
<1>2. late' = late \cup {<<o, n, op>>} /\ <<o, n, op>> \in NodeCall
  BY DEF GivenUp, NodeCall
<1> QED
  BY <1>1, <1>2

LEMMA TxCostTyped ==
    ASSUME faults \in [FaultKind -> Nat], NEW out, TxCost(out)
    PROVE  FaultStep
BY InjectTyped DEF TxCost, NoFault, FaultStep, FaultKind

(* What a step of the engine may do to the cluster: it keeps the types and *)
(* the count of decayed files, and leaves factors and nodes alone.         *)
SHEFrame == /\ FaultStep
            /\ UNCHANGED <<factor, nodeStatus>>
            /\ replica' \in [Object -> [Node -> RowStatus]]
            /\ disk' \in [Object -> [Node -> DiskState]]
            /\ late' \subseteq NodeCall
            /\ listed' \subseteq Object \X Node

(* The local variables a control state relies on.                          *)
Locals ==
    /\ she.pc \notin {"idle", "nodes"} => she.failed \in Node
    /\ she.pc \notin {"idle", "nodes", "rows"} => she.obj \in Object
    /\ she.pc \in {"fetch", "record", "push", "compensate", "finalize"}
         => she.dest \in Node

SHEQuiet == UNCHANGED <<replica, disk, late>>

(* The steps of Heal and HealNode, the reads and the end of the fetch loop *)
(* touch neither rows nor files.                                           *)
QuietStep ==
    \/ HealTick \/ HealNode \/ HealDone \/ TakeRow \/ NodeHealed
    \/ ReadObject \/ CheckCount \/ FindSources \/ BuildExclusion
    \/ SelectDestination \/ ReadFails \/ FetchSource \/ FetchExhausted

LEMMA QuietSteps ==
    ASSUME SHTypeOK, Locals, QuietStep
    PROVE  /\ SHEQuiet /\ FaultStep /\ UNCHANGED <<factor, nodeStatus>>
           /\ listed' \subseteq Object \X Node
<1> USE DEF SHTypeOK, ClusterTypeOK, FaultStep, SHEQuiet, clusterVars
<1>1. CASE \/ HealTick \/ HealDone \/ TakeRow \/ ReadObject
           \/ CheckCount \/ FindSources \/ BuildExclusion
           \/ SelectDestination \/ FetchExhausted
  BY <1>1 DEF HealTick, HealDone, TakeRow, ReadObject, CheckCount,
              FindSources, BuildExclusion, SelectDestination, FetchExhausted
<1>2. CASE HealNode
  <2>1. PICK n \in she.nodes, rows \in SUBSET Object : listed' = rows \X {n}
    BY <1>2 DEF HealNode
  <2>2. n \in Node
    BY DEF SHETypeOK
  <2> QED
    BY <1>2, <2>1, <2>2 DEF HealNode
<1>6. CASE NodeHealed
  BY <1>6 DEF NodeHealed
<1>3. CASE ReadFails
  <2>1. FaultStep
    BY <1>3, InjectTyped DEF ReadFails, FaultKind
  <2> QED
    BY <1>3, <2>1 DEF ReadFails
<1>4. CASE FetchSource
  <2>1. FaultStep
    BY <1>4, InjectTyped, CallFailsTyped
       DEF FetchSource, FetchVerified, FetchUnusable, NoFault, FaultKind
  <2> QED
    BY <1>4, <2>1 DEF FetchSource
<1> QED
  BY <1>1, <1>2, <1>3, <1>4, <1>6 DEF QuietStep

(* A restart forgets the recovery under way; at most the push it was       *)
(* waiting for goes on.                                                    *)
LEMMA CrashStep ==
    ASSUME SHTypeOK, Locals, CrashSHE
    PROVE  /\ SHEFrame /\ UNCHANGED <<replica, disk>> /\ she' = SHEIdle
           /\ \/ UNCHANGED late
              \/ /\ At("push") /\ she.obj \in Object /\ she.dest \in Node
                 /\ late' = late \cup {<<she.obj, she.dest, "store">>}
<1> USE DEF SHTypeOK, ClusterTypeOK, CrashSHE
<1>1. FaultStep
  BY InjectTyped DEF FaultKind, FaultStep
<1>2. PICK orphan \in AtMostOne(SHEInFlight) : late' = late \cup orphan
  OBVIOUS
<1>3. CASE orphan = {}
  BY <1>1, <1>2, <1>3 DEF SHEFrame
<1>4. CASE orphan # {}
  <2>1. At("push") /\ orphan = {<<she.obj, she.dest, "store">>}
    BY <1>4 DEF AtMostOne, SHEInFlight
  <2>2. she.obj \in Object /\ she.dest \in Node
    BY <2>1 DEF Locals, At
  <2>3. late' \subseteq NodeCall
    BY <1>2, <2>1, <2>2 DEF NodeCall
  <2> QED
    BY <1>1, <1>2, <2>1, <2>2, <2>3 DEF SHEFrame
<1> QED
  BY <1>3, <1>4

(* Writing a status into the rows keeps the rows typed, whether one row is *)
(* written or the two of a recovery's first transaction.                   *)
LEMMA RowsTyped ==
    ASSUME NEW rows \in [Object -> [Node -> RowStatus]],
           NEW o \in Object, NEW n \in Node, NEW status \in RowStatus
    PROVE  [rows EXCEPT ![o][n] = status] \in [Object -> [Node -> RowStatus]]
OBVIOUS

(* UpdateReplicaStatus on the new row, or nothing when it is gone: only    *)
(* that row may change.                                                    *)
LEMMA UpdateNewRowTyped ==
    ASSUME SHTypeOK, she.obj \in Object, she.dest \in Node,
           NEW status \in RowStatus, UpdateNewRow(status)
    PROVE  /\ FaultStep
           /\ replica' \in [Object -> [Node -> RowStatus]]
           /\ \/ UNCHANGED replica
              \/ SetRow(she.obj, she.dest, status)
<1> USE DEF SHTypeOK, ClusterTypeOK
<1>1. CASE replica[she.obj][she.dest] # "NONE"
  <2>1. PICK out \in TxOutcome :
          /\ TxCost(out)
          /\ IF out = "rolledBack" THEN UNCHANGED replica
             ELSE SetRow(she.obj, she.dest, status)
    BY <1>1 DEF UpdateNewRow
  <2>2. FaultStep
    BY <2>1, TxCostTyped
  <2>3. UNCHANGED replica \/ SetRow(she.obj, she.dest, status)
    BY <2>1
  <2>4. replica' \in [Object -> [Node -> RowStatus]]
    <3>1. [replica EXCEPT ![she.obj][she.dest] = status]
            \in [Object -> [Node -> RowStatus]]
      BY RowsTyped
    <3> QED
      BY <2>3, <3>1 DEF SetRow
  <2> QED
    BY <2>2, <2>3, <2>4
<1>2. CASE replica[she.obj][she.dest] = "NONE"
  BY <1>2 DEF UpdateNewRow, FaultStep
<1> QED
  BY <1>1, <1>2

(* The four steps that write keep the types of the cluster.                *)
LEMMA WritingSteps ==
    ASSUME SHTypeOK, Locals,
           RecordRecovery \/ PushChunk \/ Compensate \/ Finalize
    PROVE  SHEFrame
<1> USE DEF SHTypeOK, ClusterTypeOK, SHEFrame
<1>1. CASE RecordRecovery
  <2> she.obj \in Object /\ she.failed \in Node /\ she.dest \in Node
    BY <1>1 DEF RecordRecovery, At, Locals
  <2>1. CASE RowIsListed /\ CanInsert(she.obj, she.dest)
    <3>1. PICK out \in TxOutcome :
            /\ TxCost(out)
            /\ IF out = "rolledBack" THEN UNCHANGED replica
               ELSE MarkLostAndInsert
      BY <1>1, <2>1 DEF RecordRecovery
    <3>2. FaultStep
      BY <3>1, TxCostTyped
    <3>3. replica' \in [Object -> [Node -> RowStatus]]
      <4> DEFINE lost == [replica EXCEPT ![she.obj][she.failed] = "LOST"]
      <4>1. lost \in [Object -> [Node -> RowStatus]]
        BY RowsTyped DEF RowStatus
      <4>2. [lost EXCEPT ![she.obj][she.dest] = "RECOVERING"]
              \in [Object -> [Node -> RowStatus]]
        BY <4>1, RowsTyped DEF RowStatus
      <4>3. MarkLostAndInsert =>
              replica' = [lost EXCEPT ![she.obj][she.dest] = "RECOVERING"]
        BY DEF MarkLostAndInsert
      <4> QED
        BY <3>1, <4>2, <4>3
    <3> QED
      BY <1>1, <3>2, <3>3 DEF RecordRecovery
  <2>2. CASE ~(RowIsListed /\ CanInsert(she.obj, she.dest))
    BY <1>1, <2>2 DEF RecordRecovery, FaultStep
  <2> QED
    BY <2>1, <2>2
<1>2. CASE PushChunk
  <2> she.obj \in Object /\ she.dest \in Node
    BY <1>2 DEF PushChunk, At, Locals
  <2>1. CASE StoreChunk(she.obj, she.dest)
    BY <1>2, <2>1 DEF PushChunk, StoreChunk, SetDisk, NoFault, FaultStep,
                      DiskState
  <2>2. CASE StoreChunkFails(she.obj, she.dest)
    <3>1. CASE GivenUp(she.obj, she.dest, "store")
      <4>1. FaultStep /\ late' \subseteq NodeCall
        BY <3>1, GivenUpTyped
      <4> QED
        BY <1>2, <3>1, <4>1 DEF PushChunk, GivenUp
    <3>2. ASSUME CallFails(she.dest), NEW d \in DiskState,
                 SetDisk(she.obj, she.dest, d), UNCHANGED late
          PROVE  SHEFrame
      <4>1. FaultStep
        BY <3>2, CallFailsTyped
      <4> QED
        BY <1>2, <3>2, <4>1 DEF PushChunk, SetDisk
    <3> QED
      BY <2>2, <3>1, <3>2 DEF StoreChunkFails
  <2> QED
    BY <1>2, <2>1, <2>2 DEF PushChunk
<1>3. CASE Compensate
  <2> she.obj \in Object /\ she.dest \in Node
    BY <1>3 DEF Compensate, At, Locals
  <2> QED
    BY <1>3, UpdateNewRowTyped DEF Compensate, RowStatus
<1>4. CASE Finalize
  <2> she.obj \in Object /\ she.dest \in Node
    BY <1>4 DEF Finalize, At, Locals
  <2> QED
    BY <1>4, UpdateNewRowTyped DEF Finalize, RowStatus
<1> QED
  BY <1>1, <1>2, <1>3, <1>4

(* No handler is under way that nobody waits for.                          *)
Settled(o, n) == \A op \in {"store", "delete"} : <<o, n, op>> \notin late

(* The environment keeps the types of the cluster and starts no handler;   *)
(* it changes no row, and a file only at the price of a counted decay or   *)
(* by a handler that goes on.                                              *)
LEMMA EnvironmentTyped ==
    ASSUME SHTypeOK, Environment
    PROVE  /\ ClusterTypeOK'
           /\ UNCHANGED <<factor, replica>>
           /\ late' \subseteq late
           /\ faults'["rot"] = 0 =>
                /\ faults["rot"] = 0
                /\ \A o \in Object, n \in Node :
                     Settled(o, n) => disk'[o][n] = disk[o][n]
<1> USE DEF SHTypeOK, ClusterTypeOK
<1>1. ASSUME NEW n \in Node, NodeTimesOut(n)
      PROVE  /\ ClusterTypeOK' /\ UNCHANGED <<factor, replica, disk, late>>
             /\ faults'["rot"] = faults["rot"]
  <2>1. faults' \in [FaultKind -> Nat] /\ faults'["rot"] = faults["rot"]
    BY <1>1, InjectTyped DEF NodeTimesOut, FaultKind
  <2> QED
    BY <1>1, <2>1 DEF NodeTimesOut
<1>2. ASSUME NEW n \in Node, NodeReturns(n)
      PROVE  ClusterTypeOK' /\ UNCHANGED <<factor, replica, disk, late, faults>>
  BY <1>2 DEF NodeReturns
<1>3. ASSUME NEW o \in Object, NEW n \in Node, ChunkRots(o, n)
      PROVE  /\ ClusterTypeOK' /\ UNCHANGED <<factor, replica, late>>
             /\ faults'["rot"] # 0
  <2>1. faults' \in [FaultKind -> Nat] /\ faults'["rot"] # 0
    BY <1>3 DEF ChunkRots, Inject, FaultKind
  <2>2. disk' \in [Object -> [Node -> DiskState]]
    BY <1>3 DEF ChunkRots, SetDisk, DiskState
  <2> QED
    BY <1>3, <2>1, <2>2 DEF ChunkRots
<1>4. ASSUME NEW o \in Object, NEW n \in Node, NEW op \in {"store", "delete"},
             LateHandler(o, n, op)
      PROVE  /\ ClusterTypeOK' /\ UNCHANGED <<factor, replica, faults>>
             /\ late' \subseteq late /\ ~Settled(o, n)
             /\ \A p \in Object, m \in Node :
                  ~(p = o /\ m = n) => disk'[p][m] = disk[p][m]
  <2>1. PICK d \in DiskState : SetDisk(o, n, d)
    BY <1>4 DEF LateHandler, DiskState
  <2>2. disk' \in [Object -> [Node -> DiskState]]
    BY <2>1 DEF SetDisk
  <2>3. late' \subseteq late
    BY <1>4 DEF LateHandler
  <2> QED
    BY <1>4, <2>1, <2>2, <2>3 DEF LateHandler, SetDisk, Settled
<1>5. CASE \E n \in Node : NodeTimesOut(n) \/ NodeReturns(n)
  BY <1>1, <1>2, <1>5
<1>6. CASE \E o \in Object, n \in Node : ChunkRots(o, n)
  BY <1>3, <1>6
<1>7. CASE \E o \in Object, n \in Node, op \in {"store", "delete"} :
              LateHandler(o, n, op)
  BY <1>4, <1>7
<1> QED
  BY <1>5, <1>6, <1>7 DEF Environment

-----------------------------------------------------------------------------
(* The inductive invariant.                                                *)

InRecovery == she.pc \in {"push", "compensate", "finalize"}

(* The row of the recovery under way is RECOVERING, and once the push has  *)
(* been acknowledged the bytes are there.                                  *)
PlaceholderInv ==
    /\ InRecovery => /\ replica[she.obj][she.dest] = "RECOVERING"
                     /\ Exists(she.obj)
    /\ At("finalize") /\ faults["rot"] = 0 => disk[she.obj][she.dest] = "good"

(* The sources have HEALTHY rows, and the destination is none of them.     *)
SourcesInv ==
    /\ \A n \in she.sources : replica[she.obj][n] = "HEALTHY"
    /\ she.pc \notin {"exclude", "place", "fetch"} => she.sources = {}
    /\ At("place") => she.sources \subseteq she.exclude
    /\ At("fetch") => she.dest \notin she.sources

(* A push that outlives its caller ends at a row that was written off or   *)
(* is stuck, never at one that readers use or a recovery goes on with.     *)
LateInv ==
    /\ \A o \in Object, n \in Node :
          ~Settled(o, n) =>
              replica[o][n] \in {"RECOVERING", "LOST"} /\ Exists(o)
    /\ she.pc \in {"push", "finalize"} => Settled(she.obj, she.dest)

(* A copy nobody is about to write: while a recovery writes, some other    *)
(* node holds one, and at all times some node does.                        *)
SafeCopy(o, n) == disk[o][n] = "good" /\ Settled(o, n)
SourceSurvives ==
    faults["rot"] = 0 /\ she.pc \in {"record", "push", "compensate", "finalize"} =>
        \E n \in Node \ {she.dest} : SafeCopy(she.obj, n)
SafeCopies ==
    faults["rot"] = 0 =>
        \A o \in Object : Exists(o) => \E n \in Node : SafeCopy(o, n)

IInv == /\ SHTypeOK /\ Locals
        /\ HealthyRowsHaveBytes /\ PlaceholderInv
        /\ SourcesInv /\ LateInv /\ SourceSurvives /\ SafeCopies

-----------------------------------------------------------------------------
(* Every control state finds its local variables set: a step moves on only *)
(* with the object, the failed node and the destination that the code it   *)
(* leads to dereferences.                                                  *)
LEMMA LocalsStep ==
    ASSUME SHTypeOK, Locals, SHEStep \/ CrashSHE
    PROVE  SHETypeOK' /\ Locals'
<1> USE DEF SHTypeOK, SHETypeOK, Locals, SHEPc, At, Go, SHEIdle
<1>0. ASSUME she.pc \notin {"idle", "nodes"}, she' = NextRow
      PROVE  SHETypeOK' /\ Locals'
  BY <1>0 DEF NextRow
<1>1. CASE HealTick
  BY <1>1 DEF HealTick, OfflineNodes
<1>2. CASE HealNode
  <2> DEFINE rows(n) ==
        {o \in Object : replica[o][n] \in {"HEALTHY", "RECOVERING"}}
  <2>1. PICK n \in she.nodes :
          she' = [she EXCEPT !.pc = "rows", !.nodes = @ \ {n}, !.failed = n,
                             !.rows = rows(n)]
    BY <1>2 DEF HealNode
  <2>2. n \in Node /\ rows(n) \subseteq Object
    OBVIOUS
  <2> HIDE DEF rows
  <2> QED
    BY <2>1, <2>2
<1>3. CASE HealDone
  BY <1>3 DEF HealDone
<1>4. CASE TakeRow
  <2>1. PICK o \in she.rows :
          she' = [she EXCEPT !.pc = "object", !.rows = @ \ {o}, !.obj = o]
    BY <1>4 DEF TakeRow
  <2>2. At("rows") /\ o \in Object
    BY <1>4 DEF TakeRow
  <2> QED
    BY <2>1, <2>2
<1>5. CASE NodeHealed
  BY <1>5 DEF NodeHealed
<1>6. CASE ReadObject
  <2>1. Clamp(factor[she.obj]) \in Nat
    BY <1>6, FactorAssumption DEF ReadObject, Clamp, ClusterTypeOK
  <2> QED
    BY <1>0, <1>6, <2>1 DEF ReadObject
<1>7. CASE CheckCount
  BY <1>0, <1>7 DEF CheckCount
<1>8. CASE FindSources
  BY <1>0, <1>8 DEF FindSources, HealthyReplicas, RowsWith
<1>9. CASE BuildExclusion
  BY <1>9 DEF BuildExclusion, ReplicaRows
<1>10. CASE SelectDestination
  <2>1. CASE she' = NextRow
    BY <1>0, <1>10, <2>1 DEF SelectDestination
  <2>2. ASSUME NEW n \in Node,
               she' = [she EXCEPT !.pc = "fetch", !.exclude = {}, !.dest = n]
        PROVE  SHETypeOK' /\ Locals'
    BY <1>10, <2>2 DEF SelectDestination
  <2> QED
    BY <1>10, <2>1, <2>2 DEF SelectDestination
<1>11. CASE ReadFails
  <2>1. CASE At("idle") /\ UNCHANGED she
    BY <2>1
  <2>2. ASSUME At("nodes"), NEW n \in she.nodes,
               she' = [she EXCEPT !.nodes = @ \ {n}]
        PROVE  SHETypeOK' /\ Locals'
    BY <2>2
  <2> QED
    BY <1>0, <1>11, <2>1, <2>2 DEF ReadFails
<1>12. CASE FetchSource
  <2>1. CASE she' = NextRow
    BY <1>0, <1>12, <2>1 DEF FetchSource
  <2>2. CASE she' = [she EXCEPT !.pc = "record", !.sources = {}]
    BY <1>12, <2>2 DEF FetchSource
  <2>3. ASSUME NEW n \in she.sources, she' = [she EXCEPT !.sources = @ \ {n}]
        PROVE  SHETypeOK' /\ Locals'
    BY <1>12, <2>3 DEF FetchSource
  <2> QED
    BY <1>12, <2>1, <2>2, <2>3 DEF FetchSource
<1>13. CASE FetchExhausted
  BY <1>0, <1>13 DEF FetchExhausted
<1>14. CASE RecordRecovery
  <2>1. she' = [she EXCEPT !.pc = "push"] \/ she' = NextRow
    BY <1>14 DEF RecordRecovery
  <2>2. At("record")
    BY <1>14 DEF RecordRecovery
  <2>3. CASE she' = [she EXCEPT !.pc = "push"]
    BY <2>2, <2>3
  <2> QED
    BY <1>0, <2>1, <2>2, <2>3
<1>15. CASE PushChunk
  BY <1>15 DEF PushChunk
<1>16. CASE Compensate
  BY <1>0, <1>16 DEF Compensate
<1>17. CASE Finalize
  BY <1>0, <1>17 DEF Finalize
<1>18. CASE CrashSHE
  BY <1>18 DEF CrashSHE
<1> QED
  BY <1>1, <1>2, <1>3, <1>4, <1>5, <1>6, <1>7, <1>8, <1>9, <1>10, <1>11,
     <1>12, <1>13, <1>14, <1>15, <1>16, <1>17, <1>18 DEF SHEStep

(* The steps that write nothing do not enter the writing part of a         *)
(* recovery.                                                               *)
LEMMA QuietPc ==
    ASSUME SHTypeOK, Locals, QuietStep
    PROVE  ~InRecovery'
<1> USE DEF SHTypeOK, SHETypeOK, InRecovery, At, NextRow, SHEIdle
<1>1. CASE HealTick \/ HealNode \/ HealDone \/ TakeRow \/ NodeHealed
  <2>1. CASE HealTick
    BY <2>1 DEF HealTick
  <2>0. CASE HealDone
    BY <2>0 DEF HealDone
  <2>4. CASE NodeHealed
    BY <2>4 DEF NodeHealed
  <2>2. CASE HealNode
    BY <2>2 DEF HealNode
  <2>3. CASE TakeRow
    BY <2>3 DEF TakeRow
  <2> QED
    BY <1>1, <2>0, <2>1, <2>2, <2>3, <2>4
<1>2. CASE ReadObject \/ CheckCount \/ FindSources \/ BuildExclusion
  BY <1>2 DEF ReadObject, CheckCount, FindSources, BuildExclusion, Go
<1>3. CASE SelectDestination
  <2>1. \/ she' = NextRow
        \/ \E n \in Node :
             she' = [she EXCEPT !.pc = "fetch", !.exclude = {}, !.dest = n]
    BY <1>3 DEF SelectDestination
  <2> QED
    BY <2>1
<1>4. CASE ReadFails
  BY <1>4 DEF ReadFails
<1>5. CASE FetchSource \/ FetchExhausted
  BY <1>5 DEF FetchSource, FetchExhausted
<1> QED
  BY <1>1, <1>2, <1>3, <1>4, <1>5 DEF QuietStep

(* The first transaction: the new row is RECOVERING, no row turns HEALTHY, *)
(* no row leaves the table.                                                *)
LEMMA RecordStep ==
    ASSUME SHTypeOK, Locals, RecordRecovery
    PROVE  /\ UNCHANGED <<factor, disk, late>>
           /\ InRecovery' => /\ At("push")' /\ she'.obj = she.obj
                             /\ she'.dest = she.dest /\ At("record")
                             /\ replica[she.obj][she.dest] = "NONE"
                             /\ replica'[she.obj][she.dest] = "RECOVERING"
                             /\ Exists(she.obj)
           /\ \A o \in Object, n \in Node :
                /\ replica'[o][n] = "HEALTHY" => replica[o][n] = "HEALTHY"
                /\ replica[o][n] = "LOST" => replica'[o][n] = "LOST"
                /\ replica[o][n] = "RECOVERING" =>
                     replica'[o][n] \in {"RECOVERING", "LOST"}
           /\ ~InRecovery' => she' = NextRow
           /\ \/ UNCHANGED replica
              \/ replica[she.obj][she.dest] = "NONE" /\ MarkLostAndInsert
<1> USE DEF SHTypeOK, ClusterTypeOK, SHETypeOK, RecordRecovery, At, Go, NextRow,
            InRecovery
<1>1. she.obj \in Object /\ she.failed \in Node /\ she.dest \in Node
  BY DEF Locals
<1>2. CASE RowIsListed /\ CanInsert(she.obj, she.dest)
  <2>1. PICK out \in TxOutcome :
          /\ IF out = "rolledBack" THEN UNCHANGED replica
             ELSE MarkLostAndInsert
          /\ IF out = "committed" THEN Go("push") ELSE she' = NextRow
    BY <1>2
  <2>2. replica[she.obj][she.dest] = "NONE" /\ Exists(she.obj)
    BY <1>2 DEF CanInsert
  <2>3. CASE UNCHANGED replica /\ she' = NextRow
    BY <2>3
  <2>4. CASE MarkLostAndInsert /\ (Go("push") \/ she' = NextRow)
    <3>1. /\ replica'[she.obj][she.dest] = "RECOVERING"
          /\ \A o \in Object, n \in Node :
                \/ replica'[o][n] = replica[o][n]
                \/ replica'[o][n] = "LOST"
                \/ o = she.obj /\ n = she.dest
      BY <1>1, <2>4 DEF MarkLostAndInsert
    <3>2. ASSUME NEW o \in Object, NEW n \in Node
          PROVE  /\ replica'[o][n] = "HEALTHY" => replica[o][n] = "HEALTHY"
                 /\ replica[o][n] = "LOST" => replica'[o][n] = "LOST"
                 /\ replica[o][n] = "RECOVERING" =>
                      replica'[o][n] \in {"RECOVERING", "LOST"}
      <4>1. CASE replica'[o][n] = replica[o][n]
        BY <4>1
      <4>2. CASE replica'[o][n] = "LOST"
        BY <4>2
      <4>3. CASE o = she.obj /\ n = she.dest
        BY <2>2, <3>1, <4>3
      <4> QED
        BY <3>1, <4>1, <4>2, <4>3
    <3>3. \/ she' = [she EXCEPT !.pc = "push"]
          \/ she' = NextRow
      BY <2>4
    <3>4. CASE she' = [she EXCEPT !.pc = "push"]
      BY <2>2, <2>4, <3>1, <3>2, <3>4
    <3>5. CASE she' = NextRow
      BY <2>2, <2>4, <3>2, <3>5
    <3> QED
      BY <3>3, <3>4, <3>5
  <2> QED
    BY <2>1, <2>3, <2>4
<1>3. CASE ~(RowIsListed /\ CanInsert(she.obj, she.dest))
  BY <1>3
<1> QED
  BY <1>2, <1>3

(* The push writes one file, whose row is RECOVERING, and goes on to the   *)
(* last transaction only with the bytes in place.                          *)
LEMMA PushStep ==
    ASSUME SHTypeOK, Locals, PushChunk
    PROVE  /\ UNCHANGED replica
           /\ she'.obj = she.obj /\ she'.dest = she.dest /\ At("push")
           /\ she'.pc \in {"compensate", "finalize"}
           /\ she'.sources = she.sources
           /\ \A o \in Object, n \in Node :
                ~(o = she.obj /\ n = she.dest) => disk'[o][n] = disk[o][n]
           /\ \/ UNCHANGED late
              \/ /\ At("compensate")'
                 /\ late' = late \cup {<<she.obj, she.dest, "store">>}
           /\ At("finalize")' => disk'[she.obj][she.dest] = "good"
<1> USE DEF SHTypeOK, ClusterTypeOK, SHETypeOK, PushChunk, At, Go, SetDisk
<1>1. she.obj \in Object /\ she.dest \in Node
  BY DEF Locals
<1>2. CASE StoreChunk(she.obj, she.dest) /\ Go("finalize")
  BY <1>1, <1>2 DEF StoreChunk
<1>3. CASE StoreChunkFails(she.obj, she.dest) /\ Go("compensate")
  BY <1>1, <1>3 DEF StoreChunkFails, GivenUp
<1> QED
  BY <1>2, <1>3

(* The last transaction of a recovery writes no row but the new one.       *)
LEMMA LastStep ==
    ASSUME SHTypeOK, Locals, NEW status \in {"LOST", "HEALTHY"},
           \/ status = "LOST" /\ Compensate
           \/ status = "HEALTHY" /\ Finalize
    PROVE  /\ UNCHANGED <<factor, disk, late>> /\ she' = NextRow /\ InRecovery
           /\ \A o \in Object, n \in Node :
                \/ replica'[o][n] = replica[o][n]
                \/ o = she.obj /\ n = she.dest /\ replica'[o][n] = status
<1> USE DEF SHTypeOK, ClusterTypeOK
<1>1. she.obj \in Object /\ she.dest \in Node
  BY DEF Locals, Compensate, Finalize, At
<1>2. /\ UpdateNewRow(status) /\ she' = NextRow /\ InRecovery
      /\ UNCHANGED <<factor, disk, late>>
  BY DEF Compensate, Finalize, At, InRecovery
<1>3. UNCHANGED replica \/ SetRow(she.obj, she.dest, status)
  BY <1>1, <1>2, UpdateNewRowTyped DEF RowStatus
<1> QED
  BY <1>1, <1>2, <1>3 DEF SetRow

(* Sources keep their rows and never include the destination: a fetch      *)
(* reads from another node than the one that will be written.              *)
LEMMA SourcesStep ==
    ASSUME SHTypeOK, Locals, SourcesInv, QuietStep
    PROVE  /\ SourcesInv'
           /\ At("record")' => /\ she'.obj = she.obj /\ she'.dest = she.dest
                               /\ \E n \in Node \ {she.dest} :
                                    /\ disk[she.obj][n] = "good"
                                    /\ replica[she.obj][n] = "HEALTHY"
<1> USE DEF SHTypeOK, ClusterTypeOK, SHETypeOK, SHEPc, SourcesInv, At, NextRow,
            SHEIdle
<1>1. UNCHANGED replica
  BY QuietSteps DEF QuietStep, SHEQuiet
<1>2. CASE HealTick
  BY <1>1, <1>2 DEF HealTick
<1>11. CASE NodeHealed
  BY <1>1, <1>11 DEF NodeHealed
<1>12. CASE HealDone
  BY <1>1, <1>12 DEF HealDone
<1>3. CASE HealNode
  BY <1>1, <1>3 DEF HealNode
<1>4. CASE TakeRow
  BY <1>1, <1>4 DEF TakeRow
<1>5. CASE ReadObject \/ CheckCount \/ FetchExhausted
  <2>1. CASE ReadObject
    BY <1>1, <2>1 DEF ReadObject
  <2>2. CASE CheckCount
    BY <1>1, <2>2 DEF CheckCount
  <2>3. CASE FetchExhausted
    BY <1>1, <2>3 DEF FetchExhausted
  <2> QED
    BY <1>5, <2>1, <2>2, <2>3
<1>6. CASE FindSources
  <2>1. \A n \in HealthyReplicas(she.obj) : replica[she.obj][n] = "HEALTHY"
    BY DEF HealthyReplicas, RowsWith
  <2> QED
    BY <1>1, <1>6, <2>1 DEF FindSources
<1>7. CASE BuildExclusion
  <2>1. she.sources \subseteq ReplicaRows(she.obj)
    BY DEF ReplicaRows
  <2> QED
    BY <1>1, <1>7, <2>1 DEF BuildExclusion
<1>8. CASE SelectDestination
  <2>1. CASE she' = NextRow
    BY <1>1, <2>1
  <2>2. ASSUME NEW n \in Node, {n} \in SelectNodes(1, she.exclude),
               she' = [she EXCEPT !.pc = "fetch", !.exclude = {}, !.dest = n]
        PROVE  SourcesInv' /\ ~At("record")'
    <3>1. n \notin she.sources
      BY <1>8, <2>2 DEF SelectNodes, SelectDestination
    <3> QED
      BY <1>1, <2>2, <3>1
  <2> QED
    BY <1>8, <2>1, <2>2 DEF SelectDestination
<1>9. CASE ReadFails
  BY <1>1, <1>9 DEF ReadFails
<1>10. CASE FetchSource
  <2> PICK n \in she.sources :
        \/ /\ FetchVerified(she.obj, n)
           /\ she' = IF she.obj \in EmptyObject THEN NextRow
                     ELSE [she EXCEPT !.pc = "record", !.sources = {}]
        \/ she' = [she EXCEPT !.sources = @ \ {n}]
    BY <1>10 DEF FetchSource
  <2>1. CASE she' = NextRow
    BY <1>1, <2>1
  <2>2. CASE /\ FetchVerified(she.obj, n)
             /\ she' = [she EXCEPT !.pc = "record", !.sources = {}]
    BY <1>1, <1>10, <2>2 DEF FetchVerified, FetchSource
  <2>3. CASE she' = [she EXCEPT !.sources = @ \ {n}]
    BY <1>1, <1>10, <2>3 DEF FetchSource
  <2> QED
    BY <2>1, <2>2, <2>3
<1> QED
  BY <1>2, <1>3, <1>4, <1>5, <1>6, <1>7, <1>8, <1>9, <1>10,
     <1>11, <1>12 DEF QuietStep

-----------------------------------------------------------------------------
(* Each step keeps the whole invariant: first the steps that write         *)
(* nothing, then those that do, then the environment.                      *)

LEMMA QuietKeepsIInv ==
    ASSUME IInv, QuietStep
    PROVE  IInv'
<1> USE DEF IInv
<1>1. /\ UNCHANGED <<replica, disk, late, factor, nodeStatus>>
      /\ FaultStep /\ listed' \subseteq Object \X Node
  BY QuietSteps DEF QuietStep, SHEQuiet
<1>2. SHTypeOK' /\ Locals'
  <2>1. SHETypeOK' /\ Locals'
    BY LocalsStep DEF QuietStep, SHEStep
  <2> QED
    BY <1>1, <2>1 DEF SHTypeOK, ClusterTypeOK, FaultStep
<1>3. HealthyRowsHaveBytes' /\ SafeCopies'
  BY <1>1 DEF HealthyRowsHaveBytes, SafeCopies, SafeCopy, Settled, Exists,
              FaultStep
<1>4. PlaceholderInv'
  BY QuietPc DEF PlaceholderInv, InRecovery, At
<1>5. SourcesInv'
  BY SourcesStep
<1>6. LateInv'
  BY <1>1, QuietPc DEF LateInv, Settled, Exists, InRecovery
<1>7. SourceSurvives'
  <2>1. CASE At("record")'
    <3>1. she.obj \in Object
      BY <2>1, SourcesStep, <1>2 DEF Locals, At
    <3>2. PICK n \in Node \ {she.dest} : /\ disk[she.obj][n] = "good"
                                         /\ replica[she.obj][n] = "HEALTHY"
      BY <2>1, SourcesStep
    <3>3. SafeCopy(she.obj, n)
      BY <3>1, <3>2 DEF SafeCopy, LateInv
    <3> QED
      BY <1>1, <2>1, <3>2, <3>3, SourcesStep
         DEF SourceSurvives, SafeCopy, Settled, At
  <2>2. CASE ~At("record")'
    BY <2>2, QuietPc DEF SourceSurvives, InRecovery, At
  <2> QED
    BY <2>1, <2>2
<1> QED
  BY <1>2, <1>3, <1>4, <1>5, <1>6, <1>7

(* A restart in the middle of a push leaves it to a node other than the    *)
(* one that keeps a safe copy.                                             *)
LEMMA CrashKeepsIInv ==
    ASSUME IInv, CrashSHE
    PROVE  IInv'
<1> USE DEF IInv
<1>1. /\ SHEFrame /\ UNCHANGED <<replica, disk>> /\ she' = SHEIdle
      /\ \/ UNCHANGED late
         \/ /\ At("push") /\ she.obj \in Object /\ she.dest \in Node
            /\ late' = late \cup {<<she.obj, she.dest, "store">>}
  BY CrashStep
<1>2. SHTypeOK' /\ Locals'
  <2>1. SHETypeOK' /\ Locals'
    BY LocalsStep
  <2> QED
    BY <1>1, <2>1 DEF SHTypeOK, ClusterTypeOK, SHEFrame, FaultStep
<1>3. HealthyRowsHaveBytes'
  BY <1>1 DEF HealthyRowsHaveBytes, SHEFrame, FaultStep
<1>4. PlaceholderInv' /\ SourcesInv' /\ SourceSurvives'
  BY <1>1 DEF SHEIdle, PlaceholderInv, SourcesInv, SourceSurvives, InRecovery, At
<1>5. LateInv'
  <2>1. \A o \in Object, n \in Node :
           ~Settled(o, n)' =>
             \/ ~Settled(o, n)
             \/ At("push") /\ o = she.obj /\ n = she.dest
    BY <1>1 DEF Settled
  <2>2. she'.pc = "idle"
    BY <1>1 DEF SHEIdle
  <2> QED
    BY <1>1, <2>1, <2>2 DEF LateInv, PlaceholderInv, InRecovery, At, Exists,
                            SHEFrame
<1>6. SafeCopies'
  <2> SUFFICES ASSUME faults["rot"] = 0, NEW o \in Object, Exists(o)
               PROVE  \E n \in Node : SafeCopy(o, n)'
    BY <1>1 DEF SafeCopies, SHEFrame, FaultStep, Exists
  <2>1. \E n \in Node : /\ SafeCopy(o, n)
                         /\ ~(At("push") /\ o = she.obj /\ n = she.dest)
    BY DEF SafeCopies, SourceSurvives, At
  <2> QED
    BY <1>1, <2>1 DEF SafeCopy, Settled
<1> QED
  BY <1>2, <1>3, <1>4, <1>5, <1>6

(* The first transaction, the push and the last transaction.               *)
LEMMA WritingTyped ==
    ASSUME IInv, RecordRecovery \/ PushChunk \/ Compensate \/ Finalize
    PROVE  SHTypeOK' /\ Locals' /\ faults'["rot"] = faults["rot"]
<1>1. SHEFrame
  BY WritingSteps DEF IInv
<1>2. SHETypeOK' /\ Locals'
  BY LocalsStep DEF IInv, SHEStep
<1> QED
  BY <1>1, <1>2 DEF IInv, SHTypeOK, ClusterTypeOK, SHEFrame, FaultStep

(* A row taken next: no recovery is under way and no source is listed.     *)
LEMMA NextRowIsQuiet ==
    ASSUME SHTypeOK, she' = NextRow
    PROVE  PlaceholderInv' /\ SourcesInv' /\ SourceSurvives'
BY DEF SHTypeOK, SHETypeOK, NextRow, PlaceholderInv, SourcesInv,
       SourceSurvives, InRecovery, At

LEMMA RecordKeepsIInv ==
    ASSUME IInv, RecordRecovery
    PROVE  IInv'
<1> USE DEF IInv
<1>1. SHTypeOK' /\ Locals' /\ faults'["rot"] = faults["rot"]
  BY WritingTyped
<1>2. /\ UNCHANGED <<factor, disk, late>>
      /\ \A o \in Object, n \in Node :
           /\ replica'[o][n] = "HEALTHY" => replica[o][n] = "HEALTHY"
           /\ replica[o][n] \in {"RECOVERING", "LOST"} =>
                replica'[o][n] \in {"RECOVERING", "LOST"}
  BY RecordStep
<1>3. HealthyRowsHaveBytes' /\ SafeCopies'
  BY <1>1, <1>2 DEF HealthyRowsHaveBytes, SafeCopies, SafeCopy, Settled, Exists
<1>6. \A o \in Object, n \in Node :
         ~Settled(o, n)' =>
             replica'[o][n] \in {"RECOVERING", "LOST"} /\ Exists(o)'
  BY <1>2 DEF LateInv, Settled, Exists
<1>4. CASE InRecovery'
  <2>1. /\ At("push")' /\ she'.obj = she.obj /\ she'.dest = she.dest
        /\ At("record") /\ replica'[she.obj][she.dest] = "RECOVERING"
        /\ replica[she.obj][she.dest] = "NONE" /\ Exists(she.obj)
    BY <1>4, RecordStep
  <2>2. she' = [she EXCEPT !.pc = "push"]
    <3>1. she' = NextRow \/ she' = [she EXCEPT !.pc = "push"]
      BY DEF RecordRecovery, Go
    <3> QED
      BY <2>1, <3>1 DEF NextRow, At, SHTypeOK, SHETypeOK
  <2>3. she.sources = {} /\ she'.sources = {}
    BY <2>1, <2>2 DEF SourcesInv, At, SHTypeOK, SHETypeOK
  <2>4. PlaceholderInv'
    BY <1>2, <2>1 DEF PlaceholderInv, At, Exists
  <2>5. SourcesInv'
    BY <2>1, <2>3 DEF SourcesInv, At
  <2>6. SourceSurvives'
    BY <1>1, <1>2, <2>1 DEF SourceSurvives, SafeCopy, Settled, At
  <2>7. LateInv'
    <3>1. she.obj \in Object /\ she.dest \in Node
      BY <2>1 DEF Locals, At
    <3>2. Settled(she.obj, she.dest)
      BY <2>1, <3>1 DEF LateInv
    <3> QED
      BY <1>2, <1>6, <2>1, <3>2 DEF LateInv, Settled
  <2> QED
    BY <1>1, <1>3, <2>4, <2>5, <2>6, <2>7
<1>5. CASE ~InRecovery'
  <2>1. LateInv'
    BY <1>5, <1>6 DEF LateInv, InRecovery
  <2> QED
    BY <1>1, <1>3, <1>5, <2>1, RecordStep, NextRowIsQuiet
<1> QED
  BY <1>4, <1>5

LEMMA PushKeepsIInv ==
    ASSUME IInv, PushChunk
    PROVE  IInv'
<1> USE DEF IInv
<1>1. SHTypeOK' /\ Locals' /\ faults'["rot"] = faults["rot"]
  BY WritingTyped
<1>2. /\ UNCHANGED replica
      /\ she'.obj = she.obj /\ she'.dest = she.dest /\ At("push")
      /\ she'.pc \in {"compensate", "finalize"}
      /\ she'.sources = she.sources
      /\ \A o \in Object, n \in Node :
           ~(o = she.obj /\ n = she.dest) => disk'[o][n] = disk[o][n]
      /\ At("finalize")' => disk'[she.obj][she.dest] = "good"
      /\ UNCHANGED factor
  BY PushStep DEF PushChunk
<1>11. \A o \in Object, n \in Node :
          /\ ~(o = she.obj /\ n = she.dest) /\ Settled(o, n) => Settled(o, n)'
          /\ Settled(o, n)' => Settled(o, n)
  BY PushStep DEF Settled
<1>3. she.obj \in Object /\ she.dest \in Node
  BY <1>2 DEF Locals, At
<1>4. replica[she.obj][she.dest] = "RECOVERING" /\ Exists(she.obj)
  BY <1>2 DEF PlaceholderInv, InRecovery, At
<1>5. HealthyRowsHaveBytes'
  BY <1>1, <1>2, <1>4 DEF HealthyRowsHaveBytes
<1>6. PlaceholderInv'
  BY <1>2, <1>4 DEF PlaceholderInv, Exists
<1>7. SourcesInv'
  BY <1>2 DEF SourcesInv, At
<1>8. faults["rot"] = 0 =>
        \E n \in Node \ {she.dest} :
            SafeCopy(she.obj, n) /\ SafeCopy(she.obj, n)'
  BY <1>2, <1>3, <1>11 DEF SourceSurvives, SafeCopy, At
<1>9. SourceSurvives'
  BY <1>1, <1>2, <1>8 DEF SourceSurvives, SafeCopy, Settled
<1>10. SafeCopies'
  <2> SUFFICES ASSUME faults["rot"] = 0, NEW o \in Object, Exists(o)
               PROVE  \E n \in Node : SafeCopy(o, n)'
    <3>1. UNCHANGED factor
      BY <1>2
    <3> QED
      BY <1>1, <3>1 DEF SafeCopies, Exists
  <2>1. CASE o = she.obj
    BY <1>2, <1>8, <2>1
  <2>2. CASE o # she.obj
    BY <1>2, <1>11, <2>2 DEF SafeCopies, SafeCopy
  <2> QED
    BY <2>1, <2>2
<1>12. LateInv'
  <2>1. \A o \in Object, n \in Node :
           ~Settled(o, n)' =>
               replica'[o][n] \in {"RECOVERING", "LOST"} /\ Exists(o)'
    BY <1>2, <1>4, <1>11 DEF LateInv, Exists
  <2>2. she'.pc \in {"push", "finalize"} => Settled(she.obj, she.dest)'
    <3> SUFFICES ASSUME she'.pc = "finalize"
                 PROVE  Settled(she.obj, she.dest)'
      BY <1>2
    <3>1. UNCHANGED late
      BY PushStep DEF At
    <3>2. Settled(she.obj, she.dest)
      BY <1>2 DEF LateInv, At
    <3> QED
      BY <1>2, <3>1, <3>2 DEF Settled
  <2> QED
    BY <1>2, <2>1, <2>2 DEF LateInv, Settled
<1> QED
  BY <1>1, <1>5, <1>6, <1>7, <1>9, <1>10, <1>12

LEMMA LastKeepsIInv ==
    ASSUME IInv, Compensate \/ Finalize
    PROVE  IInv'
<1> USE DEF IInv
<1>1. SHTypeOK' /\ Locals' /\ faults'["rot"] = faults["rot"]
  BY WritingTyped
<1>2. UNCHANGED <<factor, disk, late>> /\ she' = NextRow
  BY DEF Compensate, Finalize
<1>3. PlaceholderInv' /\ SourcesInv' /\ SourceSurvives'
  BY <1>2, NextRowIsQuiet
<1>4. HealthyRowsHaveBytes'
  <2>1. CASE Compensate
    BY <1>1, <1>2, <2>1, LastStep DEF HealthyRowsHaveBytes
  <2>2. CASE Finalize
    <3>1. \A o \in Object, n \in Node :
             \/ replica'[o][n] = replica[o][n]
             \/ o = she.obj /\ n = she.dest
      BY <2>2, LastStep
    <3>2. faults["rot"] = 0 => disk[she.obj][she.dest] = "good"
      BY <2>2 DEF PlaceholderInv, Finalize
    <3> QED
      BY <1>1, <1>2, <3>1, <3>2 DEF HealthyRowsHaveBytes
  <2> QED
    BY <2>1, <2>2
<1>5. SafeCopies'
  BY <1>1, <1>2 DEF SafeCopies, SafeCopy, Settled, Exists
<1>6. LateInv'
  <2>1. she'.pc = "rows"
    BY <1>2 DEF NextRow, SHTypeOK, SHETypeOK
  <2>2. \A o \in Object, n \in Node :
           ~Settled(o, n) => replica'[o][n] \in {"RECOVERING", "LOST"}
    <3>1. CASE Compensate
      BY <3>1, LastStep DEF LateInv
    <3>2. CASE Finalize
      <4>1. Settled(she.obj, she.dest)
        BY <3>2 DEF Finalize, At, LateInv
      <4>2. \A o \in Object, n \in Node :
               ~Settled(o, n) => replica'[o][n] = replica[o][n]
        BY <3>2, <4>1, LastStep
      <4> QED
        BY <4>2 DEF LateInv
    <3> QED
      BY <3>1, <3>2
  <2> QED
    BY <1>2, <2>1, <2>2 DEF LateInv, Settled, Exists
<1> QED
  BY <1>1, <1>3, <1>4, <1>5, <1>6

LEMMA EnvironmentKeepsIInv ==
    ASSUME IInv, Environment, UNCHANGED she
    PROVE  IInv'
<1> USE DEF IInv
<1>1. /\ ClusterTypeOK' /\ UNCHANGED <<factor, replica>>
      /\ late' \subseteq late
      /\ faults'["rot"] = 0 =>
           /\ faults["rot"] = 0
           /\ \A o \in Object, n \in Node :
                Settled(o, n) => disk'[o][n] = disk[o][n]
  BY EnvironmentTyped
<1>7. \A o, n : Settled(o, n) => Settled(o, n)'
  BY <1>1 DEF Settled
<1>2. SHTypeOK' /\ Locals'
  BY <1>1 DEF SHTypeOK, SHETypeOK, Locals
<1>3. HealthyRowsHaveBytes'
  BY <1>1 DEF HealthyRowsHaveBytes, LateInv
<1>4. SafeCopies'
  BY <1>1, <1>7 DEF SafeCopies, SafeCopy, Exists
<1>5. SourcesInv'
  BY <1>1 DEF SourcesInv, At
<1>6. LateInv'
  <2>1. \A o \in Object, n \in Node :
           ~Settled(o, n)' => replica'[o][n] \in {"RECOVERING", "LOST"} /\ Exists(o)'
    BY <1>1, <1>7 DEF LateInv, Exists
  <2>2. she'.pc \in {"push", "finalize"} => Settled(she.obj, she.dest)'
    BY <1>7 DEF LateInv
  <2> QED
    BY <2>1, <2>2 DEF LateInv, Settled
<1>8. CASE she.pc \in {"record", "push", "compensate", "finalize"}
  <2>1. she.obj \in Object /\ she.dest \in Node
    BY <1>8 DEF Locals
  <2>2. PlaceholderInv'
    BY <1>1, <2>1 DEF PlaceholderInv, InRecovery, At, Exists, LateInv
  <2>3. SourceSurvives'
    BY <1>1, <1>7, <2>1 DEF SourceSurvives, SafeCopy, Settled
  <2> QED
    BY <1>2, <1>3, <1>4, <1>5, <1>6, <2>2, <2>3
<1>9. CASE she.pc \notin {"record", "push", "compensate", "finalize"}
  BY <1>2, <1>3, <1>4, <1>5, <1>6, <1>9
     DEF PlaceholderInv, SourceSurvives, InRecovery, At
<1> QED
  BY <1>8, <1>9

-----------------------------------------------------------------------------
(* The invariant holds at first and through every step.                    *)

LEMMA InitIInv == SHInit => IInv
<1> SUFFICES ASSUME SHInit PROVE IInv
  OBVIOUS
<1>1. SHTypeOK
  BY InitTyped
<1>2. she = SHEIdle
  BY DEF SHInit, SHEInit
<1>3. Locals /\ PlaceholderInv /\ SourcesInv /\ SourceSurvives
  BY <1>2 DEF SHEIdle, Locals, PlaceholderInv, SourcesInv, SourceSurvives,
              InRecovery, At
<1>4. PICK holders \in [Object -> SUBSET Node] :
        /\ \A o \in Object : Exists(o) => holders[o] # {}
        /\ replica = [o \in Object |-> [n \in Node |->
                         IF n \in holders[o] THEN "HEALTHY" ELSE "NONE"]]
        /\ disk = [o \in Object |-> [n \in Node |->
                         IF n \in holders[o] THEN "good" ELSE "none"]]
  BY DEF SHInit, Uploaded
<1>5. HealthyRowsHaveBytes
  BY <1>4 DEF HealthyRowsHaveBytes
<1>6. late = {}
  BY DEF SHInit, Uploaded
<1>7. LateInv
  BY <1>2, <1>6 DEF LateInv, Settled, SHEIdle
<1>8. SafeCopies
  BY <1>4, <1>6 DEF SafeCopies, SafeCopy, Settled
<1> QED
  BY <1>1, <1>3, <1>5, <1>7, <1>8 DEF IInv

LEMMA NextIInv == IInv /\ [SHNext]_SHVars => IInv'
<1> SUFFICES ASSUME IInv, [SHNext]_SHVars PROVE IInv'
  OBVIOUS
<1>1. CASE QuietStep
  BY <1>1, QuietKeepsIInv
<1>2. CASE RecordRecovery
  BY <1>2, RecordKeepsIInv
<1>3. CASE PushChunk
  BY <1>3, PushKeepsIInv
<1>4. CASE Compensate \/ Finalize
  BY <1>4, LastKeepsIInv
<1>5. CASE Environment /\ UNCHANGED she
  BY <1>5, EnvironmentKeepsIInv
<1>6. CASE UNCHANGED SHVars
  <2> USE <1>6 DEF SHVars, clusterVars, IInv
  <2>1. SHTypeOK' /\ Locals'
    BY DEF SHTypeOK, ClusterTypeOK, SHETypeOK, Locals
  <2>2. HealthyRowsHaveBytes' /\ PlaceholderInv' /\ SourcesInv'
    BY DEF HealthyRowsHaveBytes, PlaceholderInv, SourcesInv, InRecovery, At,
           Exists
  <2>3. LateInv'
    BY DEF LateInv, Settled, Exists
  <2>4. SourceSurvives' /\ SafeCopies'
    BY DEF SourceSurvives, SafeCopies, SafeCopy, Settled, Exists
  <2> QED
    BY <2>1, <2>2, <2>3, <2>4
<1>7. CASE CrashSHE
  BY <1>7, CrashKeepsIInv
<1> QED
  BY <1>1, <1>2, <1>3, <1>4, <1>5, <1>6, <1>7 DEF SHNext, SHEStep, QuietStep

(* The inductive invariant holds in every reachable state.                 *)
THEOREM Inductive == SHSpec => []IInv
BY InitIInv, NextIInv, PTL DEF SHSpec

-----------------------------------------------------------------------------
(* The theorems a reader should know of.                                   *)

(* The cluster and the loop's local variables keep their types, whatever   *)
(* fails.                                                                  *)
THEOREM TypeCorrect == SHSpec => []SHTypeOK
<1>1. IInv => SHTypeOK
  BY DEF IInv
<1> QED
  BY <1>1, Inductive, PTL

(* A HEALTHY row denotes a good file: no interleaving of failed reads,     *)
(* failed pushes, lost acknowledgements, outages and restarts lets the     *)
(* engine report a replica it did not verify.                              *)
THEOREM HealthyRowsAreGood == SHSpec => []HealthyRowsHaveBytes
<1>1. IInv => HealthyRowsHaveBytes
  BY DEF IInv
<1> QED
  BY <1>1, Inductive, PTL

(* The engine never destroys the last good copy of an object: it writes    *)
(* only to nodes other than the one it copies from, and a push that goes   *)
(* on without it does so, too.                                             *)
THEOREM BytesAlwaysSurvive == SHSpec => []BytesSurvive
<1>1. IInv => BytesSurvive
  BY DEF IInv, SafeCopies, SafeCopy, BytesSurvive
<1> QED
  BY <1>1, Inductive, PTL

(* A step never revives a row that is LOST.                                *)
LEMMA LostStep ==
    ASSUME IInv, [SHNext]_SHVars, NEW o \in Object, NEW n \in Node,
           replica[o][n] = "LOST"
    PROVE  replica'[o][n] = "LOST"
<1> USE DEF IInv
<1>1. CASE QuietStep
  BY <1>1, QuietSteps DEF QuietStep, SHEQuiet
<1>2. CASE RecordRecovery
  BY <1>2, RecordStep
<1>3. CASE PushChunk
  BY <1>3, PushStep
<1>4. CASE Compensate \/ Finalize
  <2>1. InRecovery
    BY <1>4 DEF Compensate, Finalize, At, InRecovery
  <2>2. ~(o = she.obj /\ n = she.dest)
    BY <2>1 DEF PlaceholderInv
  <2> QED
    BY <1>4, <2>2, LastStep
<1>5. CASE Environment /\ UNCHANGED she
  BY <1>5, EnvironmentTyped
<1>6. CASE UNCHANGED SHVars
  BY <1>6 DEF SHVars, clusterVars
<1>7. CASE CrashSHE
  BY <1>7, CrashStep
<1> QED
  BY <1>1, <1>2, <1>3, <1>4, <1>5, <1>6, <1>7 DEF SHNext, SHEStep, QuietStep

(* LOST is final: neither a returning node nor a late answer brings a row  *)
(* back that the engine has written off.                                   *)
THEOREM LostIsFinal == SHSpec => LostStaysLost
<1>1. IInv /\ [SHNext]_SHVars =>
        [\A o \in Object, n \in Node :
            replica[o][n] = "LOST" => replica'[o][n] = "LOST"]_SHVars
  BY LostStep
<1> QED
  BY <1>1, Inductive, PTL DEF SHSpec, LostStaysLost

-----------------------------------------------------------------------------
(* Rows that are stuck in RECOVERING.                                      *)

(* What the stuck rows are charged to; no step takes it back.              *)
Paid == faults["db"] + faults["crash"]
Pays(n) == Paid \in Nat /\ Paid' \in Nat /\ Paid' >= Paid + n

LEMMA InjectPays ==
    ASSUME faults \in [FaultKind -> Nat], NEW kind \in FaultKind, Inject(kind)
    PROVE  Pays(0) /\ (kind \in {"db", "crash"} => Pays(1))
<1>1. /\ faults'[kind] = faults[kind] + 1
      /\ \A k \in FaultKind : k # kind => faults'[k] = faults[k]
      /\ \A k \in FaultKind : faults[k] \in Nat
      /\ "db" \in FaultKind /\ "crash" \in FaultKind
  BY DEF Inject, FaultKind
<1>2. CASE kind = "db"
  BY <1>1, <1>2 DEF Pays, Paid
<1>3. CASE kind = "crash"
  BY <1>1, <1>3 DEF Pays, Paid
<1>4. CASE kind \notin {"db", "crash"}
  BY <1>1, <1>4 DEF Pays, Paid
<1> QED
  BY <1>2, <1>3, <1>4

LEMMA FreePays ==
    ASSUME faults \in [FaultKind -> Nat], UNCHANGED faults
    PROVE  Pays(0)
BY DEF Pays, Paid, FaultKind

LEMMA CallPays ==
    ASSUME faults \in [FaultKind -> Nat], NEW n, CallFails(n)
    PROVE  Pays(0)
BY InjectPays, FreePays DEF CallFails, NoFault, FaultKind

LEMMA TxPays ==
    ASSUME faults \in [FaultKind -> Nat], NEW out \in TxOutcome, TxCost(out)
    PROVE  Pays(0) /\ (out # "committed" => Pays(1))
BY InjectPays, FreePays DEF TxCost, NoFault, FaultKind

LEMMA QuietPays ==
    ASSUME SHTypeOK, QuietStep
    PROVE  Pays(0)
<1>0. faults \in [FaultKind -> Nat]
  BY DEF SHTypeOK, ClusterTypeOK
<1>1. CASE ReadFails
  BY <1>0, <1>1, InjectPays DEF ReadFails, FaultKind
<1>2. CASE FetchSource
  BY <1>0, <1>2, InjectPays, FreePays, CallPays
  DEF FetchSource, FetchVerified, FetchUnusable, NoFault, FaultKind
<1>3. CASE ~ReadFails /\ ~FetchSource
  <2>1. UNCHANGED faults
    BY <1>3 DEF QuietStep, HealTick, HealNode, HealDone, TakeRow, NodeHealed,
                ReadObject, CheckCount, FindSources, BuildExclusion,
                SelectDestination, FetchExhausted, clusterVars
  <2> QED
    BY <1>0, <2>1, FreePays
<1> QED
  BY <1>1, <1>2, <1>3

LEMMA EnvironmentPays ==
    ASSUME SHTypeOK, Environment
    PROVE  Pays(0)
<1>0. faults \in [FaultKind -> Nat]
  BY DEF SHTypeOK, ClusterTypeOK
<1>1. UNCHANGED faults \/ Inject("outage") \/ Inject("rot")
  BY DEF Environment, NodeTimesOut, NodeReturns, ChunkRots, LateHandler
<1> QED
  BY <1>0, <1>1, InjectPays, FreePays DEF FaultKind

Stuck == RecoveringRows \ Placeholder
StuckPaid == IsFiniteSet(Stuck) /\ Cardinality(Stuck) <= Paid

(* No row becomes stuck, or one that a failure pays for.                   *)
StuckStep == \/ Stuck' \subseteq Stuck /\ Pays(0)
             \/ Stuck' \subseteq Stuck \cup {<<she.obj, she.dest>>} /\ Pays(1)

LEMMA StuckStepPays ==
    ASSUME StuckPaid, StuckStep
    PROVE  StuckPaid'
<1>1. CASE Stuck' \subseteq Stuck /\ Pays(0)
  <2>1. IsFiniteSet(Stuck') /\ Cardinality(Stuck') <= Cardinality(Stuck)
    BY <1>1, FS_Subset DEF StuckPaid
  <2>2. Cardinality(Stuck) \in Nat /\ Cardinality(Stuck') \in Nat
    BY <2>1, FS_CardinalityType DEF StuckPaid
  <2> QED
    BY <1>1, <2>1, <2>2 DEF StuckPaid, Pays
<1>2. CASE Stuck' \subseteq Stuck \cup {<<she.obj, she.dest>>} /\ Pays(1)
  <2> DEFINE T == Stuck \cup {<<she.obj, she.dest>>}
  <2>1. /\ IsFiniteSet(T) /\ Cardinality(Stuck) \in Nat
        /\ Cardinality(T) \in {Cardinality(Stuck), Cardinality(Stuck) + 1}
    BY FS_AddElement, FS_CardinalityType DEF StuckPaid
  <2>2. /\ IsFiniteSet(Stuck') /\ Cardinality(Stuck') <= Cardinality(T)
    BY <1>2, <2>1, FS_Subset
  <2>3. Cardinality(Stuck') \in Nat
    BY <2>2, FS_CardinalityType
  <2> QED
    BY <1>2, <2>1, <2>2, <2>3 DEF StuckPaid, Pays
<1> QED
  BY <1>1, <1>2 DEF StuckStep

(* The first transaction inserts a row that the recovery answers for: if   *)
(* the recovery ends there all the same, a statement has failed.           *)
LEMMA RecordSticks ==
    ASSUME SHTypeOK, Locals, RecordRecovery
    PROVE  StuckStep
<1> DEFINE o == she.obj
           n == she.dest
<1>0. /\ faults \in [FaultKind -> Nat] /\ o \in Object /\ n \in Node
      /\ she.failed \in Node /\ At("record") /\ Placeholder = {}
      /\ replica \in [Object -> [Node -> RowStatus]] /\ SHETypeOK
  BY DEF SHTypeOK, ClusterTypeOK, RecordRecovery, At, Locals, Placeholder
<1>1. MarkLostAndInsert => RecoveringRows' \subseteq RecoveringRows \cup {<<o, n>>}
  <2> SUFFICES ASSUME MarkLostAndInsert, NEW a \in Object, NEW b \in Node,
                      replica'[a][b] = "RECOVERING", <<a, b>> # <<o, n>>
               PROVE  replica[a][b] = "RECOVERING"
    BY DEF RecoveringRows
  <2> QED
    BY <1>0 DEF MarkLostAndInsert
<1>2. CASE RowIsListed /\ CanInsert(o, n)
  <2>1. PICK out \in TxOutcome :
          /\ TxCost(out)
          /\ IF out = "rolledBack" THEN UNCHANGED replica ELSE MarkLostAndInsert
          /\ IF out = "committed" THEN Go("push") ELSE she' = NextRow
    BY <1>2 DEF RecordRecovery
  <2>2. Pays(0) /\ (out # "committed" => Pays(1))
    BY <1>0, <2>1, TxPays
  <2>3. CASE out = "committed"
    <3>1. she'.pc = "push" /\ she'.obj = o /\ she'.dest = n
      BY <1>0, <2>1, <2>3 DEF Go, SHETypeOK, SHEPc
    <3>2. Placeholder' = {<<o, n>>}
      BY <3>1 DEF Placeholder
    <3> QED
      BY <1>0, <1>1, <2>1, <2>2, <2>3, <3>2 DEF StuckStep, Stuck
  <2>4. CASE out # "committed"
    BY <1>0, <1>1, <2>1, <2>2, <2>4 DEF StuckStep, Stuck, RecoveringRows
  <2> QED
    BY <2>3, <2>4
<1>3. CASE ~(RowIsListed /\ CanInsert(o, n))
  <2>1. UNCHANGED <<replica, faults>>
    BY <1>3 DEF RecordRecovery
  <2> QED
    BY <1>0, <2>1, FreePays DEF StuckStep, Stuck, RecoveringRows
<1> QED
  BY <1>2, <1>3

(* The push leaves the recovery in charge of its row.                      *)
LEMMA PushSticks ==
    ASSUME SHTypeOK, Locals, PushChunk
    PROVE  StuckStep
<1>1. /\ UNCHANGED replica /\ she'.obj = she.obj /\ she'.dest = she.dest
      /\ she.pc = "push" /\ she'.pc \in {"compensate", "finalize"}
  BY PushStep DEF At
<1>2. Stuck' = Stuck
  BY <1>1 DEF Stuck, RecoveringRows, Placeholder
<1>3. faults \in [FaultKind -> Nat]
  BY DEF SHTypeOK, ClusterTypeOK
<1>4. Pays(0)
  BY <1>3, CallPays, InjectPays, FreePays
  DEF PushChunk, StoreChunk, StoreChunkFails, GivenUp, NoFault, FaultKind
<1> QED
  BY <1>2, <1>4 DEF StuckStep

(* The last transaction settles the row, unless it fails.                  *)
LEMMA LastSticks ==
    ASSUME SHTypeOK, Locals, Compensate \/ Finalize
    PROVE  StuckStep
<1> DEFINE o == she.obj
           n == she.dest
<1>0. /\ faults \in [FaultKind -> Nat] /\ o \in Object /\ n \in Node
      /\ Placeholder = {<<o, n>>}
      /\ replica \in [Object -> [Node -> RowStatus]]
  BY DEF SHTypeOK, ClusterTypeOK, Compensate, Finalize, At, Locals, Placeholder
<1>1. PICK status \in {"LOST", "HEALTHY"} : UpdateNewRow(status)
  BY DEF Compensate, Finalize
<1>2. CASE replica[o][n] # "NONE"
  <2>1. PICK out \in TxOutcome :
          /\ TxCost(out)
          /\ IF out = "rolledBack" THEN UNCHANGED replica ELSE SetRow(o, n, status)
    BY <1>1, <1>2 DEF UpdateNewRow
  <2>2. Pays(0) /\ (out # "committed" => Pays(1))
    BY <1>0, <2>1, TxPays
  <2>3. CASE out = "rolledBack"
    BY <1>0, <2>1, <2>2, <2>3 DEF StuckStep, Stuck, RecoveringRows
  <2>4. CASE SetRow(o, n, status)
    <3>1. \A a \in Object, b \in Node :
            replica'[a][b] = "RECOVERING" =>
              replica[a][b] = "RECOVERING" /\ <<a, b>> # <<o, n>>
      BY <1>0, <2>4 DEF SetRow
    <3> QED
      BY <1>0, <2>2, <3>1 DEF StuckStep, Stuck, RecoveringRows
  <2> QED
    BY <2>1, <2>3, <2>4
<1>3. CASE replica[o][n] = "NONE"
  <2>1. UNCHANGED <<replica, faults>>
    BY <1>1, <1>3 DEF UpdateNewRow
  <2>2. Stuck' \subseteq Stuck
    BY <1>0, <1>3, <2>1 DEF Stuck, RecoveringRows
  <2> QED
    BY <1>0, <2>1, <2>2, FreePays DEF StuckStep
<1> QED
  BY <1>2, <1>3

LEMMA StepSticks ==
    ASSUME SHTypeOK, Locals, [SHNext]_SHVars
    PROVE  StuckStep
<1>0. faults \in [FaultKind -> Nat]
  BY DEF SHTypeOK, ClusterTypeOK
<1>1. CASE QuietStep
  <2>1. UNCHANGED replica /\ Placeholder' = {} /\ Pays(0)
    BY <1>1, QuietSteps, QuietPc, QuietPays DEF SHEQuiet, Placeholder, InRecovery
  <2>2. Placeholder = {}
    BY <1>1 DEF QuietStep, HealTick, HealNode, HealDone, TakeRow, NodeHealed,
                ReadObject, CheckCount, FindSources, BuildExclusion,
                SelectDestination, ReadFails, FetchSource, FetchExhausted,
                At, Placeholder
  <2> QED
    BY <2>1, <2>2 DEF StuckStep, Stuck, RecoveringRows
<1>2. CASE CrashSHE
  <2>1. UNCHANGED replica /\ Pays(1)
    BY <1>0, <1>2, InjectPays DEF CrashSHE, FaultKind
  <2>2. Placeholder \subseteq {<<she.obj, she.dest>>}
    BY DEF Placeholder
  <2> QED
    BY <2>1, <2>2 DEF StuckStep, Stuck, RecoveringRows
<1>3. CASE Environment /\ UNCHANGED she
  <2>1. UNCHANGED <<replica, she>> /\ Pays(0)
    BY <1>3, EnvironmentTyped, EnvironmentPays
  <2> QED
    BY <2>1 DEF StuckStep, Stuck, RecoveringRows, Placeholder
<1>4. CASE UNCHANGED SHVars
  BY <1>0, <1>4, FreePays
  DEF SHVars, clusterVars, StuckStep, Stuck, RecoveringRows, Placeholder
<1> QED
  BY <1>1, <1>2, <1>3, <1>4, RecordSticks, PushSticks, LastSticks
  DEF SHNext, SHEStep, QuietStep

(* Every RECOVERING row that no recovery answers for is the price of a     *)
(* failed statement or a restart between the two transactions.             *)
THEOREM StuckRowsArePaid == SHSpec => []StuckRowsArePaidFor
<1>1. SHInit => StuckPaid
  <2> SUFFICES ASSUME SHInit PROVE StuckPaid
    OBVIOUS
  <2>1. Stuck = {}
    BY DEF SHInit, Uploaded, Stuck, RecoveringRows
  <2>2. Paid = 0
    BY DEF SHInit, Uploaded, Paid, FaultKind
  <2> QED
    BY <2>1, <2>2, FS_EmptySet DEF StuckPaid
<1>2. IInv /\ StuckPaid /\ [SHNext]_SHVars => StuckPaid'
  BY StepSticks, StuckStepPays DEF IInv
<1>3. StuckPaid => StuckRowsArePaidFor
  BY DEF StuckPaid, Stuck, Paid, StuckRowsArePaidFor
<1> QED
  BY <1>1, <1>2, <1>3, Inductive, PTL DEF SHSpec

-----------------------------------------------------------------------------
(* Refinement: the engine implements the abstract healing of a replica set *)
(* (ReplicaSet), for every number of nodes and objects, every              *)
(* configuration of the factors and every budget of faults.  Each of its   *)
(* steps, and each of the environment's, is an abstract step or a stutter; *)
(* and rows are replaced one for one.                                      *)

Live == {"HEALTHY", "RECOVERING"}

(* The rows a sweep still has to visit are as it listed them, and so is    *)
(* the one it is working on until it is written off.                       *)
RowsInv ==
    /\ she.pc \notin {"idle", "nodes"} =>
         \A o \in she.rows : replica[o][she.failed] \in Live
    /\ she.pc \notin {"idle", "nodes", "rows"} => she.obj \notin she.rows
    /\ she.pc \in {"object", "count", "sources", "exclude", "place", "fetch",
                   "record"} => replica[she.obj][she.failed] \in Live
    /\ At("place") => she.failed \in she.exclude
    /\ she.pc \in {"fetch", "record"} => she.dest # she.failed
    /\ At("record") => she.obj \notin EmptyObject

LEMMA RowsQuiet ==
    ASSUME IInv, RowsInv, QuietStep
    PROVE  RowsInv'
<1> USE DEF IInv, SHTypeOK, SHETypeOK, SHEPc, RowsInv, At
<1>1. UNCHANGED replica
  BY QuietSteps DEF SHEQuiet
<1>2. CASE HealTick \/ HealDone \/ NodeHealed
  <2>1. CASE HealTick
    <3>1. CASE OfflineNodes = {}
      BY <1>1, <2>1, <3>1 DEF HealTick
    <3>2. CASE OfflineNodes # {}
      <4>1. she' = [she EXCEPT !.pc = "nodes", !.nodes = OfflineNodes]
        BY <2>1, <3>2 DEF HealTick
      <4>2. she'.pc = "nodes"
        BY <4>1
      <4> QED
        BY <4>2
    <3> QED
      BY <3>1, <3>2
  <2>2. CASE HealDone \/ NodeHealed
    <3>1. CASE HealDone
      BY <1>1, <3>1 DEF HealDone, SHEIdle
    <3>2. CASE NodeHealed
      <4>1. she' = [she EXCEPT !.pc = "nodes", !.failed = NoNode]
        BY <3>2 DEF NodeHealed
      <4>2. she'.pc = "nodes"
        BY <4>1
      <4> QED
        BY <4>2
    <3> QED
      BY <2>2, <3>1, <3>2
  <2> QED
    BY <1>2, <2>1, <2>2
<1>3. CASE HealNode
  <2>1. PICK n \in she.nodes :
          she' = [she EXCEPT !.pc = "rows", !.nodes = @ \ {n}, !.failed = n,
                    !.rows = {o \in Object :
                                replica[o][n] \in {"HEALTHY", "RECOVERING"}}]
    BY <1>3 DEF HealNode
  <2>2. /\ she'.pc = "rows" /\ she'.failed = n
        /\ \A o \in she'.rows : replica[o][n] \in Live
    BY <2>1 DEF Live
  <2> QED
    BY <1>1, <2>2
<1>4. CASE TakeRow
  <2>1. PICK o \in she.rows :
          she' = [she EXCEPT !.pc = "object", !.rows = @ \ {o}, !.obj = o]
    BY <1>4 DEF TakeRow
  <2> QED
    BY <1>1, <1>4, <2>1 DEF TakeRow
<1>5. CASE she.pc \notin {"idle", "nodes"} /\ she' = NextRow
  BY <1>1, <1>5 DEF NextRow
<1>6. CASE ReadObject \/ CheckCount \/ FindSources
  <2>1. CASE ReadObject
    BY <1>1, <1>5, <2>1 DEF ReadObject
  <2>2. CASE CheckCount
    BY <1>1, <1>5, <2>2 DEF CheckCount
  <2>3. CASE FindSources
    BY <1>1, <1>5, <2>3 DEF FindSources
  <2> QED
    BY <1>6, <2>1, <2>2, <2>3
<1>7. CASE BuildExclusion
  BY <1>1, <1>7 DEF BuildExclusion
<1>8. CASE SelectDestination
  <2>1. ASSUME NEW n \in Node, {n} \in SelectNodes(1, she.exclude),
               she' = [she EXCEPT !.pc = "fetch", !.exclude = {}, !.dest = n]
        PROVE  RowsInv'
    <3>1. n \notin she.exclude
      BY <2>1 DEF SelectNodes
    <3> QED
      BY <1>1, <1>8, <2>1, <3>1 DEF SelectDestination
  <2> QED
    BY <1>5, <1>8, <2>1 DEF SelectDestination
<1>9. CASE ReadFails
  BY <1>1, <1>5, <1>9 DEF ReadFails
<1>10. CASE FetchSource
  <2>1. \/ she' = NextRow
        \/ /\ she' = [she EXCEPT !.pc = "record", !.sources = {}]
           /\ she.obj \notin EmptyObject
        \/ \E n \in she.sources : she' = [she EXCEPT !.sources = @ \ {n}]
    BY <1>10 DEF FetchSource
  <2>2. At("fetch")
    BY <1>10 DEF FetchSource
  <2>3. CASE /\ she' = [she EXCEPT !.pc = "record", !.sources = {}]
             /\ she.obj \notin EmptyObject
    BY <1>1, <2>2, <2>3
  <2>4. ASSUME NEW n \in she.sources, she' = [she EXCEPT !.sources = @ \ {n}]
        PROVE  RowsInv'
    BY <1>1, <2>2, <2>4
  <2> QED
    BY <1>5, <2>1, <2>2, <2>3, <2>4
<1>11. CASE FetchExhausted
  BY <1>1, <1>5, <1>11 DEF FetchExhausted
<1> QED
  BY <1>2, <1>3, <1>4, <1>6, <1>7, <1>8, <1>9, <1>10, <1>11 DEF QuietStep

(* The writing steps touch no row that is still to be visited.             *)
LEMMA ListedRowsKept ==
    ASSUME IInv, RowsInv, [SHNext]_SHVars
    PROVE  RowsInv'
<1> USE DEF IInv, SHTypeOK, ClusterTypeOK, SHETypeOK
<1>1. CASE QuietStep
  BY <1>1, RowsQuiet
<1>2. ASSUME she.pc \notin {"idle", "nodes", "rows"}, she' = NextRow,
             \A o \in Object, n \in Node :
                o # she.obj => replica'[o][n] = replica[o][n]
      PROVE  RowsInv'
  <2>1. /\ she'.pc = "rows" /\ she'.rows = she.rows
        /\ she'.failed = she.failed /\ she.failed \in Node
    BY <1>2 DEF NextRow, Locals
  <2>2. \A o \in she.rows : replica'[o][she.failed] \in Live
    BY <1>2, <2>1 DEF RowsInv
  <2> QED
    BY <2>1, <2>2 DEF RowsInv, At
<1>3. CASE RecordRecovery
  <2>1. she.obj \in Object /\ she.failed \in Node /\ she.dest \in Node
    BY <1>3 DEF RecordRecovery, At, Locals
  <2>2. \A o \in Object, n \in Node :
           o # she.obj => replica'[o][n] = replica[o][n]
    BY <1>3, <2>1, RecordStep DEF MarkLostAndInsert
  <2>3. CASE she' = NextRow
    BY <1>2, <1>3, <2>2, <2>3 DEF RecordRecovery, At
  <2>4. CASE she' = [she EXCEPT !.pc = "push"]
    <3>1. /\ she'.pc = "push" /\ she'.rows = she.rows /\ she'.obj = she.obj
          /\ she'.failed = she.failed /\ At("record")
      BY <1>3, <2>4 DEF RecordRecovery
    <3>2. \A o \in she.rows : replica'[o][she.failed] \in Live
      BY <2>1, <2>2, <3>1 DEF RowsInv, At
    <3> QED
      BY <3>1, <3>2 DEF RowsInv, At
  <2> QED
    BY <1>3, <2>3, <2>4 DEF RecordRecovery, Go
<1>4. CASE PushChunk
  <2>1. /\ UNCHANGED replica /\ At("push")
        /\ she' = [she EXCEPT !.pc = "finalize"]
           \/ she' = [she EXCEPT !.pc = "compensate"]
    BY <1>4 DEF PushChunk, Go
  <2> QED
    BY <2>1 DEF RowsInv, At
<1>5. CASE Compensate \/ Finalize
  <2>1. /\ she' = NextRow /\ InRecovery
        /\ \A o \in Object, n \in Node :
             o # she.obj => replica'[o][n] = replica[o][n]
    BY <1>5, LastStep
  <2> QED
    BY <1>2, <2>1 DEF InRecovery
<1>6. CASE CrashSHE
  BY <1>6 DEF CrashSHE, SHEIdle, RowsInv, At
<1>7. CASE Environment /\ UNCHANGED she
  BY <1>7, EnvironmentTyped DEF RowsInv, At
<1>8. CASE UNCHANGED SHVars
  BY <1>8 DEF SHVars, clusterVars, RowsInv, At
<1> QED
  BY <1>1, <1>3, <1>4, <1>5, <1>6, <1>7, <1>8 DEF SHNext, SHEStep, QuietStep

-----------------------------------------------------------------------------
(* The mapping of single writes.                                           *)

(* Per object, the nodes whose entry in a table is x.                      *)
NodesWith(table, x) == [o \in Object |-> {n \in Node : table[o][n] = x}]

(* One entry of a table is written, the rest stays.                        *)
Writes(t, u, o, n, v) ==
    \A p \in Object, m \in Node :
       u[p][m] = IF p = o /\ m = n THEN v ELSE t[p][m]

(* That adds the node to the set of the new value and takes it out of      *)
(* every other.                                                            *)
LEMMA WriteAdds ==
    ASSUME NEW t, NEW u, NEW o \in Object, NEW n \in Node, NEW v,
           Writes(t, u, o, n, v)
    PROVE  NodesWith(u, v) = Abstract!With(NodesWith(t, v), o, n)
<1>1. ASSUME NEW p \in Object
      PROVE  {m \in Node : u[p][m] = v} =
               IF p = o THEN {m \in Node : t[p][m] = v} \cup {n}
               ELSE {m \in Node : t[p][m] = v}
  <2>1. \A m \in Node : u[p][m] = IF p = o /\ m = n THEN v ELSE t[p][m]
    BY DEF Writes
  <2> QED
    BY <2>1
<1> QED
  BY <1>1 DEF NodesWith, Abstract!With

LEMMA WriteRemoves ==
    ASSUME NEW t, NEW u, NEW o \in Object, NEW n \in Node, NEW v, NEW x,
           v # x, Writes(t, u, o, n, v)
    PROVE  NodesWith(u, x) = Abstract!Without(NodesWith(t, x), o, n)
<1>1. ASSUME NEW p \in Object
      PROVE  {m \in Node : u[p][m] = x} =
               IF p = o THEN {m \in Node : t[p][m] = x} \ {n}
               ELSE {m \in Node : t[p][m] = x}
  <2>1. \A m \in Node : u[p][m] = IF p = o /\ m = n THEN v ELSE t[p][m]
    BY DEF Writes
  <2> QED
    BY <2>1
<1> QED
  BY <1>1 DEF NodesWith, Abstract!Without

(* Taking out a node that is not there changes nothing.                    *)
LEMMA WithoutAbsent ==
    ASSUME NEW sets \in [Object -> SUBSET Node], NEW o \in Object, NEW n,
           n \notin sets[o]
    PROVE  Abstract!Without(sets, o, n) = sets
BY DEF Abstract!Without

(* One row is written off and another, free so far, is reserved.           *)
LEMMA ReplaceEntries ==
    ASSUME NEW t \in [Object -> [Node -> RowStatus]], NEW u,
           NEW o \in Object, NEW n \in Node, NEW m \in Node, n # m,
           t[o][m] = "NONE",
           u = [t EXCEPT ![o][n] = "LOST", ![o][m] = "RECOVERING"]
    PROVE  /\ NodesWith(u, "HEALTHY") = Abstract!Without(NodesWith(t, "HEALTHY"), o, n)
           /\ NodesWith(u, "RECOVERING") =
                Abstract!With(Abstract!Without(NodesWith(t, "RECOVERING"), o, n), o, m)
           /\ NodesWith(u, "LOST") = Abstract!With(NodesWith(t, "LOST"), o, n)
<1> DEFINE w == [t EXCEPT ![o][n] = "LOST"]
<1>1. Writes(t, w, o, n, "LOST") /\ Writes(w, u, o, m, "RECOVERING")
  BY DEF Writes
<1>2. /\ NodesWith(w, "HEALTHY") \in [Object -> SUBSET Node]
      /\ NodesWith(w, "LOST") \in [Object -> SUBSET Node]
      /\ m \notin NodesWith(w, "HEALTHY")[o] /\ m \notin NodesWith(w, "LOST")[o]
  BY DEF NodesWith
<1> HIDE DEF w
<1>3. NodesWith(w, "HEALTHY") = Abstract!Without(NodesWith(t, "HEALTHY"), o, n)
  BY <1>1, WriteRemoves
<1>4. NodesWith(w, "RECOVERING") = Abstract!Without(NodesWith(t, "RECOVERING"), o, n)
  BY <1>1, WriteRemoves
<1>5. NodesWith(w, "LOST") = Abstract!With(NodesWith(t, "LOST"), o, n)
  BY <1>1, WriteAdds
<1>6. /\ NodesWith(u, "HEALTHY") = Abstract!Without(NodesWith(w, "HEALTHY"), o, m)
      /\ NodesWith(u, "RECOVERING") = Abstract!With(NodesWith(w, "RECOVERING"), o, m)
      /\ NodesWith(u, "LOST") = Abstract!Without(NodesWith(w, "LOST"), o, m)
  BY <1>1, WriteAdds, WriteRemoves
<1>7. /\ Abstract!Without(NodesWith(w, "HEALTHY"), o, m) = NodesWith(w, "HEALTHY")
      /\ Abstract!Without(NodesWith(w, "LOST"), o, m) = NodesWith(w, "LOST")
  BY <1>2, WithoutAbsent
<1> QED
  BY <1>3, <1>4, <1>5, <1>6, <1>7

(* A reserved row becomes HEALTHY or LOST.                                 *)
LEMMA SettleEntry ==
    ASSUME NEW t \in [Object -> [Node -> RowStatus]], NEW u,
           NEW o \in Object, NEW n \in Node, t[o][n] = "RECOVERING",
           NEW v \in {"HEALTHY", "LOST"}, NEW x \in {"HEALTHY", "LOST"}, x # v,
           Writes(t, u, o, n, v)
    PROVE  /\ NodesWith(u, v) = Abstract!With(NodesWith(t, v), o, n)
           /\ NodesWith(u, "RECOVERING") =
                Abstract!Without(NodesWith(t, "RECOVERING"), o, n)
           /\ NodesWith(u, x) = NodesWith(t, x)
<1>1. v # "RECOVERING" /\ x # "RECOVERING"
  OBVIOUS
<1>2. NodesWith(t, x) \in [Object -> SUBSET Node] /\ n \notin NodesWith(t, x)[o]
  BY <1>1 DEF NodesWith
<1>3. NodesWith(u, v) = Abstract!With(NodesWith(t, v), o, n)
  BY <1>1, WriteAdds
<1>4. NodesWith(u, "RECOVERING") = Abstract!Without(NodesWith(t, "RECOVERING"), o, n)
  BY <1>1, WriteRemoves
<1>5. NodesWith(u, x) = Abstract!Without(NodesWith(t, x), o, n)
  BY <1>1, WriteRemoves
<1> QED
  BY <1>2, <1>3, <1>4, <1>5, WithoutAbsent

(* A file is written, cut short or removed.                                *)
LEMMA FileWritten ==
    ASSUME SHTypeOK, NEW o \in Object, NEW n \in Node, NEW d, SetDisk(o, n, d)
    PROVE  NodesWith(disk', "good") =
             IF d = "good" THEN Abstract!With(NodesWith(disk, "good"), o, n)
             ELSE Abstract!Without(NodesWith(disk, "good"), o, n)
<1>1. Writes(disk, disk', o, n, d)
  BY DEF Writes, SHTypeOK, ClusterTypeOK, SetDisk
<1> QED
  BY <1>1, WriteAdds, WriteRemoves

-----------------------------------------------------------------------------
(* Each step is an abstract step or a stutter.                             *)

(* Neither a read, nor a restart, nor an outage is visible.                *)
LEMMA Invisible ==
    ASSUME UNCHANGED <<replica, disk>>, faults'["rot"] = faults["rot"]
    PROVE  UNCHANGED Abstract!vars
BY DEF Abstract!vars, Abstract!rows, RowsWith

(* The first transaction writes the row of the failed node off against a   *)
(* new one.                                                                *)
LEMMA RecordReplaces ==
    ASSUME IInv, RowsInv, RecordRecovery
    PROVE  Abstract!HealNext \/ UNCHANGED Abstract!vars
<1> USE DEF IInv
<1> DEFINE o == she.obj
           n == she.failed
           m == she.dest
<1>1. /\ o \in Object /\ n \in Node /\ m \in Node /\ At("record")
  BY DEF RecordRecovery, Locals, At
<1>2. UNCHANGED <<disk>> /\ faults'["rot"] = faults["rot"]
  BY WritingTyped DEF RecordRecovery
<1>3. CASE UNCHANGED replica
  BY <1>2, <1>3, Invisible
<1>4. CASE replica[o][m] = "NONE" /\ MarkLostAndInsert
  <2>1. replica[o][n] \in Live /\ n # m /\ o \notin EmptyObject
    BY <1>1 DEF RowsInv, At
  <2>5. /\ NodesWith(replica', "HEALTHY") =
             Abstract!Without(NodesWith(replica, "HEALTHY"), o, n)
        /\ NodesWith(replica', "RECOVERING") =
             Abstract!With(Abstract!Without(NodesWith(replica, "RECOVERING"), o, n), o, m)
        /\ NodesWith(replica', "LOST") =
             Abstract!With(NodesWith(replica, "LOST"), o, n)
    BY <1>1, <1>4, <2>1, ReplaceEntries
       DEF SHTypeOK, ClusterTypeOK, MarkLostAndInsert
  <2>6. faults["rot"] = 0 => \E k \in Node \ {m} : disk[o][k] = "good"
    BY <1>1 DEF SourceSurvives, SafeCopy, At
  <2>7. faults["rot"] \in Nat
    BY DEF SHTypeOK, ClusterTypeOK, FaultKind
  <2>8. Abstract!Replace(o, n, m)
    BY <1>1, <1>2, <1>4, <2>1, <2>5, <2>6, <2>7
       DEF Abstract!Replace, NodesWith, RowsWith, Live
  <2> QED
    BY <1>1, <2>8 DEF Abstract!HealNext
<1> QED
  BY <1>3, <1>4, RecordStep

(* A push, or a handler that outlives one, writes where no reader is sent  *)
(* and where the last good copy is not.                                    *)
LEMMA FileWrites ==
    ASSUME SHTypeOK, NEW o \in Object, NEW n \in Node, NEW d, SetDisk(o, n, d),
           UNCHANGED replica, faults'["rot"] = faults["rot"],
           replica[o][n] # "HEALTHY",
           faults["rot"] = 0 => \E m \in Node \ {n} : disk[o][m] = "good"
    PROVE  Abstract!HealNext
<1>1. faults["rot"] \in Nat
  BY DEF SHTypeOK, ClusterTypeOK, FaultKind
<1>2. NodesWith(disk', "good") \in {Abstract!With(NodesWith(disk, "good"), o, n),
                                   Abstract!Without(NodesWith(disk, "good"), o, n)}
  BY FileWritten
<1>3. Abstract!Write(o, n)
  BY <1>1, <1>2 DEF Abstract!Write, Abstract!rows, NodesWith, RowsWith
<1> QED
  BY <1>3 DEF Abstract!HealNext

LEMMA PushWrites ==
    ASSUME IInv, PushChunk
    PROVE  Abstract!HealNext \/ UNCHANGED Abstract!vars
<1> USE DEF IInv
<1>1. /\ UNCHANGED replica /\ faults'["rot"] = faults["rot"]
      /\ she.obj \in Object /\ she.dest \in Node
      /\ At("push")
  BY WritingTyped DEF PushChunk, Locals, At
<1>2. /\ replica[she.obj][she.dest] # "HEALTHY"
      /\ faults["rot"] = 0 =>
           \E m \in Node \ {she.dest} : disk[she.obj][m] = "good"
  BY <1>1 DEF PlaceholderInv, InRecovery, SourceSurvives, SafeCopy, At
<1>3. CASE UNCHANGED disk
  BY <1>1, <1>3, Invisible
<1>4. ASSUME NEW d, SetDisk(she.obj, she.dest, d)
      PROVE  Abstract!HealNext
  BY <1>1, <1>2, <1>4, FileWrites
<1>5. UNCHANGED disk \/ \E d : SetDisk(she.obj, she.dest, d)
  BY DEF PushChunk, StoreChunk, StoreChunkFails, GivenUp
<1> QED
  BY <1>3, <1>4, <1>5

(* The last transaction publishes the new row or gives it up.              *)
LEMMA LastSettles ==
    ASSUME IInv, Compensate \/ Finalize
    PROVE  Abstract!HealNext \/ UNCHANGED Abstract!vars
<1> USE DEF IInv
<1> DEFINE o == she.obj
           n == she.dest
<1>1. /\ UNCHANGED disk /\ faults'["rot"] = faults["rot"]
      /\ o \in Object /\ n \in Node /\ InRecovery
  BY WritingTyped DEF Compensate, Finalize, Locals, At, InRecovery
<1>2. /\ replica[o][n] = "RECOVERING"
      /\ replica \in [Object -> [Node -> RowStatus]]
      /\ faults["rot"] \in Nat
  BY <1>1 DEF PlaceholderInv, SHTypeOK, ClusterTypeOK, FaultKind
<1>3. CASE UNCHANGED replica
  BY <1>1, <1>3, Invisible
<1>4. CASE Compensate /\ SetRow(o, n, "LOST")
  <2>1. /\ NodesWith(replica', "LOST") = Abstract!With(NodesWith(replica, "LOST"), o, n)
        /\ NodesWith(replica', "RECOVERING") =
             Abstract!Without(NodesWith(replica, "RECOVERING"), o, n)
        /\ NodesWith(replica', "HEALTHY") = NodesWith(replica, "HEALTHY")
    <3>1. Writes(replica, replica', o, n, "LOST")
      BY <1>1, <1>2, <1>4 DEF SetRow, Writes
    <3> QED
      BY <1>1, <1>2, <3>1, SettleEntry
  <2>2. Abstract!GiveUp(o, n)
    BY <1>1, <1>2, <2>1 DEF Abstract!GiveUp, NodesWith, RowsWith
  <2> QED
    BY <1>1, <2>2 DEF Abstract!HealNext
<1>5. CASE Finalize /\ SetRow(o, n, "HEALTHY")
  <2>1. /\ NodesWith(replica', "HEALTHY") =
             Abstract!With(NodesWith(replica, "HEALTHY"), o, n)
        /\ NodesWith(replica', "RECOVERING") =
             Abstract!Without(NodesWith(replica, "RECOVERING"), o, n)
        /\ NodesWith(replica', "LOST") = NodesWith(replica, "LOST")
    <3>1. Writes(replica, replica', o, n, "HEALTHY")
      BY <1>1, <1>2, <1>5 DEF SetRow, Writes
    <3> QED
      BY <1>1, <1>2, <3>1, SettleEntry
  <2>2. faults["rot"] = 0 => disk[o][n] = "good"
    BY <1>5 DEF Finalize, PlaceholderInv
  <2>3. Abstract!Publish(o, n)
    BY <1>1, <1>2, <2>1, <2>2 DEF Abstract!Publish, NodesWith, RowsWith
  <2> QED
    BY <1>1, <2>3 DEF Abstract!HealNext
<1>6. \/ UNCHANGED replica
      \/ Compensate /\ SetRow(o, n, "LOST")
      \/ Finalize /\ SetRow(o, n, "HEALTHY")
  BY <1>1, UpdateNewRowTyped DEF Compensate, Finalize, RowStatus
<1> QED
  BY <1>3, <1>4, <1>5, <1>6

(* A file decays, a forgotten handler writes, or a node comes or goes.     *)
LEMMA EnvironmentHeals ==
    ASSUME IInv, Environment
    PROVE  Abstract!HealNext \/ UNCHANGED Abstract!vars
<1> USE DEF IInv, SHTypeOK, ClusterTypeOK
<1>1. ASSUME NEW n \in Node, NodeTimesOut(n) \/ NodeReturns(n)
      PROVE  UNCHANGED Abstract!vars
  <2>1. UNCHANGED <<replica, disk>>
    BY <1>1 DEF NodeTimesOut, NodeReturns
  <2>2. faults'["rot"] = faults["rot"]
    BY <1>1, InjectTyped DEF NodeTimesOut, NodeReturns, FaultKind
  <2> QED
    BY <2>1, <2>2, Invisible
<1>2. ASSUME NEW o \in Object, NEW n \in Node, ChunkRots(o, n)
      PROVE  Abstract!HealNext
  <2>1. PICK d \in {"bad", "none"} : SetDisk(o, n, d)
    BY <1>2 DEF ChunkRots
  <2>2. NodesWith(disk', "good") = Abstract!Without(NodesWith(disk, "good"), o, n)
    BY <2>1, FileWritten
  <2>3. faults["rot"] \in Nat /\ faults'["rot"] = faults["rot"] + 1
    BY <1>2 DEF ChunkRots, Inject, FaultKind
  <2>4. UNCHANGED replica /\ disk[o][n] = "good"
    BY <1>2 DEF ChunkRots
  <2>5. Abstract!Decay(o, n)
    BY <2>2, <2>3, <2>4 DEF Abstract!Decay, Abstract!rows, NodesWith, RowsWith
  <2> QED
    BY <2>5 DEF Abstract!HealNext
<1>3. ASSUME NEW o \in Object, NEW n \in Node, NEW op \in {"store", "delete"},
             LateHandler(o, n, op)
      PROVE  Abstract!HealNext
  <2>1. UNCHANGED <<replica, faults>> /\ ~Settled(o, n)
    BY <1>3 DEF LateHandler, Settled
  <2>2. replica[o][n] # "HEALTHY" /\ Exists(o)
    BY <2>1 DEF LateInv
  <2>3. faults["rot"] = 0 => \E m \in Node \ {n} : disk[o][m] = "good"
    BY <2>1, <2>2 DEF SafeCopies, SafeCopy
  <2>4. PICK d \in DiskState : SetDisk(o, n, d)
    BY <1>3 DEF LateHandler, DiskState
  <2> QED
    BY <2>1, <2>2, <2>3, <2>4, FileWrites
<1> QED
  BY <1>1, <1>2, <1>3 DEF Environment

LEMMA HealStepMaps ==
    ASSUME IInv, RowsInv, [SHNext]_SHVars
    PROVE  [Abstract!HealNext]_(Abstract!vars)
<1>1. CASE QuietStep
  <2>1. UNCHANGED <<replica, disk>> /\ faults'["rot"] = faults["rot"]
    BY <1>1, QuietSteps DEF IInv, SHEQuiet, FaultStep
  <2> QED
    BY <2>1, Invisible
<1>2. CASE CrashSHE
  <2>1. UNCHANGED <<replica, disk>> /\ faults'["rot"] = faults["rot"]
    BY <1>2, CrashStep DEF IInv, SHEFrame, FaultStep
  <2> QED
    BY <2>1, Invisible
<1>3. CASE UNCHANGED SHVars
  BY <1>3, Invisible DEF SHVars, clusterVars
<1> QED
  BY <1>1, <1>2, <1>3, RecordReplaces, PushWrites, LastSettles, EnvironmentHeals
     DEF SHNext, SHEStep, QuietStep

LEMMA HealInitMaps == SHInit => Abstract!Init /\ RowsInv
<1> SUFFICES ASSUME SHInit PROVE Abstract!Init /\ RowsInv
  OBVIOUS
<1>1. PICK holders \in [Object -> SUBSET Node] :
        /\ replica = [o \in Object |-> [n \in Node |->
                         IF n \in holders[o] THEN "HEALTHY" ELSE "NONE"]]
        /\ disk = [o \in Object |-> [n \in Node |->
                         IF n \in holders[o] THEN "good" ELSE "none"]]
  BY DEF SHInit, Uploaded
<1>2. /\ \A o \in Object : RowsWith(o, "HEALTHY") = holders[o]
      /\ \A o \in Object : {n \in Node : disk[o][n] = "good"} = holders[o]
      /\ \A o \in Object : RowsWith(o, "RECOVERING") = {}
      /\ \A o \in Object : RowsWith(o, "LOST") = {}
  BY <1>1 DEF RowsWith
<1>3. faults["rot"] = 0
  BY DEF SHInit, Uploaded, FaultKind
<1>4. Abstract!Init
  BY <1>2, <1>3 DEF Abstract!Init
<1>5. RowsInv
  BY DEF SHInit, SHEInit, SHEIdle, RowsInv, At
<1> QED
  BY <1>4, <1>5

LEMMA RowsInvariant == SHSpec => []RowsInv
<1>1. SHInit => RowsInv
  BY HealInitMaps
<1>2. IInv /\ RowsInv /\ [SHNext]_SHVars => RowsInv'
  BY ListedRowsKept
<1> QED
  BY <1>1, <1>2, Inductive, PTL DEF SHSpec

(* The engine implements the healing of a replica set: whatever fails and  *)
(* whenever the process is restarted, each of its steps is one that        *)
(* ReplicaSet promises, or changes nothing a reader could see.             *)
THEOREM EngineHealsAsPromised == SHSpec => HealsAsPromised
<1>1. SHInit => Abstract!Init
  BY HealInitMaps
<1>2. IInv /\ RowsInv /\ [SHNext]_SHVars => [Abstract!HealNext]_(Abstract!vars)
  BY HealStepMaps
<1> QED
  BY <1>1, <1>2, Inductive, RowsInvariant, PTL
     DEF SHSpec, HealsAsPromised, Abstract!HealSpec

-----------------------------------------------------------------------------
(* One row for one.                                                        *)

(* A swap of one node for another, or the loss of one, adds none.          *)
LEMMA SwapAddsNone ==
    ASSUME NEW S \in SUBSET Node, NEW T \in SUBSET Node, NEW a, NEW b,
           a \in S, T \subseteq (S \ {a}) \cup {b}
    PROVE  Cardinality(T) <= Cardinality(S)
<1>1. IsFiniteSet(S) /\ Cardinality(S) \in Nat
  BY ClusterAssumption, FS_Subset, FS_CardinalityType
<1>2. /\ IsFiniteSet(S \ {a}) /\ Cardinality(S \ {a}) = Cardinality(S) - 1
  BY <1>1, FS_RemoveElement
<1>3. /\ IsFiniteSet((S \ {a}) \cup {b})
      /\ Cardinality((S \ {a}) \cup {b}) <= Cardinality(S \ {a}) + 1
  <2> DEFINE U == S \ {a}
  <2>1. IsFiniteSet(U) /\ Cardinality(U) \in Nat
    BY <1>1, <1>2, FS_CardinalityType
  <2> HIDE DEF U
  <2>2. IsFiniteSet(U \cup {b}) /\ Cardinality(U \cup {b}) <= Cardinality(U) + 1
    <3>1. /\ IsFiniteSet(U \cup {b})
          /\ Cardinality(U \cup {b}) =
               IF b \in U THEN Cardinality(U) ELSE Cardinality(U) + 1
      BY <2>1, FS_AddElement
    <3> QED
      BY <2>1, <3>1
  <2> QED
    BY <2>2 DEF U
<1>4. /\ Cardinality(T) <= Cardinality((S \ {a}) \cup {b})
      /\ Cardinality(T) \in Nat /\ Cardinality((S \ {a}) \cup {b}) \in Nat
  BY <1>3, FS_Subset, FS_CardinalityType
<1> QED
  BY <1>1, <1>2, <1>3, <1>4

LEMMA FewerAddNone ==
    ASSUME NEW S \in SUBSET Node, NEW T \in SUBSET S
    PROVE  Cardinality(T) <= Cardinality(S)
BY ClusterAssumption, FS_Subset

(* A recovery's first transaction reserves a row for the one it writes     *)
(* off, which was live; the last one settles a row that was counted.       *)
THEOREM RowsAreReplacedOneForOne == SHSpec => OneForOne
<1>1. ASSUME IInv, RowsInv, [SHNext]_SHVars, NEW o \in Object
      PROVE  Cardinality(LiveRows(o)') <= Cardinality(LiveRows(o))
  <2> USE <1>1 DEF IInv
  <2>0. LiveRows(o) \in SUBSET Node /\ LiveRows(o)' \in SUBSET Node
    BY DEF LiveRows, RowsWith
  <2>1. CASE UNCHANGED replica
    <3>1. LiveRows(o)' = LiveRows(o)
      BY <2>1 DEF LiveRows, RowsWith
    <3> QED
      BY <2>0, <3>1, FewerAddNone
  <2>2. CASE RecordRecovery /\ MarkLostAndInsert
    <3>1. /\ she.obj \in Object /\ she.failed \in Node /\ she.dest \in Node
          /\ replica[she.obj][she.failed] \in Live
      BY <2>2 DEF RecordRecovery, At, Locals, RowsInv
    <3>2. /\ \A a \in Object, b \in Node :
               a # she.obj \/ (b # she.failed /\ b # she.dest) =>
                 replica'[a][b] = replica[a][b]
          /\ she.failed # she.dest => replica'[she.obj][she.failed] = "LOST"
      BY <2>2, <3>1 DEF MarkLostAndInsert, SHTypeOK, ClusterTypeOK
    <3>3. CASE o = she.obj
      <4>1. she.failed \in LiveRows(o)
        BY <3>1, <3>3 DEF LiveRows, RowsWith, Live
      <4>2. LiveRows(o)' \subseteq (LiveRows(o) \ {she.failed}) \cup {she.dest}
        BY <3>1, <3>2, <3>3 DEF LiveRows, RowsWith
      <4> QED
        BY <2>0, <4>1, <4>2, SwapAddsNone
    <3>4. CASE o # she.obj
      <4>1. LiveRows(o)' = LiveRows(o)
        BY <3>2, <3>4 DEF LiveRows, RowsWith
      <4> QED
        BY <2>0, <4>1, FewerAddNone
    <3> QED
      BY <3>3, <3>4
  <2>3. CASE Compensate \/ Finalize
    <3>1. \A b \in Node : \/ replica'[o][b] = replica[o][b]
                          \/ o = she.obj /\ b = she.dest
      BY <2>3, LastStep
    <3>2. replica[she.obj][she.dest] = "RECOVERING"
      BY <2>3 DEF Compensate, Finalize, At, PlaceholderInv, InRecovery
    <3>3. LiveRows(o)' \subseteq LiveRows(o)
      BY <3>1, <3>2 DEF LiveRows, RowsWith
    <3> QED
      BY <2>0, <3>3, FewerAddNone
  <2>4. \/ UNCHANGED replica \/ Compensate \/ Finalize
        \/ RecordRecovery /\ MarkLostAndInsert
    <3>1. CASE QuietStep
      BY <3>1, QuietSteps DEF SHEQuiet
    <3>2. CASE RecordRecovery
      BY <3>2, RecordStep
    <3>3. CASE PushChunk
      BY <3>3, PushStep
    <3>4. CASE CrashSHE
      BY <3>4, CrashStep
    <3>5. CASE Environment /\ UNCHANGED she
      BY <3>5, EnvironmentTyped
    <3>6. CASE UNCHANGED SHVars
      BY <3>6 DEF SHVars, clusterVars
    <3> QED
      BY <1>1, <3>1, <3>2, <3>3, <3>4, <3>5, <3>6 DEF SHNext, SHEStep, QuietStep
  <2> QED
    BY <2>1, <2>2, <2>3, <2>4
<1>2. IInv /\ RowsInv /\ [SHNext]_SHVars =>
        [\A o \in Object :
          Cardinality(LiveRows(o)') <= Cardinality(LiveRows(o))]_SHVars
  BY <1>1
<1> QED
  BY <1>2, Inductive, RowsInvariant, PTL DEF SHSpec, OneForOne
=============================================================================
