------------------------- MODULE Replication_proofs -------------------------
(***************************************************************************)
(* Theorems about the replication manager against a failing cluster        *)
(* (RMSpec), for every number of nodes and objects, all configured factors *)
(* and any number of faults of each kind.                                  *)
(***************************************************************************)
EXTENDS Replication, FiniteSetTheorems, TLAPS

-----------------------------------------------------------------------------
(* Faults and rows.                                                        *)

LEMMA InjectCounts ==
    ASSUME faults \in [FaultKind -> Nat], NEW kind \in FaultKind, Inject(kind)
    PROVE  /\ faults' \in [FaultKind -> Nat]
           /\ faults'[kind] = faults[kind] + 1
           /\ \A k \in FaultKind : k # kind => faults'[k] = faults[k]
           /\ \A k \in FaultKind : faults'[k] >= faults[k]
BY DEF Inject

(* What a step adds to the counts of faults: no counter goes down, and the *)
(* mishaps, or they and the failed calls, grow by so many.                 *)
Counted == /\ faults' \in [FaultKind -> Nat]
           /\ \A k \in FaultKind : faults'[k] >= faults[k]
LeakFund == Mishaps + faults["net"]
Costs(n) == Counted /\ Mishaps' >= Mishaps + n
CallCosts(n) == Counted /\ LeakFund' >= LeakFund + n

LEMMA CountsTyped ==
    ASSUME faults \in [FaultKind -> Nat]
    PROVE  /\ Mishaps \in Nat /\ LeakFund \in Nat
           /\ \A k \in FaultKind : faults[k] \in Nat
           /\ {"db", "crash", "late", "net", "rot", "outage"} \subseteq FaultKind
BY DEF Mishaps, LeakFund, FaultKind

LEMMA FreeStep ==
    ASSUME faults \in [FaultKind -> Nat], NoFault
    PROVE  Costs(0) /\ CallCosts(0)
BY CountsTyped DEF NoFault, Costs, CallCosts, Counted, Mishaps, LeakFund

LEMMA PaidStep ==
    ASSUME faults \in [FaultKind -> Nat], NEW kind \in FaultKind, Inject(kind)
    PROVE  /\ Costs(0) /\ CallCosts(0)
           /\ kind \in {"db", "crash", "late"} => Costs(1) /\ CallCosts(1)
           /\ kind = "net" => CallCosts(1)
           /\ kind # "rot" => faults'["rot"] = faults["rot"]
           /\ kind # "outage" => faults'["outage"] = faults["outage"]
           /\ faults'[kind] = faults[kind] + 1
<1>1. /\ faults' \in [FaultKind -> Nat]
      /\ faults'[kind] = faults[kind] + 1
      /\ \A k \in FaultKind : k # kind => faults'[k] = faults[k]
      /\ \A k \in FaultKind : faults'[k] >= faults[k]
  BY InjectCounts
<1>2. /\ faults["db"] \in Nat /\ faults["crash"] \in Nat /\ faults["late"] \in Nat
      /\ faults["net"] \in Nat
      /\ faults'["db"] \in Nat /\ faults'["crash"] \in Nat /\ faults'["late"] \in Nat
      /\ faults'["net"] \in Nat
  BY <1>1 DEF FaultKind
<1> QED
  BY <1>1, <1>2 DEF Costs, CallCosts, Counted, Mishaps, LeakFund, FaultKind

(* One row, or one file, is set; all the others stay.                      *)
LEMMA RowSet ==
    ASSUME ClusterTypeOK, NEW o \in Object, NEW n \in Node,
           NEW s \in RowStatus, SetRow(o, n, s)
    PROVE  /\ replica' \in [Object -> [Node -> RowStatus]]
           /\ replica'[o][n] = s
           /\ \A a \in Object, b \in Node :
                a # o \/ b # n => replica'[a][b] = replica[a][b]
BY DEF ClusterTypeOK, SetRow

LEMMA DiskSet ==
    ASSUME ClusterTypeOK, NEW o \in Object, NEW n \in Node,
           NEW d \in DiskState, SetDisk(o, n, d)
    PROVE  /\ disk' \in [Object -> [Node -> DiskState]]
           /\ disk'[o][n] = d
           /\ \A a \in Object, b \in Node :
                a # o \/ b # n => disk'[a][b] = disk[a][b]
BY DEF ClusterTypeOK, SetDisk

(* What a call to a node may do, in all its outcomes: to the one file, or  *)
(* by leaving a handler behind, which is a mishap.                         *)
OneFile(o, n) ==
    /\ disk' \in [Object -> [Node -> DiskState]]
    /\ \A a \in Object, b \in Node : a # o \/ b # n => disk'[a][b] = disk[a][b]

CallOutcome(o, n, op) ==
    /\ OneFile(o, n) /\ Costs(0) /\ CallCosts(0)
    /\ faults'["rot"] = faults["rot"] /\ faults'["outage"] = faults["outage"]
    /\ late' \subseteq NodeCall
    /\ \/ late' = late
       \/ late' = late \cup {<<o, n, op>>} /\ disk' = disk /\ Costs(1)

LEMMA NoCost ==
    ASSUME faults \in [FaultKind -> Nat], NoFault
    PROVE  /\ Costs(0) /\ CallCosts(0)
           /\ faults'["rot"] = faults["rot"] /\ faults'["outage"] = faults["outage"]
BY FreeStep DEF NoFault

LEMMA CallFailsCost ==
    ASSUME faults \in [FaultKind -> Nat], NEW n, CallFails(n)
    PROVE  /\ Costs(0) /\ CallCosts(0)
           /\ faults'["rot"] = faults["rot"] /\ faults'["outage"] = faults["outage"]
           /\ nodeStatus[n] = "ONLINE" => CallCosts(1)
BY NoCost, PaidStep, CountsTyped DEF CallFails

LEMMA GivenUpOutcome ==
    ASSUME ClusterTypeOK, NEW o \in Object, NEW n \in Node,
           NEW op \in {"store", "delete"}, GivenUp(o, n, op)
    PROVE  CallOutcome(o, n, op) /\ Costs(1) /\ CallCosts(1)
<1>1. Inject("late") /\ faults \in [FaultKind -> Nat] /\ "late" \in FaultKind
  BY DEF GivenUp, ClusterTypeOK, FaultKind
<1>2. late' \subseteq NodeCall
  BY DEF GivenUp, ClusterTypeOK, NodeCall
<1> QED
  BY <1>1, <1>2, PaidStep DEF GivenUp, CallOutcome, OneFile, ClusterTypeOK

LEMMA StoreOutcome ==
    ASSUME ClusterTypeOK, NEW o \in Object, NEW n \in Node,
           StoreChunk(o, n) \/ StoreChunkFails(o, n)
    PROVE  /\ CallOutcome(o, n, "store")
           /\ StoreChunk(o, n) => disk'[o][n] = "good" /\ UNCHANGED <<late, faults>>
           /\ StoreChunkFails(o, n) /\ nodeStatus[n] = "ONLINE" => CallCosts(1)
<1>0. faults \in [FaultKind -> Nat] /\ late \subseteq NodeCall
  BY DEF ClusterTypeOK
<1>1. CASE StoreChunk(o, n)
  <2>1. SetDisk(o, n, "good") /\ "good" \in DiskState /\ late' = late /\ NoFault
    BY <1>1 DEF StoreChunk, DiskState
  <2>2. CallOutcome(o, n, "store") /\ disk'[o][n] = "good"
    BY <1>0, <2>1, DiskSet, NoCost DEF CallOutcome, OneFile
  <2>3. UNCHANGED <<late, faults>>
    BY <2>1 DEF NoFault
  <2>4. StoreChunkFails(o, n) /\ nodeStatus[n] = "ONLINE" => CallCosts(1)
    <3>1. CASE GivenUp(o, n, "store")
      BY <3>1, GivenUpOutcome
    <3>2. CASE CallFails(n)
      BY <1>0, <3>2, CallFailsCost
    <3> QED
      BY <3>1, <3>2 DEF StoreChunkFails
  <2> QED
    BY <2>2, <2>3, <2>4
<1>2. CASE ~StoreChunk(o, n) /\ GivenUp(o, n, "store")
  BY <1>2, GivenUpOutcome
<1>3. CASE ~StoreChunk(o, n) /\ ~GivenUp(o, n, "store")
  <2>1. CallFails(n) /\ late' = late
    BY <1>3 DEF StoreChunkFails
  <2>2. PICK d \in DiskState : SetDisk(o, n, d)
    BY <1>3 DEF StoreChunkFails
  <2> QED
    BY <1>0, <1>3, <2>1, <2>2, DiskSet, CallFailsCost DEF CallOutcome, OneFile
<1> QED
  BY <1>1, <1>2, <1>3

LEMMA DeleteOutcome ==
    ASSUME ClusterTypeOK, NEW o \in Object, NEW n \in Node,
           DeleteChunk(o, n) \/ DeleteChunkFails(o, n)
    PROVE  /\ CallOutcome(o, n, "delete")
           /\ disk'[o][n] \in {"none", disk[o][n]}
           /\ DeleteChunk(o, n) => disk'[o][n] = "none"
           /\ DeleteChunkFails(o, n) /\ nodeStatus[n] = "ONLINE" => CallCosts(1)
<1>0. faults \in [FaultKind -> Nat] /\ late \subseteq NodeCall
  BY DEF ClusterTypeOK
<1>4. DeleteChunkFails(o, n) /\ nodeStatus[n] = "ONLINE" => CallCosts(1)
  <2>1. CASE GivenUp(o, n, "delete")
    BY <2>1, GivenUpOutcome
  <2>2. CASE CallFails(n)
    BY <1>0, <2>2, CallFailsCost
  <2> QED
    BY <2>1, <2>2 DEF DeleteChunkFails
<1>1. CASE DeleteChunk(o, n)
  <2>1. SetDisk(o, n, "none") /\ "none" \in DiskState /\ late' = late /\ NoFault
    BY <1>1 DEF DeleteChunk, DiskState
  <2>2. CallOutcome(o, n, "delete") /\ disk'[o][n] = "none"
    BY <1>0, <2>1, DiskSet, NoCost DEF CallOutcome, OneFile
  <2> QED
    BY <1>4, <2>2
<1>2. CASE ~DeleteChunk(o, n) /\ GivenUp(o, n, "delete")
  BY <1>2, <1>4, GivenUpOutcome DEF GivenUp
<1>3. CASE ~DeleteChunk(o, n) /\ ~GivenUp(o, n, "delete")
  <2>1. CallFails(n) /\ late' = late
    BY <1>3 DEF DeleteChunkFails
  <2>2. PICK d \in {"none", disk[o][n]} : SetDisk(o, n, d)
    BY <1>3 DEF DeleteChunkFails
  <2>3. d \in DiskState
    BY DEF DiskState, ClusterTypeOK
  <2> QED
    BY <1>0, <1>3, <1>4, <2>1, <2>2, <2>3, DiskSet, CallFailsCost
    DEF CallOutcome, OneFile
<1> QED
  BY <1>1, <1>2, <1>3
-----------------------------------------------------------------------------
(* Types and local variables.                                              *)

(* What the manager relies on in its local variables.  Only it writes      *)
(* rows, so what it has read of them holds until it writes: there is no    *)
(* row yet at a destination, and there still is one at a candidate; more   *)
(* than MinRF are there when a replica is pruned.                          *)
RMLocals ==
    /\ rm.pc \notin {"idle", "objects"} => rm.obj \in Object
    /\ rm.pc \in {"count", "sync", "upRows", "upPlace", "downList"} =>
         rm.target \in {MinRF, DefaultRF, MaxRF}
    /\ rm.pc \in {"upRows", "upPlace"} => rm.count < rm.target
    /\ rm.pc = "upPlace" => ReplicaRows(rm.obj) \subseteq rm.nodes
    /\ rm.pc \in {"upSources", "upFetch", "upPush", "upInsert", "upUndo"} =>
         \A n \in rm.dests : replica[rm.obj][n] = "NONE"
    /\ rm.pc \in {"upInsert", "upUndo"} => rm.node \in Node \ rm.dests
    /\ rm.pc = "upInsert" => replica[rm.obj][rm.node] = "NONE"
    /\ rm.pc \in {"downCheck", "downPurge", "downDrop"} =>
         rm.nodes \subseteq RowsWith(rm.obj, "HEALTHY")
    /\ rm.pc \in {"downPurge", "downDrop"} =>
         /\ rm.node \in RowsWith(rm.obj, "HEALTHY") \ rm.nodes
         /\ Cardinality(RowsWith(rm.obj, "HEALTHY")) > MinRF

LEMMA FactorsAre ==
    /\ MinRF \in Nat /\ DefaultRF \in Nat /\ MaxRF \in Nat
    /\ \A tier \in Tiers : TierFactor(tier) \in {MinRF, DefaultRF, MaxRF}
    /\ \A f \in {MinRF, DefaultRF, MaxRF} : f \in Nat /\ f >= MinRF
<1>1. \A tier \in {"HOT", "WARM", "COLD"} :
        TierFactor(tier) \in {MinRF, DefaultRF, MaxRF}
  BY DEF TierFactor
<1> QED
  BY <1>1, FactorAssumption, TiersAssumption

(* Every set of nodes can be counted.                                      *)
LEMMA NodesCount ==
    ASSUME NEW S \in SUBSET Node
    PROVE  IsFiniteSet(S) /\ Cardinality(S) \in Nat
BY ClusterAssumption, FS_Subset, FS_CardinalityType

LEMMA HealthyCount ==
    ASSUME NEW o
    PROVE  /\ CountHealthyReplicas(o) \in Nat /\ HealthyReplicas(o) \subseteq Node
           /\ CountHealthyReplicas(o) <= Cardinality(RowsWith(o, "HEALTHY"))
<1>1. HealthyReplicas(o) \subseteq RowsWith(o, "HEALTHY")
      /\ RowsWith(o, "HEALTHY") \subseteq Node
  BY DEF HealthyReplicas, RowsWith
<1> QED
  BY <1>1, NodesCount, FS_Subset DEF CountHealthyReplicas

LEMMA NextObjectTyped ==
    ASSUME RMTypeOK, rm' = NextObject
    PROVE  /\ RMTypeOK' /\ rm'.pc = "objects"
BY DEF RMTypeOK, NextObject, RMIdle, RMPc

LEMMA GoesOn ==
    ASSUME RMTypeOK, NEW pc \in RMPc, NEW S \in SUBSET Node,
           rm' = [rm EXCEPT !.pc = pc, !.nodes = S]
    PROVE  /\ RMTypeOK' /\ rm'.pc = pc /\ rm'.nodes = S /\ rm'.obj = rm.obj
           /\ rm'.dests = rm.dests /\ rm'.target = rm.target /\ rm'.count = rm.count
           /\ rm'.node = rm.node
BY DEF RMTypeOK

(* A process that is between two objects relies on nothing.                *)
LEMMA BetweenObjects ==
    ASSUME rm'.pc \in {"idle", "objects"} PROVE RMLocals'
BY DEF RMLocals

(* The steps that only read: the rows stay, and nobody is being worked on. *)
ReadStep ==
    \/ ReconcileTick \/ ReconcileDone \/ TakeObject \/ LoadObject \/ ReadTier
    \/ Compare \/ SyncFactor \/ RMReadFails \/ ListRows \/ SelectDestinations
    \/ ListSources \/ FetchCopy \/ NoCopyFetched \/ AllPushed \/ ScaledUp
    \/ ListCandidates \/ AllPruned \/ ScaledDown

LEMMA WriteFactorTyped ==
    ASSUME ReplicationTypeOK, NEW f \in Int, WriteFactor(f)
    PROVE  /\ rm' = NextObject /\ factor' \in [Object -> Nat]
           /\ UNCHANGED <<replica, nodeStatus, disk, late, listed>>
           /\ Costs(0) /\ CallCosts(0)
           /\ faults'["rot"] = faults["rot"] /\ faults'["outage"] = faults["outage"]
<1>1. faults \in [FaultKind -> Nat] /\ factor \in [Object -> Nat]
  BY DEF ReplicationTypeOK, ClusterTypeOK
<1>2. PICK out \in TxOutcome :
        /\ TxCost(out)
        /\ IF out = "rolledBack" THEN UNCHANGED factor
           ELSE UpdateReplicationFactor(rm.obj, f)
  BY DEF WriteFactor
<1>3. factor' \in [Object -> Nat]
  BY <1>1, <1>2 DEF UpdateReplicationFactor
<1>4. NoFault \/ Inject("db")
  BY <1>2 DEF TxCost
<1> QED
  BY <1>1, <1>3, <1>4, NoCost, PaidStep, CountsTyped DEF WriteFactor

(* A statement costs nothing, or a failure of the database.                *)
LEMMA TxOutcomeCost ==
    ASSUME faults \in [FaultKind -> Nat], NEW out \in TxOutcome, TxCost(out)
    PROVE  /\ Costs(0) /\ CallCosts(0)
           /\ faults'["rot"] = faults["rot"] /\ faults'["outage"] = faults["outage"]
           /\ out # "committed" => Costs(1) /\ CallCosts(1)
BY NoCost, PaidStep, CountsTyped DEF TxCost

LEMMA ReadSteps ==
    ASSUME ReplicationTypeOK, RMLocals, ReadStep
    PROVE  /\ ReplicationTypeOK' /\ RMLocals'
           /\ UNCHANGED <<replica, nodeStatus, disk, late, listed>>
           /\ Costs(0) /\ CallCosts(0)
           /\ faults'["rot"] = faults["rot"] /\ faults'["outage"] = faults["outage"]
           /\ rm.pc \notin {"upInsert", "upUndo", "downPurge", "downDrop"}
           /\ rm'.pc \notin {"upInsert", "upUndo", "downPurge", "downDrop"}
<1> DEFINE Idle(pc) == pc \notin {"upInsert", "upUndo", "downPurge", "downDrop"}
           Goal == /\ RMTypeOK' /\ RMLocals' /\ Idle(rm.pc) /\ Idle(rm'.pc)
                   /\ UNCHANGED <<replica, nodeStatus, disk, late, listed>>
                   /\ factor' \in [Object -> Nat]
                   /\ NoFault \/ Inject("db") \/ (\E n : CallFails(n))
                      \/ (\E f \in Int : WriteFactor(f))
<1>0. ClusterTypeOK /\ RMTypeOK /\ faults \in [FaultKind -> Nat]
      /\ factor \in [Object -> Nat]
  BY DEF ReplicationTypeOK, ClusterTypeOK
<1>g. SUFFICES Goal
  <2>1. /\ Costs(0) /\ CallCosts(0)
        /\ faults'["rot"] = faults["rot"] /\ faults'["outage"] = faults["outage"]
    BY <1>0, NoCost, PaidStep, CallFailsCost, CountsTyped, WriteFactorTyped
  <2>2. faults' \in [FaultKind -> Nat]
    BY <2>1 DEF Costs, Counted
  <2> QED
    BY <1>0, <2>1, <2>2 DEF ReplicationTypeOK, ClusterTypeOK
<1>1. CASE ReconcileTick
  BY <1>0, <1>1, BetweenObjects DEF ReconcileTick, RMAt, clusterVars, NoFault, RMTypeOK, RMPc
<1>2. CASE ReconcileDone
  BY <1>0, <1>2, BetweenObjects
  DEF ReconcileDone, RMAt, clusterVars, NoFault, RMTypeOK, RMPc, RMIdle
<1>3. CASE TakeObject
  <2>1. PICK o \in Object :
          rm' = [rm EXCEPT !.pc = "object", !.objs = @ \ {o}, !.obj = o]
    BY <1>0, <1>3 DEF TakeObject, RMTypeOK
  <2>2. RMTypeOK' /\ rm'.pc = "object" /\ rm'.obj = o
    BY <1>0, <2>1 DEF RMTypeOK, RMPc
  <2>3. RMLocals'
    BY <2>2 DEF RMLocals
  <2> QED
    BY <1>0, <1>3, <2>2, <2>3 DEF TakeObject, RMAt, clusterVars, NoFault
<1>4. CASE LoadObject
  <2>1. CASE Exists(rm.obj)
    BY <1>0, <1>4, <2>1
    DEF LoadObject, RMAt, clusterVars, NoFault, RMTypeOK, RMPc, RMLocals
  <2>2. CASE ~Exists(rm.obj)
    BY <1>0, <1>4, <2>2, NextObjectTyped, BetweenObjects
    DEF LoadObject, RMAt, clusterVars, NoFault
  <2> QED
    BY <2>1, <2>2
<1>5. CASE ReadTier
  <2>1. PICK f \in {MinRF, DefaultRF, MaxRF} :
          rm' = [rm EXCEPT !.pc = "count", !.target = f]
    BY <1>5, FactorsAre DEF ReadTier
  <2>2. f \in Nat /\ rm.pc = "tier" /\ UNCHANGED clusterVars
    BY <1>5, FactorsAre DEF ReadTier, RMAt
  <2>3. /\ RMTypeOK' /\ rm'.pc = "count" /\ rm'.obj = rm.obj /\ rm'.target = f
    BY <1>0, <2>1, <2>2 DEF RMTypeOK, RMPc
  <2>4. RMLocals'
    BY <2>2, <2>3 DEF RMLocals
  <2> QED
    BY <1>0, <2>2, <2>3, <2>4 DEF clusterVars, NoFault
<1>6. CASE Compare
  <2> DEFINE count == CountHealthyReplicas(rm.obj)
  <2>1. count \in Nat /\ rm.target \in Nat /\ rm.target >= MinRF /\ MinRF \in Nat
        /\ rm.pc = "count" /\ rm.obj \in Object
        /\ rm.target \in {MinRF, DefaultRF, MaxRF}
    BY <1>6, HealthyCount, FactorsAre DEF Compare, RMAt, RMLocals
  <2>2. UNCHANGED clusterVars
    BY <1>6 DEF Compare
  <2>3. \/ count < rm.target /\ rm' = [rm EXCEPT !.pc = "upRows", !.count = count]
        \/ count > rm.target /\ rm' = [rm EXCEPT !.pc = "downList", !.count = count,
                                   !.left = PruneExcess(count, rm.target)]
        \/ rm' = [rm EXCEPT !.pc = "sync"]
        \/ rm' = NextObject
    BY <1>6, <2>1 DEF Compare
  <2>4. count > rm.target => PruneExcess(count, rm.target) \in Nat
    BY <2>1 DEF PruneExcess
  <2> HIDE DEF count
  <2>5. CASE rm' = NextObject
    BY <1>0, <2>1, <2>2, <2>5, NextObjectTyped, BetweenObjects DEF clusterVars, NoFault
  <2>6. CASE rm' # NextObject
    <3> DEFINE left == PruneExcess(count, rm.target)
    <3> HIDE DEF left
    <3>3. ASSUME count < rm.target, rm' = [rm EXCEPT !.pc = "upRows", !.count = count]
          PROVE  RMTypeOK' /\ RMLocals' /\ Idle(rm'.pc)
      <4>1. /\ RMTypeOK' /\ rm'.pc = "upRows" /\ rm'.count = count
            /\ rm'.obj = rm.obj /\ rm'.target = rm.target
        BY <1>0, <2>1, <3>3 DEF RMTypeOK, RMPc
      <4> QED
        BY <2>1, <3>3, <4>1 DEF RMLocals
    <3>4. ASSUME count > rm.target,
                 rm' = [rm EXCEPT !.pc = "downList", !.count = count, !.left = left]
          PROVE  RMTypeOK' /\ RMLocals' /\ Idle(rm'.pc)
      <4>1. left \in Nat
        BY <2>4, <3>4 DEF left
      <4>2. /\ RMTypeOK' /\ rm'.pc = "downList"
            /\ rm'.obj = rm.obj /\ rm'.target = rm.target
        BY <1>0, <2>1, <3>4, <4>1 DEF RMTypeOK, RMPc
      <4> QED
        BY <2>1, <4>2 DEF RMLocals
    <3>5. ASSUME rm' = [rm EXCEPT !.pc = "sync"]
          PROVE  RMTypeOK' /\ RMLocals' /\ Idle(rm'.pc)
      <4>1. /\ RMTypeOK' /\ rm'.pc = "sync" /\ rm'.obj = rm.obj /\ rm'.target = rm.target
        BY <1>0, <3>5 DEF RMTypeOK, RMPc
      <4> QED
        BY <2>1, <4>1 DEF RMLocals
    <3>1. RMTypeOK' /\ RMLocals' /\ Idle(rm'.pc)
      BY <2>3, <2>6, <3>3, <3>4, <3>5 DEF left
    <3> QED
      BY <1>0, <2>1, <2>2, <3>1 DEF clusterVars, NoFault
  <2> QED
    BY <2>5, <2>6
<1>7. CASE SyncFactor \/ ScaledUp \/ ScaledDown
  <2>1. PICK f \in Int : WriteFactor(f)
    BY <1>0, <1>7, FactorsAre DEF SyncFactor, ScaledUp, ScaledDown, RMLocals, RMAt, RMTypeOK
  <2>2. rm.pc \in {"sync", "upFactor", "downFactor"}
    BY <1>7 DEF SyncFactor, ScaledUp, ScaledDown, RMAt
  <2> QED
    BY <1>0, <2>1, <2>2, WriteFactorTyped, NextObjectTyped, BetweenObjects
<1>8. CASE RMReadFails
  <2>1. /\ Inject("db") /\ UNCHANGED <<factor, replica, nodeStatus, disk, late, listed>>
        /\ \/ rm.pc = "idle" /\ rm' = rm
           \/ /\ rm.pc \in {"object", "tier", "count", "upRows", "upPlace",
                            "upSources", "downList"}
              /\ rm' = NextObject
    BY <1>8 DEF RMReadFails, RMAt
  <2>2. CASE rm' = NextObject
    BY <1>0, <2>1, <2>2, NextObjectTyped, BetweenObjects
  <2>3. CASE rm' # NextObject
    BY <1>0, <2>1, <2>3, BetweenObjects DEF RMTypeOK
  <2> QED
    BY <2>2, <2>3
<1>9. CASE ListRows
  <2>1. /\ rm' = [rm EXCEPT !.pc = "upPlace", !.nodes = ReplicaRows(rm.obj)]
        /\ rm.pc = "upRows" /\ UNCHANGED clusterVars
        /\ ReplicaRows(rm.obj) \subseteq Node
    BY <1>9 DEF ListRows, RMAt, ReplicaRows
  <2>2. /\ RMTypeOK' /\ rm'.pc = "upPlace" /\ rm'.nodes = ReplicaRows(rm.obj)
        /\ rm'.obj = rm.obj /\ rm'.target = rm.target /\ rm'.count = rm.count
    BY <1>0, <2>1, GoesOn DEF RMPc
  <2>3. ReplicaRows(rm.obj)' = ReplicaRows(rm.obj)
    BY <2>1, <2>2 DEF ReplicaRows, clusterVars
  <2>4. RMLocals'
    BY <2>1, <2>2, <2>3 DEF RMLocals
  <2> QED
    BY <1>0, <2>1, <2>2, <2>4 DEF clusterVars, NoFault
<1>10. CASE SelectDestinations
  <2>1. /\ rm.pc = "upPlace" /\ UNCHANGED clusterVars
        /\ \/ rm' = NextObject
           \/ \E S \in SelectNodes(rm.target - rm.count, rm.nodes) :
                rm' = [rm EXCEPT !.pc = "upSources", !.nodes = {}, !.dests = S]
    BY <1>10 DEF SelectDestinations, RMAt
  <2>2. CASE rm' = NextObject
    BY <1>0, <2>1, <2>2, NextObjectTyped, BetweenObjects DEF clusterVars, NoFault
  <2>3. CASE rm' # NextObject
    <3>1. PICK S \in SelectNodes(rm.target - rm.count, rm.nodes) :
                rm' = [rm EXCEPT !.pc = "upSources", !.nodes = {}, !.dests = S]
      BY <2>1, <2>3
    <3>2. S \subseteq Node /\ \A n \in S : n \notin rm.nodes
      BY DEF SelectNodes, OnlineNodes
    <3>3. \A n \in S : replica[rm.obj][n] = "NONE"
      BY <2>1, <3>2 DEF RMLocals, ReplicaRows
    <3>4. RMTypeOK'
      BY <1>0, <3>1, <3>2 DEF RMTypeOK, RMPc
    <3> QED
      BY <1>0, <2>1, <3>1, <3>3, <3>4 DEF clusterVars, NoFault, RMTypeOK, RMLocals
  <2> QED
    BY <2>2, <2>3
<1>11. CASE ListSources
  <2>1. /\ rm.pc = "upSources" /\ UNCHANGED clusterVars
        /\ \/ rm' = NextObject
           \/ rm' = [rm EXCEPT !.pc = "upFetch", !.nodes = HealthyReplicas(rm.obj)]
    BY <1>11 DEF ListSources, RMAt
  <2>2. CASE rm' = NextObject
    BY <1>0, <2>1, <2>2, NextObjectTyped, BetweenObjects DEF clusterVars, NoFault
  <2>3. CASE rm' # NextObject
    <3>1. HealthyReplicas(rm.obj) \in SUBSET Node
      BY HealthyCount
    <3>2. /\ RMTypeOK' /\ rm'.pc = "upFetch" /\ rm'.obj = rm.obj
          /\ rm'.dests = rm.dests
      BY <1>0, <2>1, <2>3, <3>1, GoesOn DEF RMPc
    <3>3. RMLocals'
      BY <2>1, <3>2 DEF RMLocals, clusterVars
    <3> QED
      BY <1>0, <2>1, <3>2, <3>3 DEF clusterVars, NoFault
  <2> QED
    BY <2>2, <2>3
<1>12. CASE FetchCopy
  <2>1. PICK n \in rm.nodes :
        \/ /\ FetchVerified(rm.obj, n)
           /\ rm' = IF rm.obj \in EmptyObject THEN NextObject
                    ELSE [rm EXCEPT !.pc = "upPush", !.nodes = {}]
        \/ /\ FetchUnusable(rm.obj, n) \/ Inject("db")
           /\ rm' = [rm EXCEPT !.nodes = @ \ {n}]
    BY <1>12 DEF FetchCopy
  <2>2. /\ rm.pc = "upFetch"
        /\ UNCHANGED <<factor, replica, nodeStatus, disk, late, listed>>
    BY <1>12 DEF FetchCopy, RMAt
  <2>3. NoFault \/ Inject("db") \/ (\E m : CallFails(m))
    BY <2>1 DEF FetchVerified, FetchUnusable
  <2>4. \/ rm' = NextObject \/ rm' = [rm EXCEPT !.pc = "upPush", !.nodes = {}]
        \/ rm' = [rm EXCEPT !.nodes = @ \ {n}]
    BY <2>1
  <2>5. CASE rm' = NextObject
    BY <1>0, <2>2, <2>3, <2>5, NextObjectTyped, BetweenObjects
  <2>6. CASE rm' # NextObject
    <3>1. PICK pc \in {"upPush", "upFetch"}, S \in SUBSET Node :
            rm' = [rm EXCEPT !.pc = pc, !.nodes = S]
      <4>1. rm.nodes \ {n} \in SUBSET Node /\ {} \in SUBSET Node
        BY <1>0 DEF RMTypeOK
      <4>2. [rm EXCEPT !.nodes = @ \ {n}] = [rm EXCEPT !.pc = "upFetch", !.nodes = @ \ {n}]
        BY <1>0, <2>2 DEF RMTypeOK
      <4> QED
        BY <2>4, <2>6, <4>1, <4>2
    <3>2. RMTypeOK' /\ rm'.pc = pc /\ rm'.obj = rm.obj /\ rm'.dests = rm.dests
      BY <1>0, <3>1, GoesOn DEF RMPc
    <3>3. RMLocals'
      BY <2>2, <3>1, <3>2 DEF RMLocals
    <3> QED
      BY <1>0, <2>2, <2>3, <3>1, <3>2, <3>3
  <2> QED
    BY <2>5, <2>6
<1>13. CASE NoCopyFetched
  BY <1>0, <1>13, NextObjectTyped, BetweenObjects
  DEF NoCopyFetched, RMAt, clusterVars, NoFault
<1>14. CASE AllPushed \/ AllPruned
  <2>1. /\ rm.pc \in {"upPush", "downCheck"} /\ UNCHANGED clusterVars
        /\ \/ rm' = NextObject
           \/ \E pc \in {"upFactor", "downFactor"} : rm' = [rm EXCEPT !.pc = pc]
    BY <1>14 DEF AllPushed, AllPruned, RMAt
  <2>2. CASE rm' = NextObject
    BY <1>0, <2>1, <2>2, NextObjectTyped, BetweenObjects DEF clusterVars, NoFault
  <2>3. CASE rm' # NextObject
    BY <1>0, <2>1, <2>3 DEF clusterVars, NoFault, RMTypeOK, RMPc, RMLocals
  <2> QED
    BY <2>2, <2>3
<1>15. CASE ListCandidates
  <2>1. /\ rm.pc = "downList" /\ UNCHANGED clusterVars
        /\ \/ rm' = NextObject
           \/ rm' = [rm EXCEPT !.pc = "downCheck", !.nodes = HealthyReplicas(rm.obj)]
    BY <1>15 DEF ListCandidates, RMAt
  <2>2. CASE rm' = NextObject
    BY <1>0, <2>1, <2>2, NextObjectTyped, BetweenObjects DEF clusterVars, NoFault
  <2>3. CASE rm' # NextObject
    <3>1. /\ HealthyReplicas(rm.obj) \in SUBSET Node
          /\ HealthyReplicas(rm.obj) \subseteq RowsWith(rm.obj, "HEALTHY")
      BY HealthyCount DEF HealthyReplicas
    <3>2. /\ RMTypeOK' /\ rm'.pc = "downCheck" /\ rm'.obj = rm.obj
          /\ rm'.nodes = HealthyReplicas(rm.obj)
      BY <1>0, <2>1, <2>3, <3>1, GoesOn DEF RMPc
    <3>3. RowsWith(rm.obj, "HEALTHY")' = RowsWith(rm.obj, "HEALTHY")
      BY <2>1, <3>2 DEF RowsWith, clusterVars
    <3>4. RMLocals'
      BY <2>1, <3>1, <3>2, <3>3 DEF RMLocals
    <3> QED
      BY <1>0, <2>1, <3>2, <3>4 DEF clusterVars, NoFault
  <2> QED
    BY <2>2, <2>3
<1> QED
  BY <1>1, <1>2, <1>3, <1>4, <1>5, <1>6, <1>7, <1>8, <1>9, <1>10, <1>11, <1>12,
     <1>13, <1>14, <1>15 DEF ReadStep
-----------------------------------------------------------------------------
(* The steps that write: what each does to rows, files and handlers.       *)

RowsKept == UNCHANGED <<factor, replica, nodeStatus, listed>>
SameNodes == UNCHANGED <<factor, nodeStatus>>
NoNewFaults == faults'["rot"] = faults["rot"] /\ faults'["outage"] = faults["outage"]
Typed == ReplicationTypeOK' /\ RMLocals'
AtWork(pc, o, n) == rm.pc = pc /\ rm.obj = o /\ rm.node = n

(* A step whose parts have their types.                                    *)
LEMMA TypedBy ==
    ASSUME ReplicationTypeOK, RMTypeOK', RMLocals', SameNodes, Costs(0),
           replica' \in [Object -> [Node -> RowStatus]],
           disk' \in [Object -> [Node -> DiskState]],
           late' \subseteq NodeCall, listed' \subseteq Object \X Node
    PROVE  Typed
BY DEF Typed, ReplicationTypeOK, ClusterTypeOK, SameNodes, Costs, Counted

(* The safety check lets one candidate through, or ends the loop.          *)
LEMMA CheckStep ==
    ASSUME ReplicationTypeOK, RMLocals, CheckRemaining
    PROVE  /\ Typed /\ RowsKept /\ UNCHANGED <<disk, late>>
           /\ Costs(0) /\ CallCosts(0) /\ NoNewFaults
           /\ rm.pc = "downCheck" /\ rm'.pc \in {"downCheck", "downPurge"}
<1>0. ClusterTypeOK /\ RMTypeOK /\ faults \in [FaultKind -> Nat]
  BY DEF ReplicationTypeOK, ClusterTypeOK
<1>1. /\ rm.pc = "downCheck" /\ rm.left > 0 /\ RowsKept /\ UNCHANGED <<disk, late>>
      /\ NoFault \/ Inject("db")
      /\ rm.obj \in Object /\ rm.nodes \subseteq RowsWith(rm.obj, "HEALTHY")
  BY DEF CheckRemaining, RMAt, RowsKept, RMLocals
<1>2. Costs(0) /\ CallCosts(0) /\ NoNewFaults
  BY <1>0, <1>1, NoCost, PaidStep, CountsTyped DEF NoNewFaults
<1>3. RowsWith(rm.obj, "HEALTHY")' = RowsWith(rm'.obj, "HEALTHY")
      /\ \A o : {n \in Node : replica'[o][n] = "HEALTHY"} = RowsWith(o, "HEALTHY")
  BY <1>1 DEF RowsWith, RowsKept
<1>4. RMTypeOK' /\ RMLocals' /\ rm'.pc \in {"downCheck", "downPurge"}
  <2>1. CASE /\ CountHealthyReplicas(rm.obj) > MinRF
             /\ \E n \in rm.nodes :
                   rm' = [rm EXCEPT !.pc = "downPurge", !.nodes = @ \ {n},
                                    !.node = n, !.left = @ - 1]
    <3>1. PICK n \in rm.nodes :
            rm' = [rm EXCEPT !.pc = "downPurge", !.nodes = @ \ {n},
                             !.node = n, !.left = @ - 1]
      BY <2>1
    <3>2. n \in Node /\ rm.left \in Nat /\ rm.left - 1 \in Nat
      BY <1>0, <1>1 DEF RMTypeOK
    <3>3. /\ RMTypeOK' /\ rm'.pc = "downPurge" /\ rm'.obj = rm.obj
          /\ rm'.nodes = rm.nodes \ {n} /\ rm'.node = n
      BY <1>0, <3>1, <3>2 DEF RMTypeOK, RMPc
    <3>4. Cardinality(RowsWith(rm.obj, "HEALTHY")) > MinRF
      BY <2>1, HealthyCount, NodesCount, FactorsAre DEF RowsWith
    <3>5. RowsWith(rm.obj, "HEALTHY")' = RowsWith(rm.obj, "HEALTHY")
      BY <1>1, <3>3 DEF RowsWith, RowsKept
    <3> QED
      BY <1>1, <3>3, <3>4, <3>5 DEF RMLocals
  <2>2. CASE rm' = [rm EXCEPT !.left = 0]
    <3>1. /\ RMTypeOK' /\ rm'.pc = "downCheck" /\ rm'.obj = rm.obj
          /\ rm'.nodes = rm.nodes
      BY <1>0, <1>1, <2>2 DEF RMTypeOK
    <3>2. RowsWith(rm.obj, "HEALTHY")' = RowsWith(rm.obj, "HEALTHY")
      BY <1>1, <3>1 DEF RowsWith, RowsKept
    <3> QED
      BY <1>1, <3>1, <3>2 DEF RMLocals
  <2> QED
    BY <2>1, <2>2 DEF CheckRemaining
<1>5. Typed
  BY <1>0, <1>1, <1>2, <1>4, TypedBy DEF RowsKept, SameNodes, ClusterTypeOK
<1> QED
  BY <1>1, <1>2, <1>4, <1>5

(* A push goes to a node without a row; if it succeeds the file is good.   *)
LEMMA PushCopyStep ==
    ASSUME ReplicationTypeOK, RMLocals, PushCopy
    PROVE  /\ Typed /\ RowsKept /\ rm.pc = "upPush" /\ rm.obj \in Object
           /\ \E n \in Node :
                /\ CallOutcome(rm.obj, n, "store") /\ replica[rm.obj][n] = "NONE"
                /\ \/ /\ rm'.pc = "upInsert" /\ rm'.obj = rm.obj /\ rm'.node = n
                      /\ disk'[rm.obj][n] = "good" /\ UNCHANGED late
                   \/ /\ rm'.pc = "upPush"
                      /\ nodeStatus[n] = "ONLINE" => CallCosts(1)
<1>0. ClusterTypeOK /\ RMTypeOK
  BY DEF ReplicationTypeOK
<1>1. PICK n \in rm.dests :
        \/ /\ StoreChunk(rm.obj, n)
           /\ rm' = [rm EXCEPT !.pc = "upInsert", !.dests = @ \ {n}, !.node = n]
        \/ /\ StoreChunkFails(rm.obj, n)
           /\ rm' = [rm EXCEPT !.dests = @ \ {n}]
  BY DEF PushCopy
<1>2. /\ rm.pc = "upPush" /\ RowsKept /\ rm.obj \in Object
      /\ n \in Node /\ \A m \in rm.dests : replica[rm.obj][m] = "NONE"
  BY <1>0, <1>1 DEF PushCopy, RMAt, RowsKept, RMLocals, RMTypeOK
<1>3. /\ CallOutcome(rm.obj, n, "store")
      /\ StoreChunk(rm.obj, n) => disk'[rm.obj][n] = "good" /\ UNCHANGED <<late, faults>>
      /\ StoreChunkFails(rm.obj, n) /\ nodeStatus[n] = "ONLINE" => CallCosts(1)
  BY <1>0, <1>1, <1>2, StoreOutcome
<1>4. /\ RMTypeOK' /\ rm'.obj = rm.obj /\ rm'.dests = rm.dests \ {n}
      /\ \/ rm'.pc = "upInsert" /\ rm'.node = n /\ StoreChunk(rm.obj, n)
         \/ rm'.pc = "upPush" /\ StoreChunkFails(rm.obj, n)
  <2>1. CASE rm' = [rm EXCEPT !.pc = "upInsert", !.dests = @ \ {n}, !.node = n]
             /\ StoreChunk(rm.obj, n)
    BY <1>0, <1>2, <2>1 DEF RMTypeOK, RMPc
  <2>2. CASE rm' = [rm EXCEPT !.dests = @ \ {n}] /\ StoreChunkFails(rm.obj, n)
    BY <1>0, <1>2, <2>2 DEF RMTypeOK
  <2> QED
    BY <1>1, <2>1, <2>2
<1>5. RMLocals'
  BY <1>1, <1>2, <1>4 DEF RMLocals, RowsKept
<1>6. Typed
  BY <1>0, <1>2, <1>3, <1>4, <1>5, TypedBy
  DEF CallOutcome, OneFile, RowsKept, SameNodes, ClusterTypeOK
<1> QED
  BY <1>2, <1>3, <1>4, <1>6

(* The row of a new copy: it is there afterwards, unless an error is to be *)
(* undone; and if it is there all the same, that was a mishap.             *)
LEMMA InsertStep ==
    ASSUME ReplicationTypeOK, RMLocals, InsertCopy
    PROVE  /\ Typed /\ UNCHANGED <<factor, nodeStatus, disk, late>>
           /\ Costs(0) /\ CallCosts(0) /\ NoNewFaults
           /\ rm.pc = "upInsert" /\ rm.obj \in Object /\ rm.node \in Node
           /\ replica[rm.obj][rm.node] = "NONE"
           /\ \A a \in Object, b \in Node :
                a # rm.obj \/ b # rm.node => replica'[a][b] = replica[a][b]
           /\ \/ rm'.pc = "upPush" /\ replica'[rm.obj][rm.node] = "HEALTHY"
              \/ /\ rm'.pc = "upUndo" /\ rm'.obj = rm.obj /\ rm'.node = rm.node
                 /\ \/ UNCHANGED replica
                    \/ replica'[rm.obj][rm.node] = "HEALTHY" /\ Costs(1)
<1>0. ClusterTypeOK /\ RMTypeOK /\ faults \in [FaultKind -> Nat]
      /\ replica \in [Object -> [Node -> RowStatus]]
  BY DEF ReplicationTypeOK, ClusterTypeOK
<1>1. /\ rm.pc = "upInsert" /\ rm.obj \in Object /\ rm.node \in Node
      /\ replica[rm.obj][rm.node] = "NONE" /\ rm.node \notin rm.dests
      /\ \A m \in rm.dests : replica[rm.obj][m] = "NONE"
      /\ UNCHANGED <<factor, nodeStatus, disk, late, listed>> /\ rm.dests \subseteq Node
  BY <1>0 DEF InsertCopy, RMAt, RMLocals, RMTypeOK
<1>2. /\ Costs(0) /\ CallCosts(0) /\ NoNewFaults
      /\ \/ UNCHANGED replica /\ RMGo("upUndo")
         \/ SetRow(rm.obj, rm.node, "HEALTHY") /\ RMGo("upUndo") /\ Costs(1)
         \/ /\ SetRow(rm.obj, rm.node, "HEALTHY")
            /\ rm' = [rm EXCEPT !.pc = "upPush", !.node = NoNode, !.done = @ + 1]
  <2>1. CASE CanInsert(rm.obj, rm.node)
    <3>1. PICK out \in TxOutcome :
              /\ TxCost(out)
              /\ IF out = "rolledBack" THEN UNCHANGED replica
                 ELSE SetRow(rm.obj, rm.node, "HEALTHY")
              /\ IF out = "committed"
                 THEN rm' = [rm EXCEPT !.pc = "upPush", !.node = NoNode,
                                       !.done = @ + 1]
                 ELSE RMGo("upUndo")
      BY <2>1 DEF InsertCopy
    <3> QED
      BY <1>0, <3>1, TxOutcomeCost DEF NoNewFaults
  <2>2. CASE ~CanInsert(rm.obj, rm.node)
    BY <1>0, <2>2, NoCost DEF InsertCopy, NoFault, NoNewFaults
  <2> QED
    BY <2>1, <2>2
<1>3. /\ replica' \in [Object -> [Node -> RowStatus]]
      /\ \A a \in Object, b \in Node :
           a # rm.obj \/ b # rm.node => replica'[a][b] = replica[a][b]
      /\ SetRow(rm.obj, rm.node, "HEALTHY") => replica'[rm.obj][rm.node] = "HEALTHY"
  BY <1>0, <1>1, <1>2, RowSet DEF RowStatus
<1>4. CASE RMGo("upUndo")
  <2>1. /\ RMTypeOK' /\ rm'.pc = "upUndo" /\ rm'.obj = rm.obj
        /\ rm'.node = rm.node /\ rm'.dests = rm.dests
    BY <1>0, <1>4 DEF RMGo, RMTypeOK, RMPc
  <2>2. RMLocals'
    BY <1>1, <1>3, <2>1 DEF RMLocals
  <2>3. Typed
    BY <1>0, <1>1, <1>2, <1>3, <2>1, <2>2, TypedBy DEF SameNodes, ClusterTypeOK
  <2>4. UNCHANGED replica \/ (replica'[rm.obj][rm.node] = "HEALTHY" /\ Costs(1))
    <3>1. CASE UNCHANGED replica \/ (SetRow(rm.obj, rm.node, "HEALTHY") /\ Costs(1))
      BY <1>3, <3>1
    <3>2. ~(rm' = [rm EXCEPT !.pc = "upPush", !.node = NoNode, !.done = @ + 1])
      <4>1. [rm EXCEPT !.pc = "upPush", !.node = NoNode, !.done = @ + 1].pc = "upPush"
        BY <1>0 DEF RMTypeOK
      <4> QED
        BY <2>1, <4>1
    <3> QED
      BY <1>2, <3>1, <3>2
  <2> QED
    BY <1>1, <1>2, <1>3, <2>1, <2>3, <2>4
<1>5. CASE /\ SetRow(rm.obj, rm.node, "HEALTHY")
           /\ rm' = [rm EXCEPT !.pc = "upPush", !.node = NoNode, !.done = @ + 1]
  <2>1. /\ RMTypeOK' /\ rm'.pc = "upPush" /\ rm'.obj = rm.obj /\ rm'.dests = rm.dests
    <3>1. rm' = [rm EXCEPT !.pc = "upPush", !.node = NoNode, !.done = rm.done + 1]
          /\ rm.done + 1 \in Nat
      BY <1>0, <1>5 DEF RMTypeOK
    <3> QED
      BY <1>0, <3>1 DEF RMTypeOK, RMPc
  <2>2. RMLocals'
    BY <1>1, <1>3, <2>1 DEF RMLocals
  <2>3. Typed
    BY <1>0, <1>1, <1>2, <1>3, <2>1, <2>2, TypedBy DEF SameNodes, ClusterTypeOK
  <2> QED
    BY <1>1, <1>2, <1>3, <1>5, <2>1, <2>3
<1> QED
  BY <1>2, <1>4, <1>5

(* The undo of a scale-up removes the file, or fails to.                   *)
LEMMA UndoStep ==
    ASSUME ReplicationTypeOK, RMLocals, UndoCopy
    PROVE  /\ Typed /\ RowsKept /\ rm.obj \in Object /\ rm.node \in Node
           /\ rm.pc = "upUndo" /\ rm'.pc = "upPush"
           /\ CallOutcome(rm.obj, rm.node, "delete")
           /\ disk'[rm.obj][rm.node] \in {"none", disk[rm.obj][rm.node]}
           /\ \/ disk'[rm.obj][rm.node] = "none"
              \/ nodeStatus[rm.node] = "ONLINE" => CallCosts(1)
<1>0. ClusterTypeOK /\ RMTypeOK
  BY DEF ReplicationTypeOK
<1>1. /\ rm.pc = "upUndo" /\ rm.obj \in Object /\ rm.node \in Node
      /\ \A m \in rm.dests : replica[rm.obj][m] = "NONE"
      /\ RowsKept
  BY <1>0 DEF UndoCopy, RMAt, RMLocals, RowsKept
<1>2. /\ CallOutcome(rm.obj, rm.node, "delete")
      /\ disk'[rm.obj][rm.node] \in {"none", disk[rm.obj][rm.node]}
      /\ \/ disk'[rm.obj][rm.node] = "none"
         \/ nodeStatus[rm.node] = "ONLINE" => CallCosts(1)
  BY <1>0, <1>1, DeleteOutcome DEF UndoCopy
<1>3. /\ RMTypeOK' /\ rm'.pc = "upPush" /\ rm'.obj = rm.obj /\ rm'.dests = rm.dests
  <2>1. rm' = [rm EXCEPT !.pc = "upPush", !.node = NoNode]
    BY DEF UndoCopy
  <2> QED
    BY <1>0, <2>1 DEF RMTypeOK, RMPc
<1>4. RMLocals'
  BY <1>1, <1>3 DEF RMLocals, RowsKept
<1>5. Typed
  BY <1>0, <1>1, <1>2, <1>3, <1>4, TypedBy
  DEF CallOutcome, OneFile, RowsKept, SameNodes, ClusterTypeOK
<1> QED
  BY <1>1, <1>2, <1>3, <1>5

(* The purge of a pruned replica's file, or a failure of it.               *)
LEMMA PurgeStep ==
    ASSUME ReplicationTypeOK, RMLocals, PurgeChunk
    PROVE  /\ Typed /\ RowsKept /\ rm.obj \in Object /\ rm.node \in Node
           /\ rm.pc = "downPurge" /\ rm'.pc = "downDrop"
           /\ rm'.obj = rm.obj /\ rm'.node = rm.node
           /\ CallOutcome(rm.obj, rm.node, "delete")
           /\ disk'[rm.obj][rm.node] \in {"none", disk[rm.obj][rm.node]}
           /\ \/ disk'[rm.obj][rm.node] = "none"
              \/ nodeStatus[rm.node] = "ONLINE" => CallCosts(1)
<1>0. ClusterTypeOK /\ RMTypeOK
  BY DEF ReplicationTypeOK
<1>1. /\ rm.pc = "downPurge" /\ rm.obj \in Object /\ rm.node \in Node
      /\ rm.nodes \subseteq RowsWith(rm.obj, "HEALTHY")
      /\ rm.node \in RowsWith(rm.obj, "HEALTHY") \ rm.nodes
      /\ Cardinality(RowsWith(rm.obj, "HEALTHY")) > MinRF
      /\ RowsKept /\ RMGo("downDrop")
  BY <1>0 DEF PurgeChunk, RMAt, RMLocals, RowsKept, RowsWith
<1>2. /\ CallOutcome(rm.obj, rm.node, "delete")
      /\ disk'[rm.obj][rm.node] \in {"none", disk[rm.obj][rm.node]}
      /\ \/ disk'[rm.obj][rm.node] = "none"
         \/ nodeStatus[rm.node] = "ONLINE" => CallCosts(1)
  <2>1. CASE Inject("db") /\ UNCHANGED <<disk, late>>
    <3>1. Costs(0) /\ CallCosts(0) /\ CallCosts(1)
          /\ faults'["rot"] = faults["rot"] /\ faults'["outage"] = faults["outage"]
      BY <1>0, <2>1, PaidStep, CountsTyped DEF ClusterTypeOK
    <3> QED
      BY <1>0, <2>1, <3>1 DEF CallOutcome, OneFile, ClusterTypeOK
  <2>2. CASE ~(Inject("db") /\ UNCHANGED <<disk, late>>)
    BY <1>0, <1>1, <2>2, DeleteOutcome DEF PurgeChunk
  <2> QED
    BY <2>1, <2>2
<1>3. /\ RMTypeOK' /\ rm'.pc = "downDrop" /\ rm'.obj = rm.obj
      /\ rm'.nodes = rm.nodes /\ rm'.node = rm.node
  BY <1>0, <1>1 DEF RMGo, RMTypeOK, RMPc
<1>4. RowsWith(rm.obj, "HEALTHY")' = RowsWith(rm.obj, "HEALTHY")
  BY <1>1, <1>3 DEF RowsWith, RowsKept
<1>5. RMLocals'
  BY <1>1, <1>3, <1>4 DEF RMLocals
<1>6. Typed
  BY <1>0, <1>1, <1>2, <1>3, <1>5, TypedBy
  DEF CallOutcome, OneFile, RowsKept, SameNodes, ClusterTypeOK
<1> QED
  BY <1>1, <1>2, <1>3, <1>6

(* The row of a pruned replica goes, or stays by a mishap.                 *)
LEMMA DropStep ==
    ASSUME ReplicationTypeOK, RMLocals, DropRow
    PROVE  /\ Typed /\ UNCHANGED <<factor, nodeStatus, disk, late>>
           /\ Costs(0) /\ CallCosts(0) /\ NoNewFaults
           /\ rm.pc = "downDrop" /\ rm'.pc = "downCheck"
           /\ rm.obj \in Object /\ rm.node \in RowsWith(rm.obj, "HEALTHY")
           /\ Cardinality(RowsWith(rm.obj, "HEALTHY")) > MinRF
           /\ \A a \in Object, b \in Node :
                a # rm.obj \/ b # rm.node => replica'[a][b] = replica[a][b]
           /\ \/ UNCHANGED replica /\ Costs(1)
              \/ replica'[rm.obj][rm.node] = "NONE"
<1>0. ClusterTypeOK /\ RMTypeOK /\ faults \in [FaultKind -> Nat]
      /\ replica \in [Object -> [Node -> RowStatus]] /\ listed \subseteq Object \X Node
  BY DEF ReplicationTypeOK, ClusterTypeOK
<1>1. /\ rm.pc = "downDrop" /\ rm.obj \in Object /\ rm.node \in Node
      /\ rm.nodes \subseteq RowsWith(rm.obj, "HEALTHY")
      /\ rm.node \in RowsWith(rm.obj, "HEALTHY") \ rm.nodes
      /\ Cardinality(RowsWith(rm.obj, "HEALTHY")) > MinRF
      /\ replica[rm.obj][rm.node] = "HEALTHY"
      /\ UNCHANGED <<factor, nodeStatus, disk, late>>
  BY <1>0 DEF DropRow, RMAt, RMLocals, RowsWith
<1> DEFINE failed == [rm EXCEPT !.pc = "downCheck", !.node = NoNode]
<1>2. PICK out \in TxOutcome :
        /\ TxCost(out)
        /\ IF out = "rolledBack" THEN UNCHANGED <<replica, listed>>
           ELSE DeleteRow(rm.obj, rm.node)
        /\ rm' = IF out = "committed" THEN [failed EXCEPT !.done = @ + 1] ELSE failed
  BY <1>1 DEF DropRow
<1>3. /\ RMTypeOK' /\ rm'.pc = "downCheck" /\ rm'.obj = rm.obj /\ rm'.nodes = rm.nodes
  <2>2. CASE rm' = failed
    BY <1>0, <2>2 DEF RMTypeOK, RMPc
  <2>3. CASE rm' = [failed EXCEPT !.done = @ + 1]
    <3>1. rm' = [rm EXCEPT !.pc = "downCheck", !.node = NoNode, !.done = rm.done + 1]
          /\ rm.done + 1 \in Nat
      BY <1>0, <2>3 DEF RMTypeOK
    <3> QED
      BY <1>0, <3>1 DEF RMTypeOK, RMPc
  <2> QED
    BY <1>2, <2>2, <2>3
<1>4. Costs(0) /\ CallCosts(0) /\ NoNewFaults /\ (out = "rolledBack" => Costs(1))
  BY <1>0, <1>2, TxOutcomeCost DEF NoNewFaults
<1>5. /\ replica' \in [Object -> [Node -> RowStatus]]
      /\ listed' \subseteq Object \X Node
      /\ \A a \in Object, b \in Node :
           a # rm.obj \/ b # rm.node => replica'[a][b] = replica[a][b]
      /\ \/ UNCHANGED replica /\ Costs(1)
         \/ replica'[rm.obj][rm.node] = "NONE"
  BY <1>0, <1>1, <1>2, <1>4, RowSet DEF DeleteRow, RowStatus
<1>6. rm.nodes \subseteq {n \in Node : replica'[rm.obj][n] = "HEALTHY"}
  BY <1>1, <1>5 DEF RowsWith
<1>7. RMLocals'
  BY <1>1, <1>3, <1>6 DEF RMLocals, RowsWith
<1>8. Typed
  BY <1>0, <1>1, <1>3, <1>4, <1>5, <1>7, TypedBy DEF SameNodes, ClusterTypeOK
<1> QED
  BY <1>1, <1>3, <1>4, <1>5, <1>8

(* A restart forgets what was under way; one call may go on.               *)
LEMMA CrashRMStep ==
    ASSUME ReplicationTypeOK, RMLocals, CrashRM
    PROVE  /\ Typed /\ RowsKept /\ disk' = disk /\ NoNewFaults
           /\ Costs(1) /\ CallCosts(1) /\ rm'.pc = "idle"
           /\ \/ late' = late
              \/ \E o \in Object, n \in Node, op \in {"store", "delete"} :
                   /\ late' = late \cup {<<o, n, op>>}
                   /\ \/ rm.pc \notin {"upInsert", "upUndo", "downDrop"}
                      \/ rm.pc = "upUndo" /\ rm.obj = o /\ rm.node = n
<1>0. ClusterTypeOK /\ RMTypeOK /\ faults \in [FaultKind -> Nat]
      /\ late \subseteq NodeCall
  BY DEF ReplicationTypeOK, ClusterTypeOK
<1>1. /\ rm' = RMIdle /\ RowsKept /\ disk' = disk /\ Inject("crash") /\ rm.pc # "idle"
      /\ \E orphan \in AtMostOne(RMInFlight) : late' = late \cup orphan
  BY DEF CrashRM, RowsKept, RMAt
<1>2. Costs(1) /\ Costs(0) /\ CallCosts(1) /\ NoNewFaults
  BY <1>0, <1>1, PaidStep, CountsTyped DEF NoNewFaults
<1>3. RMTypeOK' /\ rm'.pc = "idle"
  BY <1>1 DEF RMIdle, RMTypeOK, RMPc
<1> DEFINE Orphaned ==
             \E o \in Object, n \in Node, op \in {"store", "delete"} :
               /\ late' = late \cup {<<o, n, op>>}
               /\ \/ rm.pc \notin {"upInsert", "upUndo", "downDrop"}
                  \/ rm.pc = "upUndo" /\ rm.obj = o /\ rm.node = n
<1>4. late' = late \/ Orphaned
  <2>1. PICK orphan \in AtMostOne(RMInFlight) : late' = late \cup orphan
    BY <1>1
  <2>2. orphan = {} \/ \E c \in RMInFlight : orphan = {c}
    BY DEF AtMostOne
  <2>3. CASE orphan = {}
    BY <2>1, <2>3
  <2>4. ASSUME NEW c \in RMInFlight, orphan = {c} PROVE Orphaned
    <3>1. CASE rm.pc = "upPush"
      <4>1. PICK n \in rm.dests : c = <<rm.obj, n, "store">>
        BY <2>4, <3>1 DEF RMInFlight, RMAt
      <4>2. rm.obj \in Object /\ n \in Node
        BY <1>0, <3>1 DEF RMLocals, RMTypeOK
      <4> QED
        BY <2>1, <2>4, <3>1, <4>1, <4>2
    <3>2. CASE rm.pc \in {"upUndo", "downPurge"}
      <4>1. c = <<rm.obj, rm.node, "delete">>
        BY <2>4, <3>2 DEF RMInFlight, RMAt
      <4>2. rm.obj \in Object /\ rm.node \in Node
        BY <1>0, <3>2 DEF RMLocals, RowsWith
      <4> QED
        BY <2>1, <2>4, <3>2, <4>1, <4>2
    <3>3. CASE rm.pc \notin {"upPush", "upUndo", "downPurge"}
      BY <2>4, <3>3 DEF RMInFlight, RMAt
    <3> QED
      BY <3>1, <3>2, <3>3
  <2> QED
    BY <2>2, <2>3, <2>4
<1>5. late' \subseteq NodeCall
  BY <1>0, <1>4 DEF NodeCall
<1>6. Typed
  BY <1>0, <1>1, <1>2, <1>3, <1>5, BetweenObjects, TypedBy
  DEF RowsKept, SameNodes, ClusterTypeOK
<1> QED
  BY <1>1, <1>2, <1>3, <1>4, <1>6

(* What the environment does: a node comes or goes, a file decays, or a    *)
(* handler that nobody waits for reaches its file.                         *)
Decays == \E o \in Object, n \in Node :
    /\ OneFile(o, n) /\ disk[o][n] = "good" /\ disk'[o][n] # "good"
    /\ faults'["rot"] > 0 /\ UNCHANGED <<late, nodeStatus>>
    /\ faults'["outage"] = faults["outage"] /\ Costs(0) /\ CallCosts(0)
LateCallEnds == \E o \in Object, n \in Node, op \in {"store", "delete"} :
    /\ <<o, n, op>> \in late /\ OneFile(o, n)
    /\ late' \subseteq late /\ UNCHANGED <<faults, nodeStatus>>
NodesChange ==
    /\ UNCHANGED <<disk, late>> /\ Costs(0) /\ CallCosts(0)
    /\ faults'["rot"] = faults["rot"]
    /\ \/ faults'["outage"] > 0
       \/ /\ faults' = faults
          /\ \A n \in Node : nodeStatus[n] = "ONLINE" => nodeStatus'[n] = "ONLINE"

LEMMA LocalsRest == ASSUME RMLocals, UNCHANGED <<rm, replica>> PROVE RMLocals'
<1>1. \A o, status : {n \in Node : replica'[o][n] = status} = RowsWith(o, status)
  BY DEF RowsWith
<1>2. \A o : {n \in Node : replica'[o][n] # "NONE"} = ReplicaRows(o)
  BY DEF ReplicaRows
<1> QED
  BY <1>1, <1>2 DEF RMLocals, RowsWith, ReplicaRows

LEMMA EnvironmentStep ==
    ASSUME ReplicationTypeOK, RMLocals, Environment, UNCHANGED rm
    PROVE  /\ Typed /\ UNCHANGED <<factor, replica, listed>>
           /\ Decays \/ LateCallEnds \/ NodesChange
<1>0. ClusterTypeOK /\ RMTypeOK /\ faults \in [FaultKind -> Nat]
      /\ late \subseteq NodeCall /\ nodeStatus \in [Node -> {"ONLINE", "OFFLINE"}]
      /\ disk \in [Object -> [Node -> DiskState]]
  BY DEF ReplicationTypeOK, ClusterTypeOK
<1>1. RMTypeOK'
  BY <1>0 DEF RMTypeOK
<1>2. ASSUME /\ UNCHANGED <<factor, replica, listed>> /\ faults' \in [FaultKind -> Nat]
             /\ nodeStatus' \in [Node -> {"ONLINE", "OFFLINE"}]
             /\ disk' \in [Object -> [Node -> DiskState]] /\ late' \subseteq NodeCall
      PROVE  Typed
  BY <1>0, <1>1, <1>2, LocalsRest DEF Typed, ReplicationTypeOK, ClusterTypeOK
<1>3. ASSUME NEW n \in Node, NodeTimesOut(n)
      PROVE  /\ Typed /\ UNCHANGED <<factor, replica, listed>> /\ NodesChange
  <2>1. /\ Costs(0) /\ CallCosts(0) /\ faults'["rot"] = faults["rot"]
        /\ faults'["outage"] > 0 /\ faults' \in [FaultKind -> Nat]
    BY <1>0, <1>3, PaidStep, CountsTyped DEF NodeTimesOut, Costs, Counted
  <2> QED
    BY <1>0, <1>2, <1>3, <2>1 DEF NodeTimesOut, NodesChange
<1>4. ASSUME NEW n \in Node, NodeReturns(n)
      PROVE  /\ Typed /\ UNCHANGED <<factor, replica, listed>> /\ NodesChange
  <2>1. Costs(0) /\ CallCosts(0) /\ faults' = faults
    BY <1>0, <1>4, NoCost DEF NodeReturns, NoFault
  <2> QED
    BY <1>0, <1>2, <1>4, <2>1 DEF NodeReturns, NodesChange
<1>5. ASSUME NEW o \in Object, NEW n \in Node, ChunkRots(o, n)
      PROVE  /\ Typed /\ UNCHANGED <<factor, replica, listed>> /\ Decays
  <2>1. PICK d \in {"bad", "none"} : SetDisk(o, n, d)
    BY <1>5 DEF ChunkRots
  <2>2. OneFile(o, n) /\ disk'[o][n] # "good"
    BY <1>0, <2>1, DiskSet DEF OneFile, DiskState
  <2>3. /\ Costs(0) /\ CallCosts(0) /\ faults'["outage"] = faults["outage"]
        /\ faults'["rot"] > 0 /\ faults' \in [FaultKind -> Nat]
    BY <1>0, <1>5, PaidStep, CountsTyped DEF ChunkRots, Costs, Counted
  <2> QED
    BY <1>0, <1>2, <1>5, <2>2, <2>3 DEF ChunkRots, Decays, OneFile
<1>6. ASSUME NEW o \in Object, NEW n \in Node, NEW op \in {"store", "delete"},
             LateHandler(o, n, op)
      PROVE  /\ Typed /\ UNCHANGED <<factor, replica, listed>> /\ LateCallEnds
  <2>1. PICK d \in DiskState : SetDisk(o, n, d)
    <3>1. {"none", disk[o][n]} \subseteq DiskState
      BY <1>0 DEF DiskState
    <3> QED
      BY <1>6, <3>1 DEF LateHandler
  <2>2. OneFile(o, n)
    BY <1>0, <2>1, DiskSet DEF OneFile
  <2> QED
    BY <1>0, <1>2, <1>6, <2>2 DEF LateHandler, LateCallEnds, OneFile
<1> QED
  BY <1>3, <1>4, <1>5, <1>6 DEF Environment

-----------------------------------------------------------------------------
(* Phantoms and leaks.                                                     *)

(* A pair of object and node that a mishap has been counted for: it is a   *)
(* phantom, or one step away from it.  A handler that goes on may make it  *)
(* one; a copy whose file was lost again is about to be recorded; the row  *)
(* of a copy that is being undone is there after all.                      *)
Owed(o, n) == \E op \in {"store", "delete"} : <<o, n, op>> \in late
PhantomDue(o, n) ==
    \/ /\ replica[o][n] = "HEALTHY" /\ disk[o][n] # "good"
       /\ ~AtWork("downDrop", o, n)
    \/ Owed(o, n)
    \/ AtWork("upInsert", o, n) /\ disk[o][n] # "good"
    \/ AtWork("upUndo", o, n) /\ replica[o][n] # "NONE"

(* The same for leaks: a pruned replica's file was not removed.            *)
LeakDue(o, n) ==
    \/ /\ replica[o][n] = "NONE" /\ disk[o][n] # "none"
       /\ ~AtWork("upInsert", o, n) /\ ~AtWork("upUndo", o, n)
    \/ Owed(o, n)
    \/ AtWork("downDrop", o, n) /\ disk[o][n] # "none"

(* A step adds no pair, or one that a fault pays for.                      *)
PhantomsBut(a, b) ==
    \A o \in Object, n \in Node :
        PhantomDue(o, n)' => PhantomDue(o, n) \/ (o = a /\ n = b)
PhantomStep ==
    /\ Costs(0)
    /\ \/ \A o \in Object, n \in Node : PhantomDue(o, n)' => PhantomDue(o, n)
       \/ Costs(1) /\ \E a \in Object, b \in Node : PhantomsBut(a, b)
LeaksBut(a, b) ==
    \A o \in Object, n \in Node :
        LeakDue(o, n)' => LeakDue(o, n) \/ (o = a /\ n = b)
LeakStep ==
    /\ CallCosts(0)
    /\ \/ \A o \in Object, n \in Node : LeakDue(o, n)' => LeakDue(o, n)
       \/ CallCosts(1) /\ \E a \in Object, b \in Node : LeaksBut(a, b)

Steady == \A n \in Node : nodeStatus[n] = "ONLINE"

LEMMA MishapIsFault ==
    ASSUME faults \in [FaultKind -> Nat], Costs(1) PROVE CallCosts(1)
<1>1. faults'["net"] \in Nat /\ faults["net"] \in Nat /\ faults'["net"] >= faults["net"]
  BY CountsTyped DEF Costs, Counted
<1>2. Mishaps \in Nat /\ Mishaps' \in Nat
  BY DEF Costs, Counted, Mishaps, FaultKind
<1> QED
  BY <1>1, <1>2 DEF Costs, CallCosts, LeakFund

LEMMA QuietDues ==
    ASSUME UNCHANGED <<replica, disk, late>>, Costs(0), CallCosts(0),
           rm.pc \notin {"upInsert", "upUndo", "downDrop"},
           rm'.pc \notin {"upInsert", "upUndo", "downDrop"}
    PROVE  PhantomStep /\ LeakStep
BY DEF PhantomStep, LeakStep, PhantomDue, LeakDue, Owed, AtWork

LEMMA PushDues ==
    ASSUME ReplicationTypeOK, RMLocals, PushCopy
    PROVE  PhantomStep /\ (Steady => LeakStep)
<1>1. PICK n \in Node :
        /\ CallOutcome(rm.obj, n, "store") /\ replica[rm.obj][n] = "NONE"
        /\ \/ /\ rm'.pc = "upInsert" /\ rm'.obj = rm.obj /\ rm'.node = n
              /\ disk'[rm.obj][n] = "good" /\ UNCHANGED late
           \/ /\ rm'.pc = "upPush"
              /\ nodeStatus[n] = "ONLINE" => CallCosts(1)
  BY PushCopyStep
<1>2. /\ rm.pc = "upPush" /\ rm.obj \in Object /\ UNCHANGED replica
      /\ faults \in [FaultKind -> Nat]
  BY PushCopyStep DEF RowsKept, ReplicationTypeOK, ClusterTypeOK
<1>3. /\ Costs(0) /\ CallCosts(0)
      /\ \A a \in Object, b \in Node : a # rm.obj \/ b # n => disk'[a][b] = disk[a][b]
      /\ \/ late' = late
         \/ late' = late \cup {<<rm.obj, n, "store">>} /\ disk' = disk /\ Costs(1)
  BY <1>1 DEF CallOutcome, OneFile
<1>4. ASSUME NEW o \in Object, NEW m \in Node, o # rm.obj \/ m # n
      PROVE  /\ PhantomDue(o, m)' => PhantomDue(o, m)
             /\ LeakDue(o, m)' => LeakDue(o, m)
  <2>1. disk'[o][m] = disk[o][m] /\ replica'[o][m] = replica[o][m]
    BY <1>2, <1>3, <1>4
  <2>2. Owed(o, m)' => Owed(o, m)
    BY <1>3, <1>4 DEF Owed
  <2>3. \A pc \in {"upInsert", "upUndo", "downDrop"} :
          ~AtWork(pc, o, m) /\ ~AtWork(pc, o, m)'
    BY <1>1, <1>2, <1>4 DEF AtWork
  <2> QED
    BY <2>1, <2>2, <2>3 DEF PhantomDue, LeakDue
<1>5. PhantomStep
  <2>1. CASE late' = late
    <3>1. ASSUME NEW o \in Object, NEW m \in Node, o = rm.obj, m = n
          PROVE  PhantomDue(o, m)' => PhantomDue(o, m)
      BY <1>1, <1>2, <2>1, <3>1 DEF PhantomDue, Owed, AtWork
    <3> QED
      BY <1>3, <1>4, <3>1 DEF PhantomStep
  <2>2. CASE late' # late
    BY <1>2, <1>3, <1>4, <2>2 DEF PhantomStep, PhantomsBut
  <2> QED
    BY <2>1, <2>2
<1>6. ASSUME Steady PROVE LeakStep
  <2>1. CASE CallCosts(1)
    BY <1>2, <1>3, <1>4, <2>1 DEF LeakStep, LeaksBut
  <2>2. CASE ~CallCosts(1)
    <3>1. late' = late /\ rm'.pc = "upInsert" /\ rm'.obj = rm.obj /\ rm'.node = n
      BY <1>1, <1>2, <1>3, <1>6, <2>2, MishapIsFault DEF Steady
    <3>2. ASSUME NEW o \in Object, NEW m \in Node, o = rm.obj, m = n
          PROVE  LeakDue(o, m)' => LeakDue(o, m)
      BY <1>2, <3>1, <3>2 DEF LeakDue, Owed, AtWork
    <3> QED
      BY <1>3, <1>4, <3>2 DEF LeakStep
  <2> QED
    BY <2>1, <2>2
<1> QED
  BY <1>5, <1>6

LEMMA InsertDues ==
    ASSUME ReplicationTypeOK, RMLocals, InsertCopy
    PROVE  PhantomStep /\ LeakStep
<1>1. /\ UNCHANGED <<disk, late>> /\ Costs(0) /\ CallCosts(0)
      /\ rm.pc = "upInsert" /\ rm.obj \in Object /\ rm.node \in Node
      /\ replica[rm.obj][rm.node] = "NONE"
      /\ \A a \in Object, b \in Node :
           a # rm.obj \/ b # rm.node => replica'[a][b] = replica[a][b]
      /\ \/ rm'.pc = "upPush" /\ replica'[rm.obj][rm.node] = "HEALTHY"
         \/ /\ rm'.pc = "upUndo" /\ rm'.obj = rm.obj /\ rm'.node = rm.node
            /\ \/ UNCHANGED replica
               \/ replica'[rm.obj][rm.node] = "HEALTHY" /\ Costs(1)
  BY InsertStep
<1>2. ASSUME NEW o \in Object, NEW m \in Node, o # rm.obj \/ m # rm.node
      PROVE  /\ PhantomDue(o, m)' => PhantomDue(o, m)
             /\ LeakDue(o, m)' => LeakDue(o, m)
  BY <1>1, <1>2 DEF PhantomDue, LeakDue, Owed, AtWork
<1>3. ASSUME NEW o \in Object, NEW m \in Node, o = rm.obj, m = rm.node
      PROVE  LeakDue(o, m)' => LeakDue(o, m)
  BY <1>1, <1>3 DEF LeakDue, Owed, AtWork
<1>4. PhantomStep
  <2>1. CASE Costs(1)
    BY <1>1, <1>2, <2>1 DEF PhantomStep, PhantomsBut
  <2>2. CASE ~Costs(1)
    <3>1. ASSUME NEW o \in Object, NEW m \in Node, o = rm.obj, m = rm.node
          PROVE  PhantomDue(o, m)' => PhantomDue(o, m)
      BY <1>1, <2>2, <3>1 DEF PhantomDue, Owed, AtWork
    <3> QED
      BY <1>1, <1>2, <3>1 DEF PhantomStep
  <2> QED
    BY <2>1, <2>2
<1> QED
  BY <1>1, <1>2, <1>3, <1>4 DEF LeakStep

(* A call to remove a file: the undo of a copy, or a purge.                *)
LEMMA RemovalDues ==
    ASSUME ReplicationTypeOK, RMLocals, UndoCopy \/ PurgeChunk
    PROVE  PhantomStep /\ (Steady => LeakStep)
<1> DEFINE n == rm.node
<1>1. /\ CallOutcome(rm.obj, n, "delete") /\ rm.obj \in Object /\ n \in Node
      /\ \/ rm.pc = "upUndo" /\ rm'.pc = "upPush"
         \/ rm.pc = "downPurge" /\ rm'.pc = "downDrop" /\ rm'.obj = rm.obj /\ rm'.node = n
      /\ disk'[rm.obj][n] \in {"none", disk[rm.obj][n]}
      /\ \/ disk'[rm.obj][n] = "none"
         \/ nodeStatus[n] = "ONLINE" => CallCosts(1)
  BY UndoStep, PurgeStep
<1>2. UNCHANGED replica /\ faults \in [FaultKind -> Nat]
  BY UndoStep, PurgeStep DEF RowsKept, ReplicationTypeOK, ClusterTypeOK
<1>3. /\ Costs(0) /\ CallCosts(0)
      /\ \A a \in Object, b \in Node : a # rm.obj \/ b # n => disk'[a][b] = disk[a][b]
      /\ \/ late' = late
         \/ late' = late \cup {<<rm.obj, n, "delete">>} /\ disk' = disk /\ Costs(1)
  BY <1>1 DEF CallOutcome, OneFile
<1>4. ASSUME NEW o \in Object, NEW m \in Node, o # rm.obj \/ m # n
      PROVE  /\ PhantomDue(o, m)' => PhantomDue(o, m)
             /\ LeakDue(o, m)' => LeakDue(o, m)
  <2>1. disk'[o][m] = disk[o][m] /\ replica'[o][m] = replica[o][m]
    BY <1>2, <1>3, <1>4
  <2>2. Owed(o, m)' => Owed(o, m)
    BY <1>3, <1>4 DEF Owed
  <2>3. \A pc \in {"upInsert", "upUndo", "downDrop"} :
          ~AtWork(pc, o, m) /\ ~AtWork(pc, o, m)'
    BY <1>1, <1>4 DEF AtWork
  <2> QED
    BY <2>1, <2>2, <2>3 DEF PhantomDue, LeakDue
<1>5. PhantomStep
  <2>1. CASE late' = late
    <3>1. ASSUME NEW o \in Object, NEW m \in Node, o = rm.obj, m = n
          PROVE  PhantomDue(o, m)' => PhantomDue(o, m)
      BY <1>1, <1>2, <2>1, <3>1 DEF PhantomDue, Owed, AtWork
    <3> QED
      BY <1>3, <1>4, <3>1 DEF PhantomStep
  <2>2. CASE late' # late
    <3>1. PhantomsBut(rm.obj, n) /\ Costs(1)
      BY <1>3, <1>4, <2>2 DEF PhantomsBut
    <3> QED
      BY <1>1, <1>3, <3>1 DEF PhantomStep
  <2> QED
    BY <2>1, <2>2
<1>6. ASSUME Steady PROVE LeakStep
  <2>1. CASE CallCosts(1)
    <3>1. LeaksBut(rm.obj, n)
      BY <1>4 DEF LeaksBut
    <3> QED
      BY <1>1, <1>3, <2>1, <3>1 DEF LeakStep
  <2>2. CASE ~CallCosts(1)
    <3>1. late' = late /\ disk'[rm.obj][n] = "none"
      BY <1>1, <1>2, <1>3, <1>6, <2>2, MishapIsFault DEF Steady
    <3>2. ASSUME NEW o \in Object, NEW m \in Node, o = rm.obj, m = n
          PROVE  LeakDue(o, m)' => LeakDue(o, m)
      BY <1>2, <3>1, <3>2 DEF LeakDue, Owed
    <3> QED
      BY <1>3, <1>4, <3>2 DEF LeakStep
  <2> QED
    BY <2>1, <2>2
<1> QED
  BY <1>5, <1>6

LEMMA DropDues ==
    ASSUME ReplicationTypeOK, RMLocals, DropRow
    PROVE  PhantomStep /\ LeakStep
<1>1. /\ UNCHANGED <<disk, late>> /\ Costs(0) /\ CallCosts(0)
      /\ rm.pc = "downDrop" /\ rm'.pc = "downCheck"
      /\ rm.obj \in Object /\ rm.node \in Node /\ replica[rm.obj][rm.node] = "HEALTHY"
      /\ \A a \in Object, b \in Node :
           a # rm.obj \/ b # rm.node => replica'[a][b] = replica[a][b]
      /\ \/ UNCHANGED replica /\ Costs(1)
         \/ replica'[rm.obj][rm.node] = "NONE"
  BY DropStep DEF RowsWith
<1>2. ASSUME NEW o \in Object, NEW m \in Node, o # rm.obj \/ m # rm.node
      PROVE  /\ PhantomDue(o, m)' => PhantomDue(o, m)
             /\ LeakDue(o, m)' => LeakDue(o, m)
  BY <1>1, <1>2 DEF PhantomDue, LeakDue, Owed, AtWork
<1>3. ASSUME NEW o \in Object, NEW m \in Node, o = rm.obj, m = rm.node
      PROVE  LeakDue(o, m)' => LeakDue(o, m)
  BY <1>1, <1>3 DEF LeakDue, Owed, AtWork
<1>4. CASE Costs(1)
  BY <1>1, <1>2, <1>3, <1>4 DEF PhantomStep, PhantomsBut, LeakStep
<1>5. CASE ~Costs(1)
  <2>1. ASSUME NEW o \in Object, NEW m \in Node, o = rm.obj, m = rm.node
        PROVE  PhantomDue(o, m)' => PhantomDue(o, m)
    BY <1>1, <1>5, <2>1 DEF PhantomDue, Owed, AtWork
  <2> QED
    BY <1>1, <1>2, <1>3, <2>1 DEF PhantomStep, LeakStep
<1> QED
  BY <1>4, <1>5

LEMMA CrashDues ==
    ASSUME ReplicationTypeOK, RMLocals, CrashRM
    PROVE  PhantomStep /\ LeakStep
<1>1. /\ UNCHANGED <<replica, disk>> /\ rm'.pc = "idle"
      /\ Costs(1) /\ Costs(0) /\ CallCosts(1) /\ CallCosts(0)
      /\ faults \in [FaultKind -> Nat]
  <2>1. faults \in [FaultKind -> Nat] /\ Costs(1) /\ CallCosts(1)
    BY CrashRMStep DEF ReplicationTypeOK, ClusterTypeOK
  <2>2. Costs(0) /\ CallCosts(0)
    BY <2>1, CountsTyped DEF Costs, CallCosts, Counted, Mishaps, LeakFund, FaultKind
  <2> QED
    BY <2>1, <2>2, CrashRMStep DEF RowsKept
<1>2. CASE late' = late
  <2>1. CASE rm.pc \in {"upInsert", "upUndo", "downDrop"}
    <3>1. rm.obj \in Object /\ rm.node \in Node
      BY <2>1 DEF RMLocals, RowsWith
    <3>2. ASSUME NEW o \in Object, NEW m \in Node, o # rm.obj \/ m # rm.node
          PROVE  /\ PhantomDue(o, m)' => PhantomDue(o, m)
                 /\ LeakDue(o, m)' => LeakDue(o, m)
      BY <1>1, <1>2, <3>2 DEF PhantomDue, LeakDue, Owed, AtWork
    <3> QED
      BY <1>1, <3>1, <3>2 DEF PhantomStep, PhantomsBut, LeakStep, LeaksBut
  <2>2. CASE rm.pc \notin {"upInsert", "upUndo", "downDrop"}
    BY <1>1, <1>2, <2>2, QuietDues
  <2> QED
    BY <2>1, <2>2
<1>3. CASE late' # late
  <2>1. PICK a \in Object, b \in Node, op \in {"store", "delete"} :
          /\ late' = late \cup {<<a, b, op>>}
          /\ \/ rm.pc \notin {"upInsert", "upUndo", "downDrop"}
             \/ rm.pc = "upUndo" /\ rm.obj = a /\ rm.node = b
    BY <1>3, CrashRMStep
  <2>2. ASSUME NEW o \in Object, NEW m \in Node, o # a \/ m # b
        PROVE  /\ PhantomDue(o, m)' => PhantomDue(o, m)
               /\ LeakDue(o, m)' => LeakDue(o, m)
    <3>1. Owed(o, m)' => Owed(o, m)
      BY <2>1, <2>2 DEF Owed
    <3>2. \A pc \in {"upInsert", "upUndo", "downDrop"} :
            ~AtWork(pc, o, m) /\ ~AtWork(pc, o, m)'
      BY <1>1, <2>1, <2>2 DEF AtWork
    <3> QED
      BY <1>1, <3>1, <3>2 DEF PhantomDue, LeakDue
  <2> QED
    BY <1>1, <2>2 DEF PhantomStep, PhantomsBut, LeakStep, LeaksBut
<1> QED
  BY <1>2, <1>3

LEMMA EnvironmentDues ==
    ASSUME ReplicationTypeOK, RMLocals, Environment, UNCHANGED rm
    PROVE  /\ faults'["rot"] = 0 => PhantomStep
           /\ faults'["outage"] = 0 => LeakStep
<1>0. /\ UNCHANGED replica /\ faults \in [FaultKind -> Nat]
      /\ Decays \/ LateCallEnds \/ NodesChange
  BY EnvironmentStep DEF ReplicationTypeOK, ClusterTypeOK
<1>1. CASE NodesChange
  BY <1>0, <1>1 DEF NodesChange, PhantomStep, LeakStep, PhantomDue, LeakDue, Owed, AtWork
<1>2. CASE Decays
  <2>1. PICK o \in Object, n \in Node :
          /\ OneFile(o, n) /\ disk[o][n] = "good" /\ disk'[o][n] # "good"
          /\ faults'["rot"] > 0 /\ UNCHANGED late /\ CallCosts(0)
    BY <1>2 DEF Decays
  <2>2. ASSUME NEW a \in Object, NEW b \in Node PROVE LeakDue(a, b)' => LeakDue(a, b)
    <3>1. disk'[a][b] = disk[a][b] \/ disk[a][b] # "none"
      BY <2>1 DEF OneFile
    <3> QED
      BY <1>0, <2>1, <3>1 DEF LeakDue, Owed, AtWork
  <2> QED
    BY <2>1, <2>2 DEF LeakStep
<1>3. CASE LateCallEnds
  <2>1. PICK o \in Object, n \in Node, op \in {"store", "delete"} :
          /\ <<o, n, op>> \in late /\ OneFile(o, n)
          /\ late' \subseteq late /\ UNCHANGED faults
    BY <1>3 DEF LateCallEnds
  <2>2. Costs(0) /\ CallCosts(0)
    BY <1>0, <2>1, NoCost DEF NoFault
  <2>3. ASSUME NEW a \in Object, NEW b \in Node
        PROVE  /\ PhantomDue(a, b)' => PhantomDue(a, b)
               /\ LeakDue(a, b)' => LeakDue(a, b)
    <3>1. CASE a = o /\ b = n
      BY <2>1, <3>1 DEF PhantomDue, LeakDue, Owed
    <3>2. CASE ~(a = o /\ b = n)
      <4>1. disk'[a][b] = disk[a][b]
        BY <2>1, <3>2 DEF OneFile
      <4>2. Owed(a, b)' => Owed(a, b)
        BY <2>1 DEF Owed
      <4> QED
        BY <1>0, <4>1, <4>2 DEF PhantomDue, LeakDue, AtWork
    <3> QED
      BY <3>1, <3>2
  <2> QED
    BY <2>2, <2>3 DEF PhantomStep, LeakStep
<1> QED
  BY <1>0, <1>1, <1>2, <1>3

-----------------------------------------------------------------------------
(* The inductive invariant.                                                *)

PhantomsDue == {p \in Object \X Node : PhantomDue(p[1], p[2])}
LeaksDue == {p \in Object \X Node : LeakDue(p[1], p[2])}

(* Every pair that is due has been paid for by a fault of its own.  While  *)
(* no node has been out, all are ONLINE and a call only fails at a cost.   *)
PhantomsPaid ==
    faults["rot"] = 0 =>
        IsFiniteSet(PhantomsDue) /\ Cardinality(PhantomsDue) <= Mishaps
LeaksPaid ==
    faults["outage"] = 0 =>
        Steady /\ IsFiniteSet(LeaksDue) /\ Cardinality(LeaksDue) <= LeakFund

RMInv == ReplicationTypeOK /\ RMLocals /\ PhantomsPaid /\ LeaksPaid

LEMMA SmallerSet ==
    ASSUME NEW S, NEW T, IsFiniteSet(S), T \subseteq S
    PROVE  /\ IsFiniteSet(T) /\ Cardinality(T) <= Cardinality(S)
           /\ Cardinality(T) \in Nat /\ Cardinality(S) \in Nat
BY FS_Subset, FS_CardinalityType

LEMMA OneMore ==
    ASSUME NEW S, NEW T, NEW x, IsFiniteSet(S), T \subseteq S \cup {x}
    PROVE  /\ IsFiniteSet(T) /\ Cardinality(T) <= Cardinality(S) + 1
           /\ Cardinality(T) \in Nat /\ Cardinality(S) \in Nat
<1>1. /\ IsFiniteSet(S \cup {x}) /\ Cardinality(S) \in Nat
      /\ Cardinality(S \cup {x}) \in {Cardinality(S), Cardinality(S) + 1}
  BY FS_AddElement, FS_CardinalityType
<1>2. /\ IsFiniteSet(T) /\ Cardinality(T) <= Cardinality(S \cup {x})
      /\ Cardinality(T) \in Nat
  BY <1>1, SmallerSet
<1> QED
  BY <1>1, <1>2

LEMMA InitHolds == ReplicationInit => RMInv
<1> SUFFICES ASSUME ReplicationInit PROVE RMInv
  OBVIOUS
<1>1. factor \in [Object -> Nat]
  <2>1. factor \in [Object -> Factors \cup {0}]
    BY DEF ReplicationInit, Uploaded
  <2>2. Factors \cup {0} \subseteq Nat
    BY FactorAssumption
  <2> QED
    BY <2>1, <2>2
<1>2. replica \in [Object -> [Node -> RowStatus]] /\ disk \in [Object -> [Node -> DiskState]]
  BY DEF ReplicationInit, Uploaded, RowStatus, DiskState
<1>3. /\ nodeStatus \in [Node -> {"ONLINE", "OFFLINE"}] /\ Steady
      /\ late = {} /\ listed = {}
      /\ faults \in [FaultKind -> Nat]
  BY DEF ReplicationInit, Uploaded, Steady
<1>4. RMTypeOK /\ rm.pc = "idle"
  BY DEF ReplicationInit, RMInit, RMIdle, RMTypeOK, RMPc
<1>5. ReplicationTypeOK
  BY <1>1, <1>2, <1>3, <1>4 DEF ReplicationTypeOK, ClusterTypeOK
<1>6. RMLocals
  BY <1>4 DEF RMLocals
<1>7. \A o \in Object, n \in Node : /\ replica[o][n] = "HEALTHY" => disk[o][n] = "good"
                                    /\ replica[o][n] = "NONE" => disk[o][n] = "none"
  BY DEF ReplicationInit, Uploaded
<1>8. \A o \in Object, n \in Node : ~PhantomDue(o, n) /\ ~LeakDue(o, n)
  BY <1>3, <1>4, <1>7 DEF PhantomDue, LeakDue, Owed, AtWork
<1>9. PhantomsDue = {} /\ LeaksDue = {}
  BY <1>8 DEF PhantomsDue, LeaksDue
<1> QED
  BY <1>3, <1>5, <1>6, <1>9, FS_EmptySet, CountsTyped DEF RMInv, PhantomsPaid, LeaksPaid

LEMMA EveryStep ==
    ASSUME ReplicationTypeOK, RMLocals, [RMNext]_RMVars
    PROVE  /\ Typed /\ Counted
           /\ faults'["rot"] = 0 => PhantomStep
           /\ faults'["outage"] = 0 /\ Steady => LeakStep /\ Steady'
<1>0. faults \in [FaultKind -> Nat] /\ RMTypeOK
  BY DEF ReplicationTypeOK, ClusterTypeOK
<1> DEFINE Goal == /\ Typed /\ Counted
                   /\ faults'["rot"] = 0 => PhantomStep
                   /\ faults'["outage"] = 0 /\ Steady => LeakStep /\ Steady'
<1>1. ASSUME ReadStep PROVE Goal
  BY <1>1, ReadSteps, QuietDues DEF Typed, Steady, Costs
<1>2. ASSUME CheckRemaining PROVE Goal
  BY <1>2, CheckStep, QuietDues DEF Steady, Costs, RowsKept
<1>3. ASSUME PushCopy PROVE Goal
  BY <1>3, PushCopyStep, PushDues DEF Steady, RowsKept, PhantomStep, Costs
<1>4. ASSUME InsertCopy PROVE Goal
  BY <1>4, InsertStep, InsertDues DEF Steady, Costs
<1>5. ASSUME UndoCopy \/ PurgeChunk PROVE Goal
  BY <1>5, UndoStep, PurgeStep, RemovalDues DEF Steady, RowsKept, PhantomStep, Costs
<1>6. ASSUME DropRow PROVE Goal
  BY <1>6, DropStep, DropDues DEF Steady, Costs
<1>7. ASSUME CrashRM PROVE Goal
  BY <1>7, CrashRMStep, CrashDues DEF Steady, RowsKept, Costs
<1>8. ASSUME Environment, UNCHANGED rm PROVE Goal
  <2>1. Typed /\ (faults'["rot"] = 0 => PhantomStep) /\ (faults'["outage"] = 0 => LeakStep)
    BY <1>8, EnvironmentStep, EnvironmentDues
  <2>2. Counted /\ (faults'["outage"] = 0 /\ Steady => Steady')
    <3>1. CASE NodesChange
      BY <3>1 DEF NodesChange, Steady, Costs
    <3>2. CASE Decays
      BY <3>2 DEF Decays, Steady, Costs
    <3>3. CASE LateCallEnds
      BY <1>0, <3>3, NoCost DEF LateCallEnds, Steady, Costs, NoFault
    <3> QED
      BY <1>8, <3>1, <3>2, <3>3, EnvironmentStep
  <2> QED
    BY <2>1, <2>2
<1>9. ASSUME UNCHANGED RMVars PROVE Goal
  <2>1. UNCHANGED <<factor, replica, nodeStatus, disk, late, listed, faults, rm>>
    BY <1>9 DEF RMVars, clusterVars
  <2>2. Costs(0) /\ CallCosts(0)
    BY <1>0, <2>1, NoCost DEF NoFault
  <2>3. Typed
    BY <2>1, LocalsRest DEF Typed, ReplicationTypeOK, ClusterTypeOK, RMTypeOK
  <2> QED
    BY <2>1, <2>2, <2>3
    DEF PhantomStep, LeakStep, PhantomDue, LeakDue, Owed, AtWork, Steady, Costs
<1> QED
  BY <1>1, <1>2, <1>3, <1>4, <1>5, <1>6, <1>7, <1>8, <1>9 DEF RMNext, RMStep, ReadStep

LEMMA PhantomsStayPaid ==
    ASSUME faults \in [FaultKind -> Nat], PhantomsPaid, Counted,
           faults'["rot"] = 0 => PhantomStep
    PROVE  PhantomsPaid'
<1> SUFFICES ASSUME faults'["rot"] = 0
             PROVE  IsFiniteSet(PhantomsDue') /\ Cardinality(PhantomsDue') <= Mishaps'
  BY DEF PhantomsPaid
<1>1. faults["rot"] = 0 /\ Mishaps \in Nat /\ Mishaps' \in Nat
  BY CountsTyped DEF Counted, Mishaps, FaultKind
<1>2. /\ IsFiniteSet(PhantomsDue) /\ Cardinality(PhantomsDue) <= Mishaps
      /\ Cardinality(PhantomsDue) \in Nat
  BY <1>1, FS_CardinalityType DEF PhantomsPaid
<1>3. CASE \A o \in Object, n \in Node : PhantomDue(o, n)' => PhantomDue(o, n)
  <2>1. PhantomsDue' \subseteq PhantomsDue
    BY <1>3 DEF PhantomsDue
  <2>2. Mishaps' >= Mishaps
    BY <1>1 DEF PhantomStep, Costs
  <2> QED
    BY <1>1, <1>2, <2>1, <2>2, SmallerSet
<1>4. ASSUME NEW a \in Object, NEW b \in Node, PhantomsBut(a, b), Costs(1)
      PROVE  IsFiniteSet(PhantomsDue') /\ Cardinality(PhantomsDue') <= Mishaps'
  <2>1. PhantomsDue' \subseteq PhantomsDue \cup {<<a, b>>}
    BY <1>4 DEF PhantomsDue, PhantomsBut
  <2>2. Mishaps' >= Mishaps + 1
    BY <1>4 DEF Costs
  <2>3. /\ IsFiniteSet(PhantomsDue')
        /\ Cardinality(PhantomsDue') <= Cardinality(PhantomsDue) + 1
        /\ Cardinality(PhantomsDue') \in Nat
    BY <1>2, <2>1, OneMore
  <2> QED
    BY <1>1, <1>2, <2>2, <2>3
<1> QED
  BY <1>3, <1>4 DEF PhantomStep

LEMMA LeaksStayPaid ==
    ASSUME faults \in [FaultKind -> Nat], LeaksPaid, Counted,
           faults'["outage"] = 0 /\ Steady => LeakStep /\ Steady'
    PROVE  LeaksPaid'
<1> SUFFICES ASSUME faults'["outage"] = 0
             PROVE  /\ Steady' /\ IsFiniteSet(LeaksDue')
                    /\ Cardinality(LeaksDue') <= LeakFund'
  BY DEF LeaksPaid
<1>1. faults["outage"] = 0 /\ LeakFund \in Nat /\ LeakFund' \in Nat
  BY CountsTyped DEF Counted, LeakFund, Mishaps, FaultKind
<1>2. /\ IsFiniteSet(LeaksDue) /\ Cardinality(LeaksDue) <= LeakFund
      /\ Cardinality(LeaksDue) \in Nat /\ LeakStep /\ Steady'
  BY <1>1, FS_CardinalityType DEF LeaksPaid
<1>3. CASE \A o \in Object, n \in Node : LeakDue(o, n)' => LeakDue(o, n)
  <2>1. LeaksDue' \subseteq LeaksDue
    BY <1>3 DEF LeaksDue
  <2>2. LeakFund' >= LeakFund
    BY <1>1, <1>2 DEF LeakStep, CallCosts
  <2> QED
    BY <1>1, <1>2, <2>1, <2>2, SmallerSet
<1>4. ASSUME NEW a \in Object, NEW b \in Node, LeaksBut(a, b), CallCosts(1)
      PROVE  IsFiniteSet(LeaksDue') /\ Cardinality(LeaksDue') <= LeakFund'
  <2>1. LeaksDue' \subseteq LeaksDue \cup {<<a, b>>}
    BY <1>4 DEF LeaksDue, LeaksBut
  <2>2. LeakFund' >= LeakFund + 1
    BY <1>4 DEF CallCosts
  <2>3. /\ IsFiniteSet(LeaksDue')
        /\ Cardinality(LeaksDue') <= Cardinality(LeaksDue) + 1
        /\ Cardinality(LeaksDue') \in Nat
    BY <1>2, <2>1, OneMore
  <2> QED
    BY <1>1, <1>2, <2>2, <2>3
<1> QED
  BY <1>2, <1>3, <1>4 DEF LeakStep

LEMMA RMInvKept == RMInv /\ [RMNext]_RMVars => RMInv'
<1> SUFFICES ASSUME RMInv, [RMNext]_RMVars PROVE RMInv'
  OBVIOUS
<1>1. ReplicationTypeOK /\ RMLocals /\ PhantomsPaid /\ LeaksPaid
      /\ faults \in [FaultKind -> Nat]
  BY DEF RMInv, ReplicationTypeOK, ClusterTypeOK
<1> QED
  BY <1>1, EveryStep, PhantomsStayPaid, LeaksStayPaid DEF RMInv, Typed

LEMMA RMInvAlways == RMSpec => []RMInv
BY InitHolds, RMInvKept, PTL DEF RMSpec

(* The manager's variables and the cluster's keep their types: the excess  *)
(* of a scale-down, computed by a subtraction, is a natural number.        *)
THEOREM RMTypeCorrect == RMSpec => []ReplicationTypeOK
<1>1. RMInv => ReplicationTypeOK
  BY DEF RMInv
<1> QED
  BY RMInvAlways, <1>1, PTL

(* Without decay there are no more HEALTHY rows without good bytes than    *)
(* mishaps: each was left behind by a failed metadata write, a restart or  *)
(* a handler that outlived its caller, none by a scaling that went well.   *)
THEOREM PhantomsArePaid == RMSpec => []PhantomsArePaidFor
<1>1. RMInv => PhantomsArePaidFor
  <2> SUFFICES ASSUME RMInv, faults["rot"] = 0
               PROVE  Cardinality(Phantoms \ BeingDropped) <= Mishaps
    BY DEF PhantomsArePaidFor
  <2>1. Phantoms \ BeingDropped \subseteq PhantomsDue
    BY DEF Phantoms, BeingDropped, PhantomsDue, PhantomDue, AtWork, RMAt
  <2>2. IsFiniteSet(PhantomsDue) /\ Cardinality(PhantomsDue) <= Mishaps /\ Mishaps \in Nat
    BY CountsTyped DEF RMInv, PhantomsPaid, ReplicationTypeOK, ClusterTypeOK
  <2> QED
    BY <2>1, <2>2, SmallerSet
<1> QED
  BY RMInvAlways, <1>1, PTL

(* While all nodes answer, the files without a row are no more than the    *)
(* faults: no scaling that went well leaves one behind.                    *)
THEOREM LeaksArePaid == RMSpec => []LeaksArePaidFor
<1>1. RMInv => LeaksArePaidFor
  <2> SUFFICES ASSUME RMInv, faults["outage"] = 0
               PROVE  Cardinality(Leaks \ BeingRecorded) <= Mishaps + faults["net"]
    BY DEF LeaksArePaidFor
  <2>1. Leaks \ BeingRecorded \subseteq LeaksDue
    BY DEF Leaks, BeingRecorded, LeaksDue, LeakDue, AtWork
  <2>2. IsFiniteSet(LeaksDue) /\ Cardinality(LeaksDue) <= LeakFund /\ LeakFund \in Nat
    BY CountsTyped DEF RMInv, LeaksPaid, ReplicationTypeOK, ClusterTypeOK
  <2> QED
    BY <2>1, <2>2, SmallerSet DEF LeakFund
<1> QED
  BY RMInvAlways, <1>1, PTL

-----------------------------------------------------------------------------
(* The floor under the copies of an object.                                *)

(* Without decay an object has as many copies as rows, or at least MinRF,  *)
(* but for one copy per mishap.                                            *)
Floor(o) ==
    \/ Cardinality(Copies(o)) + Mishaps >= MinRF
    \/ Cardinality(Copies(o)) + Mishaps >= Cardinality(RowsWith(o, "HEALTHY"))

(* The rows of one object whose bytes are missing are phantoms.            *)
LEMMA EmptyRowsArePhantoms ==
    ASSUME RMInv, faults["rot"] = 0, NEW o \in Object, NEW Q \in SUBSET Node,
           \A n \in Q : PhantomDue(o, n)
    PROVE  IsFiniteSet(Q) /\ Cardinality(Q) <= Mishaps /\ Cardinality(Q) \in Nat
<1> DEFINE pair == [n \in Q |-> <<o, n>>]
<1>1. /\ IsFiniteSet(PhantomsDue) /\ Cardinality(PhantomsDue) <= Mishaps
      /\ Mishaps \in Nat
  BY CountsTyped DEF RMInv, PhantomsPaid, ReplicationTypeOK, ClusterTypeOK
<1>2. pair \in Injection(Q, PhantomsDue)
  <2>1. \A n \in Q : <<o, n>> \in PhantomsDue
    BY DEF PhantomsDue
  <2> QED
    BY <2>1 DEF Injection, IsInjective
<1>3. /\ IsFiniteSet(Q) /\ Cardinality(Q) <= Cardinality(PhantomsDue)
  BY <1>1, <1>2, FS_Injection
<1> QED
  BY <1>1, <1>3, FS_CardinalityType

LEMMA FloorHolds ==
    ASSUME RMInv, faults["rot"] = 0, NEW o \in Object
    PROVE  Floor(o)
<1> DEFINE H == RowsWith(o, "HEALTHY")
           Q == {n \in H : disk[o][n] # "good" /\ ~AtWork("downDrop", o, n)}
<1>1. /\ H \in SUBSET Node /\ Copies(o) \in SUBSET Node /\ Q \in SUBSET Node
      /\ \A n \in Q : PhantomDue(o, n)
  BY DEF RowsWith, Copies, PhantomDue
<1>2. /\ IsFiniteSet(Q) /\ Cardinality(Q) <= Mishaps /\ Cardinality(Q) \in Nat
      /\ Mishaps \in Nat
  BY <1>1, EmptyRowsArePhantoms, CountsTyped
  DEF RMInv, ReplicationTypeOK, ClusterTypeOK
<1>3. /\ IsFiniteSet(Copies(o)) /\ Cardinality(Copies(o)) \in Nat
      /\ Cardinality(H) \in Nat
  BY <1>1, NodesCount
<1>4. /\ IsFiniteSet(Copies(o) \cup Q) /\ Cardinality(Copies(o) \cup Q) \in Nat
      /\ Cardinality(Copies(o) \cup Q) <= Cardinality(Copies(o)) + Cardinality(Q)
  <2>1. Cardinality(Copies(o) \cap Q) \in Nat /\ Cardinality(Copies(o) \cup Q) \in Nat
        /\ IsFiniteSet(Copies(o) \cup Q)
    BY <1>1, NodesCount
  <2>2. Cardinality(Copies(o) \cup Q) =
          Cardinality(Copies(o)) + Cardinality(Q) - Cardinality(Copies(o) \cap Q)
    BY <1>2, <1>3, FS_Union
  <2> QED
    BY <1>2, <1>3, <2>1, <2>2
<1>5. CASE rm.pc = "downDrop" /\ rm.obj = o
  <2>1. Cardinality(H) > MinRF /\ MinRF \in Nat
    BY <1>5, FactorsAre DEF RMInv, RMLocals
  <2>2. H \subseteq (Copies(o) \cup Q) \cup {rm.node}
    BY <1>5 DEF Copies, AtWork
  <2>3. Cardinality(H) <= Cardinality(Copies(o) \cup Q) + 1
    BY <1>4, <2>2, OneMore
  <2> QED
    BY <1>2, <1>3, <1>4, <2>1, <2>3 DEF Floor
<1>6. CASE ~(rm.pc = "downDrop" /\ rm.obj = o)
  <2>1. H \subseteq Copies(o) \cup Q
    BY <1>6 DEF Copies, AtWork
  <2>2. Cardinality(H) <= Cardinality(Copies(o) \cup Q)
    BY <1>4, <2>1, SmallerSet
  <2> QED
    BY <1>2, <1>3, <1>4, <2>2 DEF Floor
<1> QED
  BY <1>5, <1>6

(* A step takes a row away only while more than MinRF are there.           *)
LEMMA RowsStayOrAreMany ==
    ASSUME RMInv, [RMNext]_RMVars, NEW o \in Object
    PROVE  \/ RowsWith(o, "HEALTHY") \subseteq RowsWith(o, "HEALTHY")'
           \/ Cardinality(RowsWith(o, "HEALTHY")') >= MinRF
<1>0. ReplicationTypeOK /\ RMLocals
  BY DEF RMInv
<1> DEFINE H == RowsWith(o, "HEALTHY")
<1>1. CASE UNCHANGED replica
  BY <1>1 DEF RowsWith
<1>2. CASE InsertCopy
  <2>1. /\ replica[rm.obj][rm.node] = "NONE" /\ rm.obj \in Object /\ rm.node \in Node
        /\ \A a \in Object, b \in Node :
             a # rm.obj \/ b # rm.node => replica'[a][b] = replica[a][b]
    BY <1>0, <1>2, InsertStep
  <2> QED
    BY <2>1 DEF RowsWith
<1>3. CASE DropRow
  <2>1. /\ rm.obj \in Object /\ rm.node \in RowsWith(rm.obj, "HEALTHY")
        /\ Cardinality(RowsWith(rm.obj, "HEALTHY")) > MinRF
        /\ \A a \in Object, b \in Node :
             a # rm.obj \/ b # rm.node => replica'[a][b] = replica[a][b]
    BY <1>0, <1>3, DropStep
  <2>2. CASE rm.obj = o
    <3>1. H \in SUBSET Node /\ H' \in SUBSET Node /\ H \ {rm.node} \subseteq H'
      BY <2>1, <2>2 DEF RowsWith
    <3>2. /\ Cardinality(H \ {rm.node}) = Cardinality(H) - 1
          /\ Cardinality(H) \in Nat
      BY <2>1, <2>2, <3>1, NodesCount, FS_RemoveElement
    <3>3. Cardinality(H \ {rm.node}) <= Cardinality(H') /\ Cardinality(H') \in Nat
      BY <3>1, NodesCount, SmallerSet
    <3> QED
      BY <2>1, <2>2, <3>2, <3>3, FactorsAre
  <2>3. CASE rm.obj # o
    BY <2>1, <2>3 DEF RowsWith
  <2> QED
    BY <2>2, <2>3
<1>4. CASE RMNext /\ ~InsertCopy /\ ~DropRow
  <2>1. CASE ReadStep
    BY <1>0, <1>1, <2>1, ReadSteps
  <2>2. CASE CheckRemaining \/ PushCopy \/ UndoCopy \/ PurgeChunk \/ CrashRM
    BY <1>1, <2>2 DEF CheckRemaining, PushCopy, UndoCopy, PurgeChunk, CrashRM
  <2>3. CASE Environment /\ UNCHANGED rm
    BY <1>0, <1>1, <2>3, EnvironmentStep
  <2> QED
    BY <1>4, <2>1, <2>2, <2>3 DEF RMNext, RMStep, ReadStep
<1> QED
  BY <1>1, <1>2, <1>3, <1>4 DEF RMVars, clusterVars

(* A step that leaves an object with fewer copies leaves MinRF of them, or *)
(* as many as there were rows: the safety check of a scale-down counts     *)
(* rows, so only a row that a mishap left without bytes deceives it.       *)
THEOREM CopiesKeepTheFloor == RMSpec => CopyFloor
<1> DEFINE Floors == faults["rot"] = 0 => \A o \in Object : Floor(o)
<1>0. RMInv' => Floors'
  <2>1. RMInv => Floors
    BY FloorHolds
  <2> HIDE DEF Floors
  <2> QED
    BY <2>1, PTL
<1>1. ASSUME RMInv, [RMNext]_RMVars, faults'["rot"] = 0, NEW o \in Object
      PROVE  \/ Cardinality(Copies(o)') + Mishaps' >= MinRF
             \/ Cardinality(Copies(o)') + Mishaps' >=
                   Cardinality(RowsWith(o, "HEALTHY"))
  <2>1. RMInv'
    BY <1>1, RMInvKept
  <2>2. Floor(o)'
    BY <1>0, <1>1, <2>1 DEF Floors
  <2>3. CASE RowsWith(o, "HEALTHY") \subseteq RowsWith(o, "HEALTHY")'
    <3>1. RowsWith(o, "HEALTHY") \in SUBSET Node /\ RowsWith(o, "HEALTHY")' \in SUBSET Node
          /\ Copies(o)' \in SUBSET Node
      BY DEF RowsWith, Copies
    <3>2. Cardinality(RowsWith(o, "HEALTHY")) <= Cardinality(RowsWith(o, "HEALTHY")')
          /\ Cardinality(RowsWith(o, "HEALTHY")) \in Nat
          /\ Cardinality(RowsWith(o, "HEALTHY")') \in Nat
          /\ Cardinality(Copies(o)') \in Nat
      BY <2>3, <3>1, NodesCount, SmallerSet
    <3>3. Mishaps' \in Nat
      BY <2>1, CountsTyped DEF RMInv, ReplicationTypeOK, ClusterTypeOK, Mishaps, FaultKind
    <3> QED
      BY <2>2, <3>2, <3>3 DEF Floor
  <2>4. CASE Cardinality(RowsWith(o, "HEALTHY")') >= MinRF
    <3>1. Cardinality(RowsWith(o, "HEALTHY")') \in Nat /\ Cardinality(Copies(o)') \in Nat
      BY NodesCount DEF RowsWith, Copies
    <3>2. Mishaps' \in Nat /\ MinRF \in Nat
      BY <2>1, FactorsAre DEF RMInv, ReplicationTypeOK, ClusterTypeOK, Mishaps, FaultKind
    <3> QED
      BY <2>2, <2>4, <3>1, <3>2 DEF Floor
  <2> QED
    BY <1>1, <2>3, <2>4, RowsStayOrAreMany
<1>2. RMInv /\ [RMNext]_RMVars =>
        [faults'["rot"] = 0 => \A o \in Object :
          Cardinality(Copies(o)') < Cardinality(Copies(o)) =>
              \/ Cardinality(Copies(o)') + Mishaps' >= MinRF
              \/ Cardinality(Copies(o)') + Mishaps' >=
                    Cardinality(RowsWith(o, "HEALTHY"))]_RMVars
  BY <1>1
<1> QED
  BY RMInvAlways, <1>2, PTL DEF RMSpec, CopyFloor

-----------------------------------------------------------------------------
(* Scaling implements its abstract specification.                          *)

(* A handler that nobody waits for, and the row of a copy that is being    *)
(* undone, are signs of a mishap, whether files decay or not.              *)
Signs ==
    \/ Mishaps > 0
    \/ /\ late = {}
       /\ rm.pc = "upUndo" => replica[rm.obj][rm.node] = "NONE"

LEMMA SignsKept ==
    ASSUME RMInv, Signs, [RMNext]_RMVars
    PROVE  Signs'
<1>0. /\ ReplicationTypeOK /\ RMLocals /\ faults \in [FaultKind -> Nat]
      /\ Mishaps \in Nat /\ Mishaps' \in Nat
  BY RMInvKept, CountsTyped
  DEF RMInv, ReplicationTypeOK, ClusterTypeOK, Mishaps, FaultKind
<1>1. CASE Costs(1)
  BY <1>0, <1>1 DEF Costs, Signs
<1>2. ASSUME Costs(0), UNCHANGED <<late, replica>>, rm'.pc # "upUndo"
      PROVE  Signs'
  BY <1>0, <1>2 DEF Costs, Signs
<1>3. CASE ReadStep
  BY <1>0, <1>2, <1>3, ReadSteps
<1>4. CASE CheckRemaining
  BY <1>0, <1>2, <1>4, CheckStep DEF RowsKept
<1>5. CASE PushCopy
  BY <1>0, <1>1, <1>2, <1>5, PushCopyStep DEF RowsKept, CallOutcome
<1>6. CASE InsertCopy
  BY <1>0, <1>1, <1>6, InsertStep DEF Signs, Costs
<1>7. CASE UndoCopy \/ PurgeChunk
  BY <1>0, <1>1, <1>2, <1>7, UndoStep, PurgeStep DEF RowsKept, CallOutcome
<1>8. CASE DropRow
  <2>1. Costs(0) /\ UNCHANGED late /\ rm'.pc = "downCheck"
    BY <1>0, <1>8, DropStep
  <2> QED
    BY <1>0, <2>1 DEF Costs, Signs
<1>9. CASE CrashRM
  BY <1>0, <1>1, <1>9, CrashRMStep
<1>10. CASE Environment /\ UNCHANGED rm
  <2>1. UNCHANGED replica /\ (Decays \/ LateCallEnds \/ NodesChange)
    BY <1>0, <1>10, EnvironmentStep
  <2>2. Mishaps' >= Mishaps /\ late' \subseteq late
    <3>1. CASE Decays \/ NodesChange
      BY <1>0, <3>1 DEF Decays, NodesChange, Costs
    <3>2. CASE LateCallEnds
      BY <1>0, <3>2 DEF LateCallEnds, Mishaps
    <3> QED
      BY <2>1, <3>1, <3>2
  <2> QED
    BY <1>0, <1>10, <2>1, <2>2 DEF Signs
<1>11. CASE UNCHANGED RMVars
  BY <1>11 DEF RMVars, clusterVars, Signs, Mishaps
<1> QED
  BY <1>3, <1>4, <1>5, <1>6, <1>7, <1>8, <1>9, <1>10, <1>11 DEF RMNext, RMStep, ReadStep

LEMMA SignsAlways == RMSpec => []Signs
<1>1. ReplicationInit => Signs
  BY DEF ReplicationInit, RMInit, RMIdle, Uploaded, Signs
<1>2. RMInv /\ Signs /\ [RMNext]_RMVars => Signs'
  BY SignsKept
<1> QED
  BY RMInvAlways, <1>1, <1>2, PTL DEF RMSpec

(* Where the mapping finds the nodes of an object in a table.              *)
Holding(t, v) == [o \in Object |-> {n \in Node : t[o][n] = v}]

(* One entry of a table becomes v, the rest stays.                         *)
Written(t, u, o, n, v) ==
    \A p \in Object, m \in Node :
       u[p][m] = IF p = o /\ m = n THEN v ELSE t[p][m]

LEMMA WrittenHolds ==
    ASSUME NEW t, NEW u, NEW o \in Object, NEW n \in Node, NEW v, NEW x,
           Written(t, u, o, n, v)
    PROVE  Holding(u, x) = IF x = v THEN ReplicaSet!With(Holding(t, x), o, n)
                           ELSE ReplicaSet!Without(Holding(t, x), o, n)
<1>1. ASSUME NEW p \in Object
      PROVE  {m \in Node : u[p][m] = x} =
               IF p = o
               THEN IF x = v THEN {m \in Node : t[p][m] = x} \cup {n}
                             ELSE {m \in Node : t[p][m] = x} \ {n}
               ELSE {m \in Node : t[p][m] = x}
  <2>1. \A m \in Node : u[p][m] = IF p = o /\ m = n THEN v ELSE t[p][m]
    BY DEF Written
  <2> QED
    BY <2>1
<1> QED
  BY <1>1 DEF Holding, ReplicaSet!With, ReplicaSet!Without

LEMMA NothingHeld ==
    ASSUME NEW t, NEW o \in Object, NEW n \in Node, NEW x, t[o][n] # x
    PROVE  ReplicaSet!Without(Holding(t, x), o, n) = Holding(t, x)
BY DEF Holding, ReplicaSet!Without

(* The instance counts as this module does.                                *)
LEMMA SameCardinality == \A S : ReplicaSet!Cardinality(S) = Cardinality(S)
BY DEF ReplicaSet!Cardinality, Cardinality, ReplicaSet!IsFiniteSet, IsFiniteSet

(* What a step shows of the faults.                                        *)
MishapsStay == /\ (Mishaps > 0) => (Mishaps > 0)'
               /\ faults'["rot"] = faults["rot"]

LEMMA MishapsAreForGood ==
    ASSUME faults \in [FaultKind -> Nat], Costs(0)
    PROVE  (Mishaps > 0) => (Mishaps > 0)'
BY CountsTyped DEF Costs, Counted, Mishaps, FaultKind

(* A step that touches neither rows nor files is a stutter, or the first   *)
(* mishap.                                                                 *)
LEMMA UnseenStep ==
    ASSUME UNCHANGED <<replica, disk>>, MishapsStay
    PROVE  ReplicaSet!ScaleNext \/ UNCHANGED ReplicaSet!vars
<1>1. UNCHANGED <<ReplicaSet!rows, [o \in Object |-> {n \in Node : disk[o][n] = "good"}],
                  faults["rot"] > 0>>
  BY DEF ReplicaSet!rows, RowsWith, MishapsStay
<1> QED
  BY <1>1 DEF ReplicaSet!ScaleNext, ReplicaSet!vars, MishapsStay

(* A call that reached one file: it is there now, or it is not.            *)
LEMMA FileSeen ==
    ASSUME NEW o \in Object, NEW n \in Node, OneFile(o, n)
    PROVE  Holding(disk', "good") =
             IF disk'[o][n] = "good" THEN ReplicaSet!With(Holding(disk, "good"), o, n)
             ELSE ReplicaSet!Without(Holding(disk, "good"), o, n)
<1>1. Written(disk, disk', o, n, disk'[o][n])
  BY DEF Written, OneFile
<1> QED
  BY <1>1, WrittenHolds

LEMMA FileStep ==
    ASSUME NEW o \in Object, NEW n \in Node, OneFile(o, n), UNCHANGED replica,
           MishapsStay, replica[o][n] # "HEALTHY" \/ Mishaps > 0
    PROVE  ReplicaSet!ScaleNext
<1>1. ReplicaSet!Copy(o, n)
  BY FileSeen DEF ReplicaSet!Copy, ReplicaSet!rows, Holding, RowsWith, MishapsStay
<1> QED
  BY <1>1 DEF ReplicaSet!ScaleNext, MishapsStay

LEMMA PushMaps ==
    ASSUME ReplicationTypeOK, RMLocals, PushCopy
    PROVE  ReplicaSet!ScaleNext
<1>1. PICK n \in Node : CallOutcome(rm.obj, n, "store") /\ replica[rm.obj][n] = "NONE"
  BY PushCopyStep
<1>2. rm.obj \in Object /\ UNCHANGED replica /\ OneFile(rm.obj, n) /\ MishapsStay
  BY <1>1, PushCopyStep, MishapsAreForGood
  DEF RowsKept, CallOutcome, MishapsStay, ReplicationTypeOK, ClusterTypeOK
<1> QED
  BY <1>1, <1>2, FileStep

LEMMA UndoMaps ==
    ASSUME ReplicationTypeOK, RMLocals, Signs, UndoCopy
    PROVE  ReplicaSet!ScaleNext
<1>1. /\ rm.obj \in Object /\ rm.node \in Node /\ UNCHANGED replica
      /\ CallOutcome(rm.obj, rm.node, "delete") /\ rm.pc = "upUndo"
  BY UndoStep DEF RowsKept
<1>2. OneFile(rm.obj, rm.node) /\ MishapsStay
  BY <1>1, MishapsAreForGood
  DEF CallOutcome, MishapsStay, ReplicationTypeOK, ClusterTypeOK
<1> QED
  BY <1>1, <1>2, FileStep DEF Signs

(* A row is inserted for bytes that are good, but for rot and mishaps.     *)
LEMMA InsertMaps ==
    ASSUME RMInv, InsertCopy
    PROVE  ReplicaSet!ScaleNext \/ UNCHANGED ReplicaSet!vars
<1>0. PICK o \in Object, n \in Node : o = rm.obj /\ n = rm.node
  BY InsertStep DEF RMInv
<1>1. /\ UNCHANGED disk /\ MishapsStay /\ o \in Object /\ n \in Node
      /\ replica[o][n] = "NONE" /\ AtWork("upInsert", o, n)
      /\ \A a \in Object, b \in Node :
           a # o \/ b # n => replica'[a][b] = replica[a][b]
      /\ UNCHANGED replica \/ replica'[o][n] = "HEALTHY"
  BY <1>0, InsertStep, MishapsAreForGood
  DEF NoNewFaults, MishapsStay, RMInv, ReplicationTypeOK, ClusterTypeOK, AtWork
<1>2. CASE UNCHANGED replica
  BY <1>1, <1>2, UnseenStep
<1>3. CASE replica'[o][n] = "HEALTHY"
  <2>1. disk[o][n] = "good" \/ faults["rot"] > 0 \/ Mishaps > 0
    <3>1. SUFFICES ASSUME disk[o][n] # "good", faults["rot"] = 0
                   PROVE  Mishaps > 0
      BY DEF RMInv, ReplicationTypeOK, ClusterTypeOK, FaultKind
    <3>2. PhantomDue(o, n)
      BY <1>1, <3>1 DEF PhantomDue
    <3>3. {n} \in SUBSET Node /\ \A m \in {n} : PhantomDue(o, m)
      BY <1>1, <3>2
    <3>4. Cardinality({n}) <= Mishaps /\ Mishaps \in Nat
      BY <1>1, <3>1, <3>3, EmptyRowsArePhantoms, CountsTyped
      DEF RMInv, ReplicationTypeOK, ClusterTypeOK
    <3>5. Cardinality({n}) = 1
      BY FS_Singleton
    <3> QED
      BY <3>4, <3>5
  <2>2. Written(replica, replica', o, n, "HEALTHY")
    BY <1>1, <1>3 DEF Written
  <2>3. /\ Holding(replica', "HEALTHY") = ReplicaSet!With(Holding(replica, "HEALTHY"), o, n)
        /\ Holding(replica', "RECOVERING") = Holding(replica, "RECOVERING")
        /\ Holding(replica', "LOST") = Holding(replica, "LOST")
    <3>1. ASSUME NEW x \in RowStatus
          PROVE  Holding(replica', x) =
             IF x = "HEALTHY" THEN ReplicaSet!With(Holding(replica, x), o, n)
             ELSE ReplicaSet!Without(Holding(replica, x), o, n)
      BY <2>2, WrittenHolds
    <3>2. \A x \in {"RECOVERING", "LOST"} :
             ReplicaSet!Without(Holding(replica, x), o, n) = Holding(replica, x)
      BY <1>1, NothingHeld
    <3> QED
      BY <3>1, <3>2 DEF RowStatus
  <2>4. ReplicaSet!Grow(o, n)
    BY <1>1, <2>1, <2>3 DEF ReplicaSet!Grow, Holding, RowsWith, MishapsStay
  <2> QED
    BY <1>1, <2>4 DEF ReplicaSet!ScaleNext, MishapsStay
<1> QED
  BY <1>1, <1>2, <1>3

(* A file is purged while more than MinRF rows are there, all of them with *)
(* their bytes, but for rot and mishaps.                                   *)
LEMMA PurgeMaps ==
    ASSUME RMInv, PurgeChunk
    PROVE  ReplicaSet!ScaleNext \/ UNCHANGED ReplicaSet!vars
<1>0. PICK o \in Object, n \in Node : o = rm.obj /\ n = rm.node
  BY PurgeStep DEF RMInv
<1> DEFINE H == RowsWith(o, "HEALTHY")
<1>1. /\ UNCHANGED replica /\ MishapsStay /\ o \in Object /\ n \in Node
      /\ rm.pc = "downPurge" /\ OneFile(o, n)
      /\ disk'[o][n] \in {"none", disk[o][n]}
  BY <1>0, PurgeStep, MishapsAreForGood
  DEF RowsKept, CallOutcome, MishapsStay, RMInv, ReplicationTypeOK, ClusterTypeOK
<1>2. n \in H /\ Cardinality(H) > MinRF
  BY <1>0, <1>1 DEF RMInv, RMLocals
<1>3. CASE disk'[o][n] = disk[o][n]
  <2>1. disk' = disk
    BY <1>1, <1>3 DEF OneFile, RMInv, ReplicationTypeOK, ClusterTypeOK
  <2> QED
    BY <1>1, <2>1, UnseenStep
<1>4. CASE disk'[o][n] = "none"
  <2>1. H \subseteq {m \in Node : disk[o][m] = "good"}
        \/ faults["rot"] > 0 \/ Mishaps > 0
    <3>1. SUFFICES ASSUME NEW m \in H, disk[o][m] # "good", faults["rot"] = 0
                   PROVE  Mishaps > 0
      BY DEF RMInv, ReplicationTypeOK, ClusterTypeOK, FaultKind, RowsWith
    <3>2. {m} \in SUBSET Node /\ \A b \in {m} : PhantomDue(o, b)
      BY <1>1, <3>1 DEF PhantomDue, AtWork, RowsWith
    <3>3. Cardinality({m}) <= Mishaps /\ Mishaps \in Nat
      BY <1>1, <3>1, <3>2, EmptyRowsArePhantoms, CountsTyped
      DEF RMInv, ReplicationTypeOK, ClusterTypeOK
    <3>4. Cardinality({m}) = 1
      BY FS_Singleton
    <3> QED
      BY <3>3, <3>4
  <2>2. Holding(disk', "good") = ReplicaSet!Without(Holding(disk, "good"), o, n)
    BY <1>1, <1>4, FileSeen
  <2>3. ReplicaSet!Purge(o, n)
    <3>1. o \in Object /\ UNCHANGED <<replica, faults["rot"]>>
      BY <1>1 DEF MishapsStay
    <3>2. /\ n \in RowsWith(o, "HEALTHY") /\ Cardinality(RowsWith(o, "HEALTHY")) > MinRF
          /\ \/ RowsWith(o, "HEALTHY") \subseteq {m \in Node : disk[o][m] = "good"}
             \/ faults["rot"] > 0 \/ Mishaps > 0
      BY <1>2, <2>1
    <3> QED
      BY <2>2, <3>1, <3>2, SameCardinality DEF ReplicaSet!Purge, ReplicaSet!rows, Holding, RowsWith
  <2>4. o \in Object /\ n \in Node /\ ((Mishaps > 0) => (Mishaps > 0)')
    BY <1>1 DEF MishapsStay
  <2> QED
    BY <2>3, <2>4 DEF ReplicaSet!ScaleNext
<1> QED
  BY <1>1, <1>3, <1>4

LEMMA DropMaps ==
    ASSUME ReplicationTypeOK, RMLocals, DropRow
    PROVE  ReplicaSet!ScaleNext \/ UNCHANGED ReplicaSet!vars
<1>0. PICK o \in Object, n \in Node : o = rm.obj /\ n = rm.node
  BY DropStep DEF RowsWith
<1>1. /\ UNCHANGED disk /\ MishapsStay /\ o \in Object /\ n \in RowsWith(o, "HEALTHY")
      /\ Cardinality(RowsWith(o, "HEALTHY")) > MinRF
      /\ \A a \in Object, b \in Node :
           a # o \/ b # n => replica'[a][b] = replica[a][b]
      /\ UNCHANGED replica \/ replica'[o][n] = "NONE"
  BY <1>0, DropStep, MishapsAreForGood
  DEF NoNewFaults, MishapsStay, ReplicationTypeOK, ClusterTypeOK
<1>2. CASE UNCHANGED replica
  BY <1>1, <1>2, UnseenStep
<1>3. CASE replica'[o][n] = "NONE"
  <2>1. n \in Node /\ replica[o][n] = "HEALTHY"
    BY <1>1 DEF RowsWith
  <2>2. Written(replica, replica', o, n, "NONE")
    BY <1>1, <1>3 DEF Written
  <2>3. /\ Holding(replica', "HEALTHY") =
             ReplicaSet!Without(Holding(replica, "HEALTHY"), o, n)
        /\ Holding(replica', "RECOVERING") = Holding(replica, "RECOVERING")
        /\ Holding(replica', "LOST") = Holding(replica, "LOST")
    <3>1. ASSUME NEW x \in RowStatus
          PROVE  Holding(replica', x) =
             IF x = "NONE" THEN ReplicaSet!With(Holding(replica, x), o, n)
             ELSE ReplicaSet!Without(Holding(replica, x), o, n)
      BY <2>2, WrittenHolds
    <3>2. \A x \in {"RECOVERING", "LOST"} :
             ReplicaSet!Without(Holding(replica, x), o, n) = Holding(replica, x)
      BY <1>1, <2>1, NothingHeld
    <3> QED
      BY <3>1, <3>2 DEF RowStatus
  <2>4. ReplicaSet!Shrink(o, n)
    <3>1. n \in RowsWith(o, "HEALTHY") /\ Cardinality(RowsWith(o, "HEALTHY")) > MinRF
          /\ UNCHANGED <<disk, faults["rot"]>> /\ o \in Object
      BY <1>1 DEF MishapsStay
    <3> QED
      BY <2>3, <3>1, SameCardinality DEF ReplicaSet!Shrink, Holding, RowsWith
  <2> QED
    BY <1>1, <2>1, <2>4 DEF ReplicaSet!ScaleNext, MishapsStay
<1> QED
  BY <1>1, <1>2, <1>3

LEMMA EnvironmentMaps ==
    ASSUME ReplicationTypeOK, RMLocals, Signs, Environment, UNCHANGED rm
    PROVE  ReplicaSet!ScaleNext \/ UNCHANGED ReplicaSet!vars
<1>0. faults \in [FaultKind -> Nat] /\ UNCHANGED replica
  BY EnvironmentStep DEF ReplicationTypeOK, ClusterTypeOK
<1>1. CASE NodesChange
  <2>1. UNCHANGED disk /\ MishapsStay
    BY <1>0, <1>1, MishapsAreForGood DEF NodesChange, MishapsStay
  <2> QED
    BY <1>0, <2>1, UnseenStep
<1>2. CASE LateCallEnds
  <2>1. PICK o \in Object, n \in Node : OneFile(o, n) /\ late # {} /\ UNCHANGED faults
    BY <1>2 DEF LateCallEnds
  <2>2. MishapsStay /\ Mishaps > 0
    BY <2>1 DEF Signs, MishapsStay, Mishaps
  <2> QED
    BY <1>0, <2>1, <2>2, FileStep
<1>3. CASE Decays
  <2>1. PICK o \in Object, n \in Node :
          /\ OneFile(o, n) /\ disk[o][n] = "good" /\ disk'[o][n] # "good"
          /\ faults'["rot"] > 0 /\ Costs(0)
    BY <1>3 DEF Decays
  <2>2. Holding(disk', "good") = ReplicaSet!Without(Holding(disk, "good"), o, n)
    BY <2>1, FileSeen
  <2>3. ReplicaSet!Decay(o, n)
    BY <1>0, <2>1, <2>2 DEF ReplicaSet!Decay, ReplicaSet!rows, Holding, RowsWith
  <2>4. (Mishaps > 0) => (Mishaps > 0)'
    BY <1>0, <2>1, MishapsAreForGood
  <2> QED
    BY <2>3, <2>4 DEF ReplicaSet!ScaleNext
<1> QED
  BY <1>1, <1>2, <1>3, EnvironmentStep

LEMMA StepMaps ==
    ASSUME RMInv, Signs, [RMNext]_RMVars
    PROVE  [ReplicaSet!ScaleNext]_(ReplicaSet!vars)
<1>0. ReplicationTypeOK /\ RMLocals /\ faults \in [FaultKind -> Nat]
  BY DEF RMInv, ReplicationTypeOK, ClusterTypeOK
<1>1. CASE ReadStep
  <2>1. UNCHANGED <<replica, disk>> /\ MishapsStay
    BY <1>0, <1>1, ReadSteps, MishapsAreForGood DEF MishapsStay
  <2> QED
    BY <2>1, UnseenStep
<1>2. CASE CheckRemaining
  <2>1. UNCHANGED <<replica, disk>> /\ MishapsStay
    BY <1>0, <1>2, CheckStep, MishapsAreForGood DEF RowsKept, NoNewFaults, MishapsStay
  <2> QED
    BY <2>1, UnseenStep
<1>3. CASE CrashRM
  <2>1. UNCHANGED <<replica, disk>> /\ NoNewFaults /\ Costs(1)
    BY <1>0, <1>3, CrashRMStep DEF RowsKept
  <2>2. MishapsStay
    BY <1>0, <2>1, CountsTyped DEF Costs, Counted, Mishaps, MishapsStay, NoNewFaults, FaultKind
  <2> QED
    BY <2>1, <2>2, UnseenStep
<1>4. CASE UNCHANGED RMVars
  <2>1. UNCHANGED <<replica, disk>> /\ MishapsStay
    BY <1>4 DEF RMVars, clusterVars, MishapsStay, Mishaps
  <2> QED
    BY <2>1, UnseenStep
<1> QED
  BY <1>0, <1>1, <1>2, <1>3, <1>4, PushMaps, InsertMaps, UndoMaps, PurgeMaps, DropMaps,
     EnvironmentMaps DEF RMNext, RMStep, ReadStep

LEMMA InitMaps == ReplicationInit => ReplicaSet!Init
<1> SUFFICES ASSUME ReplicationInit PROVE ReplicaSet!Init
  OBVIOUS
<1>1. PICK holders \in [Object -> SUBSET Node] :
        /\ replica = [o \in Object |-> [n \in Node |->
                         IF n \in holders[o] THEN "HEALTHY" ELSE "NONE"]]
        /\ disk = [o \in Object |-> [n \in Node |->
                         IF n \in holders[o] THEN "good" ELSE "none"]]
  BY DEF ReplicationInit, Uploaded
<1>2. /\ \A o \in Object : RowsWith(o, "HEALTHY") = holders[o]
      /\ \A o \in Object : {n \in Node : disk[o][n] = "good"} = holders[o]
      /\ \A o \in Object : RowsWith(o, "RECOVERING") = {}
      /\ \A o \in Object : RowsWith(o, "LOST") = {}
  BY <1>1 DEF RowsWith
<1>3. faults["rot"] = 0 /\ Mishaps = 0
  BY DEF ReplicationInit, Uploaded, FaultKind, Mishaps
<1> QED
  BY <1>2, <1>3 DEF ReplicaSet!Init

(* Whatever fails and whenever the process is restarted, each step of the  *)
(* manager is one that the abstract scaling allows, or changes nothing a   *)
(* reader could see.                                                       *)
THEOREM Refines == RMSpec => ScalesAsPromised
<1>1. RMInv /\ Signs /\ [RMNext]_RMVars => [ReplicaSet!ScaleNext]_(ReplicaSet!vars)
  BY StepMaps
<1> QED
  BY <1>1, InitMaps, RMInvAlways, SignsAlways, PTL
  DEF RMSpec, ScalesAsPromised, ReplicaSet!ScaleSpec
=============================================================================
