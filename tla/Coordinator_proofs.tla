------------------------ MODULE Coordinator_proofs ------------------------
(***************************************************************************)
(* Theorems about the coordinator process (CoordinatorSpec): the engine,   *)
(* the replication manager and any number of requests, interleaved in      *)
(* every way, for every number of nodes and objects, all configured        *)
(* factors and any number of faults of each kind.                          *)
(*                                                                         *)
(* The argument counts.  A file is solid when its row is there, its bytes  *)
(* are good and nobody is about to touch it; it is doubtful when its row   *)
(* is trusted, or may come to be, though its bytes may be gone.  Every     *)
(* step keeps the doubtful files of an object down to the solid ones and   *)
(* one per mishap (Covered).  The manager removes a file only after it has *)
(* counted more than MinRF trusted rows, so that with fewer mishaps than   *)
(* MinRF one solid file is left (Held).                                    *)
(*                                                                         *)
(* The last part is about the behaviours in which nothing fails (CalmInv): *)
(* there a download's list always leads to a file, for the manager neither *)
(* adds replicas beyond the tier's factor nor takes any away below it.     *)
(***************************************************************************)
EXTENDS Coordinator, SelfHealing_proofs, Replication_proofs

-----------------------------------------------------------------------------
(* What the goroutines are about to do to the files.                       *)

(* The replication manager is removing the replica, has it on its list of  *)
(* candidates, may remove its file when a scale-up is undone, or is about  *)
(* to insert its row.                                                      *)
Condemned(o, n) ==
    rm.obj = o /\ rm.pc \in {"downPurge", "downDrop"} /\ n = rm.node
Candidate(o, n) ==
    \/ /\ rm.obj = o /\ rm.pc \in {"downCheck", "downPurge", "downDrop"}
       /\ n \in rm.nodes
    \/ Condemned(o, n)
Endangered(o, n) ==
    /\ rm.obj = o
    /\ \/ rm.pc = "upPlace" /\ n \notin rm.nodes
       \/ /\ rm.pc \in {"upSources", "upFetch", "upPush", "upInsert", "upUndo"}
          /\ n \in rm.dests
       \/ rm.pc \in {"upInsert", "upUndo"} /\ n = rm.node
Inserting(o, n) == rm.obj = o /\ rm.pc = "upInsert" /\ n = rm.node

(* The node is the destination of the recovery under way, or a handler     *)
(* that nobody waits for may still change the file.                        *)
Refilled(o, n) == InRecovery /\ she.obj = o /\ she.dest = n
LateCall(o, n) == <<o, n, "store">> \in late \/ <<o, n, "delete">> \in late

(* The local variables the manager relies on whatever the others do.       *)
OwnVariables ==
    /\ rm.pc \notin {"idle", "objects"} => rm.obj \in Object
    /\ rm.pc \in {"count", "sync", "upRows", "upPlace", "downList"} =>
         rm.target \in {MinRF, DefaultRF, MaxRF}
    /\ rm.pc \in {"upInsert", "upUndo"} => rm.node \in Node \ rm.dests
    /\ rm.pc \in {"downPurge", "downDrop"} => rm.node \in Node \ rm.nodes

(* Where it has no plans for any node.                                     *)
Planless == {"idle", "objects", "object", "tier", "count", "sync", "upRows",
             "upFactor", "downList", "downFactor"}
WorkPc == {"upInsert", "upUndo", "downPurge", "downDrop"}

(* Reading makes plans for nodes without a row, and for HEALTHY rows.      *)
Planned == \A o \in Object, n \in Node :
    /\ Endangered(o, n)' => Endangered(o, n) \/ replica[o][n] = "NONE"
    /\ Candidate(o, n)' => Candidate(o, n) \/ replica[o][n] = "HEALTHY"
Picked == /\ rm'.objs \subseteq rm.objs \cup {o \in Object : Exists(o)}
          /\ rm'.obj \in {rm.obj, NoObject} \cup rm.objs

LEMMA NoPlans ==
    ASSUME rm'.pc \in Planless
    PROVE  Planned
BY DEF Planned, Endangered, Candidate, Condemned, Planless

LEMMA NextObjectOwned ==
    ASSUME RMTypeOK, rm' = NextObject
    PROVE  /\ RMTypeOK' /\ OwnVariables' /\ Planned /\ Picked
           /\ rm'.pc = "objects"
<1>1. rm'.pc = "objects" /\ rm'.objs = rm.objs /\ rm'.obj = NoObject
  BY DEF NextObject, RMIdle
<1> QED
  BY <1>1, NextObjectTyped, NoPlans DEF OwnVariables, Picked, Planless

LEMMA FactorKept ==
    ASSUME factor \in [Object -> Nat], NEW f \in Int, WriteFactor(f)
    PROVE  \A o \in Object : Exists(o)' <=> Exists(o)
<1>1. factor' = factor \/ UpdateReplicationFactor(rm.obj, f)
  BY DEF WriteFactor
<1> QED
  BY <1>1 DEF UpdateReplicationFactor, Exists

(* The steps of the manager that read, or rewrite the factor.              *)
LEMMA ScalerReads ==
    ASSUME ReplicationTypeOK, OwnVariables, ReadStep
    PROVE  /\ ReplicationTypeOK' /\ OwnVariables'
           /\ UNCHANGED <<replica, nodeStatus, disk, late, listed>>
           /\ Costs(0) /\ faults'["rot"] = faults["rot"]
           /\ \A o \in Object : Exists(o)' <=> Exists(o)
           /\ rm.pc \notin WorkPc /\ rm'.pc \notin WorkPc
           /\ Planned /\ Picked
<1> DEFINE Still == UNCHANGED <<factor, replica, nodeStatus, disk, late, listed>>
           Goal == /\ RMTypeOK' /\ OwnVariables' /\ Planned /\ Picked
                   /\ rm.pc \notin WorkPc /\ rm'.pc \notin WorkPc
                   /\ \/ Still /\ (NoFault \/ Inject("db") \/ (\E n : CallFails(n)))
                      \/ (\E f \in Int : WriteFactor(f))
<1>0. ClusterTypeOK /\ RMTypeOK /\ faults \in [FaultKind -> Nat]
      /\ factor \in [Object -> Nat]
  BY DEF ReplicationTypeOK, ClusterTypeOK
<1>f. ASSUME UNCHANGED clusterVars
      PROVE  Still /\ NoFault
  BY <1>f DEF clusterVars, NoFault
<1>g. SUFFICES Goal
  <2>1. CASE \E f \in Int : WriteFactor(f)
    <3>1. PICK f \in Int : WriteFactor(f)
      BY <2>1
    <3>2. /\ rm' = NextObject /\ factor' \in [Object -> Nat]
          /\ UNCHANGED <<replica, nodeStatus, disk, late, listed>>
          /\ Costs(0) /\ faults'["rot"] = faults["rot"]
      BY <3>1, WriteFactorTyped
    <3>3. \A o \in Object : Exists(o)' <=> Exists(o)
      BY <1>0, <3>1, FactorKept
    <3>4. faults' \in [FaultKind -> Nat]
      BY <3>2 DEF Costs, Counted
    <3> QED
      BY <1>0, <3>2, <3>3, <3>4 DEF ReplicationTypeOK, ClusterTypeOK
  <2>2. CASE ~\E f \in Int : WriteFactor(f)
    <3>1. Still /\ (NoFault \/ Inject("db") \/ (\E n : CallFails(n)))
      BY <2>2
    <3>2. Costs(0) /\ faults'["rot"] = faults["rot"]
      BY <1>0, <3>1, NoCost, PaidStep, CallFailsCost, CountsTyped
    <3>3. faults' \in [FaultKind -> Nat]
      BY <3>2 DEF Costs, Counted
    <3>4. \A o \in Object : Exists(o)' <=> Exists(o)
      BY <3>1 DEF Exists
    <3> QED
      BY <1>0, <3>1, <3>2, <3>3, <3>4 DEF ReplicationTypeOK, ClusterTypeOK
  <2> QED
    BY <2>1, <2>2
<1> HIDE DEF Still
<1>n. ASSUME rm' = NextObject, rm.pc \notin WorkPc, Still,
             NoFault \/ Inject("db") \/ (\E n : CallFails(n))
      PROVE  Goal
  BY <1>0, <1>n, NextObjectOwned DEF WorkPc
<1>1. CASE ReconcileTick
  <2>1. rm' = [rm EXCEPT !.pc = "objects", !.objs = {o \in Object : Exists(o)}]
        /\ rm.pc = "idle" /\ UNCHANGED clusterVars
    BY <1>1 DEF ReconcileTick, RMAt
  <2> DEFINE S == {o \in Object : Exists(o)}
  <2> HIDE DEF S
  <2>2. S \subseteq Object
    BY DEF S
  <2>3. rm' = [rm EXCEPT !.pc = "objects", !.objs = S]
    BY <2>1 DEF S
  <2>4. RMTypeOK' /\ rm'.pc = "objects" /\ rm'.objs = S /\ rm'.obj = rm.obj
    BY <1>0, <2>2, <2>3 DEF RMTypeOK, RMPc
  <2>5. Picked
    BY <2>4 DEF Picked, S
  <2> QED
    BY <1>f, <2>1, <2>4, <2>5, NoPlans DEF OwnVariables, WorkPc, Planless
<1>2. CASE ReconcileDone
  <2>1. rm.pc = "objects" /\ rm' = RMIdle /\ UNCHANGED clusterVars
    BY <1>2 DEF ReconcileDone, RMAt
  <2>2. RMTypeOK' /\ rm'.pc = "idle" /\ rm'.objs = {} /\ rm'.obj = NoObject
    BY <2>1 DEF RMIdle, RMTypeOK, RMPc
  <2> QED
    BY <1>f, <2>1, <2>2, NoPlans DEF OwnVariables, WorkPc, Planless, Picked
<1>3. CASE TakeObject
  <2>1. PICK o \in rm.objs :
          rm' = [rm EXCEPT !.pc = "object", !.objs = @ \ {o}, !.obj = o]
    BY <1>3 DEF TakeObject
  <2>2. RMTypeOK' /\ rm'.pc = "object" /\ rm'.obj = o /\ rm'.objs = rm.objs \ {o}
        /\ o \in Object
    BY <1>0, <2>1 DEF RMTypeOK, RMPc
  <2>3. rm.pc = "objects" /\ UNCHANGED clusterVars
    BY <1>3 DEF TakeObject, RMAt
  <2> QED
    BY <1>f, <2>2, <2>3, NoPlans DEF OwnVariables, WorkPc, Planless, Picked
<1>4. CASE LoadObject
  <2>1. rm.pc = "object" /\ UNCHANGED clusterVars /\ rm.obj \in Object
    BY <1>4 DEF LoadObject, RMAt, OwnVariables
  <2>2. CASE Exists(rm.obj)
    <3>1. rm' = [rm EXCEPT !.pc = "tier", !.seen = factor[rm.obj]]
      BY <1>4, <2>2 DEF LoadObject
    <3>2. RMTypeOK' /\ rm'.pc = "tier" /\ rm'.obj = rm.obj /\ rm'.objs = rm.objs
      BY <1>0, <2>1, <3>1 DEF RMTypeOK, RMPc
    <3> QED
      BY <1>f, <2>1, <3>2, NoPlans DEF OwnVariables, WorkPc, Planless, Picked
  <2>3. CASE ~Exists(rm.obj)
    BY <1>4, <1>n, <1>f, <2>1, <2>3 DEF LoadObject, WorkPc
  <2> QED
    BY <2>2, <2>3
<1>5. CASE ReadTier
  <2>1. PICK f \in {MinRF, DefaultRF, MaxRF} :
          rm' = [rm EXCEPT !.pc = "count", !.target = f]
    BY <1>5, FactorsAre DEF ReadTier
  <2>2. f \in Nat /\ rm.pc = "tier" /\ UNCHANGED clusterVars
    BY <1>5, FactorsAre DEF ReadTier, RMAt
  <2>3. /\ RMTypeOK' /\ rm'.pc = "count" /\ rm'.obj = rm.obj /\ rm'.target = f
        /\ rm'.objs = rm.objs
    BY <1>0, <2>1, <2>2 DEF RMTypeOK, RMPc
  <2> QED
    BY <1>f, <2>2, <2>3, NoPlans DEF OwnVariables, WorkPc, Planless, Picked
<1>6. CASE Compare
  <2> DEFINE count == CountHealthyReplicas(rm.obj)
             left == PruneExcess(count, rm.target)
  <2>1. count \in Nat /\ rm.target \in Nat /\ rm.target >= MinRF /\ MinRF \in Nat
        /\ rm.pc = "count" /\ rm.obj \in Object
        /\ rm.target \in {MinRF, DefaultRF, MaxRF}
    BY <1>6, HealthyCount, FactorsAre DEF Compare, RMAt, OwnVariables
  <2>2. UNCHANGED clusterVars
    BY <1>6 DEF Compare
  <2>3. \/ count < rm.target /\ rm' = [rm EXCEPT !.pc = "upRows", !.count = count]
        \/ count > rm.target /\ rm' = [rm EXCEPT !.pc = "downList", !.count = count,
                                                 !.left = left]
        \/ rm' = [rm EXCEPT !.pc = "sync"]
        \/ rm' = NextObject
    BY <1>6, <2>1 DEF Compare
  <2>4. count > rm.target => left \in Nat
    BY <2>1 DEF PruneExcess
  <2> HIDE DEF count, left
  <2>5. CASE rm' = NextObject
    BY <1>n, <1>f, <2>1, <2>2, <2>5 DEF WorkPc
  <2>6. CASE rm' # NextObject
    <3>1. /\ RMTypeOK' /\ rm'.pc \in {"upRows", "downList", "sync"}
          /\ rm'.obj = rm.obj /\ rm'.target = rm.target /\ rm'.objs = rm.objs
      BY <1>0, <2>1, <2>3, <2>4, <2>6 DEF RMTypeOK, RMPc
    <3> QED
      BY <1>f, <2>1, <2>2, <3>1, NoPlans DEF OwnVariables, WorkPc, Planless, Picked
  <2> QED
    BY <2>5, <2>6
<1>7. CASE SyncFactor \/ ScaledUp \/ ScaledDown
  <2>1. PICK f \in Int : WriteFactor(f)
    BY <1>0, <1>7, FactorsAre
    DEF SyncFactor, ScaledUp, ScaledDown, OwnVariables, RMAt, RMTypeOK
  <2>2. rm.pc \in {"sync", "upFactor", "downFactor"}
    BY <1>7 DEF SyncFactor, ScaledUp, ScaledDown, RMAt
  <2>3. rm' = NextObject
    BY <2>1 DEF WriteFactor
  <2> QED
    BY <1>0, <2>1, <2>2, <2>3, NextObjectOwned DEF WorkPc
<1>8. CASE RMReadFails
  <2>1. /\ Inject("db") /\ Still
        /\ \/ rm.pc = "idle" /\ rm' = rm
           \/ /\ rm.pc \in {"object", "tier", "count", "upRows", "upPlace",
                            "upSources", "downList"}
              /\ rm' = NextObject
    BY <1>8 DEF RMReadFails, RMAt, Still
  <2>2. CASE rm' = NextObject
    BY <1>n, <2>1, <2>2 DEF WorkPc
  <2>3. CASE rm' = rm /\ rm.pc = "idle"
    <3>1. RMTypeOK' /\ rm'.pc = "idle" /\ rm'.obj = rm.obj /\ rm'.objs = rm.objs
      BY <1>0, <2>3 DEF RMTypeOK
    <3> QED
      BY <2>1, <2>3, <3>1, NoPlans DEF OwnVariables, WorkPc, Planless, Picked
  <2> QED
    BY <2>1, <2>2, <2>3
<1>9. CASE ListRows
  <2>1. /\ rm' = [rm EXCEPT !.pc = "upPlace", !.nodes = ReplicaRows(rm.obj)]
        /\ rm.pc = "upRows" /\ UNCHANGED clusterVars
        /\ ReplicaRows(rm.obj) \subseteq Node
    BY <1>9 DEF ListRows, RMAt, ReplicaRows
  <2>2. /\ RMTypeOK' /\ rm'.pc = "upPlace" /\ rm'.nodes = ReplicaRows(rm.obj)
        /\ rm'.obj = rm.obj /\ rm'.target = rm.target /\ rm'.objs = rm.objs
    BY <1>0, <2>1 DEF RMTypeOK, RMPc
  <2>3. Planned
    BY <2>2 DEF Planned, Endangered, Candidate, Condemned, ReplicaRows
  <2> QED
    BY <1>f, <2>1, <2>2, <2>3 DEF OwnVariables, WorkPc, Picked
<1>10. CASE SelectDestinations
  <2>1. /\ rm.pc = "upPlace" /\ UNCHANGED clusterVars
        /\ \/ rm' = NextObject
           \/ \E S \in SelectNodes(rm.target - rm.count, rm.nodes) :
                rm' = [rm EXCEPT !.pc = "upSources", !.nodes = {}, !.dests = S]
    BY <1>10 DEF SelectDestinations, RMAt
  <2>2. CASE rm' = NextObject
    BY <1>n, <1>f, <2>1, <2>2 DEF WorkPc
  <2>3. CASE rm' # NextObject
    <3>1. PICK S \in SelectNodes(rm.target - rm.count, rm.nodes) :
                rm' = [rm EXCEPT !.pc = "upSources", !.nodes = {}, !.dests = S]
      BY <2>1, <2>3
    <3>2. S \subseteq Node /\ \A n \in S : n \notin rm.nodes
      BY DEF SelectNodes, OnlineNodes
    <3>3. RMTypeOK' /\ rm'.pc = "upSources" /\ rm'.obj = rm.obj /\ rm'.dests = S
          /\ rm'.objs = rm.objs
      BY <1>0, <3>1, <3>2 DEF RMTypeOK, RMPc
    <3>4. Planned
      BY <2>1, <3>2, <3>3 DEF Planned, Endangered, Candidate, Condemned
    <3> QED
      BY <1>f, <2>1, <3>3, <3>4 DEF OwnVariables, WorkPc, Picked
  <2> QED
    BY <2>2, <2>3
<1>11. CASE ListSources
  <2>1. /\ rm.pc = "upSources" /\ UNCHANGED clusterVars
        /\ \/ rm' = NextObject
           \/ rm' = [rm EXCEPT !.pc = "upFetch", !.nodes = HealthyReplicas(rm.obj)]
    BY <1>11 DEF ListSources, RMAt
  <2>2. CASE rm' = NextObject
    BY <1>n, <1>f, <2>1, <2>2 DEF WorkPc
  <2>3. CASE rm' # NextObject
    <3>1. HealthyReplicas(rm.obj) \in SUBSET Node
      BY HealthyCount
    <3>2. /\ RMTypeOK' /\ rm'.pc = "upFetch" /\ rm'.obj = rm.obj
          /\ rm'.dests = rm.dests /\ rm'.objs = rm.objs
      BY <1>0, <2>1, <2>3, <3>1 DEF RMTypeOK, RMPc
    <3>3. Planned
      BY <2>1, <3>2 DEF Planned, Endangered, Candidate, Condemned
    <3> QED
      BY <1>f, <2>1, <3>2, <3>3 DEF OwnVariables, WorkPc, Picked
  <2> QED
    BY <2>2, <2>3
<1>12. CASE FetchCopy
  <2>1. PICK n \in rm.nodes :
        \/ /\ FetchVerified(rm.obj, n)
           /\ rm' = IF rm.obj \in EmptyObject THEN NextObject
                    ELSE [rm EXCEPT !.pc = "upPush", !.nodes = {}]
        \/ /\ FetchUnusable(rm.obj, n) \/ Inject("db")
           /\ rm' = [rm EXCEPT !.nodes = @ \ {n}]
    BY <1>12 DEF FetchCopy
  <2>2. rm.pc = "upFetch" /\ Still
    BY <1>12 DEF FetchCopy, RMAt, Still
  <2>3. NoFault \/ Inject("db") \/ (\E m : CallFails(m))
    BY <2>1 DEF FetchVerified, FetchUnusable
  <2>4. \/ rm' = NextObject \/ rm' = [rm EXCEPT !.pc = "upPush", !.nodes = {}]
        \/ rm' = [rm EXCEPT !.nodes = @ \ {n}]
    BY <2>1
  <2>5. CASE rm' = NextObject
    BY <1>n, <2>2, <2>3, <2>5 DEF WorkPc
  <2>6. CASE rm' # NextObject
    <3>1. /\ RMTypeOK' /\ rm'.pc \in {"upPush", "upFetch"} /\ rm'.obj = rm.obj
          /\ rm'.dests = rm.dests /\ rm'.objs = rm.objs
      BY <1>0, <2>2, <2>4, <2>6 DEF RMTypeOK, RMPc
    <3>2. Planned
      BY <2>2, <3>1 DEF Planned, Endangered, Candidate, Condemned
    <3> QED
      BY <2>2, <2>3, <3>1, <3>2 DEF OwnVariables, WorkPc, Picked
  <2> QED
    BY <2>5, <2>6
<1>13. CASE NoCopyFetched
  <2>1. rm.pc = "upFetch" /\ rm' = NextObject /\ UNCHANGED clusterVars
    BY <1>13 DEF NoCopyFetched, RMAt
  <2> QED
    BY <1>n, <1>f, <2>1 DEF WorkPc
<1>14. CASE AllPushed \/ AllPruned
  <2>1. /\ rm.pc \in {"upPush", "downCheck"} /\ UNCHANGED clusterVars
        /\ \/ rm' = NextObject
           \/ \E pc \in {"upFactor", "downFactor"} : rm' = [rm EXCEPT !.pc = pc]
    BY <1>14 DEF AllPushed, AllPruned, RMAt
  <2>2. CASE rm' = NextObject
    BY <1>n, <1>f, <2>1, <2>2 DEF WorkPc
  <2>3. CASE rm' # NextObject
    <3>1. /\ RMTypeOK' /\ rm'.pc \in {"upFactor", "downFactor"} /\ rm'.obj = rm.obj
          /\ rm'.objs = rm.objs
      BY <1>0, <2>1, <2>3 DEF RMTypeOK, RMPc
    <3> QED
      BY <1>f, <2>1, <3>1, NoPlans DEF OwnVariables, WorkPc, Planless, Picked
  <2> QED
    BY <2>2, <2>3
<1>15. CASE ListCandidates
  <2>1. /\ rm.pc = "downList" /\ UNCHANGED clusterVars
        /\ \/ rm' = NextObject
           \/ rm' = [rm EXCEPT !.pc = "downCheck", !.nodes = HealthyReplicas(rm.obj)]
    BY <1>15 DEF ListCandidates, RMAt
  <2>2. CASE rm' = NextObject
    BY <1>n, <1>f, <2>1, <2>2 DEF WorkPc
  <2>3. CASE rm' # NextObject
    <3>1. HealthyReplicas(rm.obj) \in SUBSET Node
      BY HealthyCount
    <3>2. /\ RMTypeOK' /\ rm'.pc = "downCheck" /\ rm'.obj = rm.obj
          /\ rm'.nodes = HealthyReplicas(rm.obj) /\ rm'.objs = rm.objs
      BY <1>0, <2>1, <2>3, <3>1 DEF RMTypeOK, RMPc
    <3>3. Planned
      BY <3>2 DEF Planned, Endangered, Candidate, Condemned, HealthyReplicas, RowsWith
    <3> QED
      BY <1>f, <2>1, <3>2, <3>3 DEF OwnVariables, WorkPc, Picked
  <2> QED
    BY <2>2, <2>3
<1> QED
  BY <1>1, <1>2, <1>3, <1>4, <1>5, <1>6, <1>7, <1>8, <1>9, <1>10, <1>11, <1>12,
     <1>13, <1>14, <1>15 DEF ReadStep

-----------------------------------------------------------------------------
(* The steps of the manager that pick a replica, call a node or write a    *)
(* row.                                                                    *)

ScalerTyped == ReplicationTypeOK' /\ OwnVariables' /\ faults'["rot"] = faults["rot"]
SameObject == rm'.obj = rm.obj /\ rm'.objs = rm.objs /\ rm.obj \in Object

LEMMA CheckShape ==
    ASSUME ReplicationTypeOK, OwnVariables, CheckRemaining
    PROVE  /\ ScalerTyped /\ SameObject /\ Costs(0)
           /\ UNCHANGED <<factor, replica, disk, late, listed>>
           /\ rm.pc = "downCheck"
           /\ \/ rm'.pc = "downCheck" /\ rm'.nodes = rm.nodes
              \/ /\ rm'.pc = "downPurge" /\ rm'.node \in rm.nodes
                 /\ rm'.nodes = rm.nodes \ {rm'.node} /\ rm'.node \in Node
                 /\ CountHealthyReplicas(rm.obj) > MinRF
<1>0. ClusterTypeOK /\ RMTypeOK /\ faults \in [FaultKind -> Nat]
  BY DEF ReplicationTypeOK, ClusterTypeOK
<1>1. rm.pc = "downCheck" /\ rm.left > 0 /\ rm.obj \in Object
      /\ UNCHANGED <<factor, replica, nodeStatus, disk, late, listed>>
  BY DEF CheckRemaining, RMAt, OwnVariables
<1>2. NoFault \/ Inject("db")
  BY DEF CheckRemaining
<1>3. Costs(0) /\ faults'["rot"] = faults["rot"]
  BY <1>0, <1>2, NoCost, PaidStep, CountsTyped
<1>4. ClusterTypeOK'
  BY <1>0, <1>1, <1>3 DEF Costs, Counted, ClusterTypeOK
<1>5. \/ \E n \in rm.nodes :
            /\ CountHealthyReplicas(rm.obj) > MinRF
            /\ rm' = [rm EXCEPT !.pc = "downPurge", !.nodes = @ \ {n},
                                !.node = n, !.left = @ - 1]
      \/ rm' = [rm EXCEPT !.left = 0]
  BY DEF CheckRemaining
<1>6. CASE rm' = [rm EXCEPT !.left = 0]
  <2>1. RMTypeOK' /\ SameObject /\ rm'.pc = "downCheck" /\ rm'.nodes = rm.nodes
    BY <1>0, <1>1, <1>6 DEF RMTypeOK, SameObject
  <2> QED
    BY <1>1, <1>3, <1>4, <2>1 DEF ScalerTyped, ReplicationTypeOK, OwnVariables, SameObject
<1>7. ASSUME NEW n \in rm.nodes,
             CountHealthyReplicas(rm.obj) > MinRF,
             rm' = [rm EXCEPT !.pc = "downPurge", !.nodes = @ \ {n},
                              !.node = n, !.left = @ - 1]
      PROVE  /\ RMTypeOK' /\ OwnVariables' /\ SameObject
             /\ rm'.pc = "downPurge" /\ rm'.node \in rm.nodes /\ rm'.node \in Node
             /\ rm'.nodes = rm.nodes \ {rm'.node}
  <2>1. n \in Node /\ rm.left - 1 \in Nat
    BY <1>0, <1>1 DEF RMTypeOK
  <2>2. /\ RMTypeOK' /\ SameObject /\ rm'.pc = "downPurge" /\ rm'.node = n
        /\ rm'.nodes = rm.nodes \ {n}
    BY <1>0, <1>1, <1>7, <2>1 DEF RMTypeOK, RMPc, SameObject
  <2> QED
    BY <2>1, <2>2 DEF OwnVariables, SameObject
<1> QED
  BY <1>1, <1>3, <1>4, <1>5, <1>6, <1>7 DEF ScalerTyped, ReplicationTypeOK

LEMMA PushShape ==
    ASSUME ReplicationTypeOK, OwnVariables, PushCopy
    PROVE  /\ ScalerTyped /\ SameObject
           /\ UNCHANGED <<factor, replica, listed>> /\ rm.pc = "upPush"
           /\ \E n \in Node :
                /\ n \in rm.dests /\ rm'.dests = rm.dests \ {n}
                /\ CallOutcome(rm.obj, n, "store")
                /\ \/ /\ rm'.pc = "upInsert" /\ rm'.node = n
                      /\ disk'[rm.obj][n] = "good" /\ late' = late
                   \/ rm'.pc = "upPush"
<1>0. ClusterTypeOK /\ RMTypeOK /\ faults \in [FaultKind -> Nat]
  BY DEF ReplicationTypeOK, ClusterTypeOK
<1>1. rm.pc = "upPush" /\ rm.obj \in Object
      /\ UNCHANGED <<factor, replica, nodeStatus, listed>>
  BY DEF PushCopy, RMAt, OwnVariables
<1>2. PICK n \in rm.dests :
        \/ /\ StoreChunk(rm.obj, n)
           /\ rm' = [rm EXCEPT !.pc = "upInsert", !.dests = @ \ {n}, !.node = n]
        \/ /\ StoreChunkFails(rm.obj, n)
           /\ rm' = [rm EXCEPT !.dests = @ \ {n}]
  BY DEF PushCopy
<1>3. n \in Node
  BY <1>0 DEF RMTypeOK
<1>4. CallOutcome(rm.obj, n, "store")
  BY <1>0, <1>1, <1>2, <1>3, StoreOutcome
<1>5. ClusterTypeOK' /\ faults'["rot"] = faults["rot"]
  BY <1>0, <1>1, <1>4 DEF CallOutcome, OneFile, Costs, Counted, ClusterTypeOK
<1>6. CASE rm' = [rm EXCEPT !.dests = @ \ {n}]
  <2>1. RMTypeOK' /\ SameObject /\ rm'.pc = "upPush" /\ rm'.dests = rm.dests \ {n}
    BY <1>0, <1>1, <1>6 DEF RMTypeOK, SameObject
  <2>2. OwnVariables'
    BY <2>1 DEF OwnVariables, SameObject
  <2> QED
    BY <1>1, <1>3, <1>4, <1>5, <2>1, <2>2 DEF ScalerTyped, ReplicationTypeOK
<1>7. CASE /\ StoreChunk(rm.obj, n)
           /\ rm' = [rm EXCEPT !.pc = "upInsert", !.dests = @ \ {n}, !.node = n]
  <2>1. disk'[rm.obj][n] = "good" /\ late' = late
    BY <1>0, <1>1, <1>3, <1>7, StoreOutcome
  <2>2. /\ RMTypeOK' /\ SameObject /\ rm'.pc = "upInsert" /\ rm'.dests = rm.dests \ {n}
        /\ rm'.node = n
    BY <1>0, <1>1, <1>3, <1>7 DEF RMTypeOK, RMPc, SameObject
  <2>3. OwnVariables'
    BY <1>3, <2>2 DEF OwnVariables, SameObject
  <2> QED
    BY <1>1, <1>3, <1>4, <1>5, <2>1, <2>2, <2>3 DEF ScalerTyped, ReplicationTypeOK
<1> QED
  BY <1>2, <1>6, <1>7

LEMMA InsertShape ==
    ASSUME ReplicationTypeOK, OwnVariables, InsertCopy
    PROVE  /\ ScalerTyped /\ SameObject
           /\ UNCHANGED <<factor, disk, late, listed>> /\ rm.pc = "upInsert"
           /\ rm'.dests = rm.dests /\ rm.node \in Node \ rm.dests
           /\ \/ /\ Costs(0) /\ UNCHANGED replica
                 /\ rm'.pc = "upUndo" /\ rm'.node = rm.node
              \/ /\ CanInsert(rm.obj, rm.node)
                 /\ SetRow(rm.obj, rm.node, "HEALTHY")
                 /\ \/ Costs(0) /\ rm'.pc = "upPush"
                    \/ Costs(1) /\ rm'.pc = "upUndo" /\ rm'.node = rm.node
<1>0. ClusterTypeOK /\ RMTypeOK /\ faults \in [FaultKind -> Nat]
  BY DEF ReplicationTypeOK, ClusterTypeOK
<1>1. rm.pc = "upInsert" /\ rm.obj \in Object /\ rm.node \in Node \ rm.dests
      /\ UNCHANGED <<factor, nodeStatus, disk, late, listed>>
  BY DEF InsertCopy, RMAt, OwnVariables
<1>2. ASSUME RMGo("upUndo")
      PROVE  /\ RMTypeOK' /\ OwnVariables' /\ SameObject /\ rm'.pc = "upUndo"
             /\ rm'.dests = rm.dests /\ rm'.node = rm.node
  <2>1. /\ RMTypeOK' /\ SameObject /\ rm'.pc = "upUndo"
        /\ rm'.dests = rm.dests /\ rm'.node = rm.node
    BY <1>0, <1>1, <1>2 DEF RMGo, RMTypeOK, RMPc, SameObject
  <2> QED
    BY <1>1, <2>1 DEF OwnVariables, SameObject
<1>3. ASSUME rm' = [rm EXCEPT !.pc = "upPush", !.node = NoNode, !.done = @ + 1]
      PROVE  /\ RMTypeOK' /\ OwnVariables' /\ SameObject /\ rm'.pc = "upPush"
             /\ rm'.dests = rm.dests
  <2>0. rm.done + 1 \in Nat
    BY <1>0 DEF RMTypeOK
  <2>1. RMTypeOK' /\ SameObject /\ rm'.pc = "upPush" /\ rm'.dests = rm.dests
    <3> DEFINE done == rm.done + 1
    <3>1. done \in Nat /\ rm' = [rm EXCEPT !.pc = "upPush", !.node = NoNode, !.done = done]
      BY <1>0, <1>3, <2>0 DEF RMTypeOK
    <3> HIDE DEF done
    <3> QED
      BY <1>0, <1>1, <3>1 DEF RMTypeOK, RMPc, SameObject
  <2> QED
    BY <2>1 DEF OwnVariables, SameObject
<1>4. CASE CanInsert(rm.obj, rm.node)
  <2>1. PICK out \in TxOutcome :
          /\ TxCost(out)
          /\ IF out = "rolledBack" THEN UNCHANGED replica
             ELSE SetRow(rm.obj, rm.node, "HEALTHY")
          /\ IF out = "committed"
             THEN rm' = [rm EXCEPT !.pc = "upPush", !.node = NoNode, !.done = @ + 1]
             ELSE RMGo("upUndo")
    BY <1>4 DEF InsertCopy
  <2>2. /\ Costs(0) /\ faults'["rot"] = faults["rot"]
        /\ out # "committed" => Costs(1)
    BY <1>0, <2>1, TxOutcomeCost
  <2>3. replica' \in [Object -> [Node -> RowStatus]]
    <3>1. UNCHANGED replica \/ SetRow(rm.obj, rm.node, "HEALTHY")
      BY <2>1
    <3> QED
      BY <1>0, <1>1, <3>1, RowSet DEF RowStatus, ClusterTypeOK
  <2>4. ClusterTypeOK'
    BY <1>0, <1>1, <2>2, <2>3 DEF ClusterTypeOK, Costs, Counted
  <2>5. CASE out = "committed"
    BY <1>1, <1>3, <1>4, <2>1, <2>2, <2>4, <2>5 DEF ScalerTyped, ReplicationTypeOK
  <2>6. CASE out = "rolledBack"
    BY <1>1, <1>2, <1>4, <2>1, <2>2, <2>4, <2>6 DEF ScalerTyped, ReplicationTypeOK
  <2>7. CASE out = "unacknowledged"
    BY <1>1, <1>2, <1>4, <2>1, <2>2, <2>4, <2>7 DEF ScalerTyped, ReplicationTypeOK
  <2> QED
    BY <2>5, <2>6, <2>7 DEF TxOutcome
<1>5. CASE ~CanInsert(rm.obj, rm.node)
  <2>1. RMGo("upUndo") /\ UNCHANGED replica /\ NoFault
    BY <1>5 DEF InsertCopy, NoFault
  <2>2. Costs(0) /\ faults'["rot"] = faults["rot"]
    BY <1>0, <2>1, NoCost
  <2>3. ClusterTypeOK'
    BY <1>0, <1>1, <2>1, <2>2 DEF ClusterTypeOK, Costs, Counted
  <2> QED
    BY <1>1, <1>2, <2>1, <2>2, <2>3 DEF ScalerTyped, ReplicationTypeOK
<1> QED
  BY <1>4, <1>5

LEMMA UndoShape ==
    ASSUME ReplicationTypeOK, OwnVariables, UndoCopy
    PROVE  /\ ScalerTyped /\ SameObject
           /\ UNCHANGED <<factor, replica, listed>>
           /\ rm.pc = "upUndo" /\ rm'.pc = "upPush"
           /\ rm'.dests = rm.dests /\ rm.node \in Node \ rm.dests
           /\ CallOutcome(rm.obj, rm.node, "delete")
<1>0. ClusterTypeOK /\ RMTypeOK /\ faults \in [FaultKind -> Nat]
  BY DEF ReplicationTypeOK, ClusterTypeOK
<1>1. rm.pc = "upUndo" /\ rm.obj \in Object /\ rm.node \in Node \ rm.dests
      /\ UNCHANGED <<factor, replica, nodeStatus, listed>>
      /\ rm' = [rm EXCEPT !.pc = "upPush", !.node = NoNode]
      /\ (DeleteChunk(rm.obj, rm.node) \/ DeleteChunkFails(rm.obj, rm.node))
  BY DEF UndoCopy, RMAt, OwnVariables
<1>2. CallOutcome(rm.obj, rm.node, "delete")
  BY <1>0, <1>1, DeleteOutcome
<1>3. ClusterTypeOK' /\ faults'["rot"] = faults["rot"]
  BY <1>0, <1>1, <1>2 DEF CallOutcome, OneFile, Costs, Counted, ClusterTypeOK
<1>4. RMTypeOK' /\ SameObject /\ rm'.pc = "upPush" /\ rm'.dests = rm.dests
  BY <1>0, <1>1 DEF RMTypeOK, RMPc, SameObject
<1>5. OwnVariables'
  BY <1>4 DEF OwnVariables, SameObject
<1> QED
  BY <1>1, <1>2, <1>3, <1>4, <1>5 DEF ScalerTyped, ReplicationTypeOK

LEMMA PurgeShape ==
    ASSUME ReplicationTypeOK, OwnVariables, PurgeChunk
    PROVE  /\ ScalerTyped /\ SameObject
           /\ UNCHANGED <<factor, replica, listed>>
           /\ rm.pc = "downPurge" /\ rm'.pc = "downDrop"
           /\ rm'.nodes = rm.nodes /\ rm.node \in Node \ rm.nodes
           /\ rm'.node = rm.node
           /\ CallOutcome(rm.obj, rm.node, "delete")
<1>0. ClusterTypeOK /\ RMTypeOK /\ faults \in [FaultKind -> Nat]
  BY DEF ReplicationTypeOK, ClusterTypeOK
<1>1. rm.pc = "downPurge" /\ rm.obj \in Object /\ rm.node \in Node \ rm.nodes
      /\ UNCHANGED <<factor, replica, nodeStatus, listed>>
      /\ RMGo("downDrop")
      /\ \/ DeleteChunk(rm.obj, rm.node) \/ DeleteChunkFails(rm.obj, rm.node)
         \/ Inject("db") /\ UNCHANGED <<disk, late>>
  BY DEF PurgeChunk, RMAt, OwnVariables
<1>2. CallOutcome(rm.obj, rm.node, "delete")
  <2>1. CASE Inject("db") /\ UNCHANGED <<disk, late>>
    BY <1>0, <2>1, PaidStep, CountsTyped DEF CallOutcome, OneFile, ClusterTypeOK
  <2> QED
    BY <1>0, <1>1, <2>1, DeleteOutcome
<1>3. ClusterTypeOK' /\ faults'["rot"] = faults["rot"]
  BY <1>0, <1>1, <1>2 DEF CallOutcome, OneFile, Costs, Counted, ClusterTypeOK
<1>4. RMTypeOK' /\ SameObject /\ rm'.pc = "downDrop" /\ rm'.nodes = rm.nodes
      /\ rm'.node = rm.node
  BY <1>0, <1>1 DEF RMTypeOK, RMPc, SameObject, RMGo
<1>5. OwnVariables'
  BY <1>1, <1>4 DEF OwnVariables, SameObject
<1> QED
  BY <1>1, <1>2, <1>3, <1>4, <1>5 DEF ScalerTyped, ReplicationTypeOK

LEMMA DropShape ==
    ASSUME ReplicationTypeOK, OwnVariables, DropRow
    PROVE  /\ ScalerTyped /\ SameObject
           /\ UNCHANGED <<factor, disk, late>>
           /\ rm.pc = "downDrop" /\ rm'.pc = "downCheck"
           /\ rm'.nodes = rm.nodes /\ rm.node \in Node \ rm.nodes
           /\ \/ Costs(0) /\ DeleteRow(rm.obj, rm.node)
              \/ /\ Costs(0) /\ UNCHANGED <<replica, listed>>
                 /\ replica[rm.obj][rm.node] = "NONE"
              \/ Costs(1) /\ UNCHANGED <<replica, listed>>
<1>0. ClusterTypeOK /\ RMTypeOK /\ faults \in [FaultKind -> Nat]
  BY DEF ReplicationTypeOK, ClusterTypeOK
<1>1. rm.pc = "downDrop" /\ rm.obj \in Object /\ rm.node \in Node \ rm.nodes
      /\ UNCHANGED <<factor, nodeStatus, disk, late>>
  BY DEF DropRow, RMAt, OwnVariables
<1> DEFINE failed == [rm EXCEPT !.pc = "downCheck", !.node = NoNode]
<1>2. ASSUME \/ rm' = failed \/ rm' = [failed EXCEPT !.done = @ + 1]
      PROVE  /\ RMTypeOK' /\ OwnVariables' /\ SameObject /\ rm'.pc = "downCheck"
             /\ rm'.nodes = rm.nodes
  <2>1. RMTypeOK' /\ SameObject /\ rm'.pc = "downCheck" /\ rm'.nodes = rm.nodes
    <3>1. CASE rm' = failed
      BY <1>0, <1>1, <3>1 DEF RMTypeOK, RMPc, SameObject
    <3>2. CASE rm' = [failed EXCEPT !.done = @ + 1]
      <4> DEFINE done == rm.done + 1
      <4>1. done \in Nat
            /\ rm' = [rm EXCEPT !.pc = "downCheck", !.node = NoNode, !.done = done]
        BY <1>0, <3>2 DEF RMTypeOK
      <4> HIDE DEF done
      <4> QED
        BY <1>0, <1>1, <4>1 DEF RMTypeOK, RMPc, SameObject
    <3> QED
      BY <1>2, <3>1, <3>2
  <2> QED
    BY <2>1 DEF OwnVariables, SameObject
<1>4. CASE replica[rm.obj][rm.node] # "NONE"
  <2>1. PICK out \in TxOutcome :
          /\ TxCost(out)
          /\ IF out = "rolledBack" THEN UNCHANGED <<replica, listed>>
             ELSE DeleteRow(rm.obj, rm.node)
          /\ rm' = IF out = "committed" THEN [failed EXCEPT !.done = @ + 1] ELSE failed
    BY <1>4 DEF DropRow
  <2>2. /\ Costs(0) /\ faults'["rot"] = faults["rot"]
        /\ out # "committed" => Costs(1)
    BY <1>0, <2>1, TxOutcomeCost
  <2>3. replica' \in [Object -> [Node -> RowStatus]] /\ listed' \subseteq Object \X Node
    <3>1. CASE UNCHANGED <<replica, listed>>
      BY <1>0, <3>1 DEF ClusterTypeOK
    <3>2. CASE DeleteRow(rm.obj, rm.node)
      <4>1. SetRow(rm.obj, rm.node, "NONE") /\ "NONE" \in RowStatus
            /\ listed' \subseteq listed
        BY <3>2 DEF DeleteRow, RowStatus
      <4> QED
        BY <1>0, <1>1, <4>1, RowSet DEF ClusterTypeOK
    <3> QED
      BY <2>1, <3>1, <3>2
  <2>4. ClusterTypeOK'
    BY <1>0, <1>1, <2>2, <2>3 DEF ClusterTypeOK, Costs, Counted
  <2>5. \/ rm' = failed \/ rm' = [failed EXCEPT !.done = @ + 1]
    BY <2>1
  <2>6. \/ Costs(0) /\ DeleteRow(rm.obj, rm.node)
        \/ Costs(1) /\ UNCHANGED <<replica, listed>>
    BY <2>1, <2>2
  <2> HIDE DEF failed
  <2> QED
    BY <1>1, <1>2, <2>2, <2>4, <2>5, <2>6 DEF ScalerTyped, ReplicationTypeOK
<1>5. CASE replica[rm.obj][rm.node] = "NONE"
  <2>1. rm' = failed /\ UNCHANGED <<replica, listed>> /\ NoFault
    BY <1>5 DEF DropRow, NoFault
  <2>2. Costs(0) /\ faults'["rot"] = faults["rot"]
    BY <1>0, <2>1, NoCost
  <2>3. ClusterTypeOK'
    BY <1>0, <1>1, <2>1, <2>2 DEF ClusterTypeOK, Costs, Counted
  <2> HIDE DEF failed
  <2> QED
    BY <1>1, <1>2, <1>5, <2>1, <2>2, <2>3 DEF ScalerTyped, ReplicationTypeOK
<1> QED
  BY <1>4, <1>5

-----------------------------------------------------------------------------
(* The steps of the self-healing engine among the others.                  *)

(* A row the sweep has listed and not yet come to: if it is still there,   *)
(* it is not written off, for only the engine does that.                   *)
ToHeal(o) ==
    \/ o \in she.rows
    \/ /\ o = she.obj
       /\ she.pc \in {"object", "count", "sources", "exclude", "place",
                      "fetch", "record"}
ListedRows ==
    /\ she.pc \notin {"idle", "nodes", "rows"} => she.obj \notin she.rows
    /\ \A o \in Object : ToHeal(o) /\ <<o, she.failed>> \in listed =>
         replica[o][she.failed] \in {"HEALTHY", "RECOVERING"}

(* It takes up rows that are there.                                        *)
Taken == /\ she'.rows \subseteq she.rows \cup {o \in Object : ReplicaRows(o) # {}}
         /\ she'.obj \in {she.obj, NoObject} \cup she.rows

LEMMA QuietCosts ==
    ASSUME SHTypeOK, QuietStep
    PROVE  Costs(0) /\ faults'["rot"] = faults["rot"]
<1>0. faults \in [FaultKind -> Nat]
  BY DEF SHTypeOK, ClusterTypeOK
<1>1. NoFault \/ Inject("db") \/ (\E n : CallFails(n))
  <2>1. CASE \/ HealTick \/ HealNode \/ HealDone \/ TakeRow \/ NodeHealed
             \/ ReadObject \/ CheckCount \/ FindSources \/ BuildExclusion
             \/ SelectDestination \/ FetchExhausted
    BY <2>1 DEF HealTick, HealNode, HealDone, TakeRow, NodeHealed, ReadObject,
                CheckCount, FindSources, BuildExclusion, SelectDestination,
                FetchExhausted, clusterVars, NoFault
  <2>2. CASE ReadFails
    BY <2>2 DEF ReadFails
  <2>3. CASE FetchSource
    BY <2>3 DEF FetchSource, FetchVerified, FetchUnusable
  <2> QED
    BY <2>1, <2>2, <2>3 DEF QuietStep
<1> QED
  BY <1>0, <1>1, NoCost, PaidStep, CallFailsCost, CountsTyped

LEMMA HealerReads ==
    ASSUME SHTypeOK, Locals, ListedRows, QuietStep
    PROVE  /\ SHTypeOK' /\ Locals' /\ ListedRows'
           /\ UNCHANGED <<factor, replica, disk, late>>
           /\ listed' \subseteq Object \X Node
           /\ Costs(0) /\ faults'["rot"] = faults["rot"]
           /\ ~InRecovery /\ ~InRecovery' /\ Taken
<1>1. /\ SHETypeOK' /\ Locals' /\ ~InRecovery'
      /\ UNCHANGED <<factor, replica, nodeStatus, disk, late>>
      /\ listed' \subseteq Object \X Node
      /\ Costs(0) /\ faults'["rot"] = faults["rot"]
  BY LocalsStep, QuietSteps, QuietPc, QuietCosts DEF QuietStep, SHEStep, SHEQuiet
<1>2. faults' \in [FaultKind -> Nat]
  BY <1>1 DEF Costs, Counted
<1>3. SHTypeOK'
  BY <1>1, <1>2 DEF SHTypeOK, ClusterTypeOK
<1> SUFFICES ListedRows' /\ ~InRecovery /\ Taken
  BY <1>1, <1>3
<1> USE DEF SHTypeOK, SHETypeOK, SHEPc, At, Go, InRecovery
<1> DEFINE Goal == ListedRows' /\ ~InRecovery /\ Taken
<1>n. ASSUME she' = NextRow, listed' = listed, ~InRecovery,
             she.pc \notin {"idle", "nodes"}
      PROVE  Goal
  <2>1. /\ she'.pc = "rows" /\ she'.obj = NoObject /\ she'.rows = she.rows
        /\ she'.failed = she.failed
    BY <1>n DEF NextRow
  <2> QED
    BY <1>1, <1>n, <2>1 DEF ListedRows, ToHeal, Taken
<1>s. ASSUME NEW pc \in {"count", "sources", "exclude", "place", "fetch", "record"},
             she'.pc = pc, she'.obj = she.obj, she'.rows = she.rows,
             she'.failed = she.failed, listed' = listed,
             she.pc \in {"object", "count", "sources", "exclude", "place", "fetch"}
      PROVE  Goal
  BY <1>1, <1>s DEF ListedRows, ToHeal, Taken
<1>2a. CASE HealTick \/ HealDone
  <2>1. /\ she.pc \in {"idle", "nodes"} /\ listed' = listed
        /\ \/ she' = she \/ she' = SHEIdle
           \/ she' = [she EXCEPT !.pc = "nodes", !.nodes = OfflineNodes]
    BY <1>2a DEF HealTick, HealDone, clusterVars
  <2>2. CASE she' = SHEIdle
    <3>1. she'.pc = "idle" /\ she'.rows = {} /\ she'.obj = NoObject
      BY <2>2 DEF SHEIdle
    <3> QED
      BY <1>1, <2>1, <3>1 DEF ListedRows, ToHeal, Taken
  <2>3. CASE she' # SHEIdle
    <3>1. /\ she'.pc \in {"idle", "nodes"} /\ she'.rows = she.rows
          /\ she'.obj = she.obj /\ she'.failed = she.failed
      BY <2>1, <2>3
    <3> QED
      BY <1>1, <2>1, <3>1 DEF ListedRows, ToHeal, Taken
  <2> QED
    BY <2>2, <2>3
<1>2b. CASE HealNode
  <2> DEFINE rows(n) == {o \in Object : replica[o][n] \in {"HEALTHY", "RECOVERING"}}
  <2>1. PICK n \in she.nodes :
          she' = [she EXCEPT !.pc = "rows", !.nodes = @ \ {n}, !.failed = n,
                             !.rows = rows(n)]
    BY <1>2b DEF HealNode
  <2>2. /\ she'.pc = "rows" /\ she'.failed = n /\ she'.rows = rows(n)
        /\ she'.obj = she.obj /\ she.pc = "nodes" /\ n \in Node
    <3> HIDE DEF rows
    <3> QED
      BY <1>2b, <2>1 DEF HealNode
  <2>3. \A o \in rows(n) : o \in Object /\ ReplicaRows(o) # {}
    BY <2>2 DEF ReplicaRows
  <2> QED
    BY <1>1, <2>2, <2>3 DEF ListedRows, ToHeal, Taken
<1>2c. CASE TakeRow
  <2>1. PICK o \in she.rows :
          she' = [she EXCEPT !.pc = "object", !.rows = @ \ {o}, !.obj = o]
    BY <1>2c DEF TakeRow
  <2>2. /\ she.pc = "rows" /\ listed' = listed
        /\ she'.pc = "object" /\ she'.rows = she.rows \ {o} /\ she'.obj = o
        /\ she'.failed = she.failed
    BY <1>2c, <2>1 DEF TakeRow, clusterVars
  <2> QED
    BY <1>1, <2>2 DEF ListedRows, ToHeal, Taken
<1>2d. CASE NodeHealed
  <2>1. /\ she.pc = "rows" /\ listed' = {} /\ she'.pc = "nodes"
        /\ she'.rows = she.rows /\ she'.obj = she.obj
    BY <1>2d DEF NodeHealed
  <2> QED
    BY <1>1, <2>1 DEF ListedRows, ToHeal, Taken
<1>2e. CASE ReadObject \/ CheckCount \/ FindSources \/ BuildExclusion
  <2>1. /\ she.pc \in {"object", "count", "sources", "exclude"} /\ listed' = listed
        /\ \/ she' = NextRow
           \/ /\ she'.obj = she.obj /\ she'.rows = she.rows
              /\ she'.failed = she.failed
              /\ she'.pc \in {"count", "sources", "exclude", "place"}
    BY <1>2e DEF ReadObject, CheckCount, FindSources, BuildExclusion, clusterVars
  <2> QED
    BY <1>n, <1>s, <2>1
<1>2f. CASE SelectDestination
  <2>1. she.pc = "place" /\ listed' = listed
    BY <1>2f DEF SelectDestination, clusterVars
  <2>2. CASE she' = NextRow
    BY <1>n, <2>1, <2>2
  <2>3. ASSUME NEW n \in Node,
               she' = [she EXCEPT !.pc = "fetch", !.exclude = {}, !.dest = n]
        PROVE  Goal
    <3>1. /\ she'.pc = "fetch" /\ she'.obj = she.obj /\ she'.rows = she.rows
          /\ she'.failed = she.failed
      BY <2>3
    <3> QED
      BY <1>s, <2>1, <3>1
  <2> QED
    BY <1>2f, <2>2, <2>3 DEF SelectDestination
<1>2g. CASE ReadFails
  <2>0. listed' = listed
    BY <1>2g DEF ReadFails
  <2>1. \/ she.pc = "idle" /\ she' = she
        \/ /\ she.pc = "nodes" /\ she'.pc = "nodes" /\ she'.rows = she.rows
           /\ she'.obj = she.obj /\ she'.failed = she.failed
        \/ /\ she.pc \in {"object", "count", "sources", "exclude", "place"}
           /\ she' = NextRow
    BY <1>2g DEF ReadFails
  <2>2. CASE she.pc \in {"idle", "nodes"}
    BY <1>1, <2>0, <2>1, <2>2 DEF ListedRows, ToHeal, Taken
  <2> QED
    BY <1>n, <2>0, <2>1, <2>2
<1>2h. CASE FetchSource \/ FetchExhausted
  <2>1. /\ she.pc = "fetch" /\ listed' = listed
        /\ \/ she' = NextRow
           \/ /\ she'.obj = she.obj /\ she'.rows = she.rows
              /\ she'.failed = she.failed /\ she'.pc \in {"fetch", "record"}
    BY <1>2h DEF FetchSource, FetchExhausted, clusterVars
  <2> QED
    BY <1>n, <1>s, <2>1
<1> QED
  BY <1>2a, <1>2b, <1>2c, <1>2d, <1>2e, <1>2f, <1>2g, <1>2h DEF QuietStep

HealerTyped == SHTypeOK' /\ Locals' /\ faults'["rot"] = faults["rot"]
SameRow == she'.rows = she.rows /\ she'.failed = she.failed

LEMMA HealerWrites ==
    ASSUME SHTypeOK, Locals,
           RecordRecovery \/ PushChunk \/ Compensate \/ Finalize
    PROVE  /\ HealerTyped /\ UNCHANGED <<factor, nodeStatus>>
           /\ she.obj \in Object /\ she.failed \in Node /\ she.dest \in Node
<1>1. SHETypeOK' /\ Locals'
  BY LocalsStep DEF SHEStep
<1>2. SHEFrame
  BY WritingSteps
<1> QED
  BY <1>1, <1>2 DEF SHEFrame, FaultStep, HealerTyped, SHTypeOK, ClusterTypeOK,
     Locals, RecordRecovery, PushChunk, Compensate, Finalize, At

LEMMA RecordShape ==
    ASSUME SHTypeOK, Locals, RecordRecovery
    PROVE  /\ UNCHANGED <<disk, late, listed>> /\ she.pc = "record"
           /\ SameRow
           /\ \/ Costs(0) /\ UNCHANGED replica /\ she'.pc = "rows"
                          /\ she'.obj = NoObject
              \/ /\ RowIsListed /\ CanInsert(she.obj, she.dest) /\ MarkLostAndInsert
                 /\ \/ /\ Costs(0) /\ she'.pc = "push"
                       /\ she'.obj = she.obj /\ she'.dest = she.dest
                    \/ Costs(1) /\ she'.pc = "rows" /\ she'.obj = NoObject
<1>0. faults \in [FaultKind -> Nat]
  BY DEF SHTypeOK, ClusterTypeOK
<1>1. she.pc = "record" /\ UNCHANGED <<disk, late, listed>>
  BY DEF RecordRecovery, At
<1>2. ASSUME she' = NextRow
      PROVE  SameRow /\ she'.pc = "rows" /\ she'.obj = NoObject
  BY <1>2 DEF NextRow, SHTypeOK, SHETypeOK, SameRow
<1>3. ASSUME Go("push")
      PROVE  SameRow /\ she'.pc = "push" /\ she'.obj = she.obj /\ she'.dest = she.dest
  BY <1>3 DEF Go, SHTypeOK, SHETypeOK, SameRow
<1>4. CASE RowIsListed /\ CanInsert(she.obj, she.dest)
  <2>1. PICK out \in TxOutcome :
          /\ TxCost(out)
          /\ IF out = "rolledBack" THEN UNCHANGED replica ELSE MarkLostAndInsert
          /\ IF out = "committed" THEN Go("push") ELSE she' = NextRow
    BY <1>4 DEF RecordRecovery
  <2>2. Costs(0) /\ (out # "committed" => Costs(1))
    BY <1>0, <2>1, TxOutcomeCost
  <2> QED
    BY <1>1, <1>2, <1>3, <1>4, <2>1, <2>2
<1>5. CASE ~(RowIsListed /\ CanInsert(she.obj, she.dest))
  <2>1. she' = NextRow /\ UNCHANGED replica /\ NoFault
    BY <1>5 DEF RecordRecovery, NoFault
  <2> QED
    BY <1>0, <1>1, <1>2, <2>1, NoCost
<1> QED
  BY <1>4, <1>5

LEMMA RefillShape ==
    ASSUME SHTypeOK, Locals, PushChunk
    PROVE  /\ UNCHANGED <<replica, listed>> /\ SameRow /\ she.pc = "push"
           /\ she'.obj = she.obj /\ she'.dest = she.dest
           /\ CallOutcome(she.obj, she.dest, "store")
           /\ \/ she'.pc = "compensate"
              \/ /\ she'.pc = "finalize"
                 /\ disk'[she.obj][she.dest] = "good" /\ late' = late
<1>0. ClusterTypeOK /\ she.obj \in Object /\ she.dest \in Node
  BY DEF SHTypeOK, Locals, PushChunk, At
<1>1. /\ she.pc = "push" /\ UNCHANGED <<replica, listed>>
      /\ \/ StoreChunk(she.obj, she.dest) /\ Go("finalize")
         \/ StoreChunkFails(she.obj, she.dest) /\ Go("compensate")
  BY DEF PushChunk, At
<1>2. \A pc : Go(pc) => /\ SameRow /\ she'.pc = pc /\ she'.obj = she.obj
                        /\ she'.dest = she.dest
  BY DEF Go, SHTypeOK, SHETypeOK, SameRow
<1> QED
  BY <1>0, <1>1, <1>2, StoreOutcome

LEMMA LastShape ==
    ASSUME SHTypeOK, Locals, NEW status \in {"LOST", "HEALTHY"},
           \/ status = "LOST" /\ Compensate
           \/ status = "HEALTHY" /\ Finalize
    PROVE  /\ UNCHANGED <<disk, late, listed>> /\ SameRow
           /\ she.pc = IF status = "LOST" THEN "compensate" ELSE "finalize"
           /\ she'.pc = "rows" /\ she'.obj = NoObject
           /\ \/ /\ replica[she.obj][she.dest] # "NONE"
                 /\ \/ Costs(0) /\ SetRow(she.obj, she.dest, status)
                    \/ Costs(1) /\ SetRow(she.obj, she.dest, status)
                    \/ Costs(1) /\ UNCHANGED replica
              \/ /\ replica[she.obj][she.dest] = "NONE"
                 /\ UNCHANGED replica /\ Costs(0)
<1>0. faults \in [FaultKind -> Nat]
  BY DEF SHTypeOK, ClusterTypeOK
<1>1. /\ UNCHANGED <<disk, late, listed>> /\ she' = NextRow
      /\ she.pc = IF status = "LOST" THEN "compensate" ELSE "finalize"
      /\ UpdateNewRow(status)
  BY DEF Compensate, Finalize, At
<1>2. SameRow /\ she'.pc = "rows" /\ she'.obj = NoObject
  BY <1>1 DEF NextRow, SHTypeOK, SHETypeOK, SameRow
<1>3. CASE replica[she.obj][she.dest] # "NONE"
  <2>1. PICK out \in TxOutcome :
          /\ TxCost(out)
          /\ IF out = "rolledBack" THEN UNCHANGED replica
             ELSE SetRow(she.obj, she.dest, status)
    BY <1>1, <1>3 DEF UpdateNewRow
  <2>2. Costs(0) /\ (out # "committed" => Costs(1))
    BY <1>0, <2>1, TxOutcomeCost
  <2> QED
    BY <1>1, <1>2, <1>3, <2>1, <2>2
<1>4. CASE replica[she.obj][she.dest] = "NONE"
  <2>1. UNCHANGED replica /\ NoFault
    BY <1>1, <1>4 DEF UpdateNewRow, NoFault
  <2> QED
    BY <1>0, <1>1, <1>2, <1>4, <2>1, NoCost
<1> QED
  BY <1>3, <1>4

-----------------------------------------------------------------------------
(* The requests among the others.                                          *)

RequestRec ==
    [pc: {"new", "done", "elsewhere"}
            \cup UploadPc \cup DeletePc \cup DownloadPc,
     obj: Object \cup {NoObject}, factor: Nat, todo: SUBSET Node,
     ok: SUBSET Node, gone: BOOLEAN, answer: Answer \cup {"none"}]
RequestTypes == ClusterTypeOK /\ req \in [Request -> RequestRec] /\ issued \subseteq Object

LEMMA RequestTypesAre == RequestTypes <=> ObjectAPITypeOK
BY DEF RequestTypes, RequestRec, ObjectAPITypeOK, APITypeOK

(* What a handler relies on in its own variables.                          *)
RecordOK(q) ==
    /\ q.pc \in UploadPc \cup DeletePc \cup DownloadPc => q.obj \in Object
    /\ q.pc \in UploadPc => q.factor # 0
    /\ q.pc \in DeletePc \cup DownloadPc \cup {"new"} => q.factor = 0
    /\ q.pc \in DeletePc => "delete" \in Kinds
    /\ q.pc # "done" => q.answer = "none"
    /\ q.pc = "new" => q.ok = {}
    /\ q.pc \in StorePc => q.ok \cap q.todo = {}
    /\ q.pc = "commit" => q.ok # {}
RecordsOK == \A r \in Request : RecordOK(req[r])

(* A handler goes on with its object: past a point of no return it comes   *)
(* to an answer that tells.                                                *)
Follows(q, rec) ==
    /\ rec.obj = q.obj /\ rec.factor = q.factor /\ q.pc # "done"
    /\ q.pc \in DeletePc => rec.pc \in DeletePc \/ rec.answer \in {"deleted", "failed"}
    /\ q.pc \in StorePc =>
         \/ rec.pc \in StorePc \cup {"cleanup"}
         \/ rec.answer = "failed"
         \/ q.pc = "commit" /\ rec.answer = "created"
    /\ q.pc = "cleanup" => rec.pc = "cleanup" \/ rec.answer = "failed"
    /\ rec.pc \in StorePc => q.pc \in StorePc

LEMMA BecomesWhat ==
    ASSUME RequestTypes, NEW r \in Request, NEW rec \in RequestRec, Becomes(r, rec)
    PROVE  /\ req' \in [Request -> RequestRec] /\ req'[r] = rec
           /\ \A s \in Request : s # r => req'[s] = req[s]
BY DEF Becomes, RequestTypes

LEMMA AnsweredWhat ==
    ASSUME RequestTypes, NEW r \in Request, NEW a \in Answer
    PROVE  LET rec == Answered(r, a) IN
           /\ rec \in RequestRec /\ rec.pc = "done" /\ rec.answer = a
           /\ rec.obj = req[r].obj /\ rec.factor = req[r].factor
           /\ RecordOK(rec)
<1> DEFINE rec == Answered(r, a)
<1>1. /\ rec \in RequestRec /\ rec.pc = "done" /\ rec.answer = a
      /\ rec.obj = req[r].obj /\ rec.factor = req[r].factor
  BY DEF Answered, RequestTypes, RequestRec
<1>2. RecordOK(rec)
  BY <1>1 DEF RecordOK, UploadPc, StorePc, DeletePc, DownloadPc
<1> QED
  BY <1>1, <1>2

(* The two steps that touch nothing but the record of the request.         *)
RequestStill == /\ UNCHANGED <<factor, replica, disk, late, listed>>
                /\ Costs(0) /\ faults'["rot"] = faults["rot"]

Places(r) ==
    /\ RequestStill /\ req[r].pc = "new"
    /\ req'[r].obj \in Object \ issued /\ issued' = issued \cup {req'[r].obj}
    /\ req'[r].pc = "store" /\ req'[r].ok = {}
Looks(r) ==
    /\ RequestStill /\ req[r].pc = "new" /\ UNCHANGED issued
    /\ req'[r].obj \in issued /\ req'[r].factor = 0
    /\ \/ req'[r].pc = "done"
       \/ Exists(req'[r].obj) /\ req'[r].pc \in {"listRows", "listHealthy"}
Goes(r) ==
    /\ RequestStill /\ UNCHANGED issued /\ Follows(req[r], req'[r])
    /\ req'[r].answer # "created"
    /\ req'[r].pc \in StorePc =>
         req'[r].ok = req[r].ok /\ req'[r].todo \subseteq req[r].todo
StoresOn(r, n) ==
    /\ UNCHANGED <<factor, replica, listed, issued>> /\ Follows(req[r], req'[r])
    /\ req[r].pc = "store" /\ req'[r].pc = "store"
    /\ n \in req[r].todo /\ req'[r].todo \subseteq req[r].todo \ {n}
    /\ CallOutcome(req[r].obj, n, "store")
    /\ \/ req'[r].ok = req[r].ok
       \/ /\ req'[r].ok = req[r].ok \cup {n}
          /\ disk'[req[r].obj][n] = "good" /\ late' = late
PurgesOn(r, n) ==
    /\ UNCHANGED <<factor, replica, listed, issued>> /\ Follows(req[r], req'[r])
    /\ req'[r].pc = req[r].pc /\ req[r].pc \in {"purge", "cleanup"}
    /\ CallOutcome(req[r].obj, n, "delete")
Commits(r) ==
    /\ UNCHANGED <<disk, late, listed, issued>> /\ Follows(req[r], req'[r])
    /\ req[r].pc = "commit" /\ Costs(0) /\ faults'["rot"] = faults["rot"]
    /\ \/ req'[r].pc = "cleanup" /\ UNCHANGED <<factor, replica>>
       \/ /\ factor' = [factor EXCEPT ![req[r].obj] = req[r].factor]
          /\ replica' = [replica EXCEPT ![req[r].obj] =
               [n \in Node |-> IF n \in req[r].ok THEN "HEALTHY" ELSE "NONE"]]
          /\ req'[r].pc \in {"done", "cleanup"}
Deletes(r) ==
    /\ UNCHANGED <<disk, late, issued>> /\ Follows(req[r], req'[r])
    /\ req[r].pc = "delete" /\ Costs(0) /\ faults'["rot"] = faults["rot"]
    /\ req'[r].pc = "done"
    /\ UNCHANGED <<factor, replica, listed>> \/ DeleteObjectRow(req[r].obj)

OneRequest(r) ==
    /\ RequestTypes' /\ RecordOK(req'[r])
    /\ \A s \in Request : s # r => req'[s] = req[s]

LEMMA StillKeepsTypes ==
    ASSUME RequestTypes, RequestStill, UNCHANGED nodeStatus
    PROVE  ClusterTypeOK'
BY DEF RequestTypes, ClusterTypeOK, RequestStill, Costs, Counted

LEMMA StillCosts ==
    ASSUME RequestTypes, UNCHANGED <<factor, replica, disk, late, listed>>,
           NoFault \/ Inject("db") \/ (\E n : CallFails(n))
    PROVE  RequestStill
BY NoCost, PaidStep, CallFailsCost, CountsTyped
DEF RequestTypes, ClusterTypeOK, RequestStill


LEMMA PlaceShape ==
    ASSUME RequestTypes, RecordsOK, NEW r \in Request, UploadPlace(r)
    PROVE  OneRequest(r) /\ (Places(r) \/ Goes(r))
<1>0. req[r].pc = "new" /\ RecordOK(req[r]) /\ req[r] \in RequestRec
  BY DEF UploadPlace, ReqAt, RecordsOK, RequestTypes
<1>1. PICK o \in Object \ issued, f \in Factors :
        LET answers == SelectNodes(f, {})
        IN  \/ /\ \/ answers = {} /\ NoFault
                  \/ Inject("db")
               /\ Becomes(r, Answered(r, "failed"))
               /\ UNCHANGED issued
            \/ \E S \in answers :
                 /\ Becomes(r, [req[r] EXCEPT !.pc = "store", !.obj = o,
                                              !.factor = f, !.todo = S])
                 /\ issued' = issued \cup {o}
                 /\ NoFault
  BY DEF UploadPlace
<1>2. UNCHANGED <<factor, replica, nodeStatus, disk, late, listed>>
  BY DEF UploadPlace
<1>3. RequestStill
  BY <1>1, <1>2, StillCosts
<1>4. ClusterTypeOK'
  BY <1>2, <1>3, StillKeepsTypes
<1>5. CASE Becomes(r, Answered(r, "failed")) /\ UNCHANGED issued
  <2> DEFINE rec == Answered(r, "failed")
  <2>1. /\ rec \in RequestRec /\ rec.pc = "done" /\ rec.answer = "failed"
        /\ rec.obj = req[r].obj /\ rec.factor = req[r].factor
        /\ RecordOK(rec)
    BY AnsweredWhat DEF Answer
  <2> HIDE DEF rec
  <2>2. /\ req' \in [Request -> RequestRec] /\ req'[r] = rec
        /\ \A s \in Request : s # r => req'[s] = req[s]
    BY <1>5, <2>1, BecomesWhat DEF rec
  <2>3. Follows(req[r], req'[r])
    BY <1>0, <2>1, <2>2 DEF Follows, StorePc, DeletePc
  <2> QED
    BY <1>3, <1>4, <1>5, <2>1, <2>2, <2>3 DEF OneRequest, Goes, RequestTypes, StorePc
<1>6. ASSUME NEW S \in SelectNodes(f, {}),
             Becomes(r, [req[r] EXCEPT !.pc = "store", !.obj = o,
                                       !.factor = f, !.todo = S]),
             issued' = issued \cup {o}
      PROVE  OneRequest(r) /\ Places(r)
  <2> DEFINE rec == [req[r] EXCEPT !.pc = "store", !.obj = o, !.factor = f, !.todo = S]
  <2>1. S \subseteq Node /\ f \in Nat /\ f # 0
    BY FactorAssumption DEF SelectNodes, OnlineNodes
  <2>2. /\ rec \in RequestRec /\ rec.pc = "store" /\ rec.obj = o /\ rec.factor = f
        /\ rec.ok = {} /\ rec.answer = "none" /\ rec.todo = S
    BY <1>0, <2>1 DEF RequestRec, RecordOK, UploadPc, StorePc
  <2> HIDE DEF rec
  <2>3. RecordOK(rec)
    BY <2>1, <2>2 DEF RecordOK, DeletePc, DownloadPc
  <2>4. /\ req' \in [Request -> RequestRec] /\ req'[r] = rec
        /\ \A s \in Request : s # r => req'[s] = req[s]
    BY <1>6, <2>2, BecomesWhat DEF rec
  <2>5. issued' \subseteq Object
    BY <1>6 DEF RequestTypes
  <2> QED
    BY <1>0, <1>3, <1>4, <1>6, <2>2, <2>3, <2>4, <2>5 DEF OneRequest, Places, RequestTypes
<1> QED
  BY <1>1, <1>5, <1>6

LEMMA LoadShape ==
    ASSUME RequestTypes, RecordsOK, NEW r \in Request,
           NEW pc \in {"listRows", "listHealthy"}, LoadOrNotFound(r, pc),
           pc = "listRows" => "delete" \in Kinds
    PROVE  OneRequest(r) /\ Looks(r)
<1>0. req[r].pc = "new" /\ RecordOK(req[r]) /\ req[r] \in RequestRec /\ req[r].factor = 0
      /\ req[r].answer = "none"
  BY DEF LoadOrNotFound, ReqAt, RecordsOK, RequestTypes, RecordOK
<1>1. PICK o \in issued :
        \/ /\ Exists(o) /\ NoFault
           /\ Becomes(r, [req[r] EXCEPT !.pc = pc, !.obj = o])
        \/ /\ \/ ~Exists(o) /\ NoFault
              \/ Inject("db")
           /\ Becomes(r, [Answered(r, "notFound") EXCEPT !.obj = o])
  BY DEF LoadOrNotFound
<1>2. UNCHANGED <<factor, replica, nodeStatus, disk, late, listed, issued>>
  BY DEF LoadOrNotFound
<1>3. RequestStill /\ o \in Object
  BY <1>1, <1>2, StillCosts DEF RequestTypes
<1>4. ClusterTypeOK' /\ issued' \subseteq Object
  BY <1>2, <1>3, StillKeepsTypes DEF RequestTypes
<1>5. CASE Exists(o) /\ Becomes(r, [req[r] EXCEPT !.pc = pc, !.obj = o])
  <2> DEFINE rec == [req[r] EXCEPT !.pc = pc, !.obj = o]
  <2>1. /\ rec \in RequestRec /\ rec.pc = pc /\ rec.obj = o /\ rec.factor = 0
        /\ rec.answer = "none"
    BY <1>0, <1>3 DEF RequestRec, DeletePc, DownloadPc
  <2> HIDE DEF rec
  <2>3. RecordOK(rec)
    BY <1>3, <2>1 DEF RecordOK, DeletePc, DownloadPc, UploadPc, StorePc
  <2>4. /\ req' \in [Request -> RequestRec] /\ req'[r] = rec
        /\ \A s \in Request : s # r => req'[s] = req[s]
    BY <1>5, <2>1, BecomesWhat DEF rec
  <2> QED
    BY <1>0, <1>2, <1>3, <1>4, <1>5, <2>1, <2>3, <2>4 DEF OneRequest, Looks, RequestTypes
<1>6. CASE Becomes(r, [Answered(r, "notFound") EXCEPT !.obj = o])
  <2> DEFINE rec == [Answered(r, "notFound") EXCEPT !.obj = o]
  <2>1. /\ rec \in RequestRec /\ rec.pc = "done" /\ rec.obj = o /\ rec.factor = 0
    BY <1>0, <1>3 DEF RequestRec, Answered, Answer
  <2> HIDE DEF rec
  <2>3. RecordOK(rec)
    BY <2>1 DEF RecordOK, DeletePc, DownloadPc, UploadPc, StorePc
  <2>4. /\ req' \in [Request -> RequestRec] /\ req'[r] = rec
        /\ \A s \in Request : s # r => req'[s] = req[s]
    BY <1>6, <2>1, BecomesWhat DEF rec
  <2> QED
    BY <1>0, <1>2, <1>3, <1>4, <2>1, <2>3, <2>4 DEF OneRequest, Looks, RequestTypes
<1> QED
  BY <1>1, <1>5, <1>6

LEMMA OneBecomes ==
    ASSUME RequestTypes, NEW r \in Request, NEW rec \in RequestRec, RecordOK(rec),
           Becomes(r, rec), ClusterTypeOK', UNCHANGED issued
    PROVE  OneRequest(r) /\ req'[r] = rec
BY BecomesWhat DEF OneRequest, RequestTypes

(* A request that is answered, or goes on with its next step, without      *)
(* having touched anything.                                                *)
LEMMA AnswerGoes ==
    ASSUME RequestTypes, NEW r \in Request, NEW a \in Answer,
           Becomes(r, Answered(r, a)), a # "created",
           req[r].pc \in UploadPc \cup DeletePc => a = "failed",
           req[r].pc # "done",
           RequestStill, UNCHANGED <<nodeStatus, issued>>
    PROVE  OneRequest(r) /\ Goes(r)
<1> DEFINE rec == Answered(r, a)
<1>1. /\ rec \in RequestRec /\ rec.pc = "done" /\ rec.answer = a
      /\ rec.obj = req[r].obj /\ rec.factor = req[r].factor /\ RecordOK(rec)
  BY AnsweredWhat
<1>2. Becomes(r, rec)
  OBVIOUS
<1> HIDE DEF rec
<1>3. OneRequest(r) /\ req'[r] = rec
  BY <1>1, <1>2, OneBecomes, StillKeepsTypes
<1>4. Follows(req[r], rec)
  BY <1>1 DEF Follows, UploadPc, StorePc, DeletePc
<1> QED
  BY <1>1, <1>3, <1>4 DEF Goes, StorePc

LEMMA RecordGoes ==
    ASSUME RequestTypes, NEW r \in Request, NEW rec \in RequestRec, RecordOK(rec),
           Becomes(r, rec), Follows(req[r], rec), rec.answer # "created",
           rec.pc \in StorePc => rec.ok = req[r].ok /\ rec.todo \subseteq req[r].todo,
           RequestStill, UNCHANGED <<nodeStatus, issued>>
    PROVE  OneRequest(r) /\ Goes(r)
<1>1. OneRequest(r) /\ req'[r] = rec
  BY OneBecomes, StillKeepsTypes
<1> QED
  BY <1>1 DEF Goes

LEMMA NothingStill ==
    ASSUME RequestTypes, UNCHANGED clusterVars
    PROVE  RequestStill /\ UNCHANGED nodeStatus
BY StillCosts DEF clusterVars, NoFault

LEMMA StoredShape ==
    ASSUME RequestTypes, RecordsOK, NEW r \in Request, UploadStored(r)
    PROVE  OneRequest(r) /\ Goes(r)
<1>0. /\ req[r].pc = "store" /\ RecordOK(req[r]) /\ req[r] \in RequestRec
      /\ req[r].todo = {} /\ UNCHANGED issued /\ UNCHANGED clusterVars
  BY DEF UploadStored, ReqAt, RecordsOK, RequestTypes
<1>1. RequestStill /\ UNCHANGED nodeStatus
  BY <1>0, NothingStill
<1>2. CASE req[r].ok = {}
  BY <1>0, <1>1, <1>2, AnswerGoes DEF UploadStored, Answer
<1>3. CASE req[r].ok # {}
  <2> DEFINE rec == [req[r] EXCEPT !.pc = "commit"]
  <2>1. /\ rec \in RequestRec /\ rec.pc = "commit" /\ rec.obj = req[r].obj
        /\ rec.factor = req[r].factor /\ rec.ok = req[r].ok /\ rec.todo = {}
        /\ rec.answer = req[r].answer
    BY <1>0 DEF RequestRec, UploadPc, StorePc
  <2>2. Becomes(r, rec)
    BY <1>3 DEF UploadStored
  <2> HIDE DEF rec
  <2>3. RecordOK(rec) /\ Follows(req[r], rec) /\ rec.answer # "created"
    BY <1>0, <1>3, <2>1 DEF RecordOK, Follows, UploadPc, StorePc, DeletePc, DownloadPc
  <2> QED
    BY <1>0, <1>1, <2>1, <2>2, <2>3, RecordGoes
<1> QED
  BY <1>2, <1>3

LEMMA CleanedShape ==
    ASSUME RequestTypes, RecordsOK, NEW r \in Request, UploadCleaned(r)
    PROVE  OneRequest(r) /\ Goes(r)
BY NothingStill, AnswerGoes DEF UploadCleaned, ReqAt, Answer

LEMMA DeleteReadShape ==
    ASSUME RequestTypes, RecordsOK, NEW r \in Request,
           DeleteListRows(r) \/ DeletePurged(r)
    PROVE  OneRequest(r) /\ Goes(r)
<1>1. PICK pc \in {"purge", "delete"}, rows \in SUBSET Node :
        Becomes(r, [req[r] EXCEPT !.pc = pc, !.todo = rows])
  <2>1. CASE DeleteListRows(r)
    BY <2>1 DEF DeleteListRows, ReplicaRows
  <2>2. CASE DeletePurged(r)
    <3>1. [req[r] EXCEPT !.pc = "delete"] =
            [req[r] EXCEPT !.pc = "delete", !.todo = req[r].todo]
      BY DEF RequestTypes, RequestRec
    <3>2. req[r].todo \subseteq Node
      BY DEF RequestTypes, RequestRec
    <3> QED
      BY <2>2, <3>1, <3>2 DEF DeletePurged
  <2> QED
    BY <2>1, <2>2
<1>2. /\ req[r].pc \in {"listRows", "purge"} /\ RecordOK(req[r]) /\ req[r] \in RequestRec
      /\ UNCHANGED issued
  BY DEF DeleteListRows, DeletePurged, ReqAt, RecordsOK, RequestTypes
<1>3. RequestStill /\ UNCHANGED nodeStatus
  <2>1. CASE DeleteListRows(r)
    BY <2>1, StillCosts DEF DeleteListRows
  <2>2. CASE DeletePurged(r)
    BY <2>2, NothingStill DEF DeletePurged
  <2> QED
    BY <2>1, <2>2
<1> DEFINE rec == [req[r] EXCEPT !.pc = pc, !.todo = rows]
<1>4. /\ rec \in RequestRec /\ rec.pc = pc /\ rec.obj = req[r].obj
      /\ rec.factor = req[r].factor /\ rec.answer = req[r].answer
  BY <1>2 DEF RequestRec, DeletePc
<1>5. Becomes(r, rec)
  BY <1>1
<1> HIDE DEF rec
<1>6. RecordOK(rec) /\ Follows(req[r], rec) /\ rec.answer # "created"
      /\ rec.pc \notin StorePc
  BY <1>2, <1>4 DEF RecordOK, Follows, UploadPc, StorePc, DeletePc, DownloadPc
<1> QED
  BY <1>2, <1>3, <1>4, <1>5, <1>6, RecordGoes

(* The record of a download that has listed its replicas or tried one.     *)
LEMMA DownloadGoes ==
    ASSUME RequestTypes, RecordsOK, NEW r \in Request,
           req[r].pc \in DownloadPc,
           NEW todo \in SUBSET Node, NEW gone \in BOOLEAN,
           Becomes(r, [req[r] EXCEPT !.pc = "fetch", !.todo = todo, !.gone = gone]),
           RequestStill, UNCHANGED <<nodeStatus, issued>>
    PROVE  OneRequest(r) /\ Goes(r)
<1>2. RecordOK(req[r]) /\ req[r] \in RequestRec
  BY DEF RecordsOK, RequestTypes
<1> DEFINE rec == [req[r] EXCEPT !.pc = "fetch", !.todo = todo, !.gone = gone]
<1>4. /\ rec \in RequestRec /\ rec.pc = "fetch" /\ rec.obj = req[r].obj
      /\ rec.factor = req[r].factor /\ rec.answer = req[r].answer
  BY <1>2 DEF RequestRec, DownloadPc
<1>5. Becomes(r, rec)
  OBVIOUS
<1> HIDE DEF rec
<1>6. RecordOK(rec) /\ Follows(req[r], rec) /\ rec.answer # "created"
      /\ rec.pc \notin StorePc
  BY <1>2, <1>4 DEF RecordOK, Follows, UploadPc, StorePc, DeletePc, DownloadPc
<1> QED
  BY <1>4, <1>5, <1>6, RecordGoes

LEMMA DownloadAnswers ==
    ASSUME RequestTypes, RecordsOK, NEW r \in Request,
           req[r].pc \in DownloadPc, NEW a \in Answer \ {"created"}, NEW gone \in BOOLEAN,
           Becomes(r, [Answered(r, a) EXCEPT !.gone = gone]),
           RequestStill, UNCHANGED <<nodeStatus, issued>>
    PROVE  OneRequest(r) /\ Goes(r)
<1> DEFINE rec == [Answered(r, a) EXCEPT !.gone = gone]
<1>1. /\ rec \in RequestRec /\ rec.pc = "done" /\ rec.answer = a
      /\ rec.obj = req[r].obj /\ rec.factor = req[r].factor
  BY AnsweredWhat DEF RequestRec
<1>2. Becomes(r, rec)
  OBVIOUS
<1> HIDE DEF rec
<1>4. Follows(req[r], rec) /\ RecordOK(rec) /\ rec.pc \notin StorePc
  BY <1>1 DEF RecordOK, Follows, UploadPc, StorePc, DeletePc, DownloadPc
<1> QED
  BY <1>1, <1>2, <1>4, RecordGoes

LEMMA DownloadShape ==
    ASSUME RequestTypes, RecordsOK, NEW r \in Request,
           DownloadListHealthy(r) \/ DownloadFetch(r) \/ DownloadExhausted(r)
    PROVE  OneRequest(r) /\ Goes(r)
<1>0. req[r].pc \in DownloadPc /\ req[r] \in RequestRec
  BY DEF DownloadListHealthy, DownloadFetch, DownloadExhausted, ReqAt, DownloadPc,
     RequestTypes
<1>1. CASE DownloadListHealthy(r)
  <2>1. RequestStill /\ UNCHANGED <<nodeStatus, issued>>
    BY <1>1, StillCosts DEF DownloadListHealthy
  <2>2. CASE Becomes(r, Answered(r, "unavailable"))
    <3>1. Answered(r, "unavailable") = [Answered(r, "unavailable") EXCEPT !.gone = req[r].gone]
          /\ req[r].gone \in BOOLEAN
      BY <1>0 DEF Answered, RequestRec
    <3> QED
      BY <1>0, <2>1, <2>2, <3>1, DownloadAnswers DEF Answer
  <2>3. CASE Becomes(r, [req[r] EXCEPT !.pc = "fetch", !.todo = HealthyReplicas(req[r].obj)])
    <3>1. HealthyReplicas(req[r].obj) \in SUBSET Node
      BY HealthyCount
    <3> DEFINE S == HealthyReplicas(req[r].obj)
    <3> HIDE DEF S
    <3>2. [req[r] EXCEPT !.pc = "fetch", !.todo = S] =
            [req[r] EXCEPT !.pc = "fetch", !.todo = S, !.gone = req[r].gone]
          /\ req[r].gone \in BOOLEAN
      BY <1>0 DEF RequestRec
    <3> QED
      BY <1>0, <2>1, <2>3, <3>1, <3>2, DownloadGoes DEF S
  <2> QED
    BY <1>1, <2>2, <2>3 DEF DownloadListHealthy
<1>2. CASE DownloadExhausted(r)
  <2>1. RequestStill /\ UNCHANGED <<nodeStatus, issued>>
    BY <1>2, NothingStill DEF DownloadExhausted
  <2>2. req[r].pc \notin UploadPc \cup DeletePc /\ req[r].pc # "done"
    BY <1>0 DEF DownloadPc, UploadPc, DeletePc, StorePc
  <2> QED
    BY <1>2, <2>1, <2>2, AnswerGoes DEF DownloadExhausted, Answer
<1>3. CASE DownloadFetch(r)
  <2>0. req[r].pc = "fetch" /\ UNCHANGED <<nodeStatus, issued>>
        /\ UNCHANGED <<factor, replica, disk, late, listed>>
    BY <1>3 DEF DownloadFetch, ReqAt
  <2>1. PICK n \in req[r].todo :
          LET held == disk[req[r].obj][n]
              next == [req[r] EXCEPT !.todo = @ \ {n}]
              asked == nodeStatus[n] = "ONLINE" /\ ~req[r].gone
          IN  \/ /\ asked /\ held = "good" /\ NoFault
                 /\ Becomes(r, Answered(r, "served"))
              \/ /\ asked /\ held = "bad" /\ NoFault
                 /\ Becomes(r, Answered(r, "corrupt"))
              \/ /\ asked /\ held # "none"
                 /\ CallLost(r, n, Answered(r, "unavailable"))
              \/ /\ \/ nodeStatus[n] = "OFFLINE" \/ req[r].gone
                    \/ held = "none"
                 /\ NoFault /\ Becomes(r, next)
              \/ asked /\ CallLost(r, n, next)
              \/ Inject("db") /\ Becomes(r, next)
    BY <1>3 DEF DownloadFetch
  <2>2. RequestStill
    BY <2>0, <2>1, StillCosts DEF CallLost
  <2> DEFINE next == [req[r] EXCEPT !.todo = @ \ {n}]
             todo == req[r].todo \ {n}
  <2>3. \/ \E a \in {"served", "corrupt", "unavailable"} :
             \/ Becomes(r, Answered(r, a))
             \/ Becomes(r, [Answered(r, a) EXCEPT !.gone = TRUE])
        \/ Becomes(r, next) \/ Becomes(r, [next EXCEPT !.gone = TRUE])
    BY <2>1 DEF CallLost
  <2>4. /\ next = [req[r] EXCEPT !.pc = "fetch", !.todo = todo, !.gone = req[r].gone]
        /\ [next EXCEPT !.gone = TRUE] =
             [req[r] EXCEPT !.pc = "fetch", !.todo = todo, !.gone = TRUE]
        /\ \A a : Answered(r, a) = [Answered(r, a) EXCEPT !.gone = req[r].gone]
        /\ req[r].gone \in BOOLEAN /\ todo \in SUBSET Node
    BY <1>0, <2>0 DEF Answered, RequestRec
  <2> HIDE DEF next, todo
  <2>5. \/ \E a \in {"served", "corrupt", "unavailable"}, gone \in BOOLEAN :
             Becomes(r, [Answered(r, a) EXCEPT !.gone = gone])
        \/ \E gone \in BOOLEAN :
             Becomes(r, [req[r] EXCEPT !.pc = "fetch", !.todo = todo, !.gone = gone])
    BY <2>3, <2>4
  <2> QED
    BY <1>0, <2>0, <2>2, <2>4, <2>5, DownloadAnswers, DownloadGoes DEF Answer
<1> QED
  BY <1>1, <1>2, <1>3

(* A call to a node, whatever comes of it, and the record that follows; it *)
(* notes that the client has gone, at most.                                *)
Leaving(r, rec) == \E left \in BOOLEAN : Becomes(r, [rec EXCEPT !.gone = left])

LEMMA LeavingIs ==
    ASSUME NEW r \in Request, NEW rec \in RequestRec, Becomes(r, rec)
    PROVE  Leaving(r, rec)
<1>1. rec = [rec EXCEPT !.gone = rec.gone] /\ rec.gone \in BOOLEAN
  BY DEF RequestRec
<1> QED
  BY <1>1 DEF Leaving

LEMMA WriteLostShape ==
    ASSUME RequestTypes, NEW r \in Request, req[r].obj \in Object, NEW n \in Node,
           NEW op \in {"store", "delete"}, NEW outcomes \in SUBSET DiskState,
           NEW rec \in RequestRec, WriteLost(r, n, op, outcomes, rec)
    PROVE  CallOutcome(req[r].obj, n, op) /\ Leaving(r, rec)
<1>0. ClusterTypeOK /\ faults \in [FaultKind -> Nat]
  BY DEF RequestTypes, ClusterTypeOK
<1>1. CASE GivenUp(req[r].obj, n, op) /\ Leaving(r, rec)
  BY <1>0, <1>1, GivenUpOutcome
<1>2. CASE /\ CallLost(r, n, rec)
           /\ \E d \in outcomes : SetDisk(req[r].obj, n, d)
           /\ UNCHANGED late
  <2>1. Leaving(r, rec)
    BY <1>2, LeavingIs DEF CallLost, Leaving
  <2>2. PICK d \in DiskState : SetDisk(req[r].obj, n, d)
    BY <1>2
  <2>3. OneFile(req[r].obj, n)
    BY <1>0, <2>2, DiskSet DEF OneFile
  <2>4. /\ Costs(0) /\ CallCosts(0)
        /\ faults'["rot"] = faults["rot"] /\ faults'["outage"] = faults["outage"]
    BY <1>0, <1>2, NoCost, CallFailsCost DEF CallLost
  <2> QED
    BY <1>0, <1>2, <2>1, <2>3, <2>4 DEF CallOutcome, ClusterTypeOK
<1> QED
  BY <1>1, <1>2 DEF WriteLost, Leaving

LEMMA UntouchedOutcome ==
    ASSUME RequestTypes, NEW o, NEW n, NEW op, UNCHANGED <<disk, late, faults>>
    PROVE  CallOutcome(o, n, op)
BY NoCost DEF RequestTypes, ClusterTypeOK, CallOutcome, OneFile, NoFault

LEMMA OutcomeTyped ==
    ASSUME RequestTypes, NEW o, NEW n, NEW op, CallOutcome(o, n, op),
           UNCHANGED <<factor, replica, nodeStatus, listed>>
    PROVE  ClusterTypeOK'
BY DEF RequestTypes, ClusterTypeOK, CallOutcome, OneFile, Costs, Counted

LEMMA LeavingStep ==
    ASSUME RequestTypes, NEW r \in Request, NEW rec \in RequestRec, RecordOK(rec),
           Leaving(r, rec), ClusterTypeOK', UNCHANGED issued,
           Follows(req[r], rec)
    PROVE  /\ OneRequest(r) /\ Follows(req[r], req'[r])
           /\ req'[r].pc = rec.pc /\ req'[r].ok = rec.ok /\ req'[r].todo = rec.todo
           /\ req'[r].answer = rec.answer
<1>1. PICK left \in BOOLEAN : Becomes(r, [rec EXCEPT !.gone = left])
  BY DEF Leaving
<1> DEFINE q == [rec EXCEPT !.gone = left]
<1>2. /\ q \in RequestRec /\ q.pc = rec.pc /\ q.ok = rec.ok /\ q.todo = rec.todo
      /\ q.obj = rec.obj /\ q.factor = rec.factor /\ q.answer = rec.answer
  BY DEF RequestRec
<1>3. Becomes(r, q)
  BY <1>1
<1> HIDE DEF q
<1>4. RecordOK(q) /\ Follows(req[r], q)
  BY <1>2 DEF RecordOK, Follows
<1> QED
  BY <1>2, <1>3, <1>4, OneBecomes

LEMMA StoreShape ==
    ASSUME RequestTypes, RecordsOK, NEW r \in Request, UploadStore(r)
    PROVE  OneRequest(r) /\ \E n \in Node : StoresOn(r, n)
<1>0. /\ req[r].pc = "store" /\ RecordOK(req[r]) /\ req[r] \in RequestRec
      /\ req[r].obj \in Object
      /\ UNCHANGED <<factor, replica, nodeStatus, listed, issued>>
  BY DEF UploadStore, ReqAt, RecordsOK, RequestTypes, RecordOK, UploadPc, StorePc
<1>1. PICK n \in req[r].todo :
        LET next == [req[r] EXCEPT !.todo = @ \ {n}]
        IN  \/ /\ ~req[r].gone /\ StoreChunk(req[r].obj, n)
               /\ Becomes(r, [next EXCEPT !.ok = @ \cup {n}])
            \/ ~req[r].gone /\ WriteLost(r, n, "store", DiskState, next)
            \/ /\ req[r].gone /\ Becomes(r, next)
               /\ UNCHANGED <<disk, late, faults>>
  BY DEF UploadStore
<1>2. n \in Node
  BY <1>0 DEF RequestRec
<1> DEFINE next == [req[r] EXCEPT !.todo = @ \ {n}]
           good == [next EXCEPT !.ok = @ \cup {n}]
<1>3. /\ next \in RequestRec /\ next.pc = "store" /\ next.obj = req[r].obj
      /\ next.factor = req[r].factor /\ next.ok = req[r].ok
      /\ next.todo = req[r].todo \ {n} /\ next.answer = req[r].answer
  BY <1>0 DEF RequestRec
<1>4. /\ good \in RequestRec /\ good.pc = "store" /\ good.obj = req[r].obj
      /\ good.factor = req[r].factor /\ good.ok = req[r].ok \cup {n}
      /\ good.todo = req[r].todo \ {n} /\ good.answer = req[r].answer
  BY <1>0, <1>2 DEF RequestRec
<1>5. \/ StoreChunk(req[r].obj, n) /\ Becomes(r, good)
      \/ WriteLost(r, n, "store", DiskState, next)
      \/ Becomes(r, next) /\ UNCHANGED <<disk, late, faults>>
  BY <1>1
<1> HIDE DEF next, good
<1>6. RecordOK(next) /\ RecordOK(good)
  BY <1>0, <1>1, <1>3, <1>4 DEF RecordOK, UploadPc, StorePc, DeletePc, DownloadPc
<1>7. Follows(req[r], next) /\ Follows(req[r], good)
  BY <1>0, <1>3, <1>4 DEF Follows, StorePc, DeletePc
<1>8. CASE StoreChunk(req[r].obj, n) /\ Becomes(r, good)
  <2>1. /\ CallOutcome(req[r].obj, n, "store") /\ disk'[req[r].obj][n] = "good"
        /\ late' = late
    BY <1>0, <1>2, <1>8, StoreOutcome DEF RequestTypes
  <2>2. ClusterTypeOK'
    BY <1>0, <2>1, OutcomeTyped
  <2>3. OneRequest(r) /\ req'[r] = good
    BY <1>0, <1>4, <1>6, <1>8, <2>2, OneBecomes
  <2> QED
    BY <1>0, <1>1, <1>2, <1>4, <1>7, <2>1, <2>3 DEF StoresOn
<1>9. CASE Leaving(r, next) /\ CallOutcome(req[r].obj, n, "store")
  <2>1. ClusterTypeOK'
    BY <1>0, <1>9, OutcomeTyped
  <2>2. /\ OneRequest(r) /\ Follows(req[r], req'[r]) /\ req'[r].pc = "store"
        /\ req'[r].ok = req[r].ok /\ req'[r].todo = req[r].todo \ {n}
    BY <1>0, <1>3, <1>6, <1>7, <1>9, <2>1, LeavingStep
  <2> QED
    BY <1>0, <1>1, <1>2, <1>9, <2>2 DEF StoresOn
<1>10. CASE WriteLost(r, n, "store", DiskState, next)
  BY <1>0, <1>2, <1>3, <1>9, <1>10, WriteLostShape
<1>11. CASE Becomes(r, next) /\ UNCHANGED <<disk, late, faults>>
  BY <1>3, <1>9, <1>11, LeavingIs, UntouchedOutcome
<1> QED
  BY <1>5, <1>8, <1>10, <1>11

LEMMA PurgeCall ==
    ASSUME RequestTypes, NEW r \in Request, req[r].obj \in Object, NEW n \in Node,
           NEW next \in RequestRec, Purge(r, n, next)
    PROVE  CallOutcome(req[r].obj, n, "delete") /\ Leaving(r, next)
<1>1. CASE DeleteChunk(req[r].obj, n) /\ Becomes(r, next)
  BY <1>1, DeleteOutcome, LeavingIs DEF RequestTypes
<1>2. CASE WriteLost(r, n, "delete", {"none", disk[req[r].obj][n]}, next)
  <2>1. {"none", disk[req[r].obj][n]} \in SUBSET DiskState
    BY DEF RequestTypes, ClusterTypeOK, DiskState
  <2> QED
    BY <1>2, <2>1, WriteLostShape
<1>3. CASE Becomes(r, next) /\ UNCHANGED <<disk, late, faults>>
  BY <1>3, LeavingIs, UntouchedOutcome
<1> QED
  BY <1>1, <1>2, <1>3 DEF Purge

LEMMA RemoveShape ==
    ASSUME RequestTypes, RecordsOK, NEW r \in Request,
           UploadCleanup(r) \/ DeletePurge(r)
    PROVE  OneRequest(r) /\ \E n \in Node : PurgesOn(r, n)
<1>0. /\ req[r].pc \in {"cleanup", "purge"} /\ RecordOK(req[r]) /\ req[r] \in RequestRec
      /\ req[r].obj \in Object
      /\ UNCHANGED <<factor, replica, nodeStatus, listed, issued>>
  BY DEF UploadCleanup, DeletePurge, ReqAt, RecordsOK, RequestTypes, RecordOK,
     UploadPc, StorePc, DeletePc
<1>1. PICK n \in Node, next \in RequestRec :
        /\ \/ Purge(r, n, next)
           \/ Inject("db") /\ Becomes(r, next) /\ UNCHANGED <<disk, late>>
        /\ next.pc = req[r].pc /\ next.obj = req[r].obj
        /\ next.factor = req[r].factor /\ next.answer = req[r].answer
  <2>1. CASE UploadCleanup(r)
    <3>1. PICK n \in req[r].ok : Purge(r, n, [req[r] EXCEPT !.ok = @ \ {n}])
      BY <2>1 DEF UploadCleanup
    <3> DEFINE next == [req[r] EXCEPT !.ok = @ \ {n}]
    <3>2. /\ next \in RequestRec /\ next.pc = req[r].pc /\ next.obj = req[r].obj
          /\ next.factor = req[r].factor /\ next.answer = req[r].answer /\ n \in Node
      BY <1>0 DEF RequestRec
    <3> HIDE DEF next
    <3> QED
      BY <3>1, <3>2 DEF next
  <2>2. CASE DeletePurge(r)
    <3>1. PICK n \in req[r].todo :
            LET next == [req[r] EXCEPT !.todo = @ \ {n}]
            IN  \/ Purge(r, n, next)
                \/ Inject("db") /\ Becomes(r, next) /\ UNCHANGED <<disk, late>>
      BY <2>2 DEF DeletePurge
    <3> DEFINE next == [req[r] EXCEPT !.todo = @ \ {n}]
    <3>2. /\ next \in RequestRec /\ next.pc = req[r].pc /\ next.obj = req[r].obj
          /\ next.factor = req[r].factor /\ next.answer = req[r].answer /\ n \in Node
      BY <1>0 DEF RequestRec
    <3>3. \/ Purge(r, n, next)
          \/ Inject("db") /\ Becomes(r, next) /\ UNCHANGED <<disk, late>>
      BY <3>1
    <3> HIDE DEF next
    <3> QED
      BY <3>2, <3>3
  <2> QED
    BY <2>1, <2>2
<1>2. CallOutcome(req[r].obj, n, "delete") /\ Leaving(r, next)
  <2>1. CASE Inject("db") /\ Becomes(r, next) /\ UNCHANGED <<disk, late>>
    <3>1. Costs(0) /\ CallCosts(0) /\ faults'["rot"] = faults["rot"]
          /\ faults'["outage"] = faults["outage"]
      BY <2>1, PaidStep, CountsTyped DEF RequestTypes, ClusterTypeOK
    <3> QED
      BY <2>1, <3>1, LeavingIs DEF CallOutcome, OneFile, RequestTypes, ClusterTypeOK
  <2> QED
    BY <1>0, <1>1, <2>1, PurgeCall
<1>3. ClusterTypeOK'
  BY <1>0, <1>2, OutcomeTyped
<1>4. RecordOK(next) /\ Follows(req[r], next)
  BY <1>0, <1>1 DEF RecordOK, Follows, UploadPc, StorePc, DeletePc, DownloadPc
<1>5. OneRequest(r) /\ Follows(req[r], req'[r]) /\ req'[r].pc = next.pc
  BY <1>0, <1>2, <1>3, <1>4, LeavingStep
<1> QED
  BY <1>0, <1>1, <1>2, <1>5 DEF PurgesOn

LEMMA CommitShape ==
    ASSUME RequestTypes, RecordsOK, NEW r \in Request, UploadCommit(r)
    PROVE  OneRequest(r) /\ Commits(r)
<1>0. /\ req[r].pc = "commit" /\ RecordOK(req[r]) /\ req[r] \in RequestRec
      /\ req[r].obj \in Object /\ req[r].factor \in Nat /\ ClusterTypeOK
      /\ faults \in [FaultKind -> Nat]
      /\ UNCHANGED <<nodeStatus, disk, late, listed, issued>>
  BY DEF UploadCommit, ReqAt, RecordsOK, RequestTypes, RecordOK, UploadPc, StorePc,
     RequestRec, ClusterTypeOK
<1> DEFINE Inserted ==
             /\ factor' = [factor EXCEPT ![req[r].obj] = req[r].factor]
             /\ replica' = [replica EXCEPT ![req[r].obj] =
                  [n \in Node |-> IF n \in req[r].ok THEN "HEALTHY" ELSE "NONE"]]
           cleaning == [req[r] EXCEPT !.pc = "cleanup"]
           created == Answered(r, "created")
<1>1. PICK out \in TxOutcome :
        /\ TxCost(out)
        /\ IF out = "rolledBack" THEN UNCHANGED <<factor, replica>> ELSE Inserted
        /\ Becomes(r, IF out = "committed" THEN created ELSE cleaning)
  BY DEF UploadCommit
<1>2. Costs(0) /\ faults'["rot"] = faults["rot"]
  BY <1>0, <1>1, TxOutcomeCost
<1>3. /\ cleaning \in RequestRec /\ cleaning.pc = "cleanup" /\ cleaning.obj = req[r].obj
      /\ cleaning.factor = req[r].factor /\ cleaning.answer = req[r].answer
  BY <1>0 DEF RequestRec, UploadPc
<1>4. /\ created \in RequestRec /\ created.pc = "done" /\ created.answer = "created"
      /\ created.obj = req[r].obj /\ created.factor = req[r].factor /\ RecordOK(created)
  BY AnsweredWhat DEF Answer
<1>5. factor' \in [Object -> Nat] /\ replica' \in [Object -> [Node -> RowStatus]]
  <2>1. CASE UNCHANGED <<factor, replica>>
    BY <1>0, <2>1 DEF ClusterTypeOK
  <2>2. CASE Inserted
    <3>1. [n \in Node |-> IF n \in req[r].ok THEN "HEALTHY" ELSE "NONE"]
            \in [Node -> RowStatus]
      BY DEF RowStatus
    <3> QED
      BY <1>0, <2>2, <3>1 DEF ClusterTypeOK
  <2> QED
    BY <1>1, <2>1, <2>2
<1>6. ClusterTypeOK'
  BY <1>0, <1>2, <1>5 DEF ClusterTypeOK, Costs, Counted
<1>7. UNCHANGED <<factor, replica>> \/ Inserted
  BY <1>1
<1>8. CASE Becomes(r, created) /\ Inserted
  <2> HIDE DEF Inserted, created, cleaning
  <2>1. OneRequest(r) /\ req'[r] = created
    BY <1>0, <1>4, <1>6, <1>8, OneBecomes
  <2>2. Follows(req[r], created)
    BY <1>0, <1>4 DEF Follows, StorePc, DeletePc
  <2>3. Commits(r)
    BY <1>0, <1>2, <1>4, <1>8, <2>1, <2>2 DEF Commits, Inserted
  <2> QED
    BY <2>1, <2>3
<1>9. CASE Becomes(r, cleaning)
  <2> HIDE DEF Inserted, created, cleaning
  <2>0. RecordOK(cleaning) /\ Follows(req[r], cleaning)
    BY <1>0, <1>3 DEF RecordOK, Follows, UploadPc, StorePc, DeletePc, DownloadPc
  <2>1. OneRequest(r) /\ req'[r] = cleaning
    BY <1>0, <1>3, <1>6, <1>9, <2>0, OneBecomes
  <2>3. Commits(r)
    BY <1>0, <1>2, <1>3, <1>7, <2>0, <2>1 DEF Commits, Inserted
  <2> QED
    BY <2>1, <2>3
<1> QED
  BY <1>1, <1>8, <1>9

LEMMA DeleteShape ==
    ASSUME RequestTypes, RecordsOK, NEW r \in Request, DeleteObject(r)
    PROVE  OneRequest(r) /\ Deletes(r)
<1>0. /\ req[r].pc = "delete" /\ RecordOK(req[r]) /\ req[r] \in RequestRec
      /\ req[r].obj \in Object /\ ClusterTypeOK /\ faults \in [FaultKind -> Nat]
      /\ UNCHANGED <<nodeStatus, disk, late, issued>>
  BY DEF DeleteObject, ReqAt, RecordsOK, RequestTypes, RecordOK, DeletePc, ClusterTypeOK
<1>1. PICK a \in {"deleted", "failed"} :
        /\ Becomes(r, Answered(r, a))
        /\ NoFault \/ Inject("db")
        /\ UNCHANGED <<factor, replica, listed>> \/ DeleteObjectRow(req[r].obj)
  <2>1. CASE Exists(req[r].obj)
    BY <2>1 DEF DeleteObject, TxCost
  <2>2. CASE ~Exists(req[r].obj)
    BY <2>2 DEF DeleteObject, NoFault
  <2> QED
    BY <2>1, <2>2
<1>2. Costs(0) /\ faults'["rot"] = faults["rot"]
  BY <1>0, <1>1, NoCost, PaidStep, CountsTyped
<1>3. /\ factor' \in [Object -> Nat] /\ replica' \in [Object -> [Node -> RowStatus]]
      /\ listed' \subseteq Object \X Node
  <2>1. CASE UNCHANGED <<factor, replica, listed>>
    BY <1>0, <2>1 DEF ClusterTypeOK
  <2>2. CASE DeleteObjectRow(req[r].obj)
    <3>1. [n \in Node |-> "NONE"] \in [Node -> RowStatus]
      BY DEF RowStatus
    <3> QED
      BY <1>0, <2>2, <3>1 DEF ClusterTypeOK, DeleteObjectRow
  <2> QED
    BY <1>1, <2>1, <2>2
<1>4. ClusterTypeOK'
  BY <1>0, <1>2, <1>3 DEF ClusterTypeOK, Costs, Counted
<1> DEFINE rec == Answered(r, a)
<1>5. /\ rec \in RequestRec /\ rec.pc = "done" /\ rec.answer = a
      /\ rec.obj = req[r].obj /\ rec.factor = req[r].factor /\ RecordOK(rec)
  BY AnsweredWhat DEF Answer
<1>6. Becomes(r, rec)
  BY <1>1
<1> HIDE DEF rec
<1>7. OneRequest(r) /\ req'[r] = rec
  BY <1>0, <1>4, <1>5, <1>6, OneBecomes
<1>8. Follows(req[r], rec)
  BY <1>0, <1>5 DEF Follows, StorePc, DeletePc
<1> QED
  BY <1>0, <1>1, <1>2, <1>5, <1>7, <1>8 DEF Deletes

(* Every step of a request is one of these.                                *)
LEMMA RequestShapes ==
    ASSUME RequestTypes, RecordsOK, NEW r \in Request, APIStep(r)
    PROVE  /\ OneRequest(r) /\ faults'["rot"] = faults["rot"] /\ Costs(0)
           /\ \/ Places(r) \/ Looks(r) \/ Goes(r)
              \/ \E n \in Node : StoresOn(r, n)
              \/ \E n \in Node : PurgesOn(r, n)
              \/ Commits(r) \/ Deletes(r)
<1>1. OneRequest(r) /\
        \/ Places(r) \/ Looks(r) \/ Goes(r)
        \/ \E n \in Node : StoresOn(r, n)
        \/ \E n \in Node : PurgesOn(r, n)
        \/ Commits(r) \/ Deletes(r)
  <2>1. CASE UploadPlace(r)
    BY <2>1, PlaceShape
  <2>2. CASE DeleteLoad(r)
    BY <2>2, LoadShape DEF DeleteLoad
  <2>3. CASE DownloadLoad(r)
    BY <2>3, LoadShape DEF DownloadLoad
  <2>4. CASE UploadStored(r)
    BY <2>4, StoredShape
  <2>5. CASE UploadCleaned(r)
    BY <2>5, CleanedShape
  <2>6. CASE DeleteListRows(r) \/ DeletePurged(r)
    BY <2>6, DeleteReadShape
  <2>7. CASE DownloadListHealthy(r) \/ DownloadFetch(r) \/ DownloadExhausted(r)
    BY <2>7, DownloadShape
  <2>8. CASE UploadStore(r)
    BY <2>8, StoreShape
  <2>9. CASE UploadCleanup(r) \/ DeletePurge(r)
    BY <2>9, RemoveShape
  <2>10. CASE UploadCommit(r)
    BY <2>10, CommitShape
  <2>11. CASE DeleteObject(r)
    BY <2>11, DeleteShape
  <2> QED
    BY <2>1, <2>2, <2>3, <2>4, <2>5, <2>6, <2>7, <2>8, <2>9, <2>10, <2>11 DEF APIStep
<1>2. faults'["rot"] = faults["rot"] /\ Costs(0)
  BY <1>1 DEF Places, Looks, Goes, RequestStill, StoresOn, PurgesOn, CallOutcome,
     Commits, Deletes
<1> QED
  BY <1>1, <1>2

-----------------------------------------------------------------------------
(* The restart and the environment.                                        *)

(* What the mishaps may have cost; a restart counts twice, for it cuts     *)
(* short a step of both loops.                                             *)
Debt == Mishaps + faults["crash"]

LEMMA DebtGrows ==
    ASSUME faults \in [FaultKind -> Nat], NEW k \in Nat, Costs(k)
    PROVE  Debt \in Nat /\ Debt' \in Nat /\ Debt' >= Debt + k
<1>1. /\ faults["crash"] \in Nat /\ faults'["crash"] \in Nat
      /\ faults'["crash"] >= faults["crash"] /\ faults' \in [FaultKind -> Nat]
  BY DEF Costs, Counted, FaultKind
<1>2. Mishaps \in Nat
  BY CountsTyped
<1>3. Mishaps' \in Nat /\ Mishaps' >= Mishaps + k
  BY <1>1 DEF Costs, Mishaps, FaultKind
<1> QED
  BY <1>1, <1>2, <1>3 DEF Debt

LEMMA CrashCosts ==
    ASSUME faults \in [FaultKind -> Nat], Inject("crash")
    PROVE  /\ Debt \in Nat /\ Debt' \in Nat /\ Debt' >= Debt + 2
           /\ faults' \in [FaultKind -> Nat] /\ faults'["rot"] = faults["rot"]
<1>1. "crash" \in FaultKind
  BY DEF FaultKind
<1>2. /\ faults' \in [FaultKind -> Nat] /\ faults'["crash"] = faults["crash"] + 1
      /\ \A k \in FaultKind : k # "crash" => faults'[k] = faults[k]
  BY <1>1, InjectCounts
<1>3. /\ faults'["db"] = faults["db"] /\ faults'["late"] = faults["late"]
      /\ faults'["rot"] = faults["rot"]
      /\ faults["db"] \in Nat /\ faults["crash"] \in Nat /\ faults["late"] \in Nat
  BY <1>2 DEF FaultKind
<1> QED
  BY <1>2, <1>3 DEF Debt, Mishaps

(* A request that a restart may leave a call of behind.                    *)
Calling(o) == \E r \in Request :
    req[r].obj = o /\ req[r].pc \in {"store", "purge", "cleanup"}

LEMMA OrphansAreCalls ==
    ASSUME NEW calls \in Orphans, NEW c \in calls
    PROVE  /\ \E r \in Request : c \in InFlight(r)
BY DEF Orphans

LEMMA InFlightIs ==
    ASSUME RequestTypes, NEW r \in Request, NEW c \in InFlight(r)
    PROVE  /\ c[1] = req[r].obj /\ req[r].pc \in {"store", "purge", "cleanup"}
           /\ \E n \in Node, op \in {"store", "delete"} : c = <<req[r].obj, n, op>>
<1>1. /\ req[r].todo \subseteq Node /\ req[r].ok \subseteq Node
  BY DEF RequestTypes, RequestRec
<1> QED
  BY <1>1 DEF InFlight, ReqAt

LEMMA InterruptedIs ==
    ASSUME RequestTypes, req' = Interrupted, NEW r \in Request
    PROVE  /\ req'[r] \in RequestRec
           /\ req'[r].obj = req[r].obj /\ req'[r].factor = req[r].factor
           /\ req[r].pc \in {"new", "done"} => req'[r] = req[r]
           /\ req[r].pc \notin {"new", "done"} =>
                req'[r].pc = "done" /\ req'[r].answer = "lost" /\ RecordOK(req'[r])
<1>1. req'[r] = IF req[r].pc \in {"new", "done"} THEN req[r] ELSE Answered(r, "lost")
  BY DEF Interrupted
<1>2. "lost" \in Answer
  BY DEF Answer
<1> QED
  BY <1>1, <1>2, AnsweredWhat DEF RequestTypes

(* A restart: the loops are idle, the requests lost, and at most one call  *)
(* of each loop goes on, besides calls of requests.                        *)
LEMMA RestartShape ==
    ASSUME CoordinatorTypeOK, Locals, OwnVariables, RecordsOK, Restart
    PROVE  /\ CoordinatorTypeOK' /\ Locals' /\ OwnVariables' /\ RecordsOK'
           /\ she' = SHEIdle /\ rm' = RMIdle /\ req' = Interrupted /\ listed' = {}
           /\ UNCHANGED <<factor, replica, disk, issued>> /\ faults'["rot"] = faults["rot"]
           /\ Debt \in Nat /\ Debt' \in Nat /\ Debt' >= Debt + 2
           /\ \E m : \A o \in Object, n \in Node :
                /\ LateCall(o, n) => LateCall(o, n)'
                /\ LateCall(o, n)' =>
                     \/ LateCall(o, n) \/ Calling(o)
                     \/ she.pc = "push" /\ o = she.obj /\ n = she.dest
                     \/ n = m /\ (Endangered(o, n) \/ Condemned(o, n))
                /\ Condemned(o, n) => n = m
<1>0. /\ ClusterTypeOK /\ SHETypeOK /\ RMTypeOK /\ RequestTypes
      /\ faults \in [FaultKind -> Nat]
  BY RequestTypesAre DEF CoordinatorTypeOK, SHTypeOK, ObjectAPITypeOK, ClusterTypeOK
<1>1. /\ she' = SHEIdle /\ rm' = RMIdle /\ req' = Interrupted /\ listed' = {}
      /\ Inject("crash")
      /\ UNCHANGED <<factor, replica, nodeStatus, disk, issued>>
  BY DEF Restart
<1>2. /\ Debt \in Nat /\ Debt' \in Nat /\ Debt' >= Debt + 2
      /\ faults' \in [FaultKind -> Nat] /\ faults'["rot"] = faults["rot"]
  BY <1>0, <1>1, CrashCosts
<1>3. SHETypeOK' /\ Locals'
  BY <1>1 DEF SHEIdle, SHETypeOK, SHEPc, Locals
<1>4. RMTypeOK' /\ OwnVariables'
  BY <1>1 DEF RMIdle, RMTypeOK, RMPc, OwnVariables
<1>5. ASSUME NEW r \in Request
      PROVE  req'[r] \in RequestRec /\ RecordOK(req'[r])
  BY <1>0, <1>1, InterruptedIs DEF RecordsOK
<1>6. req' \in [Request -> RequestRec] /\ RecordsOK'
  <2>1. req' = [r \in Request |-> req'[r]]
    BY <1>1 DEF Interrupted
  <2>2. req' \in [Request -> RequestRec]
    BY <1>5, <2>1
  <2> QED
    BY <1>5, <2>2 DEF RecordsOK
<1>7. PICK one \in AtMostOne(SHEInFlight), another \in AtMostOne(RMInFlight),
           calls \in Orphans : late' = late \cup one \cup another \cup calls
  BY DEF Restart
<1>8. one = {} \/ (/\ she.pc = "push" /\ she.obj \in Object /\ she.dest \in Node
                   /\ one = {<<she.obj, she.dest, "store">>})
  <2>1. \A c \in SHEInFlight : /\ she.pc = "push" /\ she.obj \in Object
                               /\ she.dest \in Node
                               /\ c = <<she.obj, she.dest, "store">>
    BY DEF SHEInFlight, At, Locals
  <2> QED
    BY <2>1 DEF AtMostOne
<1>9. \/ another = {}
      \/ \E m \in Node, op \in {"store", "delete"} :
           /\ rm.obj \in Object /\ another = {<<rm.obj, m, op>>}
           /\ Endangered(rm.obj, m) \/ Condemned(rm.obj, m)
  <2>1. ASSUME NEW c \in RMInFlight
        PROVE  \E m \in Node, op \in {"store", "delete"} :
                 /\ rm.obj \in Object /\ c = <<rm.obj, m, op>>
                 /\ Endangered(rm.obj, m) \/ Condemned(rm.obj, m)
    <3>1. CASE rm.pc = "upPush"
      <4>1. PICK m \in rm.dests : c = <<rm.obj, m, "store">>
        BY <3>1 DEF RMInFlight, RMAt
      <4> QED
        BY <1>0, <3>1, <4>1 DEF RMTypeOK, OwnVariables, Endangered
    <3>2. CASE rm.pc \in {"upUndo", "downPurge"}
      <4>1. c = <<rm.obj, rm.node, "delete">> /\ rm.node \in Node /\ rm.obj \in Object
        BY <3>2 DEF RMInFlight, RMAt, OwnVariables
      <4>2. Endangered(rm.obj, rm.node) \/ Condemned(rm.obj, rm.node)
        BY <3>2 DEF Endangered, Condemned
      <4> QED
        BY <4>1, <4>2
    <3>3. CASE rm.pc \notin {"upPush", "upUndo", "downPurge"}
      BY <3>3 DEF RMInFlight, RMAt
    <3> QED
      BY <3>1, <3>2, <3>3
  <2> QED
    BY <2>1 DEF AtMostOne
<1>10. ASSUME NEW c \in calls
       PROVE  /\ c \in NodeCall
              /\ \E r \in Request : /\ c[1] = req[r].obj
                                    /\ req[r].pc \in {"store", "purge", "cleanup"}
  <2>1. PICK r \in Request : c \in InFlight(r)
    BY OrphansAreCalls
  <2>2. /\ c[1] = req[r].obj /\ req[r].pc \in {"store", "purge", "cleanup"}
        /\ \E n \in Node, op \in {"store", "delete"} : c = <<req[r].obj, n, op>>
    BY <1>0, <2>1, InFlightIs
  <2>3. req[r].obj \in Object
    BY <2>2 DEF RecordsOK, RecordOK, UploadPc, StorePc, DeletePc
  <2> QED
    BY <2>2, <2>3 DEF NodeCall
<1>11. late' \subseteq NodeCall
  <2>1. one \subseteq NodeCall /\ another \subseteq NodeCall
    BY <1>8, <1>9 DEF NodeCall
  <2>2. calls \subseteq NodeCall
    BY <1>10
  <2> QED
    BY <1>0, <1>7, <2>1, <2>2 DEF ClusterTypeOK
<1>12. ClusterTypeOK' /\ APITypeOK'
  <2>1. ClusterTypeOK'
    BY <1>0, <1>1, <1>2, <1>11 DEF ClusterTypeOK
  <2>2. RequestTypes'
    BY <1>0, <1>1, <1>6, <2>1 DEF RequestTypes
  <2>3. RequestTypes' <=> ObjectAPITypeOK'
    BY RequestTypesAre, PTL
  <2> QED
    BY <2>1, <2>2, <2>3 DEF ObjectAPITypeOK
<1> DEFINE m == IF rm.pc \in {"downPurge", "downDrop"} THEN rm.node
                ELSE IF another = {} THEN NoNode
                ELSE (CHOOSE c \in another : TRUE)[2]
<1>13. ASSUME NEW o \in Object, NEW n \in Node
       PROVE  /\ LateCall(o, n) => LateCall(o, n)'
              /\ LateCall(o, n)' =>
                   \/ LateCall(o, n) \/ Calling(o)
                   \/ she.pc = "push" /\ o = she.obj /\ n = she.dest
                   \/ n = m /\ (Endangered(o, n) \/ Condemned(o, n))
              /\ Condemned(o, n) => n = m
  <2>1. LateCall(o, n) => LateCall(o, n)'
    BY <1>7 DEF LateCall
  <2>2. Condemned(o, n) => n = m
    BY DEF Condemned
  <2>3. ASSUME NEW op \in {"store", "delete"}, <<o, n, op>> \in late',
               <<o, n, op>> \notin late
        PROVE  \/ Calling(o)
               \/ she.pc = "push" /\ o = she.obj /\ n = she.dest
               \/ n = m /\ (Endangered(o, n) \/ Condemned(o, n))
    <3>1. CASE <<o, n, op>> \in one
      BY <1>8, <3>1
    <3>2. CASE <<o, n, op>> \in calls
      BY <1>10, <3>2 DEF Calling
    <3>3. CASE <<o, n, op>> \in another
      <4>1. /\ o = rm.obj /\ another = {<<rm.obj, n, op>>}
            /\ Endangered(rm.obj, n) \/ Condemned(rm.obj, n)
        BY <1>9, <3>3
      <4>2. (CHOOSE c \in another : TRUE) = <<rm.obj, n, op>> /\ another # {}
        BY <4>1
      <4>3. n = m
        <5>1. CASE rm.pc \in {"downPurge", "downDrop"}
          BY <4>1, <5>1 DEF Endangered, Condemned
        <5>2. CASE rm.pc \notin {"downPurge", "downDrop"}
          <6>1. m = (CHOOSE c \in another : TRUE)[2]
            BY <4>2, <5>2
          <6>2. m = <<rm.obj, n, op>>[2]
            BY <4>2, <6>1
          <6> QED
            BY <6>2
        <5> QED
          BY <5>1, <5>2
      <4> QED
        BY <4>1, <4>3
    <3> QED
      BY <1>7, <2>3, <3>1, <3>2, <3>3
  <2> HIDE DEF m
  <2>4. LateCall(o, n)' => \E op \in {"store", "delete"} : <<o, n, op>> \in late'
    BY DEF LateCall
  <2>5. \A op \in {"store", "delete"} : <<o, n, op>> \in late => LateCall(o, n)
    BY DEF LateCall
  <2> QED
    BY <2>1, <2>2, <2>3, <2>4, <2>5
<1> HIDE DEF m
<1> QED
  BY <1>1, <1>2, <1>3, <1>4, <1>6, <1>12, <1>13 DEF CoordinatorTypeOK, SHTypeOK

(* The environment changes no row and starts no call; as long as no file   *)
(* decays, it changes only files that such calls are for.                  *)
LEMMA EnvironmentShape ==
    ASSUME SHTypeOK, Environment
    PROVE  /\ ClusterTypeOK' /\ UNCHANGED <<factor, replica, listed>>
           /\ Costs(0)
           /\ \A o \in Object, n \in Node : LateCall(o, n)' => LateCall(o, n)
           /\ faults'["rot"] = 0 =>
                /\ faults["rot"] = 0
                /\ \A o \in Object, n \in Node :
                     ~LateCall(o, n) => disk'[o][n] = disk[o][n]
<1>1. /\ ClusterTypeOK' /\ UNCHANGED <<factor, replica>> /\ late' \subseteq late
      /\ faults'["rot"] = 0 =>
           /\ faults["rot"] = 0
           /\ \A o \in Object, n \in Node : Settled(o, n) => disk'[o][n] = disk[o][n]
  BY EnvironmentTyped
<1>2. \A o \in Object, n \in Node : ~LateCall(o, n) <=> Settled(o, n)
  BY DEF LateCall, Settled
<1>3. \A o \in Object, n \in Node : LateCall(o, n)' => LateCall(o, n)
  BY <1>1 DEF LateCall
<1>4. UNCHANGED listed
  BY DEF Environment, NodeTimesOut, NodeReturns, ChunkRots, LateHandler
<1>5. \E k \in FaultKind : Inject(k) \/ NoFault
  BY DEF Environment, NodeTimesOut, NodeReturns, ChunkRots, LateHandler, FaultKind, NoFault
<1>6. Costs(0)
  BY <1>5, NoCost, PaidStep DEF SHTypeOK, ClusterTypeOK
<1> QED
  BY <1>1, <1>2, <1>3, <1>4, <1>6

-----------------------------------------------------------------------------
(* The balance of good files and doubtful ones.                            *)

(* A request is removing the object, or has.                               *)
Excused(o) == Deleting(o) \/ Withdrawn(o)

(* Nobody is about to touch the file: the manager does not plan to, and no *)
(* handler is left behind at its node.                                     *)
Kept(o, n) ==
    /\ replica[o][n] \in {"HEALTHY", "LOST"} /\ disk[o][n] = "good"
    /\ ~LateCall(o, n) /\ ~Endangered(o, n) /\ ~Condemned(o, n)
Solid(o, n) ==
    Kept(o, n) /\ (replica[o][n] = "LOST" => ~Candidate(o, n))

(* The rows that are trusted, or may come to be, and the nodes where a     *)
(* file may be changed unnoticed.                                          *)
Doubtful(o, n) ==
    \/ replica[o][n] = "HEALTHY" /\ ~Condemned(o, n)
    \/ /\ replica[o][n] = "RECOVERING"
       /\ Refilled(o, n) =>
            Endangered(o, n) \/ (she.pc = "finalize" /\ disk[o][n] # "good")
    \/ LateCall(o, n) /\ (replica[o][n] = "LOST" => Candidate(o, n))
    \/ replica[o][n] = "NONE" /\ Inserting(o, n) /\ disk[o][n] # "good"

KeptOn(o) == {n \in Node : Kept(o, n)}
SolidOn(o) == {n \in Node : Solid(o, n)}
DoubtfulOn(o) == {n \in Node : Doubtful(o, n)}

(* There are no more doubtful files of an object than solid ones, but for  *)
(* one per mishap: and then, some file of it is kept.                      *)
Covered(o) ==
    \/ Excused(o)
    \/ Cardinality(DoubtfulOn(o)) <= Cardinality(SolidOn(o)) + Debt
Held(o) == Exists(o) => Excused(o) \/ KeptOn(o) # {}

Slack == faults["rot"] = 0 => \A o \in Object : Covered(o)
Safe == faults["rot"] = 0 /\ Debt < MinRF => \A o \in Object : Held(o)

-----------------------------------------------------------------------------
(* Counting.                                                               *)

LEMMA OneLess ==
    ASSUME NEW S, IsFiniteSet(S), NEW x
    PROVE  /\ IsFiniteSet(S \ {x}) /\ Cardinality(S) \in Nat
           /\ Cardinality(S \ {x}) \in Nat
           /\ Cardinality(S) <= Cardinality(S \ {x}) + 1
           /\ x \in S => Cardinality(S) = Cardinality(S \ {x}) + 1
<1>1. /\ IsFiniteSet(S \ {x})
      /\ Cardinality(S \ {x}) =
           IF x \in S THEN Cardinality(S) - 1 ELSE Cardinality(S)
  BY FS_RemoveElement
<1>2. Cardinality(S) \in Nat /\ Cardinality(S \ {x}) \in Nat
  BY <1>1, FS_CardinalityType
<1> QED
  BY <1>1, <1>2

LEMMA OneAdded ==
    ASSUME NEW S, IsFiniteSet(S), NEW x
    PROVE  /\ IsFiniteSet(S \cup {x}) /\ Cardinality(S) \in Nat
           /\ Cardinality(S \cup {x}) \in Nat
           /\ Cardinality(S \cup {x}) <= Cardinality(S) + 1
           /\ x \notin S => Cardinality(S \cup {x}) = Cardinality(S) + 1
<1>1. /\ IsFiniteSet(S \cup {x})
      /\ Cardinality(S \cup {x}) =
           IF x \in S THEN Cardinality(S) ELSE Cardinality(S) + 1
  BY FS_AddElement
<1>2. Cardinality(S) \in Nat /\ Cardinality(S \cup {x}) \in Nat
  BY <1>1, FS_CardinalityType
<1> QED
  BY <1>1, <1>2

LEMMA Inside ==
    ASSUME NEW S, IsFiniteSet(S), NEW T \in SUBSET S
    PROVE  /\ IsFiniteSet(T) /\ Cardinality(T) \in Nat /\ Cardinality(S) \in Nat
           /\ Cardinality(T) <= Cardinality(S)
BY FS_Subset, FS_CardinalityType

(* The doubtful files Q and the solid ones T after a step, where there     *)
(* were P and S before it.                                                 *)
Balance(P, S, d) == Cardinality(P) <= Cardinality(S) + d

LEMMA QuietBalance ==
    ASSUME NEW P, NEW Q, NEW S, NEW T, IsFiniteSet(P), IsFiniteSet(T),
           NEW d \in Nat, NEW e \in Nat, Balance(P, S, d),
           Q \subseteq P, S \subseteq T, e >= d
    PROVE  Balance(Q, T, e)
<1>1. /\ Cardinality(P) \in Nat /\ Cardinality(Q) \in Nat
      /\ Cardinality(Q) <= Cardinality(P)
  BY Inside
<1>2. /\ Cardinality(S) \in Nat /\ Cardinality(T) \in Nat
      /\ Cardinality(S) <= Cardinality(T)
  BY Inside
<1> QED
  BY <1>1, <1>2 DEF Balance

LEMMA PaidBalance ==
    ASSUME NEW P, NEW Q, NEW S, NEW T, IsFiniteSet(P), IsFiniteSet(T),
           NEW d \in Nat, NEW e \in Nat, Balance(P, S, d), NEW n,
           Q \subseteq P \cup {n}, S \subseteq T, e >= d + 1
    PROVE  Balance(Q, T, e)
<1>1. /\ Cardinality(P) \in Nat /\ IsFiniteSet(P \cup {n})
      /\ Cardinality(P \cup {n}) <= Cardinality(P) + 1
      /\ Cardinality(P \cup {n}) \in Nat
  BY OneAdded
<1>2. Cardinality(Q) \in Nat /\ Cardinality(Q) <= Cardinality(P \cup {n})
  BY <1>1, Inside
<1>3. /\ Cardinality(S) \in Nat /\ Cardinality(T) \in Nat
      /\ Cardinality(S) <= Cardinality(T)
  BY Inside
<1> QED
  BY <1>1, <1>2, <1>3 DEF Balance

LEMMA GainBalance ==
    ASSUME NEW P, NEW Q, NEW S, NEW T, IsFiniteSet(P), IsFiniteSet(T),
           NEW d \in Nat, NEW e \in Nat, Balance(P, S, d), NEW n,
           Q \subseteq P \cup {n}, S \subseteq T, n \in T, n \notin S, e >= d
    PROVE  Balance(Q, T, e)
<1>1. /\ Cardinality(P) \in Nat /\ IsFiniteSet(P \cup {n})
      /\ Cardinality(P \cup {n}) <= Cardinality(P) + 1
      /\ Cardinality(P \cup {n}) \in Nat
  BY OneAdded
<1>2. Cardinality(Q) \in Nat /\ Cardinality(Q) <= Cardinality(P \cup {n})
  BY <1>1, Inside
<1>3. /\ Cardinality(S \cup {n}) \in Nat /\ Cardinality(T) \in Nat
      /\ Cardinality(S \cup {n}) <= Cardinality(T) /\ IsFiniteSet(S)
  BY Inside
<1>4. Cardinality(S \cup {n}) = Cardinality(S) + 1 /\ Cardinality(S) \in Nat
  BY <1>3, OneAdded
<1> QED
  BY <1>1, <1>2, <1>3, <1>4 DEF Balance

(* f ceases to be doubtful and m may become so.                            *)
LEMMA SwapBalance ==
    ASSUME NEW P, NEW Q, NEW S, NEW T, IsFiniteSet(P), IsFiniteSet(T),
           NEW d \in Nat, NEW e \in Nat, Balance(P, S, d), NEW f \in P, NEW m,
           Q \subseteq (P \ {f}) \cup {m}, S \subseteq T, e >= d
    PROVE  Balance(Q, T, e)
<1>1. /\ IsFiniteSet(P \ {f}) /\ Cardinality(P) \in Nat
      /\ Cardinality(P) = Cardinality(P \ {f}) + 1
      /\ Cardinality(P \ {f}) \in Nat
  BY OneLess
<1>2. /\ IsFiniteSet((P \ {f}) \cup {m})
      /\ Cardinality((P \ {f}) \cup {m}) <= Cardinality(P \ {f}) + 1
      /\ Cardinality((P \ {f}) \cup {m}) \in Nat
  BY <1>1, OneAdded
<1>3. Cardinality(Q) \in Nat /\ Cardinality(Q) <= Cardinality((P \ {f}) \cup {m})
  BY <1>2, Inside
<1>4. /\ Cardinality(S) \in Nat /\ Cardinality(T) \in Nat
      /\ Cardinality(S) <= Cardinality(T)
  BY Inside
<1> QED
  BY <1>1, <1>2, <1>3, <1>4 DEF Balance

(* f ceases to be doubtful, and to be solid.                               *)
LEMMA TradeBalance ==
    ASSUME NEW P, NEW Q, NEW S, NEW T, IsFiniteSet(P), IsFiniteSet(S), IsFiniteSet(T),
           NEW d \in Nat, NEW e \in Nat, Balance(P, S, d), NEW f \in P,
           Q \subseteq P \ {f}, S \ {f} \subseteq T, e >= d
    PROVE  Balance(Q, T, e)
<1>1. /\ IsFiniteSet(P \ {f}) /\ Cardinality(P) \in Nat
      /\ Cardinality(P) = Cardinality(P \ {f}) + 1
      /\ Cardinality(P \ {f}) \in Nat
  BY OneLess
<1>2. Cardinality(Q) \in Nat /\ Cardinality(Q) <= Cardinality(P \ {f})
  BY <1>1, Inside
<1>3. /\ Cardinality(S) \in Nat /\ Cardinality(S \ {f}) \in Nat
      /\ Cardinality(S) <= Cardinality(S \ {f}) + 1
  BY OneLess
<1>4. Cardinality(T) \in Nat /\ Cardinality(S \ {f}) <= Cardinality(T)
  BY Inside
<1> QED
  BY <1>1, <1>2, <1>3, <1>4 DEF Balance

LEMMA RestartBalance ==
    ASSUME NEW P, NEW Q, NEW S, NEW T, IsFiniteSet(P), IsFiniteSet(T),
           NEW d \in Nat, NEW e \in Nat, Balance(P, S, d), NEW n, NEW m,
           Q \subseteq (P \cup {n}) \cup {m}, S \subseteq T, e >= d + 2
    PROVE  Balance(Q, T, e)
<1>1. /\ Cardinality(P) \in Nat /\ IsFiniteSet(P \cup {n})
      /\ Cardinality(P \cup {n}) <= Cardinality(P) + 1
      /\ Cardinality(P \cup {n}) \in Nat
  BY OneAdded
<1>2. /\ IsFiniteSet((P \cup {n}) \cup {m})
      /\ Cardinality((P \cup {n}) \cup {m}) <= Cardinality(P \cup {n}) + 1
      /\ Cardinality((P \cup {n}) \cup {m}) \in Nat
  BY <1>1, OneAdded
<1>3. Cardinality(Q) \in Nat /\ Cardinality(Q) <= Cardinality((P \cup {n}) \cup {m})
  BY <1>2, Inside
<1>4. /\ Cardinality(S) \in Nat /\ Cardinality(T) \in Nat
      /\ Cardinality(S) <= Cardinality(T)
  BY Inside
<1> QED
  BY <1>1, <1>2, <1>3, <1>4 DEF Balance

LEMMA FiniteOn ==
    ASSUME NEW o
    PROVE  /\ IsFiniteSet(KeptOn(o)) /\ IsFiniteSet(SolidOn(o)) /\ IsFiniteSet(DoubtfulOn(o))
           /\ KeptOn(o) \subseteq Node /\ SolidOn(o) \subseteq KeptOn(o)
           /\ DoubtfulOn(o) \subseteq Node
<1>1. /\ KeptOn(o) \subseteq Node /\ SolidOn(o) \subseteq KeptOn(o)
      /\ DoubtfulOn(o) \subseteq Node
  BY DEF KeptOn, SolidOn, DoubtfulOn, Solid
<1>2. IsFiniteSet(Node)
  BY ClusterAssumption
<1> QED
  BY <1>1, <1>2, FS_Subset

LEMMA FiniteOnNext ==
    ASSUME NEW o
    PROVE  IsFiniteSet(SolidOn(o)') /\ IsFiniteSet(DoubtfulOn(o)')
<1>1. SolidOn(o)' \subseteq Node /\ DoubtfulOn(o)' \subseteq Node
  BY DEF SolidOn, DoubtfulOn
<1> QED
  BY <1>1, ClusterAssumption, FS_Subset

LEMMA CoveredIs ==
    \A o : Covered(o) <=> Excused(o) \/ Balance(DoubtfulOn(o), SolidOn(o), Debt)
BY DEF Covered, Balance

-----------------------------------------------------------------------------
(* The balance of one object after a step.                                 *)

NotWorse(o, n) ==
    /\ Doubtful(o, n)' => Doubtful(o, n)
    /\ Solid(o, n) => Solid(o, n)'
Still(o, but) == \A n \in Node \ but : NotWorse(o, n)
Settles(o, f) == Doubtful(o, f) /\ ~Doubtful(o, f)'
StaysSolid(o, n) == Solid(o, n) => Solid(o, n)'

(* Nothing gets worse; or one node does and it is paid for, or a file has  *)
(* become solid there; or one node's trusted row is given up, for that of  *)
(* another node, or with its file, or both when that is paid for.          *)
Balances(o) ==
    \/ Still(o, {})
    \/ \E m \in Node : Still(o, {m}) /\ StaysSolid(o, m) /\ Debt' >= Debt + 1
    \/ \E m \in Node : Still(o, {m}) /\ ~Solid(o, m) /\ Solid(o, m)'
    \/ \E f \in Node, m \in Node : /\ Still(o, {f, m}) /\ Settles(o, f)
                                   /\ StaysSolid(o, f) /\ StaysSolid(o, m)
    \/ \E f \in Node : Still(o, {f}) /\ Settles(o, f)
    \/ \E f \in Node, m \in Node : /\ Still(o, {f, m}) /\ Settles(o, f)
                                   /\ StaysSolid(o, m) /\ Debt' >= Debt + 1

LEMMA StillSets ==
    ASSUME NEW o, NEW but, Still(o, but)
    PROVE  /\ DoubtfulOn(o)' \ but \subseteq DoubtfulOn(o) \ but
           /\ SolidOn(o) \ but \subseteq SolidOn(o)'
BY DEF Still, NotWorse, DoubtfulOn, SolidOn

LEMMA BalanceKept ==
    ASSUME NEW o, Debt \in Nat, Debt' \in Nat, Debt' >= Debt,
           Excused(o) => Excused(o)', Covered(o), Balances(o)
    PROVE  Covered(o)'
<1> DEFINE P == DoubtfulOn(o)
           Q == DoubtfulOn(o)'
           S == SolidOn(o)
           T == SolidOn(o)'
<1>1. /\ IsFiniteSet(P) /\ IsFiniteSet(S)
      /\ IsFiniteSet(Q) /\ IsFiniteSet(T)
  BY FiniteOn, FiniteOnNext
<1>3. Covered(o)' <=> Excused(o)' \/ Balance(Q, T, Debt')
  BY DEF Covered, Balance
<1>4. SUFFICES ASSUME Balance(P, S, Debt)
               PROVE  Balance(Q, T, Debt')
  BY <1>3, CoveredIs
<1>5. /\ \A n \in Node : n \in P <=> Doubtful(o, n)
      /\ \A n \in Node : n \in Q <=> Doubtful(o, n)'
      /\ \A n \in Node : n \in S <=> Solid(o, n)
      /\ \A n \in Node : n \in T <=> Solid(o, n)'
  BY DEF DoubtfulOn, SolidOn
<1>6. \A but : Still(o, but) => Q \ but \subseteq P \ but /\ S \ but \subseteq T
  BY StillSets
<1> HIDE DEF P, Q, S, T
<1>7. CASE Still(o, {})
  <2>1. Q \subseteq P /\ S \subseteq T
    BY <1>6, <1>7
  <2> QED
    BY <1>1, <1>4, <2>1, QuietBalance
<1>8. CASE \E m \in Node : Still(o, {m}) /\ StaysSolid(o, m) /\ Debt' >= Debt + 1
  <2>1. PICK m \in Node : Still(o, {m}) /\ StaysSolid(o, m) /\ Debt' >= Debt + 1
    BY <1>8
  <2>2. Q \subseteq P \cup {m} /\ S \subseteq T
    BY <1>5, <1>6, <2>1 DEF StaysSolid
  <2> QED
    BY <1>1, <1>4, <2>1, <2>2, PaidBalance
<1>9. CASE \E m \in Node : Still(o, {m}) /\ ~Solid(o, m) /\ Solid(o, m)'
  <2>1. PICK m \in Node : Still(o, {m}) /\ ~Solid(o, m) /\ Solid(o, m)'
    BY <1>9
  <2>2. Q \subseteq P \cup {m} /\ S \subseteq T /\ m \in T /\ m \notin S
    BY <1>5, <1>6, <2>1
  <2> QED
    BY <1>1, <1>4, <2>2, GainBalance
<1>10. CASE \E f \in Node, m \in Node : /\ Still(o, {f, m}) /\ Settles(o, f)
                                        /\ StaysSolid(o, f) /\ StaysSolid(o, m)
  <2>1. PICK f \in Node, m \in Node : /\ Still(o, {f, m}) /\ Settles(o, f)
                                      /\ StaysSolid(o, f) /\ StaysSolid(o, m)
    BY <1>10
  <2>2. f \in P /\ f \notin Q
    BY <1>5, <2>1 DEF Settles
  <2>3. Q \subseteq (P \ {f}) \cup {m} /\ S \subseteq T
    BY <1>5, <1>6, <2>1, <2>2 DEF StaysSolid
  <2> QED
    BY <1>1, <1>4, <2>2, <2>3, SwapBalance
<1>11. CASE \E f \in Node : Still(o, {f}) /\ Settles(o, f)
  <2>1. PICK f \in Node : Still(o, {f}) /\ Settles(o, f)
    BY <1>11
  <2>2. f \in P /\ f \notin Q
    BY <1>5, <2>1 DEF Settles
  <2>3. Q \subseteq P \ {f} /\ S \ {f} \subseteq T
    BY <1>6, <2>1, <2>2
  <2> QED
    BY <1>1, <1>4, <2>2, <2>3, TradeBalance
<1>12. CASE \E f \in Node, m \in Node : /\ Still(o, {f, m}) /\ Settles(o, f)
                                        /\ StaysSolid(o, m) /\ Debt' >= Debt + 1
  <2>1. PICK f \in Node, m \in Node : /\ Still(o, {f, m}) /\ Settles(o, f)
                                      /\ StaysSolid(o, m) /\ Debt' >= Debt + 1
    BY <1>12
  <2>2. f \in P /\ f \notin Q
    BY <1>5, <2>1 DEF Settles
  <2>3. Q \subseteq (P \ {f}) \cup {m} /\ S \ {f} \subseteq T
    BY <1>5, <1>6, <2>1, <2>2 DEF StaysSolid
  <2>4. Q \ {m} \subseteq P \ {f} /\ Q \subseteq (Q \ {m}) \cup {m}
    BY <2>3
  <2>5. Balance(Q \ {m}, T, Debt)
    BY <1>1, <1>4, <2>2, <2>3, <2>4, TradeBalance
  <2>6. IsFiniteSet(Q \ {m})
    BY <1>1, OneLess
  <2> QED
    BY <1>1, <2>1, <2>4, <2>5, <2>6, PaidBalance
<1> QED
  BY <1>7, <1>8, <1>9, <1>10, <1>11, <1>12 DEF Balances

(* Files that are kept stay so.                                            *)
KeepsFiles(o) == \A n \in Node : Kept(o, n) => Kept(o, n)'

LEMMA HeldKept ==
    ASSUME NEW o, Excused(o) => Excused(o)', Exists(o)' => Exists(o),
           Held(o), KeepsFiles(o)
    PROVE  Held(o)'
BY DEF Held, KeepsFiles, KeptOn

-----------------------------------------------------------------------------
(* What the goroutines rely on about rows, objects and each other.         *)

RowsHaveObjects ==
    \A o \in Object, n \in Node : ~Exists(o) => replica[o][n] = "NONE"

(* The row a recovery has inserted is its own until the object goes.       *)
RefillRow ==
    InRecovery => replica[she.obj][she.dest] = "RECOVERING" \/ ~Exists(she.obj)

(* A candidate's row has been HEALTHY and only the engine rewrites it.     *)
CandidateRows ==
    \A o \in Object, n \in Node :
        Candidate(o, n) => replica[o][n] \in {"HEALTHY", "LOST"} \/ ~Exists(o)

(* An object that is not in the metadata and that the loops do not know.   *)
Fresh(o) == /\ ~Exists(o)
            /\ o \notin she.rows /\ she.obj # o
            /\ o \notin rm.objs /\ rm.obj # o
Unissued ==
    \A o \in Object \ issued : /\ Fresh(o)
                               /\ \A r \in Request : req[r].obj # o
                               /\ \A n \in Node : ~LateCall(o, n)

(* Until its commit nobody but a request that did not find it knows of an  *)
(* upload's object, and the chunks it counts are there.                    *)
Uploads ==
    \A r \in Request : req[r].pc \in StorePc =>
        /\ Fresh(req[r].obj) /\ req[r].obj \in issued
        /\ \A s \in Request \ {r} : req[s].obj = req[r].obj =>
             req[s].pc = "done" /\ req[s].factor = 0
        /\ \A n \in req[r].todo : ~LateCall(req[r].obj, n)
Acked ==
    faults["rot"] = 0 =>
        \A r \in Request : req[r].pc \in StorePc =>
            \A n \in req[r].ok : /\ disk[req[r].obj][n] = "good"
                                 /\ ~LateCall(req[r].obj, n)

(* An object that was issued is there, or is removed, or not yet there.    *)
Accounted ==
    \A o \in issued : \/ Exists(o) \/ Excused(o)
                      \/ \E r \in Request : req[r].pc \in StorePc /\ req[r].obj = o

RequestsOwn == Unissued /\ Uploads /\ Acked /\ Accounted

LEMMA ActiveObject ==
    ASSUME RequestsOwn, NEW o \in Object, ~Fresh(o)
    PROVE  /\ Exists(o) \/ Excused(o)
           /\ o \in issued
BY DEF RequestsOwn, Unissued, Uploads, Accounted

(* A step of a loop or of the environment leaves fresh objects alone.      *)
Aloof(o) ==
    Fresh(o) => /\ Fresh(o)'
                /\ \A n \in Node : LateCall(o, n)' => LateCall(o, n)
                /\ faults'["rot"] = 0 =>
                     \A n \in Node : ~LateCall(o, n) => disk'[o][n] = disk[o][n]

LEMMA Backdrop ==
    ASSUME RequestTypes, RecordsOK, RequestsOwn, UNCHANGED <<req, issued>>,
           \A o \in Object : Exists(o)' <=> Exists(o),
           \A o \in Object : Aloof(o),
           faults'["rot"] = 0 => faults["rot"] = 0
    PROVE  /\ RequestsOwn' /\ RecordsOK'
           /\ \A o : Excused(o)' <=> Excused(o)
<1>1. \A o : Excused(o)' <=> Excused(o)
  BY DEF Excused, Deleting, Withdrawn
<1>2. RecordsOK'
  BY DEF RecordsOK, RecordOK
<1>3. Unissued'
  BY DEF RequestsOwn, Unissued, Aloof
<1>4. \A r \in Request : req[r].pc \in StorePc => req[r].obj \in Object
  BY DEF RecordsOK, RecordOK, UploadPc
<1>5. Uploads'
  <2> SUFFICES ASSUME NEW r \in Request, req[r].pc \in StorePc
               PROVE  /\ Fresh(req[r].obj)'
                      /\ \A n \in req[r].todo : ~LateCall(req[r].obj, n)'
    BY DEF RequestsOwn, Uploads, Fresh, LateCall, Exists
  <2>1. PICK o \in Object : o = req[r].obj
    BY <1>4
  <2>2. Fresh(o) /\ \A n \in req[r].todo : n \in Node /\ ~LateCall(o, n)
    BY <2>1 DEF RequestsOwn, Uploads, RequestTypes, RequestRec
  <2>3. Fresh(o)' /\ \A n \in req[r].todo : ~LateCall(o, n)'
    BY <2>2 DEF Aloof
  <2> QED
    BY <2>1, <2>3 DEF Fresh, LateCall, Exists
<1>6. Acked'
  <2>1. \A r \in Request : req[r].ok \in SUBSET Node
    BY DEF RequestTypes, RequestRec
  <2>2. \A r \in Request : req[r].pc \in StorePc => Fresh(req[r].obj)
    BY DEF RequestsOwn, Uploads
  <2> SUFFICES ASSUME faults'["rot"] = 0, NEW r \in Request, req[r].pc \in StorePc,
                      NEW n \in req[r].ok
               PROVE  disk'[req[r].obj][n] = "good" /\ ~LateCall(req[r].obj, n)'
    BY DEF Acked, LateCall
  <2>3. disk[req[r].obj][n] = "good" /\ ~LateCall(req[r].obj, n) /\ n \in Node
    BY <2>1 DEF RequestsOwn, Acked
  <2> QED
    BY <1>4, <2>2, <2>3 DEF Aloof
<1>7. Accounted'
  <2>1. issued \subseteq Object
    BY DEF RequestTypes
  <2> QED
    BY <1>1, <2>1 DEF RequestsOwn, Accounted
<1> QED
  BY <1>1, <1>2, <1>3, <1>5, <1>6, <1>7 DEF RequestsOwn

-----------------------------------------------------------------------------
(* The self-healing engine.                                                *)

(* What the step of a loop has to show.                                    *)
Loops ==
    /\ \A o \in Object : Exists(o)' <=> Exists(o)
    /\ \A o \in Object : Aloof(o)
    /\ \A o \in Object : ~Excused(o) => Balances(o)
    /\ RowsHaveObjects' /\ RefillRow' /\ CandidateRows' /\ ListedRows'

Steadily(o, n) == NotWorse(o, n) /\ (Kept(o, n) => Kept(o, n)')
SameFile(o, n) == /\ replica'[o][n] = replica[o][n] /\ disk'[o][n] = disk[o][n]
                  /\ LateCall(o, n)' <=> LateCall(o, n)

LEMMA OutsideRecovery ==
    ASSUME NEW o, NEW n, SameFile(o, n), UNCHANGED rm,
           ~Refilled(o, n), ~Refilled(o, n)'
    PROVE  Steadily(o, n)
<1>1. /\ Endangered(o, n)' <=> Endangered(o, n)
      /\ Condemned(o, n)' <=> Condemned(o, n)
      /\ Candidate(o, n)' <=> Candidate(o, n)
      /\ Inserting(o, n)' <=> Inserting(o, n)
  BY DEF Endangered, Condemned, Candidate, Inserting
<1>2. Kept(o, n)' <=> Kept(o, n)
  BY <1>1 DEF SameFile, Kept
<1>3. Solid(o, n)' <=> Solid(o, n)
  BY <1>1, <1>2 DEF SameFile, Solid
<1>4. Doubtful(o, n)' <=> Doubtful(o, n)
  BY <1>1 DEF SameFile, Doubtful
<1> QED
  BY <1>2, <1>3, <1>4 DEF Steadily, NotWorse

(* An object that the step does not touch keeps its balance.               *)
LEMMA AllSteady ==
    ASSUME NEW o, \A n \in Node : Steadily(o, n)
    PROVE  Balances(o) /\ KeepsFiles(o)
BY DEF Steadily, Balances, Still, KeepsFiles

LEMMA SameRows ==
    ASSUME RowsHaveObjects, CandidateRows, UNCHANGED <<factor, replica, rm>>
    PROVE  RowsHaveObjects' /\ CandidateRows'
BY DEF RowsHaveObjects, CandidateRows, Exists, Candidate, Condemned

(* A step that touches one object, which one of the loops has in hand.     *)
Touches(x) ==
    \A o \in Object, n \in Node :
        o # x => /\ disk'[o][n] = disk[o][n] /\ replica'[o][n] = replica[o][n]
                 /\ LateCall(o, n)' <=> LateCall(o, n)

LEMMA CallTouches ==
    ASSUME NEW o, NEW n, NEW op \in {"store", "delete"}, CallOutcome(o, n, op)
    PROVE  /\ \A a \in Object, b \in Node : a # o \/ b # n =>
                /\ disk'[a][b] = disk[a][b] /\ (LateCall(a, b)' <=> LateCall(a, b))
           /\ \A a, b : LateCall(a, b) => LateCall(a, b)'
           /\ \/ late' = late
              \/ disk' = disk /\ LateCall(o, n)' /\ Costs(1)
BY DEF CallOutcome, OneFile, LateCall

LEMMA AloofWhenTouching ==
    ASSUME NEW x, Touches(x), UNCHANGED <<factor, rm>>, x = she.obj,
           she'.rows = she.rows, she'.obj \in {x, NoObject}
    PROVE  \A o \in Object : Aloof(o)
<1>1. \A o \in Object : o # NoObject
  BY ClusterAssumption
<1> QED
  BY <1>1 DEF Touches, Aloof, Fresh, Exists

LEMMA HealerQuietly ==
    ASSUME SHTypeOK, Locals, ListedRows, QuietStep, UNCHANGED rm,
           RowsHaveObjects, CandidateRows
    PROVE  /\ SHTypeOK' /\ Locals' /\ Costs(0) /\ faults'["rot"] = faults["rot"]
           /\ Loops /\ \A o \in Object : KeepsFiles(o)
<1>1. /\ SHTypeOK' /\ Locals' /\ ListedRows'
      /\ UNCHANGED <<factor, replica, disk, late>>
      /\ Costs(0) /\ faults'["rot"] = faults["rot"]
      /\ ~InRecovery /\ ~InRecovery' /\ Taken
  BY HealerReads
<1>2. RowsHaveObjects' /\ CandidateRows'
  BY <1>1, SameRows
<1>3. ASSUME NEW o \in Object
      PROVE  Balances(o) /\ KeepsFiles(o)
  <2>1. ASSUME NEW n \in Node
        PROVE  Steadily(o, n)
    <3>1. SameFile(o, n) /\ ~Refilled(o, n) /\ ~Refilled(o, n)'
      BY <1>1 DEF SameFile, LateCall, Refilled
    <3> QED
      BY <3>1, OutsideRecovery
  <2> QED
    BY <2>1, AllSteady
<1>4. ASSUME NEW o \in Object, Fresh(o)
      PROVE  Fresh(o)'
  <2>1. ReplicaRows(o) = {}
    BY <1>4 DEF Fresh, RowsHaveObjects, ReplicaRows
  <2>2. o # NoObject
    BY ClusterAssumption
  <2> QED
    BY <1>1, <1>4, <2>1, <2>2 DEF Fresh, Taken, Exists
<1>5. \A o \in Object : Aloof(o)
  BY <1>1, <1>4 DEF Aloof, LateCall
<1>6. RefillRow' /\ \A o \in Object : Exists(o)' <=> Exists(o)
  BY <1>1 DEF RefillRow, Exists
<1> QED
  BY <1>1, <1>2, <1>3, <1>5, <1>6 DEF Loops

(* Rows that are still to be healed are none of the one in hand.           *)
LEMMA ListedAfterWrite ==
    ASSUME ListedRows, SameRow, UNCHANGED listed, Touches(she.obj),
           she.failed \in Node,
           she.pc \in {"record", "push", "compensate", "finalize"},
           \/ she'.pc \in {"push", "compensate", "finalize"} /\ she'.obj = she.obj
           \/ she'.pc = "rows"
    PROVE  ListedRows'
<1>1. she.obj \notin she.rows /\ she'.failed = she.failed /\ she'.rows = she.rows
  BY DEF ListedRows, SameRow
<1>2. ASSUME NEW o \in Object, ToHeal(o)', <<o, she'.failed>> \in listed'
      PROVE  o \in she.rows /\ o # she.obj /\ <<o, she.failed>> \in listed
  BY <1>1, <1>2 DEF ToHeal
<1>3. ASSUME NEW o \in Object, ToHeal(o)', <<o, she'.failed>> \in listed'
      PROVE  replica'[o][she'.failed] \in {"HEALTHY", "RECOVERING"}
  <2>1. replica[o][she.failed] \in {"HEALTHY", "RECOVERING"}
    BY <1>2, <1>3 DEF ListedRows, ToHeal
  <2>2. replica'[o][she.failed] = replica[o][she.failed]
    BY <1>2, <1>3 DEF Touches
  <2> QED
    BY <1>1, <2>1, <2>2
<1>4. she'.pc \notin {"idle", "nodes", "rows"} => she'.obj \notin she'.rows
  BY <1>1
<1> QED
  BY <1>3, <1>4 DEF ListedRows

-----------------------------------------------------------------------------
(* The writes of the engine, for the object it has in hand.                *)

RelyOnRows == /\ RowsHaveObjects /\ RefillRow /\ CandidateRows /\ ListedRows
              /\ RequestsOwn

(* RecordRecovery gives up the row of the failed node for a new one.       *)
LEMMA RecordAt ==
    ASSUME SHTypeOK, Locals, RelyOnRows, RecordRecovery, UNCHANGED rm,
           NEW o, NEW f, NEW d, o = she.obj, f = she.failed, d = she.dest,
           RowIsListed, CanInsert(she.obj, she.dest), MarkLostAndInsert,
           UNCHANGED <<disk, late>>,
           \/ she'.pc = "push" /\ she'.obj = she.obj /\ she'.dest = she.dest
           \/ Costs(1) /\ she'.pc = "rows" /\ she'.obj = NoObject
    PROVE  /\ Balances(o) /\ KeepsFiles(o) /\ Touches(o)
           /\ replica'[o][d] = "RECOVERING"
           /\ RowsHaveObjects' /\ CandidateRows'
<1>1. /\ o \in Object /\ f \in Node /\ d \in Node /\ she.pc = "record"
      /\ replica \in [Object -> [Node -> RowStatus]] /\ UNCHANGED factor
      /\ o # NoObject /\ faults \in [FaultKind -> Nat]
  BY ClusterAssumption, HealerWrites
     DEF Locals, RecordRecovery, At, SHTypeOK, ClusterTypeOK
<1>2. replica[o][f] \in {"HEALTHY", "RECOVERING"}
  BY <1>1 DEF RelyOnRows, ListedRows, ToHeal, RowIsListed
<1>3. replica[o][d] = "NONE" /\ Exists(o) /\ f # d
  BY <1>2 DEF CanInsert
<1>4. /\ replica'[o][f] = "LOST" /\ replica'[o][d] = "RECOVERING"
      /\ \A a \in Object, n \in Node :
           a # o \/ n \notin {f, d} => replica'[a][n] = replica[a][n]
  BY <1>1, <1>3 DEF MarkLostAndInsert
<1>5. /\ \A a, n : Endangered(a, n)' <=> Endangered(a, n)
      /\ \A a, n : Condemned(a, n)' <=> Condemned(a, n)
      /\ \A a, n : Candidate(a, n)' <=> Candidate(a, n)
      /\ \A a, n : Inserting(a, n)' <=> Inserting(a, n)
      /\ \A a, n : LateCall(a, n)' <=> LateCall(a, n)
  BY DEF Endangered, Condemned, Candidate, Inserting, LateCall
<1>6. ~Candidate(o, d) /\ ~Condemned(o, d)
  BY <1>1, <1>3 DEF RelyOnRows, CandidateRows, Candidate
<1>7. Candidate(o, f) => replica[o][f] = "HEALTHY"
  BY <1>1, <1>2, <1>3 DEF RelyOnRows, CandidateRows
<1>8. Touches(o)
  BY <1>1, <1>4, <1>5 DEF Touches
<1>9. RowsHaveObjects'
  <2>1. \A a \in Object : Exists(a)' <=> Exists(a)
    BY <1>1 DEF Exists
  <2> QED
    BY <1>1, <1>3, <1>4, <2>1 DEF RelyOnRows, RowsHaveObjects
<1>10. CandidateRows'
  <2> SUFFICES ASSUME NEW a \in Object, NEW n \in Node, Candidate(a, n)'
               PROVE  replica'[a][n] \in {"HEALTHY", "LOST"} \/ ~Exists(a)'
    BY DEF CandidateRows
  <2>1. replica[a][n] \in {"HEALTHY", "LOST"} \/ ~Exists(a)
    BY <1>5 DEF RelyOnRows, CandidateRows
  <2>2. Exists(a)' <=> Exists(a)
    BY <1>1 DEF Exists
  <2> QED
    BY <1>1, <1>4, <1>5, <1>6, <2>1, <2>2
<1>11. \A n : ~Refilled(o, n)
  BY <1>1 DEF Refilled, InRecovery
<1>12. \A n \in Node \ {d} : ~Refilled(o, n)'
  BY <1>1 DEF Refilled, InRecovery
<1>13. \A n \in Node \ {f, d} : Steadily(o, n)
  BY <1>1, <1>4, <1>5, <1>11, <1>12, OutsideRecovery DEF SameFile
<1>14. ~Kept(o, d) /\ ~Solid(o, d)
  BY <1>3 DEF Kept, Solid
<1>15. Kept(o, f) => Kept(o, f)'
  BY <1>4, <1>5 DEF Kept
<1>16. KeepsFiles(o)
  BY <1>13, <1>14, <1>15 DEF KeepsFiles, Steadily
<1>17. /\ Doubtful(o, f)' <=> LateCall(o, f) /\ Candidate(o, f)
       /\ Condemned(o, f) \/ Doubtful(o, f)
       /\ LateCall(o, f) => Doubtful(o, f)
       /\ ~Candidate(o, f) => StaysSolid(o, f)
       /\ LateCall(o, f) \/ Condemned(o, f) => ~Solid(o, f)
       /\ Condemned(o, f) => Candidate(o, f)
  <2>1. Doubtful(o, f)' <=> LateCall(o, f) /\ Candidate(o, f)
    BY <1>4, <1>5 DEF Doubtful
  <2>2. Condemned(o, f) \/ Doubtful(o, f)
    BY <1>2, <1>11 DEF Doubtful
  <2>3. LateCall(o, f) => Doubtful(o, f)
    BY <1>2 DEF Doubtful
  <2>4. ~Candidate(o, f) => StaysSolid(o, f)
    BY <1>5, <1>15 DEF StaysSolid, Solid
  <2> QED
    BY <2>1, <2>2, <2>3, <2>4 DEF Solid, Kept, Candidate
<1>18. StaysSolid(o, d)
  BY <1>14 DEF StaysSolid
<1>19. \A but : (\A n \in Node \ but : n \notin {f, d} \/ NotWorse(o, n)) => Still(o, but)
  BY <1>13 DEF Still, Steadily
<1>20. Candidate(o, f) => ~Endangered(o, d)
  BY DEF Candidate, Condemned, Endangered
<1>21. she'.pc = "push" /\ ~Endangered(o, d) => NotWorse(o, d)
  <2> SUFFICES ASSUME she'.pc = "push", ~Endangered(o, d), Doubtful(o, d)'
               PROVE  Doubtful(o, d)
    BY <1>14 DEF NotWorse
  <2>1. Refilled(o, d)'
    BY <1>1 DEF Refilled, InRecovery
  <2>2. LateCall(o, d)
    BY <1>4, <1>5, <2>1 DEF Doubtful
  <2> QED
    BY <1>3, <2>2 DEF Doubtful
<1>22. Costs(1) => Debt' >= Debt + 1
  BY <1>1, DebtGrows
<1>23. Balances(o)
  <2>1. CASE (LateCall(o, f) /\ Candidate(o, f)) \/ Condemned(o, f)
    <3>1. NotWorse(o, f)
      BY <1>17, <2>1 DEF NotWorse
    <3>2. ~Endangered(o, d)
      BY <1>17, <1>20, <2>1
    <3>3. CASE she'.pc = "push"
      <4>1. NotWorse(o, d)
        BY <1>21, <3>2, <3>3
      <4>2. Still(o, {})
        BY <1>19, <3>1, <4>1
      <4> QED
        BY <4>2 DEF Balances
    <3>4. CASE Costs(1)
      <4>1. Still(o, {d})
        BY <1>19, <3>1
      <4> QED
        BY <1>1, <1>18, <1>22, <3>4, <4>1 DEF Balances
    <3> QED
      BY <3>3, <3>4
  <2>2. CASE ~(LateCall(o, f) /\ Candidate(o, f)) /\ ~Condemned(o, f)
    <3>1. Settles(o, f)
      BY <1>17, <2>2 DEF Settles
    <3>2. Still(o, {f, d})
      BY <1>19
    <3>3. CASE ~Candidate(o, f)
      BY <1>1, <1>17, <1>18, <3>1, <3>2, <3>3 DEF Balances
    <3>4. CASE Candidate(o, f) /\ she'.pc = "push"
      <4>1. NotWorse(o, d)
        BY <1>20, <1>21, <3>4
      <4>2. Still(o, {f})
        BY <1>19, <4>1
      <4> QED
        BY <1>1, <3>1, <4>2 DEF Balances
    <3>5. CASE Costs(1)
      BY <1>1, <1>18, <1>22, <3>1, <3>2, <3>5 DEF Balances
    <3> QED
      BY <3>3, <3>4, <3>5
  <2> QED
    BY <2>1, <2>2
<1> QED
  BY <1>4, <1>8, <1>9, <1>10, <1>16, <1>23

(* The recovery's own row, unless the object is being removed.             *)
LEMMA RowInHand ==
    ASSUME RelyOnRows, NEW o \in Object, o = she.obj, InRecovery, ~Excused(o)
    PROVE  replica[o][she.dest] = "RECOVERING" /\ Exists(o)
<1>1. ~Fresh(o)
  BY DEF Fresh
<1>2. Exists(o)
  BY <1>1, ActiveObject DEF RelyOnRows
<1> QED
  BY <1>2 DEF RelyOnRows, RefillRow

(* PushChunk: the file is good when the recovery is to be finalized.       *)
LEMMA RefillAt ==
    ASSUME SHTypeOK, Locals, RelyOnRows, PushChunk, UNCHANGED rm,
           NEW o, NEW d, o = she.obj, d = she.dest, ~Excused(o)
    PROVE  Balances(o) /\ KeepsFiles(o)
<1>1. /\ UNCHANGED <<replica, listed>> /\ she.pc = "push"
      /\ she'.obj = o /\ she'.dest = d /\ she'.pc \in {"compensate", "finalize"}
      /\ CallOutcome(o, d, "store")
      /\ she'.pc = "finalize" => disk'[o][d] = "good" /\ late' = late
  BY RefillShape
<1>2. o \in Object /\ d \in Node /\ faults \in [FaultKind -> Nat]
  BY <1>1 DEF Locals, SHTypeOK, ClusterTypeOK
<1>3. replica[o][d] = "RECOVERING"
  BY <1>1, <1>2, RowInHand DEF InRecovery
<1>4. \A n \in Node \ {d} : /\ disk'[o][n] = disk[o][n]
                            /\ LateCall(o, n)' <=> LateCall(o, n)
  BY <1>1, <1>2, CallTouches
<1>5. late' = late \/ Costs(1)
  BY <1>1, CallTouches
<1>6. \A n \in Node \ {d} : Steadily(o, n)
  <2>1. \A n \in Node \ {d} : /\ SameFile(o, n)
                              /\ ~Refilled(o, n) /\ ~Refilled(o, n)'
    BY <1>1, <1>2, <1>4 DEF SameFile, Refilled
  <2> QED
    BY <2>1, OutsideRecovery
<1>7. ~Kept(o, d) /\ ~Solid(o, d)
  BY <1>3 DEF Kept, Solid
<1>8. KeepsFiles(o)
  BY <1>6, <1>7 DEF KeepsFiles, Steadily
<1>9. CASE late' = late
  <2>1. Refilled(o, d) /\ Refilled(o, d)' /\ she.pc # "finalize"
    BY <1>1 DEF Refilled, InRecovery
  <2>2. Doubtful(o, d)' => Doubtful(o, d)
    <3>1. (Endangered(o, d)' <=> Endangered(o, d)) /\ (LateCall(o, d)' <=> LateCall(o, d))
      BY <1>9 DEF Endangered, LateCall
    <3>2. replica'[o][d] = "RECOVERING" /\ she'.pc = "finalize" => disk'[o][d] = "good"
      BY <1>1, <1>3
    <3>3. Doubtful(o, d)' => Endangered(o, d) \/ LateCall(o, d)
      BY <1>1, <1>3, <2>1, <3>1, <3>2 DEF Doubtful
    <3> QED
      BY <1>3, <3>3 DEF Doubtful
  <2>3. Still(o, {})
    BY <1>6, <1>7, <2>2 DEF Still, Steadily, NotWorse
  <2> QED
    BY <1>8, <2>3 DEF Balances
<1>10. CASE Costs(1)
  <2>1. Still(o, {d}) /\ StaysSolid(o, d) /\ Debt' >= Debt + 1
    BY <1>2, <1>6, <1>7, <1>10, DebtGrows DEF Still, Steadily, StaysSolid
  <2> QED
    BY <1>2, <1>8, <2>1 DEF Balances
<1> QED
  BY <1>5, <1>9, <1>10

(* Compensate and Finalize: a row that turns HEALTHY has its file, unless  *)
(* that was doubtful all along.                                            *)
LEMMA LastAt ==
    ASSUME SHTypeOK, Locals, RelyOnRows, UNCHANGED rm,
           NEW status \in {"LOST", "HEALTHY"},
           \/ status = "LOST" /\ Compensate
           \/ status = "HEALTHY" /\ Finalize,
           NEW o, NEW d, o = she.obj, d = she.dest, ~Excused(o)
    PROVE  Balances(o) /\ KeepsFiles(o)
<1>1. /\ UNCHANGED <<disk, late, listed>> /\ o \in Object /\ d \in Node
      /\ she.pc = IF status = "LOST" THEN "compensate" ELSE "finalize"
      /\ she'.pc = "rows" /\ she'.obj = NoObject
      /\ faults \in [FaultKind -> Nat] /\ ClusterTypeOK /\ UNCHANGED factor
  BY LastShape, HealerWrites DEF SHTypeOK, ClusterTypeOK
<1>2. InRecovery /\ ~InRecovery'
  BY <1>1 DEF InRecovery
<1>3. replica[o][d] = "RECOVERING" /\ Exists(o)
  BY <1>1, <1>2, RowInHand
<1>4. \/ SetRow(o, d, status)
      \/ Costs(1) /\ UNCHANGED replica
  BY <1>3, LastShape
<1>5. /\ \A n \in Node \ {d} : replica'[o][n] = replica[o][n]
      /\ SetRow(o, d, status) => replica'[o][d] = status
  BY <1>1, <1>4, RowSet DEF RowStatus
<1>6. /\ Endangered(o, d)' <=> Endangered(o, d)
      /\ Condemned(o, d)' <=> Condemned(o, d)
      /\ Candidate(o, d)' <=> Candidate(o, d)
      /\ \A n : LateCall(o, n)' <=> LateCall(o, n)
  BY <1>1 DEF Endangered, Condemned, Candidate, LateCall
<1>7. ~Candidate(o, d) /\ ~Condemned(o, d)
  BY <1>1, <1>3 DEF RelyOnRows, CandidateRows, Candidate
<1>8. \A n \in Node \ {d} : Steadily(o, n)
  <2>1. \A n \in Node \ {d} : /\ SameFile(o, n)
                              /\ ~Refilled(o, n) /\ ~Refilled(o, n)'
    BY <1>1, <1>2, <1>5, <1>6 DEF SameFile, Refilled
  <2> QED
    BY <2>1, OutsideRecovery
<1>9. ~Kept(o, d) /\ ~Solid(o, d)
  BY <1>3 DEF Kept, Solid
<1>10. KeepsFiles(o)
  BY <1>8, <1>9 DEF KeepsFiles, Steadily
<1>11. CASE SetRow(o, d, status) /\ status = "LOST"
  <2>1. Doubtful(o, d)' => LateCall(o, d)
    BY <1>5, <1>6, <1>11 DEF Doubtful
  <2>2. Doubtful(o, d)' => Doubtful(o, d)
    BY <1>3, <2>1 DEF Doubtful
  <2>3. Still(o, {})
    BY <1>8, <1>9, <2>2 DEF Still, Steadily, NotWorse
  <2> QED
    BY <1>10, <2>3 DEF Balances
<1>12. CASE SetRow(o, d, status) /\ status = "HEALTHY"
  <2>1. CASE Doubtful(o, d)
    <3>1. Still(o, {})
      BY <1>8, <1>9, <2>1 DEF Still, Steadily, NotWorse
    <3> QED
      BY <1>10, <3>1 DEF Balances
  <2>2. CASE ~Doubtful(o, d)
    <3>1. ~Endangered(o, d) /\ disk[o][d] = "good" /\ ~LateCall(o, d)
      BY <1>1, <1>3, <1>12, <2>2 DEF Doubtful
    <3>2. Solid(o, d)'
      BY <1>1, <1>5, <1>6, <1>7, <1>12, <3>1 DEF Solid, Kept
    <3>3. Still(o, {d})
      BY <1>8 DEF Still, Steadily
    <3> QED
      BY <1>1, <1>9, <1>10, <3>2, <3>3 DEF Balances
  <2> QED
    BY <2>1, <2>2
<1>13. CASE Costs(1)
  <2>1. Still(o, {d}) /\ StaysSolid(o, d) /\ Debt' >= Debt + 1
    BY <1>1, <1>8, <1>9, <1>13, DebtGrows DEF Still, Steadily, StaysSolid
  <2> QED
    BY <1>1, <1>10, <2>1 DEF Balances
<1> QED
  BY <1>4, <1>11, <1>12, <1>13

LEMMA OtherObjects ==
    ASSUME NEW x, Touches(x), UNCHANGED rm, x = she.obj,
           she'.obj \in {x, NoObject}, NEW o \in Object, o # x
    PROVE  Balances(o) /\ KeepsFiles(o)
<1>1. o # NoObject
  BY ClusterAssumption
<1>2. \A n \in Node : SameFile(o, n) /\ ~Refilled(o, n) /\ ~Refilled(o, n)'
  BY <1>1 DEF Touches, SameFile, Refilled
<1>3. \A n \in Node : Steadily(o, n)
  BY <1>2, OutsideRecovery
<1> QED
  BY <1>3, AllSteady

(* What is left to show of a write, when its own object has been seen to.  *)
LEMMA WriteLoops ==
    ASSUME NEW x, x = she.obj, she.failed \in Node, UNCHANGED <<factor, rm>>,
           RowsHaveObjects', CandidateRows', RefillRow',
           ListedRows, SameRow, UNCHANGED listed, Touches(x),
           she.pc \in {"record", "push", "compensate", "finalize"},
           \/ she'.pc \in {"push", "compensate", "finalize"} /\ she'.obj = x
           \/ she'.pc = "rows" /\ she'.obj = NoObject,
           x \in Object /\ ~Excused(x) => Balances(x) /\ KeepsFiles(x)
    PROVE  Loops /\ \A o \in Object : ~Excused(o) => KeepsFiles(o)
<1>1. ListedRows'
  BY ListedAfterWrite
<1>2. \A o \in Object : Aloof(o)
  BY AloofWhenTouching DEF SameRow
<1>3. \A o \in Object : ~Excused(o) => Balances(o) /\ KeepsFiles(o)
  <2> SUFFICES ASSUME NEW o \in Object, ~Excused(o), o # x
               PROVE  Balances(o) /\ KeepsFiles(o)
    OBVIOUS
  <2> QED
    BY OtherObjects
<1>4. \A o \in Object : Exists(o)' <=> Exists(o)
  BY DEF Exists
<1> QED
  BY <1>1, <1>2, <1>3, <1>4 DEF Loops

LEMMA HealerWriting ==
    ASSUME SHTypeOK, Locals, RelyOnRows, UNCHANGED rm,
           RecordRecovery \/ PushChunk \/ Compensate \/ Finalize
    PROVE  /\ HealerTyped /\ Costs(0)
           /\ Loops /\ \A o \in Object : ~Excused(o) => KeepsFiles(o)
<1> DEFINE Goal == /\ Costs(0) /\ Loops
                   /\ \A o \in Object : ~Excused(o) => KeepsFiles(o)
<1>1. /\ HealerTyped /\ UNCHANGED factor
      /\ she.obj \in Object /\ she.failed \in Node /\ she.dest \in Node
  BY HealerWrites
<1>2. PICK o, f, d : o = she.obj /\ f = she.failed /\ d = she.dest
  OBVIOUS
<1>3. ClusterTypeOK /\ faults \in [FaultKind -> Nat]
  BY DEF SHTypeOK, ClusterTypeOK
<1>c. Costs(1) => Costs(0)
  <2>1. Mishaps \in Nat
    BY <1>3, CountsTyped
  <2>2. Costs(1) => Mishaps' \in Nat
    BY DEF Costs, Counted, Mishaps, FaultKind
  <2> QED
    BY <2>1, <2>2 DEF Costs
<1>4. CASE RecordRecovery
  <2>1. /\ UNCHANGED <<disk, late, listed>> /\ she.pc = "record" /\ SameRow
        /\ \/ Costs(0) /\ UNCHANGED replica /\ she'.pc = "rows"
                       /\ she'.obj = NoObject
           \/ /\ RowIsListed /\ CanInsert(she.obj, she.dest) /\ MarkLostAndInsert
              /\ \/ /\ Costs(0) /\ she'.pc = "push"
                    /\ she'.obj = she.obj /\ she'.dest = she.dest
                 \/ Costs(1) /\ she'.pc = "rows" /\ she'.obj = NoObject
    BY <1>4, RecordShape
  <2>2. CASE UNCHANGED replica /\ she'.pc = "rows" /\ she'.obj = NoObject /\ Costs(0)
    <3>1. ~InRecovery' /\ ~InRecovery
      BY <2>1, <2>2 DEF InRecovery
    <3>2. RowsHaveObjects' /\ CandidateRows' /\ RefillRow' /\ Touches(o)
      BY <1>1, <2>1, <2>2, <3>1, SameRows DEF RelyOnRows, RefillRow, Touches, LateCall
    <3>3. \A n \in Node : SameFile(o, n) /\ ~Refilled(o, n) /\ ~Refilled(o, n)'
      BY <2>1, <2>2, <3>1 DEF SameFile, Refilled, LateCall
    <3>4. Balances(o) /\ KeepsFiles(o)
      BY <3>3, OutsideRecovery, AllSteady
    <3> QED
      BY <1>1, <1>2, <2>1, <2>2, <3>2, <3>4, WriteLoops DEF RelyOnRows
  <2>3. CASE /\ RowIsListed /\ CanInsert(she.obj, she.dest) /\ MarkLostAndInsert
             /\ \/ /\ Costs(0) /\ she'.pc = "push"
                   /\ she'.obj = she.obj /\ she'.dest = she.dest
                \/ Costs(1) /\ she'.pc = "rows" /\ she'.obj = NoObject
    <3>1. /\ Balances(o) /\ KeepsFiles(o) /\ Touches(o)
          /\ replica'[o][d] = "RECOVERING"
          /\ RowsHaveObjects' /\ CandidateRows'
      BY <1>2, <1>4, <2>1, <2>3, RecordAt
    <3>2. RefillRow'
      BY <1>2, <2>3, <3>1 DEF RefillRow, InRecovery
    <3> QED
      BY <1>1, <1>2, <1>c, <2>1, <2>3, <3>1, <3>2, WriteLoops DEF RelyOnRows
  <2> QED
    BY <1>1, <2>1, <2>2, <2>3
<1>5. CASE PushChunk
  <2>1. /\ UNCHANGED <<replica, listed>> /\ SameRow /\ she.pc = "push"
        /\ she'.obj = o /\ she'.dest = d
        /\ CallOutcome(o, d, "store") /\ she'.pc \in {"compensate", "finalize"}
    BY <1>2, <1>5, RefillShape
  <2>2. RowsHaveObjects' /\ CandidateRows'
    BY <1>1, <2>1, SameRows DEF RelyOnRows
  <2>3. Touches(o) /\ Costs(0)
    BY <2>1, CallTouches DEF Touches, CallOutcome
  <2>4. RefillRow'
    BY <1>1, <1>2, <2>1 DEF RelyOnRows, RefillRow, InRecovery, Exists
  <2>5. ~Excused(o) => Balances(o) /\ KeepsFiles(o)
    BY <1>2, <1>5, RefillAt
  <2> QED
    BY <1>1, <1>2, <2>1, <2>2, <2>3, <2>4, <2>5, WriteLoops DEF RelyOnRows
<1>6. CASE Compensate \/ Finalize
  <2>1. PICK status \in {"LOST", "HEALTHY"} :
          \/ status = "LOST" /\ Compensate
          \/ status = "HEALTHY" /\ Finalize
    BY <1>6
  <2>2. /\ UNCHANGED <<disk, late, listed>> /\ SameRow
        /\ she.pc = IF status = "LOST" THEN "compensate" ELSE "finalize"
        /\ she'.pc = "rows" /\ she'.obj = NoObject
        /\ \/ /\ replica[o][d] # "NONE"
              /\ \/ Costs(0) /\ SetRow(o, d, status)
                 \/ Costs(1) /\ SetRow(o, d, status)
                 \/ Costs(1) /\ UNCHANGED replica
           \/ /\ replica[o][d] = "NONE"
              /\ UNCHANGED replica /\ Costs(0)
    BY <1>2, <2>1, LastShape
  <2>3. \/ UNCHANGED replica
        \/ /\ replica'[o][d] \in {"LOST", "HEALTHY"} /\ replica[o][d] # "NONE"
           /\ \A a \in Object, n \in Node :
                a # o \/ n # d => replica'[a][n] = replica[a][n]
    BY <1>1, <1>2, <1>3, <2>2, RowSet DEF RowStatus
  <2>4. Touches(o)
    BY <2>2, <2>3 DEF Touches, LateCall
  <2>5. RowsHaveObjects'
    BY <1>1, <1>2, <2>3 DEF RelyOnRows, RowsHaveObjects, Exists
  <2>6. CandidateRows'
    BY <1>1, <1>2, <2>3 DEF RelyOnRows, CandidateRows, Exists, Candidate, Condemned
  <2>7. RefillRow'
    BY <2>2 DEF RefillRow, InRecovery
  <2>8. ~Excused(o) => Balances(o) /\ KeepsFiles(o)
    BY <1>2, <2>1, LastAt
  <2>9. Costs(0) /\ she.pc \in {"compensate", "finalize"}
    BY <1>c, <2>2
  <2> QED
    BY <1>1, <1>2, <2>2, <2>4, <2>5, <2>6, <2>7, <2>8, <2>9, WriteLoops DEF RelyOnRows
<1> QED
  BY <1>1, <1>4, <1>5, <1>6

LEMMA HealerSteps ==
    ASSUME SHTypeOK, Locals, RelyOnRows, UNCHANGED rm, SHEStep
    PROVE  /\ HealerTyped /\ Costs(0)
           /\ Loops /\ \A o \in Object : ~Excused(o) => KeepsFiles(o)
<1>1. QuietStep \/ RecordRecovery \/ PushChunk \/ Compensate \/ Finalize
  BY DEF SHEStep, QuietStep
<1>2. CASE QuietStep
  BY <1>2, HealerQuietly DEF HealerTyped, RelyOnRows
<1> QED
  BY <1>1, <1>2, HealerWriting

-----------------------------------------------------------------------------
(* The replication manager.                                                *)

(* A node for which the step changes no plan, unless it is one to read.    *)
SamePlans(o, n) ==
    /\ Endangered(o, n)' => Endangered(o, n) \/ replica[o][n] = "NONE"
    /\ Candidate(o, n)' => Candidate(o, n) \/ replica[o][n] = "HEALTHY"
    /\ Condemned(o, n)' <=> Condemned(o, n)
    /\ Inserting(o, n)' => Inserting(o, n)

LEMMA OutsidePlans ==
    ASSUME NEW o, NEW n, SameFile(o, n), UNCHANGED she, SamePlans(o, n)
    PROVE  Steadily(o, n)
<1>1. Refilled(o, n)' <=> Refilled(o, n)
  BY DEF Refilled, InRecovery
<1>2. Kept(o, n) => Kept(o, n)'
  BY DEF SameFile, SamePlans, Kept
<1>3. Solid(o, n) => Solid(o, n)'
  BY <1>2 DEF SameFile, SamePlans, Solid
<1>4. Doubtful(o, n)' => Doubtful(o, n)
  BY <1>1 DEF SameFile, SamePlans, Doubtful
<1> QED
  BY <1>2, <1>3, <1>4 DEF Steadily, NotWorse

LEMMA ScalerQuietly ==
    ASSUME ReplicationTypeOK, OwnVariables, ReadStep, UNCHANGED she, Locals, RelyOnRows
    PROVE  /\ ScalerTyped /\ Costs(0)
           /\ Loops /\ \A o \in Object : KeepsFiles(o)
<1>1. /\ ReplicationTypeOK' /\ OwnVariables'
      /\ UNCHANGED <<replica, nodeStatus, disk, late, listed>>
      /\ Costs(0) /\ faults'["rot"] = faults["rot"]
      /\ \A o \in Object : Exists(o)' <=> Exists(o)
      /\ rm.pc \notin WorkPc /\ rm'.pc \notin WorkPc
      /\ Planned /\ Picked
  BY ScalerReads
<1>2. \A o, n : /\ ~Condemned(o, n) /\ ~Condemned(o, n)'
                /\ ~Inserting(o, n) /\ ~Inserting(o, n)'
  BY <1>1 DEF Condemned, Inserting, WorkPc
<1>3. ASSUME NEW o \in Object
      PROVE  Balances(o) /\ KeepsFiles(o)
  <2>1. \A n \in Node : SameFile(o, n) /\ SamePlans(o, n)
    BY <1>1, <1>2 DEF SameFile, SamePlans, Planned, LateCall
  <2>2. \A n \in Node : Steadily(o, n)
    BY <2>1, OutsidePlans
  <2> QED
    BY <2>2, AllSteady
<1>4. ASSUME NEW o \in Object, Fresh(o)
      PROVE  Fresh(o)'
  <2>1. o # NoObject
    BY ClusterAssumption
  <2>2. o \notin rm'.objs /\ rm'.obj # o
    BY <1>1, <1>4, <2>1 DEF Fresh, Picked
  <2> QED
    BY <1>1, <1>4, <2>2 DEF Fresh
<1>5. \A o \in Object : Aloof(o)
  BY <1>1, <1>4 DEF Aloof, LateCall
<1>6. RefillRow'
  <2>1. InRecovery' <=> InRecovery
    BY DEF InRecovery
  <2>2. InRecovery => she.obj \in Object
    BY DEF InRecovery, Locals
  <2>3. PICK x : x = she.obj
    OBVIOUS
  <2>4. InRecovery => (Exists(x)' <=> Exists(x))
    BY <1>1, <2>2, <2>3
  <2>5. /\ Exists(she.obj)' <=> Exists(x)'
        /\ Exists(she.obj) <=> Exists(x)
    BY <2>3 DEF Exists
  <2> QED
    BY <1>1, <2>1, <2>4, <2>5 DEF RelyOnRows, RefillRow
<1>7. RowsHaveObjects' /\ ListedRows'
  BY <1>1 DEF RelyOnRows, RowsHaveObjects, ListedRows, ToHeal
<1>8. CandidateRows'
  BY <1>1 DEF RelyOnRows, CandidateRows, Planned
<1> QED
  BY <1>1, <1>3, <1>5, <1>6, <1>7, <1>8 DEF Loops, ScalerTyped

(* Every other step of the manager works on one node for the object it has *)
(* in hand.                                                                *)
LEMMA OtherObjectsScaled ==
    ASSUME NEW x, x = rm.obj, rm'.obj = x, Touches(x), UNCHANGED she,
           NEW o \in Object, o # x
    PROVE  Balances(o) /\ KeepsFiles(o)
<1>1. \A n : /\ ~Endangered(o, n)' /\ ~Candidate(o, n)'
             /\ ~Condemned(o, n)' /\ ~Condemned(o, n) /\ ~Inserting(o, n)'
  BY DEF Endangered, Candidate, Condemned, Inserting
<1>2. \A n \in Node : SameFile(o, n) /\ SamePlans(o, n)
  BY <1>1 DEF SameFile, SamePlans, Touches
<1>3. \A n \in Node : Steadily(o, n)
  BY <1>2, OutsidePlans
<1> QED
  BY <1>3, AllSteady

LEMMA ScalesOne ==
    ASSUME NEW x, x = rm.obj, SameObject, Touches(x), UNCHANGED <<factor, she>>,
           RowsHaveObjects', CandidateRows', RefillRow', ListedRows',
           ~Excused(x) => Balances(x)
    PROVE  /\ Loops
           /\ \A o \in Object \ {x} : ~Excused(o) => KeepsFiles(o)
<1>1. x \in Object /\ rm'.obj = x /\ rm'.objs = rm.objs
  BY DEF SameObject
<1>2. \A o \in Object \ {x} : Balances(o) /\ KeepsFiles(o)
  BY <1>1, OtherObjectsScaled
<1>3. \A o \in Object : Exists(o)' <=> Exists(o)
  BY DEF Exists
<1>4. \A o \in Object : Aloof(o)
  BY <1>1, <1>3 DEF Touches, Aloof, Fresh
<1> QED
  BY <1>1, <1>2, <1>3, <1>4 DEF Loops

LEMMA RefillUntouched ==
    ASSUME RefillRow, UNCHANGED <<she, factor>>,
           replica'[she.obj][she.dest] = replica[she.obj][she.dest]
    PROVE  RefillRow'
BY DEF RefillRow, InRecovery, Exists

LEMMA SameRowsScaled ==
    ASSUME RelyOnRows, UNCHANGED <<factor, replica, listed, she>>,
           \A o \in Object, n \in Node : Candidate(o, n)' => Candidate(o, n)
    PROVE  RowsHaveObjects' /\ CandidateRows' /\ RefillRow' /\ ListedRows'
<1>1. RowsHaveObjects' /\ RefillRow' /\ ListedRows'
  BY DEF RelyOnRows, RowsHaveObjects, RefillRow, InRecovery, ListedRows, ToHeal, Exists
<1>2. CandidateRows'
  BY DEF RelyOnRows, CandidateRows, Exists
<1> QED
  BY <1>1, <1>2

(* The object in hand is there, unless it is being removed.                *)
LEMMA ObjectInHand ==
    ASSUME RelyOnRows, NEW o \in Object, o = rm.obj, ~Excused(o)
    PROVE  Exists(o)
<1>1. ~Fresh(o)
  BY DEF Fresh
<1> QED
  BY <1>1, ActiveObject DEF RelyOnRows

LEMMA ScalerFacts ==
    ASSUME ReplicationTypeOK
    PROVE  ClusterTypeOK /\ RMTypeOK /\ faults \in [FaultKind -> Nat]
BY DEF ReplicationTypeOK, ClusterTypeOK

(* A call of the manager: one file changes at most, where nothing is kept. *)
LEMMA CallLoops ==
    ASSUME ReplicationTypeOK, RelyOnRows, UNCHANGED <<factor, replica, listed, she>>,
           NEW o, o = rm.obj, SameObject, NEW m \in Node,
           NEW op \in {"store", "delete"}, CallOutcome(o, m, op),
           \A a \in Object, n \in Node : Candidate(a, n)' => Candidate(a, n),
           \A n \in Node \ {m} : SamePlans(o, n),
           ~Excused(o) => ~Kept(o, m),
           ~Excused(o) /\ late' = late => (Doubtful(o, m)' => Doubtful(o, m))
    PROVE  Loops /\ \A a \in Object : ~Excused(a) => KeepsFiles(a)
<1>1. o \in Object
  BY DEF SameObject
<1>2. /\ \A a \in Object, n \in Node : a # o \/ n # m =>
           /\ disk'[a][n] = disk[a][n] /\ (LateCall(a, n)' <=> LateCall(a, n))
      /\ \/ late' = late
         \/ disk' = disk /\ LateCall(o, m)' /\ Costs(1)
  BY CallTouches
<1>3. Touches(o)
  BY <1>2 DEF Touches
<1>4. RowsHaveObjects' /\ CandidateRows' /\ RefillRow' /\ ListedRows'
  BY SameRowsScaled
<1>5. \A n \in Node \ {m} : Steadily(o, n)
  BY <1>1, <1>2, OutsidePlans DEF SameFile
<1>6. ~Excused(o) => KeepsFiles(o) /\ ~Solid(o, m)
  BY <1>5 DEF KeepsFiles, Steadily, Solid
<1>7. ~Excused(o) => Balances(o)
  <2> SUFFICES ASSUME ~Excused(o) PROVE Balances(o)
    OBVIOUS
  <2>1. CASE late' = late
    <3>1. Still(o, {})
      BY <1>5, <1>6, <2>1 DEF Still, Steadily, NotWorse
    <3> QED
      BY <3>1 DEF Balances
  <2>2. CASE Costs(1)
    <3>1. Still(o, {m}) /\ StaysSolid(o, m) /\ Debt' >= Debt + 1
      BY <1>5, <1>6, <2>2, DebtGrows, ScalerFacts DEF Still, Steadily, StaysSolid
    <3> QED
      BY <3>1 DEF Balances
  <2> QED
    BY <1>2, <2>1, <2>2
<1>8. /\ Loops
      /\ \A a \in Object \ {o} : ~Excused(a) => KeepsFiles(a)
  BY <1>3, <1>4, <1>7, ScalesOne
<1> QED
  BY <1>6, <1>8

LEMMA PushLoops ==
    ASSUME ReplicationTypeOK, OwnVariables, RelyOnRows, PushCopy, UNCHANGED she
    PROVE  /\ ScalerTyped /\ Costs(0)
           /\ Loops /\ \A a \in Object : ~Excused(a) => KeepsFiles(a)
<1>1. /\ ScalerTyped /\ SameObject
      /\ UNCHANGED <<factor, replica, listed>> /\ rm.pc = "upPush"
  BY PushShape
<1>2. PICK o : o = rm.obj
  OBVIOUS
<1>3. PICK m \in Node :
        /\ m \in rm.dests /\ rm'.dests = rm.dests \ {m}
        /\ CallOutcome(o, m, "store")
        /\ \/ /\ rm'.pc = "upInsert" /\ rm'.node = m
              /\ disk'[o][m] = "good" /\ late' = late
           \/ rm'.pc = "upPush"
  BY <1>2, PushShape
<1>4. rm'.obj = o /\ o \in Object
  BY <1>1, <1>2 DEF SameObject
<1>5. \A a, n : /\ ~Candidate(a, n) /\ ~Candidate(a, n)'
                /\ ~Condemned(a, n) /\ ~Condemned(a, n)' /\ ~Inserting(a, n)
  BY <1>1, <1>3 DEF Candidate, Condemned, Inserting
<1>6. \A n \in Node \ {m} : SamePlans(o, n)
  BY <1>1, <1>2, <1>3, <1>4, <1>5 DEF SamePlans, Endangered, Inserting
<1>7. Endangered(o, m)
  BY <1>1, <1>2, <1>3 DEF Endangered
<1>8. ~Kept(o, m)
  BY <1>7 DEF Kept
<1>9. late' = late /\ Doubtful(o, m)' => Doubtful(o, m)
  <2> SUFFICES ASSUME late' = late, Doubtful(o, m)'
               PROVE  Doubtful(o, m)
    OBVIOUS
  <2>1. LateCall(o, m)' <=> LateCall(o, m)
    BY DEF LateCall
  <2>2. Inserting(o, m)' => disk'[o][m] = "good"
    BY <1>3 DEF Inserting
  <2>3. replica'[o][m] = replica[o][m]
    BY <1>1
  <2> QED
    BY <1>5, <1>7, <2>1, <2>2, <2>3 DEF Doubtful
<1>10. Costs(0)
  BY <1>3 DEF CallOutcome
<1> QED
  BY <1>1, <1>2, <1>3, <1>5, <1>6, <1>8, <1>9, <1>10, CallLoops

LEMMA UndoLoops ==
    ASSUME ReplicationTypeOK, OwnVariables, RelyOnRows, UndoCopy, UNCHANGED she
    PROVE  /\ ScalerTyped /\ Costs(0)
           /\ Loops /\ \A a \in Object : ~Excused(a) => KeepsFiles(a)
<1>2. PICK o, m : o = rm.obj /\ m = rm.node
  OBVIOUS
<1>1. /\ ScalerTyped /\ SameObject
      /\ UNCHANGED <<factor, replica, listed>>
      /\ rm.pc = "upUndo" /\ rm'.pc = "upPush"
      /\ rm'.dests = rm.dests /\ m \in Node \ rm.dests
      /\ CallOutcome(o, m, "delete")
  BY <1>2, UndoShape
<1>4. rm'.obj = o /\ o \in Object
  BY <1>1, <1>2 DEF SameObject
<1>5. \A a, n : /\ ~Candidate(a, n) /\ ~Candidate(a, n)'
                /\ ~Condemned(a, n) /\ ~Condemned(a, n)'
                /\ ~Inserting(a, n) /\ ~Inserting(a, n)'
  BY <1>1 DEF Candidate, Condemned, Inserting
<1>6. \A n \in Node \ {m} : SamePlans(o, n)
  BY <1>1, <1>2, <1>4, <1>5 DEF SamePlans, Endangered
<1>7. Endangered(o, m)
  BY <1>1, <1>2 DEF Endangered
<1>8. ~Kept(o, m)
  BY <1>7 DEF Kept
<1>9. late' = late /\ Doubtful(o, m)' => Doubtful(o, m)
  <2> SUFFICES ASSUME late' = late, Doubtful(o, m)'
               PROVE  Doubtful(o, m)
    OBVIOUS
  <2>1. LateCall(o, m)' <=> LateCall(o, m)
    BY DEF LateCall
  <2>3. replica'[o][m] = replica[o][m]
    BY <1>1
  <2> QED
    BY <1>5, <1>7, <2>1, <2>3 DEF Doubtful
<1>10. Costs(0)
  BY <1>1 DEF CallOutcome
<1> QED
  BY <1>1, <1>2, <1>5, <1>6, <1>8, <1>9, <1>10, CallLoops

LEMMA PurgeLoops ==
    ASSUME ReplicationTypeOK, OwnVariables, RelyOnRows, PurgeChunk, UNCHANGED she
    PROVE  /\ ScalerTyped /\ Costs(0)
           /\ Loops /\ \A a \in Object : ~Excused(a) => KeepsFiles(a)
<1>2. PICK o, m : o = rm.obj /\ m = rm.node
  OBVIOUS
<1>1. /\ ScalerTyped /\ SameObject
      /\ UNCHANGED <<factor, replica, listed>>
      /\ rm.pc = "downPurge" /\ rm'.pc = "downDrop"
      /\ rm'.nodes = rm.nodes /\ m \in Node \ rm.nodes
      /\ rm'.node = m
      /\ CallOutcome(o, m, "delete")
  BY <1>2, PurgeShape
<1>4. rm'.obj = o /\ o \in Object
  BY <1>1, <1>2 DEF SameObject
<1>5. \A a, n : /\ Candidate(a, n)' <=> Candidate(a, n)
                /\ Condemned(a, n)' <=> Condemned(a, n)
                /\ ~Endangered(a, n)'
                /\ ~Inserting(a, n) /\ ~Inserting(a, n)'
  BY <1>1, <1>2, <1>4 DEF Candidate, Condemned, Inserting, Endangered
<1>6. \A n \in Node \ {m} : SamePlans(o, n)
  BY <1>5 DEF SamePlans
<1>7. Condemned(o, m) /\ Candidate(o, m)
  BY <1>1, <1>2 DEF Condemned, Candidate
<1>8. ~Kept(o, m)
  BY <1>7 DEF Kept
<1>9. ~Excused(o) /\ late' = late /\ Doubtful(o, m)' => Doubtful(o, m)
  <2> SUFFICES ASSUME ~Excused(o), late' = late, Doubtful(o, m)'
               PROVE  Doubtful(o, m)
    OBVIOUS
  <2>1. LateCall(o, m)' <=> LateCall(o, m)
    BY DEF LateCall
  <2>2. Exists(o)
    BY <1>2, <1>4, ObjectInHand
  <2>3. replica'[o][m] = replica[o][m] /\ replica[o][m] \in {"HEALTHY", "LOST"}
    BY <1>1, <1>4, <1>7, <2>2 DEF RelyOnRows, CandidateRows
  <2> QED
    BY <1>5, <1>7, <2>1, <2>3 DEF Doubtful
<1>10. Costs(0)
  BY <1>1 DEF CallOutcome
<1> QED
  BY <1>1, <1>2, <1>5, <1>6, <1>8, <1>9, <1>10, CallLoops

(* A row that is inserted or deleted, where nothing is kept.               *)
LEMMA RowLoops ==
    ASSUME ReplicationTypeOK, RelyOnRows, UNCHANGED <<factor, disk, late, she>>,
           NEW o, o = rm.obj, SameObject, NEW m \in Node,
           \A a \in Object, n \in Node :
               a # o \/ n # m => replica'[a][n] = replica[a][n],
           RowsHaveObjects', CandidateRows', RefillRow', ListedRows',
           \A n \in Node \ {m} : SamePlans(o, n),
           ~Excused(o) => ~Kept(o, m),
           ~Excused(o) =>
              \/ Doubtful(o, m)' => Doubtful(o, m)
              \/ Solid(o, m)'
              \/ Costs(1)
    PROVE  Loops /\ \A a \in Object : ~Excused(a) => KeepsFiles(a)
<1>1. o \in Object
  BY DEF SameObject
<1>3. Touches(o)
  BY DEF Touches, LateCall
<1>5. \A n \in Node \ {m} : Steadily(o, n)
  BY <1>1, OutsidePlans DEF SameFile, LateCall
<1>6. ~Excused(o) => KeepsFiles(o) /\ ~Solid(o, m)
  BY <1>5 DEF KeepsFiles, Steadily, Solid
<1>7. ~Excused(o) => Balances(o)
  <2> SUFFICES ASSUME ~Excused(o) PROVE Balances(o)
    OBVIOUS
  <2>1. CASE Doubtful(o, m)' => Doubtful(o, m)
    <3>1. Still(o, {})
      BY <1>5, <1>6, <2>1 DEF Still, Steadily, NotWorse
    <3> QED
      BY <3>1 DEF Balances
  <2>2. CASE Costs(1)
    <3>1. Still(o, {m}) /\ StaysSolid(o, m) /\ Debt' >= Debt + 1
      BY <1>5, <1>6, <2>2, DebtGrows, ScalerFacts DEF Still, Steadily, StaysSolid
    <3> QED
      BY <3>1 DEF Balances
  <2>3. CASE Solid(o, m)'
    <3>1. Still(o, {m})
      BY <1>5 DEF Still, Steadily
    <3> QED
      BY <1>6, <2>3, <3>1 DEF Balances
  <2> QED
    BY <2>1, <2>2, <2>3
<1>8. /\ Loops
      /\ \A a \in Object \ {o} : ~Excused(a) => KeepsFiles(a)
  BY <1>3, <1>7, ScalesOne
<1> QED
  BY <1>6, <1>8

LEMMA CostsNothing ==
    ASSUME faults \in [FaultKind -> Nat], Costs(1)
    PROVE  Costs(0)
<1>1. Mishaps \in Nat
  BY CountsTyped
<1>2. Mishaps' \in Nat
  BY DEF Costs, Counted, Mishaps, FaultKind
<1> QED
  BY <1>1, <1>2 DEF Costs

(* A row that is inserted for a new file is not that of a recovery.        *)
LEMMA InsertLoops ==
    ASSUME ReplicationTypeOK, OwnVariables, Locals, RelyOnRows, InsertCopy,
           UNCHANGED she
    PROVE  /\ ScalerTyped /\ Costs(0)
           /\ Loops /\ \A a \in Object : ~Excused(a) => KeepsFiles(a)
<1>2. PICK o, m : o = rm.obj /\ m = rm.node
  OBVIOUS
<1>1. /\ ScalerTyped /\ SameObject
      /\ UNCHANGED <<factor, disk, late, listed>> /\ rm.pc = "upInsert"
      /\ rm'.dests = rm.dests /\ m \in Node \ rm.dests
      /\ \/ /\ Costs(0) /\ UNCHANGED replica
            /\ rm'.pc = "upUndo" /\ rm'.node = m
         \/ /\ CanInsert(o, m)
            /\ SetRow(o, m, "HEALTHY")
            /\ \/ Costs(0) /\ rm'.pc = "upPush"
               \/ Costs(1) /\ rm'.pc = "upUndo" /\ rm'.node = m
  BY <1>2, InsertShape
<1>3. /\ rm'.obj = o /\ o \in Object /\ rm'.pc \in {"upUndo", "upPush"}
      /\ ClusterTypeOK /\ faults \in [FaultKind -> Nat]
  BY <1>1, <1>2, ScalerFacts DEF SameObject
<1>4. \A a, n : /\ ~Candidate(a, n) /\ ~Candidate(a, n)'
                /\ ~Condemned(a, n) /\ ~Condemned(a, n)' /\ ~Inserting(a, n)'
  BY <1>1, <1>3 DEF Candidate, Condemned, Inserting
<1>5. \A n \in Node \ {m} : SamePlans(o, n)
  BY <1>1, <1>2, <1>3, <1>4 DEF SamePlans, Endangered
<1>6. Endangered(o, m) /\ ~Kept(o, m)
  BY <1>1, <1>2 DEF Endangered, Kept
<1>7. Inserting(o, m)
  BY <1>1, <1>2 DEF Inserting
<1>8. Costs(0)
  BY <1>1, <1>3, CostsNothing
<1>9. LateCall(o, m)' <=> LateCall(o, m)
  BY <1>1 DEF LateCall
<1>10. CASE UNCHANGED replica /\ rm'.pc = "upUndo" /\ rm'.node = m
  <2>1. RowsHaveObjects' /\ CandidateRows' /\ RefillRow' /\ ListedRows'
    BY <1>1, <1>4, <1>10, SameRowsScaled
  <2>2. Endangered(o, m)' /\ (Refilled(o, m)' <=> Refilled(o, m))
    BY <1>3, <1>10 DEF Endangered, Refilled, InRecovery
  <2>3. Doubtful(o, m)' => Doubtful(o, m)
    BY <1>1, <1>4, <1>6, <1>9, <1>10, <2>2 DEF Doubtful
  <2> QED
    BY <1>1, <1>2, <1>5, <1>6, <1>8, <1>10, <2>1, <2>3, RowLoops
<1>11. CASE /\ CanInsert(o, m)
            /\ SetRow(o, m, "HEALTHY")
            /\ \/ Costs(0) /\ rm'.pc = "upPush"
               \/ Costs(1) /\ rm'.pc = "upUndo" /\ rm'.node = m
  <2>1. /\ Exists(o) /\ replica[o][m] = "NONE" /\ replica'[o][m] = "HEALTHY"
        /\ \A a \in Object, n \in Node :
             a # o \/ n # m => replica'[a][n] = replica[a][n]
    BY <1>1, <1>3, <1>11, RowSet DEF CanInsert, RowStatus
  <2>2. \A a : Exists(a)' <=> Exists(a)
    BY <1>1 DEF Exists
  <2>3. RowsHaveObjects'
    BY <2>1, <2>2 DEF RelyOnRows, RowsHaveObjects
  <2>4. CandidateRows'
    BY <1>4 DEF CandidateRows
  <2>5. RefillRow'
    <3>1. InRecovery' <=> InRecovery
      BY DEF InRecovery
    <3>2. CASE InRecovery
      <4>1. PICK x, d : x = she.obj /\ d = she.dest
        OBVIOUS
      <4>2. x \in Object /\ d \in Node
        BY <3>2, <4>1 DEF InRecovery, Locals
      <4>3. replica[x][d] = "RECOVERING" \/ ~Exists(x)
        BY <3>2, <4>1 DEF RelyOnRows, RefillRow
      <4>4. replica'[x][d] = "RECOVERING" \/ ~Exists(x)'
        BY <2>1, <2>2, <4>2, <4>3
      <4> QED
        BY <4>1, <4>4 DEF RefillRow, Exists
    <3> QED
      BY <3>1, <3>2 DEF RefillRow
  <2>6. ListedRows'
    <3>1. \A a \in Object : ToHeal(a)' <=> ToHeal(a)
      BY DEF ToHeal
    <3>2. ASSUME NEW a \in Object, ToHeal(a)', <<a, she.failed>> \in listed
          PROVE  replica'[a][she.failed] \in {"HEALTHY", "RECOVERING"}
      <4>1. replica[a][she.failed] \in {"HEALTHY", "RECOVERING"}
        BY <3>1, <3>2 DEF RelyOnRows, ListedRows
      <4>2. she.failed \in Node
        BY <1>3, <3>2 DEF ClusterTypeOK
      <4> QED
        BY <2>1, <4>1, <4>2
    <3> QED
      BY <1>1, <3>2 DEF RelyOnRows, ListedRows
  <2>7. CASE Costs(1)
    BY <1>1, <1>2, <1>5, <1>6, <1>8, <2>1, <2>3, <2>4, <2>5, <2>6, <2>7, RowLoops
  <2>8. CASE rm'.pc = "upPush"
    <3>1. ~Endangered(o, m)'
      BY <1>1, <2>8 DEF Endangered
    <3>2. CASE Doubtful(o, m)
      BY <1>1, <1>2, <1>5, <1>6, <1>8, <2>1, <2>3, <2>4, <2>5, <2>6, <3>2, RowLoops
    <3>3. CASE ~Doubtful(o, m)
      <4>1. disk'[o][m] = "good" /\ ~LateCall(o, m)'
        BY <1>1, <1>7, <1>9, <2>1, <3>3 DEF Doubtful
      <4>2. Solid(o, m)'
        BY <1>4, <2>1, <3>1, <4>1 DEF Solid, Kept
      <4> QED
        BY <1>1, <1>2, <1>5, <1>6, <1>8, <2>1, <2>3, <2>4, <2>5, <2>6, <4>2, RowLoops
    <3> QED
      BY <3>2, <3>3
  <2> QED
    BY <1>11, <2>7, <2>8
<1> QED
  BY <1>1, <1>10, <1>11

LEMMA DropLoops ==
    ASSUME ReplicationTypeOK, OwnVariables, Locals, RelyOnRows, DropRow,
           UNCHANGED she
    PROVE  /\ ScalerTyped /\ Costs(0)
           /\ Loops /\ \A a \in Object : ~Excused(a) => KeepsFiles(a)
<1>2. PICK o, m : o = rm.obj /\ m = rm.node
  OBVIOUS
<1>1. /\ ScalerTyped /\ SameObject
      /\ UNCHANGED <<factor, disk, late>>
      /\ rm.pc = "downDrop" /\ rm'.pc = "downCheck"
      /\ rm'.nodes = rm.nodes /\ m \in Node \ rm.nodes
      /\ \/ Costs(0) /\ DeleteRow(o, m)
         \/ /\ Costs(0) /\ UNCHANGED <<replica, listed>>
            /\ replica[o][m] = "NONE"
         \/ Costs(1) /\ UNCHANGED <<replica, listed>>
  BY <1>2, DropShape
<1>3. /\ rm'.obj = o /\ o \in Object
      /\ ClusterTypeOK /\ faults \in [FaultKind -> Nat]
  BY <1>1, <1>2, ScalerFacts DEF SameObject
<1>4. /\ \A a, n : /\ Candidate(a, n)' => Candidate(a, n) /\ ~(a = o /\ n = m)
                   /\ ~Condemned(a, n)' /\ ~Endangered(a, n)' /\ ~Inserting(a, n)'
      /\ \A n : n # m => ~Condemned(o, n)
  BY <1>1, <1>2, <1>3 DEF Candidate, Condemned, Inserting, Endangered
<1>5. \A n \in Node \ {m} : SamePlans(o, n)
  BY <1>4 DEF SamePlans
<1>6. Condemned(o, m) /\ Candidate(o, m) /\ ~Kept(o, m)
  BY <1>1, <1>2 DEF Condemned, Candidate, Kept
<1>7. ~Exists(o) \/ replica[o][m] \in {"HEALTHY", "LOST"}
  BY <1>1, <1>3, <1>6 DEF RelyOnRows, CandidateRows
<1>8. Costs(0)
  BY <1>1, <1>3, CostsNothing
<1>9. /\ LateCall(o, m)' <=> LateCall(o, m)
      /\ \A a : Exists(a)' <=> Exists(a)
  BY <1>1 DEF LateCall, Exists
<1>10. CASE UNCHANGED <<replica, listed>>
  <2>1. RowsHaveObjects' /\ CandidateRows' /\ RefillRow' /\ ListedRows'
    BY <1>1, <1>4, <1>10, SameRowsScaled
  <2>2. CASE Costs(1)
    BY <1>1, <1>2, <1>5, <1>6, <1>8, <1>10, <2>1, <2>2, RowLoops
  <2>3. CASE replica[o][m] = "NONE"
    <3>1. Doubtful(o, m)' => LateCall(o, m)
      BY <1>4, <1>9, <1>10, <2>3 DEF Doubtful
    <3>2. Doubtful(o, m)' => Doubtful(o, m)
      BY <2>3, <3>1 DEF Doubtful
    <3> QED
      BY <1>1, <1>2, <1>5, <1>6, <1>8, <1>10, <2>1, <3>2, RowLoops
  <2>4. CASE DeleteRow(o, m)
    <3>1. replica[o][m] = "NONE"
      BY <1>1, <1>3, <1>10, <2>4, RowSet DEF DeleteRow, RowStatus
    <3> QED
      BY <2>3, <3>1
  <2> QED
    BY <1>1, <2>2, <2>3, <2>4
<1>11. CASE DeleteRow(o, m)
  <2>1. /\ replica'[o][m] = "NONE" /\ listed' = listed \ {<<o, m>>}
        /\ \A a \in Object, n \in Node :
             a # o \/ n # m => replica'[a][n] = replica[a][n]
    BY <1>1, <1>3, <1>11, RowSet DEF DeleteRow, RowStatus
  <2>3. RowsHaveObjects'
    BY <1>9, <2>1 DEF RelyOnRows, RowsHaveObjects
  <2>4. CandidateRows'
    BY <1>4, <1>9, <2>1 DEF RelyOnRows, CandidateRows
  <2>5. RefillRow'
    <3>1. InRecovery' <=> InRecovery
      BY DEF InRecovery
    <3>2. CASE InRecovery
      <4>1. PICK x, d : x = she.obj /\ d = she.dest
        OBVIOUS
      <4>2. x \in Object /\ d \in Node
        BY <3>2, <4>1 DEF InRecovery, Locals
      <4>3. replica[x][d] = "RECOVERING" \/ ~Exists(x)
        BY <3>2, <4>1 DEF RelyOnRows, RefillRow
      <4>4. replica'[x][d] = "RECOVERING" \/ ~Exists(x)'
        BY <1>7, <1>9, <2>1, <4>2, <4>3
      <4> QED
        BY <4>1, <4>4 DEF RefillRow, Exists
    <3> QED
      BY <3>1, <3>2 DEF RefillRow
  <2>6. ListedRows'
    <3>1. \A a \in Object : ToHeal(a)' <=> ToHeal(a)
      BY DEF ToHeal
    <3>2. she'.failed = she.failed /\ she'.pc = she.pc /\ she'.obj = she.obj
          /\ she'.rows = she.rows
      OBVIOUS
    <3>3. ASSUME NEW a \in Object, ToHeal(a)', <<a, she.failed>> \in listed'
          PROVE  replica'[a][she.failed] \in {"HEALTHY", "RECOVERING"}
      <4>1. <<a, she.failed>> \in listed /\ ~(a = o /\ she.failed = m)
        BY <2>1, <3>3
      <4>2. replica[a][she.failed] \in {"HEALTHY", "RECOVERING"}
        BY <3>1, <3>3, <4>1 DEF RelyOnRows, ListedRows
      <4>3. she.failed \in Node
        BY <1>3, <4>1 DEF ClusterTypeOK
      <4> QED
        BY <2>1, <4>1, <4>2, <4>3
    <3> QED
      BY <3>2, <3>3 DEF RelyOnRows, ListedRows
  <2>7. Doubtful(o, m)' => LateCall(o, m)
    BY <1>4, <1>9, <2>1 DEF Doubtful
  <2>8. ~Excused(o) /\ Doubtful(o, m)' => Doubtful(o, m)
    BY <1>6, <2>7 DEF Doubtful
  <2> QED
    BY <1>1, <1>2, <1>5, <1>6, <1>8, <2>1, <2>3, <2>4, <2>5, <2>6, <2>8, RowLoops
<1> QED
  BY <1>1, <1>10, <1>11

(* Picking a replica for removal: only one of more than MinRF.             *)
LEMMA CheckAt ==
    ASSUME RelyOnRows, NEW o \in Object, NEW m \in Node, o = rm.obj,
           rm.pc = "downCheck", m \in rm.nodes,
           rm'.pc = "downPurge" /\ rm'.node = m /\ rm'.nodes = rm.nodes \ {m},
           rm'.obj = o, UNCHANGED <<replica, disk, late, she>>, ~Excused(o)
    PROVE  Balances(o)
<1>1. Exists(o)
  BY ObjectInHand
<1>2. /\ Candidate(o, m) /\ ~Condemned(o, m) /\ Condemned(o, m)'
      /\ \A n : Candidate(o, n)' <=> Candidate(o, n)
      /\ \A n : n # m => ~Condemned(o, n) /\ ~Condemned(o, n)'
      /\ \A n : ~Endangered(o, n) /\ ~Endangered(o, n)'
      /\ \A n : ~Inserting(o, n) /\ ~Inserting(o, n)'
  BY DEF Candidate, Condemned, Endangered, Inserting
<1>3. replica[o][m] \in {"HEALTHY", "LOST"}
  BY <1>1, <1>2 DEF RelyOnRows, CandidateRows
<1>4. \A n \in Node : SameFile(o, n)
  BY DEF SameFile, LateCall
<1>5. \A n \in Node \ {m} : SamePlans(o, n)
  BY <1>2 DEF SamePlans
<1>6. Still(o, {m})
  BY <1>4, <1>5, OutsidePlans DEF Still, Steadily
<1>7. /\ replica'[o][m] = replica[o][m]
      /\ LateCall(o, m)' <=> LateCall(o, m)
  BY <1>4 DEF SameFile
<1>8. Doubtful(o, m)' <=> LateCall(o, m)
  BY <1>2, <1>3, <1>7 DEF Doubtful
<1>9. CASE replica[o][m] = "HEALTHY" /\ ~LateCall(o, m)
  <2>1. Settles(o, m)
    BY <1>2, <1>8, <1>9 DEF Settles, Doubtful
  <2> QED
    BY <1>6, <2>1 DEF Balances
<1>10. CASE replica[o][m] = "LOST" \/ LateCall(o, m)
  <2>1. ~Solid(o, m)
    BY <1>2, <1>10 DEF Solid, Kept
  <2>2. Doubtful(o, m)' => Doubtful(o, m)
    BY <1>2, <1>8 DEF Doubtful
  <2>3. Still(o, {})
    BY <1>6, <2>1, <2>2 DEF Still, NotWorse
  <2> QED
    BY <2>3 DEF Balances
<1> QED
  BY <1>3, <1>9, <1>10

LEMMA CheckLoops ==
    ASSUME ReplicationTypeOK, OwnVariables, RelyOnRows, CheckRemaining, UNCHANGED she
    PROVE  /\ ScalerTyped /\ Costs(0) /\ Loops
           /\ \A a \in Object : ~Excused(a) =>
                \/ KeepsFiles(a)
                \/ \E m \in Node :
                     /\ \A n \in Node \ {m} :
                          n \in HealthyReplicas(a) => Doubtful(a, n)'
                     /\ CountHealthyReplicas(a) > MinRF
<1>2. PICK o : o = rm.obj
  OBVIOUS
<1>1. /\ ScalerTyped /\ SameObject /\ Costs(0)
      /\ UNCHANGED <<factor, replica, disk, late, listed>>
      /\ rm.pc = "downCheck"
      /\ \/ rm'.pc = "downCheck" /\ rm'.nodes = rm.nodes
         \/ /\ rm'.pc = "downPurge" /\ rm'.node \in rm.nodes
            /\ rm'.nodes = rm.nodes \ {rm'.node} /\ rm'.node \in Node
            /\ CountHealthyReplicas(o) > MinRF
  BY <1>2, CheckShape
<1>3. rm'.obj = o /\ o \in Object /\ Touches(o)
  BY <1>1, <1>2 DEF SameObject, Touches, LateCall
<1>4. \A a, n : Candidate(a, n)' => Candidate(a, n)
  BY <1>1, <1>2, <1>3 DEF Candidate, Condemned
<1>5. RowsHaveObjects' /\ CandidateRows' /\ RefillRow' /\ ListedRows'
  BY <1>1, <1>4, SameRowsScaled
<1>6. CASE rm'.pc = "downCheck" /\ rm'.nodes = rm.nodes
  <2>1. \A n : /\ ~Condemned(o, n) /\ ~Condemned(o, n)'
               /\ ~Endangered(o, n)' /\ ~Inserting(o, n)'
    BY <1>1, <1>6 DEF Condemned, Endangered, Inserting
  <2>2. \A n \in Node : SameFile(o, n) /\ SamePlans(o, n)
    BY <1>1, <1>4, <2>1 DEF SameFile, SamePlans, LateCall
  <2>3. Balances(o) /\ KeepsFiles(o)
    BY <2>2, OutsidePlans, AllSteady
  <2>4. /\ Loops
        /\ \A a \in Object \ {o} : ~Excused(a) => KeepsFiles(a)
    BY <1>1, <1>2, <1>3, <1>5, <2>3, ScalesOne
  <2> QED
    BY <1>1, <2>3, <2>4
<1>7. CASE /\ rm'.pc = "downPurge" /\ rm'.node \in rm.nodes
           /\ rm'.nodes = rm.nodes \ {rm'.node} /\ rm'.node \in Node
           /\ CountHealthyReplicas(o) > MinRF
  <2>1. PICK m \in Node : m = rm'.node /\ m \in rm.nodes
    BY <1>7
  <2>2. ~Excused(o) => Balances(o)
    BY <1>1, <1>2, <1>3, <1>7, <2>1, CheckAt
  <2>3. /\ Loops
        /\ \A a \in Object \ {o} : ~Excused(a) => KeepsFiles(a)
    BY <1>1, <1>2, <1>3, <1>5, <2>2, ScalesOne
  <2>4. ASSUME NEW n \in Node \ {m}, n \in HealthyReplicas(o)
        PROVE  Doubtful(o, n)'
    <3>1. replica'[o][n] = "HEALTHY"
      BY <1>1, <2>4 DEF HealthyReplicas, RowsWith
    <3>2. ~Condemned(o, n)'
      BY <2>1 DEF Condemned
    <3> QED
      BY <3>1, <3>2 DEF Doubtful
  <2> QED
    BY <1>1, <1>7, <2>3, <2>4
<1> QED
  BY <1>1, <1>6, <1>7

(* A step of the manager: where it does not keep all the files of an       *)
(* object, more than MinRF rows of it are trusted but for one.             *)
LEMMA ScalerSteps ==
    ASSUME ReplicationTypeOK, OwnVariables, Locals, RelyOnRows, RMStep, UNCHANGED she
    PROVE  /\ ScalerTyped /\ Costs(0) /\ Loops
           /\ \A a \in Object : ~Excused(a) =>
                \/ KeepsFiles(a)
                \/ \E m \in Node :
                     /\ \A n \in Node \ {m} :
                          n \in HealthyReplicas(a) => Doubtful(a, n)'
                     /\ CountHealthyReplicas(a) > MinRF
<1>1. \/ ReadStep \/ PushCopy \/ InsertCopy \/ UndoCopy
      \/ CheckRemaining \/ PurgeChunk \/ DropRow
  BY DEF RMStep, ReadStep
<1>2. CASE ReadStep
  BY <1>2, ScalerQuietly
<1>3. CASE PushCopy
  BY <1>3, PushLoops
<1>4. CASE InsertCopy
  BY <1>4, InsertLoops
<1>5. CASE UndoCopy
  BY <1>5, UndoLoops
<1>6. CASE CheckRemaining
  BY <1>6, CheckLoops
<1>7. CASE PurgeChunk
  BY <1>7, PurgeLoops
<1>8. CASE DropRow
  BY <1>8, DropLoops
<1> QED
  BY <1>1, <1>2, <1>3, <1>4, <1>5, <1>6, <1>7, <1>8

-----------------------------------------------------------------------------
(* The invariant, and the loops.                                           *)

CoordinatorInv ==
    /\ CoordinatorTypeOK /\ Locals /\ OwnVariables /\ RecordsOK
    /\ RelyOnRows /\ Slack /\ Safe

LEMMA TypesAre ==
    CoordinatorTypeOK <=> SHTypeOK /\ ReplicationTypeOK /\ RequestTypes
BY RequestTypesAre
   DEF CoordinatorTypeOK, SHTypeOK, ReplicationTypeOK, ObjectAPITypeOK

LEMMA TypesAreNext ==
    CoordinatorTypeOK' <=> SHTypeOK' /\ ReplicationTypeOK' /\ RequestTypes'
BY TypesAre, PTL

LEMMA DebtTyped ==
    ASSUME faults \in [FaultKind -> Nat], Costs(0)
    PROVE  Debt \in Nat /\ Debt' \in Nat /\ Debt' >= Debt
BY DebtGrows

(* As many trusted rows as MinRF, and fewer mishaps: one file is kept.     *)
LEMMA EnoughRows ==
    ASSUME NEW a \in Object, NEW m, Debt' \in Nat, Debt' < MinRF,
           \A n \in Node \ {m} : n \in HealthyReplicas(a) => Doubtful(a, n)',
           CountHealthyReplicas(a) > MinRF, Covered(a)'
    PROVE  Excused(a)' \/ KeptOn(a)' # {}
<1> DEFINE H == HealthyReplicas(a)
           P == DoubtfulOn(a)'
           S == SolidOn(a)'
<1>1. H \subseteq Node /\ IsFiniteSet(Node)
  BY ClusterAssumption DEF HealthyReplicas, RowsWith
<1>2. IsFiniteSet(H) /\ IsFiniteSet(P) /\ IsFiniteSet(S)
  BY <1>1, FS_Subset, FiniteOnNext
<1>3. H \ {m} \subseteq P
  BY <1>1 DEF DoubtfulOn
<1>4. Cardinality(H) > MinRF /\ MinRF \in Nat
  BY FactorAssumption DEF CountHealthyReplicas
<1>5. Covered(a)' => Excused(a)' \/ Cardinality(P) <= Cardinality(S) + Debt'
  BY DEF Covered
<1> HIDE DEF H, P, S
<1>6. Cardinality(H) \in Nat /\ Cardinality(H \ {m}) \in Nat
      /\ Cardinality(H) <= Cardinality(H \ {m}) + 1
  BY <1>2, OneLess
<1>7. Cardinality(P) \in Nat /\ Cardinality(H \ {m}) <= Cardinality(P)
  BY <1>2, <1>3, Inside
<1>8. Cardinality(S) \in Nat /\ (S = {} => Cardinality(S) = 0)
  BY <1>2, FS_CardinalityType, FS_EmptySet
<1>9. Excused(a)' \/ S # {}
  BY <1>4, <1>5, <1>6, <1>7, <1>8
<1>10. S # {} => KeptOn(a)' # {}
  BY DEF S, SolidOn, KeptOn, Solid
<1> QED
  BY <1>9, <1>10

(* A step of a loop, which leaves the requests alone.                      *)
LEMMA LoopKeepsBalance ==
    ASSUME CoordinatorInv, Costs(0), faults'["rot"] = faults["rot"], Loops,
           \A o : Excused(o)' <=> Excused(o),
           \A a \in Object : ~Excused(a) =>
                \/ KeepsFiles(a)
                \/ \E m \in Node :
                     /\ \A n \in Node \ {m} :
                          n \in HealthyReplicas(a) => Doubtful(a, n)'
                     /\ CountHealthyReplicas(a) > MinRF
    PROVE  Slack' /\ Safe'
<1>1. faults \in [FaultKind -> Nat] /\ MinRF \in Nat
  BY FactorAssumption DEF CoordinatorInv, CoordinatorTypeOK, SHTypeOK, ClusterTypeOK
<1>2. Debt \in Nat /\ Debt' \in Nat /\ Debt' >= Debt
  BY <1>1, DebtTyped
<1>3. ASSUME faults'["rot"] = 0, NEW o \in Object
      PROVE  Covered(o)'
  <2>1. Covered(o)
    BY <1>3 DEF CoordinatorInv, Slack
  <2>2. CASE Excused(o)
    BY <2>2 DEF Covered
  <2>3. CASE ~Excused(o)
    <3>1. Balances(o)
      BY <2>3 DEF Loops
    <3> QED
      BY <1>2, <2>1, <3>1, BalanceKept
  <2> QED
    BY <2>2, <2>3
<1>4. ASSUME faults'["rot"] = 0, Debt' < MinRF, NEW o \in Object
      PROVE  Held(o)'
  <2>1. Held(o)
    BY <1>1, <1>2, <1>4 DEF CoordinatorInv, Safe
  <2>2. CASE Excused(o)
    BY <2>2 DEF Held
  <2>3. CASE ~Excused(o) /\ KeepsFiles(o)
    BY <2>1, <2>3, HeldKept DEF Loops
  <2>4. CASE \E m \in Node :
               /\ \A n \in Node \ {m} :
                    n \in HealthyReplicas(o) => Doubtful(o, n)'
               /\ CountHealthyReplicas(o) > MinRF
    <3>1. Excused(o)' \/ KeptOn(o)' # {}
      BY <1>2, <1>3, <1>4, <2>4, EnoughRows
    <3> QED
      BY <3>1 DEF Held
  <2> QED
    BY <2>2, <2>3, <2>4
<1> QED
  BY <1>3, <1>4 DEF Slack, Safe

LEMMA LoopKeepsInv ==
    ASSUME CoordinatorInv, Costs(0), faults'["rot"] = faults["rot"], Loops,
           UNCHANGED apiVars, ClusterTypeOK', SHETypeOK', RMTypeOK', Locals', OwnVariables',
           \A a \in Object : ~Excused(a) =>
                \/ KeepsFiles(a)
                \/ \E m \in Node :
                     /\ \A n \in Node \ {m} :
                          n \in HealthyReplicas(a) => Doubtful(a, n)'
                     /\ CountHealthyReplicas(a) > MinRF
    PROVE  CoordinatorInv'
<1>1. RequestTypes /\ req' = req /\ issued' = issued
  BY TypesAre DEF CoordinatorInv, apiVars
<1>2. CoordinatorTypeOK'
  <2>1. RequestTypes'
    BY <1>1 DEF RequestTypes
  <2> QED
    BY <2>1, TypesAreNext DEF SHTypeOK, ReplicationTypeOK
<1>3. /\ RequestsOwn' /\ RecordsOK'
      /\ \A o : Excused(o)' <=> Excused(o)
  BY <1>1, Backdrop DEF CoordinatorInv, RelyOnRows, Loops
<1>4. Slack' /\ Safe'
  BY <1>3, LoopKeepsBalance
<1> QED
  BY <1>2, <1>3, <1>4 DEF CoordinatorInv, RelyOnRows, Loops

LEMMA HealsKeepInv == CoordinatorInv /\ Heals => CoordinatorInv'
<1> SUFFICES ASSUME CoordinatorInv, Heals PROVE CoordinatorInv'
  OBVIOUS
<1>1. SHEStep /\ UNCHANGED rm /\ UNCHANGED apiVars
  BY DEF Heals
<1>2. SHTypeOK /\ RMTypeOK
  BY DEF CoordinatorInv, CoordinatorTypeOK
<1>3. /\ HealerTyped /\ Costs(0) /\ Loops
      /\ \A o \in Object : ~Excused(o) => KeepsFiles(o)
  BY <1>1, <1>2, HealerSteps DEF CoordinatorInv
<1>4. RMTypeOK' /\ OwnVariables'
  BY <1>1, <1>2 DEF CoordinatorInv, RMTypeOK, OwnVariables
<1> QED
  BY <1>1, <1>3, <1>4, LoopKeepsInv DEF HealerTyped, SHTypeOK

LEMMA ScalesKeepInv == CoordinatorInv /\ Scales => CoordinatorInv'
<1> SUFFICES ASSUME CoordinatorInv, Scales PROVE CoordinatorInv'
  OBVIOUS
<1>1. RMStep /\ UNCHANGED she /\ UNCHANGED apiVars
  BY DEF Scales
<1>2. ReplicationTypeOK /\ SHETypeOK
  BY TypesAre DEF CoordinatorInv, SHTypeOK
<1>3. /\ ScalerTyped /\ Costs(0) /\ Loops
      /\ \A a \in Object : ~Excused(a) =>
           \/ KeepsFiles(a)
           \/ \E m \in Node :
                /\ \A n \in Node \ {m} :
                     n \in HealthyReplicas(a) => Doubtful(a, n)'
                /\ CountHealthyReplicas(a) > MinRF
  BY <1>1, <1>2, ScalerSteps DEF CoordinatorInv
<1>4. SHETypeOK' /\ Locals'
  BY <1>1, <1>2 DEF CoordinatorInv, SHETypeOK, Locals
<1> QED
  BY <1>1, <1>3, <1>4, LoopKeepsInv DEF ScalerTyped, ReplicationTypeOK

-----------------------------------------------------------------------------
(* The environment and the restart.                                        *)

LEMMA EnvironmentKeepsInv ==
    CoordinatorInv /\ Environment /\ UNCHANGED <<she, rm, apiVars>> => CoordinatorInv'
<1> SUFFICES ASSUME CoordinatorInv, Environment, UNCHANGED <<she, rm, apiVars>>
             PROVE  CoordinatorInv'
  OBVIOUS
<1>0. /\ SHTypeOK /\ RMTypeOK /\ RequestTypes /\ MinRF \in Nat
      /\ faults \in [FaultKind -> Nat]
      /\ she' = she /\ rm' = rm /\ req' = req /\ issued' = issued
  BY TypesAre, FactorAssumption
     DEF CoordinatorInv, ReplicationTypeOK, SHTypeOK, ClusterTypeOK, apiVars
<1>1. /\ ClusterTypeOK' /\ UNCHANGED <<factor, replica, listed>>
      /\ Costs(0)
      /\ \A o \in Object, n \in Node : LateCall(o, n)' => LateCall(o, n)
      /\ faults'["rot"] = 0 =>
           /\ faults["rot"] = 0
           /\ \A o \in Object, n \in Node :
                ~LateCall(o, n) => disk'[o][n] = disk[o][n]
  BY <1>0, EnvironmentShape
<1>2. CoordinatorTypeOK' /\ Locals' /\ OwnVariables'
  <2>1. RequestTypes'
    BY <1>0, <1>1 DEF RequestTypes
  <2>2. SHTypeOK' /\ RMTypeOK'
    BY <1>0, <1>1 DEF SHTypeOK, SHETypeOK, RMTypeOK
  <2>3. Locals' /\ OwnVariables'
    BY <1>0 DEF CoordinatorInv, Locals, OwnVariables
  <2> QED
    BY <2>1, <2>2, <2>3, TypesAreNext DEF SHTypeOK, ReplicationTypeOK
<1>3. \A o : Exists(o)' <=> Exists(o)
  BY <1>1 DEF Exists
<1>4. \A o \in Object : Aloof(o)
  BY <1>0, <1>1, <1>3 DEF Aloof, Fresh
<1>5. /\ RequestsOwn' /\ RecordsOK'
      /\ \A o : Excused(o)' <=> Excused(o)
  BY <1>0, <1>1, <1>3, <1>4, Backdrop DEF CoordinatorInv, RelyOnRows
<1>6. RowsHaveObjects' /\ RefillRow' /\ CandidateRows' /\ ListedRows'
  BY <1>0, <1>1, SameRows, RefillUntouched, SameRowsScaled
     DEF CoordinatorInv, RelyOnRows, Candidate, Condemned
<1>7. Debt \in Nat /\ Debt' \in Nat /\ Debt' >= Debt
  BY <1>0, <1>1, DebtTyped
<1>8. ASSUME faults'["rot"] = 0, NEW o \in Object, NEW n \in Node
      PROVE  Steadily(o, n)
  <2>1. /\ Endangered(o, n)' <=> Endangered(o, n)
        /\ Condemned(o, n)' <=> Condemned(o, n)
        /\ Candidate(o, n)' <=> Candidate(o, n)
        /\ Inserting(o, n)' <=> Inserting(o, n)
        /\ Refilled(o, n)' <=> Refilled(o, n)
    BY <1>0 DEF Endangered, Condemned, Candidate, Inserting, Refilled, InRecovery
  <2>2. CASE ~LateCall(o, n)
    <3>1. SameFile(o, n) /\ SamePlans(o, n)
      BY <1>1, <1>8, <2>1, <2>2 DEF SameFile, SamePlans
    <3> QED
      BY <1>0, <3>1, OutsidePlans
  <2>3. CASE LateCall(o, n)
    <3>1. ~Kept(o, n) /\ ~Solid(o, n)
      BY <2>3 DEF Kept, Solid
    <3>2. replica'[o][n] = replica[o][n] /\ replica[o][n] \in RowStatus
      BY <1>0, <1>1 DEF SHTypeOK, ClusterTypeOK
    <3>3. Doubtful(o, n)' => Doubtful(o, n)
      BY <1>1, <2>1, <2>3, <3>2 DEF Doubtful
    <3> QED
      BY <3>1, <3>3 DEF Steadily, NotWorse
  <2> QED
    BY <2>2, <2>3
<1>9. ASSUME faults'["rot"] = 0, NEW o \in Object
      PROVE  Balances(o) /\ KeepsFiles(o)
  BY <1>8, <1>9, AllSteady
<1>10. Slack'
  <2>1. ASSUME faults'["rot"] = 0, NEW o \in Object
        PROVE  Covered(o)'
    <3>1. Covered(o)
      BY <1>1, <2>1 DEF CoordinatorInv, Slack
    <3> QED
      BY <1>5, <1>7, <1>9, <2>1, <3>1, BalanceKept
  <2> QED
    BY <2>1 DEF Slack
<1>11. Safe'
  <2>1. ASSUME faults'["rot"] = 0, Debt' < MinRF, NEW o \in Object
        PROVE  Held(o)'
    <3>1. Held(o)
      BY <1>0, <1>1, <1>7, <2>1 DEF CoordinatorInv, Safe
    <3> QED
      BY <1>3, <1>5, <1>9, <2>1, <3>1, HeldKept
  <2> QED
    BY <2>1 DEF Safe
<1> QED
  BY <1>2, <1>5, <1>6, <1>10, <1>11 DEF CoordinatorInv, RelyOnRows

(* What the requests leave behind when the process dies.                   *)
LEMMA InterruptedExcuses ==
    ASSUME RequestTypes, RecordsOK, req' = Interrupted, NEW o
    PROVE  /\ Excused(o) => Excused(o)'
           /\ Calling(o) => Excused(o)'
           /\ \A r \in Request : req[r].pc \in StorePc /\ req[r].obj = o => Excused(o)'
           /\ \A r \in Request : req'[r].pc \notin StorePc /\ req'[r].obj = req[r].obj
<1>1. ASSUME NEW r \in Request
      PROVE  /\ req'[r].obj = req[r].obj /\ req'[r].factor = req[r].factor
             /\ req[r].pc \in {"new", "done"} => req'[r] = req[r]
             /\ req[r].pc \notin {"new", "done"} =>
                  req'[r].pc = "done" /\ req'[r].answer = "lost"
  BY InterruptedIs
<1>2. ASSUME NEW r \in Request, req[r].pc \in UploadPc, req[r].obj = o
      PROVE  Withdrawn(o)'
  <2>1. req[r].factor # 0 /\ req[r].pc \notin {"new", "done"}
    BY <1>2 DEF RecordsOK, RecordOK, UploadPc, StorePc
  <2>2. req'[r].obj = o /\ req'[r].factor # 0 /\ req'[r].answer = "lost"
    BY <1>1, <1>2, <2>1
  <2> QED
    BY <2>2 DEF Withdrawn
<1>3. ASSUME NEW r \in Request, req[r].pc \in DeletePc, req[r].obj = o
      PROVE  Deleting(o)'
  <2>1. req[r].factor = 0 /\ req[r].pc \notin {"new", "done"} /\ "delete" \in Kinds
    BY <1>3 DEF RecordsOK, RecordOK, DeletePc
  <2>2. req'[r].obj = o /\ req'[r].factor = 0 /\ req'[r].answer = "lost"
    BY <1>1, <1>3, <2>1
  <2> QED
    BY <2>1, <2>2 DEF Deleting
<1>4. Deleting(o) => Deleting(o)'
  <2> SUFFICES ASSUME Deleting(o) PROVE Deleting(o)'
    OBVIOUS
  <2>1. PICK r \in Request :
          /\ "delete" \in Kinds /\ req[r].obj = o /\ req[r].factor = 0
          /\ req[r].pc \in DeletePc \/ req[r].answer \in {"deleted", "failed", "lost"}
    BY DEF Deleting
  <2>2. CASE req[r].pc \in DeletePc
    BY <1>3, <2>1, <2>2
  <2>3. CASE req[r].answer \in {"deleted", "failed", "lost"}
    <3>1. req[r].pc = "done"
      BY <2>3 DEF RecordsOK, RecordOK
    <3>2. req'[r] = req[r]
      BY <1>1, <3>1
    <3> QED
      BY <2>1, <2>3, <3>2 DEF Deleting
  <2> QED
    BY <2>1, <2>2, <2>3
<1>5. Withdrawn(o) => Withdrawn(o)'
  <2> SUFFICES ASSUME Withdrawn(o) PROVE Withdrawn(o)'
    OBVIOUS
  <2>1. PICK r \in Request :
          /\ req[r].obj = o /\ req[r].factor # 0
          /\ req[r].pc = "cleanup" \/ req[r].answer \in {"failed", "lost"}
    BY DEF Withdrawn
  <2>2. CASE req[r].pc = "cleanup"
    BY <1>2, <2>1, <2>2 DEF UploadPc
  <2>3. CASE req[r].answer \in {"failed", "lost"}
    <3>1. req[r].pc = "done"
      BY <2>3 DEF RecordsOK, RecordOK
    <3>2. req'[r] = req[r]
      BY <1>1, <3>1
    <3> QED
      BY <2>1, <2>3, <3>2 DEF Withdrawn
  <2> QED
    BY <2>1, <2>2, <2>3
<1>6. Calling(o) => Excused(o)'
  BY <1>2, <1>3 DEF Calling, Excused, UploadPc, StorePc, DeletePc
<1>7. \A r \in Request : req[r].pc \in StorePc /\ req[r].obj = o => Excused(o)'
  BY <1>2 DEF Excused, UploadPc
<1>8. \A r \in Request : req'[r].pc \notin StorePc /\ req'[r].obj = req[r].obj
  BY <1>1 DEF StorePc
<1> QED
  BY <1>4, <1>5, <1>6, <1>7, <1>8 DEF Excused

(* After a restart the loops have no plans.                                *)
LEMMA NothingInHand ==
    ASSUME she' = SHEIdle, rm' = RMIdle, NEW o \in Object
    PROVE  /\ ~InRecovery'
           /\ \A n : /\ ~Endangered(o, n)' /\ ~Condemned(o, n)' /\ ~Candidate(o, n)'
                     /\ ~Inserting(o, n)' /\ ~Refilled(o, n)'
           /\ ~Exists(o)' => Fresh(o)'
<1>1. /\ she'.pc = "idle" /\ she'.obj = NoObject /\ she'.rows = {}
      /\ rm'.pc = "idle" /\ rm'.obj = NoObject /\ rm'.objs = {}
      /\ NoObject # o
  BY ClusterAssumption DEF SHEIdle, RMIdle
<1>2. ~InRecovery'
  BY <1>1 DEF InRecovery
<1> QED
  BY <1>1, <1>2 DEF Endangered, Condemned, Candidate, Inserting, Refilled, Fresh

LEMMA RestartKeepsInv == CoordinatorInv /\ Restart => CoordinatorInv'
<1> SUFFICES ASSUME CoordinatorInv, Restart PROVE CoordinatorInv'
  OBVIOUS
<1>0. /\ CoordinatorTypeOK /\ Locals /\ OwnVariables /\ RecordsOK /\ RequestTypes
      /\ RelyOnRows /\ Slack /\ Safe /\ MinRF \in Nat
  BY TypesAre, FactorAssumption DEF CoordinatorInv
<1>1. /\ CoordinatorTypeOK' /\ Locals' /\ OwnVariables' /\ RecordsOK'
      /\ she' = SHEIdle /\ rm' = RMIdle /\ req' = Interrupted /\ listed' = {}
      /\ UNCHANGED <<factor, replica, disk, issued>> /\ faults'["rot"] = faults["rot"]
      /\ Debt \in Nat /\ Debt' \in Nat /\ Debt' >= Debt + 2
  BY <1>0, RestartShape
<1>2. PICK m : \A o \in Object, n \in Node :
        /\ LateCall(o, n) => LateCall(o, n)'
        /\ LateCall(o, n)' =>
             \/ LateCall(o, n) \/ Calling(o)
             \/ she.pc = "push" /\ o = she.obj /\ n = she.dest
             \/ n = m /\ (Endangered(o, n) \/ Condemned(o, n))
        /\ Condemned(o, n) => n = m
  BY <1>0, RestartShape
<1>3. \A o : /\ Excused(o) => Excused(o)'
             /\ Calling(o) => Excused(o)'
             /\ \A r \in Request : req[r].pc \in StorePc /\ req[r].obj = o => Excused(o)'
             /\ \A r \in Request : req'[r].pc \notin StorePc /\ req'[r].obj = req[r].obj
  BY <1>0, <1>1, InterruptedExcuses
<1>4. \A o \in Object :
        /\ ~InRecovery'
        /\ \A n : /\ ~Endangered(o, n)' /\ ~Condemned(o, n)' /\ ~Candidate(o, n)'
                  /\ ~Inserting(o, n)' /\ ~Refilled(o, n)'
        /\ ~Exists(o)' => Fresh(o)'
  BY <1>1, NothingInHand
<1>5. \A o : Exists(o)' <=> Exists(o)
  BY <1>1 DEF Exists
<1>6. /\ RowsHaveObjects' /\ CandidateRows' /\ ListedRows' /\ RefillRow'
  <2>1. RowsHaveObjects'
    BY <1>0, <1>1, <1>5 DEF RelyOnRows, RowsHaveObjects
  <2>2. CandidateRows'
    BY <1>4 DEF CandidateRows
  <2>3. she'.pc = "idle"
    BY <1>1 DEF SHEIdle
  <2>4. ListedRows' /\ RefillRow'
    BY <1>1, <2>3 DEF ListedRows, RefillRow, InRecovery
  <2> QED
    BY <2>1, <2>2, <2>4
<1>7. Unissued'
  <2> SUFFICES ASSUME NEW o \in Object \ issued
               PROVE  /\ Fresh(o)' /\ \A r \in Request : req'[r].obj # o
                      /\ \A n \in Node : ~LateCall(o, n)'
    BY <1>1 DEF Unissued
  <2>1. /\ Fresh(o) /\ \A r \in Request : req[r].obj # o
        /\ \A n \in Node : ~LateCall(o, n)
    BY <1>0 DEF RelyOnRows, RequestsOwn, Unissued
  <2>2. /\ ~Exists(o) /\ she.obj # o /\ ~Calling(o)
        /\ \A n : ~Endangered(o, n) /\ ~Condemned(o, n)
    BY <2>1 DEF Fresh, Calling, Endangered, Condemned
  <2>3. \A n \in Node : ~LateCall(o, n)'
    BY <1>2, <2>1, <2>2
  <2>4. Fresh(o)'
    BY <1>4, <1>5, <2>2
  <2> QED
    BY <1>3, <2>1, <2>3, <2>4
<1>8. Uploads' /\ Acked'
  BY <1>3 DEF Uploads, Acked
<1>9. Accounted'
  <2> SUFFICES ASSUME NEW o \in issued
               PROVE  Exists(o)' \/ Excused(o)'
    BY <1>1 DEF Accounted
  <2>1. \/ Exists(o) \/ Excused(o)
        \/ \E r \in Request : req[r].pc \in StorePc /\ req[r].obj = o
    BY <1>0 DEF RelyOnRows, RequestsOwn, Accounted
  <2> QED
    BY <1>3, <1>5, <2>1
<1>10. ASSUME NEW o \in Object, ~Excused(o)', NEW n \in Node
       PROVE  /\ Kept(o, n) => Kept(o, n)'
              /\ Solid(o, n) => Solid(o, n)'
              /\ Doubtful(o, n)' => Doubtful(o, n) \/ n = m \/ n = she.dest
  <2>1. ~Excused(o) /\ ~Calling(o)
    BY <1>3, <1>10
  <2>2. she.pc = "push" /\ o = she.obj => replica[o][she.dest] = "RECOVERING"
    BY <1>0, <2>1, RowInHand DEF InRecovery
  <2>3. Kept(o, n) => Kept(o, n)'
    BY <1>1, <1>2, <1>4, <2>1, <2>2 DEF Kept
  <2>4. Solid(o, n) => Solid(o, n)'
    BY <1>4, <2>3 DEF Solid
  <2>5. ASSUME Doubtful(o, n)', n # m, n # she.dest
        PROVE  Doubtful(o, n)
    <3>1. (LateCall(o, n)' <=> LateCall(o, n)) /\ ~Condemned(o, n) /\ ~Refilled(o, n)
      BY <1>2, <2>1, <2>5 DEF Refilled
    <3>2. /\ ~Candidate(o, n)' /\ ~Inserting(o, n)'
      BY <1>4
    <3> QED
      BY <1>1, <2>5, <3>1, <3>2 DEF Doubtful
  <2> QED
    BY <2>3, <2>4, <2>5
<1>11. Slack'
  <2> SUFFICES ASSUME faults'["rot"] = 0, NEW o \in Object, ~Excused(o)'
               PROVE  Balance(DoubtfulOn(o)', SolidOn(o)', Debt')
    BY DEF Slack, Covered, Balance
  <2> DEFINE P == DoubtfulOn(o)
             Q == DoubtfulOn(o)'
             S == SolidOn(o)
             T == SolidOn(o)'
  <2>1. Balance(P, S, Debt)
    BY <1>0, <1>1, <1>3 DEF Slack, Covered, Balance
  <2>2. Q \subseteq (P \cup {m}) \cup {she.dest}
    BY <1>10 DEF DoubtfulOn
  <2>3. S \subseteq T
    BY <1>10 DEF SolidOn
  <2>4. IsFiniteSet(P) /\ IsFiniteSet(T)
    BY FiniteOn, FiniteOnNext
  <2> HIDE DEF P, Q, S, T
  <2>5. Balance(Q, T, Debt')
    BY <1>1, <2>1, <2>2, <2>3, <2>4, RestartBalance
  <2> QED
    BY <2>5 DEF Q, T
<1>12. Safe'
  <2> SUFFICES ASSUME faults'["rot"] = 0, Debt' < MinRF, NEW o \in Object,
                      Exists(o), ~Excused(o)'
               PROVE  KeptOn(o)' # {}
    BY <1>5 DEF Safe, Held
  <2>1. KeptOn(o) # {}
    BY <1>0, <1>1, <1>3 DEF Safe, Held
  <2>2. PICK n \in Node : Kept(o, n)
    BY <2>1 DEF KeptOn
  <2> QED
    BY <1>10, <2>2 DEF KeptOn
<1> QED
  BY <1>1, <1>6, <1>7, <1>8, <1>9, <1>11, <1>12
     DEF CoordinatorInv, RelyOnRows, RequestsOwn

-----------------------------------------------------------------------------
(* The requests.                                                           *)

(* Once a request removes an object it does so to the end.                 *)
LEMMA ExcusedStays ==
    ASSUME RecordsOK, NEW r \in Request,
           req[r].pc = "new" \/ Follows(req[r], req'[r]),
           \A s \in Request : s # r => req'[s] = req[s],
           NEW o, Excused(o)
    PROVE  Excused(o)'
<1>1. PICK s \in Request :
        /\ req[s].obj = o
        /\ \/ /\ "delete" \in Kinds /\ req[s].factor = 0
              /\ req[s].pc \in DeletePc \/ req[s].answer \in {"deleted", "failed", "lost"}
           \/ /\ req[s].factor # 0
              /\ req[s].pc = "cleanup" \/ req[s].answer \in {"failed", "lost"}
  BY DEF Excused, Deleting, Withdrawn
<1>2. CASE s # r
  BY <1>1, <1>2 DEF Excused, Deleting, Withdrawn
<1>3. CASE s = r
  <2>1. RecordOK(req[r]) /\ req[r].pc # "done" /\ req[r].pc # "new"
        /\ Follows(req[r], req'[r])
    BY <1>1, <1>3 DEF RecordsOK, RecordOK, Follows, DeletePc
  <2>2. req[r].answer = "none" /\ req'[r].obj = o /\ req'[r].factor = req[r].factor
    BY <1>1, <1>3, <2>1 DEF RecordOK, Follows
  <2>3. CASE "delete" \in Kinds /\ req[r].factor = 0 /\ req[r].pc \in DeletePc
    BY <2>1, <2>2, <2>3 DEF Follows, Excused, Deleting
  <2>4. CASE req[r].factor # 0 /\ req[r].pc = "cleanup"
    BY <2>1, <2>2, <2>4 DEF Follows, Excused, Withdrawn
  <2> QED
    BY <1>1, <1>3, <2>2, <2>3, <2>4
<1> QED
  BY <1>2, <1>3

(* A request that is removing an object excuses it.                        *)
LEMMA RemovingExcuses ==
    ASSUME RecordsOK, NEW r \in Request,
           req[r].pc \in DeletePc \/ req[r].pc = "cleanup"
    PROVE  Excused(req[r].obj)
<1>1. RecordOK(req[r])
  BY DEF RecordsOK
<1> QED
  BY <1>1 DEF RecordOK, Excused, Deleting, Withdrawn, UploadPc, DeletePc

(* What a step of a request has to show of the balance.                    *)
LEMMA RequestKeepsBalance ==
    ASSUME CoordinatorInv, Costs(0), faults'["rot"] = faults["rot"],
           \A o : Excused(o) => Excused(o)',
           \A o \in Object : faults["rot"] = 0 =>
              \/ Excused(o)'
              \/ Balances(o) /\ KeepsFiles(o) /\ (Exists(o)' => Exists(o))
              \/ Balances(o) /\ ~Exists(o)'
              \/ Covered(o)' /\ Held(o)'
    PROVE  Slack' /\ Safe'
<1>1. faults \in [FaultKind -> Nat] /\ MinRF \in Nat
  BY FactorAssumption DEF CoordinatorInv, CoordinatorTypeOK, SHTypeOK, ClusterTypeOK
<1>2. Debt \in Nat /\ Debt' \in Nat /\ Debt' >= Debt
  BY <1>1, DebtTyped
<1>3. ASSUME faults'["rot"] = 0, NEW o \in Object
      PROVE  Covered(o)' /\ (Debt' < MinRF => Held(o)')
  <2>1. Covered(o) /\ (Debt' < MinRF => Held(o))
    BY <1>1, <1>2, <1>3 DEF CoordinatorInv, Slack, Safe
  <2>2. Excused(o) => Excused(o)'
    OBVIOUS
  <2>3. \/ Excused(o)'
        \/ Balances(o) /\ KeepsFiles(o) /\ (Exists(o)' => Exists(o))
        \/ Balances(o) /\ ~Exists(o)'
        \/ Covered(o)' /\ Held(o)'
    BY <1>3
  <2>4. Covered(o)'
    <3>1. Excused(o)' => Covered(o)'
      BY DEF Covered
    <3>2. Balances(o) => Covered(o)'
      BY <1>2, <2>1, <2>2, BalanceKept
    <3> QED
      BY <2>3, <3>1, <3>2
  <2>5. Debt' < MinRF => Held(o)'
    <3>1. Excused(o)' \/ ~Exists(o)' => Held(o)'
      BY DEF Held
    <3>2. KeepsFiles(o) /\ (Exists(o)' => Exists(o)) /\ Held(o) => Held(o)'
      BY <2>2, HeldKept
    <3> QED
      BY <2>1, <2>3, <3>1, <3>2
  <2> QED
    BY <2>4, <2>5
<1> QED
  BY <1>3 DEF Slack, Safe

LEMMA UntouchedObject ==
    ASSUME UNCHANGED <<she, rm>>, NEW o, \A n \in Node : SameFile(o, n)
    PROVE  Balances(o) /\ KeepsFiles(o)
<1>1. \A n : SamePlans(o, n)
  BY DEF SamePlans, Endangered, Candidate, Condemned, Inserting
<1>2. \A n \in Node : Steadily(o, n)
  BY <1>1, OutsidePlans
<1> QED
  BY <1>2, AllSteady

(* What it has to show of the rest.                                        *)
LEMMA RequestKeepsInv ==
    ASSUME CoordinatorInv, NEW r \in Request, OneRequest(r),
           UNCHANGED <<she, rm>>,
           RowsHaveObjects', RefillRow', CandidateRows', ListedRows', RequestsOwn',
           Slack', Safe'
    PROVE  CoordinatorInv'
<1>1. /\ SHTypeOK /\ RMTypeOK /\ Locals /\ OwnVariables /\ RecordsOK
      /\ she' = she /\ rm' = rm
  BY DEF CoordinatorInv, CoordinatorTypeOK
<1>2. RequestTypes' /\ ClusterTypeOK'
  BY DEF OneRequest, RequestTypes
<1>3. SHTypeOK' /\ ReplicationTypeOK'
  BY <1>1, <1>2 DEF SHTypeOK, SHETypeOK, ReplicationTypeOK, RMTypeOK
<1>4. Locals' /\ OwnVariables'
  BY <1>1 DEF Locals, OwnVariables
<1>5. RecordsOK'
  BY <1>1 DEF OneRequest, RecordsOK, RecordOK
<1> QED
  BY <1>2, <1>3, <1>4, <1>5, TypesAreNext DEF CoordinatorInv, RelyOnRows

(* The rows as they were.                                                  *)
LEMMA RowsAsTheyWere ==
    ASSUME RelyOnRows, UNCHANGED <<factor, replica, listed, she, rm>>
    PROVE  RowsHaveObjects' /\ RefillRow' /\ CandidateRows' /\ ListedRows'
BY SameRowsScaled DEF Candidate, Condemned

(* The request's object belongs to it alone while it is uploaded.          *)
LEMMA NotBeingUploaded ==
    ASSUME Uploads, NEW r \in Request, NEW s \in Request \ {r},
           req[r].pc # "done", req[s].pc \in StorePc
    PROVE  req[s].obj # req[r].obj
BY DEF Uploads

(* A request that does not upload goes on with its object.                 *)
LEMMA AccountedStill ==
    ASSUME RelyOnRows, RecordsOK, RequestTypes, NEW r \in Request,
           UNCHANGED issued, \A s \in Request : s # r => req'[s] = req[s],
           \A o : Excused(o) => Excused(o)',
           Follows(req[r], req'[r]) \/ req[r].pc = "new",
           \A o \in Object : Exists(o) => Exists(o)' \/ Excused(o),
           \/ req'[r].answer # "created" \/ req[r].pc \notin StorePc
           \/ Exists(req[r].obj)'
    PROVE  Accounted'
<1> SUFFICES ASSUME NEW o \in issued
             PROVE  \/ Exists(o)' \/ Excused(o)'
                    \/ \E s \in Request : req'[s].pc \in StorePc /\ req'[s].obj = o
  BY DEF Accounted
<1>1. o \in Object
  BY DEF RequestTypes
<1>2. \/ Exists(o) \/ Excused(o)
      \/ \E s \in Request : req[s].pc \in StorePc /\ req[s].obj = o
  BY DEF RelyOnRows, RequestsOwn, Accounted
<1>3. CASE Exists(o) \/ Excused(o)
  BY <1>1, <1>3
<1>4. CASE \E s \in Request : req[s].pc \in StorePc /\ req[s].obj = o
  <2>1. PICK s \in Request : req[s].pc \in StorePc /\ req[s].obj = o
    BY <1>4
  <2>2. CASE s # r
    BY <2>1, <2>2
  <2>3. CASE s = r
    <3>1. Follows(req[r], req'[r]) /\ req[r].factor # 0
      BY <2>1, <2>3 DEF RecordsOK, RecordOK, UploadPc, StorePc
    <3>2. req'[r].obj = o /\ req'[r].factor # 0
      BY <2>1, <2>3, <3>1 DEF Follows
    <3>3. \/ req'[r].pc \in StorePc
          \/ req'[r].pc = "cleanup" \/ req'[r].answer = "failed"
          \/ req'[r].answer = "created"
      BY <2>1, <2>3, <3>1 DEF Follows
    <3>4. CASE req'[r].pc \in StorePc
      BY <3>2, <3>4
    <3>5. CASE req'[r].pc = "cleanup" \/ req'[r].answer = "failed"
      BY <3>2, <3>5 DEF Excused, Withdrawn
    <3>6. CASE req'[r].answer = "created"
      BY <2>1, <2>3, <3>2, <3>6 DEF Exists
    <3> QED
      BY <3>3, <3>4, <3>5, <3>6
  <2> QED
    BY <2>2, <2>3
<1> QED
  BY <1>2, <1>3, <1>4

(* A request that goes on with its object, and what it leaves of it.       *)
OneObject(r) ==
    \A o \in Object : o # req[r].obj => /\ Exists(o)' <=> Exists(o)
                                        /\ \A n \in Node : SameFile(o, n)
UploadLeft(r) ==
    req'[r].pc \in StorePc =>
        /\ ~Exists(req[r].obj)'
        /\ \A n \in req'[r].todo : ~LateCall(req[r].obj, n)'
        /\ faults'["rot"] = 0 =>
             \A n \in req'[r].ok : /\ disk'[req[r].obj][n] = "good"
                                   /\ ~LateCall(req[r].obj, n)'

LEMMA UploadsStill ==
    ASSUME RelyOnRows, RequestTypes, RecordsOK, NEW r \in Request, OneRequest(r),
           Follows(req[r], req'[r]), OneObject(r), UploadLeft(r),
           UNCHANGED <<she, rm, issued>>, faults'["rot"] = faults["rot"]
    PROVE  Unissued' /\ Uploads' /\ Acked'
<1>1. /\ req'[r].obj = req[r].obj /\ req[r].pc # "done"
      /\ req'[r].pc \in StorePc => req[r].pc \in StorePc
      /\ \A s \in Request : s # r => req'[s] = req[s]
  BY DEF Follows, OneRequest
<1>2. /\ she'.rows = she.rows /\ she'.obj = she.obj
      /\ rm'.objs = rm.objs /\ rm'.obj = rm.obj
  OBVIOUS
<1>3. ASSUME NEW o \in Object, o # req[r].obj, Fresh(o)
      PROVE  Fresh(o)'
  BY <1>2, <1>3 DEF OneObject, Fresh
<1>4. Unissued'
  <2> SUFFICES ASSUME NEW o \in Object \ issued
               PROVE  /\ Fresh(o)' /\ \A s \in Request : req'[s].obj # o
                      /\ \A n \in Node : ~LateCall(o, n)'
    BY DEF Unissued
  <2>1. /\ Fresh(o) /\ \A s \in Request : req[s].obj # o
        /\ \A n \in Node : ~LateCall(o, n)
    BY DEF RelyOnRows, RequestsOwn, Unissued
  <2>2. \A n \in Node : ~LateCall(o, n)'
    BY <2>1 DEF OneObject, SameFile
  <2> QED
    BY <1>1, <1>3, <2>1, <2>2
<1>5. ASSUME NEW s \in Request, req'[s].pc \in StorePc, s # r
      PROVE  /\ req'[s] = req[s] /\ req[s].obj \in Object
             /\ req[s].obj # req[r].obj
  <2>1. req'[s] = req[s] /\ RecordOK(req[s])
    BY <1>1, <1>5 DEF RecordsOK
  <2> QED
    BY <1>1, <1>5, <2>1, NotBeingUploaded DEF RelyOnRows, RequestsOwn, RecordOK, UploadPc
<1>6. Uploads'
  <2> SUFFICES ASSUME NEW s \in Request, req'[s].pc \in StorePc,
                      NEW o, o = req'[s].obj
               PROVE  /\ Fresh(o)' /\ o \in issued
                      /\ \A t \in Request \ {s} : req'[t].obj = o =>
                           req'[t].pc = "done" /\ req'[t].factor = 0
                      /\ \A n \in req'[s].todo : ~LateCall(o, n)'
    BY DEF Uploads, Fresh, LateCall, Exists
  <2>1. /\ req[s].pc \in StorePc /\ req[s].obj = o
    BY <1>1, <1>5
  <2>2. /\ Fresh(o) /\ o \in issued /\ o \in Object
        /\ \A t \in Request \ {s} : req[t].obj = o =>
             req[t].pc = "done" /\ req[t].factor = 0
        /\ \A n \in req[s].todo : ~LateCall(o, n)
    BY <2>1 DEF RelyOnRows, RequestsOwn, Uploads, RequestTypes
  <2>3. CASE s = r
    <3>1. Fresh(o)'
      BY <1>2, <2>1, <2>2, <2>3 DEF Fresh, UploadLeft, Exists
    <3>2. \A n \in req'[r].todo : ~LateCall(o, n)'
      BY <2>1, <2>3 DEF UploadLeft, LateCall
    <3> QED
      BY <1>1, <2>2, <2>3, <3>1, <3>2
  <2>4. CASE s # r
    <3>1. o # req[r].obj /\ req'[s] = req[s] /\ req[s].todo \subseteq Node
      BY <1>5, <2>1, <2>4 DEF RequestTypes, RequestRec
    <3>2. Fresh(o)' /\ \A n \in Node : LateCall(o, n)' => LateCall(o, n)
      BY <1>3, <2>2, <3>1 DEF OneObject, SameFile
    <3> QED
      BY <1>1, <2>2, <3>1, <3>2
  <2> QED
    BY <2>3, <2>4
<1>7. Acked'
  <2> SUFFICES ASSUME faults'["rot"] = 0, NEW s \in Request, req'[s].pc \in StorePc,
                      NEW o, o = req'[s].obj, NEW n \in req'[s].ok
               PROVE  disk'[o][n] = "good" /\ ~LateCall(o, n)'
    BY DEF Acked, LateCall
  <2>1. CASE s = r
    BY <1>1, <2>1 DEF UploadLeft, LateCall
  <2>2. CASE s # r
    <3>1. req'[s] = req[s] /\ o \in Object /\ o # req[r].obj /\ n \in Node
      BY <1>5, <2>2 DEF RequestTypes, RequestRec
    <3>2. disk[o][n] = "good" /\ ~LateCall(o, n)
      BY <3>1 DEF RelyOnRows, RequestsOwn, Acked
    <3> QED
      BY <3>1, <3>2 DEF OneObject, SameFile
  <2> QED
    BY <2>1, <2>2
<1> QED
  BY <1>4, <1>6, <1>7

LEMMA FollowsKeepsInv ==
    ASSUME CoordinatorInv, NEW r \in Request, OneRequest(r), Costs(0),
           Follows(req[r], req'[r]), OneObject(r), UploadLeft(r),
           UNCHANGED <<she, rm, issued>>, faults'["rot"] = faults["rot"],
           RowsHaveObjects', RefillRow', CandidateRows', ListedRows',
           Exists(req[r].obj) => Exists(req[r].obj)' \/ req[r].pc \in DeletePc,
           \/ req'[r].answer # "created" \/ req[r].pc \notin StorePc
           \/ Exists(req[r].obj)',
           \A o \in Object : o = req[r].obj /\ faults["rot"] = 0 =>
              \/ Excused(o)'
              \/ Balances(o) /\ KeepsFiles(o) /\ (Exists(o)' => Exists(o))
              \/ Balances(o) /\ ~Exists(o)'
              \/ Covered(o)' /\ Held(o)'
    PROVE  CoordinatorInv'
<1>1. RequestTypes /\ RecordsOK /\ RelyOnRows
  BY TypesAre DEF CoordinatorInv
<1>2. \A s \in Request : s # r => req'[s] = req[s]
  BY DEF OneRequest
<1>3. \A o : Excused(o) => Excused(o)'
  BY <1>1, <1>2, ExcusedStays
<1>4. Unissued' /\ Uploads' /\ Acked'
  BY <1>1, UploadsStill
<1>5. \A o \in Object : Exists(o) => Exists(o)' \/ Excused(o)
  <2>1. req[r].pc \in DeletePc => Excused(req[r].obj)
    BY <1>1, RemovingExcuses
  <2>2. ASSUME NEW o \in Object, o = req[r].obj, Exists(o)
        PROVE  Exists(o)' \/ Excused(o)
    BY <2>1, <2>2 DEF Exists, Follows
  <2> QED
    BY <2>2 DEF OneObject
<1>6. Accounted'
  BY <1>1, <1>2, <1>3, <1>5, AccountedStill
<1>7. \A o \in Object : o # req[r].obj =>
        Balances(o) /\ KeepsFiles(o) /\ (Exists(o)' => Exists(o))
  BY UntouchedObject DEF OneObject
<1>8. Slack' /\ Safe'
  BY <1>3, <1>7, RequestKeepsBalance
<1> QED
  BY <1>4, <1>6, <1>8, RequestKeepsInv DEF RequestsOwn

LEMMA GoesKeepsInv ==
    ASSUME CoordinatorInv, NEW r \in Request, OneRequest(r), Costs(0),
           UNCHANGED <<she, rm>>, Goes(r)
    PROVE  CoordinatorInv'
<1>1. /\ RequestStill /\ UNCHANGED issued /\ Follows(req[r], req'[r])
      /\ req'[r].answer # "created"
      /\ req'[r].pc \in StorePc =>
           req'[r].ok = req[r].ok /\ req'[r].todo \subseteq req[r].todo
      /\ RelyOnRows
  BY DEF Goes, CoordinatorInv
<1>2. /\ UNCHANGED <<factor, replica, disk, late, listed>>
      /\ faults'["rot"] = faults["rot"]
  BY <1>1 DEF RequestStill
<1>3. /\ \A o : Exists(o)' <=> Exists(o)
      /\ \A o, n : SameFile(o, n)
  BY <1>2 DEF Exists, SameFile, LateCall
<1>4. OneObject(r)
  BY <1>3 DEF OneObject
<1>5. UploadLeft(r)
  <2> SUFFICES ASSUME req'[r].pc \in StorePc PROVE UploadLeft(r)
    BY DEF UploadLeft
  <2>1. req[r].pc \in StorePc /\ req'[r].obj = req[r].obj
    BY <1>1 DEF Follows
  <2>2. /\ Fresh(req[r].obj)
        /\ \A n \in req[r].todo : ~LateCall(req[r].obj, n)
        /\ faults["rot"] = 0 =>
             \A n \in req[r].ok : /\ disk[req[r].obj][n] = "good"
                                  /\ ~LateCall(req[r].obj, n)
    BY <1>1, <2>1 DEF RelyOnRows, RequestsOwn, Uploads, Acked
  <2> QED
    BY <1>1, <1>2, <2>1, <2>2 DEF UploadLeft, Fresh, Exists, LateCall
<1>6. RowsHaveObjects' /\ RefillRow' /\ CandidateRows' /\ ListedRows'
  BY <1>1, <1>2, RowsAsTheyWere
<1>7. Exists(req[r].obj) => Exists(req[r].obj)'
  BY <1>1, <1>2 DEF Exists, Follows
<1>8. \A o \in Object : Balances(o) /\ KeepsFiles(o) /\ (Exists(o)' => Exists(o))
  BY <1>3, UntouchedObject
<1> QED
  BY <1>1, <1>2, <1>4, <1>5, <1>6, <1>7, <1>8, FollowsKeepsInv

LEMMA PurgesKeepsInv ==
    ASSUME CoordinatorInv, NEW r \in Request, OneRequest(r), Costs(0),
           faults'["rot"] = faults["rot"],
           UNCHANGED <<she, rm>>, NEW n \in Node, PurgesOn(r, n)
    PROVE  CoordinatorInv'
<1>1. /\ UNCHANGED <<factor, replica, listed, issued>> /\ Follows(req[r], req'[r])
      /\ req'[r].pc = req[r].pc /\ req[r].pc \in {"purge", "cleanup"}
      /\ CallOutcome(req[r].obj, n, "delete")
      /\ RelyOnRows /\ RecordsOK
  BY DEF PurgesOn, CoordinatorInv
<1>2. /\ req'[r].obj = req[r].obj /\ req'[r].pc \notin StorePc
      /\ req[r].pc \notin StorePc
  BY <1>1 DEF Follows, StorePc
<1>3. \A o : Exists(o)' <=> Exists(o)
  BY <1>1 DEF Exists
<1>4. OneObject(r)
  <2>1. \A a \in Object, b \in Node : a # req[r].obj =>
          disk'[a][b] = disk[a][b] /\ (LateCall(a, b)' <=> LateCall(a, b))
    BY <1>1, CallTouches
  <2> QED
    BY <1>1, <1>3, <2>1 DEF OneObject, SameFile
<1>5. UploadLeft(r)
  BY <1>2 DEF UploadLeft
<1>6. RowsHaveObjects' /\ RefillRow' /\ CandidateRows' /\ ListedRows'
  BY <1>1, RowsAsTheyWere
<1>7. Exists(req[r].obj) => Exists(req[r].obj)'
  BY <1>1, <1>2 DEF Exists
<1>8. Excused(req[r].obj)'
  <2>1. Excused(req[r].obj)
    BY <1>1, RemovingExcuses DEF DeletePc
  <2>2. PICK o : o = req[r].obj
    OBVIOUS
  <2>3. Excused(o)'
    BY <1>1, <2>1, <2>2, ExcusedStays DEF OneRequest
  <2> QED
    BY <1>2, <2>2, <2>3 DEF Excused, Deleting, Withdrawn
<1>9. ASSUME NEW o \in Object, o = req[r].obj
      PROVE  Excused(o)'
  BY <1>2, <1>8, <1>9 DEF Excused, Deleting, Withdrawn
<1> QED
  BY <1>1, <1>2, <1>4, <1>5, <1>6, <1>7, <1>9, FollowsKeepsInv

LEMMA StoresKeepsInv ==
    ASSUME CoordinatorInv, NEW r \in Request, OneRequest(r), Costs(0),
           faults'["rot"] = faults["rot"],
           UNCHANGED <<she, rm>>, NEW n \in Node, StoresOn(r, n)
    PROVE  CoordinatorInv'
<1>1. /\ UNCHANGED <<factor, replica, listed, issued>> /\ Follows(req[r], req'[r])
      /\ req[r].pc = "store" /\ req'[r].pc = "store"
      /\ n \in req[r].todo /\ req'[r].todo \subseteq req[r].todo \ {n}
      /\ CallOutcome(req[r].obj, n, "store")
      /\ \/ req'[r].ok = req[r].ok
         \/ /\ req'[r].ok = req[r].ok \cup {n}
            /\ disk'[req[r].obj][n] = "good" /\ late' = late
      /\ RelyOnRows /\ RecordsOK /\ RequestTypes
  BY TypesAre DEF StoresOn, CoordinatorInv
<1>2. PICK o \in Object : o = req[r].obj
  BY <1>1 DEF RecordsOK, RecordOK, UploadPc, StorePc
<1>3. /\ req'[r].obj = o /\ req[r].pc \in StorePc
      /\ req[r].ok \in SUBSET Node /\ req[r].todo \in SUBSET Node
      /\ n \notin req[r].ok
  <2>1. RecordOK(req[r]) /\ req[r] \in RequestRec
    BY <1>1 DEF RecordsOK, RequestTypes
  <2> QED
    BY <1>1, <1>2, <2>1 DEF Follows, StorePc, RecordOK, RequestRec
<1>4. /\ Fresh(o) /\ \A m \in req[r].todo : ~LateCall(o, m)
      /\ faults["rot"] = 0 =>
           \A m \in req[r].ok : disk[o][m] = "good" /\ ~LateCall(o, m)
  BY <1>1, <1>2, <1>3 DEF RelyOnRows, RequestsOwn, Uploads, Acked
<1>5. /\ \A a \in Object, b \in Node : a # o \/ b # n =>
           /\ disk'[a][b] = disk[a][b] /\ (LateCall(a, b)' <=> LateCall(a, b))
      /\ \/ late' = late
         \/ disk' = disk /\ LateCall(o, n)' /\ Costs(1)
  BY <1>1, <1>2, CallTouches
<1>6. \A a : Exists(a)' <=> Exists(a)
  BY <1>1 DEF Exists
<1>7. OneObject(r)
  BY <1>1, <1>2, <1>5, <1>6 DEF OneObject, SameFile
<1>8. UploadLeft(r)
  <2>1. ~Exists(o)'
    BY <1>4, <1>6 DEF Fresh
  <2>2. \A m \in req'[r].todo : ~LateCall(o, m)'
    BY <1>1, <1>3, <1>4, <1>5
  <2>3. ASSUME faults["rot"] = 0, NEW m \in req'[r].ok
        PROVE  disk'[o][m] = "good" /\ ~LateCall(o, m)'
    <3>1. CASE m \in req[r].ok
      BY <1>3, <1>4, <1>5, <2>3, <3>1
    <3>2. CASE m \notin req[r].ok
      <4>1. m = n /\ disk'[o][n] = "good" /\ late' = late
        BY <1>1, <1>2, <2>3, <3>2
      <4> QED
        BY <1>1, <1>4, <4>1 DEF LateCall
    <3> QED
      BY <3>1, <3>2
  <2> QED
    BY <1>2, <1>3, <2>1, <2>2, <2>3 DEF UploadLeft, Exists, LateCall
<1>9. RowsHaveObjects' /\ RefillRow' /\ CandidateRows' /\ ListedRows'
  BY <1>1, RowsAsTheyWere
<1>10. Exists(req[r].obj) => Exists(req[r].obj)'
  BY <1>1, <1>2, <1>3 DEF Exists
<1>11. Balances(o) /\ ~Exists(o)'
  <2>1. ~Exists(o)'
    BY <1>4, <1>6 DEF Fresh
  <2>2. \A m : SamePlans(o, m)
    BY DEF SamePlans, Endangered, Candidate, Condemned, Inserting
  <2>3. ASSUME NEW m \in Node \ {n}
        PROVE  NotWorse(o, m)
    <3>1. SameFile(o, m) /\ SamePlans(o, m) /\ UNCHANGED she
      BY <1>1, <1>5, <2>2, <2>3 DEF SameFile
    <3> QED
      BY <3>1, OutsidePlans DEF Steadily
  <2>4. /\ replica[o][n] = "NONE" /\ replica'[o][n] = "NONE"
        /\ ~Inserting(o, n)'
    BY <1>1, <1>4 DEF Fresh, RelyOnRows, RowsHaveObjects, Inserting
  <2>5. ~Solid(o, n) /\ (Doubtful(o, n)' => LateCall(o, n)')
    BY <2>4 DEF Solid, Kept, Doubtful
  <2>6. CASE late' = late
    <3>1. NotWorse(o, n)
      BY <2>4, <2>5, <2>6 DEF NotWorse, Doubtful, LateCall
    <3> QED
      BY <2>1, <2>3, <3>1 DEF Balances, Still
  <2>7. CASE Costs(1)
    <3>1. Debt' >= Debt + 1
      BY <1>1, <2>7, DebtGrows DEF RequestTypes, ClusterTypeOK
    <3> QED
      BY <2>1, <2>3, <2>5, <3>1 DEF Balances, Still, StaysSolid
  <2> QED
    BY <1>5, <2>6, <2>7
<1>12. req'[r].answer # "created"
  BY <1>1 DEF OneRequest, RecordOK
<1>13. Follows(req[r], req'[r]) /\ UNCHANGED issued
  BY <1>1
<1>14. \A a \in Object : a = req[r].obj => Balances(a) /\ ~Exists(a)'
  BY <1>2, <1>11
<1> QED
  BY <1>7, <1>8, <1>9, <1>10, <1>12, <1>13, <1>14, FollowsKeepsInv

(* A request taken up leaves all but itself as it was.                     *)
LEMMA TakenUpKeeps ==
    ASSUME CoordinatorInv, NEW r \in Request, OneRequest(r), Costs(0),
           UNCHANGED <<she, rm>>, RequestStill, req[r].pc = "new"
    PROVE  /\ Slack' /\ Safe' /\ \A o : Excused(o) => Excused(o)'
           /\ RowsHaveObjects' /\ RefillRow' /\ CandidateRows' /\ ListedRows'
           /\ \A o : Exists(o)' <=> Exists(o)
           /\ \A o : Fresh(o)' <=> Fresh(o)
           /\ \A o, n : LateCall(o, n)' <=> LateCall(o, n)
<1>1. /\ UNCHANGED <<factor, replica, disk, late, listed>>
      /\ faults'["rot"] = faults["rot"] /\ RecordsOK /\ RelyOnRows
  BY DEF RequestStill, CoordinatorInv
<1>2. /\ \A o : Exists(o)' <=> Exists(o)
      /\ \A o, n : SameFile(o, n)
      /\ \A o, n : LateCall(o, n)' <=> LateCall(o, n)
  BY <1>1 DEF Exists, SameFile, LateCall
<1>3. \A o : Fresh(o)' <=> Fresh(o)
  BY <1>2 DEF Fresh
<1>4. \A o : Excused(o) => Excused(o)'
  BY <1>1, ExcusedStays DEF OneRequest
<1>5. \A o \in Object : Balances(o) /\ KeepsFiles(o) /\ (Exists(o)' => Exists(o))
  BY <1>2, UntouchedObject
<1>6. Slack' /\ Safe'
  BY <1>1, <1>4, <1>5, RequestKeepsBalance
<1>7. RowsHaveObjects' /\ RefillRow' /\ CandidateRows' /\ ListedRows'
  BY <1>1, RowsAsTheyWere
<1> QED
  BY <1>2, <1>3, <1>4, <1>6, <1>7

LEMMA LooksKeepsInv ==
    ASSUME CoordinatorInv, NEW r \in Request, OneRequest(r), Costs(0),
           UNCHANGED <<she, rm>>, Looks(r)
    PROVE  CoordinatorInv'
<1>1. /\ RequestStill /\ req[r].pc = "new" /\ UNCHANGED issued
      /\ req'[r].obj \in issued /\ req'[r].factor = 0
      /\ \/ req'[r].pc = "done"
         \/ Exists(req'[r].obj) /\ req'[r].pc \in {"listRows", "listHealthy"}
      /\ RelyOnRows /\ RecordsOK /\ RequestTypes
  BY TypesAre DEF Looks, CoordinatorInv
<1>2. /\ Slack' /\ Safe' /\ \A o : Excused(o) => Excused(o)'
      /\ RowsHaveObjects' /\ RefillRow' /\ CandidateRows' /\ ListedRows'
      /\ \A o : Exists(o)' <=> Exists(o)
      /\ \A o : Fresh(o)' <=> Fresh(o)
      /\ \A o, n : LateCall(o, n)' <=> LateCall(o, n)
  BY <1>1, TakenUpKeeps
<1>3. /\ \A s \in Request : s # r => req'[s] = req[s]
      /\ req'[r].pc \notin StorePc /\ req[r].pc \notin StorePc
  BY <1>1 DEF OneRequest, StorePc
<1>4. Unissued'
  <2> SUFFICES ASSUME NEW o \in Object \ issued
               PROVE  /\ Fresh(o)' /\ \A s \in Request : req'[s].obj # o
                      /\ \A n \in Node : ~LateCall(o, n)'
    BY <1>1 DEF Unissued
  <2> QED
    BY <1>1, <1>2, <1>3 DEF RelyOnRows, RequestsOwn, Unissued
<1>5. Uploads'
  <2> SUFFICES ASSUME NEW s \in Request, req'[s].pc \in StorePc,
                      NEW o, o = req'[s].obj
               PROVE  /\ Fresh(o)' /\ o \in issued
                      /\ \A t \in Request \ {s} : req'[t].obj = o =>
                           req'[t].pc = "done" /\ req'[t].factor = 0
                      /\ \A n \in req'[s].todo : ~LateCall(o, n)'
    BY <1>1 DEF Uploads, Fresh, LateCall, Exists
  <2>1. s # r /\ req'[s] = req[s]
    BY <1>3
  <2>2. /\ Fresh(o) /\ o \in issued
        /\ \A t \in Request \ {s} : req[t].obj = o =>
             req[t].pc = "done" /\ req[t].factor = 0
        /\ \A n \in req[s].todo : ~LateCall(o, n)
    BY <1>1, <2>1 DEF RelyOnRows, RequestsOwn, Uploads
  <2>3. req'[r].obj = o => req'[r].pc = "done"
    BY <1>1, <2>2 DEF Fresh
  <2> QED
    BY <1>1, <1>2, <1>3, <2>1, <2>2, <2>3
<1>6. Acked'
  <2> SUFFICES ASSUME faults'["rot"] = 0, NEW s \in Request, req'[s].pc \in StorePc,
                      NEW o, o = req'[s].obj, NEW n \in req'[s].ok
               PROVE  disk'[o][n] = "good" /\ ~LateCall(o, n)'
    BY DEF Acked, LateCall
  <2>1. req'[s] = req[s]
    BY <1>3
  <2> QED
    BY <1>1, <1>2, <2>1 DEF RelyOnRows, RequestsOwn, Acked, RequestStill
<1>7. Accounted'
  BY <1>1, <1>2, <1>3, AccountedStill
<1> QED
  BY <1>1, <1>2, <1>4, <1>5, <1>6, <1>7, RequestKeepsInv DEF RequestsOwn

LEMMA PlacesKeepsInv ==
    ASSUME CoordinatorInv, NEW r \in Request, OneRequest(r), Costs(0),
           UNCHANGED <<she, rm>>, Places(r)
    PROVE  CoordinatorInv'
<1>1. /\ RequestStill /\ req[r].pc = "new"
      /\ req'[r].obj \in Object \ issued /\ issued' = issued \cup {req'[r].obj}
      /\ req'[r].pc = "store" /\ req'[r].ok = {}
      /\ RelyOnRows /\ RecordsOK /\ RequestTypes /\ RequestTypes'
  BY TypesAre DEF Places, CoordinatorInv, OneRequest
<1>2. /\ Slack' /\ Safe' /\ \A o : Excused(o) => Excused(o)'
      /\ RowsHaveObjects' /\ RefillRow' /\ CandidateRows' /\ ListedRows'
      /\ \A o : Exists(o)' <=> Exists(o)
      /\ \A o : Fresh(o)' <=> Fresh(o)
      /\ \A o, n : LateCall(o, n)' <=> LateCall(o, n)
  BY <1>1, TakenUpKeeps
<1>3. /\ \A s \in Request : s # r => req'[s] = req[s]
      /\ req'[r].pc \in StorePc /\ req[r].pc \notin StorePc
  BY <1>1 DEF OneRequest, StorePc
<1>4. \A o \in Object \ issued :
        /\ Fresh(o) /\ \A s \in Request : req[s].obj # o
        /\ \A n \in Node : ~LateCall(o, n)
  BY <1>1 DEF RelyOnRows, RequestsOwn, Unissued
<1>5. Unissued'
  <2> SUFFICES ASSUME NEW o \in Object \ issued'
               PROVE  /\ Fresh(o)' /\ \A s \in Request : req'[s].obj # o
                      /\ \A n \in Node : ~LateCall(o, n)'
    BY DEF Unissued
  <2>1. o \in Object \ issued /\ o # req'[r].obj
    BY <1>1
  <2> QED
    BY <1>2, <1>3, <1>4, <2>1
<1>6. Uploads'
  <2> SUFFICES ASSUME NEW s \in Request, req'[s].pc \in StorePc,
                      NEW o, o = req'[s].obj
               PROVE  /\ Fresh(o)' /\ o \in issued'
                      /\ \A t \in Request \ {s} : req'[t].obj = o =>
                           req'[t].pc = "done" /\ req'[t].factor = 0
                      /\ \A n \in req'[s].todo : ~LateCall(o, n)'
    BY DEF Uploads, Fresh, LateCall, Exists
  <2>1. req'[s].todo \subseteq Node
    BY <1>1 DEF RequestTypes, RequestRec
  <2>2. CASE s = r
    <3>1. o \in Object \ issued
      BY <1>1, <2>2
    <3> QED
      BY <1>1, <1>2, <1>3, <1>4, <2>1, <2>2, <3>1
  <2>3. CASE s # r
    <3>1. /\ Fresh(o) /\ o \in issued
          /\ \A t \in Request \ {s} : req[t].obj = o =>
               req[t].pc = "done" /\ req[t].factor = 0
          /\ \A n \in req[s].todo : ~LateCall(o, n)
      BY <1>1, <1>3, <2>3 DEF RelyOnRows, RequestsOwn, Uploads
    <3>2. req'[r].obj # o /\ req'[s] = req[s]
      BY <1>1, <1>3, <2>3, <3>1
    <3> QED
      BY <1>1, <1>2, <1>3, <3>1, <3>2
  <2> QED
    BY <2>2, <2>3
<1>7. Acked'
  <2> SUFFICES ASSUME faults'["rot"] = 0, NEW s \in Request, req'[s].pc \in StorePc,
                      NEW o, o = req'[s].obj, NEW n \in req'[s].ok
               PROVE  disk'[o][n] = "good" /\ ~LateCall(o, n)'
    BY DEF Acked, LateCall
  <2>1. s # r /\ req'[s] = req[s]
    BY <1>1, <1>3
  <2> QED
    BY <1>1, <1>2, <2>1 DEF RelyOnRows, RequestsOwn, Acked, RequestStill
<1>8. Accounted'
  <2> SUFFICES ASSUME NEW o \in issued'
               PROVE  \/ Exists(o)' \/ Excused(o)'
                      \/ \E s \in Request : req'[s].pc \in StorePc /\ req'[s].obj = o
    BY DEF Accounted
  <2>1. CASE o = req'[r].obj
    BY <1>3, <2>1
  <2>2. CASE o \in issued
    <3>1. \/ Exists(o) \/ Excused(o)
          \/ \E s \in Request : req[s].pc \in StorePc /\ req[s].obj = o
      BY <1>1, <2>2 DEF RelyOnRows, RequestsOwn, Accounted
    <3>2. ASSUME NEW s \in Request, req[s].pc \in StorePc, req[s].obj = o
          PROVE  req'[s].pc \in StorePc /\ req'[s].obj = o
      BY <1>3, <3>2
    <3> QED
      BY <1>2, <3>1, <3>2
  <2> QED
    BY <1>1, <2>1, <2>2
<1> QED
  BY <1>1, <1>2, <1>5, <1>6, <1>7, <1>8, RequestKeepsInv DEF RequestsOwn

LEMMA DeletesKeepsInv ==
    ASSUME CoordinatorInv, NEW r \in Request, OneRequest(r), Costs(0),
           UNCHANGED <<she, rm>>, Deletes(r)
    PROVE  CoordinatorInv'
<1>1. /\ UNCHANGED <<disk, late, issued>> /\ Follows(req[r], req'[r])
      /\ req[r].pc = "delete" /\ faults'["rot"] = faults["rot"]
      /\ req'[r].pc = "done"
      /\ UNCHANGED <<factor, replica, listed>> \/ DeleteObjectRow(req[r].obj)
      /\ RelyOnRows /\ RecordsOK /\ RequestTypes
  BY TypesAre DEF Deletes, CoordinatorInv
<1>2. PICK o \in Object : o = req[r].obj
  BY <1>1 DEF RecordsOK, RecordOK, DeletePc
<1>3. /\ req'[r].obj = o /\ req'[r].pc \notin StorePc
      /\ req[r].pc \notin StorePc /\ req[r].pc \in DeletePc
  BY <1>1, <1>2 DEF Follows, StorePc, DeletePc
<1>4. /\ factor \in [Object -> Nat] /\ replica \in [Object -> [Node -> RowStatus]]
      /\ listed \subseteq Object \X Node
  BY <1>1 DEF RequestTypes, ClusterTypeOK
<1>5. /\ \A a \in Object : a # o => factor'[a] = factor[a] /\ replica'[a] = replica[a]
      /\ listed' \subseteq listed
  BY <1>1, <1>2, <1>4 DEF DeleteObjectRow
<1>6. \/ /\ factor'[o] = factor[o] /\ replica'[o] = replica[o] /\ listed' = listed
      \/ /\ ~Exists(o)' /\ \A n \in Node : replica'[o][n] = "NONE" /\ <<o, n>> \notin listed'
  BY <1>1, <1>2, <1>4 DEF DeleteObjectRow, Exists
<1>7. OneObject(r)
  BY <1>1, <1>2, <1>5 DEF OneObject, SameFile, Exists, LateCall
<1>8. UploadLeft(r)
  BY <1>3 DEF UploadLeft
<1>9. RowsHaveObjects'
  <2> SUFFICES ASSUME NEW a \in Object, NEW n \in Node, ~Exists(a)'
               PROVE  replica'[a][n] = "NONE"
    BY DEF RowsHaveObjects
  <2>1. factor'[a] = factor[a] /\ replica'[a] = replica[a] => replica'[a][n] = "NONE"
    BY <1>1 DEF RelyOnRows, RowsHaveObjects, Exists
  <2> QED
    BY <1>5, <1>6, <2>1
<1>10. RefillRow'
  <2> SUFFICES ASSUME InRecovery, NEW a, a = she.obj
               PROVE  replica'[a][she.dest] = "RECOVERING" \/ ~Exists(a)'
    BY DEF RefillRow, InRecovery, Exists
  <2>1. a \in Object
    BY DEF CoordinatorInv, Locals, InRecovery
  <2>2. replica[a][she.dest] = "RECOVERING" \/ ~Exists(a)
    BY <1>1 DEF RelyOnRows, RefillRow
  <2> QED
    BY <1>5, <1>6, <2>1, <2>2 DEF Exists
<1>11. CandidateRows'
  <2> SUFFICES ASSUME NEW a \in Object, NEW n \in Node, Candidate(a, n)
               PROVE  replica'[a][n] \in {"HEALTHY", "LOST"} \/ ~Exists(a)'
    BY DEF CandidateRows, Candidate, Condemned
  <2>1. replica[a][n] \in {"HEALTHY", "LOST"} \/ ~Exists(a)
    BY <1>1 DEF RelyOnRows, CandidateRows
  <2> QED
    BY <1>5, <1>6, <2>1 DEF Exists
<1>12. ListedRows'
  <2>1. ASSUME NEW a \in Object, ToHeal(a), <<a, she.failed>> \in listed'
        PROVE  replica'[a][she.failed] \in {"HEALTHY", "RECOVERING"}
    <3>1. she.failed \in Node /\ <<a, she.failed>> \in listed
      BY <1>4, <1>5, <1>6, <2>1
    <3>2. replica[a][she.failed] \in {"HEALTHY", "RECOVERING"}
      BY <1>1, <2>1, <3>1 DEF RelyOnRows, ListedRows
    <3> QED
      BY <1>5, <1>6, <2>1, <3>1, <3>2
  <2> QED
    BY <1>1, <2>1 DEF RelyOnRows, ListedRows, ToHeal
<1>13. Excused(o)'
  <2>1. Excused(o)
    BY <1>1, <1>2, <1>3, RemovingExcuses
  <2> QED
    BY <1>1, <2>1, ExcusedStays DEF OneRequest
<1>14. \A a \in Object : a = req[r].obj => Excused(a)'
  BY <1>2, <1>13
<1>15. Follows(req[r], req'[r]) /\ UNCHANGED issued
  BY <1>1
<1> QED
  BY <1>1, <1>3, <1>7, <1>8, <1>9, <1>10, <1>11, <1>12, <1>14, <1>15, FollowsKeepsInv

LEMMA CommitsKeepsInv ==
    ASSUME CoordinatorInv, NEW r \in Request, OneRequest(r), Costs(0),
           UNCHANGED <<she, rm>>, Commits(r)
    PROVE  CoordinatorInv'
<1>1. /\ UNCHANGED <<disk, late, listed, issued>> /\ Follows(req[r], req'[r])
      /\ req[r].pc = "commit" /\ faults'["rot"] = faults["rot"]
      /\ \/ req'[r].pc = "cleanup" /\ UNCHANGED <<factor, replica>>
         \/ /\ factor' = [factor EXCEPT ![req[r].obj] = req[r].factor]
            /\ replica' = [replica EXCEPT ![req[r].obj] =
                 [n \in Node |-> IF n \in req[r].ok THEN "HEALTHY" ELSE "NONE"]]
            /\ req'[r].pc \in {"done", "cleanup"}
      /\ RelyOnRows /\ RecordsOK /\ RequestTypes
  BY TypesAre DEF Commits, CoordinatorInv
<1>2. PICK o \in Object : o = req[r].obj
  BY <1>1 DEF RecordsOK, RecordOK, UploadPc, StorePc
<1>3. /\ req'[r].obj = o /\ req'[r].pc \notin StorePc /\ req[r].pc \in StorePc
      /\ req[r].factor # 0 /\ req[r].factor \in Nat
      /\ req[r].ok # {} /\ req[r].ok \subseteq Node
  <2>1. RecordOK(req[r]) /\ req[r] \in RequestRec
    BY <1>1 DEF RecordsOK, RequestTypes
  <2> QED
    BY <1>1, <1>2, <2>1 DEF Follows, StorePc, UploadPc, RecordOK, RequestRec
<1>4. /\ Fresh(o)
      /\ faults["rot"] = 0 =>
           \A m \in req[r].ok : disk[o][m] = "good" /\ ~LateCall(o, m)
  BY <1>1, <1>2, <1>3 DEF RelyOnRows, RequestsOwn, Uploads, Acked
<1>5. /\ factor \in [Object -> Nat] /\ replica \in [Object -> [Node -> RowStatus]]
  BY <1>1 DEF RequestTypes, ClusterTypeOK
<1>6. \A a \in Object : a # o => factor'[a] = factor[a] /\ replica'[a] = replica[a]
  BY <1>1, <1>2, <1>5
<1>7. \/ req'[r].pc = "cleanup" /\ UNCHANGED <<factor, replica>>
      \/ /\ Exists(o)'
         /\ \A n \in Node : replica'[o][n] = IF n \in req[r].ok THEN "HEALTHY" ELSE "NONE"
  BY <1>1, <1>2, <1>3, <1>5 DEF Exists
<1>8. OneObject(r)
  BY <1>1, <1>2, <1>6 DEF OneObject, SameFile, Exists, LateCall
<1>9. UploadLeft(r)
  BY <1>3 DEF UploadLeft
<1>10. \A n \in Node : /\ replica[o][n] = "NONE" /\ ~Endangered(o, n)' /\ ~Condemned(o, n)'
                       /\ ~Candidate(o, n)' /\ ~Inserting(o, n)' /\ ~Refilled(o, n)'
                       /\ ~ToHeal(o)
  BY <1>1, <1>4 DEF Fresh, RelyOnRows, RowsHaveObjects, Endangered, Condemned,
     Candidate, Inserting, Refilled, ToHeal
<1>11. RowsHaveObjects'
  <2> SUFFICES ASSUME NEW a \in Object, NEW n \in Node, ~Exists(a)'
               PROVE  replica'[a][n] = "NONE"
    BY DEF RowsHaveObjects
  <2>1. factor'[a] = factor[a] /\ replica'[a] = replica[a] => replica'[a][n] = "NONE"
    BY <1>1 DEF RelyOnRows, RowsHaveObjects, Exists
  <2> QED
    BY <1>6, <1>7, <2>1
<1>12. RefillRow'
  <2> SUFFICES ASSUME InRecovery, NEW a, a = she.obj
               PROVE  replica'[a][she.dest] = "RECOVERING" \/ ~Exists(a)'
    BY DEF RefillRow, InRecovery, Exists
  <2>1. a \in Object /\ a # o
    BY <1>4 DEF CoordinatorInv, Locals, InRecovery, Fresh
  <2>2. replica[a][she.dest] = "RECOVERING" \/ ~Exists(a)
    BY <1>1 DEF RelyOnRows, RefillRow
  <2> QED
    BY <1>6, <2>1, <2>2 DEF Exists
<1>13. CandidateRows'
  <2> SUFFICES ASSUME NEW a \in Object, NEW n \in Node, Candidate(a, n)
               PROVE  replica'[a][n] \in {"HEALTHY", "LOST"} \/ ~Exists(a)'
    BY DEF CandidateRows, Candidate, Condemned
  <2>1. replica[a][n] \in {"HEALTHY", "LOST"} \/ ~Exists(a)
    BY <1>1 DEF RelyOnRows, CandidateRows
  <2>2. a # o
    BY <1>4 DEF Fresh, Candidate, Condemned
  <2> QED
    BY <1>6, <2>1, <2>2 DEF Exists
<1>14. ListedRows'
  <2>1. ASSUME NEW a \in Object, ToHeal(a), <<a, she.failed>> \in listed
        PROVE  replica'[a][she.failed] \in {"HEALTHY", "RECOVERING"}
    <3>1. replica[a][she.failed] \in {"HEALTHY", "RECOVERING"}
      BY <1>1, <2>1 DEF RelyOnRows, ListedRows
    <3>2. a # o
      BY <1>4, <2>1 DEF Fresh, ToHeal
    <3> QED
      BY <1>6, <3>1, <3>2
  <2> QED
    BY <1>1, <2>1 DEF RelyOnRows, ListedRows, ToHeal
<1>15. req'[r].answer # "created" \/ Exists(o)'
  BY <1>1, <1>7 DEF OneRequest, RecordOK
<1>16. ~Exists(o)
  BY <1>4 DEF Fresh
<1>17. CASE req'[r].pc = "cleanup"
  <2>1. Excused(o)'
    <3>1. req'[r].factor # 0 /\ req'[r].obj = o
      BY <1>1, <1>3 DEF Follows
    <3> QED
      BY <1>17, <3>1 DEF Excused, Withdrawn
  <2>2. \A a \in Object : a = req[r].obj => Excused(a)'
    BY <1>2, <2>1
  <2>3. ~Exists(req[r].obj)
    BY <1>2, <1>16
  <2>4. req'[r].answer # "created"
    BY <1>17 DEF OneRequest, RecordOK
  <2> QED
    BY <1>1, <1>8, <1>9, <1>11, <1>12, <1>13, <1>14, <2>2, <2>3, <2>4, FollowsKeepsInv
<1>18. ASSUME /\ Exists(o)'
              /\ \A n \in Node : replica'[o][n] = IF n \in req[r].ok THEN "HEALTHY"
                                                  ELSE "NONE",
              faults["rot"] = 0
       PROVE  Covered(o)' /\ Held(o)'
  <2> DEFINE A == req[r].ok
             L == {n \in Node : LateCall(o, n)}
  <2>1. \A n \in Node : /\ n \in A => Kept(o, n)'
                        /\ n \in A => Solid(o, n)'
                        /\ Doubtful(o, n)' => n \in A \/ n \in L
    BY <1>1, <1>4, <1>10, <1>18 DEF Kept, Solid, Doubtful, LateCall
  <2>2. \A n \in Node : ~Solid(o, n) /\ (n \in L => Doubtful(o, n))
    BY <1>10 DEF Kept, Solid, Doubtful
  <2>3. CASE Excused(o)
    <3>1. Excused(o)'
      BY <1>1, <2>3, ExcusedStays DEF OneRequest
    <3> QED
      BY <3>1 DEF Covered, Held
  <2>4. CASE ~Excused(o)
    <3> DEFINE P == DoubtfulOn(o)
               Q == DoubtfulOn(o)'
               S == SolidOn(o)
               T == SolidOn(o)'
    <3>1. /\ L \subseteq P /\ S = {} /\ A \subseteq T /\ Q \subseteq A \cup L
      BY <1>3, <2>1, <2>2 DEF DoubtfulOn, SolidOn
    <3>2. /\ IsFiniteSet(P) /\ IsFiniteSet(T)
          /\ A \subseteq Node /\ L \subseteq Node /\ IsFiniteSet(Node)
      BY <1>3, FiniteOn, FiniteOnNext, ClusterAssumption
    <3>3. Cardinality(P) <= Cardinality(S) + Debt
      BY <1>18, <2>4 DEF CoordinatorInv, Slack, Covered
    <3>4. Debt \in Nat /\ Debt' \in Nat /\ Debt' >= Debt
      BY <1>1, DebtTyped DEF RequestTypes, ClusterTypeOK
    <3>5. Covered(o)' <=> Excused(o)' \/ Cardinality(Q) <= Cardinality(T) + Debt'
      BY DEF Covered
    <3> HIDE DEF A, L, P, Q, S, T
    <3>6. IsFiniteSet(A) /\ IsFiniteSet(L)
      BY <3>2, FS_Subset
    <3>7. /\ IsFiniteSet(A \cup L) /\ IsFiniteSet(A \cap L)
          /\ Cardinality(A \cup L) =
               Cardinality(A) + Cardinality(L) - Cardinality(A \cap L)
      BY <3>6, FS_Union, FS_Intersection
    <3>8. /\ Cardinality(A) \in Nat /\ Cardinality(L) \in Nat
          /\ Cardinality(A \cap L) \in Nat /\ Cardinality(A \cup L) \in Nat
          /\ Cardinality(S) = 0
      BY <3>1, <3>6, <3>7, FS_CardinalityType, FS_EmptySet
    <3>9. /\ Cardinality(Q) \in Nat /\ Cardinality(Q) <= Cardinality(A \cup L)
      BY <3>1, <3>7, Inside
    <3>10. /\ Cardinality(T) \in Nat /\ Cardinality(A) <= Cardinality(T)
           /\ Cardinality(P) \in Nat /\ Cardinality(L) <= Cardinality(P)
      BY <3>1, <3>2, Inside
    <3>11. Cardinality(Q) <= Cardinality(T) + Debt'
      BY <3>3, <3>4, <3>7, <3>8, <3>9, <3>10
    <3>12. KeptOn(o)' # {}
      BY <1>3, <2>1 DEF KeptOn, A
    <3> QED
      BY <3>5, <3>11, <3>12 DEF Held
  <2> QED
    BY <2>3, <2>4
<1>19. CASE /\ Exists(o)'
            /\ \A n \in Node : replica'[o][n] = IF n \in req[r].ok THEN "HEALTHY"
                                                ELSE "NONE"
  <2>1. \A a \in Object : a = req[r].obj /\ faults["rot"] = 0 => Covered(a)' /\ Held(a)'
    BY <1>2, <1>18, <1>19
  <2>2. Exists(req[r].obj)'
    BY <1>3, <1>19 DEF Exists
  <2>3. Follows(req[r], req'[r]) /\ UNCHANGED issued
    BY <1>1
  <2> QED
    BY <1>1, <1>8, <1>9, <1>11, <1>12, <1>13, <1>14, <2>1, <2>2, <2>3, FollowsKeepsInv
<1> QED
  BY <1>7, <1>17, <1>19

LEMMA ServesKeepInv == CoordinatorInv /\ Serves => CoordinatorInv'
<1> SUFFICES ASSUME CoordinatorInv, Serves PROVE CoordinatorInv'
  OBVIOUS
<1>1. PICK r \in Request : APIStep(r)
  BY DEF Serves
<1>2. UNCHANGED <<she, rm>> /\ RequestTypes /\ RecordsOK
  BY TypesAre DEF Serves, CoordinatorInv
<1>3. /\ OneRequest(r) /\ faults'["rot"] = faults["rot"] /\ Costs(0)
      /\ \/ Places(r) \/ Looks(r) \/ Goes(r)
         \/ \E n \in Node : StoresOn(r, n)
         \/ \E n \in Node : PurgesOn(r, n)
         \/ Commits(r) \/ Deletes(r)
  BY <1>1, <1>2, RequestShapes
<1>4. CASE Places(r)
  BY <1>2, <1>3, <1>4, PlacesKeepsInv
<1>5. CASE Looks(r)
  BY <1>2, <1>3, <1>5, LooksKeepsInv
<1>6. CASE Goes(r)
  BY <1>2, <1>3, <1>6, GoesKeepsInv
<1>7. CASE \E n \in Node : StoresOn(r, n)
  BY <1>2, <1>3, <1>7, StoresKeepsInv
<1>8. CASE \E n \in Node : PurgesOn(r, n)
  BY <1>2, <1>3, <1>8, PurgesKeepsInv
<1>9. CASE Commits(r)
  BY <1>2, <1>3, <1>9, CommitsKeepsInv
<1>10. CASE Deletes(r)
  BY <1>2, <1>3, <1>10, DeletesKeepsInv
<1> QED
  BY <1>3, <1>4, <1>5, <1>6, <1>7, <1>8, <1>9, <1>10

-----------------------------------------------------------------------------
(* At the start every HEALTHY row has its file, and nothing is under way.  *)
LEMMA StartsTyped == CoordinatorInit => CoordinatorTypeOK
<1> SUFFICES ASSUME CoordinatorInit PROVE CoordinatorTypeOK
  OBVIOUS
<1>1. SHTypeOK
  BY InitTyped DEF CoordinatorInit, SHInit
<1>2. RMTypeOK
  BY InitHolds DEF CoordinatorInit, ReplicationInit, RMInv, ReplicationTypeOK
<1>3. APITypeOK
  BY DEF CoordinatorInit, APIInit, APITypeOK, Exists
<1> QED
  BY <1>1, <1>2, <1>3 DEF CoordinatorTypeOK

LEMMA StartsCovered ==
    ASSUME CoordinatorInit, NEW o \in Object
    PROVE  /\ \A n \in Node : ~Exists(o) => replica[o][n] = "NONE"
           /\ Debt = 0 /\ DoubtfulOn(o) = SolidOn(o)
           /\ Exists(o) => KeptOn(o) # {}
<1>1. PICK holders \in [Object -> SUBSET Node] :
        /\ \A a \in Object : /\ Cardinality(holders[a]) <= factor[a]
                             /\ Exists(a) => holders[a] # {}
        /\ replica = [a \in Object |-> [n \in Node |->
                         IF n \in holders[a] THEN "HEALTHY" ELSE "NONE"]]
        /\ disk = [a \in Object |-> [n \in Node |->
                         IF n \in holders[a] THEN "good" ELSE "none"]]
  BY DEF CoordinatorInit, Uploaded
<1>2. /\ she.pc = "idle" /\ rm.pc = "idle" /\ rm.obj = NoObject /\ o # NoObject
      /\ late = {} /\ faults = [k \in FaultKind |-> 0]
  BY ClusterAssumption DEF CoordinatorInit, Uploaded, SHEInit, RMInit, SHEIdle, RMIdle
<1>3. ~Exists(o) => holders[o] = {}
  <2>1. IsFiniteSet(holders[o])
    BY ClusterAssumption, FS_Subset
  <2>2. Cardinality(holders[o]) \in Nat
    BY <2>1, FS_CardinalityType
  <2>3. ~Exists(o) => Cardinality(holders[o]) = 0
    BY <1>1, <2>2 DEF Exists
  <2> QED
    BY <2>1, <2>3, FS_EmptySet
<1>4. Debt = 0
  BY <1>2 DEF Debt, Mishaps, FaultKind
<1>5. \A n \in Node : /\ ~LateCall(o, n) /\ ~Endangered(o, n) /\ ~Condemned(o, n)
                      /\ ~Candidate(o, n) /\ ~Inserting(o, n) /\ ~Refilled(o, n)
  BY <1>2 DEF LateCall, Endangered, Condemned, Candidate, Inserting, Refilled, InRecovery
<1>6. \A n \in Node :
        /\ replica[o][n] = IF n \in holders[o] THEN "HEALTHY" ELSE "NONE"
        /\ disk[o][n] = IF n \in holders[o] THEN "good" ELSE "none"
  BY <1>1
<1>7. \A n \in Node : /\ Kept(o, n) <=> n \in holders[o]
                      /\ Solid(o, n) <=> n \in holders[o]
                      /\ Doubtful(o, n) <=> n \in holders[o]
  BY <1>5, <1>6 DEF Kept, Solid, Doubtful
<1>8. DoubtfulOn(o) = SolidOn(o)
  BY <1>7 DEF DoubtfulOn, SolidOn
<1>9. Exists(o) => KeptOn(o) # {}
  BY <1>1, <1>7 DEF KeptOn
<1> QED
  BY <1>3, <1>4, <1>6, <1>8, <1>9

LEMMA StartsInvariant == CoordinatorInit => CoordinatorInv
<1> SUFFICES ASSUME CoordinatorInit PROVE CoordinatorInv
  OBVIOUS
<1>1. CoordinatorTypeOK
  BY StartsTyped
<1>2. /\ she.pc = "idle" /\ she.obj = NoObject /\ she.rows = {}
      /\ rm.pc = "idle" /\ rm.obj = NoObject /\ rm.objs = {}
      /\ late = {} /\ listed = {} /\ issued = {o \in Object : Exists(o)}
      /\ \A r \in Request : /\ req[r].pc = "new" /\ req[r].obj = NoObject
                            /\ req[r].factor = 0 /\ req[r].ok = {}
                            /\ req[r].answer = "none"
  BY DEF CoordinatorInit, Uploaded, SHEInit, RMInit, SHEIdle, RMIdle, APIInit
<1>3. \A o \in Object : o # NoObject
  BY ClusterAssumption
<1>4. Locals /\ OwnVariables /\ RecordsOK
  BY <1>2 DEF Locals, OwnVariables, RecordsOK, RecordOK, UploadPc, StorePc, DeletePc, DownloadPc
<1>5. RowsHaveObjects
  BY StartsCovered DEF RowsHaveObjects
<1>6. RefillRow /\ CandidateRows /\ ListedRows
  BY <1>2 DEF RefillRow, InRecovery, CandidateRows, Candidate, Condemned, ListedRows, ToHeal
<1>7. RequestsOwn
  BY <1>2, <1>3 DEF RequestsOwn, Unissued, Uploads, Acked, Accounted, Fresh, LateCall, StorePc
<1>8. Slack
  <2>1. ASSUME NEW o \in Object
        PROVE  Covered(o)
    <3>1. Debt = 0 /\ DoubtfulOn(o) = SolidOn(o)
      BY StartsCovered
    <3>2. Cardinality(SolidOn(o)) \in Nat
      BY FiniteOn, FS_CardinalityType
    <3> QED
      BY <3>1, <3>2 DEF Covered
  <2> QED
    BY <2>1 DEF Slack
<1>9. Safe
  BY StartsCovered DEF Safe, Held
<1> QED
  BY <1>1, <1>4, <1>5, <1>6, <1>7, <1>8, <1>9 DEF CoordinatorInv, RelyOnRows

(* A step in which nothing happens.                                        *)
LEMMA StutterKeepsInv == CoordinatorInv /\ UNCHANGED CoordinatorVars => CoordinatorInv'
<1> SUFFICES ASSUME CoordinatorInv, UNCHANGED CoordinatorVars PROVE CoordinatorInv'
  OBVIOUS
<1>1. UNCHANGED <<factor, replica, nodeStatus, disk, late, listed, faults,
                  she, rm, req, issued>>
  BY DEF CoordinatorVars, clusterVars, apiVars
<1>2. CoordinatorTypeOK'
  BY <1>1 DEF CoordinatorInv, CoordinatorTypeOK, SHTypeOK, RMTypeOK, APITypeOK,
     ClusterTypeOK, SHETypeOK
<1>3. Locals' /\ OwnVariables' /\ RecordsOK'
  BY <1>1 DEF CoordinatorInv, Locals, OwnVariables, RecordsOK, RecordOK
<1>4. RelyOnRows'
  BY <1>1 DEF CoordinatorInv, RelyOnRows, RowsHaveObjects, RefillRow, CandidateRows,
     ListedRows, RequestsOwn, Unissued, Uploads, Acked, Accounted, Fresh, LateCall,
     Excused, Deleting, Withdrawn, Exists, Candidate, Condemned, InRecovery, ToHeal
<1>5. \A o : (Excused(o)' <=> Excused(o)) /\ (Exists(o)' <=> Exists(o))
  BY <1>1 DEF Excused, Deleting, Withdrawn, Exists
<1>6. ASSUME NEW o
      PROVE  KeptOn(o)' = KeptOn(o) /\ SolidOn(o)' = SolidOn(o) /\ DoubtfulOn(o)' = DoubtfulOn(o)
  BY <1>1 DEF KeptOn, SolidOn, DoubtfulOn, Kept, Solid, Doubtful, LateCall, Endangered,
     Condemned, Candidate, Refilled, Inserting, InRecovery
<1>7. Debt' = Debt
  BY <1>1 DEF Debt, Mishaps
<1>8. \A o : (Covered(o)' <=> Covered(o)) /\ (Held(o)' <=> Held(o))
  BY <1>5, <1>6, <1>7 DEF Covered, Held
<1>9. Slack' /\ Safe'
  BY <1>1, <1>7, <1>8 DEF CoordinatorInv, Slack, Safe
<1> QED
  BY <1>2, <1>3, <1>4, <1>9 DEF CoordinatorInv

LEMMA StepKeepsInv == CoordinatorInv /\ [CoordinatorNext]_CoordinatorVars => CoordinatorInv'
<1> SUFFICES ASSUME CoordinatorInv, [CoordinatorNext]_CoordinatorVars
             PROVE  CoordinatorInv'
  OBVIOUS
<1>1. CASE Heals
  BY <1>1, HealsKeepInv
<1>2. CASE Scales
  BY <1>2, ScalesKeepInv
<1>3. CASE Serves
  BY <1>3, ServesKeepInv
<1>4. CASE Restart
  BY <1>4, RestartKeepsInv
<1>5. CASE Environment /\ UNCHANGED <<she, rm, apiVars>>
  BY <1>5, EnvironmentKeepsInv
<1>6. CASE UNCHANGED CoordinatorVars
  BY <1>6, StutterKeepsInv
<1> QED
  BY <1>1, <1>2, <1>3, <1>4, <1>5, <1>6 DEF CoordinatorNext

THEOREM CoordinatorInvariant == CoordinatorSpec => []CoordinatorInv
BY StartsInvariant, StepKeepsInv, PTL DEF CoordinatorSpec

-----------------------------------------------------------------------------
(* The theorems a reader should know of.                                   *)

(* The goroutines of a coordinator, interleaved with each other, with      *)
(* restarts and with failures of any kind, leave rows, files and their own *)
(* variables within the values the code gives a meaning.                   *)
THEOREM CoordinatorTypeCorrect == CoordinatorSpec => []CoordinatorTypeOK
<1>1. CoordinatorInv => CoordinatorTypeOK
  BY DEF CoordinatorInv
<1> QED
  BY <1>1, CoordinatorInvariant, PTL

(* Self-healing, scaling and requests, which know nothing of each other,   *)
(* never take an object's last good file between them while there are      *)
(* fewer mishaps than MinRF, whatever nodes come and go and whatever else  *)
(* fails; but for objects that a request removes.                          *)
THEOREM BytesAlwaysOutlive == CoordinatorSpec => []BytesOutlive
<1>1. CoordinatorInv => BytesOutlive
  <2> SUFFICES ASSUME CoordinatorInv, faults["rot"] = 0,
                      Mishaps + faults["crash"] < MinRF,
                      NEW o \in Object, Exists(o)
               PROVE  \/ Deleting(o) \/ Withdrawn(o)
                      \/ \E n \in Node : disk[o][n] = "good"
    BY DEF BytesOutlive
  <2>1. Held(o)
    BY DEF CoordinatorInv, Safe, Debt
  <2> QED
    BY <2>1 DEF Held, Excused, KeptOn, Kept
<1> QED
  BY <1>1, CoordinatorInvariant, PTL

-----------------------------------------------------------------------------
(* A cluster in which nothing fails.                                       *)

(* Nothing has failed, the tier is steady, and replicas are to be kept.    *)
Calm == /\ Cardinality(Tiers) = 1 /\ MinRF > 0
        /\ \A k \in FaultKind : faults[k] = 0
Wanted == TierFactor(CHOOSE tier \in Tiers : TRUE)

(* Then the engine sleeps, no handler is left behind, nobody is out, and   *)
(* no upload takes anything back.                                          *)
Peace == /\ she = SHEIdle /\ late = {}
         /\ \A n \in Node : nodeStatus[n] = "ONLINE"
         /\ \A r \in Request : req[r].pc # "cleanup"

Readable(o) == Exists(o) /\ ~Deleting(o)
Holders(o) == RowsWith(o, "HEALTHY")
Whole(o) == {n \in Holders(o) : disk[o][n] = "good"}
Purged(o, n) == rm.pc = "downDrop" /\ rm.obj = o /\ rm.node = n

(* Every row of a readable object has its file, but for the one that is    *)
(* being dropped; and one of them does.                                    *)
GoodRows(o) ==
    /\ Whole(o) # {}
    /\ \A n \in Holders(o) :
         IF Purged(o, n) THEN disk[o][n] = "none" ELSE disk[o][n] = "good"
RowsAreGood == \A o \in Object : Readable(o) => GoodRows(o)

(* What the manager has planned for its object leaves it as many replicas  *)
(* as the tier asks for: it adds no more, and takes no more away.          *)
UpPc == {"upSources", "upFetch", "upPush", "upInsert", "upUndo"}
Growing(o) ==
    /\ rm.pc \in {"upRows", "upPlace"} =>
         rm.count = Cardinality(Holders(o)) /\ rm.count < Wanted
    /\ rm.pc = "upPlace" => Holders(o) \subseteq rm.nodes
    /\ rm.pc \in UpPc =>
         /\ rm.dests \cap Holders(o) = {}
         /\ Cardinality(Holders(o)) + Cardinality(rm.dests) <= Wanted
    /\ rm.pc \in {"upInsert", "upUndo"} =>
         /\ rm.node \notin Holders(o)
         /\ Cardinality(Holders(o)) + Cardinality(rm.dests) < Wanted
    /\ rm.pc = "upInsert" => disk[o][rm.node] = "good"
Shrinking(o) ==
    /\ rm.pc \in {"downList", "downCheck"} =>
         Cardinality(Holders(o)) >= Wanted + rm.left
    /\ rm.pc \in {"downPurge", "downDrop"} =>
         Cardinality(Holders(o) \ {rm.node}) >= Wanted + rm.left
Plans ==
    /\ rm.pc \in {"count", "sync", "upRows", "upPlace", "downList"} =>
         rm.target = Wanted
    /\ rm.pc \notin {"idle", "objects"} /\ Readable(rm.obj) =>
         Growing(rm.obj) /\ Shrinking(rm.obj)

(* A reader's list has a node with the bytes on it: either all of them, or *)
(* the object is not above its goal, so that none of them is taken away.   *)
Found(o, todo) ==
    /\ todo \cap Whole(o) # {}
    /\ \A n \in todo : disk[o][n] # "bad"
    /\ Whole(o) \subseteq todo \/ Cardinality(Holders(o)) <= Wanted
Finds(r) ==
    Readable(req[r].obj) /\ ~req[r].gone => Found(req[r].obj, req[r].todo)
Readers ==
    \A r \in Request :
        /\ req[r].pc \in DownloadPc => Exists(req[r].obj) \/ Deleting(req[r].obj)
        /\ req[r].pc = "fetch" => Finds(r)
        /\ req[r].answer \in {"unavailable", "corrupt"} =>
             req[r].gone \/ Deleting(req[r].obj)

CalmInv == Calm => Peace /\ RowsAreGood /\ Plans /\ Readers

-----------------------------------------------------------------------------
(* Nothing fails.                                                          *)

LEMMA Sizes ==
    ASSUME NEW S \in SUBSET Node
    PROVE  /\ IsFiniteSet(S) /\ Cardinality(S) \in Nat
           /\ Cardinality(S) = 0 <=> S = {}
           /\ \A n \in S : /\ Cardinality(S \ {n}) = Cardinality(S) - 1
                           /\ S \ {n} \in SUBSET Node
           /\ \A n \in Node \ S : /\ Cardinality(S \cup {n}) = Cardinality(S) + 1
                                  /\ S \ {n} = S
<1>1. IsFiniteSet(S)
  BY ClusterAssumption, FS_Subset
<1>2. Cardinality(S) \in Nat /\ (Cardinality(S) = 0 <=> S = {})
  BY <1>1, FS_CardinalityType, FS_EmptySet
<1>3. \A n \in S : Cardinality(S \ {n}) = Cardinality(S) - 1
  BY <1>1, FS_RemoveElement
<1>4. \A n \in Node \ S : Cardinality(S \cup {n}) = Cardinality(S) + 1
  BY <1>1, FS_AddElement
<1> QED
  BY <1>1, <1>2, <1>3, <1>4

LEMMA HoldersAreNodes ==
    ASSUME NEW o
    PROVE  Holders(o) \in SUBSET Node /\ Whole(o) \in SUBSET Holders(o)
BY DEF Holders, Whole, RowsWith

(* A step after which nothing has failed is one in which nothing fails.    *)
LEMMA CalmBefore ==
    ASSUME faults \in [FaultKind -> Nat], Costs(0), Calm'
    PROVE  Calm /\ \A k \in FaultKind : faults'[k] = faults[k]
<1>1. \A k \in FaultKind : faults[k] \in Nat /\ faults'[k] = 0 /\ faults'[k] >= faults[k]
  BY DEF Costs, Counted, Calm
<1>2. \A k \in FaultKind : faults[k] = 0
  BY <1>1
<1> QED
  BY <1>1, <1>2 DEF Calm

LEMMA NothingInjected ==
    ASSUME faults \in [FaultKind -> Nat], \A k \in FaultKind : faults'[k] = faults[k]
    PROVE  /\ ~Inject("db") /\ ~Inject("net") /\ ~Inject("outage")
           /\ ~Inject("crash") /\ ~Inject("rot") /\ ~Inject("late")
<1>1. ASSUME NEW k \in FaultKind, Inject(k)
      PROVE  FALSE
  <2>1. faults'[k] = faults[k] + 1 /\ faults[k] \in Nat
    BY <1>1 DEF Inject
  <2> QED
    BY <2>1
<1> QED
  BY <1>1 DEF FaultKind

(* Then every call and every statement does what it is meant to.           *)
LEMMA AllGoesWell ==
    ASSUME Peace, ~Inject("db"), ~Inject("net"), ~Inject("late")
    PROVE  /\ \A n \in Node : ~CallFails(n)
           /\ \A o : \A n \in Node : ~StoreChunkFails(o, n) /\ ~DeleteChunkFails(o, n)
           /\ \A out \in TxOutcome : TxCost(out) => out = "committed"
           /\ \A o : HealthyReplicas(o) = Holders(o)
           /\ \A o : \A n \in Node : FetchUnusable(o, n) => disk[o][n] # "good"
<1>1. \A n \in Node : ~CallFails(n)
  BY DEF Peace, CallFails
<1>2. \A o, n, op : ~GivenUp(o, n, op)
  BY DEF GivenUp
<1>3. \A o : HealthyReplicas(o) = Holders(o)
  BY DEF Peace, HealthyReplicas, Holders, RowsWith, OnlineNodes
<1> QED
  BY <1>1, <1>2, <1>3 DEF StoreChunkFails, DeleteChunkFails, TxCost, FetchUnusable

(* The engine finds no node to heal, the environment has nothing to do.    *)
LEMMA EngineSleeps ==
    ASSUME Peace, ~Inject("db"), SHEStep
    PROVE  UNCHANGED <<clusterVars, she>>
<1>1. she.pc = "idle" /\ OfflineNodes = {}
  BY DEF Peace, SHEIdle, OfflineNodes, OnlineNodes
<1>2. HealTick
  BY <1>1 DEF SHEStep, HealTick, HealNode, HealDone, TakeRow, NodeHealed,
     ReadObject, CheckCount, FindSources, BuildExclusion, SelectDestination,
     ReadFails, FetchSource, FetchExhausted, RecordRecovery, PushChunk,
     Compensate, Finalize, At
<1> QED
  BY <1>1, <1>2 DEF HealTick

LEMMA NothingHappens ==
    ASSUME Peace, ~Inject("outage"), ~Inject("rot")
    PROVE  ~Environment
<1>1. \A n \in Node : ~NodeTimesOut(n) /\ ~NodeReturns(n)
  BY DEF Peace, NodeTimesOut, NodeReturns
<1>2. \A o, n : ~ChunkRots(o, n)
  BY DEF ChunkRots
<1>3. \A o, n, op : ~LateHandler(o, n, op)
  BY DEF Peace, LateHandler
<1> QED
  BY <1>1, <1>2, <1>3 DEF Environment

-----------------------------------------------------------------------------
(* The manager.                                                            *)

LEMMA WantedIs ==
    ASSUME Calm
    PROVE  /\ Wanted \in Nat /\ Wanted >= MinRF /\ Wanted > 0
           /\ \A tier \in Tiers : TierFactor(tier) = Wanted
<1>1. IsFiniteSet(Tiers) /\ Cardinality(Tiers) = 1
  <2>1. IsFiniteSet({"HOT"} \cup {"WARM"} \cup {"COLD"})
    BY FS_Singleton, FS_Union
  <2>2. Tiers \in SUBSET ({"HOT"} \cup {"WARM"} \cup {"COLD"})
    BY TiersAssumption
  <2> QED
    BY <2>1, <2>2, FS_Subset DEF Calm
<1>2. PICK t : Tiers = {t}
  BY <1>1, FS_Singleton
<1>3. Wanted = TierFactor(t) /\ t \in Tiers
  BY <1>2 DEF Wanted
<1>4. MinRF \in Nat /\ MinRF > 0
  BY FactorAssumption DEF Calm
<1> QED
  BY <1>2, <1>3, <1>4, FactorsAre

LEMMA NothingPlanned ==
    ASSUME rm'.pc \in {"idle", "objects", "object", "tier", "upFactor", "downFactor"}
    PROVE  Plans'
BY DEF Plans, Growing, Shrinking, UpPc

LEMMA OutOfTurn == rm' = NextObject => Plans'
<1>1. rm' = NextObject => rm'.pc = "objects"
  BY DEF NextObject, RMIdle
<1> QED
  BY <1>1, NothingPlanned

(* What the manager reads is what it goes by: it is the only one to write  *)
(* rows of objects that are there to be read.                              *)
Undisturbing ==
    /\ RMTypeOK /\ RMTypeOK' /\ OwnVariables
    /\ Calm /\ Peace /\ Plans
    /\ ~Inject("db") /\ ~Inject("net") /\ ~Inject("late")
    /\ \A o : Readable(o)' <=> Readable(o)

LEMMA CalmTier ==
    ASSUME Undisturbing, ReadTier
    PROVE  Plans'
<1>1. PICK tier \in Tiers :
        rm' = [rm EXCEPT !.pc = "count", !.target = TierFactor(tier)]
  BY DEF ReadTier
<1>2. rm'.pc = "count" /\ rm'.target = TierFactor(tier)
  BY <1>1 DEF Undisturbing, RMTypeOK
<1>3. rm'.target = Wanted' /\ Wanted' = Wanted
  BY <1>2, WantedIs DEF Undisturbing, Wanted
<1> QED
  BY <1>2, <1>3 DEF Plans, Growing, Shrinking, UpPc

LEMMA CalmCompare ==
    ASSUME Undisturbing, Compare
    PROVE  Plans'
<1> DEFINE o == rm.obj
           count == Cardinality(Holders(o))
<1>0. /\ Wanted' = Wanted /\ Wanted \in Nat /\ Wanted >= MinRF /\ MinRF \in Nat
  BY WantedIs, FactorAssumption DEF Undisturbing, Wanted
<1>1. rm.pc = "count" /\ CountHealthyReplicas(o) = count /\ UNCHANGED clusterVars
  BY AllGoesWell DEF Compare, Undisturbing, CountHealthyReplicas, RMAt
<1>2. rm.target = Wanted
  BY <1>1 DEF Undisturbing, Plans
<1>3. count \in Nat /\ count' = Cardinality(Holders(o)')
  BY HoldersAreNodes, Sizes
<1>4. \A a : Holders(a)' = Holders(a)
  BY <1>1 DEF Holders, RowsWith, clusterVars
<1>5. \/ count < Wanted /\ rm' = [rm EXCEPT !.pc = "upRows", !.count = count]
      \/ /\ count > Wanted
         /\ rm' = [rm EXCEPT !.pc = "downList", !.count = count,
                             !.left = PruneExcess(count, rm.target)]
      \/ rm' = [rm EXCEPT !.pc = "sync"]
      \/ rm' = NextObject
  BY <1>0, <1>1, <1>2, <1>3 DEF Compare
<1> HIDE DEF count
<1>6. CASE count < Wanted /\ rm' = [rm EXCEPT !.pc = "upRows", !.count = count]
  <2>1. /\ rm'.pc = "upRows" /\ rm'.count = count /\ rm'.obj = o
        /\ rm'.target = Wanted
    BY <1>2, <1>6 DEF Undisturbing, RMTypeOK
  <2>2. Holders(rm.obj)' = Holders(o)
    BY <1>4, <2>1
  <2> QED
    BY <1>0, <1>6, <2>1, <2>2 DEF Plans, Growing, Shrinking, UpPc, count
<1>7. CASE /\ count > Wanted
           /\ rm' = [rm EXCEPT !.pc = "downList", !.count = count,
                               !.left = PruneExcess(count, rm.target)]
  <2>1. PruneExcess(count, rm.target) = count - Wanted
    BY <1>0, <1>2 DEF PruneExcess
  <2>2. /\ rm'.pc = "downList" /\ rm'.left = count - Wanted /\ rm'.obj = o
        /\ rm'.target = Wanted
    BY <1>2, <1>7, <2>1 DEF Undisturbing, RMTypeOK
  <2>3. count >= Wanted + rm'.left
    BY <1>0, <1>3, <1>7, <2>2
  <2>4. Holders(rm.obj)' = Holders(o)
    BY <1>4, <2>2
  <2> QED
    BY <1>0, <2>2, <2>3, <2>4 DEF Plans, Growing, Shrinking, UpPc, count
<1>8. CASE rm' = [rm EXCEPT !.pc = "sync"]
  <2>1. rm'.pc = "sync" /\ rm'.target = Wanted
    BY <1>2, <1>8 DEF Undisturbing, RMTypeOK
  <2> QED
    BY <1>0, <2>1 DEF Plans, Growing, Shrinking, UpPc
<1> QED
  BY <1>5, <1>6, <1>7, <1>8, OutOfTurn

LEMMA CalmList ==
    ASSUME Undisturbing, ListRows
    PROVE  Plans'
<1> DEFINE o == rm.obj
<1>1. /\ rm.pc = "upRows" /\ UNCHANGED clusterVars
      /\ rm' = [rm EXCEPT !.pc = "upPlace", !.nodes = ReplicaRows(o)]
  BY DEF ListRows, RMAt
<1>2. /\ rm'.pc = "upPlace" /\ rm'.nodes = ReplicaRows(o) /\ rm'.obj = o
      /\ rm'.target = rm.target /\ rm'.count = rm.count
  BY <1>1 DEF Undisturbing, RMTypeOK
<1>3. Holders(o) \subseteq ReplicaRows(o)
  BY DEF Holders, RowsWith, ReplicaRows
<1>4. Holders(rm.obj)' = Holders(o) /\ Wanted' = Wanted
  BY <1>1, <1>2 DEF Holders, RowsWith, clusterVars, Wanted
<1>5. /\ rm.target = Wanted
      /\ Readable(o) => rm.count = Cardinality(Holders(o)) /\ rm.count < Wanted
  BY <1>1 DEF Undisturbing, Plans, Growing
<1> QED
  BY <1>2, <1>3, <1>4, <1>5 DEF Plans, Growing, Shrinking, UpPc, Undisturbing

LEMMA CalmSelect ==
    ASSUME Undisturbing, SelectDestinations
    PROVE  Plans'
<1> DEFINE o == rm.obj
           answers == SelectNodes(rm.target - rm.count, rm.nodes)
<1>1. rm.pc = "upPlace" /\ UNCHANGED clusterVars
  BY DEF SelectDestinations, RMAt
<1>2. \/ rm' = NextObject
      \/ \E S \in answers :
           rm' = [rm EXCEPT !.pc = "upSources", !.nodes = {}, !.dests = S]
  BY DEF SelectDestinations
<1>3. Wanted' = Wanted /\ Wanted \in Nat
  BY WantedIs DEF Undisturbing, Wanted
<1>4. ASSUME NEW S \in answers,
             rm' = [rm EXCEPT !.pc = "upSources", !.nodes = {}, !.dests = S]
      PROVE  Plans'
  <2>1. rm'.pc = "upSources" /\ rm'.dests = S /\ rm'.obj = o
    BY <1>4 DEF Undisturbing, RMTypeOK
  <2>2. S \cap rm.nodes = {} /\ Cardinality(S) = rm.target - rm.count
    BY <1>4 DEF SelectNodes
  <2>3. Holders(rm.obj)' = Holders(o)
    BY <1>1, <2>1 DEF Holders, RowsWith, clusterVars
  <2>4. /\ rm.target = Wanted
        /\ Readable(o) => /\ rm.count = Cardinality(Holders(o))
                          /\ Holders(o) \subseteq rm.nodes
    BY <1>1 DEF Undisturbing, Plans, Growing
  <2>5. Cardinality(Holders(o)) \in Nat
    BY HoldersAreNodes, Sizes
  <2>6. Readable(o) => /\ S \cap Holders(o) = {}
                       /\ Cardinality(Holders(o)) + Cardinality(S) <= Wanted
    BY <1>3, <2>2, <2>4, <2>5
  <2> QED
    BY <1>3, <2>1, <2>3, <2>6 DEF Plans, Growing, Shrinking, UpPc, Undisturbing
<1> QED
  BY <1>2, <1>4, OutOfTurn

(* The steps of scale-up between two of its plans.                         *)
LEMMA CalmOn ==
    ASSUME Undisturbing, UNCHANGED replica, rm'.obj = rm.obj,
           rm.pc \in {"upSources", "upFetch"}, rm'.pc \in {"upFetch", "upPush"},
           rm'.dests = rm.dests
    PROVE  Plans'
<1>1. \A a : Holders(a)' = Holders(a)
  BY DEF Holders, RowsWith
<1>2. Wanted' = Wanted
  BY DEF Wanted
<1> QED
  BY <1>1, <1>2 DEF Undisturbing, Plans, Growing, Shrinking, UpPc

LEMMA CalmSources ==
    ASSUME Undisturbing, ListSources \/ FetchCopy \/ NoCopyFetched
    PROVE  Plans'
<1>1. CASE rm' = NextObject
  BY <1>1, OutOfTurn
<1>2. CASE rm' # NextObject
  <2>1. \/ rm.pc = "upSources" /\ rm' = [rm EXCEPT !.pc = "upFetch",
                                             !.nodes = HealthyReplicas(rm.obj)]
        \/ rm.pc = "upFetch" /\ rm' = [rm EXCEPT !.pc = "upPush", !.nodes = {}]
        \/ rm.pc = "upFetch" /\ \E n \in rm.nodes : rm' = [rm EXCEPT !.nodes = @ \ {n}]
    BY <1>2 DEF ListSources, FetchCopy, NoCopyFetched, RMAt
  <2>2. /\ rm.pc \in {"upSources", "upFetch"} /\ rm'.pc \in {"upFetch", "upPush"}
        /\ rm'.obj = rm.obj /\ rm'.dests = rm.dests
    BY <2>1 DEF Undisturbing, RMTypeOK
  <2>3. UNCHANGED replica
    BY DEF ListSources, FetchCopy, NoCopyFetched, clusterVars
  <2> QED
    BY <2>2, <2>3, CalmOn
<1> QED
  BY <1>1, <1>2

LEMMA CalmCandidates ==
    ASSUME Undisturbing, ListCandidates
    PROVE  Plans'
<1>1. rm.pc = "downList" /\ UNCHANGED clusterVars
  BY DEF ListCandidates, RMAt
<1>2. CASE rm' = NextObject
  BY <1>2, OutOfTurn
<1>3. CASE rm' = [rm EXCEPT !.pc = "downCheck", !.nodes = HealthyReplicas(rm.obj)]
  <2>1. rm'.pc = "downCheck" /\ rm'.obj = rm.obj /\ rm'.left = rm.left
    BY <1>3 DEF Undisturbing, RMTypeOK
  <2>2. Holders(rm.obj)' = Holders(rm.obj) /\ Wanted' = Wanted
    BY <1>1, <2>1 DEF Holders, RowsWith, clusterVars, Wanted
  <2> QED
    BY <1>1, <2>1, <2>2 DEF Undisturbing, Plans, Growing, Shrinking, UpPc
<1> QED
  BY <1>2, <1>3 DEF ListCandidates

LEMMA CalmReads ==
    ASSUME Undisturbing, ReadStep
    PROVE  Plans'
<1>1. CASE \/ ReconcileTick \/ ReconcileDone \/ TakeObject \/ LoadObject
           \/ AllPushed \/ AllPruned
  <2>0. NextObject.pc = "objects" /\ RMIdle.pc = "idle" /\ RMTypeOK
    BY DEF NextObject, RMIdle, Undisturbing
  <2>1. rm'.pc \in {"idle", "objects", "object", "tier", "upFactor", "downFactor"}
    <3>1. CASE ReconcileTick \/ ReconcileDone \/ TakeObject
      BY <2>0, <3>1 DEF ReconcileTick, ReconcileDone, TakeObject, RMTypeOK
    <3>2. CASE LoadObject
      BY <2>0, <3>2 DEF LoadObject, RMTypeOK
    <3>3. CASE AllPushed \/ AllPruned
      BY <2>0, <3>3 DEF AllPushed, AllPruned, RMTypeOK
    <3> QED
      BY <1>1, <3>1, <3>2, <3>3
  <2> QED
    BY <2>1, NothingPlanned
<1>2. CASE SyncFactor \/ ScaledUp \/ ScaledDown
  BY <1>2, OutOfTurn DEF SyncFactor, ScaledUp, ScaledDown, WriteFactor
<1>3. CASE RMReadFails
  BY <1>3 DEF RMReadFails, Undisturbing
<1> QED
  BY <1>1, <1>2, <1>3, CalmTier, CalmCompare, CalmList, CalmSelect, CalmSources,
     CalmCandidates DEF ReadStep

(* What a step does to the rows and files of one object.                   *)
Alike(o) == /\ Holders(o)' = Holders(o)
            /\ \A n \in Node : disk'[o][n] = disk[o][n]
Fills(o, n) == /\ Holders(o)' = Holders(o) /\ n \notin Holders(o)
                /\ disk'[o][n] \in {"good", "none"}
Empties(o, n) == /\ Holders(o)' = Holders(o) /\ disk'[o][n] = "none"
                /\ Whole(o) \ {n} # {}
                /\ Cardinality(Holders(o) \ {n}) >= Wanted
Gains(o, n) == /\ Holders(o)' = Holders(o) \cup {n}
                 /\ disk'[o][n] = disk[o][n]
                 /\ Cardinality(Holders(o) \cup {n}) <= Wanted
Loses(o, n) == /\ Holders(o)' = Holders(o) \ {n}
               /\ disk'[o][n] = disk[o][n] /\ disk[o][n] = "none"
Moves(o) ==
    \/ Alike(o)
    \/ \E n \in Node :
         /\ \A m \in Node \ {n} : disk'[o][m] = disk[o][m]
         /\ Fills(o, n) \/ Empties(o, n) \/ Gains(o, n) \/ Loses(o, n)

(* None of it takes the readers of the object their last good file.        *)
LEMMA FindsStill ==
    ASSUME Calm, NEW r \in Request, req'[r] = req[r], req[r].todo \subseteq Node,
           Readable(req[r].obj)' => Readable(req[r].obj),
           Moves(req[r].obj), Finds(r)
    PROVE  Finds(r)'
<1> DEFINE o == req[r].obj
           H == Holders(o)
           W == Whole(o)
           T == req[r].todo
<1> SUFFICES ASSUME Readable(o), ~req[r].gone
             PROVE  /\ T \cap Whole(o)' # {}
                    /\ \A n \in T : disk'[o][n] # "bad"
                    /\ Whole(o)' \subseteq T \/ Cardinality(Holders(o)') <= Wanted
  BY DEF Finds, Found, Wanted
<1>1. /\ T \cap W # {} /\ \A n \in T : disk[o][n] # "bad"
      /\ W \subseteq T \/ Cardinality(H) <= Wanted
  BY DEF Finds, Found
<1>2. /\ H \in SUBSET Node /\ W \subseteq H /\ T \subseteq Node
      /\ Wanted \in Nat
  BY HoldersAreNodes, WantedIs
<1>3. /\ W = {n \in H : disk[o][n] = "good"}
      /\ Whole(o)' = {n \in Holders(o)' : disk'[o][n] = "good"}
  BY DEF Whole
<1>4. CASE Alike(o)
  <2>1. Whole(o)' = W /\ Holders(o)' = H
    BY <1>2, <1>3, <1>4 DEF Alike
  <2>2. \A n \in T : disk'[o][n] # "bad"
    BY <1>1, <1>2, <1>4 DEF Alike
  <2> QED
    BY <1>1, <2>1, <2>2
<1>5. ASSUME NEW n \in Node,
             \A m \in Node \ {n} : disk'[o][m] = disk[o][m],
             Fills(o, n) \/ Empties(o, n) \/ Gains(o, n) \/ Loses(o, n)
      PROVE  /\ T \cap Whole(o)' # {}
             /\ \A m \in T : disk'[o][m] # "bad"
             /\ Whole(o)' \subseteq T \/ Cardinality(Holders(o)') <= Wanted
  <2>1. \A m \in T : disk'[o][m] # "bad"
    BY <1>1, <1>2, <1>5 DEF Fills, Empties, Gains, Loses
  <2>2. CASE Fills(o, n)
    <3>1. Whole(o)' = W /\ Holders(o)' = H
      BY <1>2, <1>3, <1>5, <2>2 DEF Fills
    <3> QED
      BY <1>1, <2>1, <3>1
  <2>3. CASE Empties(o, n)
    <3>1. Whole(o)' = W \ {n} /\ Holders(o)' = H /\ W \ {n} # {}
      BY <1>2, <1>3, <1>5, <2>3 DEF Empties
    <3>2. CASE n \notin H
      BY <1>1, <1>2, <2>1, <3>1, <3>2
    <3>3. CASE n \in H
      <4>1. Cardinality(H) - 1 >= Wanted /\ Cardinality(H) \in Nat
        BY <1>2, <2>3, <3>3, Sizes DEF Empties
      <4>2. W \subseteq T
        BY <1>1, <1>2, <4>1
      <4> QED
        BY <2>1, <3>1, <4>2
    <3> QED
      BY <3>2, <3>3
  <2>4. CASE Gains(o, n)
    <3>1. W \subseteq Whole(o)' /\ Cardinality(Holders(o)') <= Wanted
      BY <1>2, <1>3, <1>5, <2>4 DEF Gains
    <3> QED
      BY <1>1, <2>1, <3>1
  <2>5. CASE Loses(o, n)
    <3>1. Whole(o)' = W /\ Holders(o)' = H \ {n}
      BY <1>2, <1>3, <1>5, <2>5 DEF Loses
    <3>2. Cardinality(H \ {n}) <= Cardinality(H) /\ Cardinality(H) \in Nat
          /\ Cardinality(H \ {n}) \in Nat
      <4>1. CASE n \in H
        BY <1>2, <4>1, Sizes
      <4>2. CASE n \notin H
        BY <1>2, <4>2, Sizes
      <4> QED
        BY <4>1, <4>2
    <3> QED
      BY <1>1, <1>2, <2>1, <3>1, <3>2
  <2> QED
    BY <1>5, <2>2, <2>3, <2>4, <2>5
<1> QED
  BY <1>4, <1>5 DEF Moves

LEMMA OneFileIs ==
    ASSUME ClusterTypeOK, NEW o \in Object, NEW n \in Node, NEW d, SetDisk(o, n, d)
    PROVE  /\ disk'[o][n] = d
           /\ \A m \in Node \ {n} : disk'[o][m] = disk[o][m]
           /\ \A a \in Object \ {o} : disk'[a] = disk[a]
<1>1. disk \in [Object -> [Node -> DiskState]] /\ disk' = [disk EXCEPT ![o][n] = d]
  BY DEF SetDisk, ClusterTypeOK
<1>2. disk'[o] = [disk[o] EXCEPT ![n] = d] /\ disk[o] \in [Node -> DiskState]
  BY <1>1
<1>3. disk'[o][n] = d
  BY <1>2
<1>4. \A m \in Node \ {n} : disk'[o][m] = disk[o][m]
  BY <1>2
<1>5. \A a \in Object \ {o} : disk'[a] = disk[a]
  BY <1>1
<1> QED
  BY <1>3, <1>4, <1>5

LEMMA OneRowIs ==
    ASSUME ClusterTypeOK, NEW o \in Object, NEW n \in Node, NEW s, SetRow(o, n, s)
    PROVE  /\ Holders(o)' = IF s = "HEALTHY" THEN Holders(o) \cup {n} ELSE Holders(o) \ {n}
           /\ \A a \in Object \ {o} : Holders(a)' = Holders(a)
<1>1. /\ replica'[o][n] = s
      /\ \A m \in Node \ {n} : replica'[o][m] = replica[o][m]
      /\ \A a \in Object \ {o}, m \in Node : replica'[a][m] = replica[a][m]
  BY DEF SetRow, ClusterTypeOK
<1>2. \A a : /\ Holders(a)' = {m \in Node : replica'[a][m] = "HEALTHY"}
             /\ Holders(a) = {m \in Node : replica[a][m] = "HEALTHY"}
  BY DEF Holders, RowsWith
<1>3. \A a \in Object \ {o} : Holders(a)' = Holders(a)
  BY <1>1, <1>2
<1>4. Holders(o)' = IF s = "HEALTHY" THEN Holders(o) \cup {n} ELSE Holders(o) \ {n}
  BY <1>1, <1>2
<1> QED
  BY <1>3, <1>4

LEMMA RowsUntouched ==
    ASSUME UNCHANGED replica
    PROVE  \A a : Holders(a)' = Holders(a)
BY DEF Holders, RowsWith

(* A file is written, no row is.                                           *)
LEMMA FileAlone ==
    ASSUME ClusterTypeOK, NEW o \in Object, NEW n \in Node, NEW d, SetDisk(o, n, d),
           UNCHANGED replica
    PROVE  /\ disk'[o][n] = d
           /\ \A m \in Node \ {n} : disk'[o][m] = disk[o][m]
           /\ Holders(o)' = Holders(o)
           /\ \A a \in Object \ {o} : Alike(a)
<1>1. /\ disk'[o][n] = d
      /\ \A m \in Node \ {n} : disk'[o][m] = disk[o][m]
      /\ \A a \in Object \ {o} : disk'[a] = disk[a]
  BY OneFileIs
<1>2. \A a : Holders(a)' = Holders(a)
  BY RowsUntouched
<1> QED
  BY <1>1, <1>2 DEF Alike

(* A row is written, no file is.                                           *)
LEMMA RowAlone ==
    ASSUME ClusterTypeOK, NEW o \in Object, NEW n \in Node, NEW s, SetRow(o, n, s),
           UNCHANGED disk
    PROVE  /\ Holders(o)' = IF s = "HEALTHY" THEN Holders(o) \cup {n} ELSE Holders(o) \ {n}
           /\ \A a \in Object \ {o} : Alike(a)
<1>1. /\ Holders(o)' = IF s = "HEALTHY" THEN Holders(o) \cup {n} ELSE Holders(o) \ {n}
      /\ \A a \in Object \ {o} : Holders(a)' = Holders(a)
  BY OneRowIs
<1> QED
  BY <1>1 DEF Alike

(* What a step of the manager that writes does to its object.              *)
Works(o) ==
    /\ rm'.obj = o /\ \A a \in Object \ {o} : Alike(a)
    /\ rm'.pc \notin {"count", "sync", "upRows", "upPlace", "downList"}
    /\ Readable(o) => /\ Moves(o) /\ GoodRows(o)'
                      /\ Growing(o)' /\ Shrinking(o)'
InHand(o) == /\ Undisturbing /\ ClusterTypeOK /\ o \in Object /\ o = rm.obj
             /\ Readable(o) => GoodRows(o)

LEMMA PlansOf ==
    ASSUME Undisturbing, NEW o, o = rm.obj, rm.pc \notin {"idle", "objects"},
           Readable(o)
    PROVE  /\ Growing(o) /\ Shrinking(o) /\ Wanted' = Wanted /\ Wanted \in Nat
           /\ Wanted > 0
           /\ Holders(o) \in SUBSET Node /\ Cardinality(Holders(o)) \in Nat
           /\ rm.dests \in SUBSET Node /\ Cardinality(rm.dests) \in Nat
<1>1. rm.dests \in SUBSET Node /\ Wanted' = Wanted
  BY DEF Undisturbing, RMTypeOK, Wanted
<1>2. Growing(rm.obj) /\ Shrinking(rm.obj)
  BY DEF Undisturbing, Plans
<1> QED
  BY <1>1, <1>2, WantedIs, HoldersAreNodes, Sizes DEF Undisturbing

(* The rows and files that a step leaves as they are stay good.            *)
LEMMA GoodStays ==
    ASSUME NEW o, GoodRows(o), Alike(o), \A n : Purged(o, n)' <=> Purged(o, n)
    PROVE  GoodRows(o)'
<1>1. Holders(o)' = Holders(o) /\ Holders(o) \subseteq Node
  BY HoldersAreNodes DEF Alike
<1>2. Whole(o)' = {n \in Holders(o)' : disk'[o][n] = "good"}
      /\ Whole(o) = {n \in Holders(o) : disk[o][n] = "good"}
  BY DEF Whole
<1>3. Whole(o)' = Whole(o)
  BY <1>1, <1>2 DEF Alike
<1> QED
  BY <1>1, <1>3 DEF GoodRows, Alike

LEMMA CalmPush ==
    ASSUME NEW o, InHand(o), PushCopy
    PROVE  Works(o)
<1>1. PICK n \in rm.dests :
        /\ StoreChunk(o, n)
        /\ rm' = [rm EXCEPT !.pc = "upInsert", !.dests = @ \ {n}, !.node = n]
  BY AllGoesWell DEF PushCopy, InHand, Undisturbing, RMTypeOK
<1>2. /\ rm.pc = "upPush" /\ n \in Node /\ o \in Object /\ ClusterTypeOK
      /\ UNCHANGED replica
  BY DEF PushCopy, RMAt, InHand, Undisturbing, RMTypeOK
<1>3. /\ rm'.pc = "upInsert" /\ rm'.obj = o /\ rm'.node = n
      /\ rm'.dests = rm.dests \ {n}
  BY <1>1 DEF InHand, Undisturbing, RMTypeOK
<1>4. /\ disk'[o][n] = "good"
      /\ \A m \in Node \ {n} : disk'[o][m] = disk[o][m]
      /\ \A a \in Object \ {o} : Alike(a)
  <2>1. SetDisk(o, n, "good")
    BY <1>1 DEF StoreChunk
  <2> QED
    BY <1>2, <2>1, FileAlone
<1>5. ASSUME Readable(o)
      PROVE  /\ Moves(o) /\ GoodRows(o)' /\ Growing(o)' /\ Shrinking(o)'
  <2>1. /\ Growing(o) /\ Wanted' = Wanted /\ Wanted \in Nat
        /\ Holders(o) \in SUBSET Node /\ Cardinality(Holders(o)) \in Nat
        /\ rm.dests \in SUBSET Node /\ Cardinality(rm.dests) \in Nat
        /\ GoodRows(o)
    BY <1>2, <1>5, PlansOf DEF InHand
  <2>2. n \notin Holders(o) /\ Cardinality(Holders(o)) + Cardinality(rm.dests) <= Wanted
        /\ rm.dests \cap Holders(o) = {}
    BY <1>1, <1>2, <2>1 DEF Growing, UpPc
  <2>3. Holders(o)' = Holders(o)
    BY <1>2, RowsUntouched
  <2>4. Moves(o)
    BY <1>2, <1>4, <2>2, <2>3 DEF Moves, Fills
  <2>5. GoodRows(o)'
    <3>1. Whole(o)' = Whole(o)
      BY <1>4, <2>1, <2>2, <2>3 DEF Whole
    <3>2. \A m : ~Purged(o, m) /\ ~Purged(o, m)'
      BY <1>2, <1>3 DEF Purged
    <3> QED
      BY <1>4, <2>1, <2>2, <2>3, <3>1, <3>2 DEF GoodRows
  <2>6. Cardinality(rm'.dests) = Cardinality(rm.dests) - 1
    BY <1>1, <1>3, <2>1, Sizes
  <2>7. /\ rm'.dests \cap Holders(o)' = {} /\ rm'.node \notin Holders(o)'
        /\ Cardinality(Holders(o)') + Cardinality(rm'.dests) < Wanted
        /\ Cardinality(Holders(o)') + Cardinality(rm'.dests) <= Wanted
    BY <1>3, <2>1, <2>2, <2>3, <2>6
  <2> QED
    BY <1>3, <1>4, <2>1, <2>4, <2>5, <2>7 DEF Growing, Shrinking, UpPc
<1> QED
  BY <1>3, <1>4, <1>5 DEF Works

LEMMA CalmInsert ==
    ASSUME NEW o, InHand(o), InsertCopy
    PROVE  Works(o)
<1> DEFINE n == rm.node
           H == Holders(o)
<1>1. /\ rm.pc = "upInsert" /\ n \in Node \ rm.dests /\ o \in Object /\ ClusterTypeOK
      /\ UNCHANGED disk /\ rm.obj = o
  BY DEF InsertCopy, RMAt, InHand, Undisturbing, OwnVariables
<1>2. ASSUME Readable(o)
      PROVE  /\ Wanted' = Wanted /\ Wanted \in Nat
             /\ H \in SUBSET Node /\ Cardinality(H) \in Nat
             /\ Cardinality(rm.dests) \in Nat /\ GoodRows(o)
             /\ rm.dests \cap H = {} /\ n \notin H /\ disk[o][n] = "good"
             /\ Cardinality(H) + Cardinality(rm.dests) < Wanted
             /\ Cardinality(H \cup {n}) = Cardinality(H) + 1
  <2>1. Growing(o) /\ Wanted' = Wanted /\ Wanted \in Nat
        /\ H \in SUBSET Node /\ Cardinality(H) \in Nat
        /\ Cardinality(rm.dests) \in Nat /\ GoodRows(o)
    BY <1>1, <1>2, PlansOf DEF InHand
  <2>2. n \notin H
    BY <1>1, <2>1 DEF Growing
  <2>3. Cardinality(H \cup {n}) = Cardinality(H) + 1
    BY <1>1, <2>1, <2>2, Sizes
  <2> QED
    BY <1>1, <2>1, <2>2, <2>3 DEF Growing, UpPc
<1>3. ~Inject("db") /\ (\A out \in TxOutcome : TxCost(out) => out = "committed")
  BY AllGoesWell DEF InHand, Undisturbing
<1>4. \/ /\ SetRow(o, n, "HEALTHY")
         /\ rm' = [rm EXCEPT !.pc = "upPush", !.node = NoNode, !.done = @ + 1]
      \/ RMGo("upUndo") /\ UNCHANGED replica
  BY <1>1, <1>3 DEF InsertCopy
<1>5. CASE /\ SetRow(o, n, "HEALTHY")
           /\ rm' = [rm EXCEPT !.pc = "upPush", !.node = NoNode, !.done = @ + 1]
  <2>1. rm'.pc = "upPush" /\ rm'.obj = o /\ rm'.dests = rm.dests
    BY <1>1, <1>5 DEF InHand, Undisturbing, RMTypeOK
  <2>2. Holders(o)' = H \cup {n} /\ \A a \in Object \ {o} : Alike(a)
    <3>1. SetRow(o, n, "HEALTHY") /\ n \in Node
      BY <1>1, <1>5
    <3> HIDE DEF n
    <3> QED
      BY <1>1, <3>1, RowAlone
  <2>3. ASSUME Readable(o)
        PROVE  Moves(o) /\ GoodRows(o)' /\ Growing(o)' /\ Shrinking(o)'
    <3>1. /\ Wanted' = Wanted /\ Wanted \in Nat
          /\ H \in SUBSET Node /\ Cardinality(H) \in Nat
          /\ Cardinality(rm.dests) \in Nat /\ GoodRows(o)
          /\ rm.dests \cap H = {} /\ n \notin H /\ disk[o][n] = "good"
          /\ Cardinality(H) + Cardinality(rm.dests) < Wanted
          /\ Cardinality(H \cup {n}) = Cardinality(H) + 1
      BY <1>2, <2>3
    <3>2. Cardinality(H \cup {n}) + Cardinality(rm.dests) <= Wanted
          /\ Cardinality(H \cup {n}) <= Wanted
      BY <3>1
    <3>3. Gains(o, n)
      BY <1>1, <2>2, <3>2 DEF Gains
    <3>4. Moves(o)
      BY <1>1, <3>3 DEF Moves
    <3>5. Whole(o)' = Whole(o) \cup {n}
      BY <1>1, <2>2, <3>1 DEF Whole
    <3>6. \A m : ~Purged(o, m) /\ ~Purged(o, m)'
      BY <1>1, <2>1 DEF Purged
    <3>7. GoodRows(o)'
      BY <1>1, <2>2, <3>1, <3>5, <3>6 DEF GoodRows
    <3>8. rm.dests \cap (H \cup {n}) = {}
      BY <1>1, <3>1
    <3> QED
      BY <2>1, <2>2, <3>1, <3>2, <3>4, <3>7, <3>8 DEF Growing, Shrinking, UpPc
  <2> QED
    BY <2>1, <2>2, <2>3 DEF Works
<1>6. CASE RMGo("upUndo") /\ UNCHANGED replica
  <2>1. /\ rm'.pc = "upUndo" /\ rm'.obj = o /\ rm'.dests = rm.dests /\ rm'.node = n
    BY <1>1, <1>6 DEF RMGo, InHand, Undisturbing, RMTypeOK
  <2>2. \A a : Holders(a)' = Holders(a) /\ Alike(a)
    BY <1>1, <1>6, RowsUntouched DEF Alike
  <2>3. ASSUME Readable(o)
        PROVE  Moves(o) /\ GoodRows(o)' /\ Growing(o)' /\ Shrinking(o)'
    <3>1. /\ Wanted' = Wanted /\ Wanted \in Nat /\ GoodRows(o)
          /\ Cardinality(H) \in Nat /\ Cardinality(rm.dests) \in Nat
          /\ rm.dests \cap H = {} /\ n \notin H
          /\ Cardinality(H) + Cardinality(rm.dests) < Wanted
      BY <1>2, <2>3
    <3>2. \A m : Purged(o, m)' <=> Purged(o, m)
      BY <1>1, <2>1 DEF Purged
    <3>3. GoodRows(o)'
      BY <2>2, <3>1, <3>2, GoodStays
    <3>4. Cardinality(H) + Cardinality(rm.dests) <= Wanted
      BY <3>1
    <3> QED
      BY <2>1, <2>2, <3>1, <3>3, <3>4 DEF Moves, Growing, Shrinking, UpPc
  <2> QED
    BY <2>1, <2>2, <2>3 DEF Works
<1> QED
  BY <1>4, <1>5, <1>6

LEMMA CalmUndo ==
    ASSUME NEW o, InHand(o), UndoCopy
    PROVE  Works(o)
<1> DEFINE n == rm.node
           H == Holders(o)
<1>1. /\ rm.pc = "upUndo" /\ n \in Node \ rm.dests /\ o \in Object /\ ClusterTypeOK
      /\ UNCHANGED replica /\ rm.obj = o
  BY DEF UndoCopy, RMAt, InHand, Undisturbing, OwnVariables
<1>2. SetDisk(o, n, "none")
  BY <1>1, AllGoesWell DEF UndoCopy, DeleteChunk, InHand, Undisturbing
<1>3. rm'.pc = "upPush" /\ rm'.obj = o /\ rm'.dests = rm.dests
  BY <1>1 DEF UndoCopy, InHand, Undisturbing, RMTypeOK
<1>4. /\ disk'[o][n] = "none" /\ \A m \in Node \ {n} : disk'[o][m] = disk[o][m]
      /\ Holders(o)' = H /\ \A a \in Object \ {o} : Alike(a)
  <2>1. n \in Node
    BY <1>1
  <2> HIDE DEF n
  <2> QED
    BY <1>1, <1>2, <2>1, FileAlone
<1>5. ASSUME Readable(o)
      PROVE  Moves(o) /\ GoodRows(o)' /\ Growing(o)' /\ Shrinking(o)'
  <2>1. /\ Growing(o) /\ Wanted' = Wanted /\ Wanted \in Nat
        /\ H \in SUBSET Node /\ Cardinality(H) \in Nat
        /\ Cardinality(rm.dests) \in Nat /\ GoodRows(o)
    BY <1>1, <1>5, PlansOf DEF InHand
  <2>2. /\ n \notin H /\ rm.dests \cap H = {}
        /\ Cardinality(H) + Cardinality(rm.dests) <= Wanted
    BY <1>1, <2>1 DEF Growing, UpPc
  <2>3. Moves(o)
    BY <1>1, <1>4, <2>2 DEF Moves, Fills
  <2>4. Whole(o)' = Whole(o)
    BY <1>4, <2>1, <2>2 DEF Whole
  <2>5. \A m : ~Purged(o, m) /\ ~Purged(o, m)'
    BY <1>1, <1>3 DEF Purged
  <2>6. GoodRows(o)'
    BY <1>4, <2>1, <2>2, <2>4, <2>5 DEF GoodRows
  <2> QED
    BY <1>3, <1>4, <2>1, <2>2, <2>3, <2>6 DEF Growing, Shrinking, UpPc
<1> QED
  BY <1>3, <1>4, <1>5 DEF Works

LEMMA CalmCheck ==
    ASSUME NEW o, InHand(o), CheckRemaining
    PROVE  Works(o)
<1> DEFINE H == Holders(o)
<1>1. /\ rm.pc = "downCheck" /\ o \in Object /\ UNCHANGED <<replica, disk>>
      /\ rm.obj = o /\ rm.left \in Nat
  BY DEF CheckRemaining, RMAt, InHand, Undisturbing, RMTypeOK
<1>2. \A a : Holders(a)' = Holders(a) /\ Alike(a)
  BY <1>1, RowsUntouched DEF Alike
<1>3. \/ \E n \in rm.nodes :
            rm' = [rm EXCEPT !.pc = "downPurge", !.nodes = @ \ {n},
                             !.node = n, !.left = @ - 1] /\ rm.left > 0
      \/ rm' = [rm EXCEPT !.left = 0]
  BY DEF CheckRemaining
<1>4. ASSUME Readable(o)
      PROVE  /\ Wanted' = Wanted /\ Wanted \in Nat /\ GoodRows(o)
             /\ H \in SUBSET Node /\ Cardinality(H) \in Nat
             /\ Cardinality(H) >= Wanted + rm.left
  BY <1>1, <1>4, PlansOf DEF InHand, Shrinking
<1>5. ASSUME NEW n \in rm.nodes, rm.left > 0,
             rm' = [rm EXCEPT !.pc = "downPurge", !.nodes = @ \ {n},
                              !.node = n, !.left = @ - 1]
      PROVE  Works(o)
  <2>1. rm'.pc = "downPurge" /\ rm'.obj = o /\ rm'.node = n /\ rm'.left = rm.left - 1
        /\ n \in Node
    BY <1>1, <1>5 DEF InHand, Undisturbing, RMTypeOK
  <2>2. ASSUME Readable(o)
        PROVE  Moves(o) /\ GoodRows(o)' /\ Growing(o)' /\ Shrinking(o)'
    <3>1. /\ Wanted' = Wanted /\ Wanted \in Nat /\ GoodRows(o)
          /\ H \in SUBSET Node /\ Cardinality(H) \in Nat
          /\ Cardinality(H) >= Wanted + rm.left
      BY <1>4, <2>2
    <3>2. /\ n \in H => Cardinality(H \ {n}) = Cardinality(H) - 1
          /\ n \notin H => H \ {n} = H
      BY <2>1, <3>1, Sizes
    <3>3. Cardinality(H \ {n}) >= Wanted + rm'.left
      <4>1. CASE n \in H
        <5>1. Cardinality(H \ {n}) = Cardinality(H) - 1
          BY <3>2, <4>1
        <5> QED
          BY <1>1, <2>1, <3>1, <5>1
      <4>2. CASE n \notin H
        <5>1. Cardinality(H \ {n}) = Cardinality(H)
          BY <3>2, <4>2
        <5> QED
          BY <1>1, <2>1, <3>1, <5>1
      <4> QED
        BY <4>1, <4>2
    <3>4. \A m : Purged(o, m)' <=> Purged(o, m)
      BY <1>1, <2>1 DEF Purged
    <3>5. GoodRows(o)'
      BY <1>2, <3>1, <3>4, GoodStays
    <3> QED
      BY <1>2, <2>1, <3>1, <3>3, <3>5 DEF Moves, Growing, Shrinking, UpPc
  <2> QED
    BY <1>2, <2>1, <2>2 DEF Works
<1>6. CASE rm' = [rm EXCEPT !.left = 0]
  <2>1. rm'.pc = "downCheck" /\ rm'.obj = o /\ rm'.left = 0
    BY <1>1, <1>6 DEF InHand, Undisturbing, RMTypeOK
  <2>2. ASSUME Readable(o)
        PROVE  Moves(o) /\ GoodRows(o)' /\ Growing(o)' /\ Shrinking(o)'
    <3>1. /\ Wanted' = Wanted /\ Wanted \in Nat /\ GoodRows(o)
          /\ Cardinality(H) \in Nat /\ Cardinality(H) >= Wanted + rm.left
      BY <1>4, <2>2
    <3>2. Cardinality(H) >= Wanted + rm'.left
      BY <1>1, <2>1, <3>1
    <3>3. \A m : Purged(o, m)' <=> Purged(o, m)
      BY <1>1, <2>1 DEF Purged
    <3>4. GoodRows(o)'
      BY <1>2, <3>1, <3>3, GoodStays
    <3> QED
      BY <1>2, <2>1, <3>1, <3>2, <3>4 DEF Moves, Growing, Shrinking, UpPc
  <2> QED
    BY <1>2, <2>1, <2>2 DEF Works
<1> QED
  BY <1>3, <1>5, <1>6

LEMMA CalmPurge ==
    ASSUME NEW o, InHand(o), PurgeChunk
    PROVE  Works(o)
<1> DEFINE n == rm.node
           H == Holders(o)
<1>1. /\ rm.pc = "downPurge" /\ n \in Node /\ o \in Object /\ ClusterTypeOK
      /\ UNCHANGED replica /\ rm.obj = o /\ rm.left \in Nat
  BY DEF PurgeChunk, RMAt, InHand, Undisturbing, OwnVariables, RMTypeOK
<1>2. SetDisk(o, n, "none")
  BY <1>1, AllGoesWell DEF PurgeChunk, DeleteChunk, InHand, Undisturbing
<1>3. rm'.pc = "downDrop" /\ rm'.obj = o /\ rm'.node = n /\ rm'.left = rm.left
  BY <1>1 DEF PurgeChunk, RMGo, InHand, Undisturbing, RMTypeOK
<1>4. /\ disk'[o][n] = "none" /\ \A m \in Node \ {n} : disk'[o][m] = disk[o][m]
      /\ Holders(o)' = H /\ \A a \in Object \ {o} : Alike(a)
  <2>1. n \in Node
    BY <1>1
  <2> HIDE DEF n
  <2> QED
    BY <1>1, <1>2, <2>1, FileAlone
<1>5. ASSUME Readable(o)
      PROVE  Moves(o) /\ GoodRows(o)' /\ Growing(o)' /\ Shrinking(o)'
  <2>1. /\ Shrinking(o) /\ Wanted' = Wanted /\ Wanted \in Nat /\ Wanted > 0
        /\ H \in SUBSET Node /\ GoodRows(o)
    BY <1>1, <1>5, PlansOf DEF InHand
  <2>2. Cardinality(H \ {n}) >= Wanted + rm.left /\ Cardinality(H \ {n}) \in Nat
        /\ H \ {n} # {}
    <3>1. H \ {n} \in SUBSET Node
      BY <2>1
    <3>2. Cardinality(H \ {n}) >= Wanted + rm.left
      BY <1>1, <2>1 DEF Shrinking
    <3>3. Cardinality(H \ {n}) \in Nat /\ (Cardinality(H \ {n}) = 0 <=> H \ {n} = {})
      BY <3>1, Sizes
    <3> QED
      BY <1>1, <2>1, <3>2, <3>3
  <2>3. \A m : ~Purged(o, m) /\ (Purged(o, m)' <=> m = n)
    BY <1>1, <1>3 DEF Purged
  <2>4. \A m \in H : disk[o][m] = "good"
    BY <2>1, <2>3 DEF GoodRows
  <2>5. Whole(o) = H /\ Whole(o)' = H \ {n}
    BY <1>4, <2>1, <2>4 DEF Whole
  <2>6. Moves(o)
    <3>1. Cardinality(H \ {n}) >= Wanted
      BY <1>1, <2>1, <2>2
    <3>2. Whole(o) \ {n} # {}
      BY <2>2, <2>5
    <3>3. Empties(o, n)
      BY <1>4, <3>1, <3>2 DEF Empties
    <3> QED
      BY <1>1, <1>4, <3>3 DEF Moves
  <2>7. GoodRows(o)'
    BY <1>4, <2>1, <2>2, <2>3, <2>4, <2>5 DEF GoodRows
  <2> QED
    BY <1>3, <1>4, <2>1, <2>2, <2>6, <2>7 DEF Growing, Shrinking, UpPc
<1> QED
  BY <1>3, <1>4, <1>5 DEF Works

LEMMA CalmDrop ==
    ASSUME NEW o, InHand(o), DropRow
    PROVE  Works(o)
<1> DEFINE n == rm.node
           H == Holders(o)
           failed == [rm EXCEPT !.pc = "downCheck", !.node = NoNode]
<1>1. /\ rm.pc = "downDrop" /\ n \in Node /\ o \in Object /\ ClusterTypeOK
      /\ UNCHANGED disk /\ rm.obj = o /\ rm.left \in Nat
  BY DEF DropRow, RMAt, InHand, Undisturbing, OwnVariables, RMTypeOK
<1>2. \A out \in TxOutcome : TxCost(out) => out = "committed"
  BY AllGoesWell DEF InHand, Undisturbing
<1>3. \/ replica[o][n] # "NONE" /\ SetRow(o, n, "NONE")
      \/ replica[o][n] = "NONE" /\ UNCHANGED replica
  BY <1>1, <1>2 DEF DropRow, DeleteRow
<1>4. rm' = failed \/ rm' = [failed EXCEPT !.done = @ + 1]
  BY DEF DropRow
<1>5. rm'.pc = "downCheck" /\ rm'.obj = o /\ rm'.left = rm.left
  BY <1>1, <1>4 DEF InHand, Undisturbing, RMTypeOK
<1>6. Holders(o)' = H \ {n} /\ \A a \in Object \ {o} : Alike(a)
  <2>1. CASE replica[o][n] # "NONE" /\ SetRow(o, n, "NONE")
    <3>1. SetRow(o, n, "NONE") /\ n \in Node
      BY <1>1, <2>1
    <3> HIDE DEF n
    <3> QED
      BY <1>1, <3>1, RowAlone
  <2>2. CASE replica[o][n] = "NONE" /\ UNCHANGED replica
    <3>1. n \notin H
      BY <2>2 DEF Holders, RowsWith
    <3>2. \A a : Holders(a)' = Holders(a) /\ Alike(a)
      BY <1>1, <2>2, RowsUntouched DEF Alike
    <3> QED
      BY <3>1, <3>2
  <2> QED
    BY <1>3, <2>1, <2>2
<1>7. ASSUME Readable(o)
      PROVE  Moves(o) /\ GoodRows(o)' /\ Growing(o)' /\ Shrinking(o)'
  <2>1. /\ Shrinking(o) /\ Wanted' = Wanted /\ H \in SUBSET Node /\ GoodRows(o)
    BY <1>1, <1>7, PlansOf DEF InHand
  <2>2. \A m : (Purged(o, m) <=> m = n) /\ ~Purged(o, m)'
    BY <1>1, <1>5 DEF Purged
  <2>3. /\ n \in H => disk[o][n] = "none"
        /\ \A m \in H \ {n} : disk[o][m] = "good"
        /\ Whole(o) # {}
    BY <2>1, <2>2 DEF GoodRows
  <2>4. Whole(o)' = Whole(o)
    BY <1>1, <1>6, <2>1, <2>3 DEF Whole
  <2>5. GoodRows(o)'
    BY <1>1, <1>6, <2>2, <2>3, <2>4 DEF GoodRows
  <2>6. Moves(o)
    <3>1. CASE n \in H
      BY <1>1, <1>6, <2>3, <3>1 DEF Moves, Loses
    <3>2. CASE n \notin H
      BY <1>1, <1>6, <3>2 DEF Moves, Alike
    <3> QED
      BY <3>1, <3>2
  <2>7. Cardinality(H \ {n}) >= Wanted + rm.left
    BY <1>1, <2>1 DEF Shrinking
  <2> QED
    BY <1>5, <1>6, <2>1, <2>5, <2>6, <2>7 DEF Growing, Shrinking, UpPc
<1> QED
  BY <1>5, <1>6, <1>7 DEF Works

-----------------------------------------------------------------------------
(* The loops keep readers whole.                                           *)

AllCalm == /\ Calm /\ Peace /\ RowsAreGood /\ Plans /\ Readers
           /\ ~Inject("db") /\ ~Inject("net") /\ ~Inject("late")
           /\ ~Inject("outage") /\ ~Inject("crash") /\ ~Inject("rot")
           /\ faults \in [FaultKind -> Nat]
           /\ \A k \in FaultKind : faults'[k] = faults[k]

LEMMA CalmAround ==
    ASSUME CoordinatorInv, CalmInv, Costs(0), Calm'
    PROVE  AllCalm
<1>1. faults \in [FaultKind -> Nat]
  BY TypesAre DEF CoordinatorInv, SHTypeOK, ClusterTypeOK
<1>2. Calm /\ \A k \in FaultKind : faults'[k] = faults[k]
  BY <1>1, CalmBefore
<1> QED
  BY <1>1, <1>2, NothingInjected DEF AllCalm, CalmInv

(* The readers of an object whose files move as they may.                  *)
LEMMA ReadersStay ==
    ASSUME AllCalm, RecordsOK, RequestTypes, UNCHANGED req,
           \A o \in Object : Exists(o)' <=> Exists(o),
           \A o \in Object : Readable(o) => Moves(o)
    PROVE  Readers' /\ \A o \in Object : Readable(o)' <=> Readable(o)
<1>1. \A o : Deleting(o)' <=> Deleting(o)
  BY DEF Deleting
<1>2. \A o \in Object : Readable(o)' <=> Readable(o)
  BY <1>1 DEF Readable
<1>3. ASSUME NEW r \in Request
      PROVE  /\ req[r].pc \in DownloadPc => Exists(req[r].obj)' \/ Deleting(req[r].obj)'
             /\ req[r].pc = "fetch" => Finds(r)'
             /\ req[r].answer \in {"unavailable", "corrupt"} =>
                  req[r].gone \/ Deleting(req[r].obj)'
  <2>1. /\ req[r].pc \in DownloadPc => Exists(req[r].obj) \/ Deleting(req[r].obj)
        /\ req[r].pc = "fetch" => Finds(r)
        /\ req[r].answer \in {"unavailable", "corrupt"} =>
             req[r].gone \/ Deleting(req[r].obj)
        /\ req[r].pc \in DownloadPc => req[r].obj \in Object
        /\ req[r].todo \subseteq Node
    BY DEF AllCalm, Readers, RecordsOK, RecordOK, RequestTypes, RequestRec
  <2>2. Deleting(req[r].obj)' <=> Deleting(req[r].obj)
    BY <1>1
  <2>3. ASSUME req[r].pc = "fetch"
        PROVE  Finds(r)'
    <3>1. req[r].obj \in Object /\ Finds(r)
      BY <2>1, <2>3 DEF DownloadPc
    <3>2. req'[r] = req[r]
      OBVIOUS
    <3>3. Readable(req[r].obj)' <=> Readable(req[r].obj)
      BY <1>2, <3>1
    <3>4. CASE Readable(req[r].obj)
      <4>1. Moves(req[r].obj)
        BY <3>1, <3>4
      <4> QED
        BY <2>1, <3>1, <3>2, <3>3, <4>1, FindsStill DEF AllCalm
    <3>5. CASE ~Readable(req[r].obj)
      BY <3>2, <3>3, <3>5 DEF Finds
    <3> QED
      BY <3>4, <3>5
  <2> QED
    BY <2>1, <2>2, <2>3
<1>4. Readers'
  BY <1>3 DEF Readers
<1> QED
  BY <1>2, <1>4

LEMMA ScalesKeepCalm == CoordinatorInv /\ CalmInv /\ Scales => CalmInv'
<1> SUFFICES ASSUME CoordinatorInv, CalmInv, Scales, Calm'
             PROVE  Peace' /\ RowsAreGood' /\ Plans' /\ Readers'
  BY DEF CalmInv
<1>1. RMStep /\ UNCHANGED she /\ UNCHANGED <<req, issued>>
  BY DEF Scales, apiVars
<1>2. /\ ReplicationTypeOK /\ RequestTypes /\ RecordsOK /\ OwnVariables
      /\ ClusterTypeOK /\ RMTypeOK
  BY TypesAre, ScalerFacts DEF CoordinatorInv
<1>3. ScalerTyped /\ Costs(0)
  BY <1>1, <1>2, ScalerSteps DEF CoordinatorInv
<1>4. AllCalm /\ RMTypeOK'
  BY <1>3, CalmAround DEF ScalerTyped, ReplicationTypeOK
<1>5. CASE ReadStep
  <2>1. /\ UNCHANGED <<replica, nodeStatus, disk, late>>
        /\ \A o \in Object : Exists(o)' <=> Exists(o)
        /\ rm.pc \notin WorkPc /\ rm'.pc \notin WorkPc
    BY <1>2, <1>5, ScalerReads
  <2>2. \A o : Alike(o)
    BY <2>1, RowsUntouched DEF Alike
  <2>3. Readers' /\ \A o \in Object : Readable(o)' <=> Readable(o)
    BY <1>1, <1>2, <1>4, <2>1, <2>2, ReadersStay DEF Moves
  <2>4. Peace'
    BY <1>1, <1>4, <2>1 DEF AllCalm, Peace
  <2>5. RowsAreGood'
    <3> SUFFICES ASSUME NEW o \in Object, Readable(o)
                 PROVE  GoodRows(o)'
      BY <2>3 DEF RowsAreGood
    <3>1. GoodRows(o) /\ \A n : Purged(o, n)' <=> Purged(o, n)
      BY <1>4, <2>1 DEF AllCalm, RowsAreGood, Purged, WorkPc
    <3> QED
      BY <2>2, <3>1, GoodStays
  <2>6. Plans'
    <3>1. CASE rm' = NextObject
      BY <3>1, OutOfTurn
    <3>2. CASE UNCHANGED factor
      <4>1. \A o : Readable(o)' <=> Readable(o)
        BY <1>1, <3>2 DEF Readable, Exists, Deleting
      <4>2. Undisturbing
        BY <1>2, <1>4, <4>1 DEF Undisturbing, AllCalm
      <4> QED
        BY <1>5, <4>2, CalmReads
    <3>3. rm' = NextObject \/ UNCHANGED factor
      BY <1>5 DEF ReadStep, ReconcileTick, ReconcileDone, TakeObject, LoadObject,
         ReadTier, Compare, SyncFactor, RMReadFails, ListRows, SelectDestinations,
         ListSources, FetchCopy, NoCopyFetched, AllPushed, ScaledUp, ListCandidates,
         AllPruned, ScaledDown, WriteFactor, clusterVars
    <3> QED
      BY <3>1, <3>2, <3>3
  <2> QED
    BY <2>3, <2>4, <2>5, <2>6
<1>6. CASE \/ PushCopy \/ InsertCopy \/ UndoCopy
           \/ CheckRemaining \/ PurgeChunk \/ DropRow
  <2>1. PICK o : o = rm.obj
    OBVIOUS
  <2>2. rm.pc \notin {"idle", "objects"} /\ UNCHANGED <<factor, nodeStatus>>
    BY <1>6 DEF PushCopy, InsertCopy, UndoCopy, CheckRemaining, PurgeChunk, DropRow, RMAt
  <2>3. o \in Object
    BY <1>2, <2>1, <2>2 DEF OwnVariables
  <2>4. \A a : /\ Readable(a)' <=> Readable(a)
               /\ Exists(a)' <=> Exists(a)
    BY <1>1, <2>2 DEF Readable, Exists, Deleting
  <2>5. InHand(o)
    BY <1>2, <1>4, <2>1, <2>3, <2>4 DEF InHand, Undisturbing, AllCalm, RowsAreGood
  <2>6. Works(o)
    BY <1>6, <2>5, CalmPush, CalmInsert, CalmUndo, CalmCheck, CalmPurge, CalmDrop
  <2>7. late' = late
    <3>1. /\ \A n \in Node : ~StoreChunkFails(rm.obj, n) /\ ~DeleteChunkFails(rm.obj, n)
          /\ ~Inject("db") /\ rm.dests \subseteq Node
      BY <1>2, <1>4, AllGoesWell DEF AllCalm, RMTypeOK
    <3>2. rm.pc \in {"upUndo", "downPurge"} => rm.node \in Node
      BY <1>2 DEF OwnVariables
    <3> QED
      BY <1>6, <3>1, <3>2 DEF PushCopy, InsertCopy, UndoCopy, CheckRemaining,
         PurgeChunk, DropRow, StoreChunk, DeleteChunk, RMAt
  <2>8. Peace'
    BY <1>1, <1>4, <2>2, <2>7 DEF AllCalm, Peace
  <2>9. \A a \in Object : Readable(a) => Moves(a)
    BY <2>6 DEF Works, Moves
  <2>10. Readers'
    BY <1>1, <1>2, <1>4, <2>4, <2>9, ReadersStay
  <2>11. RowsAreGood'
    <3> SUFFICES ASSUME NEW a \in Object, Readable(a)
                 PROVE  GoodRows(a)'
      BY <2>4 DEF RowsAreGood
    <3>1. CASE a = o
      BY <2>6, <3>1 DEF Works
    <3>2. CASE a # o
      <4>1. GoodRows(a) /\ Alike(a)
        BY <1>4, <2>6, <3>2 DEF AllCalm, RowsAreGood, Works
      <4>2. \A n : Purged(a, n)' <=> Purged(a, n)
        BY <2>1, <2>6, <3>2 DEF Purged, Works
      <4> QED
        BY <4>1, <4>2, GoodStays
    <3> QED
      BY <3>1, <3>2
  <2>12. Plans'
    <3>1. Readable(o)' => Growing(o)' /\ Shrinking(o)'
      BY <2>4, <2>6 DEF Works
    <3>2. /\ rm'.obj = o
          /\ rm'.pc \notin {"count", "sync", "upRows", "upPlace", "downList"}
      BY <2>6 DEF Works
    <3>3. Readable(rm.obj)' => Growing(rm.obj)' /\ Shrinking(rm.obj)'
      BY <3>1, <3>2
    <3> QED
      BY <3>2, <3>3 DEF Plans
  <2> QED
    BY <2>8, <2>10, <2>11, <2>12
<1>7. \/ ReadStep \/ PushCopy \/ InsertCopy \/ UndoCopy
      \/ CheckRemaining \/ PurgeChunk \/ DropRow
  BY <1>1 DEF RMStep, ReadStep
<1> QED
  BY <1>5, <1>6, <1>7

(* A step of the others, in which nothing happens.                         *)
LEMMA CalmStutters ==
    ASSUME CalmInv, UNCHANGED CoordinatorVars
    PROVE  CalmInv'
<1>1. UNCHANGED <<factor, replica, nodeStatus, disk, late, faults, she, rm, req>>
  BY DEF CoordinatorVars, clusterVars, apiVars
<1>2. Wanted' = Wanted /\ (Calm' <=> Calm)
  BY <1>1 DEF Wanted, Calm
<1>3. Peace' <=> Peace
  BY <1>1 DEF Peace
<1>4. \A o : /\ Holders(o)' = Holders(o) /\ Whole(o)' = Whole(o)
             /\ (Readable(o)' <=> Readable(o)) /\ (Exists(o)' <=> Exists(o))
             /\ (Deleting(o)' <=> Deleting(o))
  BY <1>1 DEF Holders, Whole, RowsWith, Readable, Exists, Deleting
<1>5. \A o : /\ GoodRows(o)' <=> GoodRows(o)
             /\ Growing(o)' <=> Growing(o)
             /\ Shrinking(o)' <=> Shrinking(o)
  BY <1>1, <1>2, <1>4 DEF GoodRows, Purged, Growing, Shrinking
<1>6. RowsAreGood' <=> RowsAreGood
  BY <1>4, <1>5 DEF RowsAreGood
<1>7. Plans' <=> Plans
  BY <1>1, <1>2, <1>4, <1>5 DEF Plans
<1>8. \A r : Finds(r)' <=> Finds(r)
  BY <1>1, <1>2, <1>4 DEF Finds, Found
<1>9. Readers' <=> Readers
  BY <1>1, <1>4, <1>8 DEF Readers
<1> QED
  BY <1>2, <1>3, <1>6, <1>7, <1>9 DEF CalmInv

LEMMA HealsKeepCalm == CoordinatorInv /\ CalmInv /\ Heals => CalmInv'
<1> SUFFICES ASSUME CoordinatorInv, CalmInv, Heals, Calm'
             PROVE  CalmInv'
  BY DEF CalmInv
<1>1. SHEStep /\ UNCHANGED rm /\ UNCHANGED apiVars
  BY DEF Heals
<1>2. Costs(0)
  BY <1>1, HealerSteps, TypesAre DEF CoordinatorInv
<1>3. AllCalm
  BY <1>2, CalmAround
<1>4. UNCHANGED <<clusterVars, she>>
  BY <1>1, <1>3, EngineSleeps DEF AllCalm
<1> QED
  BY <1>1, <1>4, CalmStutters DEF CoordinatorVars

LEMMA EnvironmentKeepsCalm == CoordinatorInv /\ CalmInv /\ Environment => CalmInv'
<1> SUFFICES ASSUME CoordinatorInv, CalmInv, Environment, Calm'
             PROVE  FALSE
  BY DEF CalmInv
<1>1. Costs(0)
  BY EnvironmentShape, TypesAre DEF CoordinatorInv
<1> QED
  BY <1>1, CalmAround, NothingHappens DEF AllCalm

LEMMA RestartKeepsCalm == CoordinatorInv /\ Restart => CalmInv'
<1> SUFFICES ASSUME CoordinatorInv, Restart, Calm'
             PROVE  FALSE
  BY DEF CalmInv
<1>1. faults \in [FaultKind -> Nat] /\ "crash" \in FaultKind
  BY TypesAre DEF CoordinatorInv, SHTypeOK, ClusterTypeOK, FaultKind
<1>2. faults'["crash"] = faults["crash"] + 1 /\ faults["crash"] \in Nat
  BY <1>1 DEF Restart, Inject
<1>3. faults'["crash"] = 0
  BY <1>1 DEF Calm
<1> QED
  BY <1>2, <1>3

-----------------------------------------------------------------------------
(* The requests.                                                           *)

(* A Delete comes to an answer that tells.                                 *)
LEMMA DeletingStays ==
    ASSUME RecordsOK, NEW r \in Request,
           req[r].pc = "new" \/ Follows(req[r], req'[r]),
           \A s \in Request : s # r => req'[s] = req[s],
           NEW o, Deleting(o)
    PROVE  Deleting(o)'
<1>1. PICK s \in Request :
        /\ "delete" \in Kinds /\ req[s].obj = o /\ req[s].factor = 0
        /\ req[s].pc \in DeletePc \/ req[s].answer \in {"deleted", "failed", "lost"}
  BY DEF Deleting
<1>2. CASE s # r
  BY <1>1, <1>2 DEF Deleting
<1>3. CASE s = r
  <2>1. RecordOK(req[r]) /\ req[r].pc # "done" /\ req[r].pc # "new"
        /\ Follows(req[r], req'[r])
    BY <1>1, <1>3 DEF RecordsOK, RecordOK, Follows, DeletePc
  <2>2. req[r].pc \in DeletePc
    BY <1>1, <1>3, <2>1 DEF RecordOK
  <2> QED
    BY <1>1, <1>3, <2>1, <2>2 DEF Follows, Deleting
<1> QED
  BY <1>2, <1>3

LEMMA BeingRemoved ==
    ASSUME RecordsOK, NEW r \in Request, req[r].pc \in DeletePc
    PROVE  Deleting(req[r].obj)
<1>1. RecordOK(req[r])
  BY DEF RecordsOK
<1> QED
  BY <1>1 DEF RecordOK, Deleting, DeletePc

(* The object whose rows a request inserts.                                *)
Committed(r, o) ==
    /\ req[r].pc = "commit" /\ o = req[r].obj /\ disk' = disk
    /\ \A n \in Node : replica'[o][n] = IF n \in req[r].ok THEN "HEALTHY" ELSE "NONE"

Frame(r) ==
    /\ late' = late
    /\ \A o : Deleting(o) => Deleting(o)'
    /\ \A o \in Object : Exists(o) => Exists(o)' \/ Deleting(o)
    /\ \A o \in Object : Readable(o)' =>
         \/ Readable(o) /\ Alike(o)
         \/ Committed(r, o)

LEMMA CalmCall ==
    ASSUME AllCalm, NEW o \in Object, NEW n \in Node, NEW op, CallOutcome(o, n, op),
           UNCHANGED replica
    PROVE  late' = late /\ \A a \in Object \ {o} : Alike(a)
<1>1. Mishaps' = Mishaps /\ Mishaps \in Nat
  BY CountsTyped DEF AllCalm, Mishaps, FaultKind
<1>2. late' = late
  BY <1>1 DEF CallOutcome, Costs
<1>3. \A a \in Object \ {o} : \A m \in Node : disk'[a][m] = disk[a][m]
  BY DEF CallOutcome, OneFile
<1> QED
  BY <1>2, <1>3, RowsUntouched DEF Alike

LEMMA RequestFrame ==
    ASSUME CoordinatorInv, AllCalm, NEW r \in Request, OneRequest(r),
           \/ Places(r) \/ Looks(r) \/ Goes(r)
           \/ \E n \in Node : StoresOn(r, n)
           \/ \E n \in Node : PurgesOn(r, n)
           \/ Commits(r) \/ Deletes(r)
    PROVE  Frame(r)
<1>0. /\ RequestTypes /\ ClusterTypeOK /\ RecordsOK /\ RequestsOwn
      /\ RecordOK(req[r])
  BY TypesAre DEF CoordinatorInv, SHTypeOK, RelyOnRows, RecordsOK
<1>1. req[r].pc = "new" \/ Follows(req[r], req'[r])
  BY DEF Places, Looks, Goes, StoresOn, PurgesOn, Commits, Deletes
<1>2. \A o : Deleting(o) => Deleting(o)'
  BY <1>0, <1>1, DeletingStays DEF OneRequest
<1>b. PICK b : b = req[r].obj
  OBVIOUS
<1>3. ASSUME UNCHANGED <<factor, replica, disk, late>>
      PROVE  Frame(r)
  <2>1. \A o : Alike(o) /\ (Exists(o)' <=> Exists(o))
    BY <1>3, RowsUntouched DEF Alike, Exists
  <2> QED
    BY <1>2, <1>3, <2>1 DEF Frame, Readable
<1>4. ASSUME NEW n \in Node, NEW op, CallOutcome(b, n, op), b \in Object,
             UNCHANGED <<factor, replica>>, ~Exists(b) \/ Deleting(b)
      PROVE  Frame(r)
  <2>1. \A o : Exists(o)' <=> Exists(o)
    BY <1>4 DEF Exists
  <2>2. late' = late /\ \A o \in Object \ {b} : Alike(o)
    <3>1. ASSUME NEW o, o = b
          PROVE  late' = late /\ \A a \in Object \ {o} : Alike(a)
      <4>1. CallOutcome(o, n, op) /\ o \in Object
        BY <1>4, <3>1
      <4> QED
        BY <1>4, <4>1, CalmCall
    <3> QED
      BY <3>1
  <2>3. ~Readable(b)'
    BY <1>2, <1>4, <2>1 DEF Readable
  <2>4. ASSUME NEW o \in Object, Readable(o)'
        PROVE  Readable(o) /\ Alike(o)
    <3>1. o # b
      BY <2>3, <2>4
    <3> QED
      BY <1>2, <2>1, <2>2, <2>4, <3>1 DEF Readable
  <2> QED
    BY <1>2, <2>1, <2>2, <2>4 DEF Frame
<1>5. CASE Places(r) \/ Looks(r) \/ Goes(r)
  BY <1>3, <1>5 DEF Places, Looks, Goes, RequestStill
<1>6. CASE \E n \in Node : StoresOn(r, n)
  <2>1. PICK n \in Node : StoresOn(r, n)
    BY <1>6
  <2>2. ~Exists(b) /\ b \in Object
    BY <1>0, <1>b, <2>1 DEF RequestsOwn, Uploads, Fresh, StoresOn, StorePc, RecordOK, UploadPc
  <2> QED
    BY <1>4, <1>b, <2>1, <2>2 DEF StoresOn
<1>7. CASE \E n \in Node : PurgesOn(r, n)
  <2>1. PICK n \in Node : PurgesOn(r, n)
    BY <1>7
  <2>2. req[r].pc = "purge"
    BY <2>1 DEF PurgesOn, AllCalm, Peace
  <2>3. Deleting(b) /\ b \in Object
    BY <1>0, <1>b, <2>2, BeingRemoved DEF RecordOK, DeletePc
  <2> QED
    BY <1>4, <1>b, <2>1, <2>3 DEF PurgesOn
<1>8. CASE Commits(r)
  <2>1. CASE UNCHANGED <<factor, replica>>
    BY <1>3, <1>8, <2>1 DEF Commits
  <2>2. CASE /\ factor' = [factor EXCEPT ![b] = req[r].factor]
             /\ replica' = [replica EXCEPT ![b] =
                  [n \in Node |-> IF n \in req[r].ok THEN "HEALTHY" ELSE "NONE"]]
    <3>1. /\ factor \in [Object -> Nat] /\ replica \in [Object -> [Node -> RowStatus]]
          /\ b \in Object /\ req[r].factor # 0
          /\ req[r].pc = "commit" /\ late' = late /\ disk' = disk
      BY <1>0, <1>8, <1>b DEF ClusterTypeOK, RecordOK, UploadPc, StorePc, Commits
    <3>2. /\ \A n \in Node : replica'[b][n] = IF n \in req[r].ok THEN "HEALTHY" ELSE "NONE"
          /\ \A o \in Object : /\ Exists(o) => Exists(o)'
                               /\ o # b => replica'[o] = replica[o] /\ factor'[o] = factor[o]
      BY <2>2, <3>1 DEF Exists
    <3>3. \A o \in Object : o # b => Holders(o)' = Holders(o) /\ (Exists(o)' <=> Exists(o))
      BY <3>2 DEF Holders, RowsWith, Exists
    <3>4. ASSUME NEW o \in Object, Readable(o)', o # b
          PROVE  Readable(o) /\ Alike(o)
      BY <1>2, <3>1, <3>3, <3>4 DEF Readable, Alike
    <3>5. Committed(r, b)
      BY <1>b, <3>1, <3>2 DEF Committed
    <3> QED
      BY <1>2, <3>1, <3>2, <3>4, <3>5 DEF Frame
  <2> QED
    BY <1>8, <1>b, <2>1, <2>2 DEF Commits
<1>9. CASE Deletes(r)
  <2>1. CASE UNCHANGED <<factor, replica, listed>>
    BY <1>3, <1>9, <2>1 DEF Deletes
  <2>2. CASE DeleteObjectRow(b)
    <3>1. /\ factor' = [factor EXCEPT ![b] = 0]
          /\ replica' = [replica EXCEPT ![b] = [n \in Node |-> "NONE"]]
          /\ factor \in [Object -> Nat] /\ replica \in [Object -> [Node -> RowStatus]]
          /\ late' = late /\ disk' = disk /\ req[r].pc = "delete"
      BY <1>0, <1>9, <2>2 DEF DeleteObjectRow, ClusterTypeOK, Deletes
    <3>2. Deleting(b) /\ Deleting(b)'
      BY <1>0, <1>2, <1>b, <3>1, BeingRemoved DEF DeletePc
    <3>3. \A o \in Object : o # b => replica'[o] = replica[o] /\ factor'[o] = factor[o]
      BY <3>1
    <3>4. \A o \in Object : o # b => Holders(o)' = Holders(o) /\ (Exists(o)' <=> Exists(o))
      BY <3>3 DEF Holders, RowsWith, Exists
    <3>5. ASSUME NEW o \in Object, Readable(o)'
          PROVE  Readable(o) /\ Alike(o)
      <4>1. o # b
        BY <3>2, <3>5 DEF Readable
      <4> QED
        BY <1>2, <3>1, <3>4, <3>5, <4>1 DEF Readable, Alike
    <3>6. \A o \in Object : Exists(o) => Exists(o)' \/ Deleting(o)
      BY <3>2, <3>4
    <3> QED
      BY <1>2, <3>1, <3>5, <3>6 DEF Frame
  <2> QED
    BY <1>9, <1>b, <2>1, <2>2 DEF Deletes
<1> QED
  BY <1>5, <1>6, <1>7, <1>8, <1>9

LEMMA RequestsLeaveNodes ==
    ASSUME NEW r \in Request, APIStep(r)
    PROVE  UNCHANGED nodeStatus
<1>1. CASE UploadPlace(r) \/ UploadStore(r) \/ UploadStored(r) \/ UploadCommit(r)
           \/ UploadCleanup(r) \/ UploadCleaned(r)
  BY <1>1 DEF UploadPlace, UploadStore, UploadStored, UploadCommit, UploadCleanup,
     UploadCleaned, clusterVars
<1>2. CASE DeleteLoad(r) \/ DeleteListRows(r) \/ DeletePurge(r) \/ DeletePurged(r)
           \/ DeleteObject(r)
  BY <1>2 DEF DeleteLoad, LoadOrNotFound, DeleteListRows, DeletePurge, DeletePurged,
     DeleteObject, clusterVars
<1>3. CASE DownloadLoad(r) \/ DownloadListHealthy(r) \/ DownloadFetch(r)
           \/ DownloadExhausted(r)
  BY <1>3 DEF DownloadLoad, LoadOrNotFound, DownloadListHealthy, DownloadFetch,
     DownloadExhausted, clusterVars
<1> QED
  BY <1>1, <1>2, <1>3 DEF APIStep

(* What becomes of the record of a request: it is no download, or the      *)
(* download of an object that is there, or one that goes on with its list, *)
(* or one that is given up because its client or its object is going.      *)
Idles(rec) == /\ rec.pc \notin DownloadPc \cup {"cleanup"}
              /\ rec.answer \notin {"unavailable", "corrupt"}
Opens(rec) == rec.pc = "listHealthy" /\ Exists(rec.obj) /\ rec.answer = "none"
Fetches(r, rec) ==
    /\ rec.pc = "fetch" /\ rec.answer = "none" /\ rec.obj = req[r].obj
    /\ UNCHANGED <<factor, replica, disk>>
    /\ req[r].pc \in DownloadPc
    /\ Readable(rec.obj) /\ ~rec.gone => Found(rec.obj, rec.todo)
GivesUp(r, rec) ==
    /\ rec.pc = "done" /\ rec.obj = req[r].obj
    /\ rec.gone \/ Deleting(rec.obj)
Records(r) == \/ Idles(req'[r]) \/ Opens(req'[r])
              \/ Fetches(r, req'[r]) \/ GivesUp(r, req'[r])

LEMMA RecordBecomes ==
    ASSUME RequestTypes, NEW r \in Request, NEW rec, Becomes(r, rec)
    PROVE  req'[r] = rec
BY DEF Becomes, RequestTypes

LEMMA AnswerIdles ==
    ASSUME RequestTypes, NEW r \in Request, NEW a, a \notin {"unavailable", "corrupt"}
    PROVE  /\ Idles(Answered(r, a))
           /\ \A o : Idles([Answered(r, a) EXCEPT !.obj = o])
           /\ Idles([Answered(r, a) EXCEPT !.gone = TRUE])
<1>1. req[r] \in RequestRec
  BY DEF RequestTypes
<1>2. Answered(r, a).pc = "done" /\ Answered(r, a).answer = a
  BY <1>1 DEF Answered, RequestRec
<1>3. \A o : LET rec == [Answered(r, a) EXCEPT !.obj = o]
             IN  rec.pc = "done" /\ rec.answer = a
  BY <1>1 DEF Answered, RequestRec
<1>4. LET rec == [Answered(r, a) EXCEPT !.gone = TRUE]
      IN  rec.pc = "done" /\ rec.answer = a
  BY <1>1 DEF Answered, RequestRec
<1> QED
  BY <1>2, <1>3, <1>4 DEF Idles, DownloadPc

(* The requests that upload or delete.                                     *)
LEMMA WritersIdle ==
    ASSUME AllCalm, RequestTypes, RecordsOK, NEW r \in Request,
           \/ UploadPlace(r) \/ UploadStore(r) \/ UploadStored(r) \/ UploadCommit(r)
           \/ UploadCleanup(r) \/ UploadCleaned(r)
           \/ DeleteListRows(r) \/ DeletePurge(r) \/ DeletePurged(r)
           \/ DeleteObject(r)
    PROVE  Idles(req'[r])
<1>0. /\ req[r] \in RequestRec /\ RecordOK(req[r])
      /\ req[r].pc # "cleanup"
      /\ \A out \in TxOutcome : TxCost(out) => out = "committed"
  BY AllGoesWell DEF AllCalm, Peace, RequestTypes, RecordsOK
<1>1. ASSUME NEW a \in {"created", "deleted", "failed"}, Becomes(r, Answered(r, a))
      PROVE  Idles(req'[r])
  BY <1>1, AnswerIdles, RecordBecomes
<1>2. ASSUME NEW pc \in {"store", "commit", "purge", "delete"}, req'[r].pc = pc,
             req'[r].answer = "none"
      PROVE  Idles(req'[r])
  BY <1>2 DEF Idles, DownloadPc
<1>3. CASE UploadPlace(r)
  <2>1. CASE Becomes(r, Answered(r, "failed"))
    BY <1>1, <2>1
  <2>2. ASSUME NEW o, NEW f, NEW S,
               Becomes(r, [req[r] EXCEPT !.pc = "store", !.obj = o, !.factor = f, !.todo = S])
        PROVE  Idles(req'[r])
    <3>1. req'[r].pc = "store" /\ req'[r].answer = req[r].answer
      BY <1>0, <2>2, RecordBecomes DEF RequestRec
    <3>2. req[r].answer = "none"
      BY <1>0, <1>3 DEF UploadPlace, ReqAt, RecordOK
    <3> QED
      BY <1>2, <3>1, <3>2
  <2> QED
    BY <1>3, <2>1, <2>2 DEF UploadPlace
<1>4. CASE UploadStore(r)
  <2>1. req[r].pc = "store" /\ req[r].answer = "none"
    BY <1>0, <1>4 DEF UploadStore, ReqAt, RecordOK
  <2>2. PICK n : LET next == [req[r] EXCEPT !.todo = @ \ {n}]
                 IN  \/ Becomes(r, [next EXCEPT !.ok = @ \cup {n}])
                     \/ WriteLost(r, n, "store", DiskState, next)
                     \/ Becomes(r, next)
    BY <1>4 DEF UploadStore
  <2> DEFINE next == [req[r] EXCEPT !.todo = @ \ {n}]
  <2>3. \/ req'[r] = [next EXCEPT !.ok = @ \cup {n}]
        \/ req'[r] = next
        \/ \E left : req'[r] = [next EXCEPT !.gone = left]
    <3> HIDE DEF next
    <3> QED
      BY <2>2, RecordBecomes DEF WriteLost, CallLost, next
  <2>4. req'[r].pc = "store" /\ req'[r].answer = "none"
    BY <1>0, <2>1, <2>3 DEF RequestRec
  <2> QED
    BY <1>2, <2>4
<1>5. CASE UploadStored(r)
  <2>1. CASE Becomes(r, Answered(r, "failed"))
    BY <1>1, <2>1
  <2>2. CASE Becomes(r, [req[r] EXCEPT !.pc = "commit"])
    <3>1. req'[r].pc = "commit" /\ req'[r].answer = req[r].answer
      BY <1>0, <2>2, RecordBecomes DEF RequestRec
    <3>2. req[r].answer = "none"
      BY <1>0, <1>5 DEF UploadStored, ReqAt, RecordOK
    <3> QED
      BY <1>2, <3>1, <3>2
  <2> QED
    BY <1>5, <2>1, <2>2 DEF UploadStored
<1>6. CASE UploadCommit(r)
  <2>1. Becomes(r, Answered(r, "created"))
    BY <1>0, <1>6 DEF UploadCommit
  <2> QED
    BY <1>1, <2>1
<1>7. CASE UploadCleanup(r) \/ UploadCleaned(r)
  BY <1>0, <1>7 DEF UploadCleanup, UploadCleaned, ReqAt
<1>8. CASE DeleteListRows(r)
  <2>1. PICK rows : Becomes(r, [req[r] EXCEPT !.pc = "purge", !.todo = rows])
    BY <1>8 DEF DeleteListRows
  <2>2. req'[r].pc = "purge" /\ req'[r].answer = req[r].answer
    BY <1>0, <2>1, RecordBecomes DEF RequestRec
  <2>3. req[r].answer = "none"
    BY <1>0, <1>8 DEF DeleteListRows, ReqAt, RecordOK
  <2> QED
    BY <1>2, <2>2, <2>3
<1>9. CASE DeletePurge(r)
  <2>1. req[r].pc = "purge" /\ req[r].answer = "none"
    BY <1>0, <1>9 DEF DeletePurge, ReqAt, RecordOK
  <2>2. PICK n : LET next == [req[r] EXCEPT !.todo = @ \ {n}]
                 IN  Purge(r, n, next) \/ Becomes(r, next)
    BY <1>9 DEF DeletePurge
  <2> DEFINE next == [req[r] EXCEPT !.todo = @ \ {n}]
  <2>3. \/ req'[r] = next
        \/ \E left : req'[r] = [next EXCEPT !.gone = left]
    <3> HIDE DEF next
    <3> QED
      BY <2>2, RecordBecomes DEF Purge, WriteLost, CallLost, next
  <2>4. req'[r].pc = "purge" /\ req'[r].answer = "none"
    BY <1>0, <2>1, <2>3 DEF RequestRec
  <2> QED
    BY <1>2, <2>4
<1>10. CASE DeletePurged(r)
  <2>1. req'[r].pc = "delete" /\ req'[r].answer = req[r].answer
    BY <1>0, <1>10, RecordBecomes DEF DeletePurged, RequestRec
  <2>2. req[r].answer = "none"
    BY <1>0, <1>10 DEF DeletePurged, ReqAt, RecordOK
  <2> QED
    BY <1>2, <2>1, <2>2
<1>11. CASE DeleteObject(r)
  <2>1. Becomes(r, Answered(r, "deleted")) \/ Becomes(r, Answered(r, "failed"))
    BY <1>0, <1>11 DEF DeleteObject
  <2> QED
    BY <1>1, <2>1
<1> QED
  BY <1>3, <1>4, <1>5, <1>6, <1>7, <1>8, <1>9, <1>10, <1>11

LEMMA LoadRecords ==
    ASSUME AllCalm, RequestTypes, RecordsOK, NEW r \in Request,
           DeleteLoad(r) \/ DownloadLoad(r)
    PROVE  Records(r)
<1>1. req[r] \in RequestRec /\ req[r].pc = "new" /\ req[r].answer = "none"
  BY DEF RequestTypes, RecordsOK, RecordOK, DeleteLoad, DownloadLoad, LoadOrNotFound, ReqAt
<1>2. PICK o, pc :
        /\ pc \in {"listRows", "listHealthy"}
        /\ \/ Exists(o) /\ Becomes(r, [req[r] EXCEPT !.pc = pc, !.obj = o])
           \/ Becomes(r, [Answered(r, "notFound") EXCEPT !.obj = o])
  BY DEF DeleteLoad, DownloadLoad, LoadOrNotFound
<1>3. CASE Becomes(r, [Answered(r, "notFound") EXCEPT !.obj = o])
  <2>1. Idles([Answered(r, "notFound") EXCEPT !.obj = o])
    BY AnswerIdles
  <2>2. req'[r] = [Answered(r, "notFound") EXCEPT !.obj = o]
    BY <1>3, RecordBecomes
  <2> QED
    BY <2>1, <2>2 DEF Records
<1>4. CASE Exists(o) /\ Becomes(r, [req[r] EXCEPT !.pc = pc, !.obj = o])
  <2>1. req'[r] = [req[r] EXCEPT !.pc = pc, !.obj = o]
    BY <1>4, RecordBecomes
  <2>2. req'[r].pc = pc /\ req'[r].obj = o /\ req'[r].answer = "none"
    BY <1>1, <2>1 DEF RequestRec
  <2> QED
    BY <1>2, <1>4, <2>2 DEF Records, Opens, Idles, DownloadPc
<1> QED
  BY <1>2, <1>3, <1>4

(* A download that has no more nodes to ask, or that gets wrong bytes.     *)
LEMMA NothingFound ==
    ASSUME AllCalm, NEW r \in Request, req[r].pc \in DownloadPc,
           \/ req[r].pc = "listHealthy" /\ Holders(req[r].obj) = {}
           \/ req[r].pc = "fetch" /\ req[r].todo = {}
           \/ req[r].pc = "fetch" /\ \E n \in req[r].todo : disk[req[r].obj][n] = "bad",
           req[r].obj \in Object
    PROVE  req[r].gone \/ Deleting(req[r].obj)
<1> DEFINE o == req[r].obj
<1> SUFFICES ASSUME ~req[r].gone, ~Deleting(o) PROVE FALSE
  OBVIOUS
<1>1. Exists(o) /\ (req[r].pc = "fetch" => Finds(r))
  BY DEF AllCalm, Readers
<1>2. Readable(o)
  BY <1>1 DEF Readable
<1>3. Whole(o) # {}
  BY <1>2 DEF AllCalm, RowsAreGood, GoodRows
<1>4. Holders(o) # {}
  BY <1>3, HoldersAreNodes
<1>5. req[r].pc = "fetch" => Found(o, req[r].todo)
  BY <1>1, <1>2 DEF Finds
<1> QED
  BY <1>4, <1>5 DEF Found

LEMMA DownloadRecords ==
    ASSUME AllCalm, RequestTypes, RecordsOK, NEW r \in Request,
           DownloadListHealthy(r) \/ DownloadFetch(r) \/ DownloadExhausted(r)
    PROVE  Records(r)
<1> DEFINE o == req[r].obj
<1>0. /\ req[r] \in RequestRec /\ req[r].pc \in DownloadPc
      /\ o \in Object /\ req[r].answer = "none" /\ req[r].todo \subseteq Node
  BY DEF RequestTypes, RecordsOK, RecordOK, DownloadListHealthy, DownloadFetch,
     DownloadExhausted, ReqAt, DownloadPc, RequestRec
<1>1. /\ \A n \in Node : ~CallFails(n)
      /\ HealthyReplicas(o) = Holders(o) /\ ~Inject("db")
      /\ \A n \in Node : nodeStatus[n] = "ONLINE"
  BY AllGoesWell DEF AllCalm, Peace
<1>2. ASSUME NEW a, Becomes(r, Answered(r, a)), req[r].gone \/ Deleting(o)
      PROVE  Records(r)
  <2>1. req'[r] = Answered(r, a)
    BY <1>2, RecordBecomes
  <2>2. req'[r].pc = "done" /\ req'[r].obj = o /\ req'[r].gone = req[r].gone
    BY <1>0, <2>1 DEF Answered, RequestRec
  <2> QED
    BY <1>2, <2>2 DEF Records, GivesUp
<1>3. CASE DownloadListHealthy(r)
  <2>0. req[r].pc = "listHealthy" /\ UNCHANGED <<factor, replica, disk>>
    BY <1>3 DEF DownloadListHealthy, ReqAt
  <2>1. CASE Holders(o) = {} /\ Becomes(r, Answered(r, "unavailable"))
    BY <1>0, <1>2, <2>0, <2>1, NothingFound
  <2>2. CASE Becomes(r, [req[r] EXCEPT !.pc = "fetch", !.todo = Holders(o)])
    <3>1. req'[r] = [req[r] EXCEPT !.pc = "fetch", !.todo = Holders(o)]
      BY <2>2, RecordBecomes
    <3>2. /\ req'[r].pc = "fetch" /\ req'[r].todo = Holders(o) /\ req'[r].obj = o
          /\ req'[r].answer = "none"
      BY <1>0, <3>1 DEF RequestRec
    <3>3. Readable(o) => Found(o, Holders(o))
      <4> SUFFICES ASSUME Readable(o) PROVE Found(o, Holders(o))
        OBVIOUS
      <4>1. GoodRows(o)
        BY <1>0 DEF AllCalm, RowsAreGood
      <4>2. \A n \in Holders(o) : disk[o][n] # "bad"
        BY <4>1 DEF GoodRows
      <4>3. Whole(o) # {} /\ Whole(o) \subseteq Holders(o)
        BY <4>1, HoldersAreNodes DEF GoodRows
      <4> QED
        BY <4>2, <4>3 DEF Found
    <3> QED
      BY <1>0, <2>0, <3>2, <3>3 DEF Records, Fetches
  <2> QED
    BY <1>1, <1>3, <2>1, <2>2 DEF DownloadListHealthy
<1>4. CASE DownloadExhausted(r)
  <2>1. req[r].pc = "fetch" /\ req[r].todo = {} /\ Becomes(r, Answered(r, "unavailable"))
    BY <1>4 DEF DownloadExhausted, ReqAt
  <2> QED
    BY <1>0, <1>2, <2>1, NothingFound
<1>5. CASE DownloadFetch(r)
  <2>0. req[r].pc = "fetch" /\ UNCHANGED <<factor, replica, disk>> /\ Finds(r)
    BY <1>5 DEF DownloadFetch, ReqAt, AllCalm, Readers
  <2>1. PICK n \in req[r].todo :
          LET held == disk[o][n]
              next == [req[r] EXCEPT !.todo = @ \ {n}]
          IN  \/ Becomes(r, Answered(r, "served"))
              \/ held = "bad" /\ Becomes(r, Answered(r, "corrupt"))
              \/ CallLost(r, n, Answered(r, "unavailable"))
              \/ req[r].gone /\ Becomes(r, next)
              \/ held = "none" /\ Becomes(r, next)
              \/ CallLost(r, n, next)
    BY <1>0, <1>1, <1>5 DEF DownloadFetch
  <2> DEFINE next == [req[r] EXCEPT !.todo = @ \ {n}]
  <2>2. n \in Node
    BY <1>0
  <2>3. CASE Becomes(r, Answered(r, "served"))
    BY <2>3, AnswerIdles, RecordBecomes DEF Records
  <2>4. CASE disk[o][n] = "bad" /\ Becomes(r, Answered(r, "corrupt"))
    BY <1>0, <1>2, <2>0, <2>4, NothingFound
  <2>5. CASE CallLost(r, n, Answered(r, "unavailable"))
    <3>1. req'[r] = [Answered(r, "unavailable") EXCEPT !.gone = TRUE]
      BY <1>1, <2>2, <2>5, RecordBecomes DEF CallLost
    <3>2. req'[r].pc = "done" /\ req'[r].obj = o /\ req'[r].gone
      BY <1>0, <3>1 DEF Answered, RequestRec
    <3> QED
      BY <3>2 DEF Records, GivesUp
  <2>6. CASE CallLost(r, n, next)
    <3> HIDE DEF next
    <3>1. req'[r] = [next EXCEPT !.gone = TRUE]
      BY <1>1, <2>2, <2>6, RecordBecomes DEF CallLost
    <3>2. /\ req'[r].pc = "fetch" /\ req'[r].obj = o /\ req'[r].gone
          /\ req'[r].answer = "none"
      BY <1>0, <2>0, <3>1 DEF next, RequestRec
    <3> QED
      BY <1>0, <2>0, <3>2 DEF Records, Fetches
  <2>7. CASE Becomes(r, next) /\ (req[r].gone \/ disk[o][n] = "none")
    <3>1. req'[r] = next
      <4> HIDE DEF next
      <4> QED
        BY <2>7, RecordBecomes
    <3>2. /\ req'[r].pc = "fetch" /\ req'[r].obj = o /\ req'[r].gone = req[r].gone
          /\ req'[r].answer = "none" /\ req'[r].todo = req[r].todo \ {n}
      BY <1>0, <2>0, <3>1 DEF RequestRec
    <3>3. Readable(o) /\ ~req[r].gone => Found(o, req[r].todo \ {n})
      <4> SUFFICES ASSUME Readable(o), ~req[r].gone
                   PROVE  Found(o, req[r].todo \ {n})
        OBVIOUS
      <4>1. Found(o, req[r].todo)
        BY <2>0 DEF Finds
      <4>2. n \notin Whole(o)
        BY <2>7 DEF Whole
      <4> QED
        BY <4>1, <4>2 DEF Found
    <3> QED
      BY <1>0, <2>0, <3>2, <3>3 DEF Records, Fetches
  <2> QED
    BY <2>1, <2>3, <2>4, <2>5, <2>6, <2>7
<1> QED
  BY <1>3, <1>4, <1>5

LEMMA RequestRecords ==
    ASSUME AllCalm, RequestTypes, RecordsOK, NEW r \in Request, APIStep(r)
    PROVE  Records(r)
BY WritersIdle, LoadRecords, DownloadRecords DEF APIStep, Records

(* An object is uploaded by one request, which no other part knows of.     *)
LEMMA CommittedIsNew ==
    ASSUME CoordinatorInv, AllCalm, NEW r \in Request, NEW o \in Object,
           Committed(r, o), UNCHANGED rm
    PROVE  /\ GoodRows(o)' /\ rm.obj # o
           /\ \A s \in Request \ {r} : req[s].obj = o => req[s].pc = "done"
<1>1. /\ RequestsOwn /\ RecordOK(req[r]) /\ req[r].ok \subseteq Node
      /\ req[r].pc = "commit" /\ req[r].obj = o /\ faults["rot"] = 0
  BY TypesAre DEF CoordinatorInv, RelyOnRows, RecordsOK, RequestTypes, RequestRec,
     Committed, AllCalm, Calm, FaultKind
<1>2. /\ Fresh(o) /\ req[r].ok # {}
      /\ \A s \in Request \ {r} : req[s].obj = o => req[s].pc = "done"
      /\ \A n \in req[r].ok : disk[o][n] = "good"
  BY <1>1 DEF RequestsOwn, Uploads, Acked, StorePc, RecordOK
<1>3. Holders(o)' = req[r].ok
  <2>1. Holders(o)' = {n \in Node : replica'[o][n] = "HEALTHY"}
    BY DEF Holders, RowsWith
  <2> QED
    BY <1>1, <2>1 DEF Committed
<1>4. rm.obj # o
  BY <1>2 DEF Fresh
<1>5. Whole(o)' = req[r].ok
  BY <1>2, <1>3 DEF Whole, Committed
<1>6. GoodRows(o)'
  BY <1>2, <1>3, <1>4, <1>5 DEF GoodRows, Purged, Committed
<1> QED
  BY <1>2, <1>4, <1>6

LEMMA ServesKeepCalm == CoordinatorInv /\ CalmInv /\ Serves => CalmInv'
<1> SUFFICES ASSUME CoordinatorInv, CalmInv, Serves, Calm'
             PROVE  Peace' /\ RowsAreGood' /\ Plans' /\ Readers'
  BY DEF CalmInv
<1>1. PICK r \in Request : APIStep(r)
  BY DEF Serves
<1>2. /\ UNCHANGED <<she, rm>> /\ RequestTypes /\ RecordsOK /\ OwnVariables
  BY TypesAre DEF Serves, CoordinatorInv
<1>3. /\ OneRequest(r) /\ Costs(0)
      /\ \/ Places(r) \/ Looks(r) \/ Goes(r)
         \/ \E n \in Node : StoresOn(r, n)
         \/ \E n \in Node : PurgesOn(r, n)
         \/ Commits(r) \/ Deletes(r)
  BY <1>1, <1>2, RequestShapes
<1>4. AllCalm
  BY <1>3, CalmAround
<1>5. Frame(r)
  BY <1>3, <1>4, RequestFrame
<1>6. Records(r)
  BY <1>1, <1>2, <1>4, RequestRecords
<1>7. UNCHANGED nodeStatus
  BY <1>1, RequestsLeaveNodes
<1>8. \A s \in Request : s # r => req'[s] = req[s]
  BY <1>3 DEF OneRequest
<1>9. Wanted' = Wanted
  BY DEF Wanted
<1>10. Peace'
  <2>1. req'[r].pc # "cleanup"
    BY <1>6 DEF Records, Idles, Opens, Fetches, GivesUp
  <2>2. \A s \in Request : req'[s].pc # "cleanup"
    BY <1>4, <1>8, <2>1 DEF AllCalm, Peace
  <2> QED
    BY <1>2, <1>4, <1>5, <1>7, <2>2 DEF AllCalm, Peace, Frame
<1>11. ASSUME NEW o \in Object, Readable(o)'
       PROVE  \/ Readable(o) /\ Alike(o)
              \/ /\ Committed(r, o) /\ GoodRows(o)' /\ rm.obj # o
                 /\ \A s \in Request \ {r} : req[s].obj = o => req[s].pc = "done"
  <2>1. (Readable(o) /\ Alike(o)) \/ Committed(r, o)
    BY <1>5, <1>11 DEF Frame
  <2>2. CASE Committed(r, o)
    BY <1>2, <1>4, <2>2, CommittedIsNew
  <2> QED
    BY <2>1, <2>2
<1>12. RowsAreGood'
  <2> SUFFICES ASSUME NEW o \in Object, Readable(o)'
               PROVE  GoodRows(o)'
    BY DEF RowsAreGood
  <2>1. CASE Readable(o) /\ Alike(o)
    <3>1. GoodRows(o) /\ \A n : Purged(o, n)' <=> Purged(o, n)
      BY <1>2, <1>4, <2>1 DEF AllCalm, RowsAreGood, Purged
    <3> QED
      BY <2>1, <3>1, GoodStays
  <2> QED
    BY <1>11, <2>1
<1>13. Plans'
  <2>1. rm.pc \in {"count", "sync", "upRows", "upPlace", "downList"} =>
          rm.target = Wanted
    BY <1>4 DEF AllCalm, Plans
  <2>2. PICK o : o = rm.obj
    OBVIOUS
  <2>3. ASSUME rm.pc \notin {"idle", "objects"}, Readable(o)'
        PROVE  Growing(o)' /\ Shrinking(o)'
    <3>1. o \in Object
      BY <1>2, <2>2, <2>3 DEF OwnVariables
    <3>2. Readable(o) /\ Alike(o)
      BY <1>11, <2>2, <2>3, <3>1
    <3>3. Growing(o) /\ Shrinking(o)
      BY <1>4, <2>2, <2>3, <3>2 DEF AllCalm, Plans
    <3>4. rm.pc = "upInsert" => rm.node \in Node
      BY <1>2 DEF OwnVariables
    <3>5. Growing(o)'
      BY <1>2, <1>9, <3>2, <3>3, <3>4 DEF Growing, Alike
    <3>6. Shrinking(o)'
      BY <1>2, <1>9, <3>2, <3>3 DEF Shrinking, Alike
    <3> QED
      BY <3>5, <3>6
  <2>4. rm'.obj = o
    BY <1>2, <2>2
  <2>5. rm'.pc \notin {"idle", "objects"} /\ Readable(rm.obj)' =>
          Growing(rm.obj)' /\ Shrinking(rm.obj)'
    BY <1>2, <2>3, <2>4
  <2> QED
    BY <1>2, <1>9, <2>1, <2>5 DEF Plans
<1>14. ASSUME NEW s \in Request, NEW o, o = req'[s].obj
       PROVE  /\ req'[s].pc \in DownloadPc => Exists(o)' \/ Deleting(o)'
              /\ req'[s].pc = "fetch" => Finds(s)'
              /\ req'[s].answer \in {"unavailable", "corrupt"} =>
                   req'[s].gone \/ Deleting(o)'
  <2>1. \A a : Deleting(a) => Deleting(a)'
    BY <1>5 DEF Frame
  <2>2. req'[s].pc \in DownloadPc => o \in Object
    <3>1. RecordOK(req'[s])
      BY <1>2, <1>3, <1>8 DEF OneRequest, RecordsOK
    <3> QED
      BY <1>14, <3>1 DEF RecordOK
  <2>3. \A a \in Object : Exists(a) \/ Deleting(a) => Exists(a)' \/ Deleting(a)'
    BY <1>5 DEF Frame
  <2>4. CASE s # r
    <3>1. req'[s] = req[s]
      BY <1>8, <2>4
    <3>2. /\ req[s].pc \in DownloadPc => Exists(o) \/ Deleting(o)
          /\ req[s].pc = "fetch" => Finds(s)
          /\ req[s].answer \in {"unavailable", "corrupt"} =>
               req[s].gone \/ Deleting(o)
          /\ req[s].todo \subseteq Node
      BY <1>2, <1>4, <1>14, <3>1 DEF AllCalm, Readers, RequestTypes, RequestRec
    <3>3. ASSUME req[s].pc = "fetch"
          PROVE  Finds(s)'
      <4>1. o \in Object
        BY <2>2, <3>1, <3>3 DEF DownloadPc
      <4>2. CASE Readable(o)'
        <5>1. Readable(o) /\ Alike(o)
          BY <1>11, <1>14, <2>4, <3>1, <3>3, <4>1, <4>2
        <5>2. /\ Readable(req[s].obj)' => Readable(req[s].obj)
              /\ Moves(req[s].obj)
          BY <1>14, <3>1, <5>1 DEF Moves
        <5> QED
          BY <1>4, <3>1, <3>2, <3>3, <5>2, FindsStill DEF AllCalm
      <4>3. CASE ~Readable(o)'
        <5>1. ~Readable(req[s].obj)'
          BY <1>14, <4>3
        <5> QED
          BY <5>1 DEF Finds
      <4> QED
        BY <4>2, <4>3
    <3> QED
      BY <2>1, <2>2, <2>3, <3>1, <3>2, <3>3
  <2>5. CASE s = r
    <3> DEFINE rec == req'[r]
    <3>1. CASE Idles(rec)
      BY <2>5, <3>1 DEF Idles, DownloadPc
    <3>2. CASE Opens(rec)
      BY <1>14, <2>2, <2>3, <2>5, <3>2 DEF Opens, DownloadPc
    <3>3. CASE GivesUp(r, rec)
      BY <1>14, <2>1, <2>5, <3>3 DEF GivesUp, DownloadPc
    <3>4. CASE Fetches(r, rec)
      <4>1. /\ rec.pc = "fetch" /\ rec.answer = "none" /\ o = req[r].obj
            /\ UNCHANGED <<factor, replica, disk>> /\ req[r].pc \in DownloadPc
            /\ Readable(o) /\ ~rec.gone => Found(o, rec.todo)
        BY <1>14, <2>5, <3>4 DEF Fetches
      <4>2. o \in Object
        BY <2>2, <2>5, <4>1 DEF DownloadPc
      <4>3. Exists(o) \/ Deleting(o)
        BY <1>4, <4>1 DEF AllCalm, Readers
      <4>4. Readable(o)' => Readable(o)
        BY <2>1, <4>1 DEF Readable, Exists
      <4>5. Holders(o)' = Holders(o) /\ Whole(o)' = Whole(o)
        BY <4>1 DEF Holders, RowsWith, Whole
      <4>6. \A S : Found(o, S)' <=> Found(o, S)
        BY <1>9, <4>1, <4>5 DEF Found
      <4>7. PICK S : S = req'[r].todo
        OBVIOUS
      <4>8. Readable(o)' /\ ~req'[r].gone => Found(o, S)'
        BY <4>1, <4>4, <4>6, <4>7
      <4>9. Readable(req[r].obj)' /\ ~req'[r].gone => Found(req[r].obj, req[r].todo)'
        BY <1>14, <2>5, <4>7, <4>8
      <4>10. Finds(r)'
        BY <4>9 DEF Finds
      <4> QED
        BY <2>3, <2>5, <4>1, <4>2, <4>3, <4>10
    <3> QED
      BY <1>6, <3>1, <3>2, <3>3, <3>4 DEF Records
  <2> QED
    BY <2>4, <2>5
<1>15. Readers'
  BY <1>14 DEF Readers
<1> QED
  BY <1>10, <1>12, <1>13, <1>15

-----------------------------------------------------------------------------
(* At the start all rows have their files, and nobody has begun.           *)
LEMMA StartsCalm == CoordinatorInit => CalmInv
<1> SUFFICES ASSUME CoordinatorInit PROVE CalmInv
  OBVIOUS
<1>1. /\ she = SHEIdle /\ late = {} /\ rm.pc = "idle"
      /\ \A n \in Node : nodeStatus[n] = "ONLINE"
      /\ \A r \in Request : req[r].pc = "new" /\ req[r].answer = "none"
  BY DEF CoordinatorInit, Uploaded, SHEInit, RMInit, RMIdle, APIInit
<1>2. Peace
  BY <1>1 DEF Peace
<1>3. Plans
  BY <1>1 DEF Plans
<1>4. Readers
  BY <1>1 DEF Readers, DownloadPc
<1>5. RowsAreGood
  <2>1. PICK holders \in [Object -> SUBSET Node] :
          /\ \A a \in Object : Exists(a) => holders[a] # {}
          /\ replica = [a \in Object |-> [n \in Node |->
                           IF n \in holders[a] THEN "HEALTHY" ELSE "NONE"]]
          /\ disk = [a \in Object |-> [n \in Node |->
                           IF n \in holders[a] THEN "good" ELSE "none"]]
    BY DEF CoordinatorInit, Uploaded
  <2> SUFFICES ASSUME NEW o \in Object, Readable(o) PROVE GoodRows(o)
    BY DEF RowsAreGood
  <2>2. \A n \in Node : /\ replica[o][n] = "HEALTHY" <=> n \in holders[o]
                        /\ disk[o][n] = "good" <=> n \in holders[o]
    BY <2>1
  <2>3. Holders(o) = holders[o] /\ Whole(o) = holders[o]
    BY <2>2 DEF Holders, RowsWith, Whole
  <2>4. holders[o] # {} /\ \A n : ~Purged(o, n)
    BY <1>1, <2>1 DEF Readable, Purged
  <2> QED
    BY <2>2, <2>3, <2>4 DEF GoodRows
<1> QED
  BY <1>2, <1>3, <1>4, <1>5 DEF CalmInv

LEMMA StepKeepsCalm ==
    CoordinatorInv /\ CalmInv /\ [CoordinatorNext]_CoordinatorVars => CalmInv'
BY HealsKeepCalm, ScalesKeepCalm, ServesKeepCalm, RestartKeepsCalm,
   EnvironmentKeepsCalm, CalmStutters DEF CoordinatorNext

(* While nothing fails and the tier is steady, a download of an object     *)
(* that nobody deletes is served, however uploads and the manager's        *)
(* scaling move its replicas under the list that the download goes by; but *)
(* for one whose client has left.                                          *)
THEOREM DownloadsSucceedWhileScaling == CoordinatorSpec => []DownloadsSurviveScaling
<1>1. CalmInv => DownloadsSurviveScaling
  BY DEF CalmInv, Calm, Readers, DownloadsSurviveScaling
<1> QED
  BY <1>1, StartsCalm, StepKeepsCalm, CoordinatorInvariant, PTL DEF CoordinatorSpec
=============================================================================
