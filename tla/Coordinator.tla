---------------------------- MODULE Coordinator ----------------------------
(***************************************************************************)
(* The coordinator process (cmd/coordinator/main.go): the self-healing     *)
(* engine, the replication manager and the request handlers, goroutines of *)
(* one process that share nothing but the metadata and the storage nodes.  *)
(* No lock or transaction spans two of their steps: the inProgress maps of *)
(* the two loops are separate, and no row is selected FOR UPDATE.          *)
(***************************************************************************)
EXTENDS SelfHealing, Replication, ObjectAPI

CoordinatorVars == <<clusterVars, she, rm, apiVars>>

CoordinatorInit == Uploaded /\ SHEInit /\ RMInit /\ APIInit

Heals == SHEStep /\ UNCHANGED <<rm, apiVars>>
Scales == RMStep /\ UNCHANGED <<she, apiVars>>
Serves == (\E r \in Request : APIStep(r)) /\ UNCHANGED <<she, rm>>

(* The process dies and starts again: all goroutines lose their state.     *)
Restart ==
    /\ Inject("crash")
    /\ she' = SHEIdle /\ rm' = RMIdle /\ req' = Interrupted /\ listed' = {}
    /\ \E one \in AtMostOne(SHEInFlight), another \in AtMostOne(RMInFlight),
          calls \in Orphans : late' = late \cup one \cup another \cup calls
    /\ UNCHANGED <<factor, replica, nodeStatus, disk, issued>>

CoordinatorNext ==
    \/ Heals \/ Scales \/ Serves
    \/ Restart
    \/ Environment /\ UNCHANGED <<she, rm, apiVars>>

CoordinatorSpec == CoordinatorInit /\ [][CoordinatorNext]_CoordinatorVars

(* The Go scheduler and the tickers serve each goroutine.                  *)
CoordinatorFairSpec ==
    /\ CoordinatorSpec
    /\ WF_CoordinatorVars(Heals) /\ WF_CoordinatorVars(Scales)
    /\ WF_CoordinatorVars(Serves)

CoordinatorTypeOK == SHTypeOK /\ RMTypeOK /\ APITypeOK

-----------------------------------------------------------------------------
(* Properties.                                                             *)

(* A Delete has got past its first read, whatever became of it.  (Requests *)
(* that are no upload keep the factor 0.)                                  *)
Deleting(o) ==
    \E r \in Request :
        /\ "delete" \in Kinds /\ req[r].obj = o /\ req[r].factor = 0
        /\ req[r].pc \in DeletePc \/ req[r].answer \in {"deleted", "failed", "lost"}

(* An upload that saw its commit fail removes what it has stored, and does *)
(* so even when the commit had gone through.                               *)
Withdrawn(o) ==
    \E r \in Request :
        /\ req[r].obj = o /\ req[r].factor # 0
        /\ req[r].pc = "cleanup" \/ req[r].answer \in {"failed", "lost"}

(* Goroutines that know nothing of each other never take an object's last  *)
(* bytes between them: as long as there are fewer mishaps than MinRF, some *)
(* node keeps a good file of every object that is not being removed by a   *)
(* request, whatever nodes come and go.  A restart counts twice, for it    *)
(* cuts short the step of both loops.                                      *)
BytesOutlive ==
    faults["rot"] = 0 /\ Mishaps + faults["crash"] < MinRF =>
        \A o \in {p \in Object : Exists(p)} :
            \/ Deleting(o) \/ Withdrawn(o)
            \/ \E n \in Node : disk[o][n] = "good"

(* A download works on a list of replicas that may be old: meanwhile       *)
(* scale-downs purge chunks and scale-ups add some it has not listed.      *)
(* While nothing fails, the tier is steady and at least one replica is to  *)
(* be kept, they leave it one that it can read.                            *)
DownloadsSurviveScaling ==
    Cardinality(Tiers) = 1 /\ MinRF > 0 /\ (\A k \in FaultKind : faults[k] = 0) =>
        \A r \in Request :
            req[r].answer \in {"unavailable", "corrupt"} =>
                req[r].gone \/ Deleting(req[r].obj)

(* Claimed by the comments of the code, and refuted by what it does.       *)

(* "A recovered replica is only marked HEALTHY after its SHA-256 checksum  *)
(* has been verified against the authoritative object record"              *)
(* (self_healing.go:69-70): the node of a row that turns HEALTHY holds the *)
(* bytes.  The undo of a scale-up to the same node may have removed them.  *)
RecoveredMeansVerified ==
    [][\A o \in Object, n \in Node :
          replica[o][n] = "RECOVERING" /\ replica'[o][n] = "HEALTHY"
              => disk[o][n] = "good"]_CoordinatorVars
=============================================================================
