----------------------------- MODULE ObjectAPI -----------------------------
(***************************************************************************)
(* The coordinator's request handlers that touch replicas: Upload          *)
(* (object_upload_handler.go), Delete (object_delete_handler.go) and       *)
(* Download (object_download_handler.go).  Each request is a goroutine of  *)
(* its own; several run at once, for the same object too.  Every database  *)
(* access and every call to a storage node is a step.                      *)
(*                                                                         *)
(* All calls carry the context of the request: when the client goes away,  *)
(* the one under way ends in an error and those that follow are not sent,  *)
(* while the database statements, which carry no context, go on.           *)
(***************************************************************************)
EXTENDS Cluster

CONSTANTS
    Request,    \* the requests of a behaviour
    Kinds       \* what they may ask for

ASSUME KindsAssumption ==
    /\ Kinds \subseteq {"upload", "delete", "download",
                        "register", "login", "logs", "list"}
    /\ IsFiniteSet(Request)

VARIABLES
    req,      \* per request, the handler's control state and locals
    issued    \* object ids given out so far by uuid.New()

apiVars == <<req, issued>>

StorePc == {"store", "commit"}   \* before the object is in the metadata
UploadPc == StorePc \cup {"cleanup"}
DeletePc == {"listRows", "purge", "delete"}
DownloadPc == {"listHealthy", "fetch"}
(* The answers, "lost" when the coordinator died, "elsewhere" when another  *)
(* module than this one tells what it was.                                 *)
Answer == {"created", "deleted", "served", "corrupt", "unavailable",
           "notFound", "failed", "lost", "elsewhere"}

APITypeOK ==
    /\ req \in [Request ->
                  [pc: {"new", "done", "elsewhere"}
                          \cup UploadPc \cup DeletePc \cup DownloadPc,
                   obj: Object \cup {NoObject},
                   factor: Nat,
                   todo: SUBSET Node,    \* nodes still to be called
                   ok: SUBSET Node,      \* successfulNodes of an upload
                   gone: BOOLEAN,        \* the client has disconnected
                   answer: Answer \cup {"none"}]]
    /\ issued \subseteq Object

APIInit ==
    /\ req = [r \in Request |->
                [pc |-> "new", obj |-> NoObject, factor |-> 0, todo |-> {},
                 ok |-> {}, gone |-> FALSE, answer |-> "none"]]
    /\ issued = {o \in Object : Exists(o)}

ReqAt(r, pc) == req[r].pc = pc
Answered(r, a) == [req[r] EXCEPT !.pc = "done", !.todo = {}, !.ok = {},
                                 !.answer = a]
Becomes(r, rec) == req' = [req EXCEPT ![r] = rec]

(* A request is taken up by a handler that has no part in this module, and  *)
(* is answered by it.                                                      *)
TakenUp(r) == Becomes(r, [req[r] EXCEPT !.pc = "elsewhere"])
Answers(r) == Becomes(r, Answered(r, "elsewhere"))

(* A call that fails: on its own, or because its client disconnects, after *)
(* which no call of the request is sent any more.                          *)
CallLost(r, n, rec) ==
    \/ CallFails(n) /\ Becomes(r, rec)
    \/ NoFault /\ Becomes(r, [rec EXCEPT !.gone = TRUE])

(* One that changes the node's files: it leaves one of the outcomes, or    *)
(* its handler goes on without the request.                                *)
WriteLost(r, n, op, outcomes, rec) ==
    \/ /\ CallLost(r, n, rec)
       /\ \E d \in outcomes : SetDisk(req[r].obj, n, d)
       /\ UNCHANGED late
    \/ /\ GivenUp(req[r].obj, n, op)
       /\ \E left \in BOOLEAN : Becomes(r, [rec EXCEPT !.gone = left])

-----------------------------------------------------------------------------
(* Upload.                                                                 *)

(* SelectNodes, then uuid.New(): all the nodes asked for, or status 503.   *)
UploadPlace(r) ==
    /\ ReqAt(r, "new") /\ "upload" \in Kinds
    /\ \E o \in Object \ issued, f \in Factors :
        LET answers == SelectNodes(f, {})
        IN  \/ /\ \/ answers = {} /\ NoFault
                  \/ Inject("db")
               /\ Becomes(r, Answered(r, "failed"))
               /\ UNCHANGED issued
            \/ \E S \in answers :
                 /\ Becomes(r, [req[r] EXCEPT !.pc = "store", !.obj = o,
                                              !.factor = f, !.todo = S])
                 /\ issued' = issued \cup {o}
                 /\ NoFault
    /\ UNCHANGED <<factor, replica, nodeStatus, disk, late, listed>>

(* Mutant of UploadStore: a node counts as successful whatever it answers. *)
UploadStoreUnchecked(r) ==
    /\ ReqAt(r, "store")
    /\ \E n \in req[r].todo :
        LET next == [req[r] EXCEPT !.todo = @ \ {n}, !.ok = @ \cup {n}]
        IN  \/ StoreChunk(req[r].obj, n) /\ Becomes(r, next)
            \/ WriteLost(r, n, "store", DiskState, next)
    /\ UNCHANGED <<factor, replica, nodeStatus, listed, issued>>

UploadStore(r) ==
    /\ ReqAt(r, "store")
    /\ \E n \in req[r].todo :
        LET next == [req[r] EXCEPT !.todo = @ \ {n}]
        IN  \/ /\ ~req[r].gone /\ StoreChunk(req[r].obj, n)
               /\ Becomes(r, [next EXCEPT !.ok = @ \cup {n}])
            \/ ~req[r].gone /\ WriteLost(r, n, "store", DiskState, next)
            \/ /\ req[r].gone /\ Becomes(r, next)
               /\ UNCHANGED <<disk, late, faults>>
    /\ UNCHANGED <<factor, replica, nodeStatus, listed, issued>>

(* One acknowledged chunk is enough to go on.                              *)
UploadStored(r) ==
    /\ ReqAt(r, "store") /\ req[r].todo = {}
    /\ Becomes(r, IF req[r].ok = {} THEN Answered(r, "failed")
                  ELSE [req[r] EXCEPT !.pc = "commit"])
    /\ UNCHANGED <<clusterVars, issued>>

(* Mutant of UploadCommit: the rows are given the status of their node.    *)
UploadCommitNodeStatus(r) ==
    /\ ReqAt(r, "commit")
    /\ factor' = [factor EXCEPT ![req[r].obj] = req[r].factor]
    /\ replica' = [replica EXCEPT ![req[r].obj] =
                     [n \in Node |-> IF n \in req[r].ok THEN nodeStatus[n]
                                     ELSE "NONE"]]
    /\ Becomes(r, Answered(r, "created"))
    /\ UNCHANGED <<nodeStatus, disk, late, listed, faults, issued>>

(* The object and a HEALTHY row for every successful node, in one          *)
(* transaction; any error is followed by the deletion of the chunks.       *)
UploadCommit(r) ==
    /\ ReqAt(r, "commit")
    /\ LET o == req[r].obj
       IN  \E out \in TxOutcome :
             /\ TxCost(out)
             /\ IF out = "rolledBack" THEN UNCHANGED <<factor, replica>>
                ELSE /\ factor' = [factor EXCEPT ![o] = req[r].factor]
                     /\ replica' = [replica EXCEPT ![o] =
                          [n \in Node |-> IF n \in req[r].ok THEN "HEALTHY"
                                          ELSE "NONE"]]
             /\ Becomes(r, IF out = "committed" THEN Answered(r, "created")
                           ELSE [req[r] EXCEPT !.pc = "cleanup"])
    /\ UNCHANGED <<nodeStatus, disk, late, listed, issued>>

(* DELETE to one node, its error ignored.                                  *)
Purge(r, n, next) ==
    LET o == req[r].obj
    IN  \/ ~req[r].gone /\ DeleteChunk(o, n) /\ Becomes(r, next)
        \/ /\ ~req[r].gone
           /\ WriteLost(r, n, "delete", {"none", disk[o][n]}, next)
        \/ req[r].gone /\ Becomes(r, next) /\ UNCHANGED <<disk, late, faults>>

UploadCleanup(r) ==
    /\ ReqAt(r, "cleanup")
    /\ \E n \in req[r].ok : Purge(r, n, [req[r] EXCEPT !.ok = @ \ {n}])
    /\ UNCHANGED <<factor, replica, nodeStatus, listed, issued>>

UploadCleaned(r) ==
    /\ ReqAt(r, "cleanup") /\ req[r].ok = {}
    /\ Becomes(r, Answered(r, "failed"))
    /\ UNCHANGED <<clusterVars, issued>>

-----------------------------------------------------------------------------
(* Delete.                                                                 *)

(* GetObjectByID of Delete and Download: any error reads as "not found".   *)
LoadOrNotFound(r, pc) ==
    /\ ReqAt(r, "new")
    /\ \E o \in issued :
        \/ /\ Exists(o) /\ NoFault
           /\ Becomes(r, [req[r] EXCEPT !.pc = pc, !.obj = o])
        \/ /\ \/ ~Exists(o) /\ NoFault
              \/ Inject("db")
           /\ Becomes(r, [Answered(r, "notFound") EXCEPT !.obj = o])
    /\ UNCHANGED <<factor, replica, nodeStatus, disk, late, listed, issued>>

DeleteLoad(r) == "delete" \in Kinds /\ LoadOrNotFound(r, "listRows")

(* GetReplicasByObject; an error is a warning and leaves no row to purge.  *)
DeleteListRows(r) ==
    /\ ReqAt(r, "listRows")
    /\ \E rows \in {ReplicaRows(req[r].obj), {}} :
        /\ Becomes(r, [req[r] EXCEPT !.pc = "purge", !.todo = rows])
        /\ IF rows = ReplicaRows(req[r].obj) THEN NoFault ELSE Inject("db")
    /\ UNCHANGED <<factor, replica, nodeStatus, disk, late, listed, issued>>

(* Mutant of DeletePurge: the loop ends with the first node.               *)
DeletePurgeFirst(r) ==
    /\ ReqAt(r, "purge")
    /\ \E n \in req[r].todo : Purge(r, n, [req[r] EXCEPT !.todo = {}])
    /\ UNCHANGED <<factor, replica, nodeStatus, listed, issued>>

(* GetNodeByID may fail, which skips the node.                             *)
DeletePurge(r) ==
    /\ ReqAt(r, "purge")
    /\ \E n \in req[r].todo :
        LET next == [req[r] EXCEPT !.todo = @ \ {n}]
        IN  \/ Purge(r, n, next)
            \/ Inject("db") /\ Becomes(r, next) /\ UNCHANGED <<disk, late>>
    /\ UNCHANGED <<factor, replica, nodeStatus, listed, issued>>

DeletePurged(r) ==
    /\ ReqAt(r, "purge") /\ req[r].todo = {}
    /\ Becomes(r, [req[r] EXCEPT !.pc = "delete"])
    /\ UNCHANGED <<clusterVars, issued>>

(* Deleting no row at all is an error, too.                                *)
DeleteObject(r) ==
    /\ ReqAt(r, "delete")
    /\ LET o == req[r].obj
       IN  IF Exists(o)
           THEN \E out \in TxOutcome :
                  /\ TxCost(out)
                  /\ IF out = "rolledBack"
                     THEN UNCHANGED <<factor, replica, listed>>
                     ELSE DeleteObjectRow(o)
                  /\ Becomes(r, Answered(r, IF out = "committed"
                                            THEN "deleted" ELSE "failed"))
           ELSE /\ Becomes(r, Answered(r, "failed"))
                /\ UNCHANGED <<factor, replica, listed, faults>>
    /\ UNCHANGED <<nodeStatus, disk, late, issued>>

-----------------------------------------------------------------------------
(* Download.                                                               *)

DownloadLoad(r) ==
    "download" \in Kinds /\ LoadOrNotFound(r, "listHealthy")

DownloadListHealthy(r) ==
    /\ ReqAt(r, "listHealthy")
    /\ LET found == HealthyReplicas(req[r].obj)
       IN  \/ /\ NoFault
              /\ Becomes(r, IF found = {} THEN Answered(r, "unavailable")
                            ELSE [req[r] EXCEPT !.pc = "fetch", !.todo = found])
           \/ Inject("db") /\ Becomes(r, Answered(r, "unavailable"))
    /\ UNCHANGED <<factor, replica, nodeStatus, disk, late, listed, issued>>

(* Mutant of DownloadFetch: no failover to another replica.                *)
DownloadFetchFirst(r) ==
    /\ ReqAt(r, "fetch")
    /\ \E n \in req[r].todo :
        Becomes(r, Answered(r, IF /\ nodeStatus[n] = "ONLINE"
                                  /\ disk[req[r].obj][n] = "good"
                               THEN "served" ELSE "unavailable"))
    /\ UNCHANGED <<clusterVars, issued>>

(* The first node that is still ONLINE and answers 200 decides: its bytes  *)
(* are served when the checksum agrees; a mismatch or a broken stream is   *)
(* the answer, the other replicas are not asked.                           *)
DownloadFetch(r) ==
    /\ ReqAt(r, "fetch")
    /\ \E n \in req[r].todo :
        LET held == disk[req[r].obj][n]
            next == [req[r] EXCEPT !.todo = @ \ {n}]
            asked == nodeStatus[n] = "ONLINE" /\ ~req[r].gone
        IN  \/ /\ asked /\ held = "good" /\ NoFault
               /\ Becomes(r, Answered(r, "served"))
            \/ /\ asked /\ held = "bad" /\ NoFault
               /\ Becomes(r, Answered(r, "corrupt"))
            \/ /\ asked /\ held # "none"
               /\ CallLost(r, n, Answered(r, "unavailable"))
            \/ /\ \/ nodeStatus[n] = "OFFLINE" \/ req[r].gone
                  \/ held = "none"
               /\ NoFault /\ Becomes(r, next)
            \/ asked /\ CallLost(r, n, next)
            \/ Inject("db") /\ Becomes(r, next)
    /\ UNCHANGED <<factor, replica, nodeStatus, disk, late, listed, issued>>

DownloadExhausted(r) ==
    /\ ReqAt(r, "fetch") /\ req[r].todo = {}
    /\ Becomes(r, Answered(r, "unavailable"))
    /\ UNCHANGED <<clusterVars, issued>>

-----------------------------------------------------------------------------
APIStep(r) ==
    \/ UploadPlace(r) \/ UploadStore(r) \/ UploadStored(r) \/ UploadCommit(r)
    \/ UploadCleanup(r) \/ UploadCleaned(r)
    \/ DeleteLoad(r) \/ DeleteListRows(r) \/ DeletePurge(r) \/ DeletePurged(r)
    \/ DeleteObject(r)
    \/ DownloadLoad(r) \/ DownloadListHealthy(r) \/ DownloadFetch(r)
    \/ DownloadExhausted(r)

(* The coordinator dies with the requests it is working on.                *)
Interrupted ==
    [r \in Request |-> IF req[r].pc \in {"new", "done"} THEN req[r]
                       ELSE Answered(r, "lost")]

InFlight(r) ==
    {<<req[r].obj, n, "store">> : n \in {m \in req[r].todo : ReqAt(r, "store")}}
    \cup {<<req[r].obj, n, "delete">> : n \in
             {m \in req[r].todo : ReqAt(r, "purge")} \cup
             {m \in req[r].ok : ReqAt(r, "cleanup")}}

(* What the requests of a dying process may leave running: at most the one *)
(* call that each waits for.                                               *)
Orphans ==
    {calls \in SUBSET UNION {InFlight(r) : r \in Request} :
        \E by \in [calls -> Request] :
            /\ \A c \in calls : c \in InFlight(by[c])
            /\ \A c, d \in calls : by[c] = by[d] => c = d}

CrashAPI ==
    /\ \E r \in Request : req[r].pc \notin {"new", "done"}
    /\ Inject("crash")
    /\ req' = Interrupted
    /\ \E calls \in Orphans : late' = late \cup calls
    /\ UNCHANGED <<factor, replica, nodeStatus, disk, listed, issued>>

APIVars == <<clusterVars, apiVars>>

APINext == \/ \E r \in Request : APIStep(r)
           \/ CrashAPI
           \/ Environment /\ UNCHANGED apiVars

ObjectAPIInit == Uploaded /\ APIInit

APISpec == ObjectAPIInit /\ [][APINext]_APIVars

ObjectAPITypeOK == ClusterTypeOK /\ APITypeOK

-----------------------------------------------------------------------------
(* Properties.                                                             *)

BeingDeleted(o) == \E r \in Request : req[r].obj = o /\ req[r].pc \in DeletePc
BeingUploaded(o) == \E r \in Request : req[r].obj = o /\ req[r].pc \in UploadPc

(* Objects with a HEALTHY row that has no good bytes behind it.  Whatever  *)
(* calls are lost, clients leave and nodes fail, each of them is being     *)
(* deleted or is the price of a failed metadata write or a crash: an       *)
(* upload records the nodes that acknowledged its chunk and no other.      *)
Hollow == {o \in Object : \E n \in Node :
              replica[o][n] = "HEALTHY" /\ disk[o][n] # "good"}
HollowObjectsArePaidFor ==
    faults["rot"] = 0 =>
        Cardinality({o \in Hollow : ~BeingDeleted(o)})
            <= faults["db"] + faults["crash"] * Cardinality(Request)

(* The request of an object ran into nothing: no fault, no client lost.    *)
Undisturbed(o) ==
    /\ \A k \in FaultKind : faults[k] = 0
    /\ \A r \in Request : req[r].obj = o => ~req[r].gone

(* Without a disturbance a file belongs to a row or to an upload under     *)
(* way, whatever requests interleave: nothing is left on any node by an    *)
(* object that was deleted, or that was never stored.                      *)
FilesHaveOwners ==
    \A o \in Object, n \in Node :
        Undisturbed(o) /\ disk[o][n] # "none" =>
            replica[o][n] # "NONE" \/ BeingUploaded(o)

(* Failover: while statements and the network work, files do not decay and *)
(* its client stays, a download of an object nobody is deleting fails only *)
(* if every node with a HEALTHY row has been out.                          *)
DownloadSucceeds ==
    \A r \in Request :
        /\ req[r].answer \in {"unavailable", "corrupt"}
        /\ \A k \in FaultKind \ {"outage"} : faults[k] = 0
        /\ ~req[r].gone
        => \/ BeingDeleted(req[r].obj)
           \/ Cardinality(RowsWith(req[r].obj, "HEALTHY")) <= faults["outage"]
=============================================================================
