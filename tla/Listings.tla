------------------------------ MODULE Listings ------------------------------
(***************************************************************************)
(* The paginated reads: GET /api/logs (monitoring_handler.go SystemLogs)   *)
(* and GET /api/objects and /api/objects/search                            *)
(* (object_download_handler.go List and Search).  A client walks through   *)
(* the pages with LIMIT and OFFSET; every page is a query of its own, so   *)
(* the table moves under the walk.  A request of this module is a walk.    *)
(***************************************************************************)
EXTENDS Accounts

CONSTANTS
    PageSize,      \* limit, after the default and the cap
    Queries,       \* per query, the objects it matches; all of them in List
    UploadTime     \* objects.upload_time, which the handler takes from its clock

ASSUME ListingsAssumption ==
    /\ PageSize \in Nat \ {0} /\ Queries \subseteq SUBSET Object
    /\ UploadTime \in [Object -> Nat]
    /\ \A o, p \in Object : UploadTime[o] = UploadTime[p] => o = p

VARIABLES
    logWalk,   \* per request, its walk through system_logs
    objWalk    \* per request, its walk through objects

listingVars == <<logWalk, objWalk>>

LogWalk == [pc: {"none", "page", "count", "end"},
            offset: Nat, got: Nat,   \* got: entries on this page
            seen: SUBSET Nat,        \* entries on the pages so far
            before: Nat]             \* entries there were at the start
ObjWalk == [pc: {"none", "page", "end"},
            offset: Nat,
            query: SUBSET Object, seen: SUBSET Object, before: SUBSET Object]

ListingsTypeOK ==
    /\ logWalk \in [Request -> LogWalk]
    /\ objWalk \in [Request -> ObjWalk]

ListingsInit ==
    /\ logWalk = [r \in Request |-> [pc |-> "none", offset |-> 0, got |-> 0,
                                     seen |-> {}, before |-> 0]]
    /\ objWalk = [r \in Request |-> [pc |-> "none", offset |-> 0, query |-> {},
                                     seen |-> {}, before |-> {}]]

LogWalks(r, rec) == logWalk' = [logWalk EXCEPT ![r] = rec]
ObjWalks(r, rec) == objWalk' = [objWalk EXCEPT ![r] = rec]

-----------------------------------------------------------------------------
(* System logs.                                                            *)

LogsBegin(r) ==
    /\ "logs" \in Kinds /\ ReqAt(r, "new")
    /\ LogWalks(r, [pc |-> "page", offset |-> 0, got |-> 0, seen |-> {},
                    before |-> logged])
    /\ TakenUp(r)
    /\ UNCHANGED <<replicaVars, faults, accountVars, objWalk>>

(* GetSystemLogs: ORDER BY timestamp DESC LIMIT .. OFFSET ..               *)
LogPage(offset) ==
    {i \in 1..logged : logged - i \in offset..(offset + PageSize - 1)}

LogsPage(r) ==
    /\ ReqAt(r, "elsewhere") /\ logWalk[r].pc = "page"
    /\ LET page == LogPage(logWalk[r].offset)
       IN  \/ /\ NoFault /\ UNCHANGED req
              /\ LogWalks(r, [logWalk[r] EXCEPT !.pc = "count",
                                  !.got = Cardinality(page),
                                  !.seen = @ \cup page])
           \/ Inject("db") /\ Answers(r) /\ UNCHANGED logWalk
    /\ UNCHANGED <<replicaVars, accountVars, objWalk>>

(* Mutant of HasMore: the bound is taken for the last index.               *)
HasMoreByIndex(walk, total) == walk.offset + walk.got + 1 < total

HasMore(walk, total) == walk.offset + walk.got < total

(* CountLogs, whose error reads as a total of 0, and the answer; the       *)
(* client goes on while has_more says so.                                  *)
LogsCount(r) ==
    /\ ReqAt(r, "elsewhere") /\ logWalk[r].pc = "count"
    /\ \E total \in {logged, 0} :
        /\ IF total = logged THEN NoFault ELSE Inject("db")
        /\ LET walk == logWalk[r]
           IN  IF HasMore(walk, total)
               THEN /\ LogWalks(r, [walk EXCEPT !.pc = "page", !.got = 0,
                                        !.offset = @ + walk.got])
                    /\ UNCHANGED req
               ELSE /\ LogWalks(r, [walk EXCEPT !.pc = "end", !.got = 0,
                                        !.offset = 0])
                    /\ Answers(r)
    /\ UNCHANGED <<replicaVars, accountVars, objWalk>>

-----------------------------------------------------------------------------
(* Objects.                                                                *)

Matches(query) == {o \in query : Exists(o)}

ListBegin(r) ==
    /\ "list" \in Kinds /\ ReqAt(r, "new")
    /\ \E query \in Queries :
        ObjWalks(r, [pc |-> "page", offset |-> 0, query |-> query,
                     seen |-> {}, before |-> Matches(query)])
    /\ TakenUp(r)
    /\ UNCHANGED <<replicaVars, faults, accountVars, logWalk>>

(* GetObjectsByOwner and SearchObjects: ORDER BY upload_time DESC.         *)
Newer(query, o) == {p \in Matches(query) : UploadTime[p] > UploadTime[o]}
Window(query, offset) ==
    {o \in Matches(query) :
        Cardinality(Newer(query, o)) \in offset..(offset + PageSize - 1)}

(* Mutant of ObjectPages: without the ORDER BY the rows of a page may be   *)
(* any.                                                                    *)
UnorderedPages(query, offset) ==
    {S \in SUBSET Matches(query) :
        Cardinality(S) = Cardinality(Window(query, offset))}

ObjectPages(query, offset) == {Window(query, offset)}

(* The answer has no total: the client goes on until a page is not full.   *)
ListPage(r) ==
    /\ ReqAt(r, "elsewhere") /\ objWalk[r].pc = "page"
    /\ LET walk == objWalk[r]
       IN  \/ \E page \in ObjectPages(walk.query, walk.offset) :
                /\ NoFault
                /\ IF Cardinality(page) = PageSize
                   THEN /\ ObjWalks(r, [walk EXCEPT !.seen = @ \cup page,
                                              !.offset = @ + PageSize])
                        /\ UNCHANGED req
                   ELSE /\ ObjWalks(r, [walk EXCEPT !.seen = @ \cup page,
                                              !.pc = "end", !.offset = 0])
                        /\ Answers(r)
           \/ Inject("db") /\ Answers(r) /\ UNCHANGED objWalk
    /\ UNCHANGED <<replicaVars, accountVars, logWalk>>

ListingStep(r) ==
    \/ LogsBegin(r) \/ LogsPage(r) \/ LogsCount(r)
    \/ ListBegin(r) \/ ListPage(r)

-----------------------------------------------------------------------------
(* Properties.                                                             *)

(* A walk through the logs shows every entry that was there when it began, *)
(* while new ones push the others to later offsets: system_logs only grows. *)
(* Only a failed statement, whose count of 0 ends the walk, hides some.    *)
LogWalksAreWhole ==
    \A r \in Request :
        logWalk[r].pc = "end" /\ faults["db"] = 0 =>
            1..logWalk[r].before \subseteq logWalk[r].seen

(* Every object that an upload has begun to store is there, or not yet.    *)
NothingDeleted ==
    \A o \in issued :
        \/ Exists(o)
        \/ \E r \in Request : req[r].obj = o /\ req[r].pc \in StorePc

(* A walk through the objects shows every one that was there when it       *)
(* began, whatever is uploaded meanwhile; a deletion moves the others to   *)
(* earlier offsets and may hide one.                                       *)
ObjectWalksAreWhole ==
    \A r \in Request :
        /\ objWalk[r].pc = "end"
        /\ NothingDeleted
        => objWalk[r].before \subseteq objWalk[r].seen
=============================================================================
