--------------------------- MODULE Gateway_proofs ---------------------------
(***************************************************************************)
(* Proofs about Gateway, for any number of requests, nodes, objects,       *)
(* addresses and log entries, any budget of faults and every size of a     *)
(* page: registrations stand, walks through the logs and through the       *)
(* objects are whole, rows without good bytes are paid for, files have     *)
(* owners, and failover works.                                             *)
(***************************************************************************)
EXTENDS Gateway, Integers, FiniteSetTheorems, TLAPS

-----------------------------------------------------------------------------
(* Faults are only ever added.                                             *)

FaultsTypeOK == faults \in [FaultKind -> Nat]
Grown == \/ UNCHANGED faults
         \/ \E k \in FaultKind : faults' = [faults EXCEPT ![k] = @ + 1]

LEMMA Injected ==
    ASSUME NEW k \in FaultKind, Inject(k) PROVE Grown
BY DEF Inject, Grown

LEMMA CallsGrow ==
    ASSUME NEW n, CallFails(n) PROVE Grown
<1>1. "net" \in FaultKind
  BY DEF FaultKind
<1> QED BY <1>1, Injected DEF CallFails, NoFault, Grown

LEMMA WritesLostGrow ==
    ASSUME NEW r, NEW n, NEW op, NEW outcomes, NEW rec,
           WriteLost(r, n, op, outcomes, rec)
    PROVE  Grown
<1>1. "late" \in FaultKind
  BY DEF FaultKind
<1>2. CASE CallLost(r, n, rec)
  BY <1>2, CallsGrow DEF CallLost, NoFault, Grown
<1>3. CASE GivenUp(req[r].obj, n, op)
  BY <1>1, <1>3, Injected DEF GivenUp
<1> QED BY <1>2, <1>3 DEF WriteLost

LEMMA TransactionsGrow ==
    ASSUME NEW out, TxCost(out) PROVE Grown
<1>1. "db" \in FaultKind
  BY DEF FaultKind
<1> QED BY <1>1, Injected DEF TxCost, NoFault, Grown

LEMMA PurgesGrow ==
    ASSUME NEW r, NEW n, NEW next, Purge(r, n, next) PROVE Grown
<1>1. CASE DeleteChunk(req[r].obj, n)
  BY <1>1 DEF DeleteChunk, NoFault, Grown
<1>2. CASE WriteLost(r, n, "delete", {"none", disk[req[r].obj][n]}, next)
  BY <1>2, WritesLostGrow
<1>3. CASE UNCHANGED faults
  BY <1>3 DEF Grown
<1> QED BY <1>1, <1>2, <1>3 DEF Purge

LEMMA UploadsGrow ==
    ASSUME NEW r \in Request,
           \/ UploadPlace(r) \/ UploadStore(r) \/ UploadStored(r)
           \/ UploadCommit(r) \/ UploadCleanup(r) \/ UploadCleaned(r)
    PROVE  Grown
<1>1. "db" \in FaultKind
  BY DEF FaultKind
<1>2. CASE UploadPlace(r)
  BY <1>1, <1>2, Injected DEF UploadPlace, NoFault, Grown
<1>3. CASE UploadStore(r)
  <2> PICK n \in req[r].todo :
        \/ StoreChunk(req[r].obj, n)
        \/ WriteLost(r, n, "store", DiskState, [req[r] EXCEPT !.todo = @ \ {n}])
        \/ UNCHANGED <<disk, late, faults>>
    BY <1>3 DEF UploadStore
  <2> QED BY WritesLostGrow DEF StoreChunk, NoFault, Grown
<1>4. CASE UploadCommit(r)
  BY <1>4, TransactionsGrow DEF UploadCommit
<1>5. CASE UploadCleanup(r)
  BY <1>5, PurgesGrow DEF UploadCleanup
<1>6. CASE UploadStored(r) \/ UploadCleaned(r)
  BY <1>6 DEF UploadStored, UploadCleaned, clusterVars, Grown
<1> QED BY <1>2, <1>3, <1>4, <1>5, <1>6

LEMMA DeletesGrow ==
    ASSUME NEW r \in Request,
           \/ DeleteLoad(r) \/ DeleteListRows(r) \/ DeletePurge(r)
           \/ DeletePurged(r) \/ DeleteObject(r)
    PROVE  Grown
<1>1. "db" \in FaultKind
  BY DEF FaultKind
<1>2. CASE DeleteLoad(r)
  BY <1>1, <1>2, Injected DEF DeleteLoad, LoadOrNotFound, NoFault, Grown
<1>3. CASE DeleteListRows(r)
  BY <1>1, <1>3, Injected DEF DeleteListRows, NoFault, Grown
<1>4. CASE DeletePurge(r)
  BY <1>1, <1>4, Injected, PurgesGrow DEF DeletePurge
<1>5. CASE DeletePurged(r)
  BY <1>5 DEF DeletePurged, clusterVars, Grown
<1>6. CASE DeleteObject(r)
  BY <1>6, TransactionsGrow DEF DeleteObject, Grown
<1> QED BY <1>2, <1>3, <1>4, <1>5, <1>6

LEMMA DownloadsGrow ==
    ASSUME NEW r \in Request,
           \/ DownloadLoad(r) \/ DownloadListHealthy(r) \/ DownloadFetch(r)
           \/ DownloadExhausted(r)
    PROVE  Grown
<1>1. "db" \in FaultKind
  BY DEF FaultKind
<1>2. CASE DownloadLoad(r)
  BY <1>1, <1>2, Injected DEF DownloadLoad, LoadOrNotFound, NoFault, Grown
<1>3. CASE DownloadListHealthy(r)
  BY <1>1, <1>3, Injected DEF DownloadListHealthy, NoFault, Grown
<1>4. CASE DownloadFetch(r)
  <2> PICK n \in req[r].todo :
        \/ NoFault \/ Inject("db")
        \/ \E rec \in {Answered(r, "unavailable"),
                       [req[r] EXCEPT !.todo = @ \ {n}]} : CallLost(r, n, rec)
    BY <1>4 DEF DownloadFetch
  <2> QED BY <1>1, Injected, CallsGrow DEF CallLost, NoFault, Grown
<1>5. CASE DownloadExhausted(r)
  BY <1>5 DEF DownloadExhausted, clusterVars, Grown
<1> QED BY <1>2, <1>3, <1>4, <1>5

LEMMA EnvironmentGrows ==
    ASSUME Environment PROVE Grown
<1>1. "outage" \in FaultKind /\ "rot" \in FaultKind
  BY DEF FaultKind
<1>2. CASE \E n \in Node : NodeTimesOut(n) \/ NodeReturns(n)
  BY <1>1, <1>2, Injected DEF NodeTimesOut, NodeReturns, Grown
<1>3. CASE \E o \in Object, n \in Node : ChunkRots(o, n)
  BY <1>1, <1>3, Injected DEF ChunkRots
<1>4. CASE \E o \in Object, n \in Node, op \in {"store", "delete"} :
              LateHandler(o, n, op)
  BY <1>4 DEF LateHandler, Grown
<1> QED BY <1>2, <1>3, <1>4 DEF Environment

LEMMA StoresGrow ==
    ASSUME APINext PROVE Grown
<1>1. "crash" \in FaultKind
  BY DEF FaultKind
<1>2. CASE CrashAPI
  BY <1>1, <1>2, Injected DEF CrashAPI
<1>3. CASE \E r \in Request : APIStep(r)
  BY <1>3, UploadsGrow, DeletesGrow, DownloadsGrow DEF APIStep
<1> QED BY <1>2, <1>3, EnvironmentGrows DEF APINext

LEMMA AccountsGrow ==
    ASSUME NEW r \in Request, AccountStep(r) PROVE Grown
<1>1. "db" \in FaultKind
  BY DEF FaultKind
<1>2. CASE RegisterCheck(r)
  BY <1>1, <1>2, Injected DEF RegisterCheck, NoFault, Grown
<1>3. CASE RegisterCreate(r)
  BY <1>3, TransactionsGrow DEF RegisterCreate, NoFault, Grown
<1>4. CASE LoginCheck(r)
  BY <1>1, <1>4, Injected DEF LoginCheck, NoFault, Grown
<1>5. CASE EnterInLog
  BY <1>1, <1>5, Injected DEF EnterInLog, NoFault, Grown
<1> QED BY <1>2, <1>3, <1>4, <1>5 DEF AccountStep, EnterAndAnswer

LEMMA ListingsGrow ==
    ASSUME NEW r \in Request, ListingStep(r) PROVE Grown
<1>1. "db" \in FaultKind
  BY DEF FaultKind
<1>2. CASE LogsBegin(r) \/ ListBegin(r)
  BY <1>2 DEF LogsBegin, ListBegin, Grown
<1>3. CASE LogsPage(r)
  BY <1>1, <1>3, Injected DEF LogsPage, NoFault, Grown
<1>4. CASE LogsCount(r)
  BY <1>1, <1>4, Injected DEF LogsCount, NoFault, Grown
<1>5. CASE ListPage(r)
  BY <1>1, <1>5, Injected DEF ListPage, NoFault, Grown
<1> QED BY <1>2, <1>3, <1>4, <1>5 DEF ListingStep

(* No step takes a fault back: when none has failed, none had.             *)
LEMMA FaultsGrow ==
    ASSUME FaultsTypeOK, [GatewayNext]_GatewayVars
    PROVE  FaultsTypeOK' /\ (faults'["db"] = 0 => faults["db"] = 0)
<1>1. Grown
  <2>1. CASE Stores
    BY <2>1, StoresGrow DEF Stores
  <2>2. CASE Admits
    BY <2>2, AccountsGrow DEF Admits
  <2>3. CASE Lists
    BY <2>3, ListingsGrow DEF Lists
  <2>4. CASE UNCHANGED GatewayVars
    BY <2>4 DEF GatewayVars, APIVars, clusterVars, Grown
  <2> QED BY <2>1, <2>2, <2>3, <2>4 DEF GatewayNext
<1> QED BY <1>1 DEF Grown, FaultsTypeOK, FaultKind

-----------------------------------------------------------------------------
(* Registrations.                                                          *)

(* What keeps a registration standing: nobody inserts over a row, and only *)
(* a registration with an address has got as far as the insertion.         *)
AccountsInv ==
    /\ AccountsTypeOK
    /\ \A r \in Request : acct[r].pc \in {"create", "enterRegister", "registered"}
                              => acct[r].email \in Email
    /\ RegistrationsStand

LEMMA AccountsKept ==
    ASSUME AccountsInv, NEW r \in Request, AccountStep(r)
    PROVE  AccountsInv'
<1> USE AccountsAssumption
<1>1. CASE RegisterCheck(r)
  BY <1>1 DEF RegisterCheck, Refuse, Turns, AccountsInv, AccountsTypeOK,
     AccountPc, RegistrationsStand
<1>2. CASE RegisterCreate(r)
  <2> DEFINE e == acct[r].email
  <2>1. e \in Email /\ acct[r].pc = "create"
    BY <1>2 DEF RegisterCreate, Under, AccountsInv
  <2>2. CASE users' = [users EXCEPT ![e] = r] /\ users[e] = NoUser
             /\ Turns(r, "enterRegister", e) /\ UNCHANGED logged
    BY <2>1, <2>2 DEF Turns, AccountsInv, AccountsTypeOK, AccountPc,
       RegistrationsStand
  <2>3. CASE /\ \/ UNCHANGED users
                \/ users' = [users EXCEPT ![e] = r] /\ users[e] = NoUser
             /\ Refuse(r) /\ UNCHANGED logged
    BY <2>1, <2>3 DEF Refuse, Turns, AccountsInv, AccountsTypeOK, AccountPc,
       RegistrationsStand
  <2>4. \A out \in TxOutcome : out = "committed" => out # "rolledBack"
    OBVIOUS
  <2> QED BY <1>2, <2>2, <2>3, <2>4 DEF RegisterCreate, CreateUser, EmailExists
<1>3. CASE LoginCheck(r)
  BY <1>3 DEF LoginCheck, Refuse, Turns, AccountsInv, AccountsTypeOK,
     AccountPc, RegistrationsStand
<1>4. CASE EnterAndAnswer(r, "enterRegister", "registered")
  BY <1>4 DEF EnterAndAnswer, Under, EnterInLog, Turns, AccountsInv,
     AccountsTypeOK, AccountPc, RegistrationsStand
<1>5. CASE EnterAndAnswer(r, "enterLogin", "loggedIn")
  BY <1>5 DEF EnterAndAnswer, Under, EnterInLog, Turns, AccountsInv,
     AccountsTypeOK, AccountPc, RegistrationsStand
<1> QED BY <1>1, <1>2, <1>3, <1>4, <1>5 DEF AccountStep

LEMMA ListingsLeaveAccounts ==
    ASSUME NEW r \in Request, ListingStep(r) PROVE UNCHANGED accountVars
BY DEF ListingStep, LogsBegin, LogsPage, LogsCount, ListBegin, ListPage

LEMMA AccountsInvariant == GatewaySpec => []AccountsInv
<1>1. GatewayInit => AccountsInv
  BY AccountsAssumption
     DEF GatewayInit, AccountsInit, AccountsInv, AccountsTypeOK, AccountPc,
         RegistrationsStand
<1>2. AccountsInv /\ [GatewayNext]_GatewayVars => AccountsInv'
  <2> SUFFICES ASSUME AccountsInv, [GatewayNext]_GatewayVars
               PROVE  AccountsInv'
    OBVIOUS
  <2>1. CASE Admits
    BY <2>1, AccountsKept DEF Admits
  <2>2. CASE UNCHANGED accountVars
    BY <2>2 DEF accountVars, AccountsInv, AccountsTypeOK, RegistrationsStand
  <2>3. Stores \/ Lists \/ UNCHANGED GatewayVars => UNCHANGED accountVars
    BY ListingsLeaveAccounts DEF Stores, Lists, GatewayVars
  <2> QED BY <2>1, <2>2, <2>3 DEF GatewayNext
<1> QED BY <1>1, <1>2, PTL DEF GatewaySpec

(* An acknowledged registration is never overwritten, however many of the  *)
(* same address run at once and whatever the database's failures: between  *)
(* EmailExists and CreateUser only the UNIQUE constraint decides.          *)
THEOREM Registered == GatewaySpec => []RegistrationsStand
BY AccountsInvariant, PTL DEF AccountsInv

-----------------------------------------------------------------------------
(* Walks through the logs.                                                 *)

(* All entries before the offset that the client goes on with are seen.    *)
Covered(walk, bound) ==
    \A i \in 1..walk.before : logged - i < bound => i \in walk.seen

LogWalkOK(walk) ==
    /\ walk.pc = "page" => Covered(walk, walk.offset)
    /\ walk.pc = "count" => Covered(walk, walk.offset + walk.got)
    /\ walk.pc = "end" => 1..walk.before \subseteq walk.seen

WalksInv ==
    /\ FaultsTypeOK
    /\ logged \in Nat
    /\ logWalk \in [Request -> LogWalk]
    /\ faults["db"] = 0 => \A r \in Request : LogWalkOK(logWalk[r])

(* A page holds at most PageSize entries, so that its number of entries    *)
(* says which they are.                                                    *)
LEMMA PageIsBounded ==
    ASSUME logged \in Nat, NEW offset \in Nat
    PROVE  /\ LogPage(offset) \subseteq Nat
           /\ Cardinality(LogPage(offset)) \in Nat
           /\ Cardinality(LogPage(offset)) <= PageSize
<1> DEFINE from == logged - offset - PageSize + 1
           to == logged - offset
<1>1. PageSize \in Nat /\ PageSize >= 1
  BY ListingsAssumption
<1>2. LogPage(offset) \subseteq Nat /\ LogPage(offset) \subseteq from..to
  BY <1>1 DEF LogPage
<1>3. from \in Int /\ to \in Int /\ from <= to /\ to - from + 1 = PageSize
  BY <1>1
<1>4. IsFiniteSet(from..to) /\ Cardinality(from..to) = PageSize
  BY <1>3, FS_Interval
<1> QED BY <1>2, <1>4, FS_Subset, FS_CardinalityType

LEMMA PageCovers ==
    ASSUME logged \in Nat, NEW walk \in LogWalk,
           Covered(walk, walk.offset),
           NEW got \in Nat, got <= PageSize
    PROVE  \A i \in 1..walk.before :
              logged - i < walk.offset + got =>
                  i \in walk.seen \cup LogPage(walk.offset)
<1> SUFFICES ASSUME NEW i \in 1..walk.before,
                    logged - i < walk.offset + got,
                    logged - i >= walk.offset
             PROVE  i \in LogPage(walk.offset)
  BY DEF Covered, LogWalk
<1>1. PageSize \in Nat /\ walk.offset \in Nat /\ walk.before \in Nat
  BY ListingsAssumption DEF LogWalk
<1> QED BY <1>1 DEF LogPage

LEMMA WalksKept ==
    ASSUME WalksInv, NEW r \in Request, ListingStep(r),
           FaultsTypeOK', faults'["db"] = 0 => faults["db"] = 0
    PROVE  WalksInv'
<1> DEFINE walk == logWalk[r]
<1>1. walk \in LogWalk /\ logged \in Nat
  BY DEF WalksInv
<1>2. ASSUME NEW rec \in LogWalk, LogWalks(r, rec), UNCHANGED logged,
             faults'["db"] = 0 => LogWalkOK(rec)
      PROVE  WalksInv'
  <2>1. logWalk' \in [Request -> LogWalk]
    BY <1>2 DEF WalksInv, LogWalks
  <2>2. ASSUME faults'["db"] = 0, NEW q \in Request
        PROVE  LogWalkOK(logWalk[q])'
    <3>1. logWalk'[q] = IF q = r THEN rec ELSE logWalk[q]
      BY <1>2 DEF WalksInv, LogWalks
    <3> QED BY <1>2, <2>2, <3>1 DEF WalksInv, LogWalkOK, Covered
  <2> QED BY <1>2, <2>1, <2>2 DEF WalksInv
<1>3. CASE LogsBegin(r)
  <2> DEFINE rec == [pc |-> "page", offset |-> 0, got |-> 0, seen |-> {},
                     before |-> logged]
  <2>1. LogWalks(r, rec) /\ UNCHANGED <<logged, faults>>
    BY <1>3 DEF LogsBegin, accountVars
  <2>2. rec \in LogWalk
    BY <1>1 DEF LogWalk
  <2>3. Covered(rec, rec.offset)
    BY <1>1 DEF Covered, LogWalk
  <2> QED BY <1>2, <2>1, <2>2, <2>3 DEF LogWalkOK
<1>4. CASE LogsPage(r)
  <2> DEFINE page == LogPage(walk.offset)
             rec == [walk EXCEPT !.pc = "count", !.got = Cardinality(page),
                                 !.seen = @ \cup page]
  <2>1. CASE UNCHANGED <<logged, logWalk>>
    BY <2>1 DEF WalksInv, LogWalkOK, Covered
  <2>2. CASE LogWalks(r, rec) /\ NoFault /\ UNCHANGED logged
    <3>1. walk.offset \in Nat
      BY <1>1 DEF LogWalk
    <3>2. rec \in LogWalk
      BY <1>1, <3>1, PageIsBounded DEF LogWalk
    <3>3. rec.offset = walk.offset /\ rec.got = Cardinality(page)
          /\ rec.seen = walk.seen \cup page /\ rec.before = walk.before
          /\ rec.pc = "count"
      BY <1>1 DEF LogWalk
    <3>4. faults'["db"] = 0 => Covered(walk, walk.offset)
      BY <1>4 DEF LogsPage, WalksInv, LogWalkOK
    <3>5. faults'["db"] = 0 => Covered(rec, rec.offset + rec.got)
      BY <1>1, <3>1, <3>3, <3>4, PageIsBounded, PageCovers DEF Covered
    <3> QED BY <1>2, <2>2, <3>2, <3>3, <3>5 DEF LogWalkOK
  <2> QED BY <1>4, <2>1, <2>2 DEF LogsPage, accountVars
<1>5. CASE LogsCount(r)
  <2> DEFINE more == [walk EXCEPT !.pc = "page", !.got = 0,
                                  !.offset = @ + walk.got]
             last == [walk EXCEPT !.pc = "end", !.got = 0, !.offset = 0]
  <2>1. PICK total \in {logged, 0} :
          /\ IF total = logged THEN NoFault ELSE Inject("db")
          /\ IF HasMore(walk, total) THEN LogWalks(r, more)
             ELSE LogWalks(r, last)
    BY <1>5 DEF LogsCount
  <2>2. UNCHANGED logged /\ walk.pc = "count"
    BY <1>5 DEF LogsCount, accountVars
  <2>3. walk.offset \in Nat /\ walk.got \in Nat /\ walk.before \in Nat
    BY <1>1 DEF LogWalk
  <2>4. faults'["db"] = 0 => Covered(walk, walk.offset + walk.got)
    BY <2>2 DEF WalksInv, LogWalkOK
  <2>5. CASE LogWalks(r, more)
    <3>1. walk.offset + walk.got \in Nat
      BY <2>3
    <3>2. more \in LogWalk
      BY <1>1, <3>1 DEF LogWalk
    <3>3. more.pc = "page" /\ more.offset = walk.offset + walk.got
          /\ more.seen = walk.seen /\ more.before = walk.before
      BY <1>1 DEF LogWalk
    <3> QED BY <1>2, <2>2, <2>4, <2>5, <3>2, <3>3 DEF LogWalkOK, Covered
  <2>6. CASE LogWalks(r, last) /\ ~HasMore(walk, total)
    <3>1. last \in LogWalk
      BY <1>1 DEF LogWalk
    <3>2. last.pc = "end" /\ last.seen = walk.seen /\ last.before = walk.before
      BY <1>1 DEF LogWalk
    <3>3. faults'["db"] = 0 => total = logged
      BY <2>1 DEF Inject, FaultsTypeOK, FaultKind, WalksInv
    <3>4. faults'["db"] = 0 => 1..walk.before \subseteq walk.seen
      BY <1>1, <2>3, <2>4, <2>6, <3>3 DEF HasMore, Covered
    <3> QED BY <1>2, <2>2, <2>6, <3>1, <3>2, <3>4 DEF LogWalkOK
  <2> QED BY <2>1, <2>5, <2>6
<1>6. CASE ListBegin(r) \/ ListPage(r)
  BY <1>6 DEF ListBegin, ListPage, accountVars, WalksInv, LogWalkOK, Covered
<1> QED BY <1>3, <1>4, <1>5, <1>6 DEF ListingStep

(* The log only grows, which moves its entries to later offsets.           *)
LEMMA GrowthKeepsWalks ==
    ASSUME WalksInv, FaultsTypeOK', faults'["db"] = 0 => faults["db"] = 0,
           logged' \in {logged, logged + 1}, UNCHANGED logWalk
    PROVE  WalksInv'
<1>1. ASSUME NEW r \in Request, LogWalkOK(logWalk[r]) PROVE LogWalkOK(logWalk[r])'
  <2>1. /\ logWalk[r].before \in Nat /\ logWalk[r].offset \in Nat
        /\ logWalk[r].got \in Nat /\ logged \in Nat
    BY DEF WalksInv, LogWalk
  <2> QED BY <1>1, <2>1 DEF LogWalkOK, Covered
<1> QED BY <1>1 DEF WalksInv

LEMMA AccountsLeaveWalks ==
    ASSUME NEW r \in Request, AccountStep(r)
    PROVE  logged' \in {logged, logged + 1}
BY DEF AccountStep, RegisterCheck, RegisterCreate, LoginCheck, EnterAndAnswer,
   EnterInLog

LEMMA WalksInvariant == GatewaySpec => []WalksInv
<1>1. GatewayInit => WalksInv
  BY AccountsAssumption
     DEF GatewayInit, ObjectAPIInit, Uploaded, AccountsInit, ListingsInit,
         WalksInv, FaultsTypeOK, LogWalk, LogWalkOK
<1>2. WalksInv /\ [GatewayNext]_GatewayVars => WalksInv'
  <2> SUFFICES ASSUME WalksInv, [GatewayNext]_GatewayVars
               PROVE  WalksInv'
    OBVIOUS
  <2>1. FaultsTypeOK' /\ (faults'["db"] = 0 => faults["db"] = 0)
    BY FaultsGrow DEF WalksInv
  <2>2. CASE Lists
    BY <2>1, <2>2, WalksKept DEF Lists
  <2>3. CASE Admits
    BY <2>1, <2>3, AccountsLeaveWalks, GrowthKeepsWalks DEF Admits, listingVars
  <2>4. CASE Stores \/ UNCHANGED GatewayVars
    BY <2>1, <2>4, GrowthKeepsWalks
       DEF Stores, GatewayVars, accountVars, listingVars
  <2> QED BY <2>2, <2>3, <2>4 DEF GatewayNext
<1> QED BY <1>1, <1>2, PTL DEF GatewaySpec

(* Whatever the size of a page, however many entries are added between two *)
(* of its queries and however many others walk: as long as no statement    *)
(* fails, a walk that was told to stop has shown all that it began with.   *)
THEOREM WalksAreWhole == GatewaySpec => []LogWalksAreWhole
<1>1. WalksInv => LogWalksAreWhole
  BY DEF WalksInv, LogWalkOK, LogWalksAreWhole
<1> QED BY <1>1, WalksInvariant, PTL

-----------------------------------------------------------------------------
(* Requests for objects: what a step of one of them is.                    *)

RequestState ==
    [pc: {"new", "done", "elsewhere"} \cup UploadPc \cup DeletePc \cup DownloadPc,
     obj: Object \cup {NoObject}, factor: Nat, todo: SUBSET Node,
     ok: SUBSET Node, gone: BOOLEAN, answer: Answer \cup {"none"}]

(* The request works on its object, or has answered that it cannot.        *)
Started(r) == \/ req[r].pc \in UploadPc \cup DeletePc \cup DownloadPc
              \/ req[r].answer \in {"unavailable", "corrupt"}
Storing(r) == req[r].pc \in StorePc
Calls(o, n) == {<<o, n, op>> : op \in {"store", "delete"}}

Types == ClusterTypeOK /\ req \in [Request -> RequestState] /\ issued \subseteq Object

LEMMA TypesAre == Types <=> ObjectAPITypeOK
BY DEF Types, ObjectAPITypeOK, APITypeOK, RequestState

(* What holds of the requests, one by one: an upload that has not reached  *)
(* the metadata is alone with its object, and its acknowledged chunks are  *)
(* whole and nobody's who was given up.                                    *)
OwnObject(r) ==
    Storing(r) =>
        /\ ~Exists(req[r].obj) /\ req[r].factor # 0
        /\ req[r].ok \cap req[r].todo = {}
        /\ \A n \in req[r].ok : disk[req[r].obj][n] = "good" \/ faults["rot"] # 0
        /\ \A n \in req[r].ok \cup req[r].todo : Calls(req[r].obj, n) \cap late = {}
Locals ==
    \A r \in Request :
        /\ req[r].pc = "new" =>
             req[r].obj = NoObject /\ ~req[r].gone /\ req[r].ok = {}
        /\ req[r].pc # "done" => req[r].answer = "none"
        /\ Started(r) => req[r].obj \in issued
        /\ OwnObject(r)
        /\ \A q \in Request :
             Storing(r) /\ Started(q) /\ req[q].obj = req[r].obj => q = r

(* What holds of the metadata and the files, object by object.             *)
Metadata ==
    /\ IsFiniteSet(issued)
    /\ \A o \in Object :
        /\ Exists(o) => o \in issued
        /\ ~Exists(o) => \A n \in Node : replica[o][n] = "NONE"
        /\ o \notin issued => \A n \in Node : disk[o][n] = "none"
                                              /\ Calls(o, n) \cap late = {}

(* One more fault.                                                         *)
Faulty == \E k \in FaultKind : faults' = [faults EXCEPT ![k] = @ + 1]

(* A request is all that changes its record; the record follows from the   *)
(* one before; and the metadata and the files of the other objects, and    *)
(* the nodes, are left alone.                                              *)
Goes(r) ==
    /\ \A q \in Request \ {r} : req'[q] = req[q]
    /\ req[r].pc # "done" /\ req'[r].pc # "new"
    /\ req'[r].pc # "done" => req'[r].answer = "none"
    /\ req[r].gone => req'[r].gone /\ req'[r].obj = req[r].obj
    /\ Started(r)' => \/ Started(r) /\ req'[r].obj = req[r].obj
                      \/ ~Storing(r)' /\ Exists(req'[r].obj) /\ req'[r].obj \in issued
                         /\ ~Started(r) /\ req'[r].pc \in {"listRows", "listHealthy"}
                      \/ req'[r].obj \in issued' \ issued /\ ~Started(r)
                         /\ req'[r].pc = "store"
    /\ Storing(r)' => Storing(r) \/ req'[r].obj \in issued' \ issued
    /\ req'[r].pc = "cleanup" => Started(r)
    /\ req[r].pc \in DeletePc /\ req'[r].pc \notin DeletePc =>
         req[r].pc = "delete"
Alone(r) ==
    /\ \A o \in Object :
        ~(Started(r) /\ o = req[r].obj) =>
            /\ factor'[o] = factor[o] /\ replica'[o] = replica[o]
            /\ disk'[o] = disk[o]
            /\ \A n \in Node : Calls(o, n) \cap late' = Calls(o, n) \cap late
    /\ \A o \in Object : Exists(o)' /\ ~Exists(o) => Storing(r)
    /\ UNCHANGED nodeStatus
    /\ \/ UNCHANGED issued
       \/ \E o \in Object : issued' = issued \cup {o}
Step(r) == Types' /\ Goes(r) /\ Alone(r) /\ Grown

(* What may make a HEALTHY row hollow: a file that is not whole, a handler *)
(* nobody waits for, or the upload that takes its chunks back although its *)
(* row is there.                                                           *)
Risky(o) ==
    \/ \E n \in Node : /\ replica[o][n] = "HEALTHY"
                       /\ disk[o][n] # "good" \/ Calls(o, n) \cap late # {}
    \/ Exists(o) /\ \E r \in Request : req[r].obj = o /\ req[r].pc = "cleanup"
Due == {o \in Object : Risky(o) /\ ~BeingDeleted(o)}
DuePaid ==
    faults["rot"] = 0 =>
        /\ IsFiniteSet(Due)
        /\ Cardinality(Due) <= faults["db"] + faults["crash"] * Cardinality(Request)

(* Without a fault no handler is given up, no node is out and no upload is *)
(* taken back; and a file of an undisturbed object has an owner: a row, of *)
(* which every deletion under way knows, or the upload that stored it.     *)
NoFaults == \A k \in FaultKind : faults[k] = 0
NoTrouble == late = {} /\ OfflineNodes = {}
             /\ \A r \in Request : req[r].pc # "cleanup"
Owned(o, n) ==
    \/ /\ replica[o][n] # "NONE"
       /\ \A r \in Request : req[r].obj = o /\ req[r].pc \in {"purge", "delete"}
            => req[r].pc = "purge" /\ n \in req[r].todo
    \/ \E r \in Request : req[r].obj = o /\ Storing(r) /\ n \in req[r].ok
FilesOwned(o) == \A n \in Node : disk[o][n] # "none" => Owned(o, n)
Owners ==
    /\ NoFaults => NoTrouble
    /\ \A o \in Object : Undisturbed(o) => FilesOwned(o)

(* Nodes that are out have cost an outage each; so have those that a       *)
(* download has passed over.                                               *)
OnlyOutages == \A k \in FaultKind \ {"outage"} : faults[k] = 0
Passed(r) == (RowsWith(req[r].obj, "HEALTHY") \ req[r].todo) \cup OfflineNodes
DownloadOK(r) ==
    LET rows == RowsWith(req[r].obj, "HEALTHY")
    IN  /\ req[r].pc = "fetch" =>
             /\ rows = {} \/ req[r].todo \subseteq rows
             /\ BeingDeleted(req[r].obj) \/ Cardinality(Passed(r)) <= faults["outage"]
        /\ req[r].answer \in {"unavailable", "corrupt"} =>
             BeingDeleted(req[r].obj) \/ Cardinality(rows) <= faults["outage"]
Downloads ==
    /\ Cardinality(OfflineNodes) <= faults["outage"]
    /\ \A r \in Request : OnlyOutages /\ ~req[r].gone => DownloadOK(r)
-----------------------------------------------------------------------------
(* The next state of the one request that moves.                           *)
LEMMA BecomesIs ==
    ASSUME Types, NEW r \in Request, NEW rec \in RequestState, Becomes(r, rec)
    PROVE  /\ req' \in [Request -> RequestState] /\ req'[r] = rec
           /\ \A q \in Request \ {r} : req'[q] = req[q]
BY DEF Becomes, Types

LEMMA AnsweredIs ==
    ASSUME Types, NEW r \in Request, NEW a \in Answer
    PROVE  /\ Answered(r, a) \in RequestState
           /\ Answered(r, a).pc = "done" /\ Answered(r, a).obj = req[r].obj
           /\ Answered(r, a).gone = req[r].gone /\ Answered(r, a).answer = a
           /\ Answered(r, a).ok = {} /\ Answered(r, a).todo = {}
<1>1. req[r] \in RequestState
  BY DEF Types
<1> QED
  BY <1>1 DEF Answered, RequestState

(* A step of a request that leaves metadata and files alone.               *)
Still == UNCHANGED <<factor, replica, nodeStatus, disk, late, listed>>

LEMMA GrownTyped ==
    ASSUME Types, Grown
    PROVE  /\ faults' \in [FaultKind -> Nat]
           /\ \A k \in FaultKind : faults'[k] >= faults[k]
BY DEF Types, ClusterTypeOK, Grown

LEMMA StillTyped ==
    ASSUME Types, Still, Grown, req' \in [Request -> RequestState],
           issued' \subseteq Object
    PROVE  Types'
BY GrownTyped DEF Types, Still, ClusterTypeOK

LEMMA StillAlone ==
    ASSUME Types, Still, NEW r \in Request,
           \/ UNCHANGED issued
           \/ \E o \in Object : issued' = issued \cup {o}
    PROVE  Alone(r)
BY DEF Types, Still, Alone, Exists

-----------------------------------------------------------------------------
(* What one request's step does to the invariants.                         *)
LEMMA LocalsKept ==
    ASSUME Types, Locals, Metadata, NEW r \in Request, Step(r), OwnObject(r)'
    PROVE  Locals'
<1>1. \A q \in Request : Storing(q) => Started(q)
  BY DEF Storing, Started, UploadPc
<1>2. faults'["rot"] # 0 \/ faults["rot"] = 0
  BY GrownTyped DEF Step, FaultKind, Types, ClusterTypeOK
<1>3. \A q \in Request : q # r => req'[q] = req[q]
  BY DEF Step, Goes
<1>4. issued \subseteq issued'
  BY DEF Step, Alone
<1>5. \A q \in Request : req[q] \in RequestState
  BY DEF Types
<1>6. ASSUME NEW q \in Request PROVE OwnObject(q)'
  <2>1. CASE q = r
    BY <2>1
  <2>2. CASE q # r /\ Storing(q)
    <3>1. req[q].obj \in Object /\ ~(Started(r) /\ req[q].obj = req[r].obj)
      BY <1>1, <2>2 DEF Locals, Types
    <3>2. req'[q] = req[q] /\ req[q].ok \subseteq Node /\ req[q].todo \subseteq Node
      BY <1>3, <1>5, <2>2 DEF RequestState
    <3>3. OwnObject(q)
      BY DEF Locals
    <3> QED BY <1>2, <2>2, <3>1, <3>2, <3>3 DEF OwnObject, Storing, Step, Alone, Exists
  <2>3. CASE q # r /\ ~Storing(q)
    BY <1>3, <2>3 DEF OwnObject, Storing
  <2> QED BY <2>1, <2>2, <2>3
<1>7. ASSUME NEW x \in Request, NEW y \in Request, Storing(x)', Started(y)',
             req'[y].obj = req'[x].obj
      PROVE  x = y
  <2>1. CASE x # r /\ y # r
    BY <1>3, <1>7, <2>1 DEF Locals, Storing, Started
  <2>2. CASE x # r /\ y = r
    <3>1. Storing(x) /\ req'[x] = req[x] /\ req[x].obj \in issued
          /\ ~Exists(req[x].obj)
      BY <1>1, <1>3, <1>7, <2>2 DEF Locals, Storing, OwnObject
    <3> QED BY <1>7, <2>2, <3>1 DEF Locals, Step, Goes
  <2>3. CASE x = r /\ y # r
    <3>1. Started(y) /\ req'[y] = req[y] /\ req[y].obj \in issued
      BY <1>3, <1>7, <2>3 DEF Locals, Started
    <3>2. Started(r)'
      BY <1>7, <2>3 DEF Storing, Started, UploadPc
    <3> QED BY <1>7, <2>3, <3>1, <3>2 DEF Locals, Step, Goes
  <2> QED BY <2>1, <2>2, <2>3
<1>8. ASSUME NEW q \in Request
      PROVE  /\ req'[q].pc = "new" =>
                  req'[q].obj = NoObject /\ ~req'[q].gone /\ req'[q].ok = {}
             /\ req'[q].pc # "done" => req'[q].answer = "none"
             /\ Started(q)' => req'[q].obj \in issued'
  <2>1. CASE q # r
    BY <1>3, <1>4, <2>1 DEF Locals, Started
  <2>2. CASE q = r
    <3>1. Started(r)' => req'[r].obj \in issued'
      BY <1>4 DEF Locals, Step, Goes
    <3> QED BY <2>2, <3>1 DEF Step, Goes
  <2> QED BY <2>1, <2>2
<1> QED
  BY <1>6, <1>7, <1>8 DEF Locals

KeepsRows ==
    \A o \in Object : ~Exists(o)' => \A n \in Node : replica'[o][n] = "NONE"

LEMMA MetadataKept ==
    ASSUME Types, Locals, Metadata, NEW r \in Request, Step(r), KeepsRows
    PROVE  Metadata'
<1>1. IsFiniteSet(issued') /\ issued \subseteq issued'
  BY FS_AddElement DEF Metadata, Step, Alone
<1>2. ASSUME NEW o \in Object PROVE Exists(o)' => o \in issued'
  BY <1>1 DEF Metadata, Locals, Step, Alone, Storing, Started, Exists, UploadPc
<1>3. ASSUME NEW o \in Object, o \notin issued'
      PROVE  \A n \in Node : disk'[o][n] = "none" /\ Calls(o, n) \cap late' = {}
  <2>1. o \notin issued /\ ~(Started(r) /\ o = req[r].obj)
    BY <1>1, <1>3 DEF Locals
  <2> QED BY <2>1 DEF Metadata, Step, Alone
<1> QED
  BY <1>1, <1>2, <1>3 DEF Metadata, KeepsRows, Calls

(* Another object than the request's is no more at risk than before.       *)
LEMMA OthersSafe ==
    ASSUME Types, Locals, NEW r \in Request, Step(r), NEW o \in Object,
           ~(Started(r) /\ o = req[r].obj)
    PROVE  /\ Risky(o)' => Risky(o)
           /\ BeingDeleted(o) => BeingDeleted(o)'
<1>1. \A q \in Request : q # r => req'[q] = req[q]
  BY DEF Step, Goes
<1>2. /\ factor'[o] = factor[o] /\ replica'[o] = replica[o] /\ disk'[o] = disk[o]
      /\ \A n \in Node : Calls(o, n) \cap late' = Calls(o, n) \cap late
  BY DEF Step, Alone
<1>3. ASSUME NEW q \in Request, req'[q].obj = o, req'[q].pc = "cleanup"
      PROVE  req[q].obj = o /\ req[q].pc = "cleanup"
  <2>1. Started(q)'
    BY <1>3 DEF Started, UploadPc
  <2> QED BY <1>1, <1>3, <2>1 DEF Step, Goes
<1>4. Risky(o)' => Risky(o)
  BY <1>2, <1>3 DEF Risky, Exists, Calls
<1>5. ASSUME NEW q \in Request, req[q].obj = o, req[q].pc \in DeletePc
      PROVE  req'[q].obj = o /\ req'[q].pc \in DeletePc
  BY <1>1, <1>5 DEF Started
<1> QED
  BY <1>4, <1>5 DEF BeingDeleted

Owes(r) ==
    Started(r) /\ faults'["rot"] = 0 /\ req[r].obj \in Due' =>
        req[r].obj \in Due \/ faults'["db"] = faults["db"] + 1

LEMMA ProductGrows ==
    ASSUME NEW a \in Nat, NEW b \in Nat, NEW c \in Nat, a <= b
    PROVE  a * c \in Nat /\ b * c \in Nat /\ a * c <= b * c
<1>1. PICK d \in Nat : b = a + d
  <2>1. b - a \in Nat /\ b = a + (b - a)
    OBVIOUS
  <2> QED BY <2>1
<1>2. b * c = a * c + d * c /\ d * c \in Nat /\ a * c \in Nat
  BY <1>1
<1> QED
  BY <1>2

LEMMA DueKept ==
    ASSUME Types, Locals, DuePaid, NEW r \in Request, Step(r), Owes(r)
    PROVE  DuePaid'
<1> SUFFICES ASSUME faults'["rot"] = 0
             PROVE  /\ IsFiniteSet(Due')
                    /\ Cardinality(Due') <= faults'["db"]
                                  + faults'["crash"] * Cardinality(Request)
  BY DEF DuePaid
<1> DEFINE o == req[r].obj
<1>1. /\ \A k \in FaultKind : faults[k] \in Nat /\ faults'[k] \in Nat
                                /\ faults'[k] >= faults[k]
      /\ {"db", "crash", "rot"} \subseteq FaultKind
  BY GrownTyped DEF Step, Types, ClusterTypeOK, FaultKind
<1>2. IsFiniteSet(Due) /\ Cardinality(Due) \in Nat
      /\ Cardinality(Due) <= faults["db"] + faults["crash"] * Cardinality(Request)
  BY <1>1, FS_CardinalityType DEF DuePaid
<1>3. Cardinality(Request) \in Nat
  BY KindsAssumption, FS_CardinalityType
<1>4. faults["crash"] * Cardinality(Request) \in Nat
      /\ faults'["crash"] * Cardinality(Request) \in Nat
      /\ faults["crash"] * Cardinality(Request)
           <= faults'["crash"] * Cardinality(Request)
  BY <1>1, <1>3, ProductGrows
<1>5. \A p \in Due' : p \in Due \/ (Started(r) /\ p = o)
  BY OthersSafe DEF Due
<1>6. CASE Due' \subseteq Due
  <2>1. IsFiniteSet(Due') /\ Cardinality(Due') <= Cardinality(Due)
        /\ Cardinality(Due') \in Nat
    BY <1>2, <1>6, FS_Subset, FS_CardinalityType
  <2> QED BY <1>1, <1>2, <1>4, <2>1
<1>7. CASE Started(r) /\ o \in Due' /\ o \notin Due
  <2>1. faults'["db"] = faults["db"] + 1
    BY <1>7 DEF Owes
  <2>2. IsFiniteSet(Due \cup {o}) /\ Cardinality(Due \cup {o}) = Cardinality(Due) + 1
    BY <1>2, <1>7, FS_AddElement
  <2>3. Due' \subseteq Due \cup {o}
    BY <1>5
  <2>4. IsFiniteSet(Due') /\ Cardinality(Due') <= Cardinality(Due) + 1
        /\ Cardinality(Due') \in Nat
    BY <2>2, <2>3, FS_Subset, FS_CardinalityType
  <2> QED BY <1>1, <1>2, <1>4, <2>1, <2>4
<1> QED
  BY <1>5, <1>6, <1>7

(* What was disturbed stays so.                                            *)
LEMMA StaysDisturbed ==
    ASSUME Types, NEW r \in Request, Step(r), NEW o \in Object, Undisturbed(o)'
    PROVE  NoFaults /\ Undisturbed(o)
<1>1. ASSUME NEW k \in FaultKind PROVE faults[k] = 0
  BY GrownTyped DEF Step, Types, ClusterTypeOK, Undisturbed
<1>2. ASSUME NEW q \in Request, req[q].obj = o PROVE ~req[q].gone
  BY <1>2 DEF Undisturbed, Step, Goes
<1> QED
  BY <1>1, <1>2 DEF Undisturbed, NoFaults

OwnersGo(r) ==
    /\ NoFaults' => NoTrouble'
    /\ \A o \in Object :
         Started(r) /\ o = req[r].obj /\ Undisturbed(o)' => FilesOwned(o)'

LEMMA OwnersKept ==
    ASSUME Types, Locals, Metadata, Owners, NEW r \in Request, Step(r),
           OwnersGo(r)
    PROVE  Owners'
<1>1. \A q \in Request : q # r => req'[q] = req[q]
  BY DEF Step, Goes
<1>2. ASSUME NEW o \in Object, Undisturbed(o)', ~(Started(r) /\ o = req[r].obj),
             NEW n \in Node, disk'[o][n] # "none"
      PROVE  Owned(o, n)'
  <2>1. replica'[o] = replica[o] /\ disk[o][n] # "none"
    BY <1>2 DEF Step, Alone
  <2>2. Owned(o, n) /\ o \in issued
    BY <1>2, <2>1, StaysDisturbed DEF Owners, FilesOwned, Metadata
  <2>3. ASSUME NEW q \in Request, req'[q].obj = o, req'[q].pc \in {"purge", "delete"}
        PROVE  req'[q] = req[q]
    <3>1. Started(q)'
      BY <2>3 DEF Started, DeletePc
    <3> QED BY <1>1, <1>2, <2>2, <2>3, <3>1 DEF Step, Goes
  <2>4. ASSUME NEW q \in Request, req[q].obj = o, Storing(q)
        PROVE  req'[q] = req[q]
    BY <1>1, <1>2, <2>4 DEF Started, Storing, UploadPc
  <2> QED BY <2>1, <2>2, <2>3, <2>4 DEF Owned, Storing
<1> QED
  BY <1>2 DEF Owners, OwnersGo, FilesOwned

(* Of the rows of an object, a request that is not its upload leaves all   *)
(* or none, and none when it has deleted the object.                       *)
NoRows(o) == \A n \in Node : replica[o][n] = "NONE"
Falls(r) ==
    \A o \in Object :
        Started(r) /\ o = req[r].obj /\ ~Storing(r) /\ OnlyOutages' =>
            \/ NoRows(o)'
            \/ /\ replica'[o] = replica[o]
               /\ BeingDeleted(o) => BeingDeleted(o)'

LEMMA OutagesOnly ==
    ASSUME Types, Grown, OnlyOutages'
    PROVE  /\ OnlyOutages /\ faults["outage"] \in Nat /\ faults'["outage"] \in Nat
           /\ faults["outage"] <= faults'["outage"]
<1>1. \A k \in FaultKind : faults[k] \in Nat /\ faults'[k] \in Nat
                              /\ faults[k] <= faults'[k]
  BY GrownTyped DEF Types, ClusterTypeOK
<1> QED
  BY <1>1 DEF OnlyOutages, FaultKind

LEMMA NodesFinite ==
    ASSUME NEW S \in SUBSET Node
    PROVE  IsFiniteSet(S) /\ Cardinality(S) \in Nat
BY ClusterAssumption, FS_Subset, FS_CardinalityType

LEMMA FewerNodes ==
    ASSUME NEW S \in SUBSET Node, NEW T \in SUBSET S
    PROVE  Cardinality(T) <= Cardinality(S)
BY NodesFinite, FS_Subset

LEMMA DownloadsKept ==
    ASSUME Types, Locals, Downloads, NEW r \in Request, Step(r), Falls(r),
           OnlyOutages' /\ ~req'[r].gone => DownloadOK(r)'
    PROVE  Downloads'
<1>1. OfflineNodes' = OfflineNodes /\ OfflineNodes \in SUBSET Node
  BY DEF Step, Alone, OfflineNodes, OnlineNodes
<1>2. faults["outage"] \in Nat /\ faults'["outage"] \in Nat
      /\ faults["outage"] <= faults'["outage"]
  BY GrownTyped DEF Step, Types, ClusterTypeOK, FaultKind
<1>3. Cardinality(OfflineNodes') <= faults'["outage"]
  BY <1>1, <1>2, NodesFinite DEF Downloads
<1>4. ASSUME NEW q \in Request, q # r, OnlyOutages', ~req'[q].gone
      PROVE  DownloadOK(q)'
  <2>1. req'[q] = req[q] /\ DownloadOK(q)
    BY <1>4, OutagesOnly DEF Step, Goes, Downloads
  <2>2. CASE ~(req[q].pc = "fetch" \/ req[q].answer \in {"unavailable", "corrupt"})
    BY <2>1, <2>2 DEF DownloadOK
  <2>3. CASE Started(q)
    <3> PICK o \in Object : o = req[q].obj
      BY <2>3 DEF Locals, Types
    <3>1. req'[q].obj = o /\ ~(Storing(r) /\ o = req[r].obj)
      BY <1>4, <2>1, <2>3 DEF Locals
    <3>2. \/ NoRows(o)'
          \/ replica'[o] = replica[o] /\ (BeingDeleted(o) => BeingDeleted(o)')
      <4>1. CASE Started(r) /\ o = req[r].obj
        BY <1>4, <3>1, <4>1 DEF Falls
      <4>2. CASE ~(Started(r) /\ o = req[r].obj)
        BY <4>2, OthersSafe DEF Step, Alone
      <4> QED BY <4>1, <4>2
    <3>3. CASE NoRows(o)'
      <4>1. RowsWith(o, "HEALTHY")' = {}
        BY <3>3 DEF RowsWith, NoRows
      <4>2. Cardinality({}) = 0 /\ ({} \ req'[q].todo) \cup OfflineNodes' = OfflineNodes'
        BY FS_EmptySet
      <4> QED BY <1>2, <1>3, <3>1, <4>1, <4>2 DEF DownloadOK, Passed
    <3>4. CASE replica'[o] = replica[o] /\ (BeingDeleted(o) => BeingDeleted(o)')
      <4> DEFINE rows == RowsWith(o, "HEALTHY")
                 passed == (rows \ req[q].todo) \cup OfflineNodes
      <4>1. RowsWith(o, "HEALTHY")' = rows
        BY <3>4 DEF RowsWith
      <4>2. passed \in SUBSET Node /\ rows \in SUBSET Node
        BY <1>1 DEF RowsWith
      <4>3. Cardinality(passed) \in Nat /\ Cardinality(rows) \in Nat
        BY <4>2, NodesFinite
      <4>4. /\ req[q].pc = "fetch" =>
                  /\ rows = {} \/ req[q].todo \subseteq rows
                  /\ BeingDeleted(o) \/ Cardinality(passed) <= faults["outage"]
            /\ req[q].answer \in {"unavailable", "corrupt"} =>
                  BeingDeleted(o) \/ Cardinality(rows) <= faults["outage"]
        BY <2>1 DEF DownloadOK, Passed
      <4> HIDE DEF rows
      <4>5. /\ req[q].pc = "fetch" =>
                  /\ rows = {} \/ req[q].todo \subseteq rows
                  /\ BeingDeleted(o)' \/ Cardinality(passed) <= faults'["outage"]
            /\ req[q].answer \in {"unavailable", "corrupt"} =>
                  BeingDeleted(o)' \/ Cardinality(rows) <= faults'["outage"]
        BY <1>2, <3>4, <4>3, <4>4
      <4> QED BY <1>1, <2>1, <3>1, <4>1, <4>5 DEF DownloadOK, Passed
    <3> QED BY <3>2, <3>3, <3>4
  <2> QED BY <2>2, <2>3 DEF Started, DownloadPc
<1> QED
  BY <1>3, <1>4 DEF Downloads

(* Load of Delete and Download.                                            *)
LEMMA LoadStep ==
    ASSUME Types, Locals, NEW r \in Request, NEW pc \in {"listRows", "listHealthy"},
           LoadOrNotFound(r, pc), Grown
    PROVE  Step(r) /\ Still /\ UNCHANGED issued
<1>1. req[r] \in RequestState /\ req[r].pc = "new" /\ req[r].answer = "none"
      /\ ~req[r].gone
  BY DEF Types, Locals, LoadOrNotFound, ReqAt
<1>2. ~Started(r) /\ ~Storing(r)
  BY <1>1 DEF Started, Storing, UploadPc, DeletePc, DownloadPc, StorePc
<1>3. PICK o \in issued :
        \/ Exists(o) /\ Becomes(r, [req[r] EXCEPT !.pc = pc, !.obj = o])
        \/ Becomes(r, [Answered(r, "notFound") EXCEPT !.obj = o])
  BY DEF LoadOrNotFound
<1>4. o \in Object
  BY DEF Types
<1>5. Still /\ UNCHANGED issued
  BY DEF LoadOrNotFound, Still
<1>6. CASE Exists(o) /\ Becomes(r, [req[r] EXCEPT !.pc = pc, !.obj = o])
  <2> DEFINE rec == [req[r] EXCEPT !.pc = pc, !.obj = o]
  <2>1. rec \in RequestState
    BY <1>1, <1>4 DEF RequestState, DeletePc, DownloadPc
  <2>2. rec.pc = pc /\ rec.obj = o /\ rec.answer = "none" /\ ~rec.gone
    BY <1>1 DEF RequestState
  <2> HIDE DEF rec
  <2>3. req' \in [Request -> RequestState] /\ req'[r] = rec
        /\ \A q \in Request \ {r} : req'[q] = req[q]
    BY <1>6, <2>1, BecomesIs DEF rec
  <2>4. Goes(r)
    BY <1>1, <1>2, <1>6, <2>2, <2>3
       DEF Goes, Started, Storing, StorePc, DeletePc, Exists
  <2>5. issued' \subseteq Object
    BY <1>5 DEF Types
  <2> QED BY <1>5, <2>3, <2>4, <2>5, StillTyped, StillAlone DEF Step
<1>7. CASE Becomes(r, [Answered(r, "notFound") EXCEPT !.obj = o])
  <2> DEFINE rec == [Answered(r, "notFound") EXCEPT !.obj = o]
  <2>1. "notFound" \in Answer
    BY DEF Answer
  <2>2. rec \in RequestState /\ rec.pc = "done" /\ rec.obj = o
        /\ rec.answer = "notFound" /\ ~rec.gone
    BY <1>1, <1>4, <2>1, AnsweredIs DEF RequestState
  <2> HIDE DEF rec
  <2>3. req' \in [Request -> RequestState] /\ req'[r] = rec
        /\ \A q \in Request \ {r} : req'[q] = req[q]
    BY <1>7, <2>2, BecomesIs DEF rec
  <2>4. Goes(r)
    BY <1>1, <1>2, <2>2, <2>3
       DEF Goes, Started, Storing, StorePc, UploadPc, DeletePc, DownloadPc
  <2>5. issued' \subseteq Object
    BY <1>5 DEF Types
  <2> QED BY <1>5, <2>3, <2>4, <2>5, StillTyped, StillAlone DEF Step
<1> QED
  BY <1>3, <1>6, <1>7

-----------------------------------------------------------------------------
(* The steps that leave the metadata and the files alone.                  *)

StoreInv == Types /\ Locals /\ Metadata /\ DuePaid /\ Owners /\ Downloads

(* All that a step of a request has to do for the invariants.              *)
Keeps(r) ==
    /\ Step(r) /\ OwnObject(r)' /\ KeepsRows /\ Owes(r) /\ OwnersGo(r) /\ Falls(r)
    /\ OnlyOutages' /\ ~req'[r].gone => DownloadOK(r)'

LEMMA KeepsInv ==
    ASSUME StoreInv, NEW r \in Request, Keeps(r) PROVE StoreInv'
<1> USE DEF StoreInv, Keeps
<1>1. Types' /\ Locals' /\ Metadata'
  BY LocalsKept, MetadataKept DEF Step
<1>2. DuePaid'
  BY DueKept
<1>3. Owners'
  BY OwnersKept
<1>4. Downloads'
  BY DownloadsKept
<1> QED BY <1>1, <1>2, <1>3, <1>4

LEMMA NotDownloading ==
    ASSUME NEW r \in Request, req'[r].pc # "fetch",
           req'[r].answer \notin {"unavailable", "corrupt"}
    PROVE  DownloadOK(r)'
BY DEF DownloadOK

LEMMA NotStoring ==
    ASSUME NEW r \in Request, req'[r].pc \notin StorePc PROVE OwnObject(r)'
BY DEF OwnObject, Storing

(* No upload is under way for an object that another request has found.    *)
LEMMA NoUploader ==
    ASSUME Locals, NEW r \in Request, Started(r), ~Storing(r),
           NEW q \in Request, req[q].obj = req[r].obj
    PROVE  ~Storing(q)
BY DEF Locals

LEMMA StillKeeps ==
    ASSUME StoreInv, NEW r \in Request, Step(r), Still,
           req'[r].pc # "cleanup", req[r].pc # "delete"
    PROVE  /\ KeepsRows /\ Owes(r) /\ Falls(r)
           /\ NoFaults' => NoTrouble'
<1> USE DEF StoreInv, Still
<1>1. \A q \in Request : q # r => req'[q] = req[q]
  BY DEF Step, Goes
<1>2. KeepsRows
  BY DEF KeepsRows, Metadata, Exists
<1>3. ASSUME NEW o \in Object, Started(r), o = req[r].obj
      PROVE  /\ Risky(o)' => Risky(o)
             /\ BeingDeleted(o) => BeingDeleted(o)'
  <2>1. Risky(o)' => Risky(o)
    BY <1>1 DEF Risky, Exists
  <2>2. ASSUME NEW q \in Request, req[q].obj = o, req[q].pc \in DeletePc
        PROVE  req'[q].obj = o /\ req'[q].pc \in DeletePc
    <3>1. CASE q = r
      <4>1. req'[r].pc \in DeletePc
        BY <2>2, <3>1 DEF Step, Goes
      <4>2. Started(r)'
        BY <4>1 DEF Started
      <4> QED BY <1>3, <3>1, <4>1, <4>2 DEF Step, Goes
    <3> QED BY <1>1, <2>2, <3>1
  <2> QED BY <2>1, <2>2 DEF BeingDeleted
<1>4. Owes(r)
  BY <1>3 DEF Owes, Due
<1>5. Falls(r)
  BY <1>3 DEF Falls
<1>6. NoFaults' => NoFaults
  BY GrownTyped DEF NoFaults, Step, Types, ClusterTypeOK
<1>7. NoFaults' => NoTrouble'
  BY <1>1, <1>6 DEF Owners, NoTrouble, OfflineNodes, OnlineNodes
<1> QED
  BY <1>2, <1>4, <1>5, <1>7

LEMMA FromNewKeeps ==
    ASSUME StoreInv, NEW r \in Request, Step(r), Still, ~Started(r),
           req'[r].pc \notin {"cleanup", "fetch"},
           req'[r].answer \notin {"unavailable", "corrupt"},
           OwnObject(r)'
    PROVE  Keeps(r)
<1>1. req[r].pc # "delete"
  BY DEF Started, DeletePc
<1>2. OwnersGo(r)
  BY <1>1, StillKeeps DEF OwnersGo
<1> QED
  BY <1>1, <1>2, StillKeeps, NotDownloading DEF Keeps

LEMMA LoadKeeps ==
    ASSUME StoreInv, NEW r \in Request, NEW pc \in {"listRows", "listHealthy"},
           LoadOrNotFound(r, pc), Grown
    PROVE  Keeps(r)
<1>1. Step(r) /\ Still
  BY LoadStep DEF StoreInv
<1>2. req[r] \in RequestState /\ req[r].pc = "new" /\ req[r].answer = "none"
  BY DEF StoreInv, Types, Locals, LoadOrNotFound, ReqAt
<1>3. ~Started(r)
  BY <1>2 DEF Started, UploadPc, DeletePc, DownloadPc, StorePc
<1>4. req'[r].pc \in {pc, "done"} /\ req'[r].answer \in {"none", "notFound"}
  <2>1. PICK o \in issued :
          \/ Becomes(r, [req[r] EXCEPT !.pc = pc, !.obj = o])
          \/ Becomes(r, [Answered(r, "notFound") EXCEPT !.obj = o])
    BY DEF LoadOrNotFound
  <2>2. req \in [Request -> RequestState] /\ Answered(r, "notFound") \in RequestState
        /\ Answered(r, "notFound").pc = "done" /\ Answered(r, "notFound").answer = "notFound"
    BY AnsweredIs DEF StoreInv, Types, Answer
  <2>3. CASE Becomes(r, [req[r] EXCEPT !.pc = pc, !.obj = o])
    BY <1>2, <2>2, <2>3 DEF Becomes, RequestState
  <2>4. CASE Becomes(r, [Answered(r, "notFound") EXCEPT !.obj = o])
    BY <2>2, <2>4 DEF Becomes, RequestState
  <2> QED BY <2>1, <2>3, <2>4
<1>5. OwnObject(r)'
  BY <1>4, NotStoring DEF StorePc
<1> QED
  BY <1>1, <1>3, <1>4, <1>5, FromNewKeeps

LEMMA PlaceKeeps ==
    ASSUME StoreInv, NEW r \in Request, UploadPlace(r), Grown
    PROVE  Keeps(r)
<1> USE DEF StoreInv
<1>1. req[r] \in RequestState /\ req[r].pc = "new" /\ req[r].answer = "none"
      /\ ~req[r].gone /\ req \in [Request -> RequestState]
  BY DEF Types, Locals, UploadPlace, ReqAt
<1>2. ~Started(r) /\ ~Storing(r)
  BY <1>1 DEF Started, UploadPc, DeletePc, DownloadPc, StorePc, Storing
<1>3. Still
  BY DEF UploadPlace, Still
<1>4. PICK o \in Object \ issued, f \in Factors :
        \/ Becomes(r, Answered(r, "failed")) /\ UNCHANGED issued
        \/ \E S \in SelectNodes(f, {}) :
             /\ Becomes(r, [req[r] EXCEPT !.pc = "store", !.obj = o,
                                          !.factor = f, !.todo = S])
             /\ issued' = issued \cup {o}
  BY DEF UploadPlace
<1>5. CASE Becomes(r, Answered(r, "failed")) /\ UNCHANGED issued
  <2> DEFINE rec == Answered(r, "failed")
  <2>1. rec \in RequestState /\ rec.pc = "done" /\ rec.obj = req[r].obj
        /\ rec.answer = "failed" /\ ~rec.gone
    BY <1>1, AnsweredIs DEF Answer
  <2> HIDE DEF rec
  <2>2. req' \in [Request -> RequestState] /\ req'[r] = rec
        /\ \A q \in Request \ {r} : req'[q] = req[q]
    BY <1>5, <2>1, BecomesIs DEF rec
  <2>3. Goes(r)
    BY <1>1, <1>2, <2>1, <2>2
       DEF Goes, Started, Storing, StorePc, UploadPc, DeletePc, DownloadPc
  <2>4. Step(r)
    BY <1>3, <1>5, <2>2, <2>3, StillTyped, StillAlone DEF Step, Types
  <2>5. OwnObject(r)'
    BY <2>1, <2>2, NotStoring DEF StorePc
  <2> QED BY <1>2, <1>3, <2>1, <2>2, <2>4, <2>5, FromNewKeeps
<1>6. ASSUME NEW S \in SelectNodes(f, {}),
             Becomes(r, [req[r] EXCEPT !.pc = "store", !.obj = o,
                                       !.factor = f, !.todo = S]),
             issued' = issued \cup {o}
      PROVE  Keeps(r)
  <2> DEFINE rec == [req[r] EXCEPT !.pc = "store", !.obj = o, !.factor = f, !.todo = S]
  <2>1. S \in SUBSET Node /\ f \in Nat /\ f # 0
    BY FactorAssumption DEF SelectNodes, OnlineNodes
  <2>2. rec \in RequestState /\ rec.pc = "store" /\ rec.obj = o /\ rec.todo = S
        /\ rec.ok = req[r].ok /\ rec.answer = "none" /\ ~rec.gone
        /\ rec.factor = f
    BY <1>1, <2>1 DEF RequestState, UploadPc, StorePc
  <2> HIDE DEF rec
  <2>3. req' \in [Request -> RequestState] /\ req'[r] = rec
        /\ \A q \in Request \ {r} : req'[q] = req[q]
    BY <1>6, <2>2, BecomesIs DEF rec
  <2>4. Goes(r)
    BY <1>1, <1>2, <1>6, <2>2, <2>3 DEF Goes, Storing, StorePc, DeletePc
  <2>5. Step(r)
    BY <1>3, <1>6, <2>3, <2>4, StillTyped, StillAlone DEF Step, Types
  <2>6. OwnObject(r)'
    <3>1. ~Exists(o) /\ \A n \in Node : Calls(o, n) \cap late = {}
      BY DEF Metadata
    <3>2. req[r].ok = {}
      BY <1>1 DEF Locals
    <3> QED BY <1>3, <2>1, <2>2, <2>3, <3>1, <3>2 DEF OwnObject, Still, Exists, Calls
  <2> QED BY <1>2, <1>3, <2>2, <2>3, <2>5, <2>6, FromNewKeeps
<1> QED
  BY <1>4, <1>5, <1>6

-----------------------------------------------------------------------------
(* A request that goes on, or answers, without touching what is stored.    *)
LEMMA StillStep ==
    ASSUME StoreInv, NEW r \in Request, Started(r), req[r].pc # "done",
           Still, Grown, UNCHANGED issued,
           NEW rec \in RequestState, Becomes(r, rec), rec.obj = req[r].obj,
           req[r].gone => rec.gone,
           rec.pc \notin {"new", "cleanup"}, req[r].pc # "delete",
           rec.pc # "done" => rec.answer = "none",
           rec.pc \in StorePc => Storing(r),
           req[r].pc \in DeletePc => rec.pc \in DeletePc
    PROVE  /\ Step(r) /\ req'[r] = rec
           /\ KeepsRows /\ Owes(r) /\ Falls(r) /\ (NoFaults' => NoTrouble')
<1>1. req' \in [Request -> RequestState] /\ req'[r] = rec
      /\ \A q \in Request \ {r} : req'[q] = req[q]
  BY BecomesIs DEF StoreInv
<1>2. Goes(r)
  BY <1>1 DEF Goes, Storing
<1>3. Step(r)
  BY <1>1, <1>2, StillTyped, StillAlone DEF Step, StoreInv, Types
<1> QED
  BY <1>1, <1>3, StillKeeps

(* The files of an object keep their owners when the request that moves is *)
(* neither its upload nor one of its deletions.                            *)
LEMMA OwnersStill ==
    ASSUME StoreInv, NEW r \in Request, Step(r), Still, Started(r), ~Storing(r),
           req'[r].pc \notin {"purge", "delete"}, NoFaults' => NoTrouble'
    PROVE  OwnersGo(r)
<1>1. ASSUME NEW o \in Object, o = req[r].obj, Undisturbed(o)',
             NEW n \in Node, disk'[o][n] # "none"
      PROVE  Owned(o, n)'
  <2>1. Owned(o, n)
    BY <1>1, StaysDisturbed DEF StoreInv, Owners, FilesOwned, Still
  <2>2. \A q \in Request : q # r => req'[q] = req[q]
    BY DEF Step, Goes
  <2> QED BY <2>1, <2>2 DEF Owned, Still, Storing
<1> QED
  BY <1>1 DEF OwnersGo, FilesOwned

(* The files of an object that is being uploaded are its upload's.         *)
LEMMA UploaderOwns ==
    ASSUME StoreInv, NEW r \in Request, Storing(r), NEW n \in Node,
           Undisturbed(req[r].obj), disk[req[r].obj][n] # "none"
    PROVE  n \in req[r].ok
<1> PICK o \in Object : o = req[r].obj
  BY DEF StoreInv, Types, Locals, Started, Storing, UploadPc
<1>1. Owned(o, n) /\ replica[o][n] = "NONE"
  BY DEF StoreInv, Owners, FilesOwned, Locals, OwnObject, Metadata
<1> QED
  BY <1>1 DEF Owned, StoreInv, Locals, Started, Storing, UploadPc

LEMMA StoredKeeps ==
    ASSUME StoreInv, NEW r \in Request, UploadStored(r)
    PROVE  Keeps(r)
<1>1. req[r] \in RequestState /\ req[r].pc = "store" /\ req[r].answer = "none"
      /\ req[r].todo = {} /\ Types
  BY DEF StoreInv, Types, Locals, UploadStored, ReqAt
<1>2. Started(r) /\ Storing(r)
  BY <1>1 DEF Started, UploadPc, StorePc, Storing
<1>3. Still /\ Grown /\ UNCHANGED <<issued, faults>>
  BY DEF UploadStored, Still, clusterVars, Grown
<1> DEFINE rec == IF req[r].ok = {} THEN Answered(r, "failed")
                  ELSE [req[r] EXCEPT !.pc = "commit"]
<1>4. Becomes(r, rec)
  BY DEF UploadStored
<1>5. rec \in RequestState /\ rec.obj = req[r].obj /\ rec.gone = req[r].gone
      /\ rec.ok = req[r].ok /\ rec.todo = {} /\ (rec.pc = "commit" => rec.factor = req[r].factor)
      /\ \/ rec.pc = "commit" /\ rec.answer = "none"
         \/ rec.pc = "done" /\ rec.answer = "failed" /\ req[r].ok = {}
  <2>1. CASE req[r].ok = {}
    BY <1>1, <2>1, AnsweredIs DEF Answer
  <2>2. CASE req[r].ok # {}
    BY <1>1, <2>2 DEF RequestState, UploadPc, StorePc
  <2> QED BY <2>1, <2>2
<1> HIDE DEF rec
<1>6. /\ Step(r) /\ req'[r] = rec
      /\ KeepsRows /\ Owes(r) /\ Falls(r) /\ (NoFaults' => NoTrouble')
  <2>1. req[r].pc \notin DeletePc
    BY <1>1 DEF DeletePc
  <2> QED BY <1>1, <1>2, <1>3, <1>4, <1>5, <2>1, StillStep
<1>7. OwnObject(r)'
  <2>1. OwnObject(r)
    BY DEF StoreInv, Locals
  <2>2. CASE rec.pc = "done"
    BY <1>6, <2>2, NotStoring DEF StorePc
  <2>3. CASE rec.pc = "commit"
    <3>1. rec.ok = req[r].ok /\ rec.todo = {} /\ rec.obj = req[r].obj
          /\ rec.factor = req[r].factor
      BY <1>5, <2>3
    <3> QED BY <1>1, <1>2, <1>3, <1>6, <2>1, <3>1 DEF OwnObject, Still, Exists
  <2> QED BY <1>5, <2>2, <2>3
<1>8. OwnersGo(r)
  <2>1. ASSUME NEW o \in Object, o = req[r].obj, Undisturbed(o)',
               NEW n \in Node, disk'[o][n] # "none"
        PROVE  Owned(o, n)'
    <3>1. n \in req[r].ok
      BY <1>1, <1>2, <1>3, <1>6, <2>1, StaysDisturbed, UploaderOwns DEF Still
    <3> QED BY <1>5, <1>6, <2>1, <3>1 DEF Owned, Storing, StorePc
  <2> QED BY <1>6, <2>1 DEF OwnersGo, FilesOwned
<1> QED
  BY <1>5, <1>6, <1>7, <1>8, NotDownloading DEF Keeps

LEMMA CleanedKeeps ==
    ASSUME StoreInv, NEW r \in Request, UploadCleaned(r)
    PROVE  Keeps(r)
<1>1. req[r] \in RequestState /\ req[r].pc = "cleanup" /\ Types
  BY DEF StoreInv, Types, UploadCleaned, ReqAt
<1>2. Started(r) /\ ~Storing(r) /\ req[r].pc \notin DeletePc
  BY <1>1 DEF Started, UploadPc, StorePc, Storing, DeletePc
<1>3. Still /\ Grown /\ UNCHANGED <<issued, faults>>
  BY DEF UploadCleaned, Still, clusterVars, Grown
<1> DEFINE rec == Answered(r, "failed")
<1>4. Becomes(r, rec)
  BY DEF UploadCleaned
<1>5. rec \in RequestState /\ rec.obj = req[r].obj /\ rec.gone = req[r].gone
      /\ rec.pc = "done" /\ rec.answer = "failed"
  BY <1>1, AnsweredIs DEF Answer
<1> HIDE DEF rec
<1>6. /\ Step(r) /\ req'[r] = rec
      /\ KeepsRows /\ Owes(r) /\ Falls(r) /\ (NoFaults' => NoTrouble')
  BY <1>1, <1>2, <1>3, <1>4, <1>5, StillStep DEF StorePc
<1> QED
  BY <1>2, <1>3, <1>5, <1>6, OwnersStill, NotDownloading, NotStoring
     DEF Keeps, StorePc

LEMMA ListRowsKeeps ==
    ASSUME StoreInv, NEW r \in Request, DeleteListRows(r), Grown
    PROVE  Keeps(r)
<1>1. req[r] \in RequestState /\ req[r].pc = "listRows" /\ req[r].answer = "none"
      /\ Types
  BY DEF StoreInv, Types, Locals, DeleteListRows, ReqAt
<1>2. Started(r) /\ ~Storing(r)
  BY <1>1 DEF Started, DeletePc, StorePc, Storing
<1>3. Still /\ UNCHANGED issued
  BY DEF DeleteListRows, Still
<1>4. PICK rows \in {ReplicaRows(req[r].obj), {}} :
        /\ Becomes(r, [req[r] EXCEPT !.pc = "purge", !.todo = rows])
        /\ rows # ReplicaRows(req[r].obj) => Inject("db")
  BY DEF DeleteListRows
<1> DEFINE rec == [req[r] EXCEPT !.pc = "purge", !.todo = rows]
<1>5. rec \in RequestState /\ rec.obj = req[r].obj /\ rec.gone = req[r].gone
      /\ rec.pc = "purge" /\ rec.answer = "none" /\ rec.todo = rows
  <2>1. rows \in SUBSET Node
    BY DEF ReplicaRows
  <2> QED BY <1>1, <2>1 DEF RequestState, DeletePc
<1> HIDE DEF rec
<1>6. /\ Step(r) /\ req'[r] = rec
      /\ KeepsRows /\ Owes(r) /\ Falls(r) /\ (NoFaults' => NoTrouble')
  BY <1>1, <1>2, <1>3, <1>4, <1>5, StillStep DEF StorePc, DeletePc, rec
<1>7. ASSUME NEW o \in Object, o = req[r].obj, Undisturbed(o)',
             NEW n \in Node, disk'[o][n] # "none"
      PROVE  Owned(o, n)'
  <2>1. Owned(o, n)
    BY <1>3, <1>6, <1>7, StaysDisturbed DEF StoreInv, Owners, FilesOwned, Still
  <2>2. \A q \in Request : q # r => req'[q] = req[q]
    BY <1>6 DEF Step, Goes
  <2>3. replica[o][n] # "NONE"
        /\ \A q \in Request : req[q].obj = o /\ req[q].pc \in {"purge", "delete"}
             => req[q].pc = "purge" /\ n \in req[q].todo
    BY <1>2, <1>7, <2>1, NoUploader DEF Owned, StoreInv
  <2>4. rows = ReplicaRows(o)
    <3>1. ~Inject("db")
      BY <1>1, <1>7 DEF Inject, Undisturbed, FaultKind, Types, ClusterTypeOK
    <3> QED BY <1>4, <1>7, <3>1
  <2>5. n \in req'[r].todo /\ req'[r].pc = "purge"
    BY <1>5, <1>6, <2>3, <2>4 DEF ReplicaRows
  <2> QED BY <1>3, <2>2, <2>3, <2>5 DEF Owned, Still
<1>8. OwnersGo(r)
  BY <1>6, <1>7 DEF OwnersGo, FilesOwned
<1> QED
  BY <1>5, <1>6, <1>8, NotDownloading, NotStoring DEF Keeps, StorePc

LEMMA PurgedKeeps ==
    ASSUME StoreInv, NEW r \in Request, DeletePurged(r)
    PROVE  Keeps(r)
<1>1. req[r] \in RequestState /\ req[r].pc = "purge" /\ req[r].answer = "none"
      /\ req[r].todo = {} /\ Types
  BY DEF StoreInv, Types, Locals, DeletePurged, ReqAt
<1>2. Started(r) /\ ~Storing(r)
  BY <1>1 DEF Started, DeletePc, StorePc, Storing
<1>3. Still /\ UNCHANGED issued /\ Grown
  BY DEF DeletePurged, Still, clusterVars, Grown
<1> DEFINE rec == [req[r] EXCEPT !.pc = "delete"]
<1>4. Becomes(r, rec)
  BY DEF DeletePurged
<1>5. rec \in RequestState /\ rec.obj = req[r].obj /\ rec.gone = req[r].gone
      /\ rec.pc = "delete" /\ rec.answer = "none"
  BY <1>1 DEF RequestState, DeletePc
<1> HIDE DEF rec
<1>6. /\ Step(r) /\ req'[r] = rec
      /\ KeepsRows /\ Owes(r) /\ Falls(r) /\ (NoFaults' => NoTrouble')
  BY <1>1, <1>2, <1>3, <1>4, <1>5, StillStep DEF StorePc, DeletePc
<1>7. ASSUME NEW o \in Object, o = req[r].obj, Undisturbed(o)',
             NEW n \in Node, disk'[o][n] # "none"
      PROVE  FALSE
  <2>1. Owned(o, n)
    BY <1>3, <1>6, <1>7, StaysDisturbed DEF StoreInv, Owners, FilesOwned, Still
  <2> QED BY <1>1, <1>2, <1>7, <2>1, NoUploader DEF Owned, StoreInv
<1>8. OwnersGo(r)
  BY <1>6, <1>7 DEF OwnersGo, FilesOwned
<1> QED
  BY <1>5, <1>6, <1>8, NotDownloading, NotStoring DEF Keeps, StorePc

-----------------------------------------------------------------------------
(* Downloads.                                                              *)

(* While statements work, nothing decays and nothing dies, a HEALTHY row   *)
(* of an object that nobody deletes has its bytes.                         *)
LEMMA NobodyOwes ==
    ASSUME StoreInv, OnlyOutages, NEW o \in Object, Risky(o)
    PROVE  BeingDeleted(o)
<1>1. faults["rot"] = 0 /\ faults["db"] = 0 /\ faults["crash"] = 0
  BY DEF OnlyOutages, FaultKind
<1>2. Cardinality(Request) \in Nat
  BY KindsAssumption, FS_CardinalityType
<1>3. IsFiniteSet(Due) /\ Cardinality(Due) <= 0
  BY <1>1, <1>2 DEF StoreInv, DuePaid
<1>4. Due = {}
  BY <1>3, FS_EmptySet, FS_CardinalityType
<1> QED
  BY <1>4 DEF Due

(* The step of a download: it goes on, or has an answer.                   *)
DownloadRec(r, rec) ==
    /\ rec \in RequestState /\ rec.obj = req[r].obj
    /\ req[r].gone => rec.gone
    /\ rec.pc \in {"done", "fetch"} /\ (rec.pc = "fetch" => rec.answer = "none")

LEMMA DownloadStep ==
    ASSUME StoreInv, NEW r \in Request, req[r].pc \in DownloadPc,
           Still, Grown, UNCHANGED issued,
           NEW rec, DownloadRec(r, rec), Becomes(r, rec),
           OnlyOutages' /\ ~req'[r].gone => DownloadOK(r)'
    PROVE  Keeps(r)
<1>1. Started(r) /\ ~Storing(r) /\ req[r].pc \notin DeletePc /\ req[r].pc # "done"
      /\ req[r].pc # "delete"
  BY DEF Started, DownloadPc, StorePc, Storing, DeletePc
<1>2. /\ Step(r) /\ req'[r] = rec
      /\ KeepsRows /\ Owes(r) /\ Falls(r) /\ (NoFaults' => NoTrouble')
  BY <1>1, StillStep DEF StorePc, DownloadRec
<1> QED
  BY <1>1, <1>2, OwnersStill, NotStoring DEF Keeps, StorePc, DownloadRec

(* What DownloadOK says of the record that the step leaves.                *)
LEMMA DownloadRecOK ==
    ASSUME StoreInv, Still, NEW r \in Request, req[r].pc \in DownloadPc,
           NEW rec, DownloadRec(r, rec), Becomes(r, rec),
           UNCHANGED faults, NEW o \in Object, o = req[r].obj,
           LET rows == RowsWith(o, "HEALTHY")
           IN  /\ rec.pc = "fetch" =>
                    /\ rows = {} \/ rec.todo \subseteq rows
                    /\ BeingDeleted(o) \/ Cardinality((rows \ rec.todo) \cup OfflineNodes)
                                            <= faults["outage"]
               /\ rec.answer \in {"unavailable", "corrupt"} =>
                    BeingDeleted(o) \/ Cardinality(rows) <= faults["outage"]
    PROVE  DownloadOK(r)'
<1>1. req'[r] = rec /\ \A q \in Request \ {r} : req'[q] = req[q]
  BY BecomesIs DEF DownloadRec, StoreInv
<1>2. BeingDeleted(o) => BeingDeleted(o)'
  BY <1>1 DEF BeingDeleted, DeletePc, DownloadPc
<1>3. RowsWith(o, "HEALTHY")' = RowsWith(o, "HEALTHY") /\ OfflineNodes' = OfflineNodes
  BY DEF Still, RowsWith, OfflineNodes, OnlineNodes
<1>4. req'[r].obj = o
  BY <1>1 DEF DownloadRec
<1> QED
  BY <1>1, <1>2, <1>3, <1>4 DEF DownloadOK, Passed

LEMMA ListHealthyKeeps ==
    ASSUME StoreInv, NEW r \in Request, DownloadListHealthy(r), Grown
    PROVE  Keeps(r)
<1>1. req[r] \in RequestState /\ req[r].pc = "listHealthy" /\ req[r].answer = "none"
      /\ Types
  BY DEF StoreInv, Types, Locals, DownloadListHealthy, ReqAt
<1>2. req[r].pc \in DownloadPc /\ Started(r)
  BY <1>1 DEF Started, DownloadPc
<1>3. Still /\ UNCHANGED issued
  BY DEF DownloadListHealthy, Still
<1> PICK o \in Object : o = req[r].obj
  BY <1>2 DEF StoreInv, Types, Locals
<1> DEFINE found == HealthyReplicas(o)
           rows == RowsWith(o, "HEALTHY")
<1>4. found \in SUBSET Node /\ rows \in SUBSET Node /\ OfflineNodes \in SUBSET Node
      /\ found \subseteq rows /\ rows \ found \subseteq OfflineNodes
  BY DEF HealthyReplicas, RowsWith, OfflineNodes, OnlineNodes
<1>5. Cardinality(OfflineNodes) \in Nat /\ Cardinality(rows) \in Nat
      /\ faults["outage"] \in Nat /\ Cardinality(OfflineNodes) <= faults["outage"]
  BY <1>4, NodesFinite DEF StoreInv, Downloads, Types, ClusterTypeOK, FaultKind
<1> DEFINE lost == Answered(r, "unavailable")
           some == [req[r] EXCEPT !.pc = "fetch", !.todo = found]
<1>6. DownloadRec(r, lost) /\ lost.pc = "done"
  BY <1>1, AnsweredIs DEF Answer, DownloadRec
<1>7. DownloadRec(r, some) /\ some.pc = "fetch" /\ some.todo = found /\ some.answer = "none"
  <2> HIDE DEF found
  <2> QED BY <1>1, <1>4 DEF RequestState, DownloadPc, DownloadRec
<1>8. \/ UNCHANGED faults /\ found = {} /\ Becomes(r, lost)
      \/ UNCHANGED faults /\ Becomes(r, some)
      \/ Inject("db") /\ Becomes(r, lost)
  BY DEF DownloadListHealthy, NoFault
<1> HIDE DEF lost, some
<1>9. CASE UNCHANGED faults /\ found = {} /\ Becomes(r, lost)
  <2>1. Cardinality(rows) <= faults["outage"]
    BY <1>4, <1>5, <1>9, FewerNodes
  <2>2. DownloadOK(r)'
    BY <1>2, <1>3, <1>6, <1>9, <2>1, DownloadRecOK
  <2> QED BY <1>2, <1>3, <1>6, <1>9, <2>2, DownloadStep
<1>10. CASE UNCHANGED faults /\ Becomes(r, some)
  <2>1. (rows \ found) \cup OfflineNodes = OfflineNodes
    BY <1>4
  <2> HIDE DEF rows, found
  <2>2. DownloadOK(r)'
    BY <1>2, <1>3, <1>4, <1>5, <1>7, <1>10, <2>1, DownloadRecOK DEF rows
  <2> QED BY <1>2, <1>3, <1>7, <1>10, <2>2, DownloadStep
<1>11. CASE Inject("db") /\ Becomes(r, lost)
  <2>1. ~OnlyOutages'
    BY <1>1, <1>11 DEF Inject, OnlyOutages, Types, ClusterTypeOK, FaultKind
  <2> QED BY <1>2, <1>3, <1>6, <1>11, <2>1, DownloadStep
<1> QED
  BY <1>8, <1>9, <1>10, <1>11

LEMMA ExhaustedKeeps ==
    ASSUME StoreInv, NEW r \in Request, DownloadExhausted(r)
    PROVE  Keeps(r)
<1>1. req[r] \in RequestState /\ req[r].pc = "fetch" /\ Types /\ req[r].todo = {}
  BY DEF StoreInv, Types, DownloadExhausted, ReqAt
<1>2. req[r].pc \in DownloadPc /\ Started(r)
  BY <1>1 DEF Started, DownloadPc
<1>3. Still /\ UNCHANGED <<issued, faults>> /\ Grown
  BY DEF DownloadExhausted, Still, clusterVars, Grown
<1> PICK o \in Object : o = req[r].obj
  BY <1>2 DEF StoreInv, Types, Locals
<1> DEFINE lost == Answered(r, "unavailable")
           rows == RowsWith(o, "HEALTHY")
<1>4. DownloadRec(r, lost) /\ lost.pc = "done" /\ Becomes(r, lost)
      /\ req[r].gone = lost.gone
  BY <1>1, AnsweredIs DEF Answer, DownloadRec, DownloadExhausted
<1>5. req'[r] = lost
  BY <1>4, BecomesIs DEF StoreInv, DownloadRec
<1> HIDE DEF lost
<1>6. ASSUME OnlyOutages', ~req'[r].gone PROVE DownloadOK(r)'
  <2>1. OnlyOutages /\ DownloadOK(r)
    BY <1>1, <1>3, <1>4, <1>5, <1>6, OutagesOnly DEF StoreInv, Downloads
  <2>2. Passed(r) = rows \cup OfflineNodes
    BY <1>1 DEF Passed
  <2>3. rows \cup OfflineNodes \in SUBSET Node /\ rows \in SUBSET (rows \cup OfflineNodes)
    BY DEF RowsWith, OfflineNodes
  <2> HIDE DEF rows
  <2>4. Cardinality(rows) <= Cardinality(rows \cup OfflineNodes)
        /\ Cardinality(rows) \in Nat /\ Cardinality(rows \cup OfflineNodes) \in Nat
    BY <2>3, NodesFinite, FewerNodes
  <2>5. BeingDeleted(o) \/ Cardinality(rows \cup OfflineNodes) <= faults["outage"]
    BY <1>1, <2>1, <2>2 DEF DownloadOK
  <2>6. BeingDeleted(o) \/ Cardinality(rows) <= faults["outage"]
    BY <1>1, <2>4, <2>5 DEF Types, ClusterTypeOK, FaultKind
  <2> QED BY <1>2, <1>3, <1>4, <2>6, DownloadRecOK DEF rows
<1> QED
  BY <1>2, <1>3, <1>4, <1>6, DownloadStep

LEMMA FetchKeeps ==
    ASSUME StoreInv, NEW r \in Request, DownloadFetch(r), Grown
    PROVE  Keeps(r)
<1>1. req[r] \in RequestState /\ req[r].pc = "fetch" /\ req[r].answer = "none"
      /\ Types
  BY DEF StoreInv, Types, Locals, DownloadFetch, ReqAt
<1>2. req[r].pc \in DownloadPc /\ Started(r)
  BY <1>1 DEF Started, DownloadPc
<1>3. Still /\ UNCHANGED issued
  BY DEF DownloadFetch, Still
<1> PICK o \in Object : o = req[r].obj
  BY <1>2 DEF StoreInv, Types, Locals
<1> PICK n \in req[r].todo :
      LET held == disk[o][n]
          next == [req[r] EXCEPT !.todo = @ \ {n}]
          asked == nodeStatus[n] = "ONLINE" /\ ~req[r].gone
      IN  \/ NoFault /\ Becomes(r, Answered(r, "served"))
          \/ held = "bad" /\ NoFault /\ Becomes(r, Answered(r, "corrupt"))
          \/ asked /\ CallLost(r, n, Answered(r, "unavailable"))
          \/ /\ nodeStatus[n] = "OFFLINE" \/ req[r].gone \/ held = "none"
             /\ NoFault /\ Becomes(r, next)
          \/ asked /\ CallLost(r, n, next)
          \/ Inject("db") /\ Becomes(r, next)
  BY DEF DownloadFetch
<1> DEFINE rows == RowsWith(o, "HEALTHY")
           next == [req[r] EXCEPT !.todo = @ \ {n}]
<1>4. n \in Node /\ rows \in SUBSET Node /\ OfflineNodes \in SUBSET Node
      /\ faults["outage"] \in Nat
  BY <1>1 DEF RequestState, RowsWith, OfflineNodes, Types, ClusterTypeOK, FaultKind
<1>5. DownloadRec(r, next) /\ next.pc = "fetch" /\ next.todo = req[r].todo \ {n}
      /\ next.gone = req[r].gone /\ next.answer = "none"
  BY <1>1 DEF RequestState, DownloadPc, DownloadRec
<1>6. /\ \A a \in {"served", "corrupt", "unavailable"} :
            /\ DownloadRec(r, Answered(r, a)) /\ Answered(r, a).pc = "done"
            /\ Answered(r, a).answer = a /\ Answered(r, a).gone = req[r].gone
  BY <1>1, AnsweredIs DEF Answer, DownloadRec
<1>7. ASSUME OnlyOutages, ~req[r].gone
      PROVE  /\ rows = {} \/ req[r].todo \subseteq rows
             /\ BeingDeleted(o) \/ Cardinality((rows \ req[r].todo) \cup OfflineNodes)
                                     <= faults["outage"]
             /\ disk[o][n] # "good" => BeingDeleted(o) \/ rows = {}
  <2>1. DownloadOK(r)
    BY <1>7 DEF StoreInv, Downloads
  <2>2. n \in rows /\ disk[o][n] # "good" => Risky(o)
    BY <1>4 DEF RowsWith, Risky
  <2> QED BY <1>1, <1>7, <2>1, <2>2, NobodyOwes DEF DownloadOK, Passed
<1>8. ASSUME UNCHANGED faults, OnlyOutages', NEW rec, Becomes(r, rec),
             DownloadRec(r, rec), ~req'[r].gone
      PROVE  OnlyOutages /\ ~req[r].gone /\ ~rec.gone
  BY <1>8, OutagesOnly, BecomesIs DEF StoreInv, DownloadRec
<1> HIDE DEF next
<1>9. CASE NoFault /\ Becomes(r, Answered(r, "served"))
  <2>1. req'[r] = Answered(r, "served")
    BY <1>6, <1>9, BecomesIs DEF DownloadRec, StoreInv
  <2>2. DownloadOK(r)'
    BY <1>6, <2>1, NotDownloading
  <2> QED BY <1>2, <1>3, <1>6, <1>9, <2>2, DownloadStep
<1>10. CASE disk[o][n] = "bad" /\ NoFault /\ Becomes(r, Answered(r, "corrupt"))
  <2>1. ASSUME OnlyOutages', ~req'[r].gone PROVE DownloadOK(r)'
    <3>1. BeingDeleted(o) \/ rows = {}
      BY <1>6, <1>7, <1>8, <1>10, <2>1 DEF NoFault
    <3>2. BeingDeleted(o) \/ Cardinality(rows) <= faults["outage"]
      BY <1>4, <3>1, FS_EmptySet
    <3> QED BY <1>2, <1>3, <1>6, <1>10, <3>2, DownloadRecOK DEF NoFault
  <2> QED BY <1>2, <1>3, <1>6, <1>10, <2>1, DownloadStep
<1>11. CASE /\ nodeStatus[n] = "OFFLINE" \/ req[r].gone \/ disk[o][n] = "none"
            /\ NoFault /\ Becomes(r, next)
  <2>1. ASSUME OnlyOutages', ~req'[r].gone PROVE DownloadOK(r)'
    <3>1. OnlyOutages /\ ~req[r].gone
      BY <1>5, <1>8, <1>11, <2>1 DEF NoFault
    <3>2. \/ BeingDeleted(o) \/ rows = {}
          \/ n \in OfflineNodes
      BY <1>4, <1>7, <1>11, <3>1 DEF OfflineNodes, OnlineNodes
    <3>3. CASE rows = {}
      <4>1. (rows \ next.todo) \cup OfflineNodes = OfflineNodes
        BY <3>3
      <4>2. Cardinality(OfflineNodes) <= faults["outage"]
        BY DEF StoreInv, Downloads
      <4> QED BY <1>2, <1>3, <1>5, <1>11, <3>3, <4>1, <4>2, DownloadRecOK DEF NoFault
    <3>4. CASE n \in OfflineNodes
      <4>1. (rows \ next.todo) \cup OfflineNodes = (rows \ req[r].todo) \cup OfflineNodes
        BY <1>5, <3>4
      <4> HIDE DEF rows
      <4>2. rows = {} \/ next.todo \subseteq rows
        BY <1>5, <1>7, <3>1
      <4>3. BeingDeleted(o) \/ Cardinality((rows \ next.todo) \cup OfflineNodes)
                                 <= faults["outage"]
        BY <1>7, <3>1, <4>1
      <4> QED BY <1>2, <1>3, <1>5, <1>11, <4>2, <4>3, DownloadRecOK DEF NoFault, rows
    <3>5. CASE BeingDeleted(o)
      <4> HIDE DEF rows
      <4>1. rows = {} \/ next.todo \subseteq rows
        BY <1>5, <1>7, <3>1
      <4> QED BY <1>2, <1>3, <1>5, <1>11, <3>5, <4>1, DownloadRecOK DEF NoFault, rows
    <3> QED BY <3>2, <3>3, <3>4, <3>5
  <2> QED BY <1>2, <1>3, <1>5, <1>11, <2>1, DownloadStep
<1>12. CASE Inject("db") /\ Becomes(r, next)
  <2>1. ~OnlyOutages'
    BY <1>1, <1>12 DEF Inject, OnlyOutages, Types, ClusterTypeOK, FaultKind
  <2> QED BY <1>2, <1>3, <1>5, <1>12, <2>1, DownloadStep
<1>13. ASSUME NEW rec, DownloadRec(r, rec), nodeStatus[n] = "ONLINE", CallLost(r, n, rec)
       PROVE  Keeps(r)
  <2>1. CASE CallFails(n) /\ Becomes(r, rec)
    <3>1. ~OnlyOutages'
      BY <1>1, <1>13, <2>1
         DEF CallFails, Inject, OnlyOutages, Types, ClusterTypeOK, FaultKind
    <3> QED BY <1>2, <1>3, <1>13, <2>1, <3>1, DownloadStep
  <2>2. CASE Becomes(r, [rec EXCEPT !.gone = TRUE])
    <3> DEFINE left == [rec EXCEPT !.gone = TRUE]
    <3>1. DownloadRec(r, left) /\ left.gone
      BY <1>13 DEF DownloadRec, RequestState
    <3> HIDE DEF left
    <3>2. req'[r] = left
      BY <2>2, <3>1, BecomesIs DEF DownloadRec, StoreInv, left
    <3> QED BY <1>2, <1>3, <2>2, <3>1, <3>2, DownloadStep DEF left
  <2> QED BY <1>13, <2>1, <2>2 DEF CallLost
<1> QED
  BY <1>5, <1>6, <1>9, <1>10, <1>11, <1>12, <1>13 DEF next

-----------------------------------------------------------------------------
(* Calls that change a node's files.                                       *)

RowsStill == UNCHANGED <<factor, replica, nodeStatus, listed, issued>>

(* What a call may do to the file and leave running.                       *)
CallEffect(o, n, outcomes) ==
    \/ UNCHANGED late /\ \E d \in outcomes : SetDisk(o, n, d)
    \/ /\ UNCHANGED disk /\ ~NoFaults'
       /\ \E op \in {"store", "delete"} : late' = late \cup {<<o, n, op>>}

LEMMA EffectIs ==
    ASSUME Types, NEW o \in Object, NEW n \in Node, NEW outcomes \in SUBSET DiskState,
           CallEffect(o, n, outcomes)
    PROVE  /\ disk' \in [Object -> [Node -> DiskState]] /\ late' \subseteq NodeCall
           /\ \A p \in Object : p # o => disk'[p] = disk[p]
           /\ \A m \in Node : m # n => disk'[o][m] = disk[o][m]
           /\ disk'[o][n] \in outcomes \cup {disk[o][n]}
           /\ \A p \in Object, m \in Node :
                p # o \/ m # n => Calls(p, m) \cap late' = Calls(p, m) \cap late
           /\ NoFaults' => late' = late /\ disk'[o][n] \in outcomes
<1>1. CASE UNCHANGED late /\ \E d \in outcomes : SetDisk(o, n, d)
  <2>1. PICK d \in outcomes : disk' = [disk EXCEPT ![o][n] = d]
    BY <1>1 DEF SetDisk
  <2> QED BY <1>1, <2>1 DEF Types, ClusterTypeOK
<1>2. CASE /\ UNCHANGED disk /\ ~NoFaults'
           /\ \E op \in {"store", "delete"} : late' = late \cup {<<o, n, op>>}
  <2>1. PICK op \in {"store", "delete"} : late' = late \cup {<<o, n, op>>}
    BY <1>2
  <2>2. late' \subseteq NodeCall
    BY <2>1 DEF Types, ClusterTypeOK, NodeCall
  <2>3. ASSUME NEW p \in Object, NEW m \in Node, p # o \/ m # n
        PROVE  Calls(p, m) \cap late' = Calls(p, m) \cap late
    BY <2>1, <2>3 DEF Calls
  <2> QED BY <1>2, <2>2, <2>3 DEF Types, ClusterTypeOK
<1> QED
  BY <1>1, <1>2 DEF CallEffect

LEMMA InjectHurts ==
    ASSUME Types, NEW k \in FaultKind, Inject(k) PROVE ~NoFaults'
BY DEF Inject, NoFaults, Types, ClusterTypeOK

(* A write that is lost: its client has left, its node is out, or it is a  *)
(* fault.                                                                  *)
LEMMA WriteLostIs ==
    ASSUME Types, NEW r \in Request, NEW n \in Node, NEW op \in {"store", "delete"},
           NEW outcomes, NEW rec \in RequestState, ~rec.gone,
           WriteLost(r, n, op, outcomes, rec),
           NEW o \in Object, o = req[r].obj
    PROVE  /\ CallEffect(o, n, outcomes)
           /\ \E left \in BOOLEAN :
                /\ Becomes(r, [rec EXCEPT !.gone = left])
                /\ left \/ nodeStatus[n] = "OFFLINE" \/ ~NoFaults'
<1>1. rec = [rec EXCEPT !.gone = FALSE]
  BY DEF RequestState
<1>2. CASE CallLost(r, n, rec) /\ UNCHANGED late
           /\ \E d \in outcomes : SetDisk(o, n, d)
  <2>1. CASE CallFails(n) /\ Becomes(r, rec)
    <3>1. nodeStatus[n] = "OFFLINE" \/ ~NoFaults'
      BY <2>1, InjectHurts DEF CallFails, FaultKind
    <3> QED BY <1>1, <1>2, <2>1, <3>1 DEF CallEffect
  <2>2. CASE Becomes(r, [rec EXCEPT !.gone = TRUE])
    BY <1>2, <2>2 DEF CallEffect
  <2> QED BY <1>2, <2>1, <2>2 DEF CallLost
<1>3. CASE GivenUp(o, n, op) /\ \E left \in BOOLEAN : Becomes(r, [rec EXCEPT !.gone = left])
  <2>1. ~NoFaults'
    BY <1>3, InjectHurts DEF GivenUp, FaultKind
  <2> QED BY <1>3, <2>1 DEF CallEffect, GivenUp
<1> QED
  BY <1>2, <1>3 DEF WriteLost

LEMMA EffectStep ==
    ASSUME StoreInv, NEW r \in Request, Started(r), req[r].pc # "done",
           NEW o \in Object, o = req[r].obj, NEW n \in Node,
           NEW outcomes \in SUBSET DiskState, CallEffect(o, n, outcomes),
           RowsStill, Grown,
           NEW rec \in RequestState, Becomes(r, rec), rec.obj = o,
           req[r].gone => rec.gone, rec.pc = req[r].pc, rec.answer = "none"
    PROVE  /\ Step(r) /\ req'[r] = rec /\ KeepsRows /\ Falls(r)
           /\ BeingDeleted(o) => BeingDeleted(o)'
<1>1. req' \in [Request -> RequestState] /\ req'[r] = rec
      /\ \A q \in Request \ {r} : req'[q] = req[q]
  BY BecomesIs DEF StoreInv
<1>2. rec.pc # "new"
  <2>1. req[r].pc # "new"
    BY DEF Started, StoreInv, Locals, UploadPc, DeletePc, DownloadPc, StorePc
  <2> QED BY <2>1
<1>3. Goes(r)
  BY <1>1, <1>2 DEF Goes, Storing
<1>4. Types'
  BY <1>1, EffectIs, GrownTyped DEF StoreInv, Types, ClusterTypeOK, RowsStill
<1>5. Alone(r)
  BY EffectIs DEF Alone, RowsStill, Exists, StoreInv
<1>6. KeepsRows
  BY DEF KeepsRows, StoreInv, Metadata, Exists, RowsStill
<1>7. BeingDeleted(o) => BeingDeleted(o)'
  BY <1>1 DEF BeingDeleted
<1>8. Falls(r)
  BY <1>7 DEF Falls, RowsStill
<1> QED
  BY <1>1, <1>3, <1>4, <1>5, <1>6, <1>7, <1>8 DEF Step

LEMMA StoreKeeps ==
    ASSUME StoreInv, NEW r \in Request, UploadStore(r), Grown
    PROVE  Keeps(r)
<1>1. req[r] \in RequestState /\ req[r].pc = "store" /\ req[r].answer = "none" /\ Types
  BY DEF StoreInv, Types, Locals, UploadStore, ReqAt
<1>2. Started(r) /\ Storing(r)
  BY <1>1 DEF Started, UploadPc, StorePc, Storing
<1> PICK o \in Object : o = req[r].obj
  BY <1>2 DEF StoreInv, Types, Locals
<1> PICK n \in req[r].todo :
        LET next == [req[r] EXCEPT !.todo = @ \ {n}]
        IN  \/ /\ ~req[r].gone /\ StoreChunk(o, n)
               /\ Becomes(r, [next EXCEPT !.ok = @ \cup {n}])
            \/ ~req[r].gone /\ WriteLost(r, n, "store", DiskState, next)
            \/ /\ req[r].gone /\ Becomes(r, next)
               /\ UNCHANGED <<disk, late, faults>>
  BY DEF UploadStore
<1>3. n \in Node /\ RowsStill
  BY <1>1 DEF RequestState, UploadStore, RowsStill
<1>4. /\ ~Exists(o) /\ req[r].factor # 0 /\ req[r].ok \cap req[r].todo = {}
      /\ \A m \in req[r].ok : disk[o][m] = "good" \/ faults["rot"] # 0
      /\ \A m \in req[r].ok \cup req[r].todo : Calls(o, m) \cap late = {}
      /\ \A m \in Node : replica[o][m] = "NONE"
  BY <1>2 DEF StoreInv, Locals, OwnObject, Metadata
<1> DEFINE next == [req[r] EXCEPT !.todo = @ \ {n}]
<1>5. next \in RequestState /\ next.obj = o /\ next.gone = req[r].gone
      /\ next.pc = "store" /\ next.answer = "none" /\ next.ok = req[r].ok
      /\ next.todo = req[r].todo \ {n} /\ next.factor = req[r].factor
  BY <1>1 DEF RequestState
<1> HIDE DEF next
<1>6. ASSUME NEW rec \in RequestState, Becomes(r, rec), rec.obj = o, rec.pc = "store",
             rec.answer = "none", req[r].gone => rec.gone,
             rec.factor = req[r].factor, rec.todo = req[r].todo \ {n}, CallEffect(o, n, DiskState),
             \/ rec.ok = req[r].ok \cup {n} /\ disk'[o][n] = "good" /\ UNCHANGED late
             \/ rec.ok = req[r].ok /\ (rec.gone \/ nodeStatus[n] = "OFFLINE" \/ ~NoFaults')
      PROVE  Keeps(r)
  <2>1. Step(r) /\ req'[r] = rec /\ KeepsRows /\ Falls(r)
    BY <1>1, <1>2, <1>3, <1>6, EffectStep
  <2>2. /\ \A m \in Node : m # n => disk'[o][m] = disk[o][m]
        /\ \A m \in Node : m # n => Calls(o, m) \cap late' = Calls(o, m) \cap late
        /\ NoFaults' => late' = late
    BY <1>1, <1>3, <1>6, EffectIs
  <2>3. faults'["rot"] # 0 \/ faults["rot"] = 0
    BY <1>1, GrownTyped DEF Types, ClusterTypeOK, FaultKind
  <2>4. OwnObject(r)'
    <3>1. ~Exists(o)'
      BY <1>3, <1>4 DEF Exists, RowsStill
    <3>2. rec.ok \cap rec.todo = {}
      BY <1>4, <1>6
    <3>3. \A m \in rec.ok : disk'[o][m] = "good" \/ faults'["rot"] # 0
      BY <1>1, <1>4, <1>6, <2>2, <2>3 DEF RequestState
    <3>4. \A m \in rec.ok \cup rec.todo : Calls(o, m) \cap late' = {}
      BY <1>1, <1>4, <1>6, <2>2 DEF RequestState
    <3> QED BY <1>4, <1>6, <2>1, <3>1, <3>2, <3>3, <3>4 DEF OwnObject, Exists, Calls
  <2>5. Owes(r)
    <3>1. ~Risky(o)'
      BY <1>3, <1>4 DEF Risky, Exists, RowsStill
    <3> QED BY <3>1 DEF Owes, Due
  <2>6. NoFaults' => NoFaults
    BY <1>1, GrownTyped DEF NoFaults, Types, ClusterTypeOK
  <2>7. \A q \in Request : q # r => req'[q] = req[q]
    BY <2>1 DEF Step, Goes
  <2>8. NoFaults' => NoTrouble'
    BY <1>3, <1>6, <2>1, <2>2, <2>6, <2>7
       DEF StoreInv, Owners, NoTrouble, OfflineNodes, OnlineNodes, RowsStill
  <2>9. ASSUME Undisturbed(o)', NEW m \in Node, disk'[o][m] # "none"
        PROVE  Owned(o, m)'
    <3>1. NoFaults' /\ ~rec.gone /\ nodeStatus[n] # "OFFLINE"
      <4>1. NoFaults' /\ ~rec.gone
        BY <1>6, <2>1, <2>9 DEF Undisturbed, NoFaults
      <4>2. OfflineNodes = {}
        BY <2>6, <4>1 DEF StoreInv, Owners, NoTrouble
      <4> QED BY <1>3, <4>1, <4>2 DEF OfflineNodes, OnlineNodes
    <3>2. rec.ok = req[r].ok \cup {n}
      BY <1>6, <3>1
    <3>3. m \in rec.ok
      <4>1. m # n => m \in req[r].ok
        BY <1>2, <2>1, <2>2, <2>9, StaysDisturbed, UploaderOwns DEF StoreInv
      <4> QED BY <3>2, <4>1
    <3> QED BY <1>6, <2>1, <3>3 DEF Owned, Storing, StorePc
  <2>10. OwnersGo(r)
    BY <2>8, <2>9 DEF OwnersGo, FilesOwned
  <2> QED BY <1>6, <2>1, <2>4, <2>5, <2>10, NotDownloading DEF Keeps
<1>7. CASE ~req[r].gone /\ StoreChunk(o, n) /\ Becomes(r, [next EXCEPT !.ok = @ \cup {n}])
  <2> DEFINE rec == [next EXCEPT !.ok = @ \cup {n}]
  <2>1. rec \in RequestState /\ rec.obj = o /\ rec.gone = req[r].gone
        /\ rec.pc = "store" /\ rec.answer = "none" /\ rec.ok = req[r].ok \cup {n}
        /\ rec.todo = req[r].todo \ {n} /\ rec.factor = req[r].factor
    BY <1>3, <1>5 DEF RequestState
  <2> HIDE DEF rec
  <2>2. CallEffect(o, n, DiskState) /\ disk'[o][n] = "good" /\ UNCHANGED late
    BY <1>1, <1>3, <1>7 DEF StoreChunk, CallEffect, DiskState, SetDisk, Types, ClusterTypeOK
  <2> QED BY <1>6, <1>7, <2>1, <2>2 DEF rec
<1>8. CASE ~req[r].gone /\ WriteLost(r, n, "store", DiskState, next)
  <2>1. PICK left \in BOOLEAN :
             /\ Becomes(r, [next EXCEPT !.gone = left])
             /\ left \/ nodeStatus[n] = "OFFLINE" \/ ~NoFaults'
    BY <1>1, <1>3, <1>5, <1>8, WriteLostIs
  <2>2. CallEffect(o, n, DiskState)
    BY <1>1, <1>3, <1>5, <1>8, WriteLostIs
  <2> DEFINE rec == [next EXCEPT !.gone = left]
  <2>3. rec \in RequestState /\ rec.obj = o /\ rec.gone = left
        /\ rec.pc = "store" /\ rec.answer = "none" /\ rec.ok = req[r].ok
        /\ rec.todo = req[r].todo \ {n} /\ rec.factor = req[r].factor
    BY <1>5 DEF RequestState
  <2> HIDE DEF rec
  <2> QED BY <1>6, <1>8, <2>1, <2>2, <2>3 DEF rec
<1>9. CASE req[r].gone /\ Becomes(r, next) /\ UNCHANGED <<disk, late, faults>>
  <2>1. CallEffect(o, n, DiskState)
    <3>1. disk' = [disk EXCEPT ![o][n] = disk[o][n]] /\ disk[o][n] \in DiskState
      BY <1>1, <1>3, <1>9 DEF Types, ClusterTypeOK
    <3> QED BY <1>9, <3>1 DEF CallEffect, SetDisk
  <2> QED BY <1>5, <1>6, <1>9, <2>1
<1> QED
  BY <1>7, <1>8, <1>9 DEF next

-----------------------------------------------------------------------------
(* Purges.                                                                 *)

(* The chunk is gone, or the client or a fault is to blame.                *)
LEMMA PurgeIs ==
    ASSUME StoreInv, NEW r \in Request, NEW n \in Node, NEW next \in RequestState,
           next.gone = req[r].gone, NEW o \in Object, o = req[r].obj,
           Purge(r, n, next)
    PROVE  \E rec \in RequestState :
             /\ Becomes(r, rec) /\ CallEffect(o, n, {"none", disk[o][n]})
             /\ rec.obj = next.obj /\ rec.pc = next.pc /\ rec.answer = next.answer
             /\ rec.todo = next.todo /\ rec.ok = next.ok
             /\ req[r].gone => rec.gone
             /\ \/ disk'[o][n] = "none" \/ rec.gone
                \/ nodeStatus[n] = "OFFLINE" \/ ~NoFaults'
<1> USE DEF StoreInv
<1>1. /\ {"none", disk[o][n]} \subseteq DiskState
      /\ disk' = disk => disk' = [disk EXCEPT ![o][n] = disk[o][n]]
      /\ disk' = [disk EXCEPT ![o][n] = "none"] => disk'[o][n] = "none"
  <2>1. disk \in [Object -> [Node -> DiskState]]
    BY DEF Types, ClusterTypeOK
  <2>2. {"none", disk[o][n]} \subseteq DiskState
    BY <2>1 DEF DiskState
  <2> QED BY <2>1, <2>2
<1>2. CASE DeleteChunk(o, n) /\ Becomes(r, next)
  BY <1>1, <1>2 DEF DeleteChunk, CallEffect, SetDisk
<1>3. CASE ~req[r].gone /\ WriteLost(r, n, "delete", {"none", disk[o][n]}, next)
  <2>1. PICK left \in BOOLEAN :
             /\ Becomes(r, [next EXCEPT !.gone = left])
             /\ left \/ nodeStatus[n] = "OFFLINE" \/ ~NoFaults'
    BY <1>3, WriteLostIs
  <2>2. CallEffect(o, n, {"none", disk[o][n]})
    BY <1>3, WriteLostIs
  <2> DEFINE rec == [next EXCEPT !.gone = left]
  <2>3. rec \in RequestState /\ rec.obj = next.obj /\ rec.gone = left
        /\ rec.pc = next.pc /\ rec.answer = next.answer /\ rec.ok = next.ok
        /\ rec.todo = next.todo
    BY DEF RequestState
  <2> HIDE DEF rec
  <2> QED BY <1>3, <2>1, <2>2, <2>3 DEF rec
<1>4. CASE req[r].gone /\ Becomes(r, next) /\ UNCHANGED <<disk, late, faults>>
  BY <1>1, <1>4 DEF CallEffect, SetDisk
<1> QED
  BY <1>2, <1>3, <1>4 DEF Purge

LEMMA CleanupKeeps ==
    ASSUME StoreInv, NEW r \in Request, UploadCleanup(r), Grown
    PROVE  Keeps(r)
<1>1. req[r] \in RequestState /\ req[r].pc = "cleanup" /\ req[r].answer = "none" /\ Types
  BY DEF StoreInv, Types, Locals, UploadCleanup, ReqAt
<1>2. Started(r) /\ ~Storing(r)
  BY <1>1 DEF Started, UploadPc, StorePc, Storing
<1> PICK o \in Object : o = req[r].obj
  BY <1>2 DEF StoreInv, Types, Locals
<1> PICK n \in req[r].ok : Purge(r, n, [req[r] EXCEPT !.ok = @ \ {n}])
  BY DEF UploadCleanup
<1>3. n \in Node /\ RowsStill
  BY <1>1 DEF RequestState, UploadCleanup, RowsStill
<1> DEFINE next == [req[r] EXCEPT !.ok = @ \ {n}]
<1>4. next \in RequestState /\ next.obj = o /\ next.gone = req[r].gone
      /\ next.pc = "cleanup" /\ next.answer = "none"
  BY <1>1 DEF RequestState
<1>a. Purge(r, n, next)
  OBVIOUS
<1> HIDE DEF next
<1>5. PICK rec \in RequestState :
        /\ Becomes(r, rec) /\ CallEffect(o, n, {"none", disk[o][n]})
        /\ rec.obj = o /\ rec.pc = "cleanup" /\ rec.answer = "none"
        /\ req[r].gone => rec.gone
  BY <1>3, <1>4, <1>a, PurgeIs
<1>6. {"none", disk[o][n]} \in SUBSET DiskState
  BY <1>1, <1>3 DEF Types, ClusterTypeOK, DiskState
<1>7. /\ Step(r) /\ req'[r] = rec /\ KeepsRows /\ Falls(r)
      /\ BeingDeleted(o) => BeingDeleted(o)'
  BY <1>1, <1>2, <1>3, <1>5, <1>6, EffectStep
<1>8. Owes(r)
  <2>1. CASE Exists(o)
    <3>1. Risky(o)
      BY <1>1, <2>1 DEF Risky
    <3> QED BY <1>7, <3>1 DEF Owes, Due
  <2>2. CASE ~Exists(o)
    <3>1. ~Risky(o)'
      BY <1>3, <2>2 DEF StoreInv, Metadata, Risky, Exists, RowsStill
    <3> QED BY <3>1 DEF Owes, Due
  <2> QED BY <2>1, <2>2
<1>9. ~NoFaults'
  <2>1. ~NoFaults
    BY <1>1 DEF StoreInv, Owners, NoTrouble
  <2> QED BY <1>1, <2>1, GrownTyped DEF NoFaults, Types, ClusterTypeOK
<1>10. OwnersGo(r)
  BY <1>9 DEF OwnersGo, Undisturbed, NoFaults
<1> QED
  BY <1>5, <1>7, <1>8, <1>10, NotDownloading, NotStoring DEF Keeps, StorePc

LEMMA PurgeKeeps ==
    ASSUME StoreInv, NEW r \in Request, DeletePurge(r), Grown
    PROVE  Keeps(r)
<1>1. req[r] \in RequestState /\ req[r].pc = "purge" /\ req[r].answer = "none" /\ Types
  BY DEF StoreInv, Types, Locals, DeletePurge, ReqAt
<1>2. Started(r) /\ ~Storing(r)
  BY <1>1 DEF Started, DeletePc, StorePc, Storing
<1> PICK o \in Object : o = req[r].obj
  BY <1>2 DEF StoreInv, Types, Locals
<1> PICK n \in req[r].todo :
      LET next == [req[r] EXCEPT !.todo = @ \ {n}]
      IN  \/ Purge(r, n, next)
          \/ Inject("db") /\ Becomes(r, next) /\ UNCHANGED <<disk, late>>
  BY DEF DeletePurge
<1>3. n \in Node /\ RowsStill
  BY <1>1 DEF RequestState, DeletePurge, RowsStill
<1> DEFINE next == [req[r] EXCEPT !.todo = @ \ {n}]
<1>4. next \in RequestState /\ next.obj = o /\ next.gone = req[r].gone
      /\ next.pc = "purge" /\ next.answer = "none" /\ next.todo = req[r].todo \ {n}
  BY <1>1 DEF RequestState
<1> HIDE DEF next
<1>5. PICK rec \in RequestState :
        /\ Becomes(r, rec) /\ CallEffect(o, n, {"none", disk[o][n]})
        /\ rec.obj = o /\ rec.pc = "purge" /\ rec.answer = "none"
        /\ rec.todo = req[r].todo \ {n}
        /\ req[r].gone => rec.gone
        /\ \/ disk'[o][n] = "none" \/ rec.gone
           \/ nodeStatus[n] = "OFFLINE" \/ ~NoFaults'
  <2>1. CASE Purge(r, n, next)
    BY <1>3, <1>4, <2>1, PurgeIs
  <2>2. CASE Inject("db") /\ Becomes(r, next) /\ UNCHANGED <<disk, late>>
    <3>1. ~NoFaults'
      BY <1>1, <2>2, InjectHurts DEF FaultKind
    <3>2. disk' = [disk EXCEPT ![o][n] = disk[o][n]]
      BY <1>1, <1>3, <2>2 DEF Types, ClusterTypeOK
    <3> QED BY <1>4, <2>2, <3>1, <3>2 DEF CallEffect, SetDisk
  <2> QED BY <2>1, <2>2 DEF next
<1>6. {"none", disk[o][n]} \in SUBSET DiskState
  BY <1>1, <1>3 DEF Types, ClusterTypeOK, DiskState
<1>7. Step(r) /\ req'[r] = rec /\ KeepsRows /\ Falls(r)
  BY <1>1, <1>2, <1>3, <1>5, <1>6, EffectStep
<1>8. Owes(r)
  <2>1. BeingDeleted(o)'
    BY <1>5, <1>7 DEF BeingDeleted, DeletePc
  <2> QED BY <2>1 DEF Owes, Due
<1>9. /\ \A m \in Node : m # n => disk'[o][m] = disk[o][m]
      /\ NoFaults' => late' = late
  BY <1>1, <1>3, <1>5, <1>6, EffectIs
<1>10. NoFaults' => NoFaults
  BY <1>1, GrownTyped DEF NoFaults, Types, ClusterTypeOK
<1>11. \A q \in Request : q # r => req'[q] = req[q]
  BY <1>7 DEF Step, Goes
<1>12. NoFaults' => NoTrouble'
  BY <1>3, <1>5, <1>7, <1>9, <1>10, <1>11
     DEF StoreInv, Owners, NoTrouble, OfflineNodes, OnlineNodes, RowsStill
<1>13. ASSUME Undisturbed(o)', NEW m \in Node, disk'[o][m] # "none"
       PROVE  Owned(o, m)'
  <2>1. NoFaults' /\ ~rec.gone
    BY <1>5, <1>7, <1>13 DEF Undisturbed, NoFaults
  <2>2. OfflineNodes = {}
    BY <1>10, <2>1 DEF StoreInv, Owners, NoTrouble
  <2>3. m # n
    BY <1>3, <1>5, <1>13, <2>1, <2>2 DEF OfflineNodes, OnlineNodes
  <2>4. Owned(o, m)
    BY <1>7, <1>9, <1>13, <2>3, StaysDisturbed DEF StoreInv, Owners, FilesOwned
  <2>5. replica[o][m] # "NONE"
        /\ \A q \in Request : req[q].obj = o /\ req[q].pc \in {"purge", "delete"}
             => req[q].pc = "purge" /\ m \in req[q].todo
    BY <1>2, <2>4, NoUploader DEF Owned, StoreInv
  <2>6. m \in req'[r].todo /\ req'[r].pc = "purge"
    BY <1>1, <1>5, <1>7, <2>3, <2>5
  <2> QED BY <1>3, <1>11, <2>5, <2>6 DEF Owned, RowsStill
<1>14. OwnersGo(r)
  BY <1>12, <1>13 DEF OwnersGo, FilesOwned
<1> QED
  BY <1>5, <1>7, <1>8, <1>14, NotDownloading, NotStoring DEF Keeps, StorePc

-----------------------------------------------------------------------------
(* The metadata's writes.                                                  *)

LEMMA CommitKeeps ==
    ASSUME StoreInv, NEW r \in Request, UploadCommit(r), Grown
    PROVE  Keeps(r)
<1>1. req[r] \in RequestState /\ req[r].pc = "commit" /\ req[r].answer = "none" /\ Types
  BY DEF StoreInv, Types, Locals, UploadCommit, ReqAt
<1>2. Started(r) /\ Storing(r)
  BY <1>1 DEF Started, UploadPc, StorePc, Storing
<1> PICK o \in Object : o = req[r].obj
  BY <1>2 DEF StoreInv, Types, Locals
<1> PICK out \in TxOutcome :
      /\ TxCost(out)
      /\ IF out = "rolledBack" THEN UNCHANGED <<factor, replica>>
         ELSE /\ factor' = [factor EXCEPT ![o] = req[r].factor]
              /\ replica' = [replica EXCEPT ![o] =
                   [n \in Node |-> IF n \in req[r].ok THEN "HEALTHY" ELSE "NONE"]]
      /\ Becomes(r, IF out = "committed" THEN Answered(r, "created")
                    ELSE [req[r] EXCEPT !.pc = "cleanup"])
  BY DEF UploadCommit
<1> DEFINE row == [n \in Node |-> IF n \in req[r].ok THEN "HEALTHY" ELSE "NONE"]
           rec == IF out = "committed" THEN Answered(r, "created")
                  ELSE [req[r] EXCEPT !.pc = "cleanup"]
<1>3. UNCHANGED <<nodeStatus, disk, late, listed, issued>>
  BY DEF UploadCommit
<1>4. /\ ~Exists(o) /\ req[r].factor # 0 /\ \A m \in Node : replica[o][m] = "NONE"
      /\ \A m \in req[r].ok : disk[o][m] = "good" \/ faults["rot"] # 0
      /\ \A m \in req[r].ok : Calls(o, m) \cap late = {}
      /\ \A q \in Request : Started(q) /\ req[q].obj = o => q = r
  BY <1>2 DEF StoreInv, Locals, OwnObject, Metadata
<1>5. rec \in RequestState /\ rec.obj = o /\ rec.gone = req[r].gone
      /\ rec.pc = (IF out = "committed" THEN "done" ELSE "cleanup")
      /\ rec.answer = (IF out = "committed" THEN "created" ELSE "none")
  <2>1. CASE out = "committed"
    BY <1>1, <2>1, AnsweredIs DEF Answer
  <2>2. CASE out # "committed"
    BY <1>1, <2>2 DEF RequestState, UploadPc
  <2> QED BY <2>1, <2>2
<1>6. Becomes(r, rec)
  OBVIOUS
<1> HIDE DEF rec
<1>7. req' \in [Request -> RequestState] /\ req'[r] = rec
      /\ \A q \in Request \ {r} : req'[q] = req[q]
  BY <1>1, <1>5, <1>6, BecomesIs
<1>8. /\ factor' \in [Object -> Nat] /\ replica' \in [Object -> [Node -> RowStatus]]
      /\ \A p \in Object : p # o => factor'[p] = factor[p] /\ replica'[p] = replica[p]
      /\ \/ factor'[o] = factor[o] /\ replica'[o] = replica[o] /\ out = "rolledBack"
         \/ factor'[o] = req[r].factor /\ replica'[o] = row /\ out # "rolledBack"
  <2>1. row \in [Node -> RowStatus] /\ req[r].factor \in Nat
    BY <1>1 DEF RowStatus, RequestState
  <2> HIDE DEF row
  <2>2. CASE out = "rolledBack"
    BY <1>1, <2>2 DEF Types, ClusterTypeOK
  <2>3. CASE out # "rolledBack"
    BY <1>1, <2>1, <2>3 DEF Types, ClusterTypeOK, row
  <2> QED BY <2>2, <2>3
<1>9. Goes(r)
  BY <1>1, <1>2, <1>5, <1>7 DEF Goes, Storing, Started, StorePc, DeletePc, UploadPc, DownloadPc
<1>10. Types'
  BY <1>1, <1>3, <1>7, <1>8, GrownTyped DEF Types, ClusterTypeOK
<1>11. Alone(r)
  BY <1>2, <1>3, <1>8 DEF Alone, Exists
<1>12. Step(r)
  BY <1>9, <1>10, <1>11 DEF Step
<1>13. out # "committed" => Inject("db") /\ ~NoFaults' /\ faults'["db"] = faults["db"] + 1
  <2>1. out # "committed" => Inject("db")
    BY DEF TxCost
  <2>2. Inject("db") => faults'["db"] = faults["db"] + 1
    BY <1>1 DEF Inject, Types, ClusterTypeOK, FaultKind
  <2> QED BY <1>1, <2>1, <2>2, InjectHurts DEF FaultKind
<1>14. KeepsRows
  BY <1>4, <1>8 DEF KeepsRows, StoreInv, Metadata, Exists
<1>15. Owes(r)
  <2>1. ASSUME out = "committed", faults'["rot"] = 0 PROVE ~Risky(o)'
    <3>1. faults["rot"] = 0
      BY <1>1, <2>1, GrownTyped DEF Types, ClusterTypeOK, FaultKind
    <3>2. \A m \in Node : replica'[o][m] = "HEALTHY" =>
             disk'[o][m] = "good" /\ Calls(o, m) \cap late' = {}
      BY <1>3, <1>4, <1>8, <2>1, <3>1
    <3>3. \A q \in Request : req'[q].obj = o => req'[q].pc # "cleanup"
      BY <1>4, <1>5, <1>7, <2>1 DEF Started, UploadPc
    <3> QED BY <3>2, <3>3 DEF Risky, Calls
  <2> QED BY <1>13, <2>1 DEF Owes, Due
<1>16. NoFaults' => NoTrouble'
  <2>1. NoFaults' => NoFaults
    BY <1>1, GrownTyped DEF NoFaults, Types, ClusterTypeOK
  <2> QED BY <1>3, <1>5, <1>7, <1>13, <2>1
          DEF StoreInv, Owners, NoTrouble, OfflineNodes, OnlineNodes
<1>17. ASSUME Undisturbed(o)', NEW m \in Node, disk'[o][m] # "none"
       PROVE  Owned(o, m)'
  <2>1. out = "committed"
    BY <1>13, <1>17 DEF Undisturbed, NoFaults
  <2>2. m \in req[r].ok
    BY <1>1, <1>2, <1>3, <1>12, <1>17, StaysDisturbed, UploaderOwns
  <2>3. replica'[o][m] = "HEALTHY"
    BY <1>8, <2>1, <2>2
  <2>4. \A q \in Request : req'[q].obj = o => req'[q].pc \notin {"purge", "delete"}
    BY <1>4, <1>5, <1>7, <2>1 DEF Started, DeletePc
  <2> QED BY <2>3, <2>4 DEF Owned
<1>18. OwnersGo(r)
  BY <1>16, <1>17 DEF OwnersGo, FilesOwned
<1>19. Falls(r)
  BY <1>2 DEF Falls
<1> QED
  BY <1>5, <1>7, <1>12, <1>14, <1>15, <1>18, <1>19, NotDownloading, NotStoring
     DEF Keeps, StorePc

LEMMA DeleteKeeps ==
    ASSUME StoreInv, NEW r \in Request, DeleteObject(r), Grown
    PROVE  Keeps(r)
<1>1. req[r] \in RequestState /\ req[r].pc = "delete" /\ req[r].answer = "none" /\ Types
  BY DEF StoreInv, Types, Locals, DeleteObject, ReqAt
<1>2. Started(r) /\ ~Storing(r)
  BY <1>1 DEF Started, DeletePc, StorePc, Storing
<1> PICK o \in Object : o = req[r].obj
  BY <1>2 DEF StoreInv, Types, Locals
<1>3. UNCHANGED <<nodeStatus, disk, late, issued>>
  BY DEF DeleteObject
<1>4. PICK a \in {"deleted", "failed"} : Becomes(r, Answered(r, a))
  BY DEF DeleteObject
<1>5. \/ UNCHANGED <<factor, replica, listed>> /\ Exists(o) /\ Inject("db")
      \/ UNCHANGED <<factor, replica, listed>> /\ ~Exists(o)
      \/ DeleteObjectRow(o)
  BY DEF DeleteObject, TxCost, TxOutcome
<1> DEFINE rec == Answered(r, a)
<1>6. rec \in RequestState /\ rec.obj = o /\ rec.gone = req[r].gone
      /\ rec.pc = "done" /\ rec.answer = a
  BY <1>1, AnsweredIs DEF Answer
<1> HIDE DEF rec
<1>7. req' \in [Request -> RequestState] /\ req'[r] = rec
      /\ \A q \in Request \ {r} : req'[q] = req[q]
  BY <1>1, <1>4, <1>6, BecomesIs DEF rec
<1>8. /\ factor' \in [Object -> Nat] /\ replica' \in [Object -> [Node -> RowStatus]]
      /\ listed' \subseteq Object \X Node
      /\ \A p \in Object : p # o => factor'[p] = factor[p] /\ replica'[p] = replica[p]
      /\ \/ UNCHANGED <<factor, replica>> /\ Exists(o) /\ Inject("db")
         \/ factor'[o] = 0 /\ \A m \in Node : replica'[o][m] = "NONE"
  <2>1. CASE UNCHANGED <<factor, replica, listed>>
    BY <1>1, <1>5, <2>1
       DEF Types, ClusterTypeOK, Exists, StoreInv, Metadata, DeleteObjectRow
  <2>2. CASE DeleteObjectRow(o)
    <3>1. [n \in Node |-> "NONE"] \in [Node -> RowStatus]
      BY DEF RowStatus
    <3> QED BY <1>1, <2>2, <3>1 DEF Types, ClusterTypeOK, DeleteObjectRow
  <2> QED BY <1>5, <2>1, <2>2
<1>9. Goes(r)
  BY <1>1, <1>2, <1>6, <1>7
     DEF Goes, Storing, Started, StorePc, DeletePc, UploadPc, DownloadPc
<1>10. Types'
  BY <1>1, <1>3, <1>7, <1>8, GrownTyped DEF Types, ClusterTypeOK
<1>11. Alone(r)
  BY <1>2, <1>3, <1>8 DEF Alone, Exists
<1>12. Step(r)
  BY <1>9, <1>10, <1>11 DEF Step
<1>13. Inject("db") => ~NoFaults' /\ ~OnlyOutages' /\ faults'["db"] = faults["db"] + 1
  <2>1. Inject("db") => faults'["db"] = faults["db"] + 1
    BY <1>1 DEF Inject, Types, ClusterTypeOK, FaultKind
  <2> QED BY <1>1, <2>1 DEF NoFaults, OnlyOutages, FaultKind, Types, ClusterTypeOK
<1>14. KeepsRows
  BY <1>8 DEF KeepsRows, StoreInv, Metadata, Exists
<1>15. \/ ~Exists(o)' /\ NoRows(o)'
       \/ UNCHANGED <<factor, replica>> /\ Inject("db")
  BY <1>8 DEF Exists, NoRows
<1>16. Owes(r)
  <2>1. NoRows(o)' /\ ~Exists(o)' => ~Risky(o)'
    BY DEF Risky, NoRows
  <2> QED BY <1>13, <1>15, <2>1 DEF Owes, Due
<1>17. Falls(r)
  BY <1>13, <1>15 DEF Falls
<1>18. NoFaults' => NoTrouble'
  <2>1. NoFaults' => NoFaults
    BY <1>1, GrownTyped DEF NoFaults, Types, ClusterTypeOK
  <2> QED BY <1>3, <1>6, <1>7, <2>1
          DEF StoreInv, Owners, NoTrouble, OfflineNodes, OnlineNodes
<1>19. ASSUME Undisturbed(o)', NEW m \in Node, disk'[o][m] # "none"
       PROVE  FALSE
  <2>1. Owned(o, m)
    BY <1>3, <1>12, <1>19, StaysDisturbed DEF StoreInv, Owners, FilesOwned
  <2> QED BY <1>1, <1>2, <2>1, NoUploader DEF Owned, StoreInv
<1>20. OwnersGo(r)
  BY <1>18, <1>19 DEF OwnersGo, FilesOwned
<1> QED
  BY <1>6, <1>7, <1>12, <1>14, <1>16, <1>17, <1>20, NotDownloading, NotStoring
     DEF Keeps, StorePc

-----------------------------------------------------------------------------
(* A crash takes every request with it, and each may leave a call.         *)
LEMMA OrphansAre ==
    ASSUME Types, Locals, NEW calls \in Orphans, NEW c \in calls
    PROVE  \E r \in Request, n \in Node, op \in {"store", "delete"} :
              c = <<req[r].obj, n, op>> /\ req[r].obj \in issued
<1>1. PICK r \in Request : c \in InFlight(r)
  BY DEF Orphans
<1>2. req[r].todo \subseteq Node /\ req[r].ok \subseteq Node
  BY DEF Types, RequestState
<1>3. PICK n \in Node, op \in {"store", "delete"} :
         c = <<req[r].obj, n, op>> /\ req[r].pc \in {"store", "purge", "cleanup"}
  BY <1>1, <1>2 DEF InFlight, ReqAt
<1>4. Started(r)
  BY <1>3 DEF Started, UploadPc, StorePc, DeletePc
<1> QED
  BY <1>3, <1>4 DEF Locals

LEMMA CrashKeeps ==
    ASSUME StoreInv, CrashAPI
    PROVE  StoreInv'
<1> USE DEF StoreInv
<1> PICK calls \in Orphans : late' = late \cup calls
  BY DEF CrashAPI
<1>1. Inject("crash") /\ UNCHANGED <<factor, replica, nodeStatus, disk, listed, issued>>
  BY DEF CrashAPI
<1>2. /\ \A k \in FaultKind : faults[k] \in Nat /\ faults'[k] \in Nat
      /\ faults' \in [FaultKind -> Nat]
      /\ \A k \in FaultKind : k # "crash" => faults'[k] = faults[k]
      /\ faults'["crash"] = faults["crash"] + 1
      /\ {"crash", "db", "rot", "outage"} \subseteq FaultKind
  <2>1. "crash" \in FaultKind
    BY DEF FaultKind
  <2>2. faults \in [FaultKind -> Nat] /\ faults' = [faults EXCEPT !["crash"] = @ + 1]
    BY <1>1 DEF Inject, Types, ClusterTypeOK
  <2> QED BY <2>1, <2>2 DEF FaultKind
<1>3. \A r \in Request :
         /\ req'[r] \in RequestState
         /\ \/ req'[r] = req[r] /\ req[r].pc \in {"new", "done"}
            \/ req'[r].pc = "done" /\ req'[r].answer = "lost"
  <2> SUFFICES ASSUME NEW r \in Request
               PROVE  /\ req'[r] \in RequestState
                      /\ \/ req'[r] = req[r] /\ req[r].pc \in {"new", "done"}
                         \/ req'[r].pc = "done" /\ req'[r].answer = "lost"
    OBVIOUS
  <2>1. req'[r] = IF req[r].pc \in {"new", "done"} THEN req[r] ELSE Answered(r, "lost")
    BY DEF CrashAPI, Interrupted
  <2> QED BY <2>1, AnsweredIs DEF Types, Answer
<1>4. req' \in [Request -> RequestState]
  BY <1>3 DEF CrashAPI, Interrupted
<1>5. \A c \in calls : \E r \in Request, n \in Node, op \in {"store", "delete"} :
         c = <<req[r].obj, n, op>> /\ req[r].obj \in issued
  BY OrphansAre
<1>6. calls \subseteq NodeCall
  BY <1>5 DEF Types, NodeCall
<1>7. Types'
  BY <1>1, <1>2, <1>4, <1>6 DEF Types, ClusterTypeOK
<1>8. Locals'
  BY <1>1, <1>3 DEF Locals, OwnObject, Storing, StorePc, Started, UploadPc, DeletePc,
     DownloadPc
<1>9. Metadata'
  <2>1. ASSUME NEW o \in Object, o \notin issued, NEW n \in Node
        PROVE  Calls(o, n) \cap late' = {}
    <3>1. \A c \in calls : c \notin Calls(o, n)
      BY <1>5, <2>1 DEF Calls
    <3> QED BY <2>1, <3>1 DEF Metadata
  <2> QED BY <1>1, <2>1 DEF Metadata, Exists, Calls
<1>10. ~NoFaults' /\ ~OnlyOutages'
  BY <1>2 DEF NoFaults, OnlyOutages, FaultKind
<1>11. Owners' /\ Downloads'
  BY <1>1, <1>2, <1>10
     DEF Owners, Undisturbed, NoFaults, Downloads, OfflineNodes, OnlineNodes
<1>12. DuePaid'
  <2> SUFFICES ASSUME faults'["rot"] = 0
               PROVE  /\ IsFiniteSet(Due')
                      /\ Cardinality(Due') <= faults'["db"]
                                    + faults'["crash"] * Cardinality(Request)
    BY DEF DuePaid
  <2> DEFINE of == [r \in Request |-> req[r].obj]
             hit == {of[r] : r \in Request}
  <2>1. IsFiniteSet(hit) /\ Cardinality(hit) <= Cardinality(Request)
    <3>1. of \in Surjection(Request, hit)
      BY DEF Surjection
    <3> QED BY <3>1, KindsAssumption, FS_Surjection
  <2>2. \A o \in Due' : o \in Due \/ o \in hit
    <3> SUFFICES ASSUME NEW o \in Due', o \notin hit PROVE o \in Due
      OBVIOUS
    <3>1. o \in Object /\ Risky(o)'
      BY DEF Due
    <3>2. \A r \in Request : req[r].obj # o
      OBVIOUS
    <3>3. \A n \in Node : Calls(o, n) \cap late' = Calls(o, n) \cap late
      BY <1>5, <3>2 DEF Calls
    <3>4. \A r \in Request : req'[r].pc # "cleanup"
      BY <1>3
    <3>5. Risky(o)
      BY <1>1, <3>1, <3>3, <3>4 DEF Risky, Exists, Calls
    <3> QED BY <3>1, <3>2, <3>5 DEF Due, BeingDeleted
  <2> HIDE DEF hit
  <2>3. IsFiniteSet(Due) /\ Cardinality(Due) \in Nat
        /\ Cardinality(Due) <= faults["db"] + faults["crash"] * Cardinality(Request)
    BY <1>2, FS_CardinalityType DEF DuePaid
  <2>4. IsFiniteSet(Due \cup hit) /\ Cardinality(Due \cup hit) \in Nat
        /\ Cardinality(Due \cup hit) <= Cardinality(Due) + Cardinality(hit)
    <3>1. IsFiniteSet(Due \cap hit) /\ Cardinality(Due \cap hit) \in Nat
      BY <2>3, FS_Intersection, FS_CardinalityType
    <3>2. IsFiniteSet(Due \cup hit) /\ Cardinality(Due \cup hit)
             = Cardinality(Due) + Cardinality(hit) - Cardinality(Due \cap hit)
      BY <2>1, <2>3, FS_Union
    <3>3. Cardinality(hit) \in Nat /\ Cardinality(Due \cup hit) \in Nat
      BY <2>1, <3>2, FS_CardinalityType
    <3> QED BY <2>3, <3>1, <3>2, <3>3
  <2>5. IsFiniteSet(Due') /\ Cardinality(Due') \in Nat
        /\ Cardinality(Due') <= Cardinality(Due \cup hit)
    <3>1. Due' \in SUBSET (Due \cup hit)
      BY <2>2
    <3> QED BY <2>4, <3>1, FS_Subset, FS_CardinalityType
  <2> DEFINE c == Cardinality(Request)
  <2>6. c \in Nat /\ Cardinality(hit) \in Nat
    BY <2>1, KindsAssumption, FS_CardinalityType
  <2>7. faults'["crash"] * c = faults["crash"] * c + c /\ faults["crash"] * c \in Nat
    BY <1>2, <2>6
  <2> QED BY <1>2, <2>1, <2>3, <2>4, <2>5, <2>6, <2>7
<1> QED
  BY <1>7, <1>8, <1>9, <1>11, <1>12

-----------------------------------------------------------------------------
(* The environment.                                                        *)
LEMMA EnvironmentKeeps ==
    ASSUME StoreInv, Environment, UNCHANGED apiVars
    PROVE  StoreInv'
<1> USE DEF StoreInv
<1>1. UNCHANGED <<factor, replica, listed, req, issued>>
  BY DEF Environment, NodeTimesOut, NodeReturns, ChunkRots, LateHandler, apiVars
<1>2. Grown
  BY EnvironmentGrows
<1>3. faults' \in [FaultKind -> Nat] /\ \A k \in FaultKind : faults'[k] >= faults[k]
  BY <1>2, GrownTyped
<1>4. ASSUME UNCHANGED <<disk, late>>,
             nodeStatus' \in [Node -> {"ONLINE", "OFFLINE"}], DuePaid',
             NoFaults' => OfflineNodes' \subseteq OfflineNodes, Downloads'
      PROVE  StoreInv'
  <2>1. Types' /\ Locals' /\ Metadata'
    BY <1>1, <1>3, <1>4 DEF Types, ClusterTypeOK, Locals, OwnObject, Storing, Started,
       Metadata, Exists, FaultKind
  <2>2. NoFaults' => NoFaults
    BY <1>3 DEF NoFaults, Types, ClusterTypeOK
  <2>3. Owners'
    <3>1. NoFaults' => NoTrouble'
      BY <1>1, <1>4, <2>2 DEF Owners, NoTrouble
    <3>2. ASSUME NEW o \in Object, Undisturbed(o)' PROVE FilesOwned(o)'
      <4>1. NoFaults'
        BY <3>2 DEF Undisturbed, NoFaults
      <4>2. Undisturbed(o)
        BY <1>1, <2>2, <3>2, <4>1 DEF Undisturbed, NoFaults
      <4> QED BY <1>1, <1>4, <4>2 DEF Owners, FilesOwned, Owned, Storing
    <3> QED BY <3>1, <3>2 DEF Owners
  <2> QED BY <1>4, <2>1, <2>3
<1>5. \A r \in Request : RowsWith(req[r].obj, "HEALTHY")' = RowsWith(req[r].obj, "HEALTHY")
      /\ (RowsWith(req[r].obj, "HEALTHY") \in SUBSET Node)
      /\ (BeingDeleted(req[r].obj)' <=> BeingDeleted(req[r].obj))
  BY <1>1 DEF RowsWith, BeingDeleted
<1>6. OfflineNodes \in SUBSET Node /\ faults["outage"] \in Nat /\ faults'["outage"] \in Nat
  BY <1>3 DEF OfflineNodes, Types, ClusterTypeOK, FaultKind
<1>7. CASE \E n \in Node : NodeTimesOut(n)
  <2> PICK n \in Node : NodeTimesOut(n)
    BY <1>7
  <2>1. UNCHANGED <<disk, late>> /\ Inject("outage")
        /\ nodeStatus' = [nodeStatus EXCEPT ![n] = "OFFLINE"]
    BY DEF NodeTimesOut
  <2>2. nodeStatus' \in [Node -> {"ONLINE", "OFFLINE"}]
        /\ OfflineNodes' \subseteq OfflineNodes \cup {n}
    BY <2>1 DEF Types, ClusterTypeOK, OfflineNodes, OnlineNodes
  <2>3. faults'["outage"] = faults["outage"] + 1
        /\ \A k \in FaultKind \ {"outage"} : faults'[k] = faults[k]
    BY <2>1 DEF Inject, Types, ClusterTypeOK, FaultKind
  <2>4. ~NoFaults'
    BY <1>6, <2>3 DEF NoFaults, FaultKind
  <2>5. DuePaid'
    <3>1. Due' = Due
      BY <1>1, <2>1 DEF Due, Risky, BeingDeleted, Exists
    <3> QED BY <2>3, <3>1 DEF DuePaid, FaultKind
  <2>6. ASSUME NEW S \in SUBSET Node, NEW T \in SUBSET Node, T \subseteq S \cup {n},
               Cardinality(S) <= faults["outage"]
        PROVE  Cardinality(T) <= faults'["outage"]
    <3>1. Cardinality(S \cup {n}) <= Cardinality(S) + 1
          /\ Cardinality(S \cup {n}) \in Nat /\ Cardinality(S) \in Nat
      BY NodesFinite, FS_AddElement
    <3>2. Cardinality(T) <= Cardinality(S \cup {n}) /\ Cardinality(T) \in Nat
      BY <2>6, NodesFinite, FewerNodes
    <3> QED BY <1>6, <2>3, <2>6, <3>1, <3>2
  <2>7. OfflineNodes' \in SUBSET Node
    BY DEF OfflineNodes
  <2>8. ASSUME NEW r \in Request, OnlyOutages', ~req'[r].gone PROVE DownloadOK(r)'
    <3> PICK o : o = req[r].obj
      OBVIOUS
    <3> DEFINE rows == RowsWith(o, "HEALTHY")
    <3>1. DownloadOK(r)
      BY <1>1, <1>2, <2>8, OutagesOnly DEF Downloads
    <3>2. rows \in SUBSET Node /\ RowsWith(o, "HEALTHY")' = rows
          /\ (BeingDeleted(o) => BeingDeleted(o)')
      BY <1>1 DEF RowsWith, BeingDeleted
    <3> HIDE DEF rows
    <3>3. req[r].pc = "fetch" =>
             /\ rows = {} \/ req[r].todo \subseteq rows
             /\ BeingDeleted(o)' \/ Cardinality((rows \ req[r].todo) \cup OfflineNodes')
                                      <= faults'["outage"]
      <4>1. req[r].pc = "fetch" =>
              /\ rows = {} \/ req[r].todo \subseteq rows
              /\ BeingDeleted(o) \/ Cardinality((rows \ req[r].todo) \cup OfflineNodes)
                                       <= faults["outage"]
        BY <3>1 DEF DownloadOK, Passed, rows
      <4> DEFINE S == (rows \ req[r].todo) \cup OfflineNodes
                 T == (rows \ req[r].todo) \cup OfflineNodes'
      <4>2. S \in SUBSET Node /\ T \in SUBSET Node /\ T \subseteq S \cup {n}
        BY <1>6, <2>2, <2>7, <3>2
      <4> HIDE DEF S, T
      <4>3. Cardinality(S) <= faults["outage"] => Cardinality(T) <= faults'["outage"]
        BY <2>6, <4>2
      <4> QED BY <3>2, <4>1, <4>3 DEF S, T
    <3>4. req[r].answer \in {"unavailable", "corrupt"} =>
             BeingDeleted(o)' \/ Cardinality(rows) <= faults'["outage"]
      <4>1. req[r].answer \in {"unavailable", "corrupt"} =>
              BeingDeleted(o) \/ Cardinality(rows) <= faults["outage"]
        BY <3>1 DEF DownloadOK, rows
      <4>2. Cardinality(rows) <= faults["outage"] => Cardinality(rows) <= faults'["outage"]
        BY <2>6, <3>2
      <4> QED BY <3>2, <4>1, <4>2
    <3> QED BY <1>1, <3>2, <3>3, <3>4 DEF DownloadOK, Passed
  <2>9. Cardinality(OfflineNodes') <= faults'["outage"]
    BY <1>6, <2>2, <2>6, <2>7 DEF Downloads
  <2>10. Downloads'
    BY <2>8, <2>9 DEF Downloads
  <2> QED BY <1>4, <2>1, <2>2, <2>4, <2>5, <2>10
<1>8. CASE \E n \in Node : NodeReturns(n)
  <2> PICK n \in Node : NodeReturns(n)
    BY <1>8
  <2>1. UNCHANGED <<disk, late, faults>>
        /\ nodeStatus' = [nodeStatus EXCEPT ![n] = "ONLINE"]
    BY DEF NodeReturns
  <2>2. nodeStatus' \in [Node -> {"ONLINE", "OFFLINE"}]
        /\ OfflineNodes' \in SUBSET OfflineNodes
    BY <2>1 DEF Types, ClusterTypeOK, OfflineNodes, OnlineNodes
  <2>3. DuePaid'
    <3>1. Due' = Due
      BY <1>1, <2>1 DEF Due, Risky, BeingDeleted, Exists
    <3> QED BY <2>1, <3>1 DEF DuePaid
  <2>4. ASSUME NEW r \in Request, OnlyOutages', ~req'[r].gone PROVE DownloadOK(r)'
    <3> PICK o : o = req[r].obj
      OBVIOUS
    <3> DEFINE rows == RowsWith(o, "HEALTHY")
    <3>1. DownloadOK(r)
      BY <1>1, <1>2, <2>4, OutagesOnly DEF Downloads
    <3>2. rows \in SUBSET Node /\ RowsWith(o, "HEALTHY")' = rows
          /\ (BeingDeleted(o) => BeingDeleted(o)')
      BY <1>1 DEF RowsWith, BeingDeleted
    <3> HIDE DEF rows
    <3>3. Cardinality((rows \ req[r].todo) \cup OfflineNodes')
             <= Cardinality((rows \ req[r].todo) \cup OfflineNodes)
          /\ Cardinality((rows \ req[r].todo) \cup OfflineNodes') \in Nat
          /\ Cardinality((rows \ req[r].todo) \cup OfflineNodes) \in Nat
      <4> DEFINE S == (rows \ req[r].todo) \cup OfflineNodes
                 T == (rows \ req[r].todo) \cup OfflineNodes'
      <4>1. S \in SUBSET Node /\ T \in SUBSET S /\ T \in SUBSET Node
        BY <1>6, <2>2, <3>2
      <4> HIDE DEF S, T
      <4>2. Cardinality(T) <= Cardinality(S) /\ Cardinality(S) \in Nat
            /\ Cardinality(T) \in Nat
        BY <4>1, NodesFinite, FewerNodes
      <4> QED BY <4>2 DEF S, T
    <3>4. req[r].pc = "fetch" =>
             /\ rows = {} \/ req[r].todo \subseteq rows
             /\ BeingDeleted(o)' \/ Cardinality((rows \ req[r].todo) \cup OfflineNodes')
                                      <= faults'["outage"]
      <4>1. req[r].pc = "fetch" =>
              /\ rows = {} \/ req[r].todo \subseteq rows
              /\ BeingDeleted(o) \/ Cardinality((rows \ req[r].todo) \cup OfflineNodes)
                                       <= faults["outage"]
        BY <3>1 DEF DownloadOK, Passed, rows
      <4> QED BY <1>6, <2>1, <3>2, <3>3, <4>1
    <3>5. req[r].answer \in {"unavailable", "corrupt"} =>
              BeingDeleted(o)' \/ Cardinality(rows) <= faults'["outage"]
      BY <2>1, <3>1, <3>2 DEF DownloadOK, rows
    <3> QED BY <1>1, <3>2, <3>4, <3>5 DEF DownloadOK, Passed
  <2>5. Cardinality(OfflineNodes') <= faults'["outage"]
    <3>1. Cardinality(OfflineNodes') <= Cardinality(OfflineNodes)
          /\ Cardinality(OfflineNodes') \in Nat /\ Cardinality(OfflineNodes) \in Nat
      BY <1>6, <2>2, NodesFinite, FewerNodes
    <3> QED BY <1>6, <2>1, <3>1 DEF Downloads
  <2>6. Downloads'
    BY <2>4, <2>5 DEF Downloads
  <2> QED BY <1>4, <2>1, <2>2, <2>3, <2>6
<1>9. ASSUME NEW o \in Object, NEW n \in Node, ChunkRots(o, n)
      PROVE  StoreInv'
  <2>1. UNCHANGED <<nodeStatus, late>> /\ Inject("rot")
    BY <1>9 DEF ChunkRots
  <2>2. PICK d \in {"bad", "none"} : disk' = [disk EXCEPT ![o][n] = d]
    BY <1>9 DEF ChunkRots, SetDisk
  <2>3. disk[o][n] = "good"
    BY <1>9 DEF ChunkRots
  <2>4. faults'["rot"] # 0 /\ faults'["outage"] = faults["outage"]
    BY <2>1 DEF Inject, Types, ClusterTypeOK, FaultKind
  <2>5. Types'
    BY <1>1, <1>3, <2>1, <2>2 DEF Types, ClusterTypeOK, DiskState
  <2>6. Locals'
    BY <1>1, <2>1, <2>4 DEF Locals, OwnObject, Storing, Started, Exists
  <2>7. Metadata'
    <3>1. \A p \in Object, m \in Node : disk[p][m] = "none" => disk'[p][m] = "none"
      BY <2>2, <2>3 DEF Types, ClusterTypeOK
    <3> QED BY <1>1, <2>1, <3>1 DEF Metadata, Exists
  <2>8. ~NoFaults' /\ ~OnlyOutages'
    BY <2>4 DEF NoFaults, OnlyOutages, FaultKind
  <2> QED BY <2>1, <2>4, <2>5, <2>6, <2>7, <2>8
          DEF DuePaid, Owners, Undisturbed, NoFaults, Downloads, OfflineNodes, OnlineNodes
<1>10. ASSUME NEW o \in Object, NEW n \in Node, NEW op \in {"store", "delete"},
              LateHandler(o, n, op)
       PROVE  StoreInv'
  <2>1. UNCHANGED <<nodeStatus, faults>> /\ late' \subseteq late /\ <<o, n, op>> \in late
    BY <1>10 DEF LateHandler
  <2>2. PICK d \in DiskState : disk' = [disk EXCEPT ![o][n] = d]
    <3>1. disk[o][n] \in DiskState /\ "none" \in DiskState
      BY DEF Types, ClusterTypeOK, DiskState
    <3> QED BY <1>10, <3>1 DEF LateHandler, SetDisk
  <2>3. \A p \in Object, m \in Node : p # o \/ m # n => disk'[p][m] = disk[p][m]
    BY <2>2 DEF Types, ClusterTypeOK
  <2>4. <<o, n, op>> \in Calls(o, n) \cap late
    BY <2>1 DEF Calls
  <2>5. Types'
    BY <1>1, <2>1, <2>2 DEF Types, ClusterTypeOK
  <2>6. Locals'
    <3>1. ASSUME NEW r \in Request PROVE OwnObject(r)'
      <4>1. CASE Storing(r)
        <5>1. OwnObject(r) /\ req[r].obj \in Object /\ req[r].ok \subseteq Node
          BY <4>1 DEF Locals, Types, RequestState, Started, Storing, UploadPc
        <5>2. \A m \in req[r].ok : disk'[req[r].obj][m] = disk[req[r].obj][m]
          BY <2>3, <2>4, <4>1, <5>1 DEF OwnObject
        <5> QED BY <1>1, <2>1, <5>1, <5>2 DEF OwnObject, Storing, Exists
      <4>2. CASE ~Storing(r)
        BY <1>1, <4>2 DEF OwnObject, Storing
      <4> QED BY <4>1, <4>2
    <3> QED BY <1>1, <3>1 DEF Locals, Storing, Started
  <2>7. Metadata'
    <3>1. o \in issued
      BY <2>4 DEF Metadata
    <3> QED BY <1>1, <2>1, <2>3, <3>1 DEF Metadata, Exists
  <2>8. DuePaid'
    <3>1. ASSUME NEW p \in Object, Risky(p)' PROVE Risky(p)
      <4>1. CASE p # o
        BY <1>1, <2>1, <2>3, <3>1, <4>1 DEF Risky, Exists
      <4>2. CASE p = o
        <5>1. CASE Exists(p)' /\ \E r \in Request : req'[r].obj = p /\ req'[r].pc = "cleanup"
          BY <1>1, <5>1 DEF Risky, Exists
        <5>2. ASSUME NEW m \in Node, replica'[p][m] = "HEALTHY",
                     disk'[p][m] # "good" \/ Calls(p, m) \cap late' # {}
              PROVE  Risky(p)
          <6>1. CASE m = n
            BY <1>1, <2>4, <4>2, <5>2, <6>1 DEF Risky
          <6>2. CASE m # n
            BY <1>1, <2>1, <2>3, <5>2, <6>2 DEF Risky
          <6> QED BY <6>1, <6>2
        <5> QED BY <3>1, <5>1, <5>2 DEF Risky, Calls
      <4> QED BY <4>1, <4>2
    <3>2. Due' \subseteq Due
      BY <1>1, <3>1 DEF Due, BeingDeleted
    <3>3. ASSUME IsFiniteSet(Due)
          PROVE  IsFiniteSet(Due') /\ Cardinality(Due') <= Cardinality(Due)
                 /\ Cardinality(Due') \in Nat /\ Cardinality(Due) \in Nat
      BY <3>2, <3>3, FS_Subset, FS_CardinalityType
    <3>4. Cardinality(Request) \in Nat /\ faults["crash"] \in Nat /\ faults["db"] \in Nat
      BY KindsAssumption, FS_CardinalityType DEF Types, ClusterTypeOK, FaultKind
    <3>5. faults["crash"] * Cardinality(Request) \in Nat
      BY <3>4
    <3> QED BY <2>1, <3>3, <3>4, <3>5 DEF DuePaid
  <2>9. ~NoFaults
    BY <2>1 DEF Owners, NoTrouble
  <2>10. Owners'
    BY <2>1, <2>9 DEF Owners, Undisturbed, NoFaults
  <2>11. Downloads'
    BY <1>1, <2>1 DEF Downloads, DownloadOK, Passed, OnlyOutages, OfflineNodes,
       OnlineNodes, RowsWith, BeingDeleted
  <2> QED BY <2>5, <2>6, <2>7, <2>8, <2>10, <2>11
<1> QED
  BY <1>7, <1>8, <1>9, <1>10 DEF Environment

-----------------------------------------------------------------------------
(* The requests for accounts and lists: what they share with the others is *)
(* their record, which they take up and answer.                            *)
LEMMA OutsideKeeps ==
    ASSUME StoreInv, NEW r \in Request, UNCHANGED replicaVars, Grown,
           \/ ReqAt(r, "new") /\ (TakenUp(r) \/ Answers(r))
           \/ ReqAt(r, "elsewhere") /\ (Answers(r) \/ UNCHANGED req)
    PROVE  Keeps(r)
<1>1. req[r] \in RequestState /\ req[r].pc \in {"new", "elsewhere"}
      /\ req[r].answer = "none" /\ Types /\ req \in [Request -> RequestState]
  BY DEF StoreInv, Types, Locals, ReqAt
<1>2. ~Started(r) /\ ~Storing(r) /\ req[r].pc \notin DeletePc /\ req[r].pc # "done"
  BY <1>1 DEF Started, Storing, UploadPc, DeletePc, DownloadPc, StorePc
<1>3. Still /\ UNCHANGED issued
  BY DEF replicaVars, Still
<1>4. PICK rec \in RequestState :
        /\ req' \in [Request -> RequestState] /\ req'[r] = rec
        /\ \A q \in Request \ {r} : req'[q] = req[q]
        /\ rec.obj = req[r].obj /\ rec.gone = req[r].gone
        /\ rec.pc \in {"elsewhere", "done"}
        /\ rec.answer \in {"none", "elsewhere"}
        /\ rec.pc # "done" => rec.answer = "none"
  <2>1. CASE TakenUp(r)
    <3> DEFINE rec == [req[r] EXCEPT !.pc = "elsewhere"]
    <3>1. rec \in RequestState /\ rec.obj = req[r].obj /\ rec.gone = req[r].gone
          /\ rec.pc = "elsewhere" /\ rec.answer = "none"
      BY <1>1 DEF RequestState
    <3> HIDE DEF rec
    <3>2. /\ req' \in [Request -> RequestState] /\ req'[r] = rec
          /\ \A q \in Request \ {r} : req'[q] = req[q]
      BY <1>1, <2>1, <3>1, BecomesIs DEF TakenUp, rec
    <3> QED BY <3>1, <3>2
  <2>2. CASE Answers(r)
    <3> DEFINE rec == Answered(r, "elsewhere")
    <3>1. rec \in RequestState /\ rec.obj = req[r].obj /\ rec.gone = req[r].gone
          /\ rec.pc = "done" /\ rec.answer = "elsewhere"
      BY <1>1, AnsweredIs DEF Answer
    <3> HIDE DEF rec
    <3>2. /\ req' \in [Request -> RequestState] /\ req'[r] = rec
          /\ \A q \in Request \ {r} : req'[q] = req[q]
      BY <1>1, <2>2, <3>1, BecomesIs DEF Answers, rec
    <3> QED BY <3>1, <3>2
  <2>3. CASE ReqAt(r, "elsewhere") /\ UNCHANGED req
    BY <1>1, <2>3 DEF ReqAt
  <2> QED BY <2>1, <2>2, <2>3
<1>5. Goes(r)
  BY <1>2, <1>4 DEF Goes, Started, Storing, UploadPc, DeletePc, DownloadPc, StorePc
<1>6. Step(r)
  <2>1. issued' \subseteq Object
    BY <1>1, <1>3 DEF Types
  <2> QED BY <1>1, <1>3, <1>4, <1>5, <2>1, StillTyped, StillAlone DEF Step
<1>7. OwnObject(r)'
  BY <1>4, NotStoring DEF StorePc
<1> QED
  BY <1>2, <1>3, <1>4, <1>6, <1>7, FromNewKeeps

LEMMA AccountsKeepStore ==
    ASSUME StoreInv, NEW r \in Request, AccountStep(r) PROVE Keeps(r)
<1>1. Grown
  BY AccountsGrow
<1>2. CASE RegisterCheck(r)
  BY <1>1, <1>2, OutsideKeeps DEF RegisterCheck, Refuse
<1>3. CASE RegisterCreate(r)
  BY <1>1, <1>3, OutsideKeeps DEF RegisterCreate, Refuse, Under
<1>4. CASE LoginCheck(r)
  BY <1>1, <1>4, OutsideKeeps DEF LoginCheck, Refuse
<1>5. CASE EnterAndAnswer(r, "enterRegister", "registered")
  BY <1>1, <1>5, OutsideKeeps DEF EnterAndAnswer, Under
<1>6. CASE EnterAndAnswer(r, "enterLogin", "loggedIn")
  BY <1>1, <1>6, OutsideKeeps DEF EnterAndAnswer, Under
<1> QED
  BY <1>2, <1>3, <1>4, <1>5, <1>6 DEF AccountStep

LEMMA ListingsKeepStore ==
    ASSUME StoreInv, NEW r \in Request, ListingStep(r) PROVE Keeps(r)
<1>1. Grown
  BY ListingsGrow
<1>2. CASE LogsBegin(r) \/ ListBegin(r)
  BY <1>1, <1>2, OutsideKeeps DEF LogsBegin, ListBegin
<1>3. CASE LogsPage(r)
  BY <1>1, <1>3, OutsideKeeps DEF LogsPage
<1>4. CASE LogsCount(r)
  BY <1>1, <1>4, OutsideKeeps DEF LogsCount
<1>5. CASE ListPage(r)
  BY <1>1, <1>5, OutsideKeeps DEF ListPage
<1> QED
  BY <1>2, <1>3, <1>4, <1>5 DEF ListingStep

-----------------------------------------------------------------------------
(* The invariant of the metadata, the files and the requests for objects.  *)

LEMMA RequestsKeep ==
    ASSUME StoreInv, NEW r \in Request, APIStep(r) PROVE Keeps(r)
<1>1. CASE \/ UploadPlace(r) \/ UploadStore(r) \/ UploadStored(r)
           \/ UploadCommit(r) \/ UploadCleanup(r) \/ UploadCleaned(r)
  BY <1>1, UploadsGrow, PlaceKeeps, StoreKeeps, StoredKeeps, CommitKeeps,
     CleanupKeeps, CleanedKeeps
<1>2. CASE \/ DeleteLoad(r) \/ DeleteListRows(r) \/ DeletePurge(r)
           \/ DeletePurged(r) \/ DeleteObject(r)
  <2>1. DeleteLoad(r) => LoadOrNotFound(r, "listRows")
    BY DEF DeleteLoad
  <2> QED BY <1>2, <2>1, DeletesGrow, LoadKeeps, ListRowsKeeps, PurgeKeeps,
             PurgedKeeps, DeleteKeeps
<1>3. CASE \/ DownloadLoad(r) \/ DownloadListHealthy(r) \/ DownloadFetch(r)
           \/ DownloadExhausted(r)
  <2>1. DownloadLoad(r) => LoadOrNotFound(r, "listHealthy")
    BY DEF DownloadLoad
  <2> QED BY <1>3, <2>1, DownloadsGrow, LoadKeeps, ListHealthyKeeps, FetchKeeps,
             ExhaustedKeeps
<1> QED
  BY <1>1, <1>2, <1>3 DEF APIStep

LEMMA StoreStarts ==
    ASSUME ObjectAPIInit PROVE StoreInv
<1>1. /\ factor \in [Object -> Factors \cup {0}] /\ {o \in Object : Exists(o)} \in Stored
      /\ nodeStatus = [n \in Node |-> "ONLINE"] /\ late = {} /\ listed = {}
      /\ faults = [k \in FaultKind |-> 0]
      /\ req = [r \in Request |->
                [pc |-> "new", obj |-> NoObject, factor |-> 0, todo |-> {},
                 ok |-> {}, gone |-> FALSE, answer |-> "none"]]
      /\ issued = {o \in Object : Exists(o)}
  BY DEF ObjectAPIInit, Uploaded, APIInit
<1>2. PICK holders \in [Object -> SUBSET Node] :
        /\ \A o \in Object : Cardinality(holders[o]) <= factor[o]
        /\ replica = [o \in Object |-> [n \in Node |->
                         IF n \in holders[o] THEN "HEALTHY" ELSE "NONE"]]
        /\ disk = [o \in Object |-> [n \in Node |->
                         IF n \in holders[o] THEN "good" ELSE "none"]]
  BY DEF ObjectAPIInit, Uploaded
<1>3. Types
  <2>1. factor \in [Object -> Nat]
    <3>1. Factors \cup {0} \subseteq Nat
      BY FactorAssumption
    <3> QED BY <1>1, <3>1
  <2>2. replica \in [Object -> [Node -> RowStatus]] /\ disk \in [Object -> [Node -> DiskState]]
    BY <1>2 DEF RowStatus, DiskState
  <2>3. req \in [Request -> RequestState]
    BY <1>1 DEF RequestState
  <2>4. late \subseteq NodeCall /\ listed \subseteq Object \X Node
        /\ faults \in [FaultKind -> Nat] /\ issued \subseteq Object
        /\ nodeStatus \in [Node -> {"ONLINE", "OFFLINE"}]
    BY <1>1
  <2> QED BY <2>1, <2>2, <2>3, <2>4 DEF Types, ClusterTypeOK
<1>4. ASSUME NEW r \in Request
      PROVE  ~Started(r) /\ ~Storing(r) /\ req[r].pc = "new" /\ ~req[r].gone
             /\ req[r].obj = NoObject /\ req[r].ok = {} /\ req[r].answer = "none"
  BY <1>1 DEF Started, Storing, UploadPc, DeletePc, DownloadPc, StorePc
<1>5. Locals
  BY <1>4 DEF Locals, OwnObject
<1>6. ASSUME NEW o \in Object, ~Exists(o) PROVE holders[o] = {}
  <2>1. factor[o] = 0 /\ Cardinality(holders[o]) <= 0
    BY <1>2, <1>6 DEF Exists
  <2>2. IsFiniteSet(holders[o]) /\ Cardinality(holders[o]) \in Nat
    BY NodesFinite
  <2>3. Cardinality(holders[o]) = 0
    BY <2>1, <2>2
  <2> QED BY <2>2, <2>3, FS_EmptySet
<1>7. Metadata
  BY <1>1, <1>2, <1>6, ClusterAssumption DEF Metadata, Calls
<1>8. DuePaid
  <2>1. Due = {}
    BY <1>1, <1>2, <1>4 DEF Due, Risky
  <2>2. IsFiniteSet({}) /\ Cardinality({}) = 0
    BY FS_EmptySet
  <2>3. Cardinality(Request) \in Nat
    BY KindsAssumption, FS_CardinalityType
  <2>4. faults["db"] = 0 /\ faults["crash"] = 0
    BY <1>1 DEF FaultKind
  <2>5. 0 <= 0 + 0 * Cardinality(Request)
    BY <2>3
  <2> QED BY <2>1, <2>2, <2>4, <2>5 DEF DuePaid
<1>9. OfflineNodes = {}
  BY <1>1 DEF OfflineNodes, OnlineNodes
<1>10. Owners
  <2>1. NoTrouble
    BY <1>1, <1>4, <1>9 DEF NoTrouble
  <2>2. ASSUME NEW o \in Object, NEW n \in Node, disk[o][n] # "none"
        PROVE  Owned(o, n)
    BY <1>2, <1>4, <2>2 DEF Owned
  <2> QED BY <2>1, <2>2 DEF Owners, FilesOwned
<1>11. Downloads
  <2>1. Cardinality(OfflineNodes) = 0 /\ faults["outage"] = 0
    BY <1>1, <1>9, FS_EmptySet DEF FaultKind
  <2>2. \A r \in Request : DownloadOK(r)
    BY <1>4 DEF DownloadOK
  <2> QED BY <2>1, <2>2 DEF Downloads
<1> QED
  BY <1>3, <1>5, <1>7, <1>8, <1>10, <1>11 DEF StoreInv

LEMMA StoreStutters ==
    ASSUME StoreInv, UNCHANGED APIVars PROVE StoreInv'
<1> USE DEF APIVars, clusterVars, apiVars
<1>1. Types' /\ Locals' /\ Metadata'
  BY DEF StoreInv, Types, ClusterTypeOK, Locals, OwnObject, Storing, Started, Exists, Metadata
<1>2. DuePaid'
  <2>1. Due' = Due
    BY DEF Due, Risky, BeingDeleted, Exists
  <2> QED BY <2>1 DEF StoreInv, DuePaid
<1>3. Owners'
  BY DEF StoreInv, Owners, NoFaults, NoTrouble, OfflineNodes, OnlineNodes, Undisturbed,
     FilesOwned, Owned, Storing
<1>4. Downloads'
  BY DEF StoreInv, Downloads, DownloadOK, Passed, RowsWith, OfflineNodes, OnlineNodes,
     BeingDeleted, OnlyOutages
<1> QED
  BY <1>1, <1>2, <1>3, <1>4 DEF StoreInv

LEMMA StoreKept ==
    ASSUME StoreInv, [GatewayNext]_GatewayVars PROVE StoreInv'
<1>1. CASE Stores
  <2>1. CASE \E r \in Request : APIStep(r)
    BY <2>1, RequestsKeep, KeepsInv
  <2>2. CASE CrashAPI
    BY <2>2, CrashKeeps
  <2>3. CASE Environment /\ UNCHANGED apiVars
    BY <2>3, EnvironmentKeeps
  <2> QED BY <1>1, <2>1, <2>2, <2>3 DEF Stores, APINext
<1>2. CASE Admits
  BY <1>2, AccountsKeepStore, KeepsInv DEF Admits
<1>3. CASE Lists
  BY <1>3, ListingsKeepStore, KeepsInv DEF Lists
<1>4. CASE UNCHANGED GatewayVars
  BY <1>4, StoreStutters DEF GatewayVars
<1> QED BY <1>1, <1>2, <1>3, <1>4 DEF GatewayNext

LEMMA StoreInvariant == GatewaySpec => []StoreInv
<1>1. GatewayInit => StoreInv
  BY StoreStarts DEF GatewayInit
<1>2. StoreInv /\ [GatewayNext]_GatewayVars => StoreInv'
  BY StoreKept
<1> QED
  BY <1>1, <1>2, PTL DEF GatewaySpec

(* Every row without good bytes behind it is an object being deleted, or   *)
(* the price of a failed statement or of a request that a crash cut off.   *)
LEMMA HollowAreDue ==
    ASSUME StoreInv PROVE HollowObjectsArePaidFor
<1> SUFFICES ASSUME faults["rot"] = 0
             PROVE  Cardinality({o \in Hollow : ~BeingDeleted(o)})
                       <= faults["db"] + faults["crash"] * Cardinality(Request)
  BY DEF HollowObjectsArePaidFor
<1>1. IsFiniteSet(Due)
      /\ Cardinality(Due) <= faults["db"] + faults["crash"] * Cardinality(Request)
  BY DEF StoreInv, DuePaid
<1>2. {o \in Hollow : ~BeingDeleted(o)} \subseteq Due
  BY DEF Hollow, Due, Risky
<1>3. /\ Cardinality({o \in Hollow : ~BeingDeleted(o)}) <= Cardinality(Due)
      /\ Cardinality({o \in Hollow : ~BeingDeleted(o)}) \in Nat
      /\ Cardinality(Due) \in Nat
  BY <1>1, <1>2, FS_Subset, FS_CardinalityType
<1>4. faults["db"] \in Nat /\ faults["crash"] \in Nat /\ Cardinality(Request) \in Nat
  BY KindsAssumption, FS_CardinalityType DEF StoreInv, Types, ClusterTypeOK, FaultKind
<1>5. faults["crash"] * Cardinality(Request) \in Nat
  BY <1>4
<1> QED
  BY <1>1, <1>3, <1>4, <1>5

(* A HEALTHY row has whole bytes behind it, or a delete, a failed metadata *)
(* write or a crash accounts for it, however lost calls, late handlers and *)
(* clients that leave interleave with the uploads.                         *)
THEOREM HollowObjectsArePaid == GatewaySpec => []HollowObjectsArePaidFor
BY StoreInvariant, HollowAreDue, PTL

(* No file is left behind by requests that nothing disturbed: not by the   *)
(* upload that gave up, nor by one racing a delete of the same object.     *)
THEOREM FilesAreOwned == GatewaySpec => []FilesHaveOwners
<1>1. StoreInv => FilesHaveOwners
  <2> SUFFICES ASSUME StoreInv, NEW o \in Object, NEW n \in Node,
                      Undisturbed(o), disk[o][n] # "none"
               PROVE  replica[o][n] # "NONE" \/ BeingUploaded(o)
    BY DEF FilesHaveOwners
  <2>1. Owned(o, n)
    BY DEF StoreInv, Owners, FilesOwned
  <2> QED BY <2>1 DEF Owned, BeingUploaded, Storing, UploadPc
<1> QED
  BY StoreInvariant, <1>1, PTL

(* Failover works: when only nodes have been out, a download that failed   *)
(* has an outage for every HEALTHY row, or the object is being deleted.    *)
THEOREM DownloadsSucceed == GatewaySpec => []DownloadSucceeds
<1>1. StoreInv => DownloadSucceeds
  <2> SUFFICES ASSUME StoreInv, NEW r \in Request,
                      req[r].answer \in {"unavailable", "corrupt"},
                      OnlyOutages, ~req[r].gone
               PROVE  \/ BeingDeleted(req[r].obj)
                      \/ Cardinality(RowsWith(req[r].obj, "HEALTHY")) <= faults["outage"]
    BY DEF DownloadSucceeds, OnlyOutages
  <2> QED BY DEF StoreInv, Downloads, DownloadOK
<1> QED
  BY StoreInvariant, <1>1, PTL

-----------------------------------------------------------------------------
(* Walks through the objects.                                              *)

(* What there is stays there, when nothing will have been deleted.         *)
NothingVanishes == \A o \in Object : Exists(o) => Exists(o)'

LEMMA NothingDeletedBefore ==
    ASSUME StoreInv, StoreInv', [GatewayNext]_GatewayVars, NothingDeleted'
    PROVE  NothingDeleted /\ NothingVanishes
<1>1. ASSUME UNCHANGED factor, issued \subseteq issued',
             \A q \in Request : Storing(q)' => Storing(q) /\ req'[q].obj = req[q].obj
      PROVE  NothingDeleted /\ NothingVanishes
  <2>1. \A o \in issued : Exists(o) \/ \E q \in Request : req'[q].obj = o /\ Storing(q)'
    BY <1>1 DEF NothingDeleted, Exists, Storing
  <2>2. NothingDeleted
    BY <1>1, <2>1 DEF NothingDeleted, Storing
  <2> QED BY <1>1, <2>2 DEF NothingVanishes, Exists
<1>2. ASSUME NEW r \in Request, Keeps(r)
      PROVE  NothingDeleted /\ NothingVanishes
  <2>1. Step(r) /\ issued \subseteq issued'
    BY <1>2 DEF Keeps, Step, Alone
  <2>2. ASSUME NEW q \in Request, Storing(q)', req'[q].obj \in issued
        PROVE  Storing(q) /\ req'[q].obj = req[q].obj
    <3>1. Started(q)'
      BY <2>2 DEF Storing, Started, UploadPc
    <3> QED BY <2>1, <2>2, <3>1 DEF Step, Goes, Storing
  <2>3. ASSUME NEW o \in Object, Exists(o) PROVE Exists(o)'
    <3>1. o \in issued
      BY <2>3 DEF StoreInv, Metadata
    <3>2. CASE ~Exists(o)'
      <4>1. PICK q \in Request : req'[q].obj = o /\ Storing(q)'
        BY <2>1, <3>1, <3>2 DEF NothingDeleted, Storing
      <4>2. Storing(q) /\ req[q].obj = o
        BY <2>2, <3>1, <4>1
      <4> QED BY <2>3, <4>2 DEF StoreInv, Locals, OwnObject
    <3> QED BY <3>2
  <2>4. ASSUME NEW o \in issued, ~Exists(o)
        PROVE  \E q \in Request : req[q].obj = o /\ Storing(q)
    <3>1. o \in Object /\ o \in issued'
      BY <2>1 DEF StoreInv, Types
    <3>2. CASE Exists(o)'
      <4>1. Storing(r) /\ Started(r) /\ o = req[r].obj
        BY <2>1, <2>4, <3>1, <3>2 DEF Step, Alone, Exists
      <4> QED BY <4>1
    <3>3. CASE \E q \in Request : req'[q].obj = o /\ Storing(q)'
      BY <2>2, <3>3
    <3> QED BY <3>1, <3>2, <3>3 DEF NothingDeleted, Storing
  <2> QED BY <2>3, <2>4 DEF NothingDeleted, NothingVanishes, Storing
<1>3. CASE Stores
  <2>1. CASE \E r \in Request : APIStep(r)
    BY <1>2, <2>1, RequestsKeep
  <2>2. CASE CrashAPI
    <3>1. UNCHANGED <<factor, issued>>
      BY <2>2 DEF CrashAPI
    <3>2. ASSUME NEW q \in Request PROVE ~Storing(q)'
      <4>1. req'[q] = IF req[q].pc \in {"new", "done"} THEN req[q] ELSE Answered(q, "lost")
        BY <2>2 DEF CrashAPI, Interrupted
      <4>2. Answered(q, "lost").pc = "done"
        BY AnsweredIs DEF Answer, StoreInv
      <4> QED BY <4>1, <4>2 DEF Storing, StorePc
    <3> QED BY <1>1, <3>1, <3>2
  <2>3. CASE Environment /\ UNCHANGED apiVars
    <3>1. UNCHANGED factor
      BY <2>3 DEF Environment, NodeTimesOut, NodeReturns, ChunkRots, LateHandler
    <3> QED BY <1>1, <2>3, <3>1 DEF apiVars, Storing
  <2> QED BY <1>3, <2>1, <2>2, <2>3 DEF Stores, APINext
<1>4. CASE Admits
  BY <1>2, <1>4, AccountsKeepStore DEF Admits
<1>5. CASE Lists
  BY <1>2, <1>5, ListingsKeepStore DEF Lists
<1>6. CASE UNCHANGED GatewayVars
  BY <1>1, <1>6 DEF GatewayVars, APIVars, clusterVars, apiVars, Storing
<1> QED
  BY <1>3, <1>4, <1>5, <1>6 DEF GatewayNext

(* The number of newer matches orders the matches without a gap: a page    *)
(* that some match is still behind is full.                                *)
LEMMA NewerIsFinite ==
    ASSUME StoreInv, NEW query \in SUBSET Object
    PROVE  /\ IsFiniteSet(Matches(query))
           /\ \A o \in Object : IsFiniteSet(Newer(query, o))
                                /\ Cardinality(Newer(query, o)) \in Nat
<1>1. Matches(query) \subseteq issued /\ IsFiniteSet(issued)
  BY DEF StoreInv, Metadata, Matches
<1>2. IsFiniteSet(Matches(query))
  BY <1>1, FS_Subset
<1>3. \A o \in Object : Newer(query, o) \subseteq Matches(query)
  BY DEF Newer
<1> QED
  BY <1>2, <1>3, FS_Subset, FS_CardinalityType

LEMMA PagesBeforeAreFull ==
    ASSUME StoreInv, NEW query \in SUBSET Object, NEW offset \in Nat,
           NEW o \in Matches(query),
           Cardinality(Newer(query, o)) >= offset + PageSize
    PROVE  Cardinality(Window(query, offset)) = PageSize
<1> DEFINE M == Matches(query)
           N == Newer(query, o)
           W == Window(query, offset)
           rank == [p \in M |-> Cardinality(Newer(query, p))]
           R == rank[o]
<1>1. M \subseteq Object /\ N \subseteq M /\ W \subseteq M /\ IsFiniteSet(M)
      /\ IsFiniteSet(N) /\ PageSize \in Nat /\ PageSize >= 1
  <2>1. M \subseteq Object /\ N \subseteq M /\ W \subseteq M
    BY DEF Matches, Newer, Window
  <2>2. IsFiniteSet(M) /\ IsFiniteSet(N)
    BY <2>1, NewerIsFinite
  <2>3. PageSize \in Nat /\ PageSize >= 1
    BY ListingsAssumption
  <2> QED BY <2>1, <2>2, <2>3
<1>2. \A p \in M : rank[p] \in Nat
  BY <1>1, NewerIsFinite
<1>3. ASSUME NEW p \in M, NEW q \in M, UploadTime[p] > UploadTime[q]
      PROVE  rank[p] < rank[q]
  <2>1. UploadTime[p] \in Nat /\ UploadTime[q] \in Nat
    BY <1>1, ListingsAssumption
  <2>2. Newer(query, p) \subseteq Newer(query, q)
    BY <1>1, <1>3, <2>1, ListingsAssumption DEF Newer
  <2>3. p \in Newer(query, q) /\ p \notin Newer(query, p)
    BY <1>3, <2>1 DEF Newer
  <2>4. IsFiniteSet(Newer(query, q))
    BY <1>1, NewerIsFinite
  <2>5. rank[p] <= rank[q] /\ rank[p] # rank[q]
    BY <2>2, <2>3, <2>4, FS_Subset
  <2> QED BY <1>2, <2>5
<1>4. ASSUME NEW p \in M, NEW q \in M, rank[p] = rank[q] PROVE p = q
  <2>1. UploadTime[p] \in Nat /\ UploadTime[q] \in Nat
    BY <1>1, ListingsAssumption
  <2>2. UploadTime[p] = UploadTime[q]
    BY <1>2, <1>3, <1>4, <2>1
  <2> QED BY <1>1, <2>2, ListingsAssumption
<1>5. R = Cardinality(N) /\ R \in Nat /\ R >= offset + PageSize /\ R >= 1
  BY <1>1, <1>2
<1>6. \A p \in N : rank[p] \in 0..(R - 1)
  <2> SUFFICES ASSUME NEW p \in N PROVE rank[p] \in 0..(R - 1)
    OBVIOUS
  <2>1. rank[p] < R
    BY <1>1, <1>3 DEF Newer
  <2> QED BY <1>1, <1>2, <1>5, <2>1
<1> DEFINE f == [p \in N |-> rank[p]]
           g == [p \in W |-> rank[p]]
<1> HIDE DEF M, N, W, rank, R
<1>7. f \in Injection(N, 0..(R - 1))
  BY <1>1, <1>4, <1>6 DEF Injection, IsInjective
<1>8. IsFiniteSet(0..(R - 1)) /\ Cardinality(0..(R - 1)) = R
  <2>1. 0 \in Int /\ R - 1 \in Int /\ ~(0 > R - 1) /\ (R - 1) - 0 + 1 = R
    BY <1>5
  <2> QED BY <2>1, FS_Interval
<1>9. f \in Surjection(N, 0..(R - 1))
  BY <1>5, <1>7, <1>8, FS_Injection
<1>10. W = {p \in M : rank[p] \in offset..(offset + PageSize - 1)}
  BY DEF W, M, rank, Window
<1>11. g \in Bijection(W, offset..(offset + PageSize - 1))
  <2>1. g \in Injection(W, offset..(offset + PageSize - 1))
    BY <1>1, <1>4, <1>10 DEF Injection, IsInjective
  <2>2. ASSUME NEW i \in offset..(offset + PageSize - 1)
        PROVE  \E p \in W : g[p] = i
    <3>1. i \in 0..(R - 1)
      BY <1>1, <1>5
    <3>2. PICK p \in N : rank[p] = i
      BY <1>9, <3>1 DEF Surjection
    <3> QED BY <1>1, <1>10, <3>2
  <2>3. g \in Surjection(W, offset..(offset + PageSize - 1))
    BY <2>1, <2>2 DEF Surjection, Injection
  <2> QED BY <2>1, <2>3 DEF Bijection
<1>12. IsFiniteSet(W)
  BY <1>1, FS_Subset
<1>13. Cardinality(W) = Cardinality(offset..(offset + PageSize - 1))
  BY <1>11, <1>12, FS_Bijection DEF ExistsBijection
<1>14. Cardinality(offset..(offset + PageSize - 1)) = PageSize
  BY <1>1, FS_Interval
<1> QED
  BY <1>13, <1>14 DEF W

(* What a walk has not shown of the objects there were is still behind the *)
(* offset it goes on with.                                                 *)
ObjWalkOK(walk) ==
    /\ walk.pc = "page" =>
         \A o \in walk.before :
            /\ o \in Matches(walk.query)
            /\ o \in walk.seen \/ Cardinality(Newer(walk.query, o)) >= walk.offset
    /\ walk.pc = "end" => walk.before \subseteq walk.seen

ObjWalksInv ==
    /\ objWalk \in [Request -> ObjWalk]
    /\ NothingDeleted => \A r \in Request : ObjWalkOK(objWalk[r])

LEMMA WalkGrows ==
    ASSUME StoreInv, StoreInv', NothingVanishes, NEW walk \in ObjWalk, ObjWalkOK(walk)
    PROVE  ObjWalkOK(walk)'
<1>1. walk.query \in SUBSET Object /\ walk.before \in SUBSET Object /\ walk.offset \in Nat
  BY DEF ObjWalk
<1>2. ASSUME NEW o \in walk.before, walk.pc = "page"
      PROVE  /\ o \in Matches(walk.query)'
             /\ o \in walk.seen \/ Cardinality(Newer(walk.query, o)') >= walk.offset
  <2>1. o \in Object /\ o \in Matches(walk.query)
    BY <1>1, <1>2 DEF ObjWalkOK
  <2>2. Matches(walk.query) \subseteq Matches(walk.query)'
    BY <1>1 DEF Matches, NothingVanishes
  <2>3. Newer(walk.query, o) \in SUBSET (Newer(walk.query, o)')
    BY <2>2 DEF Newer
  <2>4. IsFiniteSet(Newer(walk.query, o)') /\ Cardinality(Newer(walk.query, o)') \in Nat
    <3>1. Matches(walk.query)' \subseteq issued' /\ IsFiniteSet(issued')
      BY <1>1 DEF StoreInv, Metadata, Matches
    <3>2. Newer(walk.query, o)' \subseteq issued'
      BY <3>1 DEF Newer
    <3> QED BY <3>1, <3>2, FS_Subset, FS_CardinalityType
  <2>5. Cardinality(Newer(walk.query, o)) <= Cardinality(Newer(walk.query, o)')
        /\ Cardinality(Newer(walk.query, o)) \in Nat
    BY <1>1, <2>1, <2>3, <2>4, FS_Subset, NewerIsFinite
  <2>6. o \in walk.seen \/ Cardinality(Newer(walk.query, o)) >= walk.offset
    BY <1>2 DEF ObjWalkOK
  <2> QED BY <1>1, <2>1, <2>2, <2>4, <2>5, <2>6
<1> QED
  BY <1>2 DEF ObjWalkOK

(* A page shows what is next, and when it is not full nothing is left.     *)
LEMMA PageShows ==
    ASSUME StoreInv, NEW walk \in ObjWalk, walk.pc = "page", ObjWalkOK(walk),
           NEW o \in walk.before
    PROVE  LET page == Window(walk.query, walk.offset)
           IN  \/ o \in walk.seen \cup page
               \/ /\ Cardinality(Newer(walk.query, o)) >= walk.offset + PageSize
                  /\ Cardinality(page) = PageSize
<1>1. walk.query \in SUBSET Object /\ walk.offset \in Nat
  BY DEF ObjWalk
<1>2. o \in Matches(walk.query) /\ o \in Object
      /\ (o \in walk.seen \/ Cardinality(Newer(walk.query, o)) >= walk.offset)
  BY <1>1 DEF ObjWalkOK, Matches
<1>3. Cardinality(Newer(walk.query, o)) \in Nat /\ PageSize \in Nat
  BY <1>1, <1>2, NewerIsFinite, ListingsAssumption
<1>4. CASE Cardinality(Newer(walk.query, o)) >= walk.offset + PageSize
  BY <1>1, <1>2, <1>4, PagesBeforeAreFull
<1>5. CASE /\ Cardinality(Newer(walk.query, o)) >= walk.offset
           /\ ~(Cardinality(Newer(walk.query, o)) >= walk.offset + PageSize)
  <2>1. Cardinality(Newer(walk.query, o)) \in walk.offset..(walk.offset + PageSize - 1)
    BY <1>1, <1>3, <1>5
  <2> QED BY <1>2, <2>1 DEF Window
<1> QED
  BY <1>2, <1>4, <1>5

LEMMA WalkTurns ==
    ASSUME NEW walk \in ObjWalk, NEW page \in SUBSET Object, walk.pc = "page"
    PROVE  LET more == [walk EXCEPT !.seen = @ \cup page, !.offset = @ + PageSize]
               last == [walk EXCEPT !.seen = @ \cup page, !.pc = "end", !.offset = 0]
           IN  /\ /\ more \in ObjWalk /\ more.pc = "page" /\ more.before = walk.before
                  /\ more.query = walk.query /\ more.seen = walk.seen \cup page
                  /\ more.offset = walk.offset + PageSize
               /\ last \in ObjWalk /\ last.pc = "end" /\ last.before = walk.before
               /\ last.seen = walk.seen \cup page
<1>1. walk.offset \in Nat /\ PageSize \in Nat
  BY ListingsAssumption DEF ObjWalk
<1>2. walk.offset + PageSize \in Nat /\ walk.seen \cup page \in SUBSET Object
  BY <1>1 DEF ObjWalk
<1> QED
  BY <1>2 DEF ObjWalk

LEMMA ObjWalksKept ==
    ASSUME ObjWalksInv, StoreInv, StoreInv', NEW r \in Request, ListingStep(r),
           NothingDeleted' => NothingDeleted /\ NothingVanishes
    PROVE  ObjWalksInv'
<1> DEFINE walk == objWalk[r]
<1>1. walk \in ObjWalk
  BY DEF ObjWalksInv
<1>2. ASSUME NEW rec \in ObjWalk, ObjWalks(r, rec),
             NothingDeleted => ObjWalkOK(rec)
      PROVE  ObjWalksInv'
  <2>1. objWalk' \in [Request -> ObjWalk]
    BY <1>2 DEF ObjWalksInv, ObjWalks
  <2>2. ASSUME NothingDeleted', NEW q \in Request PROVE ObjWalkOK(objWalk[q])'
    <3>1. PICK w \in ObjWalk : w = IF q = r THEN rec ELSE objWalk[q]
      BY <1>2 DEF ObjWalksInv
    <3>2. objWalk'[q] = w
      BY <1>2, <3>1 DEF ObjWalksInv, ObjWalks
    <3>3. ObjWalkOK(w)
      BY <1>2, <2>2, <3>1 DEF ObjWalksInv
    <3>4. ObjWalkOK(w)'
      BY <2>2, <3>3, WalkGrows
    <3> QED BY <3>2, <3>4 DEF ObjWalkOK
  <2> QED BY <2>1, <2>2 DEF ObjWalksInv
<1>3. CASE UNCHANGED objWalk
  BY <1>1, <1>2, <1>3 DEF ObjWalks, ObjWalksInv
<1>4. CASE ListBegin(r)
  <2>1. PICK query \in Queries :
          ObjWalks(r, [pc |-> "page", offset |-> 0, query |-> query,
                       seen |-> {}, before |-> Matches(query)])
    BY <1>4 DEF ListBegin
  <2> DEFINE rec == [pc |-> "page", offset |-> 0, query |-> query,
                     seen |-> {}, before |-> Matches(query)]
  <2>2. query \in SUBSET Object /\ Matches(query) \in SUBSET Object
    BY ListingsAssumption DEF Matches
  <2>3. rec \in ObjWalk
    BY <2>2 DEF ObjWalk
  <2>4. \A o \in Matches(query) : Cardinality(Newer(query, o)) >= 0
    BY <2>2, NewerIsFinite
  <2>5. ObjWalkOK(rec)
    BY <2>4 DEF ObjWalkOK
  <2> QED BY <1>2, <2>1, <2>3, <2>5
<1>5. CASE ListPage(r)
  <2> DEFINE page == Window(walk.query, walk.offset)
             more == [walk EXCEPT !.seen = @ \cup page, !.offset = @ + PageSize]
             last == [walk EXCEPT !.seen = @ \cup page, !.pc = "end", !.offset = 0]
  <2>1. walk.pc = "page" /\ page \subseteq Object /\ PageSize \in Nat
    BY <1>1, <1>5, ListingsAssumption DEF ListPage, ObjWalk, Window, Matches
  <2>2. NothingDeleted => ObjWalkOK(walk)
    BY DEF ObjWalksInv
  <2>3. NothingDeleted => \A o \in walk.before :
           \/ o \in walk.seen \cup page
           \/ /\ Cardinality(Newer(walk.query, o)) >= walk.offset + PageSize
              /\ Cardinality(page) = PageSize
    BY <1>1, <2>1, <2>2, PageShows
  <2>4. CASE ObjWalks(r, more) /\ Cardinality(page) = PageSize
    <3>1. more \in ObjWalk /\ more.pc = "page" /\ more.before = walk.before
          /\ more.query = walk.query /\ more.seen = walk.seen \cup page
          /\ more.offset = walk.offset + PageSize
      BY <1>1, <2>1, WalkTurns
    <3>2. NothingDeleted => ObjWalkOK(more)
      BY <2>1, <2>2, <2>3, <3>1 DEF ObjWalkOK
    <3> QED BY <1>2, <2>4, <3>1, <3>2
  <2>5. CASE ObjWalks(r, last) /\ Cardinality(page) # PageSize
    <3>1. last \in ObjWalk /\ last.pc = "end" /\ last.before = walk.before
          /\ last.seen = walk.seen \cup page
      <4> HIDE DEF page
      <4> QED BY <1>1, <2>1, WalkTurns
    <3>2. NothingDeleted => ObjWalkOK(last)
      BY <2>3, <2>5, <3>1 DEF ObjWalkOK
    <3> QED BY <1>2, <2>5, <3>1, <3>2
  <2> QED BY <1>3, <1>5, <2>4, <2>5 DEF ListPage, ObjectPages
<1> QED
  BY <1>3, <1>4, <1>5 DEF ListingStep, LogsBegin, LogsPage, LogsCount

LEMMA ObjWalksInvariant == GatewaySpec => []ObjWalksInv
<1>1. GatewayInit => ObjWalksInv
  BY DEF GatewayInit, ListingsInit, ObjWalksInv, ObjWalk, ObjWalkOK
<1>2. StoreInv /\ StoreInv' /\ ObjWalksInv /\ [GatewayNext]_GatewayVars => ObjWalksInv'
  <2> SUFFICES ASSUME StoreInv, StoreInv', ObjWalksInv, [GatewayNext]_GatewayVars
               PROVE  ObjWalksInv'
    OBVIOUS
  <2>1. NothingDeleted' => NothingDeleted /\ NothingVanishes
    BY NothingDeletedBefore
  <2>2. CASE Lists
    BY <2>1, <2>2, ObjWalksKept DEF Lists
  <2>3. CASE UNCHANGED objWalk
    <3>1. ASSUME NothingDeleted', NEW q \in Request PROVE ObjWalkOK(objWalk[q])'
      <4>1. PICK w \in ObjWalk : w = objWalk[q]
        BY DEF ObjWalksInv
      <4>2. ObjWalkOK(w) /\ objWalk'[q] = w
        BY <2>1, <2>3, <3>1, <4>1 DEF ObjWalksInv
      <4>3. ObjWalkOK(w)'
        BY <2>1, <3>1, <4>2, WalkGrows
      <4> QED BY <4>2, <4>3 DEF ObjWalkOK
    <3> QED BY <2>3, <3>1 DEF ObjWalksInv
  <2> QED BY <2>2, <2>3 DEF GatewayNext, Stores, Admits, GatewayVars, listingVars
<1> QED
  BY <1>1, <1>2, StoreInvariant, PTL DEF GatewaySpec

(* A client that pages through its objects, or through the matches of a    *)
(* search, misses none that was there when it began, whatever the size of  *)
(* a page and whatever is uploaded meanwhile, unless one is deleted.       *)
THEOREM ObjectsAreListed == GatewaySpec => []ObjectWalksAreWhole
<1>1. ObjWalksInv => ObjectWalksAreWhole
  BY DEF ObjWalksInv, ObjWalkOK, ObjectWalksAreWhole
<1> QED
  BY <1>1, ObjWalksInvariant, PTL

(* Every variable of the gateway keeps its type.                           *)
THEOREM TypeCorrect == GatewaySpec => []GatewayTypeOK
<1>1. StoreInv /\ AccountsInv /\ WalksInv /\ ObjWalksInv => GatewayTypeOK
  BY TypesAre DEF StoreInv, AccountsInv, WalksInv, ObjWalksInv, GatewayTypeOK,
     ListingsTypeOK
<1> QED
  BY <1>1, StoreInvariant, AccountsInvariant, WalksInvariant, ObjWalksInvariant, PTL
=============================================================================
