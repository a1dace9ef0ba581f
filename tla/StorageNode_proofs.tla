------------------------- MODULE StorageNode_proofs -------------------------
(***************************************************************************)
(* Theorems about the handlers of a storage node (Spec), for any number of *)
(* requests, any length of the object and any number of errors and deaths  *)
(* of the process.                                                         *)
(***************************************************************************)
EXTENDS StorageNode, TLAPS

-----------------------------------------------------------------------------
(* Type correctness.                                                       *)

CallRecord ==
    [pc: {"new", "open", "write", "remove", "stat", "read", "done"},
     op: Op \cup {"none"}, file: Call \cup {NoFile}, off: 0..Blocks,
     size: 0..Blocks, clean: BOOLEAN, answer: Answers \cup {"none"},
     after: SUBSET Call, opened: SUBSET Call]

(* A sequence of blocks has a length and, up to it, blocks.                *)
LEMMA ContentShape ==
    ASSUME NEW s \in Contents
    PROVE  /\ Len(s) \in 0..Blocks /\ DOMAIN s = 1..Len(s)
           /\ \A i \in 1..Len(s) : s[i] \in Block
<1>1. PICK k \in 0..Blocks : s \in [1..k -> Block]
  BY DEF Contents
<1>2. k \in Nat /\ s \in Seq(Block)
  BY <1>1, StorageNodeAssumption
<1>3. Len(s) = k
  BY <1>1, <1>2
<1> QED
  BY <1>1, <1>3

LEMMA EmptyContent == <<>> \in Contents /\ Len(<<>>) = 0
<1>1. 0 \in 0..Blocks
  BY StorageNodeAssumption
<1>2. <<>> \in [1..0 -> Block]
  BY DEF Block
<1> QED
  BY <1>1, <1>2 DEF Contents

(* One block written: the new end, the new block, and the old ones.        *)
LEMMA WrittenShape ==
    ASSUME NEW old \in Contents, NEW at \in 0..Blocks, at < Blocks
    PROVE  LET new == Written(old, at)
           IN  /\ new \in Contents
               /\ Len(new) = IF at < Len(old) THEN Len(old) ELSE at + 1
               /\ new[at + 1] = "data"
               /\ \A i \in 1..Len(old) : old[i] = "data" => new[i] = "data"
               /\ \A i \in 1..Len(new) :
                    i <= Len(old) \/ i = at + 1 \/ new[i] = "zero"
<1> DEFINE k == IF at < Len(old) THEN Len(old) ELSE at + 1
           new == Written(old, at)
<1>1. Len(old) \in 0..Blocks /\ \A i \in 1..Len(old) : old[i] \in Block
  BY ContentShape
<1>2. k \in 0..Blocks /\ k \in Nat /\ at + 1 \in 1..k /\ Len(old) <= k
  BY <1>1, StorageNodeAssumption
<1>3. new = [i \in 1..k |->
               IF i = at + 1 THEN "data" ELSE IF i <= Len(old) THEN old[i] ELSE "zero"]
  BY DEF Written
<1>4. new \in [1..k -> Block]
  BY <1>1, <1>2, <1>3 DEF Block
<1>5. new \in Contents
  BY <1>2, <1>4 DEF Contents
<1>6. Len(new) = k
  <2>1. new \in Seq(Block)
    BY <1>2, <1>4
  <2> QED
    BY <1>2, <1>3, <2>1
<1>7. \A i \in 1..Len(old) : old[i] = "data" => new[i] = "data"
  BY <1>1, <1>2, <1>3
<1> HIDE DEF new
<1> QED
  BY <1>1, <1>2, <1>3, <1>5, <1>6, <1>7 DEF new

-----------------------------------------------------------------------------
(* The inductive invariant.                                                *)

(* What the handlers rely on in their local variables, and what an answer  *)
(* says of them: a call is of some kind once it has arrived, a store that  *)
(* was opened has a file and has written all of it when it is answered.    *)
Past(c) == call[c].file # NoFile
Locals ==
    \A c \in Call :
        /\ call[c].pc = "new" => call[c] = Unused
        /\ call[c].pc # "new" => call[c].op \in Op
        /\ call[c].op = "delete" => call[c].pc \in {"open", "done"}
        /\ call[c].pc = "open" => call[c].file = NoFile /\ call[c].off = 0
        /\ call[c].pc \in {"write", "remove"} => call[c].op = "store"
        /\ call[c].pc = "stat" => call[c].op = "get"
        /\ call[c].pc \in {"write", "remove", "stat", "read"} => Past(c)
        /\ call[c].answer # "none" <=> call[c].pc = "done"
        /\ call[c].op = "store" /\ call[c].answer = "ok" =>
             Past(c) /\ call[c].off = Blocks

(* Calls that were over before another began stay over.                    *)
History ==
    \A c \in Call :
        /\ \A d \in call[c].after : Over(d)
        /\ \A d \in call[c].opened : d \in Stores /\ call[d].pc # "open"

(* An answered Delete and a store that brings the name back: the store was *)
(* opened after the Delete.                                                *)
Resurrected ==
    \A d \in Deletes :
        call[d].answer \in {"ok", "notFound"} /\ name # NoFile =>
            \E c \in Stores \ call[d].opened : call[c].pc # "open"

(* The store that was the last to truncate the file has written everything *)
(* up to its own offset, and nobody takes that back.                       *)
WroteUpTo(e) ==
    /\ call[e].off <= Len(content[name])
    /\ \A i \in 1..call[e].off : content[name][i] = "data"
LastTruncated ==
    \A c \in Stores : Past(c) /\ name # NoFile =>
        \E e \in Stores \ call[c].after :
            call[e].file = name /\ WroteUpTo(e)

(* A file goes away only by a removal that came after the store.           *)
Removed(c) ==
    \E d \in Call \ call[c].after :
        d \in Deletes \/ (d \in Stores /\ call[d].answer = "failed")
KeepsName == \A c \in Stores : Past(c) /\ name = NoFile => Removed(c)

(* While no two stores overlap there is at most one under way, it is the   *)
(* only one to write, it appends, and so no file has a hole.               *)
Alone == \A c, d \in Stores : ~Overlap(c, d)
NoHoles ==
    Alone =>
        /\ \A f \in Call : \A i \in 1..Len(content[f]) : content[f][i] = "data"
        /\ \A c \in Stores : call[c].pc = "write" =>
             call[c].off = Len(content[call[c].file])
        /\ \A c \in Call : call[c].clean

IInv == /\ TypeOK /\ Locals /\ History
        /\ Resurrected /\ LastTruncated /\ KeepsName /\ NoHoles

-----------------------------------------------------------------------------
(* Types and local variables.                                              *)

LEMMA UnusedIs ==
    /\ Unused \in CallRecord
    /\ Unused.pc = "new" /\ Unused.op = "none" /\ Unused.answer = "none"
    /\ Unused.file = NoFile /\ Unused.off = 0 /\ Unused.clean = TRUE
    /\ Unused.after = {} /\ Unused.opened = {}
BY StorageNodeAssumption DEF Unused, CallRecord, Op, Answers

LEMMA InitHolds == Init => IInv
<1> SUFFICES ASSUME Init PROVE IInv
  OBVIOUS
<1> USE StorageNodeAssumption
<1>1. content \in [Call -> Contents]
  BY EmptyContent DEF Init
<1>2. call \in [Call -> CallRecord]
  BY DEF Init, Unused, CallRecord, Op, Answers
<1>3. \A c \in Call : call[c] = Unused /\ content[c] = <<>>
  BY DEF Init
<1>4. TypeOK
  BY <1>1, <1>2 DEF Init, TypeOK, CallRecord
<1>5. Stores = {} /\ Deletes = {} /\ History
  BY <1>3 DEF Stores, Deletes, Unused, History
<1>7. Locals
  <2>1. ASSUME NEW c \in Call
        PROVE  /\ call[c] = Unused /\ call[c].pc = "new" /\ call[c].op = "none"
               /\ call[c].answer = "none"
    BY <1>3, UnusedIs
  <2> QED
    BY <2>1 DEF Locals
<1>6. NoHoles
  BY <1>3, <1>5, EmptyContent DEF NoHoles, Unused
<1> QED
  BY <1>4, <1>5, <1>6, <1>7 DEF IInv, Resurrected, LastTruncated, KeepsName

(* A request goes on with another record; the others stay as they are.     *)
LEMMA SetsOne ==
    ASSUME call \in [Call -> CallRecord], NEW c \in Call, NEW rec \in CallRecord,
           Sets(c, rec)
    PROVE  /\ call' \in [Call -> CallRecord] /\ call'[c] = rec
           /\ \A d \in Call : d # c => call'[d] = call[d]
BY DEF Sets

LEMMA Replied ==
    ASSUME call \in [Call -> CallRecord], NEW c \in Call, NEW a \in Answers
    PROVE  [call[c] EXCEPT !.pc = "done", !.answer = a] \in CallRecord
<1> DEFINE r == call[c]
<1>1. r \in CallRecord
  OBVIOUS
<1> HIDE DEF r
<1>2. [r EXCEPT !.pc = "done", !.answer = a] \in CallRecord
  BY <1>1 DEF CallRecord
<1> QED
  BY <1>2 DEF r

(* A request that is being worked on has a file open.                      *)
LEMMA Opened ==
    ASSUME TypeOK, Locals, NEW c \in Call,
           call[c].pc \in {"write", "remove", "stat", "read"}
    PROVE  call[c].file \in Call /\ content[call[c].file] \in Contents
BY DEF TypeOK, Locals, Past

LEMMA TypeKept ==
    ASSUME TypeOK, Locals, NEW c \in Call, Handler(c) PROVE TypeOK'
<1> USE StorageNodeAssumption
<1>0. /\ name \in Call \cup {NoFile} /\ content \in [Call -> Contents]
      /\ call \in [Call -> CallRecord]
      /\ errors \in 0..Errors /\ crashes \in 0..Crashes
  BY DEF TypeOK, CallRecord
<1> DEFINE r == call[c]
<1>r. r \in CallRecord
  BY <1>0
<1>e. errors' \in 0..Errors /\ crashes' \in 0..Crashes
  <2>1. NoIOError \/ IOError
    BY DEF Handler, Arrive, StoreOpen, StoreOpenFails, StoreWrite,
           StoreWriteFails, StoreRemove, StoreDone, ReadFails, GetOpen,
           GetStat, GetRead, GetDone, GetBreaks, VerifyOpen, VerifyRead,
           VerifyDone, Delete, DeleteFails, OpenToRead, ReadBlock, NoIOError
  <2> QED
    BY <1>0, <2>1 DEF NoIOError, IOError
<1>s. SUFFICES /\ name' \in Call \cup {NoFile} /\ content' \in [Call -> Contents]
               /\ \E rec \in CallRecord : Sets(c, rec)
  BY <1>0, <1>e, SetsOne DEF TypeOK, CallRecord
<1>1. CASE Arrive(c)
  <2>1. PICK op \in Op :
          Sets(c, [Unused EXCEPT !.pc = "open", !.op = op,
                                 !.after = {d \in Call : Over(d)}])
    BY <1>1 DEF Arrive
  <2>2. [Unused EXCEPT !.pc = "open", !.op = op, !.after = {d \in Call : Over(d)}]
          \in CallRecord
    BY UnusedIs DEF CallRecord
  <2> QED
    BY <1>0, <1>1, <2>1, <2>2 DEF Arrive
<1>2. CASE StoreOpen(c)
  <2> DEFINE f == IF name = NoFile THEN c ELSE name
  <2>1. f \in Call
    BY <1>0
  <2>2. Sets(c, [r EXCEPT !.pc = "write", !.file = f]) /\ name' = f
        /\ content' = [content EXCEPT ![f] = <<>>]
    BY <1>2 DEF StoreOpen
  <2> HIDE DEF f, r
  <2>3. [r EXCEPT !.pc = "write", !.file = f] \in CallRecord
    BY <1>r, <2>1 DEF CallRecord
  <2> QED
    BY <1>0, <2>1, <2>2, <2>3, EmptyContent
<1>3. CASE StoreWrite(c)
  <2>1. /\ r.file \in Call /\ content[r.file] \in Contents
        /\ r.off \in 0..Blocks /\ r.off < Blocks
    BY <1>0, <1>r, <1>3, Opened DEF StoreWrite, CallRecord, At
  <2>2. Written(content[r.file], r.off) \in Contents
    BY <2>1, WrittenShape
  <2>3. /\ Sets(c, [r EXCEPT !.off = r.off + 1]) /\ name' = name
        /\ content' = [content EXCEPT ![r.file] = Written(@, r.off)]
    BY <1>3 DEF StoreWrite
  <2> HIDE DEF r
  <2>4. [r EXCEPT !.off = r.off + 1] \in CallRecord
    BY <1>r, <2>1 DEF CallRecord
  <2> QED
    BY <1>0, <2>1, <2>2, <2>3, <2>4
<1>4. CASE GetStat(c)
  <2>1. Len(content[r.file]) \in 0..Blocks
    BY <1>4, Opened, ContentShape DEF GetStat, At
  <2>2. Sets(c, [r EXCEPT !.pc = "read", !.size = Len(content[r.file])])
    BY <1>4 DEF GetStat
  <2> HIDE DEF r
  <2>3. [r EXCEPT !.pc = "read", !.size = Len(content[r.file])] \in CallRecord
    BY <1>r, <2>1 DEF CallRecord
  <2> QED
    BY <1>0, <1>4, <2>2, <2>3 DEF GetStat
<1>5. CASE GetRead(c) \/ VerifyRead(c)
  <2> DEFINE good == r.clean /\ content[r.file][r.off + 1] = "data"
  <2>1. Len(content[r.file]) \in 0..Blocks /\ good \in BOOLEAN
    BY <1>5, Opened, ContentShape DEF GetRead, VerifyRead, At
  <2>2. r.off < Len(content[r.file]) /\ UNCHANGED <<name, content>>
    BY <1>5 DEF GetRead, VerifyRead, ReadBlock
  <2>3. Sets(c, [r EXCEPT !.off = r.off + 1, !.clean = good])
    BY <1>5 DEF GetRead, VerifyRead, ReadBlock
  <2>5. r.off \in 0..Blocks
    BY <1>r DEF CallRecord
  <2>6. r.off + 1 \in 0..Blocks
    BY <2>1, <2>2, <2>5
  <2> HIDE DEF r, good
  <2>4. [r EXCEPT !.off = r.off + 1, !.clean = good] \in CallRecord
    BY <1>r, <2>1, <2>6 DEF CallRecord
  <2> QED
    BY <1>0, <2>2, <2>3, <2>4
<1>6. CASE StoreOpenFails(c) \/ StoreRemove(c) \/ StoreDone(c) \/ ReadFails(c)
           \/ GetDone(c) \/ GetBreaks(c) \/ VerifyDone(c) \/ DeleteFails(c)
  <2>1. PICK a \in Answers : Reply(c, a)
    BY <1>6 DEF StoreOpenFails, StoreRemove, StoreDone, ReadFails, GetDone,
                GetBreaks, VerifyDone, DeleteFails, Answers
  <2>2. name' \in {name, NoFile} /\ content' = content
    BY <1>6 DEF StoreOpenFails, StoreRemove, StoreDone, ReadFails, GetDone,
                GetBreaks, VerifyDone, DeleteFails
  <2> QED
    BY <1>0, <2>1, <2>2, Replied DEF Reply
<1>7. CASE GetOpen(c) \/ VerifyOpen(c)
  <2>1. PICK next \in {"stat", "read"} :
          IF name = NoFile THEN Reply(c, "notFound")
          ELSE Sets(c, [r EXCEPT !.pc = next, !.file = name])
    BY <1>7 DEF GetOpen, VerifyOpen, OpenToRead
  <2>2. UNCHANGED <<name, content>>
    BY <1>7 DEF GetOpen, VerifyOpen, OpenToRead
  <2>3. CASE name = NoFile
    BY <1>0, <2>1, <2>2, <2>3, Replied DEF Reply, Answers
  <2>4. CASE name # NoFile
    <3> HIDE DEF r
    <3>1. [r EXCEPT !.pc = next, !.file = name] \in CallRecord
      BY <1>0, <1>r DEF CallRecord
    <3> QED
      BY <1>0, <2>1, <2>2, <2>4, <3>1
  <2> QED
    BY <2>3, <2>4
<1>8. CASE Delete(c)
  <2> DEFINE opened == {d \in Call : call[d].op = "store" /\ call[d].pc # "open"}
             answer == IF name = NoFile THEN "notFound" ELSE "ok"
  <2>1. opened \in SUBSET Call /\ answer \in Answers
    BY DEF Answers
  <2>2. /\ Sets(c, [r EXCEPT !.pc = "done", !.answer = answer, !.opened = opened])
        /\ name' = NoFile /\ content' = content
    BY <1>8 DEF Delete
  <2> HIDE DEF r, opened, answer
  <2>3. [r EXCEPT !.pc = "done", !.answer = answer, !.opened = opened] \in CallRecord
    BY <1>r, <2>1 DEF CallRecord
  <2> QED
    BY <1>0, <2>2, <2>3
<1>9. CASE StoreWriteFails(c)
  <2>1. Sets(c, [r EXCEPT !.pc = "remove"]) /\ UNCHANGED <<name, content>>
    BY <1>9 DEF StoreWriteFails
  <2> HIDE DEF r
  <2>2. [r EXCEPT !.pc = "remove"] \in CallRecord
    BY <1>r DEF CallRecord
  <2> QED
    BY <1>0, <2>1, <2>2
<1> QED
  BY <1>1, <1>2, <1>3, <1>4, <1>5, <1>6, <1>7, <1>8, <1>9 DEF Handler
-----------------------------------------------------------------------------
(* What a step of a handler does to its record and to the files.           *)

Keeps(r, p) == p.op = r.op /\ p.after = r.after
SameFile(r, p) == p.file = r.file /\ p.off = r.off
QuietFiles == UNCHANGED <<name, content>>

Arrives(r, p) ==
    /\ r.pc = "new" /\ p.pc = "open" /\ p.op \in Op /\ p.after = {d \in Call : Over(d)}
    /\ p.file = NoFile /\ p.off = 0 /\ p.clean /\ p.answer = "none" /\ p.opened = {}
    /\ QuietFiles
Creates(c, r, p) ==
    /\ r.op = "store" /\ r.pc = "open" /\ p.pc = "write"
    /\ Keeps(r, p) /\ p.off = r.off /\ p.clean = r.clean
    /\ p.answer = r.answer /\ p.opened = r.opened
    /\ p.file = name' /\ name' = (IF name = NoFile THEN c ELSE name)
    /\ content' = [content EXCEPT ![name'] = <<>>]
Writes(r, p) ==
    /\ r.op = "store" /\ r.pc = "write" /\ p.pc = "write"
    /\ Keeps(r, p) /\ p.file = r.file /\ p.off = r.off + 1 /\ r.off < Blocks
    /\ p.clean = r.clean /\ p.answer = r.answer /\ p.opened = r.opened
    /\ name' = name
    /\ content' = [content EXCEPT ![r.file] = Written(@, r.off)]
Removes(r, p) ==
    /\ \/ r.op = "store" /\ r.pc = "remove" /\ p.answer = "failed" /\ p.opened = r.opened
       \/ /\ r.op = "delete" /\ r.pc = "open" /\ p.answer \in {"ok", "notFound"}
          /\ p.opened = {d \in Call : call[d].op = "store" /\ call[d].pc # "open"}
    /\ p.pc = "done" /\ Keeps(r, p) /\ SameFile(r, p) /\ p.clean = r.clean
    /\ name' = NoFile /\ content' = content
Reads(r, p) ==
    /\ r.op \in {"get", "verify"}
    /\ Keeps(r, p) /\ p.answer = r.answer /\ p.opened = r.opened /\ QuietFiles
    /\ \/ /\ r.pc = "open" /\ p.pc \in {"stat", "read"} /\ p.clean = r.clean
          /\ p.pc = "stat" => r.op = "get"
          /\ p.file = name /\ name # NoFile
       \/ r.pc = "stat" /\ p.pc = "read" /\ SameFile(r, p) /\ p.clean = r.clean
       \/ /\ r.pc = "read" /\ p.pc = "read" /\ p.file = r.file
          /\ r.off < Len(content[r.file])
          /\ p.clean = (r.clean /\ content[r.file][r.off + 1] = "data")
Ends(r, p) ==
    /\ r.pc \notin {"new", "done"} /\ Keeps(r, p) /\ SameFile(r, p)
    /\ p.clean = r.clean /\ p.opened = r.opened /\ QuietFiles
    /\ \/ /\ p.pc = "done" /\ p.answer \in Answers
          /\ r.op = "store" /\ p.answer = "ok" => r.pc = "write" /\ r.off = Blocks
          /\ r.op = "delete" => p.answer \notin {"ok", "notFound"}
       \/ r.pc = "write" /\ p.pc = "remove" /\ p.answer = r.answer

(* Every handler step is one of these, and touches no other record.        *)
Effect(c) ==
    LET r == call[c]
        p == call'[c]
    IN  /\ call' \in [Call -> CallRecord]
        /\ \A d \in Call : d # c => call'[d] = call[d]
        /\ \/ Arrives(r, p) \/ Creates(c, r, p) \/ Writes(r, p)
           \/ Removes(r, p) \/ Reads(r, p) \/ Ends(r, p)

LEMMA HasEffect ==
    ASSUME TypeOK, TypeOK', Locals, NEW c \in Call, Handler(c) PROVE Effect(c)
<1> USE StorageNodeAssumption
<1>0. /\ name \in Call \cup {NoFile} /\ content \in [Call -> Contents]
      /\ call \in [Call -> CallRecord] /\ call' \in [Call -> CallRecord]
  BY DEF TypeOK, CallRecord
<1> DEFINE r == call[c]
           p == call'[c]
           Kind == \/ Arrives(r, p) \/ Creates(c, r, p) \/ Writes(r, p)
                   \/ Removes(r, p) \/ Reads(r, p) \/ Ends(r, p)
<1>r. r \in CallRecord /\ p \in CallRecord
  BY <1>0
<1>f. \A rec : Sets(c, rec) => p = rec /\ \A d \in Call : d # c => call'[d] = call[d]
  BY <1>0 DEF Sets
<1>a. \A a : Reply(c, a) => p = [r EXCEPT !.pc = "done", !.answer = a]
  BY <1>f DEF Reply
<1>1. \E rec : Sets(c, rec)
  BY DEF Handler, Arrive, StoreOpen, StoreOpenFails, StoreWrite,
         StoreWriteFails, StoreRemove, StoreDone, ReadFails, GetOpen,
         GetStat, GetRead, GetDone, GetBreaks, VerifyOpen, VerifyRead,
         VerifyDone, Delete, DeleteFails, OpenToRead, ReadBlock, Reply
<1>2. SUFFICES Kind
  BY <1>0, <1>1, <1>f DEF Effect
<1>3. CASE Arrive(c)
  <2>1. PICK op \in Op :
          Sets(c, [Unused EXCEPT !.pc = "open", !.op = op,
                                 !.after = {d \in Call : Over(d)}])
    BY <1>3 DEF Arrive
  <2> DEFINE over == {d \in Call : Over(d)}
  <2>2. p = [Unused EXCEPT !.pc = "open", !.op = op, !.after = over]
    BY <1>f, <2>1
  <2>3. r.pc = "new" /\ QuietFiles
    BY <1>3 DEF Arrive, QuietFiles
  <2> HIDE DEF over, p, r
  <2>4. /\ p.pc = "open" /\ p.op = op /\ p.after = over /\ p.file = NoFile
        /\ p.off = 0 /\ p.clean /\ p.answer = "none" /\ p.opened = {}
    BY <2>2 DEF Unused
  <2>5. Arrives(r, p)
    BY <2>3, <2>4 DEF Arrives, over
  <2> QED
    BY <2>5 DEF p, r
<1>4. CASE StoreOpen(c)
  <2> DEFINE f == IF name = NoFile THEN c ELSE name
  <2>1. p = [r EXCEPT !.pc = "write", !.file = f] /\ name' = f
        /\ content' = [content EXCEPT ![f] = <<>>]
        /\ r.op = "store" /\ r.pc = "open"
    BY <1>4, <1>f DEF StoreOpen, At
  <2> HIDE DEF p, r
  <2>2. Creates(c, r, p)
    BY <1>r, <2>1 DEF CallRecord, Creates, Keeps
  <2> QED
    BY <2>2 DEF p, r
<1>5. CASE StoreWrite(c)
  <2>1. p = [r EXCEPT !.off = r.off + 1] /\ name' = name
        /\ content' = [content EXCEPT ![r.file] = Written(@, r.off)]
        /\ r.op = "store" /\ r.pc = "write" /\ r.off < Blocks
    BY <1>5, <1>f DEF StoreWrite, At
  <2> HIDE DEF p, r
  <2>2. Writes(r, p)
    BY <1>r, <2>1 DEF CallRecord, Writes, Keeps
  <2> QED
    BY <2>2 DEF p, r
<1>6. CASE StoreRemove(c)
  <2>1. p = [r EXCEPT !.pc = "done", !.answer = "failed"] /\ name' = NoFile
        /\ content' = content /\ r.op = "store" /\ r.pc = "remove"
    BY <1>6, <1>a DEF StoreRemove, At
  <2> HIDE DEF p, r
  <2>2. Removes(r, p)
    BY <1>r, <2>1 DEF CallRecord, Removes, Keeps, SameFile
  <2> QED
    BY <2>2 DEF p, r
<1>7. CASE Delete(c)
  <2> DEFINE opened == {d \in Call : call[d].op = "store" /\ call[d].pc # "open"}
             answer == IF name = NoFile THEN "notFound" ELSE "ok"
  <2>1. p = [r EXCEPT !.pc = "done", !.answer = answer, !.opened = opened]
        /\ name' = NoFile /\ content' = content /\ r.op = "delete" /\ r.pc = "open"
    BY <1>7, <1>f DEF Delete, At
  <2>2. answer \in {"ok", "notFound"}
    OBVIOUS
  <2> HIDE DEF p, r, opened, answer
  <2>3. Removes(r, p)
    BY <1>r, <2>1, <2>2 DEF CallRecord, Removes, Keeps, SameFile, opened
  <2> QED
    BY <2>3 DEF p, r
<1>8. CASE GetStat(c)
  <2>1. PICK size : p = [r EXCEPT !.pc = "read", !.size = size]
    BY <1>8, <1>f DEF GetStat
  <2>2. r.op = "get" /\ r.pc = "stat" /\ QuietFiles
    BY <1>8 DEF GetStat, At, QuietFiles
  <2> HIDE DEF p, r
  <2>3. Reads(r, p)
    BY <1>r, <2>1, <2>2 DEF CallRecord, Reads, Keeps, SameFile
  <2> QED
    BY <2>3 DEF p, r
<1>9. CASE GetRead(c) \/ VerifyRead(c)
  <2> DEFINE good == r.clean /\ content[r.file][r.off + 1] = "data"
  <2>1. /\ p = [r EXCEPT !.off = r.off + 1, !.clean = good]
        /\ r.op \in {"get", "verify"} /\ r.pc = "read" /\ QuietFiles
        /\ r.off < Len(content[r.file])
    BY <1>9, <1>f DEF GetRead, VerifyRead, ReadBlock, At, QuietFiles
  <2> HIDE DEF p, r, good
  <2>2. /\ p.pc = r.pc /\ Keeps(r, p) /\ p.file = r.file /\ p.clean = good
        /\ p.answer = r.answer /\ p.opened = r.opened
    BY <1>r, <2>1 DEF CallRecord, Keeps
  <2>3. Reads(r, p)
    BY <2>1, <2>2 DEF Reads, good
  <2> QED
    BY <2>3 DEF p, r
<1>10. CASE GetOpen(c) \/ VerifyOpen(c)
  <2>1. /\ r.op \in {"get", "verify"} /\ r.pc = "open" /\ QuietFiles
        /\ \/ Reply(c, "notFound")
           \/ /\ name # NoFile
              /\ \E next \in {"stat", "read"} :
                   /\ next = "stat" => r.op = "get"
                   /\ Sets(c, [r EXCEPT !.pc = next, !.file = name])
    BY <1>10 DEF GetOpen, VerifyOpen, OpenToRead, At, QuietFiles
  <2>2. \/ p = [r EXCEPT !.pc = "done", !.answer = "notFound"]
        \/ /\ name # NoFile
           /\ \E next \in {"stat", "read"} :
                /\ next = "stat" => r.op = "get"
                /\ p = [r EXCEPT !.pc = next, !.file = name]
    BY <1>a, <1>f, <2>1
  <2> HIDE DEF p, r
  <2>3. Reads(r, p) \/ Ends(r, p)
    BY <1>r, <2>1, <2>2 DEF CallRecord, Reads, Ends, Keeps, SameFile, Answers
  <2> QED
    BY <2>3 DEF p, r
<1>11. CASE \/ StoreOpenFails(c) \/ StoreDone(c) \/ ReadFails(c) \/ GetDone(c)
            \/ GetBreaks(c) \/ VerifyDone(c) \/ DeleteFails(c)
  <2>1. PICK a \in Answers :
          /\ Reply(c, a)
          /\ r.op = "store" /\ a = "ok" => r.pc = "write" /\ r.off = Blocks
          /\ r.op = "delete" => a = "failed"
    BY <1>11 DEF StoreOpenFails, StoreDone, ReadFails, GetDone,
                GetBreaks, VerifyDone, DeleteFails, Answers, At
  <2>2. r.pc \notin {"new", "done"} /\ QuietFiles
    BY <1>11 DEF StoreOpenFails, StoreDone, ReadFails, GetDone, QuietFiles,
                GetBreaks, VerifyDone, DeleteFails, At
  <2>3. p = [r EXCEPT !.pc = "done", !.answer = a]
    BY <1>a, <2>1
  <2> HIDE DEF p, r
  <2>4. Ends(r, p)
    BY <1>r, <2>1, <2>2, <2>3 DEF CallRecord, Ends, Keeps, SameFile
  <2> QED
    BY <2>4 DEF p, r
<1>12. CASE StoreWriteFails(c)
  <2>1. /\ p = [r EXCEPT !.pc = "remove"] /\ QuietFiles
        /\ r.op = "store" /\ r.pc = "write"
    BY <1>12, <1>f DEF StoreWriteFails, At, QuietFiles
  <2> HIDE DEF p, r
  <2>2. Ends(r, p)
    BY <1>r, <2>1 DEF CallRecord, Ends, Keeps, SameFile
  <2> QED
    BY <2>2 DEF p, r
<1> QED
  BY <1>3, <1>4, <1>5, <1>6, <1>7, <1>8, <1>9, <1>10, <1>11, <1>12 DEF Handler
-----------------------------------------------------------------------------
(* Each part of the invariant over a step of a handler.                    *)

(* The facts about records that the parts share: who is done stays done,   *)
(* who has arrived keeps its kind and its history, and does not open again. *)
LEMMA StepFrame ==
    ASSUME TypeOK, Locals, NEW c \in Call, Effect(c)
    PROVE  /\ \A d \in Call : Over(d) => d # c /\ call'[d] = call[d]
           /\ \A d \in Call : call[d].op # "none" =>
                call'[d].op = call[d].op /\ call'[d].after = call[d].after
           /\ \A d \in Call : call[d].op # "none" /\ call[d].pc # "open" =>
                call'[d].pc # "open"
           /\ \A d \in Call : call[d].op = "none" <=> call[d].pc = "new"
           /\ ~Over(c)
<1>1. \A d \in Call : call[d].op = "none" <=> call[d].pc = "new"
  BY UnusedIs DEF Locals, Op
<1>2. \A d \in Call : d # c => call'[d] = call[d]
  BY DEF Effect
<1>3. /\ ~Over(c)
      /\ call[c].op # "none" => Keeps(call[c], call'[c])
      /\ call[c].op # "none" /\ call[c].pc # "open" => call'[c].pc # "open"
      /\ call'[c].op # "none"
  BY <1>1 DEF Effect, Over, Keeps, Arrives, Creates, Writes, Removes, Reads, Ends, Op
<1> QED
  BY <1>1, <1>2, <1>3 DEF Over, Keeps

LEMMA LocalsKept ==
    ASSUME TypeOK, TypeOK', Locals, NEW c \in Call, Effect(c) PROVE Locals'
<1> USE StorageNodeAssumption
<1> DEFINE r == call[c]
           p == call'[c]
<1>1. /\ r.pc = "new" => r = Unused
      /\ r.pc # "new" => r.op \in Op
      /\ r.op = "delete" => r.pc \in {"open", "done"}
      /\ r.pc = "open" => r.file = NoFile /\ r.off = 0
      /\ r.pc \in {"write", "remove"} => r.op = "store"
      /\ r.pc = "stat" => r.op = "get"
      /\ r.pc \in {"write", "remove", "stat", "read"} => r.file # NoFile
      /\ r.answer # "none" <=> r.pc = "done"
  BY DEF Locals, Past
<1>2. \/ Arrives(r, p) \/ Creates(c, r, p) \/ Writes(r, p)
      \/ Removes(r, p) \/ Reads(r, p) \/ Ends(r, p)
  BY DEF Effect
<1>3. name \in Call \cup {NoFile}
  BY DEF TypeOK
<1> HIDE DEF r, p
<1>4. /\ p.pc # "new" /\ p.op \in Op
      /\ p.op = "delete" => p.pc \in {"open", "done"}
      /\ p.pc = "open" => p.file = NoFile /\ p.off = 0
      /\ p.pc \in {"write", "remove"} => p.op = "store"
      /\ p.pc = "stat" => p.op = "get"
      /\ p.pc \in {"write", "remove", "stat", "read"} => p.file # NoFile
      /\ p.answer # "none" <=> p.pc = "done"
      /\ p.op = "store" /\ p.answer = "ok" => p.file # NoFile /\ p.off = Blocks
  <2>1. CASE Arrives(r, p)
    BY <2>1 DEF Arrives, Op
  <2>2. CASE Creates(c, r, p)
    BY <1>1, <1>3, <2>2 DEF Creates, Keeps, Op
  <2>3. CASE Writes(r, p)
    BY <1>1, <2>3 DEF Writes, Keeps, Op
  <2>4. CASE Removes(r, p)
    BY <1>1, <2>4 DEF Removes, Keeps, SameFile, Op
  <2>5. CASE Reads(r, p)
    BY <1>1, <2>5 DEF Reads, Keeps, SameFile, Op
  <2>6. CASE Ends(r, p)
    BY <1>1, <2>6 DEF Ends, Keeps, SameFile, Op, Answers
  <2> QED
    BY <1>2, <2>1, <2>2, <2>3, <2>4, <2>5, <2>6
<1>5. \A d \in Call : d # c => call'[d] = call[d]
  BY DEF Effect
<1>6. ASSUME NEW d \in Call
      PROVE  /\ call'[d].pc = "new" => call'[d] = Unused
             /\ call'[d].pc # "new" => call'[d].op \in Op
             /\ call'[d].op = "delete" => call'[d].pc \in {"open", "done"}
             /\ call'[d].pc = "open" => call'[d].file = NoFile /\ call'[d].off = 0
             /\ call'[d].pc \in {"write", "remove"} => call'[d].op = "store"
             /\ call'[d].pc = "stat" => call'[d].op = "get"
             /\ call'[d].pc \in {"write", "remove", "stat", "read"} =>
                  call'[d].file # NoFile
             /\ call'[d].answer # "none" <=> call'[d].pc = "done"
             /\ call'[d].op = "store" /\ call'[d].answer = "ok" =>
                  call'[d].file # NoFile /\ call'[d].off = Blocks
  <2>1. CASE d = c
    BY <1>4, <2>1 DEF p
  <2>2. CASE d # c
    BY <1>5, <2>2 DEF Locals, Past
  <2> QED
    BY <2>1, <2>2
<1> QED
  BY <1>6 DEF Locals, Past

LEMMA HistoryKept ==
    ASSUME TypeOK, TypeOK', Locals, History, NEW c \in Call, Effect(c) PROVE History'
<1>1. SUFFICES ASSUME NEW d \in Call
               PROVE  /\ \A e \in call'[d].after : Over(e)'
                      /\ \A e \in call'[d].opened :
                           e \in Call /\ call'[e].op = "store" /\ call'[e].pc # "open"
  BY DEF History, Stores
<1>2. /\ \A e \in Call : Over(e) => Over(e)'
      /\ \A e \in Call : call[e].op = "store" /\ call[e].pc # "open" =>
           call'[e].op = "store" /\ call'[e].pc # "open"
  BY StepFrame DEF Over
<1>3. /\ call[d].after \subseteq Call /\ call[d].opened \subseteq Call
      /\ \A e \in call[d].after : Over(e)
      /\ \A e \in call[d].opened : call[e].op = "store" /\ call[e].pc # "open"
  BY DEF TypeOK, History, Stores
<1>4. CASE d # c \/ (call'[d].after = call[d].after /\ call'[d].opened = call[d].opened)
  <2>1. call'[d].after = call[d].after /\ call'[d].opened = call[d].opened
    BY <1>4 DEF Effect
  <2> QED
    BY <1>2, <1>3, <2>1
<1>5. CASE d = c /\ Arrives(call[c], call'[c])
  BY <1>2, <1>5 DEF Arrives
<1>6. CASE d = c /\ Removes(call[c], call'[c])
  <2>1. call'[d].after = call[d].after
    BY <1>6 DEF Removes, Keeps
  <2>2. \/ call'[d].opened = call[d].opened
        \/ call'[d].opened = {e \in Call : call[e].op = "store" /\ call[e].pc # "open"}
    BY <1>6 DEF Removes
  <2> QED
    BY <1>2, <1>3, <2>1, <2>2
<1>7. CASE d = c /\ ~Arrives(call[c], call'[c]) /\ ~Removes(call[c], call'[c])
  <2>1. call'[c].after = call[c].after /\ call'[c].opened = call[c].opened
    BY <1>7 DEF Effect, Creates, Writes, Reads, Ends, Keeps
  <2> QED
    BY <1>4, <1>7, <2>1
<1> QED
  BY <1>4, <1>5, <1>6, <1>7

(* Only os.Create gives the name to a file, and an answered Delete had     *)
(* counted only stores that were past it.                                  *)
LEMMA ResurrectedKept ==
    ASSUME TypeOK, TypeOK', Locals, History, Resurrected, NEW c \in Call, Effect(c)
    PROVE  Resurrected'
<1>1. SUFFICES ASSUME NEW d \in Call, call'[d].op = "delete",
                      call'[d].answer \in {"ok", "notFound"}, name' # NoFile
               PROVE  \E e \in Call : /\ call'[e].op = "store" /\ call'[e].pc # "open"
                                      /\ e \notin call'[d].opened
  BY DEF Resurrected, Stores, Deletes
<1>2. \A e \in Call : call[e].op = "store" /\ call[e].pc # "open" =>
        call'[e].op = "store" /\ call'[e].pc # "open"
  BY StepFrame
<1>3. ~Removes(call[c], call'[c])
  BY <1>1 DEF Removes
<1>4. call'[d] = call[d]
  <2>1. CASE d = c
    <3>1. call[c].op = "delete" /\ Ends(call[c], call'[c])
      BY <1>1, <1>3, <2>1 DEF Effect, Creates, Writes, Reads, Arrives, Keeps, Ends
    <3> QED
      BY <1>1, <2>1, <3>1 DEF Ends, Locals
  <2> QED
    BY <2>1 DEF Effect
<1>5. CASE Creates(c, call[c], call'[c])
  <2>1. c \notin call[d].opened
    BY <1>5 DEF Creates, History
  <2> QED
    BY <1>4, <1>5, <2>1 DEF Creates, Keeps
<1>6. CASE ~Creates(c, call[c], call'[c])
  <2>1. name' = name
    BY <1>3, <1>6 DEF Effect, Writes, Reads, Arrives, Ends, QuietFiles
  <2>2. PICK e \in Call : /\ call[e].op = "store" /\ call[e].pc # "open"
                          /\ e \notin call[d].opened
    BY <1>1, <1>4, <2>1 DEF Resurrected, Stores, Deletes
  <2> QED
    BY <1>2, <1>4, <2>2
<1> QED
  BY <1>5, <1>6

(* Whatever happens to a file after it was last truncated, what its last   *)
(* truncator wrote stays: a write replaces blocks by the same bytes.       *)
LEMMA LastTruncatedKept ==
    ASSUME TypeOK, TypeOK', Locals, History, History', LastTruncated,
           NEW c \in Call, Effect(c)
    PROVE  LastTruncated'
<1> USE StorageNodeAssumption
<1>1. SUFFICES ASSUME NEW d \in Call, call'[d].op = "store",
                      call'[d].file # NoFile, name' # NoFile
               PROVE  \E e \in Call : /\ call'[e].op = "store" /\ e \notin call'[d].after
                                      /\ call'[e].file = name' /\ WroteUpTo(e)'
  BY DEF LastTruncated, Stores, Past
<1>2. ~Removes(call[c], call'[c]) /\ ~(d = c /\ Arrives(call[c], call'[c]))
  BY <1>1 DEF Removes, Arrives
<1>3. /\ name \in Call \cup {NoFile} /\ content \in [Call -> Contents]
      /\ name' \in Call \cup {NoFile} /\ call[c] \in CallRecord
  BY DEF TypeOK, CallRecord
<1>4. CASE Creates(c, call[c], call'[c])
  <2>1. call'[c].op = "store" /\ call'[c].file = name' /\ call'[c].off = 0
    BY <1>4 DEF Creates, Keeps, Locals
  <2>2. content'[name'] = <<>>
    BY <1>1, <1>3, <1>4 DEF Creates
  <2>3. WroteUpTo(c)'
    BY <2>1, <2>2, EmptyContent DEF WroteUpTo
  <2>4. c \notin call'[d].after
    BY <1>4 DEF History, Over, Creates
  <2> QED
    BY <2>1, <2>3, <2>4
<1>5. CASE ~Creates(c, call[c], call'[c])
  <2>1. name' = name
    BY <1>2, <1>5 DEF Effect, Writes, Reads, Arrives, Ends, QuietFiles
  <2>2. /\ call[d].op = "store" /\ call[d].file # NoFile
        /\ call'[d].after = call[d].after
    <3>1. CASE d # c
      BY <1>1, <3>1 DEF Effect
    <3>2. CASE d = c
      <4>1. Writes(call[c], call'[c]) \/ Reads(call[c], call'[c]) \/ Ends(call[c], call'[c])
        BY <1>2, <1>5, <3>2 DEF Effect
      <4> QED
        BY <1>1, <3>2, <4>1 DEF Writes, Reads, Ends, Keeps, SameFile
    <3> QED
      BY <3>1, <3>2
  <2>3. PICK e \in Call : /\ call[e].op = "store" /\ e \notin call[d].after
                          /\ call[e].file = name /\ WroteUpTo(e)
    BY <1>1, <2>1, <2>2 DEF LastTruncated, Stores, Past
  <2>4. CASE Writes(call[c], call'[c]) /\ call[c].file = name
    <3> DEFINE old == content[name]
               at == call[c].off
               new == Written(old, at)
    <3>1. old \in Contents /\ at \in 0..Blocks /\ at < Blocks
      BY <1>1, <1>3, <2>1, <2>4 DEF Writes, CallRecord
    <3>0. Len(old) \in 0..Blocks
      BY <3>1, ContentShape
    <3>3. content'[name'] = new
      BY <1>1, <1>3, <2>1, <2>4 DEF Writes
    <3>4. /\ call'[e].op = "store" /\ call'[e].file = name'
          /\ e # c => call'[e].off = call[e].off
          /\ e = c => call'[e].off = at + 1 /\ call[e].off = at
      BY <2>1, <2>3, <2>4 DEF Effect, Writes, Keeps
    <3>5. /\ call[e].off <= Len(old) /\ call[e].off \in 0..Blocks
          /\ \A i \in 1..call[e].off : old[i] = "data"
      BY <2>3 DEF WroteUpTo, TypeOK
    <3> HIDE DEF old, at
    <3>2. /\ Len(new) = IF at < Len(old) THEN Len(old) ELSE at + 1
          /\ new[at + 1] = "data"
          /\ \A i \in 1..Len(old) : old[i] = "data" => new[i] = "data"
      BY <3>1, WrittenShape
    <3> HIDE DEF new
    <3>6. /\ call[e].off <= Len(new)
          /\ \A i \in 1..call[e].off : new[i] = "data"
      BY <3>0, <3>1, <3>2, <3>5
    <3>7. /\ call'[e].off <= Len(new)
          /\ \A i \in 1..call'[e].off : new[i] = "data"
      BY <3>0, <3>1, <3>2, <3>4, <3>5, <3>6
    <3>8. WroteUpTo(e)'
      BY <3>3, <3>7 DEF WroteUpTo
    <3> QED
      BY <2>2, <2>3, <3>4, <3>8
  <2>5. CASE ~(Writes(call[c], call'[c]) /\ call[c].file = name)
    <3>1. content'[name'] = content[name]
      BY <1>1, <1>2, <1>3, <1>5, <2>1, <2>5
      DEF Effect, Writes, Reads, Arrives, Ends, QuietFiles
    <3>2. call'[e].op = "store" /\ call'[e].file = name' /\ call'[e].off = call[e].off
      <4>1. CASE e # c
        BY <2>1, <2>3, <4>1 DEF Effect
      <4>2. CASE e = c
        <5>1. Ends(call[c], call'[c])
          BY <1>2, <1>5, <2>3, <2>5, <4>2, StepFrame DEF Effect, Reads, Arrives
        <5> QED
          BY <2>1, <2>3, <4>2, <5>1 DEF Ends, Keeps, SameFile
      <4> QED
        BY <4>1, <4>2
    <3> QED
      BY <2>2, <2>3, <3>1, <3>2 DEF WroteUpTo
  <2> QED
    BY <2>4, <2>5
<1> QED
  BY <1>4, <1>5

LEMMA KeepsNameKept ==
    ASSUME TypeOK, Locals, History, KeepsName, NEW c \in Call, Effect(c)
    PROVE  KeepsName'
<1> USE StorageNodeAssumption
<1>1. SUFFICES ASSUME NEW d \in Call, call'[d].op = "store",
                      call'[d].file # NoFile, name' = NoFile
               PROVE  \E e \in Call : /\ e \notin call'[d].after
                                      /\ \/ call'[e].op = "delete"
                                         \/ call'[e].op = "store" /\ call'[e].answer = "failed"
  BY DEF KeepsName, Removed, Stores, Deletes, Past
<1>2. ~Creates(c, call[c], call'[c]) /\ ~(d = c /\ Arrives(call[c], call'[c]))
  BY <1>1 DEF Creates, Arrives, TypeOK
<1>3. /\ call[d].op = "store" /\ call[d].file # NoFile
      /\ call'[d].after = call[d].after
  <2>1. CASE d # c
    BY <1>1, <2>1 DEF Effect
  <2>2. CASE d = c
    <3>1. \/ Writes(call[c], call'[c]) \/ Reads(call[c], call'[c])
          \/ Ends(call[c], call'[c]) \/ Removes(call[c], call'[c])
      BY <1>2, <2>2 DEF Effect
    <3> QED
      BY <1>1, <2>2, <3>1 DEF Writes, Reads, Ends, Removes, Keeps, SameFile
  <2> QED
    BY <2>1, <2>2
<1>4. CASE Removes(call[c], call'[c])
  <2>1. c \notin call[d].after
    BY StepFrame DEF History
  <2> QED
    BY <1>3, <1>4, <2>1 DEF Removes, Keeps
<1>5. CASE ~Removes(call[c], call'[c])
  <2>1. name = NoFile
    BY <1>1, <1>2, <1>5 DEF Effect, Writes, Reads, Arrives, Ends, QuietFiles
  <2>2. PICK e \in Call : /\ e \notin call[d].after
                          /\ \/ call[e].op = "delete"
                             \/ call[e].op = "store" /\ call[e].answer = "failed"
    BY <1>3, <2>1 DEF KeepsName, Removed, Stores, Deletes, Past
  <2>3. call[e].answer = "failed" => Over(e)
    BY DEF Locals, Over
  <2> QED
    BY <1>3, <2>2, <2>3, StepFrame
<1> QED
  BY <1>4, <1>5

(* Stores that do not overlap now did not before.                          *)
LEMMA AloneBefore ==
    ASSUME TypeOK, Locals, NEW c \in Call, Effect(c), Alone' PROVE Alone
<1>1. SUFFICES ASSUME NEW d \in Call, NEW e \in Call, call[d].op = "store",
                      call[e].op = "store", Overlap(d, e)
               PROVE  FALSE
  BY DEF Alone, Stores
<1>2. /\ call'[d].op = "store" /\ call'[d].after = call[d].after
      /\ call'[e].op = "store" /\ call'[e].after = call[e].after
  BY <1>1, StepFrame
<1> QED
  BY <1>1, <1>2 DEF Alone, Stores, Overlap

(* Two stores that are both under way overlap.                             *)
LEMMA OnlyWriter ==
    ASSUME Alone, History, NEW c \in Call, NEW d \in Call, c # d,
           call[c].op = "store", call[d].op = "store", ~Over(c), ~Over(d)
    PROVE  FALSE
BY DEF Alone, Overlap, Stores, History

LEMMA NoHolesKept ==
    ASSUME TypeOK, TypeOK', Locals, History, NoHoles, NEW c \in Call, Effect(c)
    PROVE  NoHoles'
<1> USE StorageNodeAssumption
<1> SUFFICES ASSUME Alone'
             PROVE  /\ \A f \in Call : \A i \in 1..Len(content'[f]) : content'[f][i] = "data"
                    /\ \A d \in Call : call'[d].op = "store" /\ call'[d].pc = "write" =>
                         call'[d].off = Len(content'[call'[d].file])
                    /\ \A d \in Call : call'[d].clean
  BY DEF NoHoles, Stores
<1>1. Alone
  BY AloneBefore
<1>2. /\ \A f \in Call : \A i \in 1..Len(content[f]) : content[f][i] = "data"
      /\ \A d \in Call : call[d].op = "store" /\ call[d].pc = "write" =>
           call[d].off = Len(content[call[d].file])
      /\ \A d \in Call : call[d].clean
  BY <1>1 DEF NoHoles, Stores
<1>3. /\ name \in Call \cup {NoFile} /\ content \in [Call -> Contents]
      /\ call \in [Call -> CallRecord]
  BY DEF TypeOK, CallRecord
<1>4. \A d \in Call : d # c => call'[d] = call[d]
  BY DEF Effect
<1>5. call[c].op = "store" /\ ~Over(c) =>
        \A d \in Call : call[d].op = "store" /\ d # c => call[d].pc # "write"
  BY <1>1, OnlyWriter DEF Over
<1>6. CASE Creates(c, call[c], call'[c])
  <2>1. name' \in Call /\ content'[name'] = <<>> /\ call'[c].off = 0
        /\ call'[c].file = name' /\ \A f \in Call : f # name' => content'[f] = content[f]
    BY <1>3, <1>6 DEF Creates, Locals
  <2>2. \A d \in Call : d # c => ~(call'[d].op = "store" /\ call'[d].pc = "write")
    BY <1>4, <1>5, <1>6 DEF Creates, Over
  <2>3. call'[c].clean
    BY <1>2, <1>6 DEF Creates
  <2>4. \A f \in Call : \A i \in 1..Len(content'[f]) : content'[f][i] = "data"
    BY <1>2, <2>1, EmptyContent
  <2> QED
    BY <1>2, <1>4, <2>1, <2>2, <2>3, <2>4, EmptyContent
<1>7. CASE Writes(call[c], call'[c])
  <2> DEFINE f == call[c].file
             at == call[c].off
             old == content[f]
             new == Written(old, at)
  <2>1. f \in Call /\ old \in Contents /\ at \in 0..Blocks /\ at < Blocks /\ at = Len(old)
    BY <1>2, <1>3, <1>7, Opened DEF Writes, CallRecord
  <2>2. /\ Len(new) = at + 1 /\ new[at + 1] = "data" /\ Len(old) \in 0..Blocks
        /\ \A i \in 1..Len(old) : old[i] = "data" => new[i] = "data"
    BY <2>1, WrittenShape, ContentShape
  <2>3. /\ content'[f] = new /\ \A g \in Call : g # f => content'[g] = content[g]
        /\ call'[c].file = f /\ call'[c].off = at + 1 /\ call'[c].clean
    BY <1>2, <1>3, <1>7, <2>1 DEF Writes
  <2>4. \A d \in Call : d # c => ~(call'[d].op = "store" /\ call'[d].pc = "write")
    BY <1>4, <1>5, <1>7 DEF Writes, Over
  <2>5. \A i \in 1..Len(old) : old[i] = "data"
    BY <1>2, <2>1
  <2> HIDE DEF f, at, old, new
  <2>6. \A i \in 1..Len(new) : new[i] = "data"
    BY <2>1, <2>2, <2>5
  <2> QED
    BY <1>2, <1>4, <2>2, <2>3, <2>4, <2>6
<1>8. CASE Removes(call[c], call'[c]) \/ Arrives(call[c], call'[c]) \/ Ends(call[c], call'[c])
  <2>1. /\ content' = content /\ call'[c].clean /\ call'[c].pc # "write"
    BY <1>2, <1>8 DEF Removes, Arrives, Ends, QuietFiles
  <2> QED
    BY <1>2, <1>4, <2>1
<1>9. CASE Reads(call[c], call'[c])
  <2>1. content' = content /\ call'[c].pc # "write"
    BY <1>9 DEF Reads, QuietFiles
  <2>2. call'[c].clean
    <3>1. CASE call[c].pc = "read"
      <4>1. call[c].file \in Call /\ content[call[c].file] \in Contents
        BY <3>1, Opened
      <4>2. /\ call[c].off < Len(content[call[c].file])
            /\ call'[c].clean = (call[c].clean
                                   /\ content[call[c].file][call[c].off + 1] = "data")
        BY <1>9, <3>1 DEF Reads
      <4>3. call[c].off \in 0..Blocks /\ Len(content[call[c].file]) \in 0..Blocks
        BY <1>3, <4>1, ContentShape DEF CallRecord
      <4>4. call[c].off + 1 \in 1..Len(content[call[c].file])
        BY <4>2, <4>3
      <4>5. content[call[c].file][call[c].off + 1] = "data" /\ call[c].clean
        BY <1>2, <4>1, <4>4
      <4> QED
        BY <4>2, <4>5
    <3>2. CASE call[c].pc # "read"
      BY <1>2, <1>9, <3>2 DEF Reads
    <3> QED
      BY <3>1, <3>2
  <2> QED
    BY <1>2, <1>4, <2>1, <2>2
<1> QED
  BY <1>6, <1>7, <1>8, <1>9 DEF Effect
-----------------------------------------------------------------------------
(* The death of the process, and the theorems.                             *)

(* A crash answers every request under way with nothing, and leaves the    *)
(* files as they are.                                                      *)
LEMMA CrashEffect ==
    ASSUME TypeOK, Crash
    PROVE  /\ TypeOK' /\ UNCHANGED <<name, content>>
           /\ \A d \in Call :
                /\ call[d].pc \in {"new", "done"} => call'[d] = call[d]
                /\ call[d].pc \notin {"new", "done"} =>
                     call'[d].pc = "done" /\ call'[d].answer = "lost"
                /\ Keeps(call[d], call'[d]) /\ SameFile(call[d], call'[d])
                /\ call'[d].clean = call[d].clean /\ call'[d].opened = call[d].opened
<1> USE StorageNodeAssumption
<1>0. call \in [Call -> CallRecord]
  BY DEF TypeOK, CallRecord
<1>1. ASSUME NEW d \in Call
      PROVE  /\ call'[d] \in CallRecord
             /\ call[d].pc \in {"new", "done"} => call'[d] = call[d]
             /\ call[d].pc \notin {"new", "done"} =>
                  call'[d].pc = "done" /\ call'[d].answer = "lost"
             /\ Keeps(call[d], call'[d]) /\ SameFile(call[d], call'[d])
             /\ call'[d].clean = call[d].clean /\ call'[d].opened = call[d].opened
  <2> DEFINE r == call[d]
             p == call'[d]
  <2>1. r \in CallRecord
    BY <1>0
  <2>2. p = IF r.pc \in {"new", "done"} THEN r
            ELSE [r EXCEPT !.pc = "done", !.answer = "lost"]
    BY DEF Crash
  <2> HIDE DEF r, p
  <2>3. CASE r.pc \in {"new", "done"}
    BY <2>1, <2>2, <2>3 DEF Keeps, SameFile, r, p
  <2>4. CASE r.pc \notin {"new", "done"}
    <3>1. p = [r EXCEPT !.pc = "done", !.answer = "lost"]
      BY <2>2, <2>4
    <3>2. /\ p \in CallRecord /\ p.pc = "done" /\ p.answer = "lost"
          /\ Keeps(r, p) /\ SameFile(r, p) /\ p.clean = r.clean /\ p.opened = r.opened
      BY <2>1, <3>1 DEF CallRecord, Answers, Keeps, SameFile
    <3> QED
      BY <2>4, <3>2 DEF r, p
  <2> QED
    BY <2>3, <2>4
<1>2. DOMAIN call' = Call /\ call' = [d \in Call |-> call'[d]]
  BY DEF Crash
<1>3. call' \in [Call -> CallRecord]
  BY <1>1, <1>2
<1>4. errors' \in 0..Errors /\ crashes' \in 0..Crashes /\ UNCHANGED <<name, content>>
  <2>1. /\ crashes < Crashes /\ crashes' = crashes + 1
        /\ UNCHANGED <<name, content, errors>>
    BY DEF Crash
  <2> QED
    BY <2>1 DEF TypeOK
<1>5. TypeOK'
  BY <1>3, <1>4 DEF TypeOK, CallRecord
<1> QED
  BY <1>1, <1>4, <1>5

LEMMA CrashKeeps == ASSUME IInv, Crash PROVE IInv'
<1>0. /\ TypeOK /\ Locals /\ History /\ Resurrected /\ LastTruncated
      /\ KeepsName /\ NoHoles
  BY DEF IInv
<1>1. TypeOK' /\ name' = name /\ content' = content
  BY <1>0, CrashEffect
<1>2. \A d \in Call :
        /\ call[d].pc \in {"new", "done"} => call'[d] = call[d]
        /\ call[d].pc \notin {"new", "done"} =>
             call'[d].pc = "done" /\ call'[d].answer = "lost"
        /\ call'[d].op = call[d].op /\ call'[d].after = call[d].after
        /\ call'[d].file = call[d].file /\ call'[d].off = call[d].off
        /\ call'[d].clean = call[d].clean /\ call'[d].opened = call[d].opened
  BY <1>0, CrashEffect DEF Keeps, SameFile
<1>3. Locals'
  BY <1>0, <1>2 DEF Locals, Past
<1>4. History'
  <2>1. \A d \in Call : call[d].after \subseteq Call /\ call[d].opened \subseteq Call
    BY <1>0 DEF TypeOK
  <2>2. ASSUME NEW d \in Call, NEW e \in call[d].after PROVE Over(e)'
    BY <1>0, <1>2, <2>1, <2>2 DEF History, Over
  <2>3. ASSUME NEW d \in Call, NEW e \in call[d].opened
        PROVE  e \in Stores' /\ call'[e].pc # "open"
    BY <1>0, <1>2, <2>1, <2>3 DEF History, Stores
  <2> QED
    BY <1>2, <2>2, <2>3 DEF History
<1>5. Resurrected'
  BY <1>0, <1>1, <1>2 DEF Resurrected, Stores, Deletes, Locals
<1>6. LastTruncated'
  BY <1>0, <1>1, <1>2 DEF LastTruncated, Stores, Past, WroteUpTo
<1>7. KeepsName'
  <2>1. \A e \in Call : call[e].answer = "failed" => call'[e].answer = "failed"
    BY <1>0, <1>2 DEF Locals
  <2> QED
    BY <1>0, <1>1, <1>2, <2>1 DEF KeepsName, Removed, Stores, Deletes, Past
<1>8. NoHoles'
  <2>1. Alone' => Alone
    BY <1>2 DEF Alone, Overlap, Stores
  <2>2. \A d \in Call : call'[d].pc = "write" => call[d].pc = "write"
    BY <1>2
  <2> QED
    BY <1>0, <1>1, <1>2, <2>1, <2>2 DEF NoHoles, Stores
<1> QED
  BY <1>1, <1>3, <1>4, <1>5, <1>6, <1>7, <1>8 DEF IInv

LEMMA HandlerKeeps == ASSUME IInv, NEW c \in Call, Handler(c) PROVE IInv'
<1>0. /\ TypeOK /\ Locals /\ History /\ Resurrected /\ LastTruncated
      /\ KeepsName /\ NoHoles
  BY DEF IInv
<1>1. TypeOK'
  BY <1>0, TypeKept
<1>2. Effect(c)
  BY <1>0, <1>1, HasEffect
<1>3. Locals'
  BY <1>0, <1>1, <1>2, LocalsKept
<1>4. History'
  BY <1>0, <1>1, <1>2, HistoryKept
<1>5. Resurrected'
  BY <1>0, <1>1, <1>2, ResurrectedKept
<1>6. LastTruncated'
  BY <1>0, <1>1, <1>2, <1>4, LastTruncatedKept
<1>7. KeepsName'
  BY <1>0, <1>2, KeepsNameKept
<1>8. NoHoles'
  BY <1>0, <1>1, <1>2, NoHolesKept
<1> QED
  BY <1>1, <1>3, <1>4, <1>5, <1>6, <1>7, <1>8 DEF IInv

LEMMA IInvAlways == Spec => []IInv
<1>1. IInv /\ [Next]_vars => IInv'
  <2> SUFFICES ASSUME IInv, [Next]_vars PROVE IInv'
    OBVIOUS
  <2>1. CASE Crash
    BY <2>1, CrashKeeps
  <2>2. CASE \E c \in Call : Handler(c)
    BY <2>2, HandlerKeeps
  <2>3. CASE UNCHANGED vars
    BY <2>3 DEF vars, IInv, TypeOK, Locals, Past, History, Over, Resurrected,
                LastTruncated, WroteUpTo, KeepsName, Removed, Alone, Overlap,
                NoHoles, Stores, Deletes
  <2> QED
    BY <2>1, <2>2, <2>3 DEF Next
<1> QED
  BY InitHolds, <1>1, PTL DEF Spec

(* The files and the handlers' locals have their types: an offset stays    *)
(* within the object, a write goes to a file that is open.                 *)
THEOREM TypeCorrect == Spec => []TypeOK
<1>1. IInv => TypeOK
  BY DEF IInv
<1> QED
  BY IInvAlways, <1>1, PTL

(* A store that was answered "ok" has left the whole file, unless a later  *)
(* or overlapping request did not end well: the last store to truncate the *)
(* file came after it or beside it, and so it is answered "ok" as well and *)
(* has written every block.                                                *)
THEOREM AcknowledgedFilesAreStored == Spec => []AcknowledgedIsStored
<1>1. IInv => AcknowledgedIsStored
  <2> USE StorageNodeAssumption
  <2> SUFFICES ASSUME IInv, NEW c \in Stores, call[c].answer = "ok",
                      \A d \in Stores \cup Deletes :
                        d \in call[c].after \/ (d \in Stores /\ call[d].answer = "ok")
               PROVE  name # NoFile /\ content[name] = [i \in 1..Blocks |-> "data"]
    BY DEF AcknowledgedIsStored
  <2>0. TypeOK /\ Locals /\ LastTruncated /\ KeepsName
    BY DEF IInv
  <2>1. Past(c)
    BY <2>0 DEF Locals, Stores
  <2>2. name # NoFile
    <3>1. ASSUME name = NoFile PROVE FALSE
      <4>1. PICK d \in Call \ call[c].after :
              d \in Deletes \/ (d \in Stores /\ call[d].answer = "failed")
        BY <2>0, <2>1, <3>1 DEF KeepsName, Removed
      <4>2. d \in Stores /\ call[d].answer = "ok"
        BY <4>1
      <4> QED
        BY <4>1, <4>2 DEF Stores, Deletes
    <3> QED
      BY <3>1
  <2>3. PICK e \in Stores \ call[c].after : call[e].file = name /\ WroteUpTo(e)
    BY <2>0, <2>1, <2>2 DEF LastTruncated
  <2>4. call[e].off = Blocks
    BY <2>0, <2>3 DEF Locals, Stores
  <2>5. content[name] \in Contents
    BY <2>0, <2>2 DEF TypeOK
  <2> DEFINE s == content[name]
  <2>6. Len(s) = Blocks /\ \A i \in 1..Blocks : s[i] = "data"
    <3>1. Len(s) \in 0..Blocks
      BY <2>5, ContentShape
    <3> QED
      BY <2>3, <2>4, <3>1 DEF WroteUpTo
  <2>7. DOMAIN s = 1..Blocks /\ s = [i \in 1..Blocks |-> s[i]]
    <3>1. PICK k \in 0..Blocks : s \in [1..k -> Block]
      BY <2>5 DEF Contents
    <3>2. DOMAIN s = 1..Len(s)
      BY <2>5, ContentShape
    <3> QED
      BY <2>6, <3>1, <3>2
  <2> QED
    BY <2>2, <2>6, <2>7
<1> QED
  BY IInvAlways, <1>1, PTL

(* While no two stores of the object overlap, a Get that sent a body of    *)
(* the full length sent the right bytes.                                   *)
THEOREM WholeBodiesAreGood == Spec => []WholeMeansGood
<1>1. IInv => WholeMeansGood
  BY DEF IInv, NoHoles, Alone, WholeMeansGood
<1> QED
  BY IInvAlways, <1>1, PTL

(* After an answered Delete the name stays free unless a store created the *)
(* file after it, however long the stores before it go on writing.         *)
THEOREM DeletesAreFinal == Spec => []NoResurrection
<1>1. IInv => NoResurrection
  BY DEF IInv, Resurrected, NoResurrection
<1> QED
  BY IInvAlways, <1>1, PTL
=============================================================================
