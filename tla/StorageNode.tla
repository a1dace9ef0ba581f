---------------------------- MODULE StorageNode ----------------------------
(***************************************************************************)
(* A storage node's HTTP handlers (pkg/node/storage_handler.go) at the     *)
(* level of the file system: Store, Get, Verify and Delete of one object   *)
(* id, any number of them at once.  Files of different objects do not      *)
(* meet.  Cluster takes each call as one step; this module shows what that *)
(* rests on and where it ends.                                             *)
(*                                                                         *)
(* There is no lock and no temporary file: Store truncates the file in     *)
(* place, writes it piece by piece and, on an error, removes whatever has  *)
(* the name by then.  An open file outlives its name.  All stores of an    *)
(* object id carry the same bytes.  Requests that are malformed are turned *)
(* away before anything is touched and are left out.                       *)
(***************************************************************************)
EXTENDS Naturals, Sequences, FiniteSets

CONSTANTS
    Call,     \* the requests that reach the node
    Blocks,   \* the object's length in units of one read or write
    NoFile,   \* the name {storagePath}/{object_id} does not exist
    Errors,   \* bound: I/O errors
    Crashes   \* bound: the node's process dies

ASSUME StorageNodeAssumption ==
    /\ NoFile \notin Call /\ IsFiniteSet(Call)
    /\ Blocks \in Nat \ {0} /\ Errors \in Nat /\ Crashes \in Nat

VARIABLES
    name,      \* the file that has the name, or NoFile
    content,   \* the blocks of a file, which is called after its creator
    call,      \* per request, the handler's control state and locals
    errors, crashes

vars == <<name, content, call, errors, crashes>>

Block == {"data", "zero"}    \* the object's bytes; a hole
Contents == UNION {[1..k -> Block] : k \in 0..Blocks}
Op == {"store", "get", "verify", "delete"}
Answers == {"ok", "notFound", "failed", "broken", "invalid", "lost"}

TypeOK ==
    /\ name \in Call \cup {NoFile}
    /\ content \in [Call -> Contents]
    /\ call \in [Call ->
           [pc: {"new", "open", "write", "remove", "stat", "read", "done"},
            op: Op \cup {"none"},
            file: Call \cup {NoFile},   \* the file it has open
            off: 0..Blocks,             \* blocks written or read
            size: 0..Blocks,            \* info.Size()
            clean: BOOLEAN,             \* no hole was read
            answer: Answers \cup {"none"},
            after: SUBSET Call,         \* calls over before this one began
            opened: SUBSET Call]]       \* stores past os.Create at a removal
    /\ errors \in 0..Errors /\ crashes \in 0..Crashes

Unused == [pc |-> "new", op |-> "none", file |-> NoFile, off |-> 0, size |-> 0,
           clean |-> TRUE, answer |-> "none", after |-> {}, opened |-> {}]

Init ==
    /\ name = NoFile
    /\ content = [c \in Call |-> <<>>]
    /\ call = [c \in Call |-> Unused]
    /\ errors = 0 /\ crashes = 0

At(c, op, pc) == call[c].op = op /\ call[c].pc = pc
Sets(c, rec) == call' = [call EXCEPT ![c] = rec]
Reply(c, a) == Sets(c, [call[c] EXCEPT !.pc = "done", !.answer = a])
Over(c) == call[c].pc = "done"

IOError == errors < Errors /\ errors' = errors + 1 /\ UNCHANGED crashes
NoIOError == UNCHANGED <<errors, crashes>>

(* The router hands the request to its handler.                            *)
Arrive(c) ==
    /\ call[c].pc = "new"
    /\ \E op \in Op :
         Sets(c, [Unused EXCEPT !.pc = "open", !.op = op,
                                !.after = {d \in Call : Over(d)}])
    /\ UNCHANGED <<name, content, errors, crashes>>

-----------------------------------------------------------------------------
(* Store.                                                                  *)

(* Mutant of StoreOpen: the file is extended to its full length at once.   *)
StorePreallocate(c) ==
    /\ At(c, "store", "open")
    /\ LET f == IF name = NoFile THEN c ELSE name
       IN  /\ name' = f
           /\ content' = [content EXCEPT ![f] = [i \in 1..Blocks |-> "zero"]]
           /\ Sets(c, [call[c] EXCEPT !.pc = "write", !.file = f])
    /\ NoIOError

(* os.Create: a new file, or the one of that name cut to nothing.          *)
StoreOpen(c) ==
    /\ At(c, "store", "open")
    /\ LET f == IF name = NoFile THEN c ELSE name
       IN  /\ name' = f
           /\ content' = [content EXCEPT ![f] = <<>>]
           /\ Sets(c, [call[c] EXCEPT !.pc = "write", !.file = f])
    /\ NoIOError

(* os.MkdirAll or os.Create fails.                                         *)
StoreOpenFails(c) ==
    /\ At(c, "store", "open") /\ IOError
    /\ Reply(c, "failed")
    /\ UNCHANGED <<name, content>>

(* A write behind the end of a file leaves a hole before it.               *)
Written(old, at) ==
    [i \in 1..(IF at < Len(old) THEN Len(old) ELSE at + 1) |->
        IF i = at + 1 THEN "data" ELSE IF i <= Len(old) THEN old[i] ELSE "zero"]

(* Mutant of StoreWrite: the end of the upload is not noticed.             *)
StoreWriteOn(c) ==
    /\ At(c, "store", "write") /\ call[c].off <= Blocks
    /\ LET f == call[c].file
       IN  content' = [content EXCEPT ![f] = Written(@, call[c].off)]
    /\ Sets(c, [call[c] EXCEPT !.off = @ + 1])
    /\ UNCHANGED name /\ NoIOError

(* io.Copy, each block at the handler's own offset.                        *)
StoreWrite(c) ==
    /\ At(c, "store", "write") /\ call[c].off < Blocks
    /\ LET f == call[c].file
       IN  content' = [content EXCEPT ![f] = Written(@, call[c].off)]
    /\ Sets(c, [call[c] EXCEPT !.off = @ + 1])
    /\ UNCHANGED name /\ NoIOError

StoreWriteFails(c) ==
    /\ At(c, "store", "write") /\ call[c].off < Blocks /\ IOError
    /\ Sets(c, [call[c] EXCEPT !.pc = "remove"])
    /\ UNCHANGED <<name, content>>

(* "Remove partial file": os.Remove goes by the name, and its error is     *)
(* ignored.                                                                *)
StoreRemove(c) ==
    /\ At(c, "store", "remove")
    /\ name' = NoFile
    /\ Reply(c, "failed")
    /\ UNCHANGED content /\ NoIOError

(* Mutants of StoreDone: a block short; a temporary file renamed at the end. *)
StoreDoneShort(c) ==
    /\ At(c, "store", "write") /\ call[c].off + 1 >= Blocks
    /\ Reply(c, "ok")
    /\ UNCHANGED <<name, content>> /\ NoIOError
StoreDoneRename(c) ==
    /\ At(c, "store", "write") /\ call[c].off = Blocks
    /\ name' = call[c].file
    /\ Reply(c, "ok")
    /\ UNCHANGED content /\ NoIOError

StoreDone(c) ==
    /\ At(c, "store", "write") /\ call[c].off = Blocks
    /\ Reply(c, "ok")
    /\ UNCHANGED <<name, content>> /\ NoIOError

-----------------------------------------------------------------------------
(* Get and Verify.                                                         *)

OpenToRead(c, op, next) ==
    /\ At(c, op, "open")
    /\ IF name = NoFile THEN Reply(c, "notFound")
       ELSE Sets(c, [call[c] EXCEPT !.pc = next, !.file = name])
    /\ UNCHANGED <<name, content>> /\ NoIOError

(* os.Open, Stat or, for Verify, a read fails: status 500.                 *)
ReadFails(c) ==
    /\ \/ call[c].op \in {"get", "verify"} /\ call[c].pc = "open"
       \/ At(c, "get", "stat") \/ At(c, "verify", "read")
    /\ IOError
    /\ Reply(c, "failed")
    /\ UNCHANGED <<name, content>>

GetOpen(c) == OpenToRead(c, "get", "stat")

(* The length announced is the one of this moment.                         *)
GetStat(c) ==
    /\ At(c, "get", "stat")
    /\ Sets(c, [call[c] EXCEPT !.pc = "read", !.size = Len(content[call[c].file])])
    /\ UNCHANGED <<name, content>> /\ NoIOError

ReadBlock(c) ==
    LET read == content[call[c].file]
        at == call[c].off
    IN  /\ at < Len(read)
        /\ Sets(c, [call[c] EXCEPT !.off = at + 1,
                                   !.clean = @ /\ read[at + 1] = "data"])
        /\ UNCHANGED <<name, content>> /\ NoIOError

AtEnd(c) == call[c].off >= Len(content[call[c].file])

(* DataFromReader sends no more than it announced.                         *)
GetRead(c) == At(c, "get", "read") /\ call[c].off < call[c].size /\ ReadBlock(c)

(* All of it is sent; or the file has become shorter, or cannot be read    *)
(* on, and the body breaks off.                                            *)
GetDone(c) ==
    /\ At(c, "get", "read") /\ call[c].off = call[c].size
    /\ Reply(c, "ok")
    /\ UNCHANGED <<name, content>> /\ NoIOError
GetBreaks(c) ==
    /\ At(c, "get", "read") /\ call[c].off < call[c].size
    /\ (AtEnd(c) /\ NoIOError) \/ IOError
    /\ Reply(c, "broken")
    /\ UNCHANGED <<name, content>>

VerifyOpen(c) == OpenToRead(c, "verify", "read")
VerifyRead(c) == At(c, "verify", "read") /\ ReadBlock(c)

(* The checksum of what was read up to the end, against the expected one.  *)
VerifyDone(c) ==
    /\ At(c, "verify", "read") /\ AtEnd(c)
    /\ Reply(c, IF call[c].clean /\ call[c].off = Blocks THEN "ok" ELSE "invalid")
    /\ UNCHANGED <<name, content>> /\ NoIOError

-----------------------------------------------------------------------------
(* Delete.                                                                 *)

Delete(c) ==
    /\ At(c, "delete", "open")
    /\ name' = NoFile
    /\ Sets(c, [call[c] EXCEPT
                  !.pc = "done", !.answer = IF name = NoFile THEN "notFound" ELSE "ok",
                  !.opened = {d \in Call : call[d].op = "store"
                                            /\ call[d].pc # "open"}])
    /\ UNCHANGED content /\ NoIOError

DeleteFails(c) ==
    /\ At(c, "delete", "open") /\ IOError
    /\ Reply(c, "failed")
    /\ UNCHANGED <<name, content>>

-----------------------------------------------------------------------------
(* The process dies: its handlers end where they are, what was written     *)
(* stays.  (The death of the host, which may lose what was never synced,   *)
(* is Cluster's ChunkRots.)                                                *)
Crash ==
    /\ crashes < Crashes /\ crashes' = crashes + 1
    /\ call' = [c \in Call |->
                  IF call[c].pc \in {"new", "done"} THEN call[c]
                  ELSE [call[c] EXCEPT !.pc = "done", !.answer = "lost"]]
    /\ UNCHANGED <<name, content, errors>>

Handler(c) ==
    \/ Arrive(c)
    \/ StoreOpen(c) \/ StoreOpenFails(c) \/ StoreWrite(c) \/ StoreWriteFails(c)
    \/ StoreRemove(c) \/ StoreDone(c)
    \/ ReadFails(c) \/ GetOpen(c) \/ GetStat(c) \/ GetRead(c) \/ GetDone(c)
    \/ GetBreaks(c)
    \/ VerifyOpen(c) \/ VerifyRead(c) \/ VerifyDone(c)
    \/ Delete(c) \/ DeleteFails(c)

Next == Crash \/ \E c \in Call : Handler(c)

Spec == Init /\ [][Next]_vars

-----------------------------------------------------------------------------
(* Properties.                                                             *)

Stores == {c \in Call : call[c].op = "store"}
Deletes == {c \in Call : call[c].op = "delete"}
Overlap(c, d) == c # d /\ c \notin call[d].after /\ d \notin call[c].after

(* What the coordinator takes an answered Store for: the whole file is     *)
(* there, unless a later or overlapping request did not end well or is not *)
(* over.  Overlapping stores that all succeed leave it whole, whatever     *)
(* order they truncate and write in; a Delete, a crash or an error may     *)
(* take an acknowledged file away, and a Store under way hides it.         *)
AcknowledgedIsStored ==
    \A c \in Stores :
        /\ call[c].answer = "ok"
        /\ \A d \in Stores \cup Deletes :
             d \in call[c].after \/ (d \in Stores /\ call[d].answer = "ok")
        => name # NoFile /\ content[name] = [i \in 1..Blocks |-> "data"]

(* A file is written in the open, and a reader may see any part of it.     *)
(* But as long as no two stores overlap, a body of the full length has the *)
(* right bytes: the length alone tells a partial file.  With overlapping   *)
(* stores it does not, and only the checksum does.                         *)
WholeMeansGood ==
    (\A c, d \in Stores : ~Overlap(c, d)) =>
        \A g \in Call :
            call[g].op = "get" /\ call[g].answer = "ok" /\ call[g].size = Blocks
                => call[g].clean

(* A Delete that has answered is final: no store that had created its file *)
(* before brings the name back, however long it goes on writing.           *)
NoResurrection ==
    \A d \in Deletes :
        /\ call[d].answer \in {"ok", "notFound"}
        /\ \A c \in Stores : c \in call[d].opened \/ call[c].pc = "open"
        => name = NoFile
=============================================================================
