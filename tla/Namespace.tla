------------------------------ MODULE Namespace ------------------------------
(***************************************************************************)
(* The operations on paths: src/server/metadata.cc, called through            *)
(* MDPathCommonReqHandler by ClientRpcWrapper::PathCommonRequest, which       *)
(* repeats a call while the server's log is full.                             *)
(*                                                                          *)
(* Any server serves any path, on the same directory entries and inodes, so   *)
(* a call is a sequence of steps on shared memory.  One lookup, insert or     *)
(* erase of an entry is a step (HashMap, which the hashtable implements), and *)
(* so is one access of an inode (InodeArray).  A path is a sequence of names. *)
(***************************************************************************)
EXTENDS Integers, Sequences, FiniteSets, FiniteSetsExt

CONSTANTS
    Threads,     \* client threads; each has at most one call under way
    Names,       \* names of directory entries
    MaxId,       \* bound: inode ids 1 .. MaxId
    MaxFull      \* bound: how often an append meets a full log

ASSUME NamespaceAssumption ==
    MaxId \in Nat \ {0} /\ MaxFull \in Nat

VARIABLES
    dent,     \* the shared hashtable: (directory, name) to entry
    inode,    \* the shared inode array
    used,     \* inode ids that AllocateInodeId has handed out
    logged,   \* what dent becomes when the log is replayed
    full,     \* appends that met a full log
    c         \* the threads' calls

nsVars == <<dent, inode, used, logged, full, c>>

kRootId == 1
Ids == 1 .. MaxId
Keys == Ids \X Names
NoEntry == [id |-> 0, dir |-> FALSE]
NoInode == [live |-> FALSE, dir |-> FALSE, nlink |-> 0, extra |-> 0, mode |-> 0, size |-> 0]
NewInode(dir) == [NoInode EXCEPT !.live = TRUE, !.dir = dir, !.nlink = 1]

(* LocateInode from a directory: the ids along the path, 0 from the first     *)
(* name that is missing; the parent is known when only the last one is.       *)
Along(start, path) ==
    LET f[i \in 0 .. Len(path)] ==
          IF i = 0 THEN start ELSE IF f[i-1] = 0 THEN 0 ELSE dent[<<f[i-1], path[i]>>].id
    IN  f

Locate(start, path) ==
    LET n == Len(path)
        f == Along(start, path)
        parent == IF n = 0 THEN 0 ELSE f[n-1]
    IN  [id |-> f[n], parent |-> parent, name |-> IF n = 0 THEN "" ELSE path[n],
         dir |-> parent # 0 /\ dent[<<parent, path[n]>>].dir]

Found(path) == Locate(kRootId, path).id # 0

NoCall == [op |-> "none", path |-> <<>>, new |-> <<>>]
Nowhere == [id |-> 0, parent |-> 0, name |-> "", dir |-> FALSE]
Quiet == [pc |-> "idle", call |-> NoCall, old |-> Nowhere, to |-> Nowhere, gone |-> Nowhere,
          last |-> FALSE, id |-> 0, node |-> NoInode, res |-> "none", fit |-> FALSE]

In(t, pc) == c[t].pc = pc
Op(t) == c[t].call.op
Set(t, f) == c' = [c EXCEPT ![t] = f]
Go(t, pc) == Set(t, [c[t] EXCEPT !.pc = pc])
Return(t, res) == Set(t, [c[t] EXCEPT !.pc = "ret", !.res = res])

(* An append to the server's log: it succeeds, or the ring is full.           *)
Append_(t, rec, pc) ==
    /\ logged' = rec
    /\ Go(t, pc)
    /\ UNCHANGED full
AppendFull(t) ==
    /\ full < MaxFull
    /\ full' = full + 1
    /\ Return(t, "EAGAIN")
    /\ UNCHANGED logged

Key(l) == <<l.parent, l.name>>
Entry(l) == [id |-> l.id, dir |-> l.dir]

(* What the records say about entries.                                        *)
CreateRec(t) == [logged EXCEPT ![Key(c[t].to)] = Entry(c[t].to)]
UnlinkRec(t) == [logged EXCEPT ![Key(c[t].gone)] = NoEntry]
LinkRec(t) == [logged EXCEPT ![Key(c[t].to)] = Entry(c[t].to)]
SetattrRec(t) == logged

(* Mutant of RenameRec: the record does not name the old entry.               *)
RenameRecHalf(t) == [logged EXCEPT ![Key(c[t].to)] = Entry(c[t].to)]

RenameRec(t) == [logged EXCEPT ![Key(c[t].old)] = NoEntry, ![Key(c[t].to)] = Entry(c[t].to)]

(*---------------------------------------------------------------------------*)
(* Stat, Access, Chmod.                                                      *)

LocateNode(t) ==
    /\ In(t, "start") /\ Op(t) \in {"open", "stat", "chmod"}
    /\ LET l == Locate(kRootId, c[t].call.path)
       IN  IF l.id = 0 THEN Return(t, "fail")
           ELSE Set(t, [c[t] EXCEPT !.old = l, !.id = l.id,
                          !.pc = IF Op(t) = "chmod" THEN "logattr" ELSE "get"])
    /\ UNCHANGED <<dent, inode, used, logged, full>>

GetInode(t) ==
    /\ In(t, "get")
    /\ Set(t, [c[t] EXCEPT !.pc = "ret", !.node = inode[c[t].id],
                 !.res = IF inode[c[t].id].live THEN "ok" ELSE "fail"])
    /\ UNCHANGED <<dent, inode, used, logged, full>>

LogSetattr(t) ==
    /\ In(t, "logattr")
    /\ Append_(t, SetattrRec(t), "setattr") \/ AppendFull(t)
    /\ UNCHANGED <<dent, inode, used>>

(* mode_ is overwritten with the argument, which has no type bits.            *)
SetMode(t) ==
    /\ In(t, "setattr")
    /\ IF inode[c[t].id].live
         THEN inode' = [inode EXCEPT ![c[t].id].mode = 1, ![c[t].id].dir = FALSE] /\ Return(t, "ok")
         ELSE UNCHANGED inode /\ Return(t, "fail")
    /\ UNCHANGED <<dent, used, logged, full>>

(*---------------------------------------------------------------------------*)
(* Create and Mkdir.                                                         *)

(* An existing node is not an error, of whichever type it is.                 *)
LocateNew(t) ==
    /\ In(t, "start") /\ Op(t) \in {"create", "mkdir"}
    /\ LET l == Locate(kRootId, c[t].call.path)
       IN  CASE l.parent = 0 -> Return(t, "fail") /\ UNCHANGED used
             [] l.parent # 0 /\ l.id # 0 ->
                  Set(t, [c[t] EXCEPT !.pc = "get", !.id = l.id]) /\ UNCHANGED used
             [] OTHER ->
                  \E id \in {i \in Ids \ used : \A j \in Ids \ used : i <= j} :
                     /\ used' = used \cup {id}
                     /\ Set(t, [c[t] EXCEPT !.pc = "logcreate", !.id = id,
                                  !.to = [l EXCEPT !.id = id, !.dir = Op(t) = "mkdir"]])
    /\ UNCHANGED <<dent, inode, logged, full>>

(* FreeInodeId when the log is full.                                          *)
LogCreate(t) ==
    /\ In(t, "logcreate")
    /\ \/ /\ Append_(t, CreateRec(t), "put")
          /\ UNCHANGED used
       \/ /\ AppendFull(t)
          /\ used' = used \ {c[t].id}
    /\ UNCHANGED <<dent, inode>>

PutInode(t) ==
    /\ In(t, "put")
    /\ inode' = [inode EXCEPT ![c[t].id] = NewInode(Op(t) = "mkdir")]
    /\ Set(t, [c[t] EXCEPT !.pc = "addcount", !.node = NewInode(Op(t) = "mkdir")])
    /\ UNCHANGED <<dent, used, logged, full>>

(* AddDirectoryEntry, also for Rename and Link: the parent's count of entries *)
(* and the entry.  A rename within a directory leaves the count alone.        *)
AddCount(t) ==
    /\ In(t, "addcount")
    /\ inode' = IF inode[c[t].to.parent].live
                  THEN [inode EXCEPT ![c[t].to.parent].extra = @ + 1] ELSE inode
    /\ Go(t, "addentry")
    /\ UNCHANGED <<dent, used, logged, full>>

AddEntry(t) ==
    /\ In(t, "addentry")
    /\ dent' = [dent EXCEPT ![Key(c[t].to)] = Entry(c[t].to)]
    /\ Return(t, "ok")
    /\ UNCHANGED <<inode, used, logged, full>>

(*---------------------------------------------------------------------------*)
(* Unlink and Rmdir, also for the target that a Rename covers.                *)

Covering(t) == Op(t) = "rename"
WantsDir(t) == IF Covering(t) THEN c[t].to.dir ELSE Op(t) = "rmdir"

LocateGone(t) ==
    /\ (In(t, "start") /\ Op(t) \in {"unlink", "rmdir"}) \/ In(t, "cover")
    /\ LET l == Locate(kRootId, IF Covering(t) THEN c[t].call.new ELSE c[t].call.path)
       IN  IF l.id = 0 THEN Return(t, "fail")
           ELSE Set(t, [c[t] EXCEPT !.pc = "logunlink", !.gone = l])
    /\ UNCHANGED <<dent, inode, used, logged, full>>

(* The record is appended before the type is looked at.                       *)
LogUnlink(t) ==
    /\ In(t, "logunlink")
    /\ Append_(t, UnlinkRec(t), "dec") \/ AppendFull(t)
    /\ UNCHANGED <<dent, inode, used>>

(* nlink_ of the node goes down unless it has the wrong type or entries.      *)
DecLinks(t) ==
    /\ In(t, "dec")
    /\ LET n == inode[c[t].gone.id]
           error == ~n.live \/ (IF WantsDir(t) THEN ~n.dir \/ n.extra > 0 ELSE n.dir)
       IN  IF error THEN Return(t, "fail") /\ UNCHANGED inode
           ELSE /\ inode' = [inode EXCEPT ![c[t].gone.id].nlink = @ - 1]
                /\ Set(t, [c[t] EXCEPT !.pc = "subcount", !.last = n.nlink = 1])
    /\ UNCHANGED <<dent, used, logged, full>>

(* DeleteDirectoryEntry.                                                      *)
SubCount(t) ==
    /\ In(t, "subcount")
    /\ inode' = IF inode[c[t].gone.parent].live
                  THEN [inode EXCEPT ![c[t].gone.parent].extra = @ - 1] ELSE inode
    /\ Go(t, "erase")
    /\ UNCHANGED <<dent, used, logged, full>>

AfterUnlink(t) == IF Covering(t) THEN Go(t, "again") ELSE Return(t, "ok")

(* Mutant of EraseEntry: the node is removed although links are left.         *)
EraseEntryAlways(t) ==
    /\ In(t, "erase")
    /\ dent' = [dent EXCEPT ![Key(c[t].gone)] = NoEntry]
    /\ Go(t, "delete")
    /\ UNCHANGED <<inode, used, logged, full>>

EraseEntry(t) ==
    /\ In(t, "erase")
    /\ dent' = [dent EXCEPT ![Key(c[t].gone)] = NoEntry]
    /\ IF c[t].last THEN Go(t, "delete") ELSE AfterUnlink(t)
    /\ UNCHANGED <<inode, used, logged, full>>

(* FreeInodeId and DeleteInode, without reuse of the id in between.           *)
DeleteInode(t) ==
    /\ In(t, "delete")
    /\ inode' = [inode EXCEPT ![c[t].gone.id] = NoInode]
    /\ used' = used \ {c[t].gone.id}
    /\ AfterUnlink(t)
    /\ UNCHANGED <<dent, logged, full>>

(*---------------------------------------------------------------------------*)
(* Rename and Link.                                                          *)

(* The directories both paths have in common, and the paths from there.       *)
Dirs(path) == SubSeq(path, 1, Len(path) - 1)
Common(call) ==
    LET a == Dirs(call.path)
        b == Dirs(call.new)
        agree == {n \in 0 .. Len(a) : n <= Len(b) /\ SubSeq(a, 1, n) = SubSeq(b, 1, n)}
    IN  Max(agree)
Rel(path, n) == SubSeq(path, n + 1, Len(path))

SameParent(t) == c[t].old.parent = c[t].to.parent
LogNext(t) == IF Op(t) = "link" THEN "loglink" ELSE "logrename"

LocateBoth(t) ==
    /\ In(t, "start") /\ Op(t) \in {"rename", "link"}
    /\ LET n == Common(c[t].call)
           lcd == Locate(kRootId, SubSeq(c[t].call.path, 1, n)).id
           old == Locate(lcd, Rel(c[t].call.path, n))
           new == Locate(lcd, Rel(c[t].call.new, n))
       IN  CASE lcd = 0 \/ old.id = 0 -> Return(t, "fail")
             [] lcd # 0 /\ old.id # 0 /\ new.id # 0 ->
                  IF Op(t) = "link" \/ old.dir # new.dir THEN Return(t, "fail")
                  ELSE Set(t, [c[t] EXCEPT !.pc = "cover", !.old = old, !.to = new])
             [] OTHER ->
                  IF new.parent = 0 THEN Return(t, "fail")
                  ELSE Set(t, [c[t] EXCEPT !.pc = LogNext(t), !.old = old,
                                 !.to = [new EXCEPT !.id = old.id, !.dir = old.dir]])
    /\ UNCHANGED <<dent, inode, used, logged, full>>

(* After the target has been covered: look it up again, from the directory    *)
(* the first lookup ended in and not from the common one.                     *)
LocateAgain(t) ==
    /\ In(t, "again")
    /\ LET new == Locate(c[t].to.parent, Rel(c[t].call.new, Common(c[t].call)))
       IN  IF new.id # 0 \/ new.parent = 0 THEN Return(t, "fail")
           ELSE Set(t, [c[t] EXCEPT !.pc = "logrename",
                          !.to = [new EXCEPT !.id = c[t].old.id, !.dir = c[t].old.dir]])
    /\ UNCHANGED <<dent, inode, used, logged, full>>

LogRename(t) ==
    /\ In(t, "logrename")
    /\ \/ Append_(t, RenameRec(t), IF SameParent(t) THEN "eraseold" ELSE "subold")
       \/ AppendFull(t)
    /\ UNCHANGED <<dent, inode, used>>

SubOldCount(t) ==
    /\ In(t, "subold")
    /\ inode' = IF inode[c[t].old.parent].live
                  THEN [inode EXCEPT ![c[t].old.parent].extra = @ - 1] ELSE inode
    /\ Go(t, "eraseold")
    /\ UNCHANGED <<dent, used, logged, full>>

(* Mutant of EraseOldEntry: the new parent's count is raised in any case.     *)
EraseOldEntryCounts(t) ==
    /\ In(t, "eraseold")
    /\ dent' = [dent EXCEPT ![Key(c[t].old)] = NoEntry]
    /\ Go(t, "addcount")
    /\ UNCHANGED <<inode, used, logged, full>>

EraseOldEntry(t) ==
    /\ In(t, "eraseold")
    /\ dent' = [dent EXCEPT ![Key(c[t].old)] = NoEntry]
    /\ Go(t, IF SameParent(t) THEN "addentry" ELSE "addcount")
    /\ UNCHANGED <<inode, used, logged, full>>

LogLink(t) ==
    /\ In(t, "loglink")
    /\ Append_(t, LinkRec(t), "inc") \/ AppendFull(t)
    /\ UNCHANGED <<dent, inode, used>>

IncLinks(t) ==
    /\ In(t, "inc")
    /\ IF inode[c[t].old.id].live
         THEN inode' = [inode EXCEPT ![c[t].old.id].nlink = @ + 1] /\ Go(t, "addcount")
         ELSE UNCHANGED inode /\ Return(t, "fail")
    /\ UNCHANGED <<dent, used, logged, full>>

(*---------------------------------------------------------------------------*)

(* Mutant of Retry: the server's -EAGAIN is returned to the caller.           *)
RetryNever(t) ==
    /\ In(t, "ret") /\ c[t].res = "EAGAIN"
    /\ Return(t, "fail")
    /\ UNCHANGED <<dent, inode, used, logged, full>>

(* PathCommonRequest sends the same request again.                            *)
Retry(t) ==
    /\ In(t, "ret") /\ c[t].res = "EAGAIN"
    /\ Set(t, [Quiet EXCEPT !.pc = "start", !.call = c[t].call, !.fit = c[t].fit])
    /\ UNCHANGED <<dent, inode, used, logged, full>>

PathStep(t) ==
    \/ LocateNode(t) \/ GetInode(t) \/ LogSetattr(t) \/ SetMode(t)
    \/ LocateNew(t) \/ LogCreate(t) \/ PutInode(t) \/ AddCount(t) \/ AddEntry(t)
    \/ LocateGone(t) \/ LogUnlink(t) \/ DecLinks(t) \/ SubCount(t) \/ EraseEntry(t)
    \/ DeleteInode(t)
    \/ LocateBoth(t) \/ LocateAgain(t) \/ LogRename(t) \/ SubOldCount(t)
    \/ EraseOldEntry(t) \/ LogLink(t) \/ IncLinks(t)
    \/ Retry(t)
=============================================================================
