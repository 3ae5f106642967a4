----------------------------- MODULE ClientFiles -----------------------------
(***************************************************************************)
(* The client library on top of Namespace: src/client/posix_wrapper.cc, the   *)
(* descriptors of src/client/file_descriptor.cc and the objects of            *)
(* src/server/data.cc.  The threads belong to one process: each has its own   *)
(* FdManager (gPreloadCtx is thread_local), they share the table of locks.    *)
(*                                                                          *)
(* A descriptor holds a copy of the inode from the time of the open.  Writes  *)
(* go to the object and change the copy; fsync and close send the whole copy  *)
(* back.  Lengths are in units of one write.                                  *)
(***************************************************************************)
EXTENDS Namespace

CONSTANTS
    Menu,        \* the calls on paths that threads make
    Offsets,     \* offsets of pread, pwrite and lseek
    MaxOpen,     \* bound: files a thread has open at once
    MaxPath,     \* bound: calls on paths
    MaxCalls     \* bound: calls of both kinds

(* The four nodes of Init have ids, and one id is free.                       *)
ASSUME ClientAssumption ==
    /\ MaxId >= 5
    /\ \A call \in Menu : call.path \in Seq(Names) /\ call.new \in Seq(Names)
    /\ Offsets \subseteq Nat
    /\ MaxOpen \in Nat /\ MaxPath \in Nat /\ MaxCalls \in Nat

VARIABLES
    fd_map_, fd_pool_, min_free_fd_,   \* the threads' FdManagers
    buf,      \* a thread's copy of a descriptor during a call
    data,     \* length of the objects on the data servers, 0 if there is none
    gLockTable,
    own,      \* history: the number a thread got when it opened a file, 0 if it is closed
    told,     \* history: the lock on a file that a thread was granted
    wrote,    \* history: length written since the file was created
    tidy,     \* history: whether every write since then was at the end of the file
    refused,  \* history: names of which a refused call has logged the removal
    calls     \* calls made so far

vars == <<dent, inode, used, logged, full, c, fd_map_, fd_pool_, min_free_fd_, buf, data,
          gLockTable, own, told, wrote, tidy, refused, calls>>
fdVars == <<fd_map_, fd_pool_, min_free_fd_, own>>
written == <<wrote, tidy>>

NoFd == [fd |-> 0, id |-> 0, node |-> NoInode, seek |-> 0, modify |-> FALSE]
Types == {"RD", "WR"}
FileOps == {"write", "pwrite", "read", "pread", "lseek", "fsync", "close", "setlk", "setlkw", "unlock"}
Opening == {"open", "create"}

(* Two directories, the root and d, and the files f and d/g.  The object of a *)
(* removed file, which nothing deletes, is left under the first free id.      *)
Init ==
    /\ dent = [k \in Keys |-> CASE k = <<1, "d">> -> [id |-> 2, dir |-> TRUE]
                                [] k = <<1, "f">> -> [id |-> 3, dir |-> FALSE]
                                [] k = <<2, "g">> -> [id |-> 4, dir |-> FALSE]
                                [] OTHER -> NoEntry]
    /\ inode = [i \in Ids |-> CASE i = 1 -> [NewInode(TRUE) EXCEPT !.extra = 2]
                                [] i = 2 -> [NewInode(TRUE) EXCEPT !.extra = 1]
                                [] i \in {3, 4} -> NewInode(FALSE)
                                [] OTHER -> NoInode]
    /\ used = 1 .. 4
    /\ logged = dent
    /\ full = 0
    /\ c = [t \in Threads |-> Quiet]
    /\ fd_map_ = [t \in Threads |-> <<>>]
    /\ fd_pool_ = [t \in Threads |-> <<>>]
    /\ min_free_fd_ = [t \in Threads |-> 1]
    /\ buf = [t \in Threads |-> NoFd]
    /\ data = [i \in Ids |-> IF i = 5 THEN 1 ELSE 0]
    /\ gLockTable = [i \in Ids |-> <<>>]
    /\ own = [t \in Threads |-> [i \in Ids |-> 0]]
    /\ told = [t \in Threads |-> [i \in Ids |-> "none"]]
    /\ wrote = [i \in Ids |-> 0]
    /\ tidy = [i \in Ids |-> TRUE]
    /\ refused = {}
    /\ calls = [path |-> 0, file |-> 0]

(*---------------------------------------------------------------------------*)
(* What callers keep to, because the code has no provision for the rest.      *)

Running(t) == c[t].pc # "idle"
PathCall(t) == Running(t) /\ Op(t) \notin FileOps
PathsOf(call) == {call.path, call.new} \ {<<>>}
NodesOf(call) == {Locate(kRootId, p).id : p \in PathsOf(call)} \ {0}
OpenFiles(t) == {i \in Ids : own[t][i] # 0}
Harmless == {"open", "stat"}

Above(p, q) == Len(p) < Len(q) /\ p = SubSeq(q, 1, Len(p))

(* No two calls under way name the same path, or a directory that one of them *)
(* removes or moves and a path below it.                                      *)
NamesApart(a, b) ==
    \A p \in PathsOf(a), q \in PathsOf(b) :
       /\ p = q => a.op \in Harmless /\ b.op \in Harmless
       /\ Above(p, q) => a.op \in {"open", "stat", "chmod"}
       /\ Above(q, p) => b.op \in {"open", "stat", "chmod"}

(* A file that is open, or being opened, keeps its links and its mode.        *)
NodesApart(a, b) ==
    ((a.op \in Opening) # (b.op \in Opening)) => NodesOf(a) \cap NodesOf(b) = {}

(* Link, chmod, open and creat are not for a directory, and nothing is moved  *)
(* onto itself or below itself.                                               *)
RightKind(call) ==
    /\ call.op \in {"link", "chmod"} \cup Opening => ~Locate(kRootId, call.path).dir
    /\ call.op \in {"rename", "link"} => call.path # call.new /\ ~Above(call.path, call.new)

(* A thread opens a file that it does not have open.                          *)
CarefulCall(t, call) ==
    /\ RightKind(call)
    /\ \A s \in Threads \ {t} : PathCall(s) =>
          NamesApart(call, c[s].call) /\ NodesApart(call, c[s].call)
    /\ call.op \in Opening =>
          NodesOf(call) \cap OpenFiles(t) = {} /\ Cardinality(OpenFiles(t)) < MaxOpen
    /\ call.op \in {"chmod", "link", "unlink", "rename"} =>
          \A s \in Threads : NodesOf(call) \cap OpenFiles(s) = {}

(* Only a thread that was granted a lock on a file gives one up.              *)
CarefulFile(t, id, op) == op = "unlock" => told[t][id] # "none"

(* Whether a call on a path can do what it is for.  A directory has to be     *)
(* empty before it is removed or covered.  A target that lies below the last  *)
(* common directory of a rename by more than one name cannot be covered:      *)
(* the rename removes it, fails to find its place again and returns an error. *)
Fits(call) ==
    LET l == Locate(kRootId, call.path)
        m == Locate(kRootId, call.new)
        empty(id) == inode[id].extra = 0
    IN  CASE call.op \in {"open", "stat", "chmod"} -> l.id # 0
          [] call.op \in {"create", "mkdir"} -> l.parent # 0
          [] call.op = "unlink" -> l.id # 0 /\ ~l.dir
          [] call.op = "rmdir" -> l.id # 0 /\ l.dir /\ empty(l.id)
          [] call.op = "link" -> l.id # 0 /\ m.id = 0 /\ m.parent # 0
          [] OTHER -> /\ l.id # 0 /\ m.parent # 0
                      /\ m.id # 0 => /\ m.dir = l.dir /\ (m.dir => empty(m.id))
                                     /\ Len(call.new) = Common(call) + 1

(*---------------------------------------------------------------------------*)
(* Calls on paths.                                                           *)

BeginPath(t) ==
    /\ ~Running(t) /\ calls.path < MaxPath /\ calls.path + calls.file < MaxCalls
    /\ \E call \in Menu :
          /\ CarefulCall(t, call)
          /\ Set(t, [Quiet EXCEPT !.pc = "start", !.call = call, !.fit = Fits(call)])
    /\ calls' = [calls EXCEPT !.path = @ + 1]
    /\ UNCHANGED <<dent, inode, used, logged, full, fdVars, buf, data, gLockTable, told, written,
                   refused>>

(* wrote and tidy follow the creation of a file, refused the calls that fail  *)
(* between their record and their changes.                                    *)
ServerStep(t) ==
    /\ PathStep(t)
    /\ wrote' = IF In(t, "put") THEN [wrote EXCEPT ![c[t].id] = 0] ELSE wrote
    /\ tidy' = IF In(t, "put") THEN [tidy EXCEPT ![c[t].id] = TRUE] ELSE tidy
    /\ refused' = IF In(t, "dec") /\ c'[t].res = "fail" THEN refused \cup {Key(c[t].gone)} ELSE refused
    /\ UNCHANGED <<fdVars, buf, data, gLockTable, told, calls>>

(* An unordered_map with d under n, and with nothing under n.                 *)
Stored(map, n, d) == [m \in DOMAIN map \cup {n} |-> IF m = n THEN d ELSE map[m]]
Erased(map, n) == [m \in DOMAIN map \ {n} |-> map[m]]

AllocateFd(t) ==
    LET fresh == fd_pool_[t] = <<>>
    IN  \E fd \in {IF fresh THEN min_free_fd_[t] ELSE Head(fd_pool_[t])} :
           /\ min_free_fd_' = IF fresh THEN [min_free_fd_ EXCEPT ![t] = @ + 1] ELSE min_free_fd_
           /\ fd_pool_' = IF fresh THEN fd_pool_ ELSE [fd_pool_ EXCEPT ![t] = Tail(@)]
           /\ fd_map_' = [fd_map_ EXCEPT ![t] =
                 Stored(@, fd, [NoFd EXCEPT !.fd = fd, !.id = c[t].id, !.node = c[t].node])]
           /\ own' = [own EXCEPT ![t][c[t].id] = fd]

Answer(t) ==
    /\ In(t, "ret") /\ c[t].res # "EAGAIN"
    /\ IF Op(t) \in Opening /\ c[t].res = "ok" THEN AllocateFd(t) ELSE UNCHANGED fdVars
    /\ Set(t, Quiet)
    /\ UNCHANGED <<dent, inode, used, logged, full, buf, data, gLockTable, told, written, refused,
                   calls>>

(*---------------------------------------------------------------------------*)
(* Calls on descriptors.  Each begins with GetFd.                             *)

(* dfs_lseek, to an offset or to the end.                                     *)
Lseek(d) == {[d EXCEPT !.seek = n] : n \in Offsets \cup {d.node.size}}

(* Where a call goes on: fsync and close send the copy if it was modified.    *)
FirstStep(op, d) ==
    CASE op \in {"write", "pwrite"} -> "wdata"
      [] op \in {"read", "pread"} -> "rdata"
      [] op = "lseek" -> "setfd"
      [] op \in {"fsync", "close"} /\ d.modify -> "putnode"
      [] op = "fsync" /\ ~d.modify -> "ret"
      [] op = "close" /\ ~d.modify -> "release"
      [] OTHER -> "lock"

BeginFile(t) ==
    /\ ~Running(t) /\ calls.path + calls.file < MaxCalls
    /\ \E id \in OpenFiles(t), op \in FileOps :
          /\ CarefulFile(t, id, op)
          /\ LET d == fd_map_[t][own[t][id]]
             IN  /\ \E e \in IF op = "lseek" THEN Lseek(d) ELSE {d} : buf' = [buf EXCEPT ![t] = e]
                 /\ Set(t, [Quiet EXCEPT !.call = [NoCall EXCEPT !.op = op],
                              !.pc = FirstStep(op, d), !.res = "ok"])
    /\ calls' = [calls EXCEPT !.file = @ + 1]
    /\ UNCHANGED <<dent, inode, used, logged, full, fdVars, data, gLockTable, told, written, refused>>

(* ObjectStore::Write: an object grows, it never shrinks.                     *)
Grown(len, end) == IF len < end THEN end ELSE len

(* ObjectStore::Read of one unit, which fails when there is no object or the  *)
(* offset is behind its end.                                                  *)
Got(len, offset) ==
    CASE len = 0 \/ offset > len -> -1
      [] len # 0 /\ offset = len -> 0
      [] OTHER -> 1

(* IoReqHandler, a write by t of one unit at an offset.                       *)
StoreWrite(t, offset) ==
    LET id == buf[t].id
    IN  /\ data' = [data EXCEPT ![id] = Grown(@, offset + 1)]
        /\ wrote' = [wrote EXCEPT ![id] = Grown(@, offset + 1)]
        /\ tidy' = [tidy EXCEPT ![id] = @ /\ offset = wrote[id] /\ buf[t].node.size = wrote[id]]

(* dfs_write: at the seek offset.  size_ grows wherever that is.              *)
WriteData(t) ==
    /\ In(t, "wdata") /\ Op(t) = "write"
    /\ StoreWrite(t, buf[t].seek)
    /\ buf' = [buf EXCEPT ![t].node.size = @ + 1, ![t].modify = TRUE, ![t].seek = @ + 1]
    /\ Go(t, "setfd")
    /\ UNCHANGED <<dent, inode, used, logged, full, fdVars, gLockTable, told, refused, calls>>

(* dfs_pwrite: at an offset, or at the end.  size_ grows wherever that is.    *)
PwriteData(t) ==
    /\ In(t, "wdata") /\ Op(t) = "pwrite"
    /\ \E offset \in Offsets \cup {buf[t].node.size} : StoreWrite(t, offset)
    /\ buf' = [buf EXCEPT ![t].node.size = @ + 1, ![t].modify = TRUE]
    /\ Go(t, "setfd")
    /\ UNCHANGED <<dent, inode, used, logged, full, fdVars, gLockTable, told, refused, calls>>

ReadData(t) ==
    /\ In(t, "rdata") /\ Op(t) = "read"
    /\ LET d == buf[t]
           n == IF d.node.size = d.seek THEN 0 ELSE Got(data[d.id], d.seek)
       IN  IF n < 1 THEN Return(t, IF n = 0 THEN "ok" ELSE "fail") /\ UNCHANGED buf
           ELSE buf' = [buf EXCEPT ![t].seek = @ + n] /\ Go(t, "setfd")
    /\ UNCHANGED <<dent, inode, used, logged, full, fdVars, data, gLockTable, told, written, refused,
                   calls>>

PreadData(t) ==
    /\ In(t, "rdata") /\ Op(t) = "pread"
    /\ \E offset \in Offsets :
          Return(t, IF buf[t].node.size # offset /\ Got(data[buf[t].id], offset) < 0
                      THEN "fail" ELSE "ok")
    /\ UNCHANGED <<dent, inode, used, logged, full, fdVars, buf, data, gLockTable, told, written,
                   refused, calls>>

SetFd(t) ==
    /\ In(t, "setfd")
    /\ fd_map_' = [fd_map_ EXCEPT ![t] = Stored(@, buf[t].fd, buf[t])]
    /\ Return(t, "ok")
    /\ UNCHANGED <<dent, inode, used, logged, full, fd_pool_, min_free_fd_, own, buf, data,
                   gLockTable, told, written, refused, calls>>

(* Mutant of PutInodeRequest: nothing is sent to the server.                  *)
PutInodeRequestSkipped(t) ==
    /\ In(t, "putnode")
    /\ buf' = [buf EXCEPT ![t].modify = FALSE]
    /\ Go(t, IF Op(t) = "close" THEN "release" ELSE "setfd")
    /\ UNCHANGED <<dent, inode, used, logged, full, fdVars, data, gLockTable, told, written, refused,
                   calls>>

(* On the server: the whole inode is overwritten by the copy.                 *)
UpdateInode(id, node) == IF inode[id].live THEN [inode EXCEPT ![id] = node] ELSE inode

PutInodeRequest(t) ==
    /\ In(t, "putnode")
    /\ inode' = UpdateInode(buf[t].id, buf[t].node)
    /\ buf' = [buf EXCEPT ![t].modify = FALSE]
    /\ Go(t, IF Op(t) = "close" THEN "release" ELSE "setfd")
    /\ UNCHANGED <<dent, used, logged, full, fdVars, data, gLockTable, told, written, refused, calls>>

(* Mutant of Lowered: the highest number is taken to be free in any case.     *)
LoweredAlways(t, fd) == TRUE

(* Whether releasing a descriptor lowers min_free_fd_.                        *)
Lowered(t, fd) == fd = min_free_fd_[t] - 1

ReleaseFd(t) ==
    /\ In(t, "release")
    /\ \E fd \in {buf[t].fd} :
          /\ fd_map_' = [fd_map_ EXCEPT ![t] = Erased(@, fd)]
          /\ min_free_fd_' = IF Lowered(t, fd) THEN [min_free_fd_ EXCEPT ![t] = @ - 1]
                             ELSE min_free_fd_
          /\ fd_pool_' = IF Lowered(t, fd) THEN fd_pool_
                         ELSE [fd_pool_ EXCEPT ![t] = Append(@, fd)]
    /\ own' = [own EXCEPT ![t][buf[t].id] = 0]
    /\ told' = [told EXCEPT ![t][buf[t].id] = "none"]
    /\ Return(t, "ok")
    /\ UNCHANGED <<dent, inode, used, logged, full, buf, data, gLockTable, written, refused, calls>>

(*---------------------------------------------------------------------------*)
(* Locks.  The table is under a mutex; a waiting thread looks again later.    *)
(* Closing a descriptor leaves the locks on its file in the table.            *)

(* Mutant of LocksConflict: only the lock in the table is looked at.          *)
LocksConflictOneSided(a, b) == b = "WR"

LocksConflict(a, b) == a = "WR" \/ b = "WR"

Conflicting(t, type) == \E i \in DOMAIN gLockTable[buf[t].id] :
                            LocksConflict(type, gLockTable[buf[t].id][i])

SetLock(t) ==
    /\ In(t, "lock") /\ Op(t) \in {"setlk", "setlkw"}
    /\ \E type \in Types :
          \/ /\ ~Conflicting(t, type)
             /\ gLockTable' = [gLockTable EXCEPT ![buf[t].id] = Append(@, type)]
             /\ told' = [told EXCEPT ![t][buf[t].id] = type]
             /\ Return(t, "ok")
          \/ /\ Conflicting(t, type) /\ Op(t) = "setlk"
             /\ Return(t, "fail")
             /\ UNCHANGED <<gLockTable, told>>
    /\ UNCHANGED <<dent, inode, used, logged, full, fdVars, buf, data, written, refused, calls>>

(* The first lock of the process that conflicts with "unlock" is removed: a   *)
(* write lock, never a read lock.                                             *)
Unlock(t) ==
    /\ In(t, "lock") /\ Op(t) = "unlock"
    /\ LET locks == gLockTable[buf[t].id]
           mine == {i \in DOMAIN locks : LocksConflict("UN", locks[i])}
           rest == SubSeq(locks, 1, Min(mine) - 1) \o SubSeq(locks, Min(mine) + 1, Len(locks))
       IN  IF mine = {} THEN Return(t, "fail") /\ UNCHANGED <<gLockTable, told>>
           ELSE /\ gLockTable' = [gLockTable EXCEPT ![buf[t].id] = rest]
                /\ told' = [told EXCEPT ![t][buf[t].id] = "none"]
                /\ Return(t, "ok")
    /\ UNCHANGED <<dent, inode, used, logged, full, fdVars, buf, data, written, refused, calls>>

FileStep(t) ==
    \/ BeginFile(t) \/ WriteData(t) \/ PwriteData(t) \/ ReadData(t) \/ PreadData(t) \/ SetFd(t)
    \/ PutInodeRequest(t) \/ ReleaseFd(t) \/ SetLock(t) \/ Unlock(t)

Next == \E t \in Threads : BeginPath(t) \/ ServerStep(t) \/ Answer(t) \/ FileStep(t)
Spec == Init /\ [][Next]_vars

(*---------------------------------------------------------------------------*)
(* Properties.                                                               *)

(* An entry that can be looked up names a node that exists and has the type   *)
(* the entry says: Create puts the node before the entry, Unlink erases the   *)
(* entry before the node.  Between its decrement and its erase an Unlink      *)
(* leaves its own entry to be found, and the unlink of the other link of the  *)
(* file may delete the node in that time.                                     *)
EntriesLive ==
    \A k \in Keys :
       /\ dent[k] # NoEntry
       /\ \A t \in Threads : c[t].pc \in {"subcount", "erase"} => Key(c[t].gone) # k
       => inode[dent[k].id].live /\ inode[dent[k].id].dir = dent[k].dir /\ inode[k[1]].live

(* When no call is in the middle of its changes, nlink_ of a file is the      *)
(* number of its entries, extra_ of a directory the number of entries in it,  *)
(* and a node without entries is gone and its id free.                        *)
LinksCounted ==
    (\A t \in Threads : PathCall(t) => c[t].pc \in {"start", "ret"}) =>
       \A i \in Ids :
          LET names == {k \in Keys : dent[k].id = i}
          IN  /\ inode[i].live = (i = kRootId \/ names # {})
              /\ inode[i].live = (i \in used)
              /\ inode[i].live /\ ~inode[i].dir => inode[i].nlink = Cardinality(names)
              /\ inode[i].live /\ inode[i].dir =>
                    inode[i].extra = Cardinality({k \in Keys : k[1] = i /\ dent[k] # NoEntry})

(* Replaying the log gives the entries that lookups find, for every name that *)
(* no call under way may be changing, whatever was refused for want of space  *)
(* and repeated.  One disagreement is the code's: an unlink or rmdir that is  *)
(* refused (wrong type, directory not empty) has logged the removal already,  *)
(* and the log then lacks a name that lookups still find.  The log never has  *)
(* a name that lookups do not find, nor another file under it.                *)
LogTellsNames ==
    \A k \in Keys :
       (\A t \in Threads : PathCall(t) /\ ~In(t, "ret") =>
           k \notin {Key(c[t].to), Key(c[t].gone), Key(c[t].old)}) =>
       logged[k] = dent[k] \/ (k \in refused /\ logged[k] = NoEntry)

(* A call on a path succeeds exactly when it could when it was made, however  *)
(* often the log was full, and what it promises then holds.                   *)
AnswersTrue ==
    \A t \in Threads : In(t, "ret") /\ c[t].res # "EAGAIN" /\ Op(t) \notin FileOps =>
       LET call == c[t].call
           l == Locate(kRootId, call.path)
           m == Locate(kRootId, call.new)
       IN  /\ (c[t].res = "ok") = c[t].fit
           /\ c[t].fit =>
                CASE call.op \in {"create", "mkdir", "open", "stat"} -> l.id # 0
                  [] call.op = "chmod" -> inode[l.id].mode = 1
                  [] call.op \in {"unlink", "rmdir"} -> l.id = 0
                  [] call.op = "link" -> l.id # 0 /\ l.id = m.id
                  [] OTHER -> l.id = 0 /\ m.id = c[t].old.id

(* Whether t may have a size of the file that it has not sent.                *)
Unsent(t, i) ==
    \/ own[t][i] # 0 /\ fd_map_[t][own[t][i]].modify
    \/ Running(t) /\ Op(t) \in FileOps /\ buf[t].id = i

(* If every write since the creation of a file was at its end, by a thread    *)
(* whose copy had the size of that moment, then the size that the last fsync  *)
(* or close sent is the length that was written, also when the file's id and  *)
(* with it the object of a removed file are used again; and the object is     *)
(* that long.  Other writes leave a wrong size: dfs_write and dfs_pwrite add  *)
(* to size_ wherever they write, and copies overwrite each other.             *)
SizesRight ==
    \A i \in Ids : inode[i].live /\ tidy[i] /\ (\A t \in Threads : ~Unsent(t, i)) =>
       /\ inode[i].size = wrote[i] /\ inode[i].size <= data[i]

(* A number that open returned stays the descriptor of that file until the    *)
(* thread closes it: AllocateFd does not return it for another file, and no   *)
(* call through another descriptor writes to it, whatever closes have put in  *)
(* fd_pool_ or taken off min_free_fd_.                                        *)
DescriptorsKept ==
    \A t \in Threads : \A i \in OpenFiles(t) :
       /\ own[t][i] \in DOMAIN fd_map_[t]
       /\ fd_map_[t][own[t][i]].id = i /\ fd_map_[t][own[t][i]].fd = own[t][i]

(* While a thread has been granted a write lock on a file no other thread has *)
(* been granted a lock on it.                                                 *)
LocksExclude ==
    \A t, s \in Threads : t # s =>
       \A i \in Ids : ~(told[t][i] = "WR" /\ told[s][i] # "none")
=============================================================================
