-------------------------- MODULE ClientFilesProofs --------------------------
(***************************************************************************)
(* Descriptors and locks of module ClientFiles, for every number of threads, *)
(* names and inode ids and every menu of calls: a number that open returned  *)
(* stays the descriptor of its file until it is closed (DescriptorsKept),    *)
(* and write locks exclude the locks of other threads (LocksExclude).  One   *)
(* lemma per action says that it keeps the invariant of module               *)
(* ClientFilesInvariant.                                                     *)
(***************************************************************************)
EXTENDS ClientFilesInvariant

(* Leaves are Zenon's unless they name SMT.                                   *)
USE ZenonT(30)

(*---------------------------------------------------------------------------*)
(* Steps of one thread.                                                      *)

(* g is f but for what it has for t.                                          *)
Only(t, f, g) == DOMAIN g = Threads /\ \A s \in Threads \ {t} : g[s] = f[s]

LEMMA OnlyOne ==
    ASSUME NEW t \in Threads, NEW f, DOMAIN f = Threads, NEW v, NEW g, g = [f EXCEPT ![t] = v]
    PROVE  Only(t, f, g) /\ g[t] = v
BY DEF Only

LEMMA SetOne ==
    ASSUME CallsInv, NEW t \in Threads, NEW r2, Set(t, r2), CallInv(r2)
    PROVE  CallsInv' /\ c'[t] = r2 /\ Only(t, c, c')
<1>1. DOMAIN c = Threads /\ c' = [c EXCEPT ![t] = r2]
  BY DEF CallsInv, Set
<1>2. Only(t, c, c') /\ c'[t] = r2
  BY <1>1, OnlyOne
<1> QED BY <1>2 DEF CallsInv, Only

(* One thread's FdManager changes ...                                         *)
LEMMA FdChange ==
    ASSUME FdInv, NEW t \in Threads, Only(t, fd_map_, fd_map_'), Only(t, fd_pool_, fd_pool_'),
           Only(t, min_free_fd_, min_free_fd_'),
           Manager(fd_map_'[t], fd_pool_'[t], min_free_fd_'[t])
    PROVE  FdInv'
<1>1. ASSUME NEW s \in Threads \ {t}
      PROVE  Manager(fd_map_'[s], fd_pool_'[s], min_free_fd_'[s])
  BY DEF FdInv, Only
<1> QED BY <1>1 DEF FdInv, Only

(* ... and the files it has open ...                                          *)
LEMMA CopyChange ==
    ASSUME CopyInv, NEW t \in Threads, Only(t, fd_map_, fd_map_'), Only(t, own, own'),
           Only(t, buf, buf'), Only(t, c, c'), DOMAIN own'[t] = Ids,
           \A i \in Ids : own'[t][i] # 0 => Holds(fd_map_'[t], own'[t][i], i),
           c'[t].pc \in FilePcs => Copies(buf'[t], own'[t])
    PROVE  CopyInv'
<1>1. ASSUME NEW s \in Threads \ {t}
      PROVE  /\ DOMAIN own'[s] = Ids
             /\ \A i \in Ids : own'[s][i] # 0 => Holds(fd_map_'[s], own'[s][i], i)
             /\ c'[s].pc \in FilePcs => Copies(buf'[s], own'[s])
  <2>1. own'[s] = own[s] /\ fd_map_'[s] = fd_map_[s] /\ buf'[s] = buf[s] /\ c'[s] = c[s]
    BY DEF Only
  <2> QED BY <2>1 DEF CopyInv, MapInv
<1>2. DOMAIN own' = Threads /\ DOMAIN buf' = Threads
  BY DEF Only
<1>3. MapInv'
  BY <1>1, <1>2 DEF MapInv
<1> QED BY <1>1, <1>2, <1>3 DEF CopyInv

(* ... and the lock it unlocks.                                               *)
LEMMA TellingChange ==
    ASSUME LockInv, NEW t \in Threads, Only(t, c, c'), Only(t, told, told'), Only(t, buf, buf'),
           TellsLock(c'[t], told'[t][buf'[t].id])
    PROVE  \A s \in Threads : TellsLock(c'[s], told'[s][buf'[s].id])
<1>1. ASSUME NEW s \in Threads \ {t}
      PROVE  TellsLock(c'[s], told'[s][buf'[s].id])
  <2>1. told'[s] = told[s] /\ buf'[s] = buf[s] /\ c'[s] = c[s]
    BY DEF Only
  <2> QED BY <2>1 DEF LockInv
<1> QED BY <1>1

(* What the invariant says about the thread that moves.                       *)
LEMMA Mover ==
    ASSUME IInv, NEW t \in Threads
    PROVE  /\ EntriesInv /\ CallsInv /\ FdInv /\ CopyInv /\ MapInv
           /\ LockInv /\ TableInv /\ ToldInv
           /\ CallInv(c[t]) /\ DOMAIN buf = Threads
           /\ c[t].pc \in FilePcs => Copies(buf[t], own[t]) /\ Op(t) \notin Opening
           /\ TellsLock(c[t], told[t][buf[t].id])
<1>1. EntriesInv /\ CallsInv /\ FdInv /\ CopyInv /\ LockInv
  BY DEF IInv
<1>2. MapInv /\ TableInv /\ ToldInv
  BY <1>1 DEF CopyInv, LockInv
<1>3. CallInv(c[t]) /\ DOMAIN buf = Threads /\ TellsLock(c[t], told[t][buf[t].id])
  BY <1>1 DEF CallsInv, CopyInv, LockInv
<1>4. c[t].pc \in FilePcs => Copies(buf[t], own[t])
  BY <1>1 DEF CopyInv
<1>5. c[t].pc \in FilePcs => c[t].pc \notin OpeningPcs
  BY DEF FilePcs, OpeningPcs
<1>6. c[t].pc \in FilePcs => Op(t) \notin Opening
  BY <1>1, <1>5, NotOpening
<1> QED BY <1>1, <1>2, <1>3, <1>4, <1>6

(* Nothing of the invariant's changes for a thread.                           *)
LEMMA OnlyNone ==
    ASSUME NEW t, NEW f, DOMAIN f = Threads
    PROVE  Only(t, f, f)
BY DEF Only

LEMMA SameEntries ==
    ASSUME IInv, UNCHANGED dent
    PROVE  EntriesInv'
BY DEF IInv, EntriesInv

LEMMA SameTable ==
    ASSUME TableInv, ToldInv, UNCHANGED <<gLockTable, told>>
    PROVE  TableInv' /\ ToldInv'
BY DEF TableInv, ToldInv

(* A step of a call that moves neither descriptors nor locks.                 *)
LEMMA QuietStep ==
    ASSUME IInv, NEW t \in Threads, NEW r2, Set(t, r2), CallInv(r2),
           EntriesInv', UNCHANGED <<fdVars, gLockTable, told>>, Only(t, buf, buf'),
           r2.pc \in FilePcs => Copies(buf'[t], own[t]),
           TellsLock(r2, told[t][buf'[t].id])
    PROVE  IInv'
<1>1. CallsInv /\ FdInv /\ CopyInv /\ MapInv /\ LockInv /\ TableInv /\ ToldInv
  BY Mover
<1>2. /\ fd_map_' = fd_map_ /\ fd_pool_' = fd_pool_ /\ min_free_fd_' = min_free_fd_
      /\ own' = own /\ gLockTable' = gLockTable /\ told' = told
  BY DEF fdVars
<1>3. CallsInv' /\ c'[t] = r2 /\ Only(t, c, c')
  BY <1>1, SetOne
<1>4. FdInv'
  BY <1>1, <1>2 DEF FdInv
<1>5. /\ Only(t, fd_map_, fd_map_') /\ Only(t, own, own') /\ Only(t, told, told')
      /\ DOMAIN own'[t] = Ids
      /\ \A i \in Ids : own'[t][i] # 0 => Holds(fd_map_'[t], own'[t][i], i)
  BY <1>1, <1>2 DEF Only, FdInv, MapInv, ToldInv
<1>6. CopyInv'
  BY <1>1, <1>2, <1>3, <1>5, CopyChange
<1>7. \A s \in Threads : TellsLock(c'[s], told'[s][buf'[s].id])
  BY <1>1, <1>2, <1>3, <1>5, TellingChange
<1>8. TableInv' /\ ToldInv'
  BY <1>1, <1>2, SameTable
<1>9. LockInv'
  BY <1>7, <1>8 DEF LockInv
<1> QED BY <1>3, <1>4, <1>6, <1>9 DEF IInv

LEMMA SameBuf ==
    ASSUME IInv, NEW t \in Threads, UNCHANGED buf
    PROVE  Only(t, buf, buf')
BY OnlyNone, Mover

LEMMA BeginPathStep ==
    ASSUME IInv, NEW t \in Threads, BeginPath(t)
    PROVE  IInv'
<1>1. PICK call \in Menu : Set(t, Started(call, Fits(call)))
  BY DEF BeginPath, Started
<1>2. call.path \in Seq(Names) /\ call.new \in Seq(Names)
  BY ClientAssumption
<1> DEFINE r2 == Started(call, Fits(call))
<1>3. CallInv(r2) /\ r2.pc = "start"
  BY <1>2, StartCall
<1>4. UNCHANGED <<dent, fdVars, gLockTable, told, buf>>
  BY DEF BeginPath
<1> HIDE DEF r2
<1>5. TellsLock(r2, told[t][buf'[t].id]) /\ r2.pc \notin FilePcs
  BY <1>3 DEF TellsLock, FilePcs
<1>6. EntriesInv' /\ Only(t, buf, buf')
  BY <1>4, SameEntries, SameBuf
<1> QED BY <1>1, <1>3, <1>4, <1>5, <1>6, QuietStep DEF r2

LEMMA ServerStepInv ==
    ASSUME IInv, NEW t \in Threads, ServerStep(t)
    PROVE  IInv'
<1>1. PathStep(t) /\ UNCHANGED <<fdVars, gLockTable, told, buf>>
  BY DEF ServerStep
<1>2. EntriesInv /\ CallsInv /\ Only(t, buf, buf')
  BY <1>1, Mover, SameBuf
<1>3. EntriesInv'
  BY <1>1, <1>2, PathEntries
<1>4. PICK r2 : Set(t, r2) /\ CallInv(r2) /\ r2.pc \notin FilePcs
  BY <1>1, <1>2, PathStepResult DEF PathResult
<1>5. TellsLock(r2, told[t][buf'[t].id])
  BY <1>4 DEF TellsLock, FilePcs
<1> QED BY <1>1, <1>2, <1>3, <1>4, <1>5, QuietStep

LEMMA QuietCall ==
    /\ CallInv(Quiet) /\ Quiet.pc = "idle" /\ Quiet.call.op \notin Opening
<1>1. /\ Quiet.pc = "idle" /\ Quiet.call = NoCall /\ Quiet.old = Nowhere
      /\ Quiet.to = Nowhere /\ Quiet.id = 0
      /\ DOMAIN Quiet = {"pc", "call", "old", "to", "gone", "last", "id", "node", "res", "fit"}
  BY DEF Quiet
<1>2. NoCall.op = "none" /\ NoCall.path = <<>> /\ NoCall.new = <<>>
  BY DEF NoCall
<1>3. <<>> \in Seq(Names)
  BY SMT
<1>4. IsPlace(Nowhere)
  BY DEF IsPlace, Nowhere, Known
<1> QED BY <1>1, <1>2, <1>3, <1>4 DEF CallInv, Known, Opening

(* A call ends, or returns, and t's FdManager has changed: the locks have     *)
(* not.                                                                       *)
LEMMA ManagerStep ==
    ASSUME IInv, NEW t \in Threads, CallsInv', Only(t, c, c'), c'[t].pc \notin FilePcs,
           UNCHANGED <<dent, buf, gLockTable, told>>,
           Only(t, fd_map_, fd_map_'), Only(t, fd_pool_, fd_pool_'),
           Only(t, min_free_fd_, min_free_fd_'), Only(t, own, own'), DOMAIN own'[t] = Ids,
           Manager(fd_map_'[t], fd_pool_'[t], min_free_fd_'[t]),
           \A i \in Ids : own'[t][i] # 0 => Holds(fd_map_'[t], own'[t][i], i)
    PROVE  IInv'
<1>1. FdInv /\ CopyInv /\ LockInv /\ TableInv /\ ToldInv
  BY Mover
<1>2. Only(t, buf, buf') /\ Only(t, told, told')
  BY <1>1, SameBuf, OnlyNone DEF ToldInv
<1>3. FdInv'
  BY <1>1, FdChange
<1>4. CopyInv'
  BY <1>1, <1>2, CopyChange
<1>5. TellsLock(c'[t], told'[t][buf'[t].id])
  BY DEF TellsLock, FilePcs
<1>6. \A s \in Threads : TellsLock(c'[s], told'[s][buf'[s].id])
  BY <1>1, <1>2, <1>5, TellingChange
<1>7. TableInv' /\ ToldInv'
  BY <1>1, SameTable
<1>8. LockInv'
  BY <1>6, <1>7 DEF LockInv
<1> QED BY <1>3, <1>4, <1>8, SameEntries DEF IInv

(* The new descriptor holds the file; the others keep theirs.                 *)
LEMMA OpenStep ==
    ASSUME IInv, NEW t \in Threads, c[t].id \in Ids, Set(t, Quiet), AllocateFd(t),
           UNCHANGED <<dent, buf, gLockTable, told>>
    PROVE  IInv'
<1> DEFINE map == fd_map_[t]
           pool == fd_pool_[t]
           free == min_free_fd_[t]
<1>1. PICK fd : /\ fd = IF pool = <<>> THEN free ELSE Head(pool)
                /\ min_free_fd_' = IF pool = <<>> THEN [min_free_fd_ EXCEPT ![t] = free + 1]
                                   ELSE min_free_fd_
                /\ fd_pool_' = IF pool = <<>> THEN fd_pool_ ELSE [fd_pool_ EXCEPT ![t] = Tail(pool)]
                /\ fd_map_' = [fd_map_ EXCEPT ![t] =
                      Stored(map, fd, [NoFd EXCEPT !.fd = fd, !.id = c[t].id, !.node = c[t].node])]
                /\ own' = [own EXCEPT ![t][c[t].id] = fd]
  BY DEF AllocateFd
<1>2. PICK i \in Ids : i = c[t].id
  OBVIOUS
<1>3. PICK d : d = [NoFd EXCEPT !.fd = fd, !.id = c[t].id, !.node = c[t].node]
  OBVIOUS
<1>4. IsFd(d, fd, i)
  BY <1>2, <1>3 DEF IsFd, NoFd
<1>5. CallsInv /\ FdInv /\ MapInv
  BY Mover
<1>6. CallsInv' /\ Only(t, c, c') /\ c'[t].pc \notin FilePcs
  BY <1>5, SetOne, QuietCall DEF FilePcs
<1>7. Only(t, fd_map_, fd_map_') /\ fd_map_'[t] = Stored(map, fd, d)
  BY <1>1, <1>3, <1>5, OnlyOne DEF FdInv
<1>8. Only(t, fd_pool_, fd_pool_') /\ fd_pool_'[t] = IF pool = <<>> THEN pool ELSE Tail(pool)
  BY <1>1, <1>5, OnlyOne, OnlyNone DEF FdInv
<1>9. /\ Only(t, min_free_fd_, min_free_fd_')
      /\ min_free_fd_'[t] = IF pool = <<>> THEN free + 1 ELSE free
  BY <1>1, <1>5, OnlyOne, OnlyNone DEF FdInv
<1>10. /\ Only(t, own, own') /\ DOMAIN own'[t] = Ids /\ own'[t][i] = fd
       /\ \A j \in Ids \ {i} : own'[t][j] = own[t][j]
  <2>1. own' = [own EXCEPT ![t] = [own[t] EXCEPT ![i] = fd]]
    BY <1>1, <1>2
  <2>2. DOMAIN own = Threads /\ DOMAIN own[t] = Ids
    BY <1>5 DEF MapInv
  <2>3. Only(t, own, own') /\ own'[t] = [own[t] EXCEPT ![i] = fd]
    BY <2>1, <2>2, OnlyOne
  <2> QED BY <2>2, <2>3
<1>11. Manager(map, pool, free)
  BY <1>5 DEF FdInv
<1> HIDE DEF map, pool, free
<1>12. /\ fd \notin DOMAIN map
       /\ Manager(fd_map_'[t], fd_pool_'[t], min_free_fd_'[t])
  <2>1. fd = IF pool = <<>> THEN free ELSE Head(pool)
    BY <1>1
  <2>2. /\ fd \notin DOMAIN map
        /\ Manager(Stored(map, fd, d), IF pool = <<>> THEN pool ELSE Tail(pool),
                   IF pool = <<>> THEN free + 1 ELSE free)
    BY <1>11, <2>1, AllocateNumber
  <2> QED BY <1>7, <1>8, <1>9, <2>2
<1>13. /\ DOMAIN Stored(map, fd, d) = DOMAIN map \cup {fd} /\ Stored(map, fd, d)[fd] = d
       /\ \A n \in DOMAIN map : Stored(map, fd, d)[n] = map[n]
  BY <1>12 DEF Stored
<1>14. ASSUME NEW j \in Ids, own'[t][j] # 0
       PROVE  Holds(fd_map_'[t], own'[t][j], j)
  <2>1. CASE j = i
    BY <1>4, <1>7, <1>10, <1>13, <2>1 DEF Holds
  <2>2. CASE j # i
    <3>1. own'[t][j] = own[t][j] /\ Holds(map, own[t][j], j)
      BY <1>5, <1>10, <1>14, <2>2 DEF MapInv, map
    <3>2. own[t][j] \in DOMAIN map /\ IsFd(map[own[t][j]], own[t][j], j)
      BY <3>1 DEF Holds
    <3>3. Holds(Stored(map, fd, d), own[t][j], j)
      BY <1>13, <3>2 DEF Holds
    <3> QED BY <1>7, <3>1, <3>3
  <2> QED BY <2>1, <2>2
<1> QED BY <1>6, <1>7, <1>8, <1>9, <1>10, <1>12, <1>14, ManagerStep

LEMMA AnswerStep ==
    ASSUME IInv, NEW t \in Threads, Answer(t)
    PROVE  IInv'
<1>1. /\ c[t].pc = "ret" /\ Set(t, Quiet) /\ UNCHANGED <<dent, buf, gLockTable, told>>
      /\ \/ UNCHANGED fdVars
         \/ Op(t) \in Opening /\ c[t].res = "ok" /\ AllocateFd(t)
  BY DEF Answer, In
<1>2. CASE UNCHANGED fdVars
  <2>1. TellsLock(Quiet, told[t][buf'[t].id])
    BY QuietCall DEF TellsLock
  <2>2. EntriesInv' /\ Only(t, buf, buf')
    BY <1>1, SameEntries, SameBuf
  <2> QED BY <1>1, <1>2, <2>1, <2>2, QuietCall, QuietStep DEF FilePcs
<1>3. CASE Op(t) \in Opening /\ c[t].res = "ok" /\ AllocateFd(t)
  <2>1. CallInv(c[t])
    BY Mover
  <2>2. c[t].id \in Ids
    BY <1>1, <1>3, <2>1 DEF CallInv, Op, Known
  <2> QED BY <1>1, <1>3, <2>2, OpenStep
<1> QED BY <1>1, <1>2, <1>3

(*---------------------------------------------------------------------------*)
(* Steps of a call on a descriptor.                                          *)

(* The call goes on at p, or returns.                                         *)
LEMMA FileGo ==
    ASSUME CallsInv, NEW t \in Threads, Op(t) \notin Opening, NEW p, Go(t, p)
    PROVE  \E r2 : Set(t, r2) /\ CallInv(r2) /\ r2.pc = p /\ r2.call = c[t].call
<1> DEFINE r == c[t]
           r2 == [r EXCEPT !.pc = p]
<1>1. CallInv(r) /\ Set(t, r2)
  BY DEF CallsInv, Go
<1>2. /\ DOMAIN r2 = DOMAIN r /\ r2.pc = p /\ r2.call = r.call /\ r2.old = r.old
      /\ r2.to = r.to /\ r2.id = r.id
  BY <1>1 DEF CallInv
<1> HIDE DEF r2
<1>3. CallInv(r2)
  BY <1>1, <1>2 DEF CallInv, Op
<1> QED BY <1>1, <1>2, <1>3

LEMMA FileReturn ==
    ASSUME CallsInv, NEW t \in Threads, Op(t) \notin Opening, NEW res, Return(t, res)
    PROVE  \E r2 : Set(t, r2) /\ CallInv(r2) /\ r2.pc = "ret" /\ r2.call = c[t].call
<1> DEFINE r == c[t]
           r2 == [r EXCEPT !.pc = "ret", !.res = res]
<1>1. CallInv(r) /\ Set(t, r2)
  BY DEF CallsInv, Return
<1>2. /\ DOMAIN r2 = DOMAIN r /\ r2.pc = "ret" /\ r2.call = r.call /\ r2.old = r.old
      /\ r2.to = r.to /\ r2.id = r.id
  BY <1>1 DEF CallInv
<1> HIDE DEF r2
<1>3. CallInv(r2)
  BY <1>1, <1>2 DEF CallInv, Op
<1> QED BY <1>1, <1>2, <1>3

FileStarted(op, p) ==
    [Quiet EXCEPT !.call = [NoCall EXCEPT !.op = op], !.pc = p, !.res = "ok"]

LEMMA StartFile ==
    ASSUME NEW op \in FileOps, NEW p
    PROVE  LET r2 == FileStarted(op, p)
           IN  CallInv(r2) /\ r2.pc = p /\ r2.call.op = op
<1> DEFINE r2 == FileStarted(op, p)
           call == [NoCall EXCEPT !.op = op]
<1>1. /\ DOMAIN Quiet = {"pc", "call", "old", "to", "gone", "last", "id", "node", "res", "fit"}
      /\ Quiet.old = Nowhere /\ Quiet.to = Nowhere /\ Quiet.id = 0
  BY DEF Quiet
<1>2. call.op = op /\ call.path = <<>> /\ call.new = <<>>
  BY DEF NoCall
<1> HIDE DEF call
<1>3. /\ r2.pc = p /\ r2.call = call /\ r2.old = Nowhere /\ r2.to = Nowhere
      /\ r2.id = 0 /\ DOMAIN r2 = DOMAIN Quiet
  BY <1>1 DEF FileStarted, call
<1>4. IsPlace(Nowhere) /\ <<>> \in Seq(Names)
  BY SMT DEF IsPlace, Nowhere, Known
<1>5. op \notin Opening
  BY DEF Opening, FileOps
<1> HIDE DEF r2
<1>6. CallInv(r2)
  BY <1>1, <1>2, <1>3, <1>4, <1>5 DEF CallInv, Known
<1> QED BY <1>2, <1>3, <1>6 DEF r2

(* The copy of the descriptor of a file the thread has open.                  *)
LEMMA CopyOfOwn ==
    ASSUME NEW e, NEW d, NEW mine, Copies(d, mine), DOMAIN e = DOMAIN d, e.fd = d.fd, e.id = d.id
    PROVE  Copies(e, mine)
BY DEF Copies, IsFd

LEMMA BeginFileStep ==
    ASSUME IInv, NEW t \in Threads, BeginFile(t)
    PROVE  IInv'
<1>1. PICK id \in OpenFiles(t), op \in FileOps :
        /\ CarefulFile(t, id, op)
        /\ \E e \in IF op = "lseek" THEN Lseek(fd_map_[t][own[t][id]])
                    ELSE {fd_map_[t][own[t][id]]} : buf' = [buf EXCEPT ![t] = e]
        /\ Set(t, FileStarted(op, FirstStep(op, fd_map_[t][own[t][id]])))
  BY DEF BeginFile, FileStarted
<1>2. PICK d : d = fd_map_[t][own[t][id]]
  OBVIOUS
<1>3. UNCHANGED <<dent, fdVars, gLockTable, told>> /\ MapInv /\ DOMAIN buf = Threads
  BY Mover DEF BeginFile
<1>4. id \in Ids /\ own[t][id] # 0 /\ IsFd(d, own[t][id], id)
  BY <1>2, <1>3 DEF OpenFiles, MapInv, Holds
<1>5. PICK e : /\ e \in IF op = "lseek" THEN Lseek(d) ELSE {d}
               /\ buf' = [buf EXCEPT ![t] = e]
  BY <1>1, <1>2
<1>6. IsFd(e, own[t][id], id)
  <2>1. CASE e = d
    BY <1>4, <2>1
  <2>2. CASE e \in Lseek(d)
    <3>1. PICK n : e = [d EXCEPT !.seek = n]
      BY <2>2 DEF Lseek
    <3> QED BY <1>4, <3>1 DEF IsFd
  <2> QED BY <1>5, <2>1, <2>2
<1>7. Only(t, buf, buf') /\ buf'[t] = e
  BY <1>3, <1>5, OnlyOne
<1>8. PICK r2 : r2 = FileStarted(op, FirstStep(op, d))
  OBVIOUS
<1>9. CallInv(r2) /\ r2.call.op = op
  BY <1>8, StartFile
<1>10. Copies(buf'[t], own[t])
  BY <1>4, <1>6, <1>7 DEF Copies
<1>11. TellsLock(r2, told[t][buf'[t].id])
  <2>1. op = "unlock" => told[t][id] # "none"
    BY <1>1 DEF CarefulFile
  <2>2. buf'[t].id = id
    BY <1>6, <1>7 DEF IsFd
  <2> QED BY <1>9, <2>1, <2>2 DEF TellsLock
<1>12. EntriesInv' /\ Set(t, r2)
  BY <1>1, <1>2, <1>3, <1>8, SameEntries
<1> QED BY <1>3, <1>7, <1>9, <1>10, <1>11, <1>12, QuietStep

(* A step of a call on a descriptor that moves neither descriptors nor locks: *)
(* it goes on at p with a copy of the same file, or returns.                  *)
LEMMA CopyStep ==
    ASSUME IInv, NEW t \in Threads, c[t].pc \in FilePcs,
           UNCHANGED <<dent, fdVars, gLockTable, told>>,
           DOMAIN buf' = Threads, \A s \in Threads \ {t} : buf'[s] = buf[s],
           DOMAIN buf'[t] = DOMAIN buf[t], buf'[t].fd = buf[t].fd, buf'[t].id = buf[t].id,
           NEW p, NEW res, (Go(t, p) /\ p \in FilePcs \ {"lock"}) \/ Return(t, res)
    PROVE  IInv'
<1>1. CallsInv /\ Copies(buf[t], own[t]) /\ Op(t) \notin Opening
  BY Mover
<1>2. PICK r2 : Set(t, r2) /\ CallInv(r2) /\ r2.pc # "lock"
  BY SMT, <1>1, FileGo, FileReturn
<1>3. TellsLock(r2, told[t][buf'[t].id])
  BY <1>2 DEF TellsLock
<1>4. EntriesInv' /\ Only(t, buf, buf')
  BY SameEntries DEF Only
<1>5. Copies(buf'[t], own[t])
  BY <1>1, CopyOfOwn
<1> QED BY <1>2, <1>3, <1>4, <1>5, QuietStep

LEMMA WriteDataStep ==
    ASSUME IInv, NEW t \in Threads, WriteData(t)
    PROVE  IInv'
<1>1. /\ c[t].pc = "wdata" /\ Go(t, "setfd")
      /\ UNCHANGED <<dent, fdVars, gLockTable, told>>
      /\ buf' = [buf EXCEPT ![t].node.size = @ + 1, ![t].modify = TRUE, ![t].seek = @ + 1]
  BY DEF WriteData, In
<1>2. DOMAIN buf = Threads /\ {"fd", "id"} \subseteq DOMAIN buf[t]
  BY <1>1, Mover DEF FilePcs, Copies, IsFd
<1>3. /\ DOMAIN buf' = Threads /\ \A s \in Threads \ {t} : buf'[s] = buf[s]
      /\ DOMAIN buf'[t] = DOMAIN buf[t] /\ buf'[t].fd = buf[t].fd /\ buf'[t].id = buf[t].id
  BY <1>1, <1>2
<1> QED BY SMT, <1>1, <1>3, CopyStep DEF FilePcs

LEMMA PwriteDataStep ==
    ASSUME IInv, NEW t \in Threads, PwriteData(t)
    PROVE  IInv'
<1>1. /\ c[t].pc = "wdata" /\ Go(t, "setfd")
      /\ UNCHANGED <<dent, fdVars, gLockTable, told>>
      /\ buf' = [buf EXCEPT ![t].node.size = @ + 1, ![t].modify = TRUE]
  BY DEF PwriteData, In
<1>2. DOMAIN buf = Threads /\ {"fd", "id"} \subseteq DOMAIN buf[t]
  BY <1>1, Mover DEF FilePcs, Copies, IsFd
<1>3. /\ DOMAIN buf' = Threads /\ \A s \in Threads \ {t} : buf'[s] = buf[s]
      /\ DOMAIN buf'[t] = DOMAIN buf[t] /\ buf'[t].fd = buf[t].fd /\ buf'[t].id = buf[t].id
  BY <1>1, <1>2
<1> QED BY SMT, <1>1, <1>3, CopyStep DEF FilePcs

LEMMA ReadDataStep ==
    ASSUME IInv, NEW t \in Threads, ReadData(t)
    PROVE  IInv'
<1>1. c[t].pc = "rdata" /\ UNCHANGED <<dent, fdVars, gLockTable, told>>
  BY DEF ReadData, In
<1>2. DOMAIN buf = Threads /\ {"fd", "id"} \subseteq DOMAIN buf[t]
  BY <1>1, Mover DEF FilePcs, Copies, IsFd
<1>3. \/ UNCHANGED buf /\ \E res : Return(t, res)
      \/ Go(t, "setfd") /\ \E n : buf' = [buf EXCEPT ![t].seek = @ + n]
  BY DEF ReadData
<1>4. CASE UNCHANGED buf /\ \E res : Return(t, res)
  BY <1>1, <1>2, <1>4, CopyStep DEF FilePcs
<1>5. CASE Go(t, "setfd") /\ \E n : buf' = [buf EXCEPT ![t].seek = @ + n]
  <2>1. PICK n : buf' = [buf EXCEPT ![t].seek = @ + n]
    BY <1>5
  <2>2. /\ DOMAIN buf' = Threads /\ \A s \in Threads \ {t} : buf'[s] = buf[s]
        /\ DOMAIN buf'[t] = DOMAIN buf[t] /\ buf'[t].fd = buf[t].fd /\ buf'[t].id = buf[t].id
    BY <1>2, <2>1
  <2> QED BY SMT, <1>1, <1>5, <2>2, CopyStep DEF FilePcs
<1> QED BY <1>3, <1>4, <1>5

LEMMA PreadDataStep ==
    ASSUME IInv, NEW t \in Threads, PreadData(t)
    PROVE  IInv'
<1>1. /\ c[t].pc = "rdata" /\ UNCHANGED <<dent, fdVars, gLockTable, told, buf>>
      /\ \E res : Return(t, res)
  BY DEF PreadData, In
<1>2. DOMAIN buf = Threads
  BY Mover
<1> QED BY <1>1, <1>2, CopyStep DEF FilePcs

LEMMA PutInodeRequestStep ==
    ASSUME IInv, NEW t \in Threads, PutInodeRequest(t)
    PROVE  IInv'
<1> DEFINE p == IF Op(t) = "close" THEN "release" ELSE "setfd"
<1>1. /\ c[t].pc = "putnode" /\ UNCHANGED <<dent, fdVars, gLockTable, told>>
      /\ Go(t, p) /\ buf' = [buf EXCEPT ![t].modify = FALSE]
  BY DEF PutInodeRequest, In
<1>2. DOMAIN buf = Threads /\ {"fd", "id"} \subseteq DOMAIN buf[t]
  BY <1>1, Mover DEF FilePcs, Copies, IsFd
<1>3. /\ DOMAIN buf' = Threads /\ \A s \in Threads \ {t} : buf'[s] = buf[s]
      /\ DOMAIN buf'[t] = DOMAIN buf[t] /\ buf'[t].fd = buf[t].fd /\ buf'[t].id = buf[t].id
  BY <1>1, <1>2
<1>4. p \in FilePcs \ {"lock"} /\ c[t].pc \in FilePcs
  BY <1>1 DEF FilePcs
<1> HIDE DEF p
<1> QED BY <1>1, <1>3, <1>4, CopyStep

(* The call of t on its descriptor returns.                                   *)
LEMMA FileReturns ==
    ASSUME IInv, NEW t \in Threads, c[t].pc \in FilePcs, NEW res, Return(t, res)
    PROVE  CallsInv' /\ Only(t, c, c') /\ c'[t].pc = "ret" /\ c'[t].pc \notin FilePcs
<1>1. CallsInv /\ Op(t) \notin Opening
  BY Mover
<1>2. PICK r2 : Set(t, r2) /\ CallInv(r2) /\ r2.pc = "ret"
  BY <1>1, FileReturn
<1> QED BY <1>1, <1>2, SetOne DEF FilePcs

(* Two files of a thread have two numbers.                                    *)
LEMMA OwnNumber ==
    ASSUME MapInv, NEW t \in Threads, NEW i \in Ids, own[t][i] # 0,
           NEW j \in Ids, own[t][j] = own[t][i]
    PROVE  j = i
<1>1. Holds(fd_map_[t], own[t][i], i) /\ Holds(fd_map_[t], own[t][i], j)
  BY DEF MapInv
<1> QED BY <1>1 DEF Holds, IsFd

(* SetFd writes the copy to the descriptor it was taken from and to no other. *)
LEMMA SetFdStep ==
    ASSUME IInv, NEW t \in Threads, SetFd(t)
    PROVE  IInv'
<1> DEFINE map == fd_map_[t]
           new == Stored(map, buf[t].fd, buf[t])
<1>1. /\ c[t].pc = "setfd" /\ Return(t, "ok")
      /\ fd_map_' = [fd_map_ EXCEPT ![t] = new]
      /\ UNCHANGED <<dent, fd_pool_, min_free_fd_, own, buf, gLockTable, told>>
  BY DEF SetFd, In
<1>2. FdInv /\ MapInv /\ Copies(buf[t], own[t])
  BY <1>1, Mover DEF FilePcs
<1>3. CallsInv' /\ Only(t, c, c') /\ c'[t].pc \notin FilePcs
  BY <1>1, FileReturns DEF FilePcs
<1>4. PICK i \in Ids : own[t][i] # 0 /\ IsFd(buf[t], own[t][i], i)
  BY <1>2 DEF Copies
<1>5. Only(t, fd_map_, fd_map_') /\ fd_map_'[t] = new
  <2> HIDE DEF new
  <2> QED BY <1>1, <1>2, OnlyOne DEF FdInv
<1>6. /\ Only(t, fd_pool_, fd_pool_') /\ Only(t, min_free_fd_, min_free_fd_')
      /\ Only(t, own, own') /\ DOMAIN own'[t] = Ids
  BY <1>1, <1>2, OnlyNone DEF FdInv, MapInv
<1>7. buf[t].fd = own[t][i] /\ own[t][i] \in DOMAIN map
  BY <1>2, <1>4 DEF IsFd, MapInv, Holds
<1>8. /\ DOMAIN new = DOMAIN map /\ new[own[t][i]] = buf[t]
      /\ \A n \in DOMAIN map : n # own[t][i] => new[n] = map[n]
  BY <1>7 DEF Stored
<1>9. Manager(map, fd_pool_[t], min_free_fd_[t])
  BY <1>2 DEF FdInv
<1>10. \A j \in Ids : own[t][j] # 0 => Holds(map, own[t][j], j)
  BY <1>2 DEF MapInv
<1> HIDE DEF map, new
<1>11. Manager(new, fd_pool_[t], min_free_fd_[t])
  BY <1>8, <1>9 DEF Manager
<1>12. Manager(fd_map_'[t], fd_pool_'[t], min_free_fd_'[t])
  BY <1>1, <1>5, <1>11
<1>13. ASSUME NEW j \in Ids, own[t][j] # 0
       PROVE  Holds(new, own[t][j], j)
  <2>1. CASE own[t][j] = own[t][i]
    <3>1. j = i
      BY <1>2, <1>4, <2>1, OwnNumber
    <3> QED BY <1>4, <1>7, <1>8, <3>1 DEF Holds
  <2>2. CASE own[t][j] # own[t][i]
    BY <1>8, <1>10, <1>13, <2>2 DEF Holds
  <2> QED BY <2>1, <2>2
<1>14. \A j \in Ids : own'[t][j] # 0 => Holds(fd_map_'[t], own'[t][j], j)
  BY <1>1, <1>5, <1>13
<1> QED BY <1>1, <1>3, <1>5, <1>6, <1>12, <1>14, ManagerStep

(*---------------------------------------------------------------------------*)
(* Locks.                                                                    *)

(* A call replaces the locks on file i by L and tells t x ...                 *)
Retell(t, i, L, x) ==
    /\ DOMAIN gLockTable' = Ids /\ gLockTable'[i] = L
    /\ \A j \in Ids \ {i} : gLockTable'[j] = gLockTable[j]
    /\ told' = [told EXCEPT ![t] = [told[t] EXCEPT ![i] = x]]

(* ... where L has x and what the other threads were told of the file.        *)
Agrees(t, i, L, x) ==
    /\ LockList(L) /\ Told(x, L)
    /\ \A s \in Threads \ {t} : told[s][i] # "none" =>
          Has(L, told[s][i]) /\ (x = "WR" => told[s][i] # "WR")

LEMMA LockChange ==
    ASSUME TableInv, ToldInv, NEW t \in Threads, NEW i \in Ids, NEW L, NEW x,
           Retell(t, i, L, x), Agrees(t, i, L, x)
    PROVE  TableInv' /\ ToldInv' /\ Only(t, told, told')
<1>1. /\ DOMAIN gLockTable' = Ids /\ gLockTable'[i] = L
      /\ \A j \in Ids \ {i} : gLockTable'[j] = gLockTable[j]
  BY DEF Retell
<1>2. Only(t, told, told') /\ told'[t] = [told[t] EXCEPT ![i] = x]
  BY OnlyOne DEF ToldInv, Retell
<1>3. /\ DOMAIN told'[t] = Ids /\ told'[t][i] = x
      /\ \A j \in Ids \ {i} : told'[t][j] = told[t][j]
  BY <1>2 DEF ToldInv
<1>4. DOMAIN told' = Threads /\ \A s \in Threads \ {t} : told'[s] = told[s]
  BY <1>2 DEF Only
<1>5. TableInv'
  BY <1>1 DEF TableInv, Agrees
<1>6. \A s \in Threads : DOMAIN told'[s] = Ids
  BY <1>3, <1>4 DEF ToldInv
<1>7. ASSUME NEW s \in Threads, NEW j \in Ids
      PROVE  Told(told'[s][j], gLockTable'[j])
  <2>1. Told(told[s][j], gLockTable[j])
    BY DEF ToldInv
  <2>2. CASE s = t /\ j = i
    BY <1>1, <1>3, <2>2 DEF Agrees
  <2>3. CASE j # i
    <3>1. told'[s][j] = told[s][j]
      BY <1>3, <1>4, <2>3
    <3> QED BY <1>1, <2>1, <2>3, <3>1
  <2>4. CASE s # t /\ j = i
    BY <1>1, <1>4, <2>1, <2>4 DEF Agrees, Told
  <2> QED BY <2>2, <2>3, <2>4
<1>8. ASSUME NEW s \in Threads, NEW u \in Threads, NEW j \in Ids,
             told'[s][j] = "WR", told'[u][j] = "WR"
      PROVE  s = u
  <2>1. \A v \in Threads : v # t \/ j # i => told'[v][j] = told[v][j]
    BY <1>3, <1>4
  <2>2. CASE j # i \/ (s # t /\ u # t)
    BY <1>8, <2>1, <2>2 DEF ToldInv
  <2>3. CASE j = i /\ s = t /\ u # t
    BY <1>3, <1>8, <2>1, <2>3 DEF Agrees
  <2>4. CASE j = i /\ s # t /\ u = t
    BY <1>3, <1>8, <2>1, <2>4 DEF Agrees
  <2> QED BY <2>2, <2>3, <2>4
<1>9. ToldInv'
  BY <1>4, <1>6, <1>7, <1>8 DEF ToldInv
<1> QED BY <1>2, <1>5, <1>9

(* A call that changes t's lock on a file returns.                            *)
LEMMA LockStep ==
    ASSUME IInv, NEW t \in Threads, c[t].pc \in FilePcs, NEW res, Return(t, res),
           UNCHANGED buf, NEW i \in Ids, NEW L, NEW x,
           Retell(t, i, L, x), Agrees(t, i, L, x)
    PROVE  LockInv'
<1>1. LockInv /\ TableInv /\ ToldInv
  BY Mover
<1>2. TableInv' /\ ToldInv' /\ Only(t, told, told')
  BY <1>1, LockChange
<1>3. Only(t, c, c') /\ c'[t].pc = "ret" /\ Only(t, buf, buf')
  BY FileReturns, SameBuf
<1>4. TellsLock(c'[t], told'[t][buf'[t].id])
  BY <1>3 DEF TellsLock
<1>5. \A s \in Threads : TellsLock(c'[s], told'[s][buf'[s].id])
  BY <1>1, <1>2, <1>3, <1>4, TellingChange
<1> QED BY <1>2, <1>5 DEF LockInv

(* close: the number goes back, and whatever lock the thread was told of is   *)
(* left in the table, where it stays without a holder.                        *)
LEMMA ReleaseFdStep ==
    ASSUME IInv, NEW t \in Threads, ReleaseFd(t)
    PROVE  IInv'
<1> DEFINE map == fd_map_[t]
           pool == fd_pool_[t]
           free == min_free_fd_[t]
<1>1. PICK fd : fd = buf[t].fd
  OBVIOUS
<1>2. /\ c[t].pc = "release" /\ Return(t, "ok") /\ UNCHANGED <<dent, buf, gLockTable>>
      /\ fd_map_' = [fd_map_ EXCEPT ![t] = Erased(map, fd)]
      /\ min_free_fd_' = IF fd = free - 1 THEN [min_free_fd_ EXCEPT ![t] = free - 1]
                         ELSE min_free_fd_
      /\ fd_pool_' = IF fd = free - 1 THEN fd_pool_
                     ELSE [fd_pool_ EXCEPT ![t] = Append(pool, fd)]
      /\ own' = [own EXCEPT ![t] = [own[t] EXCEPT ![buf[t].id] = 0]]
      /\ told' = [told EXCEPT ![t] = [told[t] EXCEPT ![buf[t].id] = "none"]]
  BY <1>1 DEF ReleaseFd, In, Lowered
<1>3. FdInv /\ CopyInv /\ MapInv /\ TableInv /\ ToldInv /\ Copies(buf[t], own[t])
  BY <1>2, Mover DEF FilePcs
<1>4. CallsInv' /\ Only(t, c, c') /\ c'[t].pc \notin FilePcs
  BY <1>2, FileReturns DEF FilePcs
<1>5. PICK i \in Ids : own[t][i] # 0 /\ IsFd(buf[t], own[t][i], i)
  BY <1>3 DEF Copies
<1>6. buf[t].id = i /\ fd = own[t][i] /\ fd \in DOMAIN map
  BY <1>1, <1>3, <1>5 DEF IsFd, MapInv, Holds
<1>7. Only(t, fd_map_, fd_map_') /\ fd_map_'[t] = Erased(map, fd)
  BY <1>2, <1>3, OnlyOne DEF FdInv
<1>8. /\ Only(t, fd_pool_, fd_pool_')
      /\ fd_pool_'[t] = IF fd = free - 1 THEN pool ELSE Append(pool, fd)
  BY <1>2, <1>3, OnlyOne, OnlyNone DEF FdInv
<1>9. /\ Only(t, min_free_fd_, min_free_fd_')
      /\ min_free_fd_'[t] = IF fd = free - 1 THEN free - 1 ELSE free
  BY <1>2, <1>3, OnlyOne, OnlyNone DEF FdInv
<1>10. Only(t, own, own') /\ own'[t] = [own[t] EXCEPT ![i] = 0]
  BY <1>2, <1>3, <1>6, OnlyOne DEF MapInv
<1>11. /\ DOMAIN own'[t] = Ids /\ own'[t][i] = 0
       /\ \A j \in Ids \ {i} : own'[t][j] = own[t][j]
  BY <1>3, <1>10 DEF MapInv
<1>12. Manager(map, pool, free)
  BY <1>3 DEF FdInv
<1>13. \A j \in Ids : own[t][j] # 0 => Holds(map, own[t][j], j)
  BY <1>3 DEF MapInv
<1> HIDE DEF map, pool, free
<1>14. Manager(fd_map_'[t], fd_pool_'[t], min_free_fd_'[t])
  BY <1>6, <1>7, <1>8, <1>9, <1>12, ReleaseNumber
<1>15. FdInv'
  BY <1>3, <1>7, <1>8, <1>9, <1>14, FdChange
<1>16. ASSUME NEW j \in Ids, own'[t][j] # 0
       PROVE  Holds(fd_map_'[t], own'[t][j], j)
  <2>1. j # i /\ own'[t][j] = own[t][j]
    BY <1>11, <1>16
  <2>2. own[t][j] # fd
    BY <1>3, <1>5, <1>6, <2>1, OwnNumber
  <2>3. own[t][j] \in DOMAIN map /\ IsFd(map[own[t][j]], own[t][j], j)
    BY <1>13, <1>16, <2>1 DEF Holds
  <2>4. Holds(Erased(map, fd), own[t][j], j)
    BY <2>2, <2>3 DEF Holds, Erased
  <2> QED BY <1>7, <2>1, <2>4
<1>17. Only(t, buf, buf')
  BY <1>2, SameBuf
<1>18. CopyInv'
  BY <1>3, <1>4, <1>7, <1>10, <1>11, <1>16, <1>17, CopyChange
<1>19. LockInv'
  <2>1. LockList(gLockTable[i]) /\ DOMAIN gLockTable = Ids
    BY <1>3 DEF TableInv
  <2>2. Told("none", gLockTable[i])
    BY DEF Told
  <2>3. \A s \in Threads \ {t} : told[s][i] # "none" => Has(gLockTable[i], told[s][i])
    BY <1>3 DEF ToldInv, Told
  <2>4. Agrees(t, i, gLockTable[i], "none")
    BY <2>1, <2>2, <2>3 DEF Agrees
  <2>5. Retell(t, i, gLockTable[i], "none")
    BY <1>2, <1>6, <2>1 DEF Retell
  <2> QED BY <1>2, <2>4, <2>5, LockStep DEF FilePcs
<1> QED BY <1>2, <1>4, <1>15, <1>18, <1>19, SameEntries DEF IInv

(* fcntl on locks moves no descriptor.                                        *)
LEMMA FcntlStep ==
    ASSUME IInv, NEW t \in Threads, c[t].pc = "lock", NEW res, Return(t, res),
           UNCHANGED <<dent, fdVars, buf>>, NEW i \in Ids, NEW L, NEW x,
           Retell(t, i, L, x), Agrees(t, i, L, x)
    PROVE  IInv'
<1>1. FdInv /\ CopyInv /\ MapInv
  BY Mover
<1>2. /\ fd_map_' = fd_map_ /\ fd_pool_' = fd_pool_ /\ min_free_fd_' = min_free_fd_
      /\ own' = own
  BY DEF fdVars
<1>3. CallsInv' /\ Only(t, c, c') /\ c'[t].pc \notin FilePcs /\ Only(t, buf, buf')
  BY FileReturns, SameBuf DEF FilePcs
<1>4. FdInv'
  BY <1>1, <1>2 DEF FdInv
<1>5. /\ Only(t, fd_map_, fd_map_') /\ Only(t, own, own') /\ DOMAIN own'[t] = Ids
      /\ \A j \in Ids : own'[t][j] # 0 => Holds(fd_map_'[t], own'[t][j], j)
  BY <1>1, <1>2 DEF Only, FdInv, MapInv
<1>6. CopyInv'
  BY <1>1, <1>3, <1>5, CopyChange
<1>7. LockInv'
  BY LockStep DEF FilePcs
<1> QED BY <1>3, <1>4, <1>6, <1>7, SameEntries DEF IInv

(* fcntl with F_SETLK or F_SETLKW: a write lock is granted on an empty list,  *)
(* a read lock on a list without a write lock.                                *)
LEMMA SetLockStep ==
    ASSUME IInv, NEW t \in Threads, SetLock(t)
    PROVE  IInv'
<1>1. c[t].pc = "lock" /\ UNCHANGED <<dent, fdVars, buf>>
  BY DEF SetLock, In
<1>2. TableInv /\ ToldInv /\ DOMAIN buf = Threads /\ Copies(buf[t], own[t])
  BY <1>1, Mover DEF FilePcs
<1>3. PICK i \in Ids : buf[t].id = i
  BY <1>2 DEF Copies, IsFd
<1> DEFINE T == gLockTable[i]
<1>4. T \in Seq(Types) /\ DOMAIN gLockTable = Ids
  BY <1>2 DEF TableInv, LockList
<1>5. PICK type \in Types :
        \/ /\ ~Conflicting(t, type)
           /\ gLockTable' = [gLockTable EXCEPT ![i] = Append(T, type)]
           /\ told' = [told EXCEPT ![t] = [told[t] EXCEPT ![i] = type]] /\ Return(t, "ok")
        \/ Return(t, "fail") /\ UNCHANGED <<gLockTable, told>>
  BY <1>3 DEF SetLock
<1>6. CASE Return(t, "fail") /\ UNCHANGED <<gLockTable, told>>
  BY <1>1, <1>2, <1>6, CopyStep DEF FilePcs
<1>7. CASE /\ ~Conflicting(t, type)
           /\ gLockTable' = [gLockTable EXCEPT ![i] = Append(T, type)]
           /\ told' = [told EXCEPT ![t] = [told[t] EXCEPT ![i] = type]] /\ Return(t, "ok")
  <2> DEFINE L == Append(T, type)
  <2>1. \A k \in DOMAIN T : type # "WR" /\ T[k] # "WR"
    BY <1>3, <1>7 DEF Conflicting, LocksConflict
  <2>2. Retell(t, i, L, type)
    BY <1>4, <1>7 DEF Retell
  <2>3. \A s \in Threads : told[s][i] # "none" => Has(T, told[s][i])
    BY <1>2 DEF ToldInv, Told
  <2> HIDE DEF T
  <2>4. /\ L \in Seq(Types) /\ Len(L) = Len(T) + 1 /\ L[Len(L)] = type /\ Len(T) \in Nat
        /\ DOMAIN T = 1 .. Len(T) /\ DOMAIN L = 1 .. Len(L)
        /\ \A k \in 1 .. Len(T) : L[k] = T[k]
    BY SMT, <1>4
  <2> HIDE DEF L
  <2>5. Told(type, L)
    BY SMT, <2>4 DEF Has, Told
  <2>6. ASSUME NEW k \in DOMAIN L, L[k] = "WR"
        PROVE  Len(L) = 1
    <3>1. k = Len(L)
      BY SMT, <2>1, <2>4, <2>6
    <3>2. type = "WR"
      BY <2>4, <2>6, <3>1
    <3>3. DOMAIN T = {}
      BY <2>1, <3>2
    <3> QED BY SMT, <2>4, <3>3
  <2>7. ASSUME NEW s \in Threads \ {t}, told[s][i] # "none"
        PROVE  Has(L, told[s][i]) /\ (type = "WR" => told[s][i] # "WR")
    <3>1. PICK k \in DOMAIN T : T[k] = told[s][i]
      BY <2>3, <2>7 DEF Has
    <3>2. k \in DOMAIN L /\ L[k] = told[s][i]
      BY SMT, <2>4, <3>1
    <3> QED BY <2>1, <3>1, <3>2 DEF Has
  <2>8. Agrees(t, i, L, type)
    BY <2>4, <2>5, <2>6, <2>7 DEF Agrees, LockList
  <2> QED BY <1>1, <1>7, <2>2, <2>8, FcntlStep
<1> QED BY <1>5, <1>6, <1>7

(* F_UNLCK: if the thread was told a write lock, the list is that lock, which *)
(* goes; if it was told a read lock, the list has no write lock and stays.    *)
LEMMA UnlockStep ==
    ASSUME IInv, NEW t \in Threads, Unlock(t)
    PROVE  IInv'
<1>1. c[t].pc = "lock" /\ Op(t) = "unlock" /\ UNCHANGED <<dent, fdVars, buf>>
  BY DEF Unlock, In
<1>2. /\ TableInv /\ ToldInv /\ Copies(buf[t], own[t]) /\ DOMAIN buf = Threads
      /\ TellsLock(c[t], told[t][buf[t].id])
  BY <1>1, Mover DEF FilePcs
<1>3. PICK i \in Ids : buf[t].id = i
  BY <1>2 DEF Copies, IsFd
<1> DEFINE T == gLockTable[i]
           mine == {k \in DOMAIN T : LocksConflict("UN", T[k])}
           Rest == SubSeq(T, 1, Min(mine) - 1) \o SubSeq(T, Min(mine) + 1, Len(T))
<1>4. T \in Seq(Types) /\ DOMAIN gLockTable = Ids /\ told[t][i] # "none"
  BY <1>1, <1>2, <1>3 DEF TableInv, LockList, TellsLock, Op
<1>5. \/ mine = {} /\ Return(t, "fail") /\ UNCHANGED <<gLockTable, told>>
      \/ /\ mine # {} /\ gLockTable' = [gLockTable EXCEPT ![i] = Rest]
         /\ told' = [told EXCEPT ![t] = [told[t] EXCEPT ![i] = "none"]] /\ Return(t, "ok")
  BY <1>3 DEF Unlock
<1>6. CASE mine = {} /\ Return(t, "fail") /\ UNCHANGED <<gLockTable, told>>
  BY <1>1, <1>2, <1>6, CopyStep DEF FilePcs
<1>7. CASE /\ mine # {} /\ gLockTable' = [gLockTable EXCEPT ![i] = Rest]
           /\ told' = [told EXCEPT ![t] = [told[t] EXCEPT ![i] = "none"]] /\ Return(t, "ok")
  <2>1. PICK w \in DOMAIN T : T[w] = "WR"
    BY <1>7 DEF LocksConflict
  <2>2. Len(T) = 1
    BY <1>2, <2>1 DEF TableInv, LockList
  <2>3. \A s \in Threads : told[s][i] # "none" => Has(T, told[s][i])
    BY <1>2 DEF ToldInv, Told
  <2> HIDE DEF T
  <2>4. DOMAIN T = {1} /\ w = 1
    BY SMT, <1>4, <2>1, <2>2
  <2>5. mine = {1}
    BY <2>1, <2>4 DEF LocksConflict
  <2> HIDE DEF mine
  <2>6. Min(mine) = 1
    BY SMT, <2>5 DEF Min
  <2>7. Rest = <<>>
    <3>1. SubSeq(T, 1, 0) = <<>> /\ SubSeq(T, 2, 1) = <<>>
      BY SMT, <1>4
    <3> QED BY SMT, <2>2, <2>6, <3>1
  <2>8. told[t][i] = "WR"
    <3>1. PICK k \in DOMAIN T : T[k] = told[t][i]
      BY <1>4, <2>3 DEF Has
    <3> QED BY <2>1, <2>4, <3>1
  <2>9. ASSUME NEW s \in Threads \ {t}, told[s][i] # "none"
        PROVE  FALSE
    <3>1. PICK k \in DOMAIN T : T[k] = told[s][i]
      BY <2>3, <2>9 DEF Has
    <3>2. told[s][i] = "WR"
      BY <2>1, <2>4, <3>1
    <3> QED BY <1>2, <2>8, <2>9, <3>2 DEF ToldInv
  <2>10. <<>> \in Seq(Types) /\ DOMAIN <<>> = {}
    BY SMT
  <2>11. Agrees(t, i, <<>>, "none")
    BY <2>9, <2>10 DEF Agrees, LockList, Told
  <2>12. Retell(t, i, <<>>, "none")
    <3> HIDE DEF Rest
    <3> QED BY <1>4, <1>7, <2>7 DEF Retell
  <2> QED BY <1>1, <1>7, <2>11, <2>12, FcntlStep
<1> QED BY <1>5, <1>6, <1>7

(*---------------------------------------------------------------------------*)
(* The theorems.                                                             *)

LEMMA InitInvariant ==
    ASSUME Init
    PROVE  IInv
<1>1. MaxId \in Nat /\ MaxId >= 5
  BY NamespaceAssumption, ClientAssumption
<1>2. DOMAIN dent = Keys /\ \A k \in Keys : dent[k].id \in {0, 2, 3, 4}
  <2>1. dent = [k \in Keys |-> CASE k = <<1, "d">> -> [id |-> 2, dir |-> TRUE]
                                [] k = <<1, "f">> -> [id |-> 3, dir |-> FALSE]
                                [] k = <<2, "g">> -> [id |-> 4, dir |-> FALSE]
                                [] OTHER -> NoEntry]
    BY DEF Init
  <2> HIDE DEF Keys
  <2> QED BY <2>1 DEF NoEntry
<1>3. {0, 2, 3, 4} \subseteq Known
  BY SMT, <1>1 DEF Known, Ids
<1>4. EntriesInv
  BY <1>2, <1>3 DEF EntriesInv
<1>5. DOMAIN c = Threads /\ \A t \in Threads : c[t] = Quiet
  BY DEF Init
<1>6. CallsInv
  BY <1>5, QuietCall DEF CallsInv
<1>7. /\ DOMAIN own = Threads /\ DOMAIN told = Threads /\ DOMAIN buf = Threads
      /\ \A t \in Threads : DOMAIN own[t] = Ids /\ DOMAIN told[t] = Ids
      /\ \A t \in Threads : \A i \in Ids : own[t][i] = 0 /\ told[t][i] = "none"
  BY DEF Init
<1>8. FdInv
  <2>1. Manager(<<>>, <<>>, 1)
    <3>1. DOMAIN <<>> = {} /\ Range(<<>>) = {} /\ 1 .. 1 - 1 = {} /\ 1 \in Nat \ {0}
      BY SMT DEF Range
    <3>2. <<>> \in Seq(Nat) /\ IsInjective(<<>>)
      BY SMT DEF IsInjective
    <3> QED BY <3>1, <3>2 DEF Manager
  <2>2. /\ DOMAIN fd_map_ = Threads /\ DOMAIN fd_pool_ = Threads /\ DOMAIN min_free_fd_ = Threads
        /\ \A t \in Threads : fd_map_[t] = <<>> /\ fd_pool_[t] = <<>> /\ min_free_fd_[t] = 1
    BY DEF Init
  <2> QED BY <2>1, <2>2 DEF FdInv
<1>9. CopyInv
  BY <1>5, <1>7, QuietCall DEF CopyInv, MapInv, FilePcs
<1>10. LockInv
  <2>1. DOMAIN gLockTable = Ids /\ \A i \in Ids : gLockTable[i] = <<>>
    BY DEF Init
  <2>2. \A t \in Threads : TellsLock(c[t], told[t][buf[t].id])
    BY <1>5, QuietCall DEF TellsLock
  <2>3. LockList(<<>>)
    BY SMT DEF LockList
  <2>4. TableInv
    BY <2>1, <2>3 DEF TableInv
  <2>5. ToldInv
    BY <1>7 DEF ToldInv, Told
  <2> QED BY <2>2, <2>4, <2>5 DEF LockInv
<1> QED BY <1>4, <1>6, <1>8, <1>9, <1>10 DEF IInv

LEMMA NextInvariant ==
    ASSUME IInv, [Next]_vars
    PROVE  IInv'
<1>1. CASE Next
  <2>1. PICK t \in Threads : BeginPath(t) \/ ServerStep(t) \/ Answer(t) \/ FileStep(t)
    BY <1>1 DEF Next
  <2>2. CASE BeginPath(t) \/ ServerStep(t) \/ Answer(t)
    BY <2>2, BeginPathStep, ServerStepInv, AnswerStep
  <2>3. CASE FileStep(t)
    BY <2>3, BeginFileStep, WriteDataStep, PwriteDataStep, ReadDataStep, PreadDataStep,
       SetFdStep, PutInodeRequestStep, ReleaseFdStep, SetLockStep, UnlockStep DEF FileStep
  <2> QED BY <2>1, <2>2, <2>3
<1>2. CASE UNCHANGED vars
  <2>1. UNCHANGED <<dent, c, fdVars, buf, gLockTable, told>>
    BY <1>2 DEF vars, fdVars
  <2>2. EntriesInv' /\ CallsInv'
    BY <2>1 DEF IInv, EntriesInv, CallsInv
  <2>3. FdInv'
    BY <2>1 DEF IInv, FdInv, fdVars
  <2>4. CopyInv'
    BY <2>1 DEF IInv, CopyInv, MapInv, fdVars
  <2>5. LockInv'
    BY <2>1 DEF IInv, LockInv, TableInv, ToldInv
  <2> QED BY <2>2, <2>3, <2>4, <2>5 DEF IInv
<1> QED BY <1>1, <1>2

(* FdManager and the lock table keep the inductive invariant through every    *)
(* call of posix_wrapper.cc: the numbers below a thread's min_free_fd_ are    *)
(* those in its fd_map_ and those in its fd_pool_, so that none is lost or    *)
(* handed out twice, and the table of locks has what the threads were told.   *)
THEOREM DescriptorsAndLocks == Spec => []IInv
<1>1. Init => IInv
  BY InitInvariant
<1>2. IInv /\ [Next]_vars => IInv'
  BY NextInvariant
<1> QED BY <1>1, <1>2, PTL DEF Spec

(* Whatever files a thread opens and closes, and in whatever order, the       *)
(* number that AllocateFd returned for a file stays its number in fd_map_     *)
(* until dfs_close: no later open is given it, and SetFd at the end of a call *)
(* on another descriptor does not write to it.                                *)
THEOREM OwnDescriptors == Spec => []DescriptorsKept
<1>1. IInv => DescriptorsKept
  BY DEF IInv, CopyInv, MapInv, Holds, IsFd, OpenFiles, DescriptorsKept
<1> QED BY <1>1, DescriptorsAndLocks, PTL

(* Between the grant of a write lock by dfs_fcntl and its unlock or the close *)
(* of the file no other thread is granted a lock on the file, by F_SETLK or   *)
(* by a F_SETLKW that waited, although closes leave locks in the table.       *)
THEOREM WriteLocksExclude == Spec => []LocksExclude
<1>1. ASSUME IInv
      PROVE  LocksExclude
  <2> SUFFICES ASSUME NEW t \in Threads, NEW s \in Threads, t # s, NEW i \in Ids,
                      told[t][i] = "WR", told[s][i] # "none"
               PROVE  FALSE
    BY DEF LocksExclude
  <2> DEFINE T == gLockTable[i]
  <2>1. TableInv /\ ToldInv
    BY <1>1 DEF IInv, LockInv
  <2>2. PICK k \in DOMAIN T : T[k] = "WR"
    <3>1. Told(told[t][i], T)
      BY <2>1 DEF ToldInv
    <3>2. Has(T, "WR")
      BY <3>1 DEF Told
    <3> QED BY <3>2 DEF Has
  <2>3. PICK j \in DOMAIN T : T[j] = told[s][i]
    BY <2>1 DEF ToldInv, Told, Has
  <2>4. T \in Seq(Types) /\ Len(T) = 1
    BY <2>1, <2>2 DEF TableInv, LockList
  <2> HIDE DEF T
  <2>5. j = k
    BY SMT, <2>2, <2>3, <2>4
  <2> QED BY <2>1, <2>2, <2>3, <2>5 DEF ToldInv
<1> QED BY <1>1, DescriptorsAndLocks, PTL
=============================================================================
