-------------------------- MODULE ClientFilesInvariant -----------------------
(***************************************************************************)
(* The inductive invariant of module ClientFiles on descriptors and locks,   *)
(* and what its steps do to a thread's call, the entries and the numbers of  *)
(* descriptors.  Module ClientFilesProofs puts them together.                *)
(*                                                                          *)
(* The invariant says that the numbers below a thread's min_free_fd_ are     *)
(* exactly those in its fd_map_ and those in its fd_pool_, each once; that a *)
(* number the thread was given is in the map with the file it opened, and a  *)
(* call on a descriptor works on a copy of such an entry; and that a file's  *)
(* list of locks is one write lock or any number of read locks, and has what *)
(* the threads were told.  That ids are ids of inodes, which these rest on,  *)
(* follows from what the entries hold, through every lookup.                 *)
(***************************************************************************)
EXTENDS ClientFiles, SequenceTheorems, WellFoundedInduction, TLAPS

(* Leaves are Zenon's unless they name SMT.                                   *)
USE ZenonT(30)

(*---------------------------------------------------------------------------*)
(* The inductive invariant.                                                  *)

Known == Ids \cup {0}
OpeningPcs == {"start", "get", "logcreate", "put", "addcount", "addentry", "ret"}
FilePcs == {"wdata", "rdata", "setfd", "putnode", "release", "lock"}

(* A lookup's result.                                                         *)
IsPlace(l) == {"id", "parent", "name", "dir"} \subseteq DOMAIN l
              /\ l.id \in Known /\ l.parent \in Known

(* A thread's call: its paths consist of names, its ids are ids.  An open or  *)
(* a creat has an id when it has found or made the file.                      *)
CallInv(r) ==
    /\ {"pc", "call", "old", "to", "gone", "last", "id", "node", "res"} \subseteq DOMAIN r
    /\ r.call.path \in Seq(Names) /\ r.call.new \in Seq(Names)
    /\ IsPlace(r.old) /\ IsPlace(r.to)
    /\ r.id \in Known
    /\ r.call.op \in Opening =>
          /\ r.pc \in OpeningPcs
          /\ r.pc \notin {"start", "ret"} \/ (r.pc = "ret" /\ r.res = "ok") => r.id # 0

EntriesInv == DOMAIN dent = Keys /\ \A k \in Keys : dent[k].id \in Known
CallsInv == DOMAIN c = Threads /\ \A t \in Threads : CallInv(c[t])

(* FdManager: a number below min_free_fd_ is in use or in the pool, and only  *)
(* once.                                                                      *)
Manager(map, pool, free) ==
    /\ free \in Nat \ {0}
    /\ DOMAIN map \cup Range(pool) = 1 .. free - 1
    /\ DOMAIN map \cap Range(pool) = {}
    /\ pool \in Seq(Nat) /\ IsInjective(pool)
FdInv ==
    /\ DOMAIN fd_map_ = Threads /\ DOMAIN fd_pool_ = Threads /\ DOMAIN min_free_fd_ = Threads
    /\ \A t \in Threads : Manager(fd_map_[t], fd_pool_[t], min_free_fd_[t])

(* The thread's number n is the descriptor of file i, and a call works on a   *)
(* copy d of such a descriptor.                                               *)
IsFd(d, n, i) == {"fd", "id"} \subseteq DOMAIN d /\ d.fd = n /\ d.id = i
Holds(map, n, i) == n \in DOMAIN map /\ IsFd(map[n], n, i)
MapInv ==
    /\ DOMAIN own = Threads /\ \A t \in Threads : DOMAIN own[t] = Ids
    /\ \A t \in Threads : \A i \in Ids : own[t][i] # 0 => Holds(fd_map_[t], own[t][i], i)
Copies(d, mine) == \E i \in Ids : mine[i] # 0 /\ IsFd(d, mine[i], i)
CopyInv ==
    /\ MapInv /\ DOMAIN buf = Threads
    /\ \A t \in Threads : c[t].pc \in FilePcs => Copies(buf[t], own[t])

(* The locks of a file are one write lock or any number of read locks.        *)
LockList(locks) ==
    locks \in Seq(Types) /\ \A k \in DOMAIN locks : locks[k] = "WR" => Len(locks) = 1
Has(locks, type) == \E k \in DOMAIN locks : locks[k] = type
TableInv == DOMAIN gLockTable = Ids /\ \A i \in Ids : LockList(gLockTable[i])

(* What threads were told is in the list, and a write lock was told to one.   *)
Told(x, locks) == x \in Types \cup {"none"} /\ (x # "none" => Has(locks, x))
ToldInv ==
    /\ DOMAIN told = Threads /\ \A t \in Threads : DOMAIN told[t] = Ids
    /\ \A t \in Threads : \A i \in Ids : Told(told[t][i], gLockTable[i])
    /\ \A t, s \in Threads : \A i \in Ids : told[t][i] = "WR" /\ told[s][i] = "WR" => t = s

(* A thread that unlocks was told a lock.                                     *)
TellsLock(r, lock) == r.pc = "lock" /\ r.call.op = "unlock" => lock # "none"
LockInv == TableInv /\ ToldInv /\ \A t \in Threads : TellsLock(c[t], told[t][buf[t].id])

IInv == EntriesInv /\ CallsInv /\ FdInv /\ CopyInv /\ LockInv
(*---------------------------------------------------------------------------*)
(* Natural numbers.                                                          *)

(* A nonempty set of natural numbers has a least element, ...                 *)
LEMMA LeastElement ==
    ASSUME NEW T \in SUBSET Nat, T # {}
    PROVE  \E m \in T : \A k \in T : m <= k
<1> DEFINE R == {ss \in Nat \X Nat : ss[1] < ss[2]}
<1>1. IsWellFoundedOn(R, Nat)
  BY NatLessThanWellFounded DEF OpToRel
<1>2. \E x \in T : \A y \in T : ~ (<<y, x>> \in R)
  <2> HIDE DEF R
  <2> QED BY <1>1, WFMin
<1>3. PICK m \in T : \A y \in T : ~ (<<y, m>> \in R)
  BY <1>2
<1>4. ASSUME NEW k \in T
      PROVE  m <= k
  <2>1. k < m => <<k, m>> \in R
    OBVIOUS
  <2> HIDE DEF R
  <2>2. m \in Nat /\ k \in Nat
    OBVIOUS
  <2> QED BY SMT, <1>3, <2>1, <2>2
<1> QED BY <1>4

(* ... and, if it is bounded, a greatest one.                                 *)
LEMMA GreatestElement ==
    ASSUME NEW n \in Nat, NEW T \in SUBSET (0 .. n), T # {}
    PROVE  \E m \in T : \A k \in T : m >= k
<1> DEFINE S == {k \in 0 .. n : n - k \in T}
<1>1. ASSUME NEW k \in T
      PROVE  n - k \in S
  <2>1. k \in 0 .. n
    OBVIOUS
  <2>2. n - k \in 0 .. n /\ n - (n - k) = k
    BY SMT, <2>1
  <2> QED BY <2>2
<1>2. S # {} /\ S \in SUBSET Nat
  <2>1. S \subseteq Nat
    BY SMT
  <2> HIDE DEF S
  <2> QED BY <1>1, <2>1
<1>3. PICK m \in S : \A k \in S : m <= k
  <2> HIDE DEF S
  <2> QED BY <1>2, LeastElement
<1>4. ASSUME NEW k \in T
      PROVE  n - m >= k
  <2>1. n - k \in S
    BY <1>1
  <2>2. m \in 0 .. n /\ k \in 0 .. n
    OBVIOUS
  <2> HIDE DEF S
  <2>3. m <= n - k
    BY <1>3, <2>1
  <2> QED BY SMT, <2>2, <2>3
<1> QED BY <1>3, <1>4

(* A set with 0 that is closed under successor has every natural number.      *)
LEMMA SetInduction ==
    ASSUME NEW S, 0 \in S, \A n \in Nat : n \in S => n + 1 \in S
    PROVE  Nat \subseteq S
<1> SUFFICES ASSUME Nat \ S # {} PROVE FALSE
  OBVIOUS
<1>1. PICK m \in Nat \ S : \A k \in Nat \ S : m <= k
  BY LeastElement
<1>2. m # 0 /\ m - 1 \in Nat /\ (m - 1) + 1 = m
  BY SMT, <1>1
<1>3. m - 1 \in S
  BY SMT, <1>1, <1>2
<1> QED BY <1>1, <1>2, <1>3

(*---------------------------------------------------------------------------*)
(* Lookups.                                                                  *)

(* One name further from id x.                                                *)
Onward(x, path, i) == IF x = 0 THEN 0 ELSE dent[<<x, path[i]>>].id

IsAlong(f, start, path, n) ==
    /\ f = [i \in 0 .. n |-> IF i = 0 THEN start ELSE Onward(f[i-1], path, i)]

(* The recursion of LocateInode over the names of a path is well founded.     *)
LEMMA AlongExists ==
    ASSUME NEW start, NEW path
    PROVE  \A n \in Nat : \E f : IsAlong(f, start, path, n)
<1> DEFINE S == {n \in Nat : \E f : IsAlong(f, start, path, n)}
<1>1. 0 \in S
  <2> DEFINE f == [i \in 0 .. 0 |-> start]
  <2>1. f = [i \in 0 .. 0 |-> IF i = 0 THEN start ELSE Onward(f[i-1], path, i)]
    BY SMT
  <2> QED BY <2>1 DEF IsAlong
<1>2. ASSUME NEW n \in Nat, n \in S
      PROVE  n + 1 \in S
  <2>1. PICK f : IsAlong(f, start, path, n)
    BY <1>2
  <2> DEFINE x == Onward(f[n], path, n + 1)
             g == [i \in 0 .. n + 1 |-> IF i = n + 1 THEN x ELSE f[i]]
  <2>2. /\ \A i \in 0 .. n : g[i] = f[i]
        /\ g[n + 1] = x
    BY SMT
  <2>3. \A i \in 0 .. n : f[i] = IF i = 0 THEN start ELSE Onward(f[i-1], path, i)
    BY <2>1 DEF IsAlong
  <2>4. \A i \in 0 .. n + 1 : g[i] = IF i = 0 THEN start ELSE Onward(g[i-1], path, i)
    <3> HIDE DEF g
    <3>1. ASSUME NEW i \in 0 .. n + 1, i # 0
          PROVE  g[i] = Onward(g[i-1], path, i)
      <4>1. CASE i = n + 1
        BY SMT, <2>2, <4>1
      <4>2. CASE i # n + 1
        <5>1. i \in 0 .. n /\ i - 1 \in 0 .. n
          BY SMT, <3>1, <4>2
        <5> QED BY <2>2, <2>3, <3>1, <5>1
      <4> QED BY <4>1, <4>2
    <3>2. g[0] = start
      BY SMT, <2>2, <2>3
    <3> QED BY <3>1, <3>2
  <2>5. g = [i \in 0 .. n + 1 |-> IF i = 0 THEN start ELSE Onward(g[i-1], path, i)]
    BY <2>4
  <2>6. IsAlong(g, start, path, n + 1)
    BY <2>5 DEF IsAlong
  <2> QED BY SMT, <2>6
<1> HIDE DEF S
<1>3. Nat \subseteq S
  BY <1>1, <1>2, SetInduction
<1> QED BY <1>3 DEF S

(* Its values are ids, and 0 from the first name that is missing.             *)
LEMMA AlongKnown ==
    ASSUME EntriesInv, NEW start \in Known, NEW path \in Seq(Names)
    PROVE  \A i \in 0 .. Len(path) : Along(start, path)[i] \in Known
<1> DEFINE n == Len(path)
           f == Along(start, path)
<1>1. n \in Nat
  BY LenProperties
<1>2. \E g : IsAlong(g, start, path, n)
  BY <1>1, AlongExists
<1>3. f = CHOOSE g : g = [i \in 0 .. Len(path) |->
                            IF i = 0 THEN start
                            ELSE IF g[i-1] = 0 THEN 0 ELSE dent[<<g[i-1], path[i]>>].id]
  BY DEF Along
<1>4. f = CHOOSE g : IsAlong(g, start, path, n)
  BY <1>3 DEF IsAlong, Onward
<1> HIDE DEF f, n
<1>5. IsAlong(f, start, path, n)
  BY <1>2, <1>4
<1>6. \A i \in 0 .. n : f[i] = IF i = 0 THEN start ELSE Onward(f[i-1], path, i)
  BY <1>5 DEF IsAlong
<1> DEFINE S == {i \in Nat : i <= n => f[i] \in Known}
<1>7. 0 \in S
  BY SMT, <1>1, <1>6
<1>8. ASSUME NEW i \in Nat, i \in S
      PROVE  i + 1 \in S
  <2>1. CASE i + 1 <= n
    <3>1. f[i] \in Known
      BY SMT, <1>1, <1>8, <2>1
    <3>2. i + 1 \in 0 .. n /\ i + 1 \in 1 .. n /\ i + 1 # 0 /\ (i + 1) - 1 = i
      BY SMT, <1>1, <2>1
    <3>3. f[i + 1] = Onward(f[i], path, i + 1)
      BY <1>6, <3>2
    <3>4. path[i + 1] \in Names
      BY <3>2, ElementOfSeq DEF n
    <3>5. f[i] # 0 => <<f[i], path[i + 1]>> \in Keys
      BY <3>1, <3>4 DEF Known, Keys
    <3>6. Onward(f[i], path, i + 1) \in Known
      BY <3>5 DEF Onward, EntriesInv, Known
    <3> QED BY SMT, <3>3, <3>6
  <2>2. CASE ~(i + 1 <= n)
    BY SMT, <2>2
  <2> QED BY <2>1, <2>2
<1> HIDE DEF S
<1>9. Nat \subseteq S
  BY <1>7, <1>8, SetInduction
<1>10. \A i \in 0 .. n : f[i] \in Known
  BY SMT, <1>1, <1>9 DEF S
<1> QED BY <1>10 DEF f, n

LEMMA LocatePlace ==
    ASSUME EntriesInv, NEW start \in Known, NEW path \in Seq(Names)
    PROVE  IsPlace(Locate(start, path))
<1> DEFINE f == Along(start, path)
           n == Len(path)
<1>1. n \in Nat /\ \A i \in 0 .. n : f[i] \in Known
  BY AlongKnown, LenProperties
<1>2. 0 \in Known
  BY DEF Known
<1> HIDE DEF f
<1>3. f[n] \in Known /\ (n # 0 => f[n-1] \in Known)
  BY SMT, <1>1
<1>4. /\ Locate(start, path).id = f[n]
      /\ Locate(start, path).parent = IF n = 0 THEN 0 ELSE f[n-1]
      /\ DOMAIN Locate(start, path) = {"id", "parent", "name", "dir"}
  BY DEF Locate, f
<1> QED BY <1>2, <1>3, <1>4 DEF IsPlace

(* Paths relative to the directories two paths have in common.                *)
LEMMA CommonPaths ==
    ASSUME NEW call, call.path \in Seq(Names), call.new \in Seq(Names)
    PROVE  LET n == Common(call)
           IN  /\ SubSeq(call.path, 1, n) \in Seq(Names)
               /\ Rel(call.path, n) \in Seq(Names)
               /\ Rel(call.new, n) \in Seq(Names)
<1> DEFINE a == Dirs(call.path)
           b == Dirs(call.new)
           agree == {n \in 0 .. Len(a) : n <= Len(b) /\ SubSeq(a, 1, n) = SubSeq(b, 1, n)}
<1>1. /\ a \in Seq(Names) /\ Len(a) <= Len(call.path) /\ Len(a) \in Nat
      /\ b \in Seq(Names) /\ Len(b) \in Nat /\ Len(call.path) \in Nat
  BY SMT, SubSeqProperties, LenProperties DEF Dirs
<1>2. SubSeq(a, 1, 0) = <<>> /\ SubSeq(b, 1, 0) = <<>>
  BY SMT, <1>1, SubSeqEmpty
<1>3. 0 \in agree /\ agree \in SUBSET (0 .. Len(a))
  BY SMT, <1>1, <1>2
<1>4. Common(call) = CHOOSE x \in agree : \A y \in agree : x >= y
  BY DEF Common, Max
<1> HIDE DEF agree, a, b
<1>5. Common(call) \in 0 .. Len(a)
  BY <1>1, <1>3, <1>4, GreatestElement
<1>6. Common(call) \in Nat /\ Common(call) <= Len(call.path)
  BY SMT, <1>1, <1>5
<1> QED BY SMT, <1>1, <1>6, SubSeqProperties DEF Rel

(*---------------------------------------------------------------------------*)
(* Steps of a call on paths.                                                 *)

(* The call goes on, or ends, with r2.                                        *)
PathResult(t, r2) ==
    Set(t, r2) /\ CallInv(r2) /\ r2.pc \notin FilePcs /\ r2.call = c[t].call

LEMMA GoResult ==
    ASSUME CallsInv, NEW t \in Threads, NEW p, Go(t, p), p \notin FilePcs,
           Op(t) \in Opening => /\ p \in OpeningPcs \ {"ret"}
                                /\ p # "start" => c[t].id # 0
    PROVE  \E r2 : PathResult(t, r2)
<1> DEFINE r == c[t]
           r2 == [r EXCEPT !.pc = p]
<1>1. CallInv(r) /\ Set(t, r2)
  BY DEF CallsInv, Go
<1>2. /\ DOMAIN r2 = DOMAIN r /\ r2.pc = p /\ r2.call = r.call /\ r2.old = r.old
      /\ r2.to = r.to /\ r2.id = r.id
  BY <1>1 DEF CallInv
<1> HIDE DEF r2
<1>3. CallInv(r2)
  BY <1>1, <1>2 DEF CallInv, Op
<1> QED BY <1>1, <1>2, <1>3 DEF PathResult

LEMMA ReturnResult ==
    ASSUME CallsInv, NEW t \in Threads, NEW res, Return(t, res),
           Op(t) \in Opening /\ res = "ok" => c[t].id # 0
    PROVE  \E r2 : PathResult(t, r2)
<1> DEFINE r == c[t]
           r2 == [r EXCEPT !.pc = "ret", !.res = res]
<1>1. CallInv(r) /\ Set(t, r2)
  BY DEF CallsInv, Return
<1>2. /\ DOMAIN r2 = DOMAIN r /\ r2.pc = "ret" /\ r2.call = r.call /\ r2.old = r.old
      /\ r2.to = r.to /\ r2.id = r.id /\ r2.res = res
  BY <1>1 DEF CallInv
<1> HIDE DEF r2
<1>3. CallInv(r2)
  BY <1>1, <1>2 DEF CallInv, OpeningPcs, Op
<1> QED BY <1>1, <1>2, <1>3 DEF PathResult, FilePcs

(* An append to the log, of which the call goes on or is repeated later.      *)
LEMMA AppendResult ==
    ASSUME CallsInv, NEW t \in Threads, NEW rec, NEW p,
           Append_(t, rec, p) \/ AppendFull(t), p \notin FilePcs,
           Op(t) \in Opening => /\ p \in OpeningPcs \ {"start", "ret"}
                                /\ c[t].id # 0
    PROVE  \E r2 : PathResult(t, r2)
<1>1. CASE Go(t, p)
  BY <1>1, GoResult
<1>2. CASE Return(t, "EAGAIN")
  BY <1>2, ReturnResult
<1> QED BY <1>1, <1>2 DEF Append_, AppendFull

(* The program counters that an open or a creat does not get to.              *)
LEMMA NotOpening ==
    ASSUME CallsInv, NEW t \in Threads, c[t].pc \notin OpeningPcs
    PROVE  Op(t) \notin Opening
BY DEF CallsInv, CallInv, Op

LEMMA OpeningId ==
    ASSUME CallsInv, NEW t \in Threads, Op(t) \in Opening, c[t].pc \notin {"start", "ret"}
    PROVE  c[t].id # 0
BY DEF CallsInv, CallInv, Op

LEMMA PlainSteps ==
    ASSUME CallsInv, NEW t \in Threads,
           \/ LogSetattr(t) \/ SetMode(t) \/ LogCreate(t) \/ AddCount(t) \/ AddEntry(t)
           \/ LogUnlink(t) \/ SubCount(t) \/ EraseEntry(t) \/ DeleteInode(t)
           \/ LogRename(t) \/ SubOldCount(t) \/ EraseOldEntry(t) \/ LogLink(t) \/ IncLinks(t)
    PROVE  \E r2 : PathResult(t, r2)
<1>1. CASE LogSetattr(t)
  <2>1. Op(t) \notin Opening
    BY <1>1, NotOpening DEF LogSetattr, In, OpeningPcs
  <2> QED BY SMT, <1>1, <2>1, AppendResult DEF LogSetattr, FilePcs
<1>2. CASE SetMode(t)
  <2>1. Op(t) \notin Opening
    BY <1>2, NotOpening DEF SetMode, In, OpeningPcs
  <2> QED BY <1>2, <2>1, ReturnResult DEF SetMode
<1>3. CASE LogCreate(t)
  <2>1. Op(t) \in Opening => c[t].id # 0
    BY <1>3, OpeningId DEF LogCreate, In
  <2>2. Append_(t, CreateRec(t), "put") \/ AppendFull(t)
    BY <1>3 DEF LogCreate
  <2> QED BY SMT, <2>1, <2>2, AppendResult DEF FilePcs, OpeningPcs
<1>4. CASE AddCount(t)
  <2>1. Op(t) \in Opening => c[t].id # 0
    BY <1>4, OpeningId DEF AddCount, In
  <2> QED BY <1>4, <2>1, GoResult DEF AddCount, FilePcs, OpeningPcs
<1>5. CASE AddEntry(t)
  <2>1. Op(t) \in Opening => c[t].id # 0
    BY <1>5, OpeningId DEF AddEntry, In
  <2> QED BY <1>5, <2>1, ReturnResult DEF AddEntry
<1>6. CASE LogUnlink(t)
  <2>1. Op(t) \notin Opening
    BY <1>6, NotOpening DEF LogUnlink, In, OpeningPcs
  <2> QED BY SMT, <1>6, <2>1, AppendResult DEF LogUnlink, FilePcs
<1>7. CASE SubCount(t)
  <2>1. Op(t) \notin Opening
    BY <1>7, NotOpening DEF SubCount, In, OpeningPcs
  <2> QED BY <1>7, <2>1, GoResult DEF SubCount, FilePcs
<1>8. CASE EraseEntry(t)
  <2>1. Op(t) \notin Opening
    BY <1>8, NotOpening DEF EraseEntry, In, OpeningPcs
  <2>2. Go(t, "delete") \/ Go(t, "again") \/ Return(t, "ok")
    BY <1>8 DEF EraseEntry, AfterUnlink
  <2> QED BY <2>1, <2>2, GoResult, ReturnResult DEF FilePcs
<1>9. CASE DeleteInode(t)
  <2>1. Op(t) \notin Opening
    BY <1>9, NotOpening DEF DeleteInode, In, OpeningPcs
  <2>2. Go(t, "again") \/ Return(t, "ok")
    BY <1>9 DEF DeleteInode, AfterUnlink
  <2> QED BY <2>1, <2>2, GoResult, ReturnResult DEF FilePcs
<1>10. CASE LogRename(t)
  <2>1. Op(t) \notin Opening
    BY <1>10, NotOpening DEF LogRename, In, OpeningPcs
  <2>2. PICK p \in {"eraseold", "subold"} : Append_(t, RenameRec(t), p) \/ AppendFull(t)
    BY <1>10 DEF LogRename
  <2> QED BY <2>1, <2>2, AppendResult DEF FilePcs
<1>11. CASE SubOldCount(t)
  <2>1. Op(t) \notin Opening
    BY <1>11, NotOpening DEF SubOldCount, In, OpeningPcs
  <2> QED BY <1>11, <2>1, GoResult DEF SubOldCount, FilePcs
<1>12. CASE EraseOldEntry(t)
  <2>1. Op(t) \notin Opening
    BY <1>12, NotOpening DEF EraseOldEntry, In, OpeningPcs
  <2>2. PICK p \in {"addentry", "addcount"} : Go(t, p)
    BY <1>12 DEF EraseOldEntry
  <2> QED BY <2>1, <2>2, GoResult DEF FilePcs
<1>13. CASE LogLink(t)
  <2>1. Op(t) \notin Opening
    BY <1>13, NotOpening DEF LogLink, In, OpeningPcs
  <2> QED BY SMT, <1>13, <2>1, AppendResult DEF LogLink, FilePcs
<1>14. CASE IncLinks(t)
  <2>1. Op(t) \notin Opening
    BY <1>14, NotOpening DEF IncLinks, In, OpeningPcs
  <2> QED BY <1>14, <2>1, GoResult, ReturnResult DEF IncLinks, FilePcs
<1> QED BY <1>1, <1>2, <1>3, <1>4, <1>5, <1>6, <1>7, <1>8, <1>9, <1>10, <1>11, <1>12,
           <1>13, <1>14

(* A step that sets more than the program counter.                            *)
LEMMA SetResult ==
    ASSUME CallsInv, NEW t \in Threads, NEW r2, Set(t, r2),
           DOMAIN c[t] \subseteq DOMAIN r2, r2.call = c[t].call, r2.pc \notin FilePcs,
           IsPlace(r2.old), IsPlace(r2.to), r2.id \in Known,
           Op(t) \in Opening =>
              /\ r2.pc \in OpeningPcs
              /\ r2.pc \notin {"start", "ret"} \/ (r2.pc = "ret" /\ r2.res = "ok") => r2.id # 0
    PROVE  \E x : PathResult(t, x)
<1>1. CallInv(c[t])
  BY DEF CallsInv
<1>2. CallInv(r2)
  BY <1>1 DEF CallInv, Op
<1> QED BY <1>2 DEF PathResult

(* A lookup from the root of a path of the call.                              *)
LEMMA LocateRoot ==
    ASSUME EntriesInv, CallsInv, NEW t \in Threads
    PROVE  /\ IsPlace(Locate(kRootId, c[t].call.path))
           /\ IsPlace(Locate(kRootId, c[t].call.new))
<1>1. kRootId \in Known
  BY SMT, NamespaceAssumption DEF kRootId, Known, Ids
<1>2. c[t].call.path \in Seq(Names) /\ c[t].call.new \in Seq(Names)
  BY DEF CallsInv, CallInv
<1> QED BY <1>1, <1>2, LocatePlace

LEMMA LocateNodeStep ==
    ASSUME EntriesInv, CallsInv, NEW t \in Threads, LocateNode(t)
    PROVE  \E r2 : PathResult(t, r2)
<1> DEFINE r == c[t]
           l == Locate(kRootId, r.call.path)
           p == IF Op(t) = "chmod" THEN "logattr" ELSE "get"
           r2 == [r EXCEPT !.old = l, !.id = l.id, !.pc = p]
<1>1. IsPlace(l) /\ CallInv(r)
  BY LocateRoot DEF CallsInv
<1>2. Return(t, "fail") \/ (l.id # 0 /\ Set(t, r2))
  BY DEF LocateNode
<1>3. CASE Return(t, "fail")
  BY <1>3, ReturnResult
<1>4. CASE l.id # 0 /\ Set(t, r2)
  <2> HIDE DEF l
  <2>1. /\ DOMAIN r2 = DOMAIN r /\ r2.call = r.call /\ r2.old = l /\ r2.to = r.to
        /\ r2.id = l.id /\ r2.pc = p
    BY <1>1 DEF CallInv
  <2>2. p \notin FilePcs /\ (Op(t) \in Opening => p = "get")
    BY DEF FilePcs, Opening
  <2>3. IsPlace(r.to) /\ l.id \in Known
    BY <1>1 DEF CallInv, IsPlace
  <2> HIDE DEF r2, p
  <2> QED BY <1>1, <1>4, <2>1, <2>2, <2>3, SetResult DEF OpeningPcs
<1> QED BY <1>2, <1>3, <1>4

LEMMA GetInodeStep ==
    ASSUME CallsInv, NEW t \in Threads, GetInode(t)
    PROVE  \E r2 : PathResult(t, r2)
<1> DEFINE r == c[t]
           res == IF inode[r.id].live THEN "ok" ELSE "fail"
           r2 == [r EXCEPT !.pc = "ret", !.node = inode[r.id], !.res = res]
<1>1. CallInv(r) /\ r.pc = "get" /\ Set(t, r2)
  BY DEF CallsInv, GetInode, In
<1>2. /\ DOMAIN r2 = DOMAIN r /\ r2.call = r.call /\ r2.old = r.old /\ r2.to = r.to
      /\ r2.id = r.id /\ r2.pc = "ret"
  BY <1>1 DEF CallInv
<1>3. Op(t) \in Opening => r.id # 0
  BY <1>1, OpeningId
<1>4. IsPlace(r.old) /\ IsPlace(r.to) /\ r.id \in Known
  BY <1>1 DEF CallInv
<1> HIDE DEF r2
<1> QED BY <1>1, <1>2, <1>3, <1>4, SetResult DEF OpeningPcs, FilePcs

LEMMA LocateNewStep ==
    ASSUME EntriesInv, CallsInv, NEW t \in Threads, LocateNew(t)
    PROVE  \E r2 : PathResult(t, r2)
<1> DEFINE r == c[t]
           l == Locate(kRootId, r.call.path)
           new(id) == [l EXCEPT !.id = id, !.dir = Op(t) = "mkdir"]
           there == [r EXCEPT !.pc = "get", !.id = l.id]
           made(id) == [r EXCEPT !.pc = "logcreate", !.id = id, !.to = new(id)]
<1>1. IsPlace(l) /\ CallInv(r) /\ IsPlace(r.old) /\ IsPlace(r.to)
  BY LocateRoot DEF CallsInv, CallInv
<1>2. \/ Return(t, "fail")
      \/ l.id # 0 /\ Set(t, there)
      \/ \E id \in Ids : Set(t, made(id))
  BY DEF LocateNew
<1>3. CASE Return(t, "fail")
  BY <1>3, ReturnResult
<1>4. CASE l.id # 0 /\ Set(t, there)
  <2> HIDE DEF l
  <2>1. /\ DOMAIN there = DOMAIN r /\ there.call = r.call /\ there.old = r.old
        /\ there.to = r.to /\ there.id = l.id /\ there.pc = "get"
    BY <1>1 DEF CallInv
  <2>2. l.id \in Known
    BY <1>1 DEF IsPlace
  <2> HIDE DEF there
  <2> QED BY <1>1, <1>4, <2>1, <2>2, SetResult DEF OpeningPcs, FilePcs
<1>5. CASE \E id \in Ids : Set(t, made(id))
  <2> HIDE DEF l
  <2>1. PICK id \in Ids : Set(t, made(id))
    BY <1>5
  <2>2. id \in Known /\ id # 0
    BY SMT, NamespaceAssumption DEF Known, Ids
  <2>3. IsPlace(new(id))
    BY <1>1, <2>2 DEF IsPlace
  <2> HIDE DEF new
  <2>4. /\ DOMAIN made(id) = DOMAIN r /\ made(id).call = r.call /\ made(id).old = r.old
        /\ made(id).to = new(id) /\ made(id).id = id /\ made(id).pc = "logcreate"
    BY <1>1 DEF CallInv
  <2> HIDE DEF made
  <2> QED BY <1>1, <2>1, <2>2, <2>3, <2>4, SetResult DEF OpeningPcs, FilePcs
<1> QED BY <1>2, <1>3, <1>4, <1>5

LEMMA PutInodeStep ==
    ASSUME CallsInv, NEW t \in Threads, PutInode(t)
    PROVE  \E r2 : PathResult(t, r2)
<1> DEFINE r == c[t]
           r2 == [r EXCEPT !.pc = "addcount", !.node = NewInode(Op(t) = "mkdir")]
<1>1. CallInv(r) /\ r.pc = "put" /\ Set(t, r2)
  BY DEF CallsInv, PutInode, In
<1>2. /\ DOMAIN r2 = DOMAIN r /\ r2.call = r.call /\ r2.old = r.old /\ r2.to = r.to
      /\ r2.id = r.id /\ r2.pc = "addcount"
  BY <1>1 DEF CallInv
<1>3. Op(t) \in Opening => r.id # 0
  BY <1>1, OpeningId
<1>4. IsPlace(r.old) /\ IsPlace(r.to) /\ r.id \in Known
  BY <1>1 DEF CallInv
<1> HIDE DEF r2
<1> QED BY <1>1, <1>2, <1>3, <1>4, SetResult DEF OpeningPcs, FilePcs

LEMMA LocateGoneStep ==
    ASSUME CallsInv, NEW t \in Threads, LocateGone(t)
    PROVE  \E r2 : PathResult(t, r2)
<1> DEFINE r == c[t]
           l == Locate(kRootId, IF Covering(t) THEN r.call.new ELSE r.call.path)
           r2 == [r EXCEPT !.pc = "logunlink", !.gone = l]
<1>1. CallInv(r) /\ IsPlace(r.old) /\ IsPlace(r.to) /\ r.id \in Known
  BY DEF CallsInv, CallInv
<1>2. Return(t, "fail") \/ Set(t, r2)
  BY DEF LocateGone
<1>3. Op(t) \notin Opening
  BY NotOpening DEF LocateGone, In, OpeningPcs, Opening
<1>4. CASE Return(t, "fail")
  BY <1>4, ReturnResult
<1>5. CASE Set(t, r2)
  <2> HIDE DEF l
  <2>1. /\ DOMAIN r2 = DOMAIN r /\ r2.call = r.call /\ r2.old = r.old /\ r2.to = r.to
        /\ r2.id = r.id /\ r2.pc = "logunlink"
    BY <1>1 DEF CallInv
  <2> HIDE DEF r2
  <2> QED BY <1>1, <1>3, <1>5, <2>1, SetResult DEF FilePcs
<1> QED BY <1>2, <1>4, <1>5

LEMMA DecLinksStep ==
    ASSUME CallsInv, NEW t \in Threads, DecLinks(t)
    PROVE  \E r2 : PathResult(t, r2)
<1> DEFINE r == c[t]
           one == inode[r.gone.id].nlink = 1
           r2 == [r EXCEPT !.pc = "subcount", !.last = one]
<1>1. CallInv(r) /\ IsPlace(r.old) /\ IsPlace(r.to) /\ r.id \in Known
  BY DEF CallsInv, CallInv
<1>2. Return(t, "fail") \/ Set(t, r2)
  BY DEF DecLinks
<1>3. Op(t) \notin Opening
  BY NotOpening DEF DecLinks, In, OpeningPcs
<1>4. CASE Return(t, "fail")
  BY <1>4, ReturnResult
<1>5. CASE Set(t, r2)
  <2> HIDE DEF one
  <2>1. /\ DOMAIN r2 = DOMAIN r /\ r2.call = r.call /\ r2.old = r.old /\ r2.to = r.to
        /\ r2.id = r.id /\ r2.pc = "subcount"
    BY <1>1 DEF CallInv
  <2> HIDE DEF r2
  <2> QED BY <1>1, <1>3, <1>5, <2>1, SetResult DEF FilePcs
<1> QED BY <1>2, <1>4, <1>5

LEMMA LocateBothStep ==
    ASSUME EntriesInv, CallsInv, NEW t \in Threads, LocateBoth(t)
    PROVE  \E r2 : PathResult(t, r2)
<1> DEFINE r == c[t]
           n == Common(r.call)
           lcd == Locate(kRootId, SubSeq(r.call.path, 1, n)).id
           old == Locate(lcd, Rel(r.call.path, n))
           new == Locate(lcd, Rel(r.call.new, n))
           to == [new EXCEPT !.id = old.id, !.dir = old.dir]
           cover == [r EXCEPT !.pc = "cover", !.old = old, !.to = new]
           move == [r EXCEPT !.pc = LogNext(t), !.old = old, !.to = to]
<1>1. /\ CallInv(r) /\ r.id \in Known
      /\ r.call.path \in Seq(Names) /\ r.call.new \in Seq(Names)
  BY DEF CallsInv, CallInv
<1>2. kRootId \in Known
  BY SMT, NamespaceAssumption DEF kRootId, Known, Ids
<1>3. /\ SubSeq(r.call.path, 1, n) \in Seq(Names)
      /\ Rel(r.call.path, n) \in Seq(Names)
      /\ Rel(r.call.new, n) \in Seq(Names)
  BY <1>1, CommonPaths
<1>4. lcd \in Known
  BY <1>2, <1>3, LocatePlace DEF IsPlace
<1>5. IsPlace(old) /\ IsPlace(new)
  <2> HIDE DEF lcd
  <2> QED BY <1>3, <1>4, LocatePlace
<1>6. Return(t, "fail") \/ Set(t, cover) \/ Set(t, move)
  BY DEF LocateBoth
<1>7. Op(t) \notin Opening
  BY DEF LocateBoth, Opening
<1>8. LogNext(t) \in {"loglink", "logrename"}
  BY DEF LogNext
<1> HIDE DEF n, lcd, old, new
<1>9. IsPlace(to)
  BY <1>5 DEF IsPlace
<1> HIDE DEF to
<1>10. /\ DOMAIN cover = DOMAIN r /\ cover.call = r.call /\ cover.old = old
       /\ cover.to = new /\ cover.id = r.id /\ cover.pc = "cover"
  BY <1>1 DEF CallInv
<1>11. /\ DOMAIN move = DOMAIN r /\ move.call = r.call /\ move.old = old
       /\ move.to = to /\ move.id = r.id /\ move.pc = LogNext(t)
  BY <1>1 DEF CallInv
<1> HIDE DEF cover, move
<1>12. CASE Return(t, "fail")
  BY <1>12, ReturnResult
<1>13. CASE Set(t, cover)
  BY <1>1, <1>5, <1>7, <1>10, <1>13, SetResult DEF FilePcs
<1>14. CASE Set(t, move)
  BY <1>1, <1>5, <1>7, <1>8, <1>9, <1>11, <1>14, SetResult DEF FilePcs
<1> QED BY <1>6, <1>12, <1>13, <1>14

LEMMA LocateAgainStep ==
    ASSUME EntriesInv, CallsInv, NEW t \in Threads, LocateAgain(t)
    PROVE  \E r2 : PathResult(t, r2)
<1> DEFINE r == c[t]
           new == Locate(r.to.parent, Rel(r.call.new, Common(r.call)))
           to == [new EXCEPT !.id = r.old.id, !.dir = r.old.dir]
           r2 == [r EXCEPT !.pc = "logrename", !.to = to]
<1>1. /\ CallInv(r) /\ r.id \in Known /\ IsPlace(r.old)
      /\ r.call.path \in Seq(Names) /\ r.call.new \in Seq(Names)
      /\ r.to.parent \in Known /\ r.old.id \in Known
  BY DEF CallsInv, CallInv, IsPlace
<1>2. Rel(r.call.new, Common(r.call)) \in Seq(Names)
  BY <1>1, CommonPaths
<1>3. IsPlace(new)
  BY <1>1, <1>2, LocatePlace
<1>4. Return(t, "fail") \/ Set(t, r2)
  BY DEF LocateAgain
<1>5. Op(t) \notin Opening
  BY NotOpening DEF LocateAgain, In, OpeningPcs
<1> HIDE DEF new
<1>6. IsPlace(to)
  BY <1>1, <1>3 DEF IsPlace
<1> HIDE DEF to
<1>7. /\ DOMAIN r2 = DOMAIN r /\ r2.call = r.call /\ r2.old = r.old
      /\ r2.to = to /\ r2.id = r.id /\ r2.pc = "logrename"
  BY <1>1 DEF CallInv
<1> HIDE DEF r2
<1>8. CASE Return(t, "fail")
  BY <1>8, ReturnResult
<1>9. CASE Set(t, r2)
  BY <1>1, <1>5, <1>6, <1>7, <1>9, SetResult DEF FilePcs
<1> QED BY <1>4, <1>8, <1>9

(* A call that starts, the first time or again.                               *)
Started(call, fit) == [Quiet EXCEPT !.pc = "start", !.call = call, !.fit = fit]

LEMMA StartCall ==
    ASSUME NEW call, call.path \in Seq(Names), call.new \in Seq(Names), NEW fit
    PROVE  LET r2 == Started(call, fit)
           IN  CallInv(r2) /\ r2.pc = "start" /\ r2.call = call
<1> DEFINE r2 == Started(call, fit)
<1>1. /\ DOMAIN Quiet = {"pc", "call", "old", "to", "gone", "last", "id", "node", "res", "fit"}
      /\ Quiet.old = Nowhere /\ Quiet.to = Nowhere /\ Quiet.id = 0
  BY DEF Quiet
<1>2. /\ r2.pc = "start" /\ r2.call = call /\ r2.old = Nowhere /\ r2.to = Nowhere
      /\ r2.id = 0 /\ DOMAIN r2 = DOMAIN Quiet
  BY <1>1 DEF Started
<1>3. IsPlace(Nowhere)
  BY DEF IsPlace, Nowhere, Known
<1> HIDE DEF r2
<1>4. CallInv(r2)
  BY <1>1, <1>2, <1>3 DEF CallInv, Known, OpeningPcs
<1> QED BY <1>2, <1>4 DEF r2

LEMMA RetryStep ==
    ASSUME CallsInv, NEW t \in Threads, Retry(t)
    PROVE  \E r2 : PathResult(t, r2)
<1>1. c[t].call.path \in Seq(Names) /\ c[t].call.new \in Seq(Names)
  BY DEF CallsInv, CallInv
<1>2. Set(t, Started(c[t].call, c[t].fit))
  BY DEF Retry, Started
<1> QED BY <1>1, <1>2, StartCall DEF PathResult, FilePcs

(* Of all the shared state only entries and inodes change, and entries hold   *)
(* ids.                                                                       *)
LEMMA EntryChange ==
    ASSUME EntriesInv, NEW k, NEW e, e.id \in Known, dent' = [dent EXCEPT ![k] = e]
    PROVE  EntriesInv'
BY DEF EntriesInv

LEMMA PathEntries ==
    ASSUME EntriesInv, CallsInv, NEW t \in Threads, PathStep(t)
    PROVE  EntriesInv'
<1>1. Entry(c[t].to).id \in Known /\ NoEntry.id \in Known
  BY DEF CallsInv, CallInv, IsPlace, Entry, NoEntry, Known
<1>2. CASE AddEntry(t)
  BY <1>1, <1>2, EntryChange DEF AddEntry
<1>3. CASE EraseEntry(t)
  BY <1>1, <1>3, EntryChange DEF EraseEntry
<1>4. CASE EraseOldEntry(t)
  BY <1>1, <1>4, EntryChange DEF EraseOldEntry
<1>5. CASE dent' = dent
  BY <1>5 DEF EntriesInv
<1>6. AddEntry(t) \/ EraseEntry(t) \/ EraseOldEntry(t) \/ dent' = dent
  BY DEF PathStep, LocateNode, GetInode, LogSetattr, SetMode, LocateNew, LogCreate,
         PutInode, AddCount, LocateGone, LogUnlink, DecLinks, SubCount, DeleteInode,
         LocateBoth, LocateAgain, LogRename, SubOldCount, LogLink, IncLinks, Retry
<1> QED BY <1>2, <1>3, <1>4, <1>5, <1>6

LEMMA PathStepResult ==
    ASSUME EntriesInv, CallsInv, NEW t \in Threads, PathStep(t)
    PROVE  \E r2 : PathResult(t, r2)
<1>1. \/ LocateNode(t) \/ GetInode(t) \/ LocateNew(t) \/ PutInode(t) \/ LocateGone(t)
      \/ DecLinks(t) \/ LocateBoth(t) \/ LocateAgain(t) \/ Retry(t)
      \/ LogSetattr(t) \/ SetMode(t) \/ LogCreate(t) \/ AddCount(t) \/ AddEntry(t)
      \/ LogUnlink(t) \/ SubCount(t) \/ EraseEntry(t) \/ DeleteInode(t)
      \/ LogRename(t) \/ SubOldCount(t) \/ EraseOldEntry(t) \/ LogLink(t) \/ IncLinks(t)
  BY DEF PathStep
<1> QED BY <1>1, LocateNodeStep, GetInodeStep, LocateNewStep, PutInodeStep, LocateGoneStep,
           DecLinksStep, LocateBothStep, LocateAgainStep, RetryStep, PlainSteps
(*---------------------------------------------------------------------------*)
(* Descriptors.                                                              *)

(* A pool as a set: taking the first number, and adding one at the end.       *)
LEMMA TailRange ==
    ASSUME NEW s \in Seq(Nat), s # <<>>, IsInjective(s)
    PROVE  /\ Tail(s) \in Seq(Nat) /\ IsInjective(Tail(s))
           /\ Head(s) \in Range(s) /\ Range(Tail(s)) = Range(s) \ {Head(s)}
<1> DEFINE n == Len(s)
           u == Tail(s)
<1>1. /\ n \in Nat \ {0} /\ DOMAIN s = 1 .. n
      /\ u \in Seq(Nat) /\ DOMAIN u = 1 .. n - 1 /\ Head(s) = s[1]
      /\ \A i \in 1 .. n - 1 : u[i] = s[i + 1]
  BY SMT, HeadTailProperties, LenProperties, EmptySeq
<1>2. \A i, j \in 1 .. n : s[i] = s[j] => i = j
  BY <1>1 DEF IsInjective
<1> HIDE DEF u, n
<1>3. IsInjective(u)
  BY SMT, <1>1, <1>2 DEF IsInjective
<1>4. Head(s) \in Range(s)
  BY SMT, <1>1 DEF Range
<1>5. ASSUME NEW x \in Range(u)
      PROVE  x \in Range(s) \ {Head(s)}
  <2>1. PICK i \in 1 .. n - 1 : x = s[i + 1]
    BY <1>1 DEF Range
  <2>2. i + 1 \in 1 .. n /\ i + 1 # 1 /\ 1 \in 1 .. n
    BY SMT, <1>1
  <2> QED BY <1>1, <1>2, <2>1, <2>2 DEF Range
<1>6. ASSUME NEW x \in Range(s) \ {Head(s)}
      PROVE  x \in Range(u)
  <2>1. PICK i \in 1 .. n : x = s[i]
    BY <1>1 DEF Range
  <2>2. i # 1
    BY <1>1, <2>1
  <2>3. i - 1 \in 1 .. n - 1 /\ (i - 1) + 1 = i
    BY SMT, <1>1, <2>2
  <2>4. u[i - 1] = x
    BY <1>1, <2>1, <2>3
  <2> QED BY <1>1, <2>3, <2>4 DEF Range
<1> QED BY <1>1, <1>3, <1>4, <1>5, <1>6 DEF u

LEMMA AppendRange ==
    ASSUME NEW s \in Seq(Nat), IsInjective(s), NEW e \in Nat, e \notin Range(s)
    PROVE  /\ Append(s, e) \in Seq(Nat) /\ IsInjective(Append(s, e))
           /\ Range(Append(s, e)) = Range(s) \cup {e}
<1> DEFINE n == Len(s)
           u == Append(s, e)
<1>1. /\ n \in Nat /\ DOMAIN s = 1 .. n
      /\ u \in Seq(Nat) /\ DOMAIN u = 1 .. n + 1 /\ u[n + 1] = e
      /\ \A i \in 1 .. n : u[i] = s[i]
  BY SMT, AppendProperties, LenProperties
<1>2. /\ \A i, j \in 1 .. n : s[i] = s[j] => i = j
      /\ \A i \in 1 .. n : s[i] # e
  BY <1>1 DEF IsInjective, Range
<1> HIDE DEF u, n
<1>3. \A i \in 1 .. n + 1 : i \in 1 .. n \/ i = n + 1
  BY SMT, <1>1
<1>4. IsInjective(u)
  BY <1>1, <1>2, <1>3 DEF IsInjective
<1>5. ASSUME NEW x \in Range(u)
      PROVE  x \in Range(s) \cup {e}
  BY <1>1, <1>3 DEF Range
<1>6. ASSUME NEW x \in Range(s) \cup {e}
      PROVE  x \in Range(u)
  <2>1. CASE x = e
    <3>1. n + 1 \in 1 .. n + 1
      BY SMT, <1>1
    <3> QED BY <1>1, <2>1, <3>1 DEF Range
  <2>2. CASE x \in Range(s)
    <3>1. PICK i \in 1 .. n : s[i] = x
      BY <1>1, <2>2 DEF Range
    <3>2. i \in 1 .. n + 1 /\ u[i] = x
      BY SMT, <1>1, <3>1
    <3> QED BY <1>1, <3>2 DEF Range
  <2> QED BY <2>1, <2>2
<1> QED BY <1>1, <1>4, <1>5, <1>6 DEF u

(* AllocateFd: the number is one that the map does not have.                  *)
LEMMA AllocateNumber ==
    ASSUME NEW map, NEW pool, NEW free, Manager(map, pool, free), NEW d
    PROVE  LET fd == IF pool = <<>> THEN free ELSE Head(pool)
           IN  /\ fd \notin DOMAIN map /\ fd # 0
               /\ Manager(Stored(map, fd, d), IF pool = <<>> THEN pool ELSE Tail(pool),
                          IF pool = <<>> THEN free + 1 ELSE free)
<1> DEFINE fd == IF pool = <<>> THEN free ELSE Head(pool)
           map2 == Stored(map, fd, d)
<1>1. DOMAIN map2 = DOMAIN map \cup {fd}
  BY DEF Stored
<1> HIDE DEF map2
<1>2. /\ free \in Nat \ {0} /\ DOMAIN map \cup Range(pool) = 1 .. free - 1
      /\ DOMAIN map \cap Range(pool) = {} /\ pool \in Seq(Nat) /\ IsInjective(pool)
  BY DEF Manager
<1>3. CASE pool = <<>>
  <2>1. Range(pool) = {} /\ fd = free
    BY SMT, <1>3 DEF Range
  <2>2. DOMAIN map = 1 .. free - 1
    BY <1>2, <2>1
  <2>3. /\ free \notin 1 .. free - 1 /\ 1 .. (free + 1) - 1 = (1 .. free - 1) \cup {free}
        /\ free + 1 \in Nat \ {0} /\ free # 0
    BY SMT, <1>2
  <2>4. DOMAIN map2 \cup Range(pool) = 1 .. (free + 1) - 1
    BY <1>1, <2>1, <2>2, <2>3
  <2>5. Manager(map2, pool, free + 1)
    BY <1>2, <2>1, <2>3, <2>4 DEF Manager
  <2> QED BY <1>3, <2>1, <2>2, <2>3, <2>5 DEF map2
<1>4. CASE pool # <<>>
  <2>1. /\ Tail(pool) \in Seq(Nat) /\ IsInjective(Tail(pool))
        /\ Head(pool) \in Range(pool) /\ Range(Tail(pool)) = Range(pool) \ {Head(pool)}
    BY <1>2, <1>4, TailRange
  <2>2. fd = Head(pool)
    BY <1>4
  <2>3. fd \notin DOMAIN map /\ fd \in 1 .. free - 1
    BY <1>2, <2>1, <2>2
  <2>4. fd # 0
    BY SMT, <2>3
  <2> HIDE DEF fd
  <2>5. /\ DOMAIN map2 \cup Range(Tail(pool)) = 1 .. free - 1
        /\ DOMAIN map2 \cap Range(Tail(pool)) = {}
    BY <1>1, <1>2, <2>1, <2>2, <2>3
  <2>6. Manager(map2, Tail(pool), free)
    BY <1>2, <2>1, <2>5 DEF Manager
  <2> QED BY <1>4, <2>3, <2>4, <2>6 DEF fd, map2
<1> QED BY <1>3, <1>4

(* ReleaseFd: the number is the next to be handed out, or in the pool.        *)
LEMMA ReleaseNumber ==
    ASSUME NEW map, NEW pool, NEW free, Manager(map, pool, free), NEW fd \in DOMAIN map
    PROVE  IF fd = free - 1 THEN Manager(Erased(map, fd), pool, free - 1)
                            ELSE Manager(Erased(map, fd), Append(pool, fd), free)
<1> DEFINE map2 == Erased(map, fd)
<1>1. DOMAIN map2 = DOMAIN map \ {fd}
  BY DEF Erased
<1> HIDE DEF map2
<1>2. /\ free \in Nat \ {0} /\ DOMAIN map \cup Range(pool) = 1 .. free - 1
      /\ DOMAIN map \cap Range(pool) = {} /\ pool \in Seq(Nat) /\ IsInjective(pool)
  BY DEF Manager
<1>3. fd \in 1 .. free - 1 /\ fd \notin Range(pool)
  BY <1>2
<1>4. CASE fd = free - 1
  <2>1. free - 1 \in Nat \ {0} /\ 1 .. (free - 1) - 1 = (1 .. free - 1) \ {fd}
    BY SMT, <1>2, <1>3, <1>4
  <2>2. DOMAIN map2 \cup Range(pool) = 1 .. (free - 1) - 1 /\ DOMAIN map2 \cap Range(pool) = {}
    BY <1>1, <1>2, <1>3, <2>1
  <2>3. Manager(map2, pool, free - 1)
    BY <1>2, <2>1, <2>2 DEF Manager
  <2> QED BY <1>4, <2>3 DEF map2
<1>5. CASE fd # free - 1
  <2>1. fd \in Nat
    BY SMT, <1>2, <1>3
  <2>2. /\ Append(pool, fd) \in Seq(Nat) /\ IsInjective(Append(pool, fd))
        /\ Range(Append(pool, fd)) = Range(pool) \cup {fd}
    BY <1>2, <1>3, <2>1, AppendRange
  <2>3. /\ DOMAIN map2 \cup Range(Append(pool, fd)) = 1 .. free - 1
        /\ DOMAIN map2 \cap Range(Append(pool, fd)) = {}
    BY <1>1, <1>2, <1>3, <2>2
  <2>4. Manager(map2, Append(pool, fd), free)
    BY <1>2, <2>2, <2>3 DEF Manager
  <2> QED BY <1>5, <2>4 DEF map2
<1> QED BY <1>4, <1>5
=============================================================================
