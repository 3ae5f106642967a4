---------------------------- MODULE StartupProofs ----------------------------
(***************************************************************************)
(* The inductive invariant of the servers' start-up, for every number of   *)
(* servers and of RPC threads, under the assumption (Paced) that the       *)
(* sleeps of server_main.cc outlast what they wait for.                    *)
(***************************************************************************)
EXTENDS Startup, TLAPS

(* Leaves are Zenon's unless they name SMT.                                   *)
USE ZenonT(30)

Frames == [pc : {"new", "turn", "connect", "local", "call", "serve"},
           i : Int, j : Int, n : Int, flag : BOOLEAN]
Kinds == {"session", "meta", "guardian"}
Messages == [kind : Kinds, s : Metas, r : Rpcs, n : Int]

Up(s) == main[s] = "up"
ServeFrame == Frame("serve", 0, 0)

MainPcs == {"off", "header", "window", "ssd", "finish", "barrier", "table", "block",
            "setmds", "pause", "up"}

StartTypes ==
    /\ main \in [Metas -> MainPcs]
    /\ dev \in [pool : BOOLEAN, counts : Int, ssd : BOOLEAN, finish : SUBSET Metas,
                table : BOOLEAN, blocks : SUBSET Metas]
    /\ peers \in [Metas -> [total : Int, n : Int, known : SUBSET Int]]
    /\ thr \in [Metas -> [Rpcs -> Seq(Frames)]]
    /\ inbox \in [Metas -> [Rpcs -> SUBSET Messages]]
    /\ sess \in [Metas -> [Rpcs -> SUBSET (Metas \X Rpcs)]]
    /\ \A s \in Metas, r \in Rpcs : \A p \in sess[s][r] : p[1] # s

(* What the main thread has behind it.                                        *)
MainInv ==
    \A s \in Metas :
        /\ main[s] \notin {"off", "header", "window"} => peers[s].total = NumMetas
        /\ main[s] \in {"setmds", "pause", "up"} => 0 .. s \subseteq dev.blocks
        /\ main[s] \in {"pause", "up"} => /\ peers[s].n \in s + 1 .. NumMetas
                                          /\ peers[s].known = 0 .. peers[s].n - 1
        /\ Up(s) => \A i \in 0 .. s - 1 : Up(i)

(* The frame of a server on its way up, at the bottom of a thread's stack.    *)
Joining(s, r, f) ==
    /\ f.n = 0
    /\ f.pc \in {"turn", "connect", "local", "call"} => f.i \in 0 .. s - 1 /\ f.j \in Rpcs
    /\ f.pc = "local" => r = 0 /\ ~f.flag
    /\ r = 0 /\ f.pc \in {"local", "call"} => f.j = 0
    /\ f.pc = "serve" => f = ServeFrame

(* The frame of a handler that connects back to the last server that came up. *)
Back(s, f) ==
    /\ f.pc \in {"turn", "connect"} /\ f.n = f.i + 1 /\ f.j \in Rpcs
    /\ f.i \in Metas /\ f.i > s /\ Up(f.i)
    /\ \A k \in Metas : Up(k) => k <= f.i

(* A server begins only when the ones below it serve: its threads have one    *)
(* frame until it serves too, and those of the others at most a handler's     *)
(* frame on top of their event loop.                                          *)
ThreadInv ==
    \A s \in Metas, r \in Rpcs :
        /\ ~Up(s) => thr[s][r] = <<>>
        /\ Up(s) => Len(thr[s][r]) \in {1, 2} /\ Joining(s, r, thr[s][r][1])
        /\ Len(thr[s][r]) = 2 => Back(s, thr[s][r][2])
        /\ \A k \in Metas : s < k /\ Up(k) => thr[s][r][1] = ServeFrame

(* A message that waits is one whose sender still waits for its effect.       *)
Awaited(i, r, m) ==
    LET f == Top(thr[m.s][m.r])
    IN  /\ Up(m.s)
        /\ f.i = i /\ ~f.flag /\ Remote(m.r, f) = r
        /\ m.kind = "session" => f.pc = "connect" /\ m.n = 0
        /\ m.kind # "session" => f.pc = "call" /\ m.n = m.s + 1
        /\ m.kind = "guardian" => m.r = 0
        /\ m.kind = "meta" => m.r # 0

MessageInv == \A i \in Metas, r \in Rpcs : \A m \in inbox[i][r] : Awaited(i, r, m)

Busy(f) == f.pc \in {"turn", "connect", "local", "call"}

(* Thread r of server s is done with server i below it, or has its answer.    *)
Passed(f, i) ==
    \/ f.pc = "serve"
    \/ Busy(f) /\ i < f.i
    \/ f.pc = "call" /\ f.i = i /\ f.flag

(* Thread r of server s has created its sessions with server i.               *)
Reached(f, i) ==
    \/ f.pc = "serve"
    \/ Busy(f) /\ i < f.i
    \/ f.pc \in {"local", "call"} /\ f.i = i

ConnectedTo(s, r, i) ==
    IF r = 0 THEN \A j \in Rpcs : <<i, j>> \in sess[s][0] ELSE <<i, r>> \in sess[s][r]

(* The servers below know of a server and connect back to it.                 *)
PassedInv ==
    \A s \in Metas, r \in Rpcs : Up(s) => \A i \in 0 .. s - 1 :
        Passed(thr[s][r][1], i) =>
            /\ r = 0 => peers[i].n >= s + 1
            /\ \/ Len(thr[i][r]) = 2 /\ thr[i][r][2].i = s
               \/ ConnectedTo(i, r, s)

BackInv ==
    \A s \in Metas, r \in Rpcs : Len(thr[s][r]) = 2 =>
        /\ Passed(thr[thr[s][r][2].i][r][1], s)
        /\ r = 0 => \A j \in 0 .. thr[s][r][2].j - 1 : <<thr[s][r][2].i, j>> \in sess[s][0]

(* A server has its sessions with the servers it is done with.                *)
ReachedInv ==
    \A s \in Metas, r \in Rpcs : Up(s) => \A i \in 0 .. s - 1 :
        /\ Reached(thr[s][r][1], i) => ConnectedTo(s, r, i)
        /\ r = 0 /\ thr[s][r][1].pc \in {"turn", "connect"} /\ thr[s][r][1].i = i =>
              \A j \in 0 .. thr[s][r][1].j - 1 : <<i, j>> \in sess[s][0]

StartInv ==
    /\ StartTypes /\ MainInv /\ ThreadInv /\ MessageInv
    /\ PassedInv /\ BackInv /\ ReachedInv

(*---------------------------------------------------------------------------*)
(* Stacks of one or two frames.                                               *)

LEMMA Appended ==
    ASSUME NEW q \in Seq(Frames), NEW f \in Frames
    PROVE  /\ Append(q, f) \in Seq(Frames) /\ Len(Append(q, f)) = Len(q) + 1
           /\ \A i \in 1 .. Len(q) : Append(q, f)[i] = q[i]
           /\ Append(q, f)[Len(q) + 1] = f
BY SMT

LEMMA OneLess ==
    ASSUME NEW q \in Seq(Frames), NEW n \in Nat, n + 1 = Len(q)
    PROVE  /\ Below(q) \in Seq(Frames) /\ Len(Below(q)) = n
           /\ \A i \in 1 .. n : Below(q)[i] = q[i]
<1>1. n = Len(q) - 1 /\ n <= Len(q)
  BY SMT
<1>2. \A k \in Nat : k <= Len(q) =>
         /\ SubSeq(q, 1, k) \in Seq(Frames) /\ Len(SubSeq(q, 1, k)) = k
         /\ \A i \in 1 .. k : SubSeq(q, 1, k)[i] = q[i]
  BY SMT
<1> QED
  BY <1>1, <1>2 DEF Below

(* Put replaces the frame a thread is in.                                     *)
LEMMA StackPut ==
    ASSUME NEW q \in Seq(Frames), NEW f \in Frames, Len(q) \in {1, 2}
    PROVE  /\ Append(Below(q), f) \in Seq(Frames)
           /\ Len(Append(Below(q), f)) = Len(q)
           /\ Top(Append(Below(q), f)) = f
           /\ Len(q) = 1 => Top(q) = q[1] /\ Append(Below(q), f)[1] = f
           /\ Len(q) = 2 => /\ Top(q) = q[2] /\ Append(Below(q), f)[1] = q[1]
                            /\ Append(Below(q), f)[2] = f
<1>1. PICK n \in {0, 1} : n + 1 = Len(q)
  BY SMT
<1>2. PICK b \in Seq(Frames) : b = Below(q) /\ Len(b) = n /\ \A i \in 1 .. n : b[i] = q[i]
  BY SMT, <1>1, OneLess
<1>3. /\ Append(b, f) \in Seq(Frames) /\ Len(Append(b, f)) = n + 1
      /\ \A i \in 1 .. n : Append(b, f)[i] = q[i]
      /\ Append(b, f)[n + 1] = f
  BY <1>2, Appended
<1> QED
  BY SMT, <1>1, <1>2, <1>3 DEF Top

(* Calling a handler and returning from it.                                   *)
LEMMA StackPush ==
    ASSUME NEW q \in Seq(Frames), NEW f \in Frames
    PROVE  Len(q) = 1 =>
              /\ Append(q, f) \in Seq(Frames)
              /\ Len(Append(q, f)) = 2
              /\ Append(q, f)[1] = q[1] /\ Append(q, f)[2] = f
<1>1. /\ Append(q, f) \in Seq(Frames) /\ Len(Append(q, f)) = Len(q) + 1
      /\ \A i \in 1 .. Len(q) : Append(q, f)[i] = q[i]
      /\ Append(q, f)[Len(q) + 1] = f
  BY Appended
<1> QED
  BY SMT, <1>1

LEMMA StackPop ==
    ASSUME NEW q \in Seq(Frames)
    PROVE  Len(q) = 2 =>
              /\ Below(q) \in Seq(Frames)
              /\ Len(Below(q)) = 1
              /\ Below(q)[1] = q[1]
<1>1. \A n \in Nat : n + 1 = Len(q) => /\ Below(q) \in Seq(Frames) /\ Len(Below(q)) = n
                                      /\ \A i \in 1 .. n : Below(q)[i] = q[i]
  BY OneLess
<1>2. 1 + 1 = Len(q) => /\ Below(q) \in Seq(Frames) /\ Len(Below(q)) = 1
                        /\ \A i \in 1 .. 1 : Below(q)[i] = q[i]
  BY <1>1
<1> QED
  BY SMT, <1>2

(* An event loop thread talks to the thread of the same number.               *)
LEMMA RemoteSelf ==
    ASSUME NEW r \in Rpcs, NEW f \in Frames
    PROVE  /\ Remote(r, f) = IF r = 0 THEN f.j ELSE r
           /\ f.j \in Rpcs => Remote(r, f) \in Rpcs
<1>1. r # 0 => (r - 1) \in 0 .. (RpcNum - 1) - 1 /\ RpcNum - 1 \in Nat \ {0}
  BY SMT, StartupAssumption DEF Rpcs
<1>2. \A x \in Nat, b \in Nat \ {0} : x < b => x % b = x
  BY SMT
<1>3. r # 0 => (r - 1) % (RpcNum - 1) = r - 1
  BY SMT, <1>1, <1>2
<1> QED
  BY SMT, <1>3, StartupAssumption DEF Remote, Rpcs

(* A thread that has a frame belongs to a server that is up; the frame it is  *)
(* in is the server's own or a handler's on top of the event loop.            *)
LEMMA TopFrame ==
    ASSUME StartTypes, ThreadInv, NEW s \in Metas, NEW r \in Rpcs, thr[s][r] # <<>>
    PROVE  /\ Up(s) /\ thr[s][r] \in Seq(Frames) /\ Top(thr[s][r]) \in Frames
           /\ thr[s][r][1] \in Frames
           /\ \/ /\ Len(thr[s][r]) = 1 /\ Top(thr[s][r]) = thr[s][r][1]
                 /\ Joining(s, r, Top(thr[s][r]))
              \/ /\ Len(thr[s][r]) = 2 /\ Top(thr[s][r]) = thr[s][r][2]
                 /\ Back(s, Top(thr[s][r])) /\ thr[s][r][1] = ServeFrame
<1>1. thr[s][r] \in Seq(Frames) /\ Up(s) /\ Len(thr[s][r]) \in {1, 2}
  BY SMT DEF StartTypes, ThreadInv
<1>2. Top(thr[s][r]) \in Frames /\ thr[s][r][1] \in Frames
  BY SMT, <1>1 DEF Top
<1>3. CASE Len(thr[s][r]) = 1
  BY <1>1, <1>2, <1>3 DEF ThreadInv, Top
<1>4. CASE Len(thr[s][r]) = 2
  <2>1. Back(s, thr[s][r][2]) /\ Top(thr[s][r]) = thr[s][r][2]
    BY <1>1, <1>4 DEF ThreadInv, Top
  <2>2. thr[s][r][1] = ServeFrame
    BY <2>1 DEF ThreadInv, Back, Metas
  <2> QED
    BY <1>1, <1>2, <1>4, <2>1, <2>2
<1> QED
  BY <1>1, <1>3, <1>4

(* Who sends a message, and what it says.                                     *)
LEMMA MessageType ==
    ASSUME StartTypes, NEW i \in Metas, NEW r \in Rpcs, NEW m \in inbox[i][r]
    PROVE  /\ m \in Messages /\ m.s \in Metas /\ m.r \in Rpcs
           /\ m.kind \in Kinds /\ m.n \in Int
<1>1. m \in Messages
  BY SMT DEF StartTypes
<1> QED
  BY <1>1 DEF Messages

(*---------------------------------------------------------------------------*)
(* The first state and the last.                                              *)

(* No server is up.                                                           *)
LEMMA StartInvInit == StartInit => StartInv
<1> SUFFICES ASSUME StartInit PROVE StartInv
  OBVIOUS
<1>1. StartTypes
  <2>1. <<>> \in Seq(Frames)
    BY SMT
  <2>2. main \in [Metas -> MainPcs]
    BY DEF StartInit, MainPcs
  <2>3. dev \in [pool : BOOLEAN, counts : Int, ssd : BOOLEAN, finish : SUBSET Metas,
                 table : BOOLEAN, blocks : SUBSET Metas]
    BY SMT DEF StartInit
  <2>4. peers \in [Metas -> [total : Int, n : Int, known : SUBSET Int]]
    BY SMT DEF StartInit, Metas
  <2>5. thr \in [Metas -> [Rpcs -> Seq(Frames)]]
    BY <2>1 DEF StartInit
  <2> QED
    BY <2>2, <2>3, <2>4, <2>5 DEF StartTypes, StartInit
<1>2. \A s \in Metas : ~Up(s)
  BY DEF StartInit, Up
<1>3. MainInv
  BY <1>2 DEF StartInit, MainInv, Up
<1>4. \A s \in Metas, r \in Rpcs : thr[s][r] = <<>> /\ Len(thr[s][r]) = 0 /\ inbox[s][r] = {}
  BY DEF StartInit
<1>5. ThreadInv /\ MessageInv /\ PassedInv /\ BackInv /\ ReachedInv
  BY SMT, <1>2, <1>4 DEF ThreadInv, MessageInv, PassedInv, BackInv, ReachedInv
<1> QED
  BY <1>1, <1>3, <1>5 DEF StartInv

LEMMA StartInvUnchanged == StartInv /\ UNCHANGED startVars => StartInv'
<1> SUFFICES ASSUME StartInv, UNCHANGED startVars PROVE StartInv'
  OBVIOUS
<1>1. UNCHANGED <<main, dev, peers, thr, inbox, sess>>
  BY DEF startVars
<1>2. StartTypes' /\ MainInv' /\ ThreadInv' /\ BackInv'
  BY SMT, <1>1 DEF StartInv, StartTypes, MainInv, ThreadInv, BackInv, Up, Back
<1>3. MessageInv'
  BY SMT, <1>1 DEF StartInv, MessageInv, Awaited, Up, Remote
<1>4. PassedInv' /\ ReachedInv'
  BY SMT, <1>1 DEF StartInv, PassedInv, ReachedInv, Up, ConnectedTo
<1> QED
  BY <1>2, <1>3, <1>4 DEF StartInv

(* Once all serve, every thread of a server has passed the servers below it,  *)
(* and those have connected back.                                             *)
LEMMA ServingKnows == StartInv => ServersKnowEachOther
<1> SUFFICES ASSUME StartInv, AllServing, NEW s \in Metas
             PROVE  /\ peers[s].known = Metas /\ peers[s].total = NumMetas
                    /\ sess[s][0] = (Metas \ {s}) \X Rpcs
                    /\ \A r \in Rpcs \ {0}, i \in Metas \ {s} :
                          \E p \in sess[s][r] : p[1] = i /\ p[2] # 0
  BY DEF ServersKnowEachOther
<1>1. \A k \in Metas : Up(k) /\ \A r \in Rpcs : thr[k][r] = <<ServeFrame>>
  BY DEF AllServing, Serving, Up, ServeFrame
<1>2. \A k \in Metas, r \in Rpcs : Len(thr[k][r]) = 1 /\ thr[k][r][1] = ServeFrame
  BY SMT, <1>1
<1>3. ServeFrame.pc = "serve"
  BY DEF ServeFrame, Frame
<1>4. \A k \in Metas, r \in Rpcs, i \in Metas : i < k => ConnectedTo(k, r, i)
  <2>1. \A k \in Metas, i \in Metas : i < k => i \in 0 .. k - 1
    BY SMT DEF Metas
  <2> QED
    BY <1>1, <1>2, <1>3, <2>1 DEF StartInv, ReachedInv, Reached
<1>5. \A k \in Metas, r \in Rpcs, i \in Metas : i < k =>
         ConnectedTo(i, r, k) /\ (r = 0 => peers[i].n >= k + 1)
  <2>1. \A k \in Metas, i \in Metas : i < k => i \in 0 .. k - 1
    BY SMT DEF Metas
  <2> QED
    BY SMT, <1>1, <1>2, <1>3, <2>1 DEF StartInv, PassedInv, Passed
<1>6. \A r \in Rpcs, i \in Metas \ {s} : ConnectedTo(s, r, i)
  <2>1. \A i \in Metas \ {s} : i < s \/ s < i
    BY SMT DEF Metas
  <2> QED
    BY <1>4, <1>5, <2>1
<1>7. peers[s].total = NumMetas /\ peers[s].n \in s + 1 .. NumMetas
      /\ peers[s].known = 0 .. peers[s].n - 1
  BY <1>1 DEF StartInv, MainInv, Up
<1>8. peers[s].n = NumMetas
  <2>1. NumMetas - 1 \in Metas /\ 0 \in Rpcs
    BY SMT, StartupAssumption DEF Metas, Rpcs
  <2>2. CASE s < NumMetas - 1
    <3>1. peers[s].n >= (NumMetas - 1) + 1
      BY <1>5, <2>1, <2>2
    <3> QED
      BY SMT, <1>7, <3>1, StartupAssumption
  <2>3. CASE ~(s < NumMetas - 1)
    BY SMT, <1>7, <2>3, StartupAssumption DEF Metas
  <2> QED
    BY <2>2, <2>3
<1>9. peers[s].known = Metas
  BY <1>7, <1>8 DEF Metas
<1>10. sess[s][0] = (Metas \ {s}) \X Rpcs
  <2>1. sess[s][0] \subseteq Metas \X Rpcs /\ \A p \in sess[s][0] : p[1] # s
    BY SMT, StartupAssumption DEF StartInv, StartTypes, Rpcs
  <2>2. \A i \in Metas \ {s}, j \in Rpcs : <<i, j>> \in sess[s][0]
    <3>1. 0 \in Rpcs
      BY SMT, StartupAssumption DEF Rpcs
    <3>2. \A i \in Metas \ {s} : ConnectedTo(s, 0, i)
      BY <1>6, <3>1
    <3> QED
      BY <3>2 DEF ConnectedTo
  <2>3. ASSUME NEW p \in sess[s][0] PROVE p \in (Metas \ {s}) \X Rpcs
    <3>1. p \in Metas \X Rpcs /\ p[1] # s
      BY <2>1
    <3> QED
      BY <3>1
  <2>4. ASSUME NEW p \in (Metas \ {s}) \X Rpcs PROVE p \in sess[s][0]
    <3>1. PICK i \in Metas \ {s}, j \in Rpcs : p = <<i, j>>
      BY SMT
    <3> QED
      BY <2>2, <3>1
  <2> QED
    BY <2>3, <2>4
<1>11. ASSUME NEW r \in Rpcs \ {0}, NEW i \in Metas \ {s}
       PROVE  \E p \in sess[s][r] : p[1] = i /\ p[2] # 0
  BY <1>6, <1>11 DEF ConnectedTo
<1> QED
  BY <1>7, <1>9, <1>10, <1>11

(*---------------------------------------------------------------------------*)
(* The main threads.                                                          *)

ThreadPart == ThreadInv /\ MessageInv /\ PassedInv /\ BackInv /\ ReachedInv

DevType == [pool : BOOLEAN, counts : Int, ssd : BOOLEAN, finish : SUBSET Metas,
            table : BOOLEAN, blocks : SUBSET Metas]
PeerType == [total : Int, n : Int, known : SUBSET Int]

(* What MainInv says of one server.                                           *)
MainFacts(s, pc, p, up) ==
    /\ pc \notin {"off", "header", "window"} => p.total = NumMetas
    /\ pc \in {"setmds", "pause", "up"} => 0 .. s \subseteq up
    /\ pc \in {"pause", "up"} => p.n \in s + 1 .. NumMetas /\ p.known = 0 .. p.n - 1

(* CXLDevice::Init, InitHashtable, Metadata::Init and the start of the        *)
(* threads, when the sleeps before a step outlast what they wait for.         *)
LEMMA MainStepKeeps ==
    Paced = TRUE => \A s \in Metas : StartInv /\ MainStep(s) => StartInv'

(* Until a server's threads start, nothing its main thread does matters to    *)
(* the threads.                                                               *)
<1>QuietThreads.
        ASSUME StartTypes, MainInv, ThreadPart, UNCHANGED <<thr, inbox, sess>>,
               \A s \in Metas : Up(s)' = Up(s) /\ (Up(s) => peers'[s] = peers[s])
        PROVE  ThreadPart'
  <2>1. ThreadInv'
    BY SMT, <1>QuietThreads DEF ThreadPart, ThreadInv, Joining, Back
  <2>2. MessageInv'
    <3>1. ASSUME NEW i \in Metas, NEW r \in Rpcs, NEW m \in inbox[i][r]
          PROVE  Awaited(i, r, m)'
      <4>1. Awaited(i, r, m)
        BY <1>QuietThreads DEF ThreadPart, MessageInv
      <4> QED
        BY <1>QuietThreads, <4>1, MessageType DEF Awaited, Remote
    <3> QED
      BY <1>QuietThreads, <3>1 DEF MessageInv
  <2>3. \A s \in Metas : Up(s) => \A i \in 0 .. s - 1 : Up(i) /\ i \in Metas
    BY SMT, <1>QuietThreads, StartupAssumption DEF MainInv, Metas
  <2>4. PassedInv'
    <3>1. ASSUME NEW s \in Metas, NEW r \in Rpcs, Up(s), NEW i \in 0 .. s - 1,
                 Passed(thr[s][r][1], i)
          PROVE  /\ r = 0 => peers'[i].n >= s + 1
                 /\ \/ Len(thr[i][r]) = 2 /\ thr[i][r][2].i = s
                    \/ ConnectedTo(i, r, s)
      BY <1>QuietThreads, <2>3, <3>1 DEF ThreadPart, PassedInv
    <3> QED
      BY SMT, <1>QuietThreads, <3>1 DEF PassedInv, ConnectedTo, Passed, Busy
  <2>5. BackInv'
    BY <1>QuietThreads DEF ThreadPart, BackInv
  <2>6. ReachedInv'
    BY SMT, <1>QuietThreads DEF ThreadPart, ReachedInv, ConnectedTo
  <2> QED
    BY <2>1, <2>2, <2>4, <2>5, <2>6 DEF ThreadPart

(* A step of the main thread before it starts the others.                     *)
<1>MainStep1.
        ASSUME StartInv, NEW s \in Metas, NEW pc \in MainPcs,
               main[s] # "up", pc # "up", Goto(s, pc),
               dev' \in DevType, dev.blocks \subseteq dev'.blocks,
               peers' \in [Metas -> PeerType],
               \A i \in Metas \ {s} : peers'[i] = peers[i],
               MainFacts(s, pc, peers'[s], dev'.blocks),
               UNCHANGED <<thr, inbox, sess>>
        PROVE  StartInv'
  <2>1. /\ main' \in [Metas -> MainPcs] /\ main'[s] = pc
        /\ \A i \in Metas \ {s} : main'[i] = main[i]
    BY <1>MainStep1 DEF StartInv, StartTypes, Goto
  <2>2. StartTypes'
    BY <1>MainStep1, <2>1 DEF StartInv, StartTypes, DevType, PeerType
  <2>3. \A i \in Metas : Up(i)' = Up(i) /\ (Up(i) => peers'[i] = peers[i])
    BY <1>MainStep1, <2>1 DEF Up
  <2>4. ThreadPart'
    BY <1>MainStep1, <2>3, <1>QuietThreads DEF StartInv, ThreadPart
  <2>5. ASSUME NEW i \in Metas \ {s}
        PROVE  MainFacts(i, main'[i], peers'[i], dev'.blocks)
    BY <1>MainStep1, <2>1, <2>5 DEF StartInv, MainInv, MainFacts
  <2>6. \A i \in Metas : Up(i) => \A k \in 0 .. i - 1 : Up(k) /\ k \in Metas
    BY SMT, <1>MainStep1, StartupAssumption DEF StartInv, MainInv, Metas
  <2>7. MainInv'
    <3>1. \A i \in Metas : MainFacts(i, main'[i], peers'[i], dev'.blocks)
      BY <1>MainStep1, <2>1, <2>5
    <3> QED
      BY <2>3, <2>6, <3>1 DEF MainInv, MainFacts
  <2> QED
    BY <2>2, <2>4, <2>7 DEF StartInv, ThreadPart

(* CXLDevice::Init, InitHashtable and Metadata::Init, one step each.          *)
<1>LaunchStep.
        ASSUME StartInv, Paced = TRUE, NEW s \in Metas, Launch(s)
        PROVE  StartInv'
  <2> DEFINE to == "header"
  <2>1. /\ to \in MainPcs /\ to # "up" /\ main[s] # "up"
        /\ Goto(s, to) /\ UNCHANGED <<thr, inbox, sess>>
    BY <1>LaunchStep DEF Launch, At, MainPcs
  <2>2. dev' \in DevType /\ dev.blocks \subseteq dev'.blocks
    BY <1>LaunchStep DEF Launch, StartInv, StartTypes, DevType
  <2>3. peers' \in [Metas -> PeerType] /\ \A i \in Metas \ {s} : peers'[i] = peers[i]
    BY <1>LaunchStep DEF Launch, StartInv, StartTypes, PeerType
  <2>4. MainFacts(s, to, peers'[s], dev'.blocks)
    BY DEF Launch, At, StartInv, StartTypes, MainInv, MainFacts
  <2> HIDE DEF to
  <2> QED
    BY <1>LaunchStep, <2>1, <2>2, <2>3, <2>4, <1>MainStep1

<1>AttachPoolStep.
        ASSUME StartInv, Paced = TRUE, NEW s \in Metas, AttachPool(s)
        PROVE  StartInv'
  <2> DEFINE to == "window"
  <2>1. /\ to \in MainPcs /\ to # "up" /\ main[s] # "up"
        /\ Goto(s, to) /\ UNCHANGED <<thr, inbox, sess>>
    BY <1>AttachPoolStep DEF AttachPool, At, MainPcs
  <2>2. dev' \in DevType /\ dev.blocks \subseteq dev'.blocks
    <3>1. dev \in DevType /\ dev.counts + 1 \in Int
      BY SMT, <1>AttachPoolStep DEF StartInv, StartTypes, DevType
    <3>2. dev' = [dev EXCEPT !.pool = TRUE, !.counts = dev.counts + 1]
      BY <1>AttachPoolStep DEF AttachPool
    <3> QED
      BY <3>1, <3>2 DEF DevType
  <2>3. peers' \in [Metas -> PeerType] /\ \A i \in Metas \ {s} : peers'[i] = peers[i]
    BY <1>AttachPoolStep DEF AttachPool, StartInv, StartTypes, PeerType
  <2>4. MainFacts(s, to, peers'[s], dev'.blocks)
    BY DEF AttachPool, At, StartInv, StartTypes, MainInv, MainFacts
  <2> HIDE DEF to
  <2> QED
    BY <1>AttachPoolStep, <2>1, <2>2, <2>3, <2>4, <1>MainStep1

<1>CloseWindowStep.
        ASSUME StartInv, Paced = TRUE, NEW s \in Metas, CloseWindow(s)
        PROVE  StartInv'
  <2> DEFINE to == "ssd"
  <2>1. /\ to \in MainPcs /\ to # "up" /\ main[s] # "up"
        /\ Goto(s, to) /\ UNCHANGED <<thr, inbox, sess>>
    BY <1>CloseWindowStep DEF CloseWindow, At, MainPcs
  <2>2. dev' \in DevType /\ dev.blocks \subseteq dev'.blocks
    BY <1>CloseWindowStep DEF CloseWindow, StartInv, StartTypes, DevType
  <2>3. peers' \in [Metas -> PeerType] /\ \A i \in Metas \ {s} : peers'[i] = peers[i]
    BY <1>CloseWindowStep DEF CloseWindow, StartInv, StartTypes, PeerType
  <2>4. MainFacts(s, to, peers'[s], dev'.blocks)
    BY SMT, <1>CloseWindowStep DEF CloseWindow, At, StartInv, StartTypes, MainInv, MainFacts, Waits
  <2> HIDE DEF to
  <2> QED
    BY <1>CloseWindowStep, <2>1, <2>2, <2>3, <2>4, <1>MainStep1

<1>AttachSsdStep.
        ASSUME StartInv, Paced = TRUE, NEW s \in Metas, AttachSsd(s)
        PROVE  StartInv'
  <2> DEFINE to == "finish"
  <2>1. /\ to \in MainPcs /\ to # "up" /\ main[s] # "up"
        /\ Goto(s, to) /\ UNCHANGED <<thr, inbox, sess>>
    BY <1>AttachSsdStep DEF AttachSsd, At, MainPcs
  <2>2. dev' \in DevType /\ dev.blocks \subseteq dev'.blocks
    BY <1>AttachSsdStep DEF AttachSsd, StartInv, StartTypes, DevType
  <2>3. peers' \in [Metas -> PeerType] /\ \A i \in Metas \ {s} : peers'[i] = peers[i]
    BY <1>AttachSsdStep DEF AttachSsd, StartInv, StartTypes, PeerType
  <2>4. MainFacts(s, to, peers'[s], dev'.blocks)
    BY <1>AttachSsdStep DEF AttachSsd, At, StartInv, StartTypes, MainInv, MainFacts
  <2> HIDE DEF to
  <2> QED
    BY <1>AttachSsdStep, <2>1, <2>2, <2>3, <2>4, <1>MainStep1

<1>FinishDeviceStep.
        ASSUME StartInv, Paced = TRUE, NEW s \in Metas, FinishDevice(s)
        PROVE  StartInv'
  <2> DEFINE to == "barrier"
  <2>1. /\ to \in MainPcs /\ to # "up" /\ main[s] # "up"
        /\ Goto(s, to) /\ UNCHANGED <<thr, inbox, sess>>
    BY <1>FinishDeviceStep DEF FinishDevice, At, MainPcs
  <2>2. dev' \in DevType /\ dev.blocks \subseteq dev'.blocks
    BY <1>FinishDeviceStep DEF FinishDevice, StartInv, StartTypes, DevType
  <2>3. peers' \in [Metas -> PeerType] /\ \A i \in Metas \ {s} : peers'[i] = peers[i]
    BY <1>FinishDeviceStep DEF FinishDevice, StartInv, StartTypes, PeerType
  <2>4. MainFacts(s, to, peers'[s], dev'.blocks)
    BY <1>FinishDeviceStep DEF FinishDevice, At, StartInv, StartTypes, MainInv, MainFacts
  <2> HIDE DEF to
  <2> QED
    BY <1>FinishDeviceStep, <2>1, <2>2, <2>3, <2>4, <1>MainStep1

<1>PassBarrierStep.
        ASSUME StartInv, Paced = TRUE, NEW s \in Metas, PassBarrier(s)
        PROVE  StartInv'
  <2> DEFINE to == "table"
  <2>1. /\ to \in MainPcs /\ to # "up" /\ main[s] # "up"
        /\ Goto(s, to) /\ UNCHANGED <<thr, inbox, sess>>
    BY <1>PassBarrierStep DEF PassBarrier, At, MainPcs
  <2>2. dev' \in DevType /\ dev.blocks \subseteq dev'.blocks
    BY <1>PassBarrierStep DEF PassBarrier, StartInv, StartTypes, DevType
  <2>3. peers' \in [Metas -> PeerType] /\ \A i \in Metas \ {s} : peers'[i] = peers[i]
    BY <1>PassBarrierStep DEF PassBarrier, StartInv, StartTypes, PeerType
  <2>4. MainFacts(s, to, peers'[s], dev'.blocks)
    BY <1>PassBarrierStep DEF PassBarrier, At, StartInv, StartTypes, MainInv, MainFacts
  <2> HIDE DEF to
  <2> QED
    BY <1>PassBarrierStep, <2>1, <2>2, <2>3, <2>4, <1>MainStep1

<1>AttachTableStep.
        ASSUME StartInv, Paced = TRUE, NEW s \in Metas, AttachTable(s)
        PROVE  StartInv'
  <2> DEFINE to == "block"
  <2>1. /\ to \in MainPcs /\ to # "up" /\ main[s] # "up"
        /\ Goto(s, to) /\ UNCHANGED <<thr, inbox, sess>>
    BY <1>AttachTableStep DEF AttachTable, At, MainPcs
  <2>2. dev' \in DevType /\ dev.blocks \subseteq dev'.blocks
    BY <1>AttachTableStep DEF AttachTable, StartInv, StartTypes, DevType
  <2>3. peers' \in [Metas -> PeerType] /\ \A i \in Metas \ {s} : peers'[i] = peers[i]
    BY <1>AttachTableStep DEF AttachTable, StartInv, StartTypes, PeerType
  <2>4. MainFacts(s, to, peers'[s], dev'.blocks)
    BY <1>AttachTableStep DEF AttachTable, At, StartInv, StartTypes, MainInv, MainFacts
  <2> HIDE DEF to
  <2> QED
    BY <1>AttachTableStep, <2>1, <2>2, <2>3, <2>4, <1>MainStep1

<1>PublishBlockStep.
        ASSUME StartInv, Paced = TRUE, NEW s \in Metas, PublishBlock(s)
        PROVE  StartInv'
  <2> DEFINE to == "setmds"
  <2>1. /\ to \in MainPcs /\ to # "up" /\ main[s] # "up"
        /\ Goto(s, to) /\ UNCHANGED <<thr, inbox, sess>>
    BY <1>PublishBlockStep DEF PublishBlock, At, MainPcs
  <2>2. dev' \in DevType /\ dev.blocks \subseteq dev'.blocks
    BY <1>PublishBlockStep DEF PublishBlock, StartInv, StartTypes, DevType
  <2>3. /\ peers' \in [Metas -> PeerType] /\ \A i \in Metas \ {s} : peers'[i] = peers[i]
        /\ peers'[s].total = peers[s].total
    <3>1. peers \in [Metas -> PeerType] /\ {s} \in SUBSET Int
      BY SMT, <1>PublishBlockStep DEF StartInv, StartTypes, PeerType, Metas
    <3>2. peers' = [peers EXCEPT ![s] = [peers[s] EXCEPT !.known = {s}]]
      BY <1>PublishBlockStep, <3>1 DEF PublishBlock
    <3>3. [peers[s] EXCEPT !.known = {s}] \in PeerType
      BY <3>1 DEF PeerType
    <3> QED
      BY <3>1, <3>2, <3>3 DEF PeerType
  <2>4. MainFacts(s, to, peers'[s], dev'.blocks)
    <3>1. 0 .. s - 1 \subseteq dev.blocks /\ dev'.blocks = dev.blocks \cup {s}
      BY <1>PublishBlockStep DEF PublishBlock, Waits, StartInv, StartTypes
    <3>2. s \in Int /\ 0 .. s \subseteq dev'.blocks
      BY SMT, <3>1 DEF Metas
    <3>3. peers'[s].total = NumMetas
      BY <1>PublishBlockStep, <2>3 DEF PublishBlock, At, StartInv, MainInv
    <3> QED
      BY <3>2, <3>3 DEF MainFacts
  <2> HIDE DEF to
  <2> QED
    BY <1>PublishBlockStep, <2>1, <2>2, <2>3, <2>4, <1>MainStep1

<1>CountServersStep.
        ASSUME StartInv, Paced = TRUE, NEW s \in Metas, CountServers(s)
        PROVE  StartInv'
  <2> DEFINE to == "pause"
  <2>1. /\ to \in MainPcs /\ to # "up" /\ main[s] # "up"
        /\ Goto(s, to) /\ UNCHANGED <<thr, inbox, sess>>
    BY <1>CountServersStep DEF CountServers, At, MainPcs
  <2>2. dev' \in DevType /\ dev.blocks \subseteq dev'.blocks
    BY <1>CountServersStep DEF CountServers, StartInv, StartTypes, DevType
  <2>3. /\ peers' \in [Metas -> PeerType] /\ \A i \in Metas \ {s} : peers'[i] = peers[i]
        /\ peers'[s].total = peers[s].total /\ peers'[s].n = s + 1
        /\ peers'[s].known = {i \in 0 .. s : i \in dev.blocks}
    <3> DEFINE k == {i \in 0 .. s : i \in dev.blocks}
    <3>1. peers \in [Metas -> PeerType] /\ k \in SUBSET Int /\ s + 1 \in Int /\ (s + 1) - 1 = s
      BY SMT, <1>CountServersStep DEF StartInv, StartTypes, PeerType, Metas
    <3>2. peers' = [peers EXCEPT ![s] = [peers[s] EXCEPT !.n = s + 1, !.known = k]]
      BY <1>CountServersStep, <3>1 DEF CountServers, SetMetaNum
    <3> HIDE DEF k
    <3>3. [peers[s] EXCEPT !.n = s + 1, !.known = k] \in PeerType
      BY <3>1 DEF PeerType
    <3> QED
      BY <3>1, <3>2, <3>3 DEF PeerType, k
  <2>4. MainFacts(s, to, peers'[s], dev'.blocks)
    <3>1. 0 .. s \subseteq dev.blocks /\ dev' = dev /\ peers[s].total = NumMetas
      BY <1>CountServersStep DEF CountServers, At, StartInv, MainInv
    <3>2. s \in Int /\ s + 1 \in s + 1 .. NumMetas /\ (s + 1) - 1 = s
      BY SMT, StartupAssumption DEF Metas
    <3>3. peers'[s].known = 0 .. s
      BY <2>3, <3>1
    <3> QED
      BY <2>3, <3>1, <3>2, <3>3 DEF MainFacts
  <2> HIDE DEF to
  <2> QED
    BY <1>CountServersStep, <2>1, <2>2, <2>3, <2>4, <1>MainStep1

(* A server that starts its threads finds the ones below it in their event    *)
(* loops, and none above it.                                                  *)
<1>StartThreadsStep.
        ASSUME StartInv, Paced = TRUE, NEW s \in Metas, StartThreads(s)
        PROVE  StartInv'
  <2> DEFINE new == Frame("new", 0, 0)
  <2>1. /\ main[s] = "pause" /\ main' = [main EXCEPT ![s] = "up"]
        /\ thr' = [thr EXCEPT ![s] = [r \in Rpcs |-> <<new>>]]
        /\ UNCHANGED <<dev, peers, inbox, sess>>
        /\ \A i \in 0 .. s - 1 : Serving(i)
    BY <1>StartThreadsStep DEF StartThreads, At, Goto, Waits
  <2>2. /\ main \in [Metas -> MainPcs] /\ thr \in [Metas -> [Rpcs -> Seq(Frames)]]
        /\ \A i \in Metas : Up(i)' <=> Up(i) \/ i = s
        /\ ~Up(s)
    BY <1>StartThreadsStep, <2>1 DEF StartInv, StartTypes, Up
  <2>3. \A i \in Metas : Up(i) <=> i < s
    <3>1. \A i \in 0 .. s - 1 : Up(i)
      BY <2>1 DEF Serving, Up
    <3>2. \A i \in Metas : Up(i) => \A k \in 0 .. i - 1 : Up(k)
      BY <1>StartThreadsStep DEF StartInv, MainInv
    <3> QED
      BY SMT, <2>2, <3>1, <3>2, StartupAssumption DEF Metas
  <2>4. \A i \in Metas, r \in Rpcs : i < s => thr[i][r] = <<ServeFrame>>
    BY SMT, <2>1 DEF Serving, ServeFrame, Metas
  <2>5. \A i \in Metas, r \in Rpcs : i > s => thr[i][r] = <<>>
    BY SMT, <1>StartThreadsStep, <2>3 DEF StartInv, ThreadInv, Metas
  <2>6. \A i \in Metas, r \in Rpcs : thr'[i][r] = IF i = s THEN <<new>> ELSE thr[i][r]
    BY <2>1, <2>2
  <2>7. new \in Frames /\ new.pc = "new" /\ new.n = 0
    BY SMT DEF Frame, Frames
  <2> HIDE DEF new
  <2>8. StartTypes'
    <3>1. <<new>> \in Seq(Frames) /\ main' \in [Metas -> MainPcs]
      BY SMT, <2>1, <2>2, <2>7 DEF MainPcs
    <3>2. thr' \in [Metas -> [Rpcs -> Seq(Frames)]]
      BY <2>1, <2>2, <3>1
    <3> QED
      BY <1>StartThreadsStep, <2>1, <3>1, <3>2 DEF StartInv, StartTypes
  <2>9. MainInv'
    <3>1. \A i \in Metas \ {s} : main'[i] = main[i]
      BY <2>1, <2>2
    <3>2. main'[s] = "up" /\ \A i \in 0 .. s - 1 : i \in Metas /\ Up(i)'
      BY SMT, <2>1, <2>2, <2>3, StartupAssumption DEF Metas
    <3>3. ASSUME NEW i \in Metas \ {s}, Up(i)' PROVE \A k \in 0 .. i - 1 : Up(k)'
      BY SMT, <2>2, <2>3, <3>3, StartupAssumption DEF Metas
    <3> QED
      BY <1>StartThreadsStep, <2>1, <3>1, <3>2, <3>3 DEF StartInv, MainInv
  <2>10. /\ Len(<<new>>) = 1 /\ <<new>>[1] = new
         /\ Len(<<ServeFrame>>) = 1 /\ <<ServeFrame>>[1] = ServeFrame /\ Len(<<>>) = 0
    OBVIOUS
  <2>11. ThreadInv'
    <3>1. ASSUME NEW i \in Metas, NEW r \in Rpcs
          PROVE  /\ Len(thr'[i][r]) # 2
                 /\ ~Up(i)' => thr'[i][r] = <<>>
                 /\ Up(i)' => Len(thr'[i][r]) \in {1, 2}
                 /\ \A k \in Metas : i < k /\ Up(k)' => thr'[i][r][1] = ServeFrame
      <4>1. \A k \in Metas : main'[k] = "up" <=> k <= s
        BY SMT, <2>2, <2>3 DEF Up, Metas
      <4>2. CASE i = s
        BY SMT, <2>6, <2>10, <4>1, <4>2 DEF Metas, Up
      <4>3. CASE i < s
        <5>1. thr'[i][r] = <<ServeFrame>> /\ main'[i] = "up"
          BY SMT, <2>4, <2>6, <4>1, <4>3 DEF Metas
        <5> QED
          BY SMT, <2>10, <5>1 DEF Up
      <4>4. CASE i > s
        <5>1. thr'[i][r] = <<>> /\ \A k \in Metas : ~(i < k /\ main'[k] = "up")
          BY SMT, <2>5, <2>6, <4>1, <4>4 DEF Metas
        <5>2. main'[i] # "up"
          BY SMT, <4>1, <4>4 DEF Metas
        <5> QED
          BY SMT, <2>10, <5>1, <5>2 DEF Up
      <4> QED
        BY SMT, <4>2, <4>3, <4>4 DEF Metas
    <3>2. ASSUME NEW i \in Metas, NEW r \in Rpcs, Up(i)'
          PROVE  Joining(i, r, thr'[i][r][1])
      <4>1. CASE i = s
        BY <2>6, <2>7, <2>10, <4>1 DEF Joining
      <4>2. CASE i # s
        BY <1>StartThreadsStep, <2>2, <2>6, <3>2, <4>2 DEF StartInv, ThreadInv
      <4> QED
        BY <4>1, <4>2
    <3> QED
      BY SMT, <3>1, <3>2 DEF ThreadInv, Joining
  <2>12. MessageInv'
    <3>1. ASSUME NEW i \in Metas, NEW r \in Rpcs, NEW m \in inbox[i][r]
          PROVE  FALSE
      <4>1. /\ Up(m.s) /\ m.s \in Metas /\ m.r \in Rpcs
            /\ Top(thr[m.s][m.r]).pc \in {"connect", "call"}
        BY SMT, <1>StartThreadsStep, MessageType DEF StartInv, MessageInv, Awaited, Kinds
      <4>2. Top(thr[m.s][m.r]) = ServeFrame
        BY <2>3, <2>4, <2>10, <4>1 DEF Top
      <4> QED
        BY SMT, <4>1, <4>2 DEF ServeFrame, Frame
    <3> QED
      BY <2>1, <3>1 DEF MessageInv
  <2>13. PassedInv'
    <3>1. ASSUME NEW i \in Metas, NEW r \in Rpcs, Up(i)', NEW k \in 0 .. i - 1,
                 Passed(thr'[i][r][1], k)
          PROVE  /\ Up(i) /\ thr'[i][r] = thr[i][r] /\ thr'[k][r] = thr[k][r]
      <4>1. i # s
        BY <2>6, <2>7, <2>10, <3>1 DEF Passed, Busy
      <4>2. Up(i) /\ k \in Metas /\ k # s
        BY SMT, <2>2, <2>3, <3>1, <4>1, StartupAssumption DEF Metas
      <4> QED
        BY <2>6, <4>1, <4>2
    <3>2. ASSUME NEW i \in Metas, NEW r \in Rpcs, Up(i)', NEW k \in 0 .. i - 1,
                 Passed(thr'[i][r][1], k)
          PROVE  /\ r = 0 => peers[k].n >= i + 1
                 /\ \/ Len(thr'[k][r]) = 2 /\ thr'[k][r][2].i = i
                    \/ ConnectedTo(k, r, i)
      BY <1>StartThreadsStep, <3>1, <3>2 DEF StartInv, PassedInv
    <3> QED
      BY SMT, <2>1, <3>2 DEF PassedInv, ConnectedTo, Passed, Busy
  <2>14. BackInv'
    <3>1. ASSUME NEW i \in Metas, NEW r \in Rpcs PROVE Len(thr'[i][r]) # 2
      <4>1. CASE i = s
        BY SMT, <2>6, <2>10, <4>1
      <4>2. CASE i < s
        BY SMT, <2>4, <2>6, <2>10, <4>2 DEF Metas
      <4>3. CASE i > s
        BY SMT, <1>StartThreadsStep, <2>5, <2>6, <2>10, <4>3 DEF Metas
      <4> QED
        BY SMT, <4>1, <4>2, <4>3 DEF Metas
    <3> QED
      BY <3>1 DEF BackInv
  <2>15. ReachedInv'
    <3>1. \A i \in Metas, r \in Rpcs : Up(i)' /\ i # s => Up(i) /\ thr'[i][r] = thr[i][r]
      BY <2>2, <2>6
    <3>2. \A r \in Rpcs, i \in Int :
             ~Reached(thr'[s][r][1], i) /\ thr'[s][r][1].pc \notin {"turn", "connect"}
      BY <2>6, <2>7, <2>10 DEF Reached, Busy
    <3>3. ASSUME NEW i \in Metas, NEW r \in Rpcs, Up(i)', NEW k \in 0 .. i - 1
          PROVE  /\ Reached(thr'[i][r][1], k) => ConnectedTo(i, r, k)
                 /\ r = 0 /\ thr'[i][r][1].pc \in {"turn", "connect"} /\ thr'[i][r][1].i = k =>
                       \A j \in 0 .. thr'[i][r][1].j - 1 : <<k, j>> \in sess[i][0]
      BY SMT, <1>StartThreadsStep, <3>1, <3>2, <3>3 DEF StartInv, ReachedInv, Metas
    <3> QED
      BY <2>1, <3>3 DEF ReachedInv, ConnectedTo
  <2> QED
    BY <2>8, <2>9, <2>11, <2>12, <2>13, <2>14, <2>15 DEF StartInv
<1> QED
  BY <1>LaunchStep, <1>AttachPoolStep, <1>CloseWindowStep, <1>AttachSsdStep,
     <1>FinishDeviceStep, <1>PassBarrierStep, <1>AttachTableStep, <1>PublishBlockStep,
     <1>CountServersStep, <1>StartThreadsStep DEF MainStep

(*---------------------------------------------------------------------------*)
(* Messages.                                                                  *)

ThrType == [Metas -> [Rpcs -> Seq(Frames)]]
InboxType == [Metas -> [Rpcs -> SUBSET Messages]]

(* A thread waits for at most one message's effect.                           *)
LEMMA OneMessage ==
    ASSUME StartTypes, MessageInv,
           NEW i \in Metas, NEW r \in Rpcs, NEW m \in inbox[i][r],
           NEW k \in Metas, NEW q \in Rpcs, NEW n \in inbox[k][q],
           m.s = n.s, m.r = n.r
    PROVE  i = k /\ r = q /\ m = n
<1>1. Awaited(i, r, m) /\ Awaited(k, q, n)
  BY DEF MessageInv
<1>2. m \in Messages /\ n \in Messages
  BY DEF StartTypes
<1>3. i = k /\ r = q
  BY <1>1 DEF Awaited
<1>4. m.kind = n.kind /\ m.n = n.n
  <2>1. m.kind \in Kinds /\ n.kind \in Kinds
    BY <1>2 DEF Messages
  <2> QED
    BY <1>1, <2>1 DEF Awaited, Kinds
<1>5. m = n
  BY SMT, <1>2, <1>4 DEF Messages
<1> QED
  BY <1>3, <1>5

(* A thread that is not in a frame that waits has no message under way.       *)
LEMMA NoMessage ==
    ASSUME StartTypes, MessageInv, NEW s \in Metas, NEW r \in Rpcs,
           Top(thr[s][r]).pc \notin {"connect", "call"} \/ Top(thr[s][r]).flag
    PROVE  \A i \in Metas, q \in Rpcs : \A m \in inbox[i][q] : <<m.s, m.r>> # <<s, r>>
<1>1. SUFFICES ASSUME NEW i \in Metas, NEW q \in Rpcs, NEW m \in inbox[i][q],
                      m.s = s, m.r = r
               PROVE  FALSE
  OBVIOUS
<1>2. Awaited(i, q, m) /\ m.kind \in Kinds
  BY MessageType DEF MessageInv
<1> QED
  BY <1>1, <1>2 DEF Awaited, Kinds

(*---------------------------------------------------------------------------*)
(* Announcements.                                                             *)

(* The message m is taken, its sender has its answer, and the handler runs.   *)
Announced(s, r, m) ==
    /\ inbox' = [inbox EXCEPT ![s][r] = @ \ {m}]
    /\ thr' = [Flag(thr, m.s, m.r) EXCEPT ![s][r] = Append(@, Frame("turn", m.n - 1, m.n))]

(* MDMetaCommunicationReqHandler and MDGuardianCommunicationReqHandler.        *)
LEMMA HandlersKeep ==
    StartInv => \A s \in Metas : /\ HandleGuardian(s) => StartInv'
                                 /\ \A r \in Rpcs : HandleMeta(s, r) => StartInv'

(* An announcement reaches a thread in its event loop, from the same thread   *)
(* of the last server that came up.                                           *)
<1>AnnouncementFacts.
        ASSUME StartInv, NEW s \in Metas, NEW r \in Rpcs, NEW m \in inbox[s][r],
               m.kind # "session"
        PROVE  /\ m.s \in Metas /\ m.r = r /\ m.n = m.s + 1 /\ s < m.s /\ Up(m.s) /\ Up(s)
               /\ Len(thr[m.s][r]) = 1 /\ thr[m.s][r][1] \in Frames /\ Joining(m.s, r, thr[m.s][r][1])
               /\ thr[m.s][r][1].pc = "call" /\ thr[m.s][r][1].i = s
               /\ \A k \in Metas : Up(k) => k <= m.s
               /\ Len(thr[s][r]) = 1 /\ thr[s][r][1] = ServeFrame
               /\ thr[s][r] # <<>> /\ thr[m.s][r] # <<>>
  <2>1. StartTypes /\ ThreadInv /\ MessageInv /\ MainInv /\ BackInv
    BY <1>AnnouncementFacts DEF StartInv
  <2>2. m.s \in Metas /\ m.r \in Rpcs /\ Awaited(s, r, m)
    BY <2>1, MessageType DEF MessageInv
  <2>3. PICK c \in Metas : c = m.s
    BY <2>2
  <2>4. PICK b \in Rpcs : b = m.r
    BY <2>2
  <2>5. PICK f : f = Top(thr[c][b])
    OBVIOUS
  <2>6. Up(c) /\ f.i = s /\ ~f.flag /\ Remote(b, f) = r /\ f.pc = "call" /\ m.n = c + 1
    BY <1>AnnouncementFacts, <2>2, <2>3, <2>4, <2>5 DEF Awaited
  <2>7. Len(thr[c][b]) \in {1, 2}
    BY <2>1, <2>6 DEF ThreadInv
  <2>8. thr[c][b] # <<>>
    <3>1. \A q : Len(q) \in {1, 2} => q # <<>>
      BY SMT, <1>AnnouncementFacts
    <3> QED
      BY SMT, <2>7, <3>1
  <2>9. Len(thr[c][b]) = 1 /\ f = thr[c][b][1] /\ Joining(c, b, f) /\ f \in Frames
    BY <2>1, <2>5, <2>6, <2>8, TopFrame DEF Back
  <2>10. s < c
    BY SMT, <2>6, <2>9 DEF Joining, Metas
  <2>11. b = r
    BY <2>6, <2>9, RemoteSelf DEF Joining
  <2>12. Up(s) /\ thr[s][r][1] = ServeFrame
    BY SMT, <2>1, <2>6, <2>10 DEF MainInv, ThreadInv, Metas
  <2>13. \A k \in Metas : Up(k) => k <= c
    BY SMT, <2>1, <2>6, <2>9 DEF ThreadInv, ServeFrame, Frame, Metas
  <2>14. Len(thr[s][r]) \in {1, 2}
    BY <2>1, <2>12 DEF ThreadInv
  <2>15. Len(thr[s][r]) # 2
    <3>1. SUFFICES ASSUME Len(thr[s][r]) = 2 PROVE FALSE
      OBVIOUS
    <3>2. Back(s, thr[s][r][2]) /\ Passed(thr[thr[s][r][2].i][r][1], s)
      BY <2>1, <3>1 DEF ThreadInv, BackInv
    <3>3. thr[s][r][2].i = c
      BY SMT, <2>6, <2>13, <3>2 DEF Back, Metas
    <3>4. Passed(f, s)
      BY <2>9, <2>11, <3>2, <3>3
    <3> QED
      BY SMT, <2>6, <3>4 DEF Passed, Metas
  <2>16. thr[s][r] # <<>>
    <3>1. \A q : Len(q) \in {1, 2} => q # <<>>
      BY SMT, <1>AnnouncementFacts
    <3> QED
      BY SMT, <2>14, <3>1
  <2> QED
    BY <2>3, <2>4, <2>6, <2>8, <2>9, <2>10, <2>11, <2>12, <2>13, <2>14, <2>15, <2>16

(* The two stacks that an announcement changes.                               *)
<1>AnnouncedFacts.
        ASSUME StartInv, NEW s \in Metas, NEW r \in Rpcs, NEW m \in inbox[s][r],
               m.kind # "session", Announced(s, r, m)
        PROVE  /\ thr' \in ThrType
               /\ Len(thr'[m.s][r]) = 1
               /\ thr'[m.s][r][1] = [thr[m.s][r][1] EXCEPT !.flag = TRUE]
               /\ Len(thr'[s][r]) = 2 /\ thr'[s][r][1] = ServeFrame
               /\ thr'[s][r][2] = Frame("turn", m.s, m.s + 1)
               /\ \A a \in Metas, b \in Rpcs :
                     <<a, b>> \notin {<<s, r>>, <<m.s, r>>} => thr'[a][b] = thr[a][b]
  <2>1. StartTypes /\ ThreadInv
    BY <1>AnnouncedFacts DEF StartInv
  <2>2. PICK c \in Metas : c = m.s
    BY <1>AnnouncedFacts, <1>AnnouncementFacts
  <2>3. /\ m.r = r /\ m.n = c + 1 /\ s < c
        /\ Len(thr[c][r]) = 1 /\ thr[c][r][1] \in Frames
        /\ Len(thr[s][r]) = 1 /\ thr[s][r][1] = ServeFrame
    BY SMT, <1>AnnouncedFacts, <2>2, <1>AnnouncementFacts
  <2> DEFINE f == thr[c][r][1]
             g == [f EXCEPT !.flag = TRUE]
             h == Frame("turn", c, c + 1)
             p == Append(Below(thr[c][r]), g)
             q == Append(thr[s][r], h)
  <2>4. thr \in ThrType
    BY <2>1 DEF StartTypes, ThrType
  <2>5. thr[c][r] \in Seq(Frames) /\ thr[s][r] \in Seq(Frames)
    BY <2>4 DEF ThrType
  <2>6. g \in Frames /\ h \in Frames
    <3>1. c \in Int /\ c + 1 \in Int
      BY SMT DEF Metas
    <3>2. \A k \in Frames : [k EXCEPT !.flag = TRUE] \in Frames
      BY DEF Frames
    <3>3. \A i \in Int, n \in Int : Frame("turn", i, n) \in Frames
      BY SMT DEF Frames, Frame
    <3>4. f \in Frames
      BY <2>3
    <3> HIDE DEF f
    <3> QED
      BY <3>1, <3>2, <3>3, <3>4
  <2>7. Top(thr[c][r]) = f
    BY <2>3 DEF Top
  <2>8. (m.n - 1) = c
    BY SMT, <2>3 DEF Metas
  <2>9. thr' = [[thr EXCEPT ![c][r] = p] EXCEPT ![s][r] = q]
    <3>1. Flag(thr, m.s, m.r) = [thr EXCEPT ![c][r] = p]
      BY <2>2, <2>3, <2>7 DEF Flag
    <3>2. c # s
      BY SMT, <2>3 DEF Metas
    <3>3. [thr EXCEPT ![c][r] = p][s][r] = thr[s][r]
      BY <2>4, <3>2 DEF ThrType
    <3>4. thr' = [Flag(thr, m.s, m.r) EXCEPT ![s][r] = Append(@, Frame("turn", m.n - 1, m.n))]
      BY <1>AnnouncedFacts DEF Announced
    <3> HIDE DEF p
    <3>5. thr' = [[thr EXCEPT ![c][r] = p] EXCEPT ![s][r] = Append(@, h)]
      BY <2>3, <2>8, <3>1, <3>4
    <3> HIDE DEF h
    <3> QED
      BY <2>4, <3>3, <3>5 DEF ThrType
  <2> HIDE DEF f, g, h
  <2>10. p \in Seq(Frames) /\ Len(p) = 1 /\ p[1] = g
    BY <2>3, <2>5, <2>6, StackPut
  <2>11. q \in Seq(Frames) /\ Len(q) = 2 /\ q[1] = ServeFrame /\ q[2] = h
    BY <2>3, <2>5, <2>6, StackPush
  <2> HIDE DEF p, q
  <2>12. c # s
    BY SMT, <2>3 DEF Metas
  <2>13. thr' \in ThrType /\ thr'[c][r] = p /\ thr'[s][r] = q
    BY <2>4, <2>9, <2>10, <2>11, <2>12 DEF ThrType
  <2>14. \A a \in Metas, b \in Rpcs :
            <<a, b>> \notin {<<s, r>>, <<c, r>>} => thr'[a][b] = thr[a][b]
    BY <2>4, <2>9 DEF ThrType
  <2> QED
    BY <2>2, <2>10, <2>11, <2>13, <2>14 DEF f, g, h

(* The handler of an announcement starts.                                     *)
<1>AnnouncedStep.
        ASSUME StartInv, NEW s \in Metas, NEW r \in Rpcs, NEW m \in inbox[s][r],
               m.kind # "session", Announced(s, r, m), UNCHANGED <<main, dev, sess>>,
               peers' \in [Metas -> [total : Int, n : Int, known : SUBSET Int]], MainInv',
               \A i \in Metas : peers'[i].n >= peers[i].n,
               r = 0 => peers'[s].n >= m.s + 1
        PROVE  StartInv'
  <2>1. StartTypes /\ ThreadInv /\ MessageInv /\ PassedInv /\ BackInv /\ ReachedInv
    BY <1>AnnouncedStep DEF StartInv
  <2>2. PICK c \in Metas : c = m.s
    BY <1>AnnouncedStep, <1>AnnouncementFacts
  <2>3. PICK f : f = thr[c][r][1]
    OBVIOUS
  <2>4. PICK g : g = [f EXCEPT !.flag = TRUE]
    OBVIOUS
  <2>5. PICK h : h = Frame("turn", c, c + 1)
    OBVIOUS
  <2>6. /\ m.r = r /\ s < c /\ Up(c) /\ Up(s)
        /\ Len(thr[c][r]) = 1 /\ f \in Frames /\ Joining(c, r, f)
        /\ f.pc = "call" /\ f.i = s
        /\ \A k \in Metas : Up(k) => k <= c
        /\ Len(thr[s][r]) = 1 /\ thr[s][r][1] = ServeFrame
    BY SMT, <1>AnnouncedStep, <2>2, <2>3, <1>AnnouncementFacts
  <2>7. /\ thr' \in ThrType
        /\ Len(thr'[c][r]) = 1 /\ thr'[c][r][1] = g
        /\ Len(thr'[s][r]) = 2 /\ thr'[s][r][1] = ServeFrame /\ thr'[s][r][2] = h
        /\ \A a \in Metas, b \in Rpcs :
              <<a, b>> \notin {<<s, r>>, <<c, r>>} => thr'[a][b] = thr[a][b]
    BY SMT, <1>AnnouncedStep, <2>2, <2>3, <2>4, <2>5, <1>AnnouncedFacts
  <2>8. g.pc = "call" /\ g.i = s /\ g.j = f.j /\ g.n = f.n /\ g.flag
    BY <2>4, <2>6 DEF Frames
  <2>9. h.pc = "turn" /\ h.i = c /\ h.n = c + 1 /\ h.j = 0
    BY <2>5 DEF Frame
  <2>10. \A a \in Metas : Up(a)' = Up(a)
    BY <1>AnnouncedStep DEF Up
  <2>11. Back(s, h) /\ Joining(c, r, g)
    <3>1. Back(s, h)
      BY SMT, <2>6, <2>9, StartupAssumption DEF Back, Rpcs
    <3>2. Joining(c, r, g)
      BY <2>6, <2>8 DEF Joining
    <3> QED
      BY <3>1, <3>2
  <2>12. ThreadInv'
    <3>1. ASSUME NEW a \in Metas, NEW b \in Rpcs
          PROVE  /\ ~Up(a) => thr'[a][b] = <<>>
                 /\ Up(a) => Len(thr'[a][b]) \in {1, 2} /\ Joining(a, b, thr'[a][b][1])
                 /\ Len(thr'[a][b]) = 2 => Back(a, thr'[a][b][2])
                 /\ \A k \in Metas : a < k /\ Up(k) => thr'[a][b][1] = ServeFrame
      <4>1. CASE <<a, b>> = <<s, r>>
        BY <2>1, <2>6, <2>7, <2>11, <4>1 DEF ThreadInv
      <4>2. CASE <<a, b>> = <<c, r>>
        BY SMT, <2>6, <2>7, <2>11, <4>2 DEF Metas
      <4>3. CASE <<a, b>> \notin {<<s, r>>, <<c, r>>}
        BY SMT, <2>1, <2>7, <4>3 DEF ThreadInv
      <4> QED
        BY <4>1, <4>2, <4>3
    <3> QED
      BY SMT, <2>10, <3>1 DEF ThreadInv, Joining, Back
  <2>13. /\ inbox' \in InboxType
         /\ \A i \in Metas, q \in Rpcs : \A n \in inbox'[i][q] :
              n \in inbox[i][q] /\ ~(i = s /\ q = r /\ n = m)
    <3>1. inbox \in InboxType
      BY <2>1 DEF StartTypes, InboxType
    <3>2. inbox' = [inbox EXCEPT ![s][r] = @ \ {m}]
      BY <1>AnnouncedStep DEF Announced
    <3> QED
      BY <3>1, <3>2 DEF InboxType
  <2>14. MessageInv'
    <3>1. \A i \in Metas, q \in Rpcs : \A n \in inbox'[i][q] : <<n.s, n.r>> # <<c, r>>
      BY SMT, <2>1, <2>2, <2>6, <2>13, OneMessage
    <3>2. \A i \in Metas, q \in Rpcs : \A n \in inbox[i][q] : <<n.s, n.r>> # <<s, r>>
      <4>1. Top(thr[s][r]) = ServeFrame
        BY <2>6 DEF Top
      <4>2. Top(thr[s][r]).pc \notin {"connect", "call"}
        BY SMT, <4>1 DEF ServeFrame, Frame
      <4> QED
        BY <2>1, <4>2, NoMessage
    <3>3. ASSUME NEW i \in Metas, NEW q \in Rpcs, NEW n \in inbox'[i][q]
          PROVE  Awaited(i, q, n)'
      <4>1. n \in inbox[i][q] /\ <<n.s, n.r>> \notin {<<s, r>>, <<c, r>>}
        BY <2>13, <3>1, <3>2
      <4>2. Awaited(i, q, n) /\ n.s \in Metas /\ n.r \in Rpcs
        BY <2>1, <4>1, MessageType DEF MessageInv
      <4>3. thr'[n.s][n.r] = thr[n.s][n.r] /\ Up(n.s)' = Up(n.s)
        BY <2>7, <2>10, <4>1, <4>2
      <4> QED
        BY <4>2, <4>3 DEF Awaited, Remote
    <3> QED
      BY <3>3 DEF MessageInv
  <2>15. \A a \in Metas : \A i \in 0 .. a - 1 : i \in Metas
    BY SMT, StartupAssumption DEF Metas
  <2>16. /\ \A i \in Int : Passed(f, i) => Passed(g, i)
         /\ \A i \in Int : Passed(g, i) => Passed(f, i) \/ i = s
         /\ \A i \in Int : Reached(g, i) => Reached(f, i)
    BY <2>6, <2>8 DEF Passed, Reached, Busy
  <2>17. \A a \in Metas, b \in Rpcs :
            <<a, b>> # <<c, r>> => thr'[a][b][1] = thr[a][b][1]
    BY <2>6, <2>7
  <2>18. \A a \in Metas, b \in Rpcs :
            /\ Len(thr[a][b]) = 2 => thr'[a][b] = thr[a][b]
            /\ Len(thr'[a][b]) = 2 => <<a, b>> = <<s, r>> \/ thr'[a][b] = thr[a][b]
    BY SMT, <2>6, <2>7
  <2>19. \A a \in Metas, b \in Rpcs, i \in Metas : ConnectedTo(a, b, i)' = ConnectedTo(a, b, i)
    BY <1>AnnouncedStep DEF ConnectedTo
  <2>20. PassedInv'
    <3>1. ASSUME NEW a \in Metas, NEW b \in Rpcs, Up(a), NEW i \in 0 .. a - 1,
                 Passed(thr'[a][b][1], i)
          PROVE  /\ b = 0 => peers'[i].n >= a + 1
                 /\ \/ Len(thr'[i][b]) = 2 /\ thr'[i][b][2].i = a
                    \/ ConnectedTo(i, b, a)
      <4>1. CASE Passed(thr[a][b][1], i)
        <5>1. /\ b = 0 => peers[i].n >= a + 1
              /\ \/ Len(thr[i][b]) = 2 /\ thr[i][b][2].i = a
                 \/ ConnectedTo(i, b, a)
          BY <2>1, <3>1, <4>1 DEF PassedInv
        <5>2. i \in Metas /\ peers[i].n \in Int /\ peers'[i].n \in Int /\ a + 1 \in Int
          <6>1. i \in Metas /\ a + 1 \in Int
            BY SMT, <2>15 DEF Metas
          <6>2. \A k \in Metas : peers[k].n \in Int
            BY <2>1 DEF StartTypes
          <6>3. \A k \in Metas : peers'[k].n \in Int
            BY <1>AnnouncedStep
          <6> QED
            BY <6>1, <6>2, <6>3
        <5>3. peers'[i].n >= peers[i].n
          BY <1>AnnouncedStep, <5>2
        <5>4. b = 0 => peers'[i].n >= a + 1
          BY SMT, <5>1, <5>2, <5>3
        <5> QED
          BY <2>18, <5>1, <5>2, <5>4
      <4>2. CASE ~Passed(thr[a][b][1], i)
        <5>1. <<a, b>> = <<c, r>>
          BY <2>17, <3>1, <4>2
        <5>2. i = s
          <6>1. Passed(g, i) /\ ~Passed(f, i) /\ i \in Int
            BY SMT, <2>3, <2>7, <3>1, <4>2, <5>1
          <6> QED
            BY <2>16, <6>1
        <5> QED
          BY <1>AnnouncedStep, <2>2, <2>7, <2>9, <5>1, <5>2
      <4> QED
        BY <4>1, <4>2
    <3> QED
      BY SMT, <2>10, <2>15, <2>19, <3>1 DEF PassedInv
  <2>21. BackInv'
    <3>1. ASSUME NEW a \in Metas, NEW b \in Rpcs, Len(thr'[a][b]) = 2
          PROVE  /\ Passed(thr'[thr'[a][b][2].i][b][1], a)
                 /\ b = 0 => \A j \in 0 .. thr'[a][b][2].j - 1 :
                               <<thr'[a][b][2].i, j>> \in sess'[a][0]
      <4>1. CASE <<a, b>> = <<s, r>>
        <5>1. Passed(g, s)
          BY <2>8 DEF Passed
        <5> QED
          BY SMT, <2>7, <2>9, <4>1, <5>1
      <4>2. CASE <<a, b>> # <<s, r>>
        <5>1. thr'[a][b] = thr[a][b] /\ Len(thr[a][b]) = 2
          BY <2>18, <3>1, <4>2
        <5>2. PICK d \in Metas : d = thr[a][b][2].i /\ d > a
          BY <2>1, <5>1 DEF ThreadInv, Back
        <5>3. Passed(thr[d][b][1], a)
          BY <2>1, <5>1, <5>2 DEF BackInv
        <5>4. a \in 0 .. d - 1
          BY SMT, <5>2 DEF Metas
        <5>5. Passed(thr'[d][b][1], a)
          <6>1. CASE <<d, b>> = <<c, r>>
            <7>1. Passed(f, a) /\ a \in Int
              BY SMT, <2>3, <5>3, <5>4, <6>1
            <7>2. Passed(g, a)
              BY <2>16, <7>1
            <7> QED
              BY <2>7, <6>1, <7>2
          <6>2. CASE <<d, b>> # <<c, r>>
            BY <2>17, <5>3, <6>2
          <6> QED
            BY <6>1, <6>2
        <5> QED
          BY <1>AnnouncedStep, <2>1, <5>1, <5>2, <5>5 DEF BackInv
      <4> QED
        BY <4>1, <4>2
    <3> QED
      BY <3>1 DEF BackInv
  <2>22. ReachedInv'
    <3>1. ASSUME NEW a \in Metas, NEW b \in Rpcs, Up(a), NEW i \in 0 .. a - 1
          PROVE  /\ Reached(thr'[a][b][1], i) => ConnectedTo(a, b, i)
                 /\ b = 0 /\ thr'[a][b][1].pc \in {"turn", "connect"} /\ thr'[a][b][1].i = i =>
                       \A j \in 0 .. thr'[a][b][1].j - 1 : <<i, j>> \in sess[a][0]
      <4>1. CASE <<a, b>> = <<c, r>>
        <5>1. i \in Int /\ thr'[a][b][1] = g /\ thr[a][b][1] = f
          BY SMT, <2>3, <2>7, <4>1
        <5>2. Reached(f, i) => ConnectedTo(a, b, i)
          BY <2>1, <3>1, <5>1 DEF ReachedInv
        <5> QED
          BY <2>8, <2>16, <5>1, <5>2
      <4>2. CASE <<a, b>> # <<c, r>>
        BY <2>1, <2>17, <3>1, <4>2 DEF ReachedInv
      <4> QED
        BY <4>1, <4>2
    <3> QED
      BY SMT, <1>AnnouncedStep, <2>10, <2>15, <2>19, <3>1 DEF ReachedInv
  <2>23. StartTypes'
    BY <1>AnnouncedStep, <2>1, <2>7, <2>13 DEF StartTypes, ThrType, InboxType
  <2> QED
    BY <1>AnnouncedStep, <2>12, <2>14, <2>20, <2>21, <2>22, <2>23 DEF StartInv

(* An event loop thread hears of a new server.                                *)
<1>HandleMetaStep.
        ASSUME StartInv, NEW s \in Metas, NEW r \in Rpcs, HandleMeta(s, r)
        PROVE  StartInv'
  <2>1. PICK m \in inbox[s][r] :
           /\ m.kind = "meta"
           /\ inbox' = [inbox EXCEPT ![s][r] = @ \ {m}]
           /\ thr' = [Flag(thr, m.s, m.r) EXCEPT ![s][r] = Append(@, Frame("turn", m.n - 1, m.n))]
    BY <1>HandleMetaStep DEF HandleMeta
  <2>2. Announced(s, r, m) /\ m.kind # "session"
    BY <2>1 DEF Announced
  <2>3. UNCHANGED <<main, dev, peers, sess>>
    BY <1>HandleMetaStep DEF HandleMeta
  <2>4. /\ peers \in [Metas -> [total : Int, n : Int, known : SUBSET Int]]
        /\ MainInv
    BY <1>HandleMetaStep DEF StartInv, StartTypes
  <2>5. MainInv' /\ \A i \in Metas : peers'[i].n >= peers[i].n
    BY SMT, <2>3, <2>4 DEF MainInv, Up
  <2>6. r # 0
    <3>1. Awaited(s, r, m) /\ m.r = r
      BY SMT, <1>HandleMetaStep, <2>2, <1>AnnouncementFacts DEF StartInv, MessageInv
    <3> QED
      BY <2>1, <3>1 DEF Awaited
  <2> QED
    BY <1>HandleMetaStep, <2>2, <2>3, <2>4, <2>5, <2>6, <1>AnnouncedStep

(* The guardian hears of a new server and opens its block.                    *)
<1>HandleGuardianStep.
        ASSUME StartInv, NEW s \in Metas, HandleGuardian(s)
        PROVE  StartInv'
  <2>0. SUFFICES ASSUME NEW r \in Rpcs, r = 0 PROVE StartInv'
    BY SMT, StartupAssumption DEF Rpcs
  <2>1. PICK m \in inbox[s][r] :
           /\ m.kind = "guardian"
           /\ inbox' = [inbox EXCEPT ![s][r] = @ \ {m}]
           /\ peers' = [peers EXCEPT ![s] = IF m.n > @.n THEN SetMetaNum(@, m.n) ELSE @]
           /\ thr' = [Flag(thr, m.s, m.r) EXCEPT ![s][r] = Append(@, Frame("turn", m.n - 1, m.n))]
    BY <1>HandleGuardianStep, <2>0 DEF HandleGuardian
  <2>2. Announced(s, r, m) /\ m.kind # "session"
    BY <2>1 DEF Announced
  <2>3. UNCHANGED <<main, dev, sess>>
    BY <1>HandleGuardianStep DEF HandleGuardian
  <2>4. /\ peers \in [Metas -> [total : Int, n : Int, known : SUBSET Int]]
        /\ MainInv
    BY <1>HandleGuardianStep DEF StartInv, StartTypes
  <2>5. PICK c \in Metas : c = m.s /\ m.n = c + 1 /\ s < c /\ Up(c) /\ Up(s)
    BY SMT, <1>HandleGuardianStep, <2>2, <1>AnnouncementFacts
  <2> DEFINE p == peers[s]
             q == IF m.n > p.n THEN SetMetaNum(p, m.n) ELSE p
  <2>6. peers' = [peers EXCEPT ![s] = q]
    BY <2>1
  <2>7. p \in [total : Int, n : Int, known : SUBSET Int] /\ c + 1 \in Int
    BY SMT, <2>4 DEF Metas
  <2>8. p.n \in s + 1 .. NumMetas /\ p.known = 0 .. p.n - 1 /\ p.total = NumMetas
    BY <2>4, <2>5 DEF MainInv, Up
  <2>9. {i \in 0 .. c : i \in dev.blocks} = 0 .. c
    BY <2>4, <2>5 DEF MainInv, Up
  <2>10. SetMetaNum(p, c + 1) = [p EXCEPT !.n = c + 1, !.known = 0 .. c]
    <3>1. (c + 1) - 1 = c
      BY SMT DEF Metas
    <3> QED
      BY <2>9, <3>1 DEF SetMetaNum
  <2> HIDE DEF p
  <2>11. /\ q \in [total : Int, n : Int, known : SUBSET Int]
         /\ q.n \in s + 1 .. NumMetas /\ q.known = 0 .. q.n - 1 /\ q.total = NumMetas
         /\ q.n >= p.n /\ q.n >= c + 1
    <3>1. CASE c + 1 > p.n
      <4>1. q = [p EXCEPT !.n = c + 1, !.known = 0 .. c]
        BY <2>5, <2>10, <3>1
      <4>2. /\ q \in [total : Int, n : Int, known : SUBSET Int]
            /\ q.n = c + 1 /\ q.known = 0 .. c /\ q.total = NumMetas
        <5>1. 0 .. c \in SUBSET Int
          BY SMT
        <5> HIDE DEF q
        <5> QED
          BY <2>7, <2>8, <4>1, <5>1
      <4> HIDE DEF q
      <4> QED
        BY SMT, <2>5, <2>7, <2>8, <3>1, <4>2, StartupAssumption DEF Metas
    <3>2. CASE ~(c + 1 > p.n)
      <4>1. q = p
        BY <2>5, <3>2
      <4> HIDE DEF q
      <4> QED
        BY SMT, <2>7, <2>8, <3>2, <4>1, StartupAssumption DEF Metas
    <3> QED
      BY <3>1, <3>2
  <2> HIDE DEF q
  <2>12. /\ peers' \in [Metas -> [total : Int, n : Int, known : SUBSET Int]]
         /\ peers'[s] = q /\ \A i \in Metas \ {s} : peers'[i] = peers[i]
    BY <2>4, <2>6, <2>11
  <2>13. \A i \in Metas : peers'[i].n >= peers[i].n
    <3>1. \A i \in Metas : peers[i].n \in Int
      BY <2>4
    <3> QED
      BY SMT, <2>11, <2>12, <3>1 DEF p
  <2>14. r = 0 => peers'[s].n >= m.s + 1
    BY <2>5, <2>11, <2>12
  <2>15. MainInv'
    <3>1. ASSUME NEW i \in Metas
          PROVE  MainFacts(i, main[i], peers'[i], dev.blocks)
      <4>1. CASE i = s
        BY <2>4, <2>11, <2>12, <4>1 DEF MainInv, MainFacts
      <4>2. CASE i # s
        BY <2>4, <2>12, <4>2 DEF MainInv, MainFacts
      <4> QED
        BY <4>1, <4>2
    <3>2. \A i \in Metas : Up(i)' = Up(i)
      BY <2>3 DEF Up
    <3>3. \A i \in Metas : Up(i) => \A k \in 0 .. i - 1 : Up(k) /\ k \in Metas
      BY SMT, <2>4, StartupAssumption DEF MainInv, Metas
    <3> QED
      BY <2>3, <3>1, <3>2, <3>3 DEF MainInv, MainFacts
  <2> QED
    BY <1>HandleGuardianStep, <2>2, <2>3, <2>12, <2>13, <2>14, <2>15, <1>AnnouncedStep
<1> QED
  BY <1>HandleMetaStep, <1>HandleGuardianStep

(*---------------------------------------------------------------------------*)
(* The steps of a thread.                                                     *)

(* The sessions of a thread only become more.                                 *)
SessGrow == /\ sess' \in [Metas -> [Rpcs -> SUBSET (Metas \X Rpcs)]]
            /\ \A s \in Metas, r \in Rpcs : sess[s][r] \subseteq sess'[s][r]

(* ThreadInv, where the stacks change and no server starts.                   *)
LEMMA ThreadClose ==
    ASSUME UNCHANGED main,
           \A a \in Metas, b \in Rpcs :
              /\ ~Up(a) => thr'[a][b] = <<>>
              /\ Up(a) => Len(thr'[a][b]) \in {1, 2} /\ Joining(a, b, thr'[a][b][1])
              /\ Len(thr'[a][b]) = 2 => Back(a, thr'[a][b][2])
              /\ \A k \in Metas : a < k /\ Up(k) => thr'[a][b][1] = ServeFrame
    PROVE  ThreadInv'
<1>1. \A a \in Metas : Up(a)' = Up(a)
  BY DEF Up
<1>2. \A a \in Metas, b \in Rpcs : Up(a) => Joining(a, b, thr[a][b][1])'
  BY DEF Joining
<1>3. \A a \in Metas, b \in Rpcs : Len(thr'[a][b]) = 2 => Back(a, thr[a][b][2])'
  <2>1. ASSUME NEW a \in Metas, NEW f, Back(a, f)
        PROVE  Back(a, f)'
    BY <1>1, <2>1 DEF Back
  <2> QED
    BY <2>1
<1> QED
  BY <1>1, <1>2, <1>3 DEF ThreadInv

LEMMA PutFacts ==
    ASSUME StartTypes, ThreadInv, NEW s \in Metas, NEW r \in Rpcs, thr[s][r] # <<>>,
           NEW g \in Frames, thr' = Put(thr, s, r, g)
    PROVE  /\ thr' \in ThrType
           /\ \A a \in Metas, b \in Rpcs : <<a, b>> # <<s, r>> => thr'[a][b] = thr[a][b]
           /\ Len(thr'[s][r]) = Len(thr[s][r]) /\ Top(thr'[s][r]) = g
           /\ thr'[s][r] # <<>>
           /\ Len(thr[s][r]) = 1 => thr'[s][r][1] = g
           /\ Len(thr[s][r]) = 2 => thr'[s][r][1] = thr[s][r][1] /\ thr'[s][r][2] = g
<1> DEFINE q == Append(Below(thr[s][r]), g)
<1>1. thr \in ThrType
  BY DEF StartTypes, ThrType
<1>2. thr' = [thr EXCEPT ![s][r] = q]
  BY DEF Put
<1>3. Len(thr[s][r]) \in {1, 2} /\ thr[s][r] \in Seq(Frames)
  BY TopFrame
<1>4. /\ q \in Seq(Frames) /\ Len(q) = Len(thr[s][r]) /\ Top(q) = g
      /\ Len(thr[s][r]) = 1 => q[1] = g
      /\ Len(thr[s][r]) = 2 => q[1] = thr[s][r][1] /\ q[2] = g
  BY <1>3, StackPut
<1> HIDE DEF q
<1>5. thr' \in ThrType /\ thr'[s][r] = q
  BY SMT, <1>1, <1>2, <1>4 DEF ThrType
<1>6. \A a \in Metas, b \in Rpcs : <<a, b>> # <<s, r>> => thr'[a][b] = thr[a][b]
  BY <1>1, <1>2 DEF ThrType
<1>7. q # <<>>
  BY SMT, <1>3, <1>4
<1> QED
  BY <1>4, <1>5, <1>6, <1>7

(* A step of one thread that is not in its event loop, to a frame that has    *)
(* passed the same servers.                                                   *)
LEMMA PutStep ==
    ASSUME StartInv, NEW s \in Metas, NEW r \in Rpcs, thr[s][r] # <<>>,
           NEW g \in Frames, NEW f, f = Top(thr[s][r]), thr' = Put(thr, s, r, g),
           UNCHANGED <<main, peers>>, SessGrow,
           f.pc # "serve",
           Len(thr[s][r]) = 1 =>
             /\ Joining(s, r, g)
             /\ \A i \in 0 .. s - 1 : /\ Passed(g, i) <=> Passed(f, i)
                                      /\ Reached(g, i) => Reached(f, i) \/ ConnectedTo(s, r, i)',
           Len(thr[s][r]) = 2 =>
             g.pc \in {"turn", "connect"} /\ g.i = f.i /\ g.n = f.n /\ g.j \in Rpcs,
           r = 0 /\ g.pc \in {"turn", "connect"} =>
             \A j \in 0 .. g.j - 1 : <<g.i, j>> \in sess'[s][0]
    PROVE  ThreadInv' /\ PassedInv' /\ BackInv' /\ ReachedInv'
<1>1. StartTypes /\ ThreadInv /\ MainInv /\ PassedInv /\ BackInv /\ ReachedInv
  BY DEF StartInv
<1>2. /\ Up(s) /\ Len(thr[s][r]) \in {1, 2}
      /\ Len(thr[s][r]) = 1 => f = thr[s][r][1]
      /\ Len(thr[s][r]) = 2 => f = thr[s][r][2] /\ Back(s, f)
  BY SMT, <1>1, TopFrame
<1>3. Len(thr[s][r]) = 1 => \A k \in Metas : ~(s < k /\ Up(k))
  BY SMT, <1>1, <1>2 DEF ThreadInv, ServeFrame, Frame
<1>4. /\ \A a \in Metas, b \in Rpcs : <<a, b>> # <<s, r>> => thr'[a][b] = thr[a][b]
      /\ Len(thr'[s][r]) = Len(thr[s][r]) /\ thr'[s][r] # <<>>
      /\ Len(thr[s][r]) = 1 => thr'[s][r][1] = g
      /\ Len(thr[s][r]) = 2 => thr'[s][r][1] = thr[s][r][1] /\ thr'[s][r][2] = g
  BY <1>1, PutFacts
<1>5. \A a \in Metas : Up(a)' = Up(a)
  BY DEF Up
<1>6. Len(thr[s][r]) = 2 => Back(s, g)
  BY <1>2 DEF Back
<1>7. ThreadInv'
  <2>1. ASSUME NEW a \in Metas, NEW b \in Rpcs
        PROVE  /\ ~Up(a) => thr'[a][b] = <<>>
               /\ Up(a) => Len(thr'[a][b]) \in {1, 2} /\ Joining(a, b, thr'[a][b][1])
               /\ Len(thr'[a][b]) = 2 => Back(a, thr'[a][b][2])
               /\ \A k \in Metas : a < k /\ Up(k) => thr'[a][b][1] = ServeFrame
    <3>1. CASE <<a, b>> = <<s, r>>
      BY SMT, <1>1, <1>2, <1>3, <1>4, <1>6, <3>1 DEF ThreadInv
    <3>2. CASE <<a, b>> # <<s, r>>
      BY SMT, <1>1, <1>4, <3>2 DEF ThreadInv
    <3> QED
      BY <3>1, <3>2
  <2> QED
    BY <2>1, ThreadClose
<1>8. \A a \in Metas, b \in Rpcs, i \in Metas : ConnectedTo(a, b, i) => ConnectedTo(a, b, i)'
  BY StartupAssumption DEF ConnectedTo, SessGrow, Rpcs
<1>9. \A a \in Metas, b \in Rpcs : Up(a) => \A i \in 0 .. a - 1 :
         (Passed(thr'[a][b][1], i) <=> Passed(thr[a][b][1], i))
  BY SMT, <1>2, <1>4
<1>10. \A a \in Metas, b \in Rpcs :
         /\ Len(thr'[a][b]) = Len(thr[a][b])
         /\ Len(thr[a][b]) = 2 => thr'[a][b][2].i = thr[a][b][2].i
  BY <1>2, <1>4
<1>11. \A a \in Metas : \A i \in 0 .. a - 1 : i \in Metas
  BY SMT, StartupAssumption DEF Metas
<1>12. PassedInv'
  <2>1. ASSUME NEW a \in Metas, NEW b \in Rpcs, Up(a), NEW i \in 0 .. a - 1,
               Passed(thr'[a][b][1], i)
        PROVE  /\ b = 0 => peers[i].n >= a + 1
               /\ \/ Len(thr'[i][b]) = 2 /\ thr'[i][b][2].i = a
                  \/ ConnectedTo(i, b, a)'
    BY <1>1, <1>8, <1>9, <1>10, <1>11, <2>1 DEF PassedInv
  <2> QED
    BY <1>5, <2>1 DEF PassedInv
<1>13. BackInv'
  <2>1. ASSUME NEW a \in Metas, NEW b \in Rpcs, Len(thr'[a][b]) = 2
        PROVE  /\ Passed(thr'[thr'[a][b][2].i][b][1], a)
               /\ b = 0 => \A j \in 0 .. thr'[a][b][2].j - 1 :
                             <<thr'[a][b][2].i, j>> \in sess'[a][0]
    <3> DEFINE t == thr[a][b][2].i
    <3>1. Len(thr[a][b]) = 2 /\ thr'[a][b][2].i = t
      BY <1>10, <2>1
    <3>2. t \in Metas /\ t > a /\ Up(t)
      BY <1>1, <3>1 DEF ThreadInv, Back
    <3>3. Passed(thr[t][b][1], a)
      BY <1>1, <3>1 DEF BackInv
    <3>4. Passed(thr'[t][b][1], a)
      <4>1. a \in 0 .. t - 1
        BY SMT, <3>2 DEF Metas
      <4> HIDE DEF t
      <4> QED
        BY <1>9, <3>2, <3>3, <4>1
    <3>5. CASE <<a, b>> = <<s, r>>
      BY <1>4, <1>6, <3>1, <3>4, <3>5 DEF Back
    <3>6. CASE <<a, b>> # <<s, r>>
      BY <1>1, <1>4, <3>1, <3>4, <3>6, StartupAssumption DEF BackInv, SessGrow, Rpcs
    <3> QED
      BY <3>5, <3>6
  <2> QED
    BY <2>1 DEF BackInv
<1>14. ReachedInv'
  <2>1. ASSUME NEW a \in Metas, NEW b \in Rpcs, Up(a), NEW i \in 0 .. a - 1
        PROVE  /\ Reached(thr'[a][b][1], i) => ConnectedTo(a, b, i)'
               /\ b = 0 /\ thr'[a][b][1].pc \in {"turn", "connect"} /\ thr'[a][b][1].i = i =>
                     \A j \in 0 .. thr'[a][b][1].j - 1 : <<i, j>> \in sess'[a][0]
    <3>1. i \in Metas
      BY <1>11
    <3>2. Reached(thr[a][b][1], i) => ConnectedTo(a, b, i)'
      BY <1>1, <1>8, <2>1, <3>1 DEF ReachedInv
    <3>3. CASE <<a, b>> = <<s, r>> /\ Len(thr[s][r]) = 1
      BY <1>2, <1>4, <3>2, <3>3
    <3>4. CASE <<a, b>> # <<s, r>> \/ Len(thr[s][r]) = 2
      <4>1. thr'[a][b][1] = thr[a][b][1]
        BY <1>4, <3>4
      <4>2. b = 0 => sess[a][0] \subseteq sess'[a][0]
        BY DEF SessGrow
      <4> QED
        BY <1>1, <2>1, <3>2, <4>1, <4>2 DEF ReachedInv
    <3> QED
      BY <1>2, <3>3, <3>4
  <2> QED
    BY <1>5, <2>1 DEF ReachedInv
<1> QED
  BY <1>7, <1>12, <1>13, <1>14

(* After a step of thread r of server s the messages that are left are those  *)
(* of other threads, or are awaited.                                          *)
LEMMA PutMessages ==
    ASSUME StartTypes, ThreadInv, MessageInv, NEW s \in Metas, NEW r \in Rpcs,
           thr[s][r] # <<>>, NEW g \in Frames, thr' = Put(thr, s, r, g), UNCHANGED main,
           inbox' \in InboxType,
           \A i \in Metas, q \in Rpcs : \A m \in inbox'[i][q] :
              \/ m \in inbox[i][q] /\ <<m.s, m.r>> # <<s, r>>
              \/ Awaited(i, q, m)'
    PROVE  MessageInv'
<1>1. \A a \in Metas, b \in Rpcs : <<a, b>> # <<s, r>> => thr'[a][b] = thr[a][b]
  BY PutFacts
<1>2. ASSUME NEW i \in Metas, NEW q \in Rpcs, NEW m \in inbox[i][q],
             <<m.s, m.r>> # <<s, r>>
      PROVE  Awaited(i, q, m)'
  <2>1. Awaited(i, q, m) /\ m.s \in Metas /\ m.r \in Rpcs
    BY MessageType DEF MessageInv
  <2>2. thr'[m.s][m.r] = thr[m.s][m.r] /\ Up(m.s)' = Up(m.s)
    BY <1>1, <1>2, <2>1 DEF Up
  <2> QED
    BY <2>1, <2>2 DEF Awaited, Remote
<1> QED
  BY <1>2 DEF MessageInv

(* PutStep where the thread has one frame and no session is created.          *)
LEMMA PutOne ==
    ASSUME StartInv, NEW s \in Metas, NEW r \in Rpcs, thr[s][r] # <<>>,
           NEW g \in Frames, NEW f, f = Top(thr[s][r]), thr' = Put(thr, s, r, g),
           UNCHANGED <<main, peers, sess>>, f.pc # "serve", Len(thr[s][r]) # 2,
           Joining(s, r, g),
           \A i \in 0 .. s - 1 : (Passed(g, i) <=> Passed(f, i)) /\ (Reached(g, i) => Reached(f, i)),
           g.pc \in {"turn", "connect"} => g.j = 0
    PROVE  ThreadInv' /\ PassedInv' /\ BackInv' /\ ReachedInv'
<1>1. SessGrow /\ UNCHANGED <<main, peers>>
  BY DEF StartInv, StartTypes, SessGrow
<1>2. g.pc \in {"turn", "connect"} => \A j \in 0 .. g.j - 1 : FALSE
  BY SMT
<1> QED
  BY <1>1, <1>2, PutStep

LEMMA RpcClose ==
    ASSUME StartInv, UNCHANGED <<main, dev, peers>>, thr' \in ThrType, inbox' \in InboxType,
           SessGrow, \A s \in Metas, r \in Rpcs : \A p \in sess'[s][r] : p[1] # s,
           ThreadInv', MessageInv', PassedInv', BackInv', ReachedInv'
    PROVE  StartInv'
<1>1. StartTypes'
  BY DEF StartInv, StartTypes, ThrType, InboxType, SessGrow
<1>2. MainInv'
  BY DEF StartInv, MainInv, Up
<1> QED
  BY <1>1, <1>2 DEF StartInv

(* Sessions and messages where a step leaves them alone.                      *)
LEMMA SameSessions ==
    ASSUME StartInv, UNCHANGED sess
    PROVE  SessGrow /\ \A s \in Metas, r \in Rpcs : \A p \in sess'[s][r] : p[1] # s
BY DEF StartInv, StartTypes, SessGrow

(* The steps of a thread that create no session.                              *)
LEMMA ThreadsKeep ==
    StartInv => \A s \in Metas :
        /\ AnnounceGuardian(s) => StartInv'
        /\ \A r \in Rpcs : \/ Begin(s, r) \/ CreateSession(s, r) \/ AcceptSession(s, r)
                           \/ Answered(s, r)
                           => StartInv'

<1>BeginStep.
        ASSUME StartInv, NEW s \in Metas, NEW r \in Rpcs, Begin(s, r)
        PROVE  StartInv'
  <2> DEFINE f == Top(thr[s][r])
             g == IF s = 0 THEN Frame("serve", 0, 0) ELSE Frame("turn", 0, 0)
  <2>1. /\ thr[s][r] # <<>> /\ f.pc = "new" /\ thr' = Put(thr, s, r, g)
        /\ UNCHANGED <<main, dev, peers, inbox, sess>>
    BY <1>BeginStep DEF Begin, Doing
  <2>2. Len(thr[s][r]) = 1 /\ StartTypes /\ ThreadInv /\ MessageInv
    BY <1>BeginStep, <2>1, TopFrame DEF StartInv, Back
  <2>3. /\ g \in Frames /\ g.j = 0 /\ g.n = 0 /\ ~g.flag
        /\ s = 0 => g = ServeFrame
        /\ s # 0 => g.pc = "turn" /\ g.i = 0
    BY SMT DEF Frame, Frames, ServeFrame
  <2>4. 0 \in Rpcs /\ (s # 0 => 0 \in 0 .. s - 1)
    BY SMT, StartupAssumption DEF Rpcs, Metas
  <2> HIDE DEF f, g
  <2>5. Joining(s, r, g)
    <3>1. CASE s = 0
      BY SMT, <2>3, <3>1 DEF Joining, ServeFrame, Frame
    <3>2. CASE s # 0
      BY <2>3, <2>4, <3>2 DEF Joining
    <3> QED
      BY <3>1, <3>2
  <2>6. \A i \in 0 .. s - 1 : ~Passed(g, i) /\ ~Passed(f, i) /\ ~Reached(g, i)
    BY SMT, <2>1, <2>3 DEF Passed, Reached, Busy
  <2>7. /\ f = Top(thr[s][r]) /\ f.pc # "serve" /\ Len(thr[s][r]) # 2
        /\ UNCHANGED <<main, peers, sess>>
    BY SMT, <2>1, <2>2 DEF f
  <2>8. ThreadInv' /\ PassedInv' /\ BackInv' /\ ReachedInv'
    BY <1>BeginStep, <2>1, <2>3, <2>5, <2>6, <2>7, PutOne
  <2>9. inbox' \in InboxType /\ thr' \in ThrType
    BY <2>1, <2>2, <2>3, PutFacts DEF StartTypes, InboxType
  <2>10. MessageInv'
    BY SMT, <2>1, <2>2, <2>3, <2>9, NoMessage, PutMessages DEF f
  <2> QED
    BY <1>BeginStep, <2>1, <2>8, <2>9, <2>10, SameSessions, RpcClose

<1>CreateSessionStep.
        ASSUME StartInv, NEW s \in Metas, NEW r \in Rpcs, CreateSession(s, r)
        PROVE  StartInv'
  <2> DEFINE f == Top(thr[s][r])
             g == [f EXCEPT !.pc = "connect", !.flag = FALSE]
             to == Remote(r, f)
             msg == [kind |-> "session", s |-> s, r |-> r, n |-> 0]
  <2>1. /\ thr[s][r] # <<>> /\ f.pc = "turn" /\ thr' = Put(thr, s, r, g)
        /\ \/ inbox' = [inbox EXCEPT ![f.i][to] = @ \cup {msg}]
           \/ inbox' = inbox
        /\ UNCHANGED <<main, dev, peers, sess>>
    BY <1>CreateSessionStep DEF CreateSession, Doing
  <2>2. /\ Len(thr[s][r]) \in {1, 2} /\ StartTypes /\ ThreadInv /\ MessageInv
        /\ f \in Frames /\ f.i \in Metas /\ f.j \in Rpcs
        /\ Len(thr[s][r]) = 1 => f = thr[s][r][1] /\ Joining(s, r, f)
        /\ Len(thr[s][r]) = 2 => f = thr[s][r][2]
        /\ Up(s)
    BY SMT, <1>CreateSessionStep, <2>1, TopFrame, StartupAssumption DEF StartInv, Back, Joining, Metas
  <2>3. /\ g \in Frames /\ g.pc = "connect" /\ ~g.flag
        /\ g.i = f.i /\ g.j = f.j /\ g.n = f.n /\ Remote(r, g) = to
    BY <2>2 DEF Frames, Remote
  <2>4. msg \in Messages /\ to \in Rpcs
    <3>1. to \in Rpcs
      BY <2>2, RemoteSelf
    <3> QED
      BY SMT, <3>1 DEF Messages, Kinds
  <2>5. msg.s = s /\ msg.r = r /\ msg.kind = "session" /\ msg.n = 0
    OBVIOUS
  <2> HIDE DEF f, g, to, msg
  <2>6. Len(thr[s][r]) = 1 => Joining(s, r, g)
    BY <2>1, <2>2, <2>3 DEF Joining
  <2>7. \A i \in 0 .. s - 1 : (Passed(g, i) <=> Passed(f, i)) /\ (Reached(g, i) => Reached(f, i))
    BY <2>1, <2>3 DEF Passed, Reached, Busy
  <2>8. r = 0 => \A j \in 0 .. f.j - 1 : <<f.i, j>> \in sess[s][0]
    <3>1. CASE Len(thr[s][r]) = 1
      BY <1>CreateSessionStep, <2>1, <2>2, <3>1 DEF StartInv, ReachedInv, Joining
    <3>2. CASE Len(thr[s][r]) = 2
      BY <1>CreateSessionStep, <2>1, <2>2, <3>2 DEF StartInv, BackInv
    <3> QED
      BY <2>2, <3>1, <3>2
  <2>9. ThreadInv' /\ PassedInv' /\ BackInv' /\ ReachedInv'
    BY <1>CreateSessionStep, <2>1, <2>2, <2>3, <2>6, <2>7, <2>8, SameSessions, PutStep DEF f
  <2>10. inbox' \in InboxType /\ thr' \in ThrType
    <3>1. inbox \in InboxType
      BY <2>2 DEF StartTypes, InboxType
    <3>2. thr' \in ThrType
      BY <2>1, <2>2, <2>3, PutFacts
    <3>3. inbox' \in InboxType
      BY SMT, <1>CreateSessionStep, <2>1, <2>2, <2>4, <3>1 DEF InboxType
    <3> QED
      BY <3>2, <3>3
  <2>11. MessageInv'
    <3>1. Top(thr'[s][r]) = g
      BY SMT, <2>1, <2>2, <2>3, PutFacts
    <3>2. ASSUME NEW i, NEW q, NEW m, i = f.i, q = to, m = msg
          PROVE  Awaited(i, q, m)'
      BY <2>1, <2>2, <2>3, <2>5, <3>1, <3>2 DEF Awaited, Up, Remote
    <3>3. \A i \in Metas, q \in Rpcs : \A m \in inbox'[i][q] :
             \/ m \in inbox[i][q]
             \/ i = f.i /\ q = to /\ m = msg
      <4>1. inbox \in InboxType
        BY <2>2 DEF StartTypes, InboxType
      <4> QED
        BY SMT, <2>1, <2>2, <2>4, <4>1 DEF InboxType
    <3>4. \A i \in Metas, q \in Rpcs : \A m \in inbox[i][q] : <<m.s, m.r>> # <<s, r>>
      BY <2>1, <2>2, NoMessage DEF f
    <3>5. \A i \in Metas, q \in Rpcs : \A m \in inbox'[i][q] :
             \/ m \in inbox[i][q] /\ <<m.s, m.r>> # <<s, r>>
             \/ Awaited(i, q, m)'
      BY <3>2, <3>3, <3>4
    <3> QED
      BY <2>1, <2>2, <2>3, <2>10, <3>5, PutMessages
  <2> QED
    BY <1>CreateSessionStep, <2>1, <2>9, <2>10, <2>11, SameSessions, RpcClose

(* A session's other side answers: the flag of the thread that created it.    *)
<1>AcceptSessionStep.
        ASSUME StartInv, NEW s \in Metas, NEW r \in Rpcs, AcceptSession(s, r)
        PROVE  StartInv'
  <2>1. PICK m \in inbox[s][r] :
           /\ m.kind = "session" /\ inbox' = [inbox EXCEPT ![s][r] = @ \ {m}]
           /\ thr' = Flag(thr, m.s, m.r)
    BY <1>AcceptSessionStep DEF AcceptSession
  <2> DEFINE f == Top(thr[m.s][m.r])
             g == [f EXCEPT !.flag = TRUE]
  <2>2. UNCHANGED <<main, dev, peers, sess>>
    BY <1>AcceptSessionStep DEF AcceptSession
  <2>3. StartTypes /\ ThreadInv /\ MessageInv /\ m.s \in Metas /\ m.r \in Rpcs
    BY <1>AcceptSessionStep, MessageType DEF StartInv
  <2>4. Up(m.s) /\ f.pc = "connect" /\ thr[m.s][m.r] # <<>>
    <3>1. Awaited(s, r, m)
      BY <2>3 DEF MessageInv
    <3>2. Up(m.s) /\ f.pc = "connect"
      BY <2>1, <3>1 DEF Awaited
    <3>3. Len(thr[m.s][m.r]) \in {1, 2}
      BY <2>3, <3>2 DEF ThreadInv
    <3>4. \A q : Len(q) \in {1, 2} => q # <<>>
      BY SMT
    <3> QED
      BY SMT, <3>2, <3>3, <3>4
  <2>5. /\ Len(thr[m.s][m.r]) \in {1, 2} /\ f \in Frames
        /\ Len(thr[m.s][m.r]) = 1 => f = thr[m.s][m.r][1] /\ Joining(m.s, m.r, f)
        /\ Len(thr[m.s][m.r]) = 2 => f = thr[m.s][m.r][2] /\ Back(m.s, f)
    BY SMT, <2>3, <2>4, TopFrame
  <2>6. /\ g \in Frames /\ g.pc = "connect"
        /\ g.i = f.i /\ g.j = f.j /\ g.n = f.n
    BY <2>4, <2>5 DEF Frames
  <2>7. thr' = Put(thr, m.s, m.r, g)
    BY <2>1 DEF Flag, Put
  <2> HIDE DEF f, g
  <2>8. /\ Len(thr[m.s][m.r]) = 1 => Joining(m.s, m.r, g)
        /\ f.j \in Rpcs
    BY <2>4, <2>5, <2>6 DEF Joining, Back
  <2>9. \A i \in 0 .. m.s - 1 :
           (Passed(g, i) <=> Passed(f, i)) /\ (Reached(g, i) => Reached(f, i))
    BY <2>4, <2>6 DEF Passed, Reached, Busy
  <2>10. m.r = 0 => \A j \in 0 .. f.j - 1 : <<f.i, j>> \in sess[m.s][0]
    <3>1. CASE Len(thr[m.s][m.r]) = 1
      BY <1>AcceptSessionStep, <2>3, <2>4, <2>5, <3>1 DEF StartInv, ReachedInv, Joining
    <3>2. CASE Len(thr[m.s][m.r]) = 2
      BY <1>AcceptSessionStep, <2>3, <2>5, <3>2 DEF StartInv, BackInv
    <3> QED
      BY <2>5, <3>1, <3>2
  <2>11. ThreadInv' /\ PassedInv' /\ BackInv' /\ ReachedInv'
    <3> DEFINE a == m.s
               b == m.r
    <3>1. /\ a \in Metas /\ b \in Rpcs /\ thr[a][b] # <<>> /\ f = Top(thr[a][b])
          /\ thr' = Put(thr, a, b, g)
          /\ Len(thr[a][b]) = 1 => Joining(a, b, g)
          /\ \A i \in 0 .. a - 1 :
                (Passed(g, i) <=> Passed(f, i)) /\ (Reached(g, i) => Reached(f, i))
          /\ b = 0 => \A j \in 0 .. f.j - 1 : <<f.i, j>> \in sess[a][0]
      BY <2>3, <2>4, <2>7, <2>8, <2>9, <2>10 DEF f
    <3> HIDE DEF a, b
    <3> QED
      BY <1>AcceptSessionStep, <2>2, <2>4, <2>6, <2>8, <3>1, SameSessions, PutStep
  <2>12. inbox' \in InboxType /\ thr' \in ThrType
    <3>1. inbox \in InboxType
      BY <2>3 DEF StartTypes, InboxType
    <3> QED
      BY SMT, <2>1, <2>3, <2>4, <2>6, <2>7, <3>1, PutFacts DEF InboxType
  <2>13. MessageInv'
    <3>1. \A i \in Metas, q \in Rpcs : \A n \in inbox'[i][q] :
             n \in inbox[i][q] /\ ~(i = s /\ q = r /\ n = m)
      <4>1. inbox \in InboxType
        BY <2>3 DEF StartTypes, InboxType
      <4> QED
        BY <2>1, <4>1 DEF InboxType
    <3>2. \A i \in Metas, q \in Rpcs : \A n \in inbox'[i][q] :
             n \in inbox[i][q] /\ <<n.s, n.r>> # <<m.s, m.r>>
      BY SMT, <2>3, <3>1, OneMessage
    <3> QED
      BY SMT, <2>2, <2>3, <2>4, <2>6, <2>7, <2>12, <3>2, PutMessages
  <2> QED
    BY <1>AcceptSessionStep, <2>2, <2>11, <2>12, <2>13, SameSessions, RpcClose

(* The guardian calls, once its server's threads can be reached.              *)
<1>AnnounceGuardianStep.
        ASSUME StartInv, NEW s \in Metas, AnnounceGuardian(s)
        PROVE  StartInv'
  <2>0. SUFFICES ASSUME NEW r \in Rpcs, r = 0 PROVE StartInv'
    BY SMT, StartupAssumption DEF Rpcs
  <2> DEFINE f == Top(thr[s][r])
             g == [f EXCEPT !.pc = "call"]
             msg == [kind |-> "guardian", s |-> s, r |-> r, n |-> s + 1]
  <2>1. /\ thr[s][r] # <<>> /\ f.pc = "local" /\ thr' = Put(thr, s, r, g)
        /\ UNCHANGED <<main, dev, peers, sess>>
    BY <1>AnnounceGuardianStep, <2>0 DEF AnnounceGuardian, Doing
  <2>12. inbox' = [inbox EXCEPT ![f.i][r] = @ \cup {msg}]
    BY <1>AnnounceGuardianStep, <2>0 DEF AnnounceGuardian, Send
  <2>2. /\ r \in Rpcs /\ Len(thr[s][r]) = 1 /\ StartTypes /\ ThreadInv /\ MessageInv
        /\ f \in Frames /\ f.i \in Metas /\ f = thr[s][r][1] /\ Joining(s, r, f) /\ Up(s)
    BY SMT, <1>AnnounceGuardianStep, <2>0, <2>1, TopFrame, StartupAssumption DEF StartInv, Back, Joining, Metas
  <2>3. /\ g \in Frames /\ g.pc = "call" /\ ~g.flag /\ f.j = 0
        /\ g.i = f.i /\ g.j = f.j /\ g.n = f.n /\ Remote(r, g) = r
    BY <2>0, <2>1, <2>2 DEF Frames, Remote, Joining
  <2>4. msg \in Messages
    BY SMT, <2>0, <2>2 DEF Messages, Kinds, Metas
  <2>5. msg.s = s /\ msg.r = r /\ msg.kind = "guardian" /\ msg.n = s + 1
    OBVIOUS
  <2> HIDE DEF f, g, msg
  <2>6. Joining(s, r, g)
    BY <2>0, <2>1, <2>2, <2>3 DEF Joining
  <2>7. \A i \in 0 .. s - 1 : (Passed(g, i) <=> Passed(f, i)) /\ (Reached(g, i) => Reached(f, i))
    BY <2>1, <2>3 DEF Passed, Reached, Busy
  <2>8. ThreadInv' /\ PassedInv' /\ BackInv' /\ ReachedInv'
    <3>1. /\ f = Top(thr[s][r]) /\ f.pc # "serve" /\ Len(thr[s][r]) # 2
          /\ UNCHANGED <<main, peers, sess>> /\ ~(g.pc \in {"turn", "connect"})
      BY SMT, <2>1, <2>2, <2>3 DEF f
    <3> QED
      BY <1>AnnounceGuardianStep, <2>1, <2>2, <2>3, <2>6, <2>7, <3>1, PutOne
  <2>9. inbox \in InboxType
    BY <2>2 DEF StartTypes, InboxType
  <2>10. inbox' \in InboxType /\ thr' \in ThrType
    <3>1. thr' \in ThrType
      BY <2>1, <2>2, <2>3, PutFacts
    <3>2. inbox' \in InboxType
      BY <2>2, <2>4, <2>9, <2>12 DEF InboxType
    <3> QED
      BY <3>1, <3>2
  <2>11. MessageInv'
    <3>1. Top(thr'[s][r]) = g
      BY SMT, <2>1, <2>2, <2>3, PutFacts
    <3>2. ASSUME NEW i, NEW q, NEW m, i = f.i, q = r, m = msg
          PROVE  Awaited(i, q, m)'
      BY <2>0, <2>1, <2>2, <2>3, <2>5, <3>1, <3>2 DEF Awaited, Up, Remote
    <3>3. \A i \in Metas, q \in Rpcs : \A m \in inbox'[i][q] :
             \/ m \in inbox[i][q]
             \/ i = f.i /\ q = r /\ m = msg
      BY <2>1, <2>2, <2>4, <2>9, <2>12 DEF InboxType
    <3>4. \A i \in Metas, q \in Rpcs : \A m \in inbox[i][q] : <<m.s, m.r>> # <<s, r>>
      BY <2>1, <2>2, NoMessage DEF f
    <3>5. \A i \in Metas, q \in Rpcs : \A m \in inbox'[i][q] :
             \/ m \in inbox[i][q] /\ <<m.s, m.r>> # <<s, r>>
             \/ Awaited(i, q, m)'
      BY <3>2, <3>3, <3>4
    <3> QED
      BY SMT, <2>1, <2>2, <2>3, <2>10, <3>5, PutMessages
  <2> QED
    BY <1>AnnounceGuardianStep, <2>1, <2>8, <2>10, <2>11, SameSessions, RpcClose

(* The answer: on to the next server, or into the event loop.                 *)
<1>AnsweredStep.
        ASSUME StartInv, NEW s \in Metas, NEW r \in Rpcs, Answered(s, r)
        PROVE  StartInv'
  <2> DEFINE f == Top(thr[s][r])
             g == NextPeer(s, f)
  <2>1. /\ thr[s][r] # <<>> /\ f.pc = "call" /\ f.flag /\ thr' = Put(thr, s, r, g)
        /\ UNCHANGED <<main, dev, peers, inbox, sess>>
    BY <1>AnsweredStep DEF Answered, Doing
  <2>2. /\ Len(thr[s][r]) = 1 /\ StartTypes /\ ThreadInv /\ MessageInv
        /\ f \in Frames /\ f = thr[s][r][1] /\ Joining(s, r, f) /\ f.i \in 0 .. s - 1
    BY <1>AnsweredStep, <2>1, TopFrame DEF StartInv, Back, Joining
  <2>3. /\ g \in Frames /\ g.j = 0 /\ g.n = 0 /\ ~g.flag
        /\ f.i + 1 < s => g.pc = "turn" /\ g.i = f.i + 1
        /\ ~(f.i + 1 < s) => g = ServeFrame
    BY SMT, <2>2 DEF NextPeer, Frame, Frames, ServeFrame
  <2>4. 0 \in Rpcs /\ s \in Int
    BY SMT, StartupAssumption DEF Rpcs, Metas
  <2> HIDE DEF f, g
  <2>5. Joining(s, r, g)
    <3>1. CASE f.i + 1 < s
      BY SMT, <2>2, <2>3, <2>4, <3>1 DEF Joining
    <3>2. CASE ~(f.i + 1 < s)
      BY SMT, <2>3, <3>2 DEF Joining, ServeFrame, Frame
    <3> QED
      BY <3>1, <3>2
  <2>6. \A i \in 0 .. s - 1 : (Passed(g, i) <=> Passed(f, i)) /\ (Reached(g, i) => Reached(f, i))
    <3>1. CASE f.i + 1 < s
      BY SMT, <2>1, <2>2, <2>3, <3>1 DEF Passed, Reached, Busy
    <3>2. CASE ~(f.i + 1 < s)
      BY SMT, <2>1, <2>2, <2>3, <2>4, <3>2 DEF Passed, Reached, Busy, ServeFrame, Frame
    <3> QED
      BY <3>1, <3>2
  <2>7. /\ f = Top(thr[s][r]) /\ f.pc # "serve" /\ Len(thr[s][r]) # 2
        /\ UNCHANGED <<main, peers, sess>>
    BY SMT, <2>1, <2>2 DEF f
  <2>8. ThreadInv' /\ PassedInv' /\ BackInv' /\ ReachedInv'
    BY <1>AnsweredStep, <2>1, <2>3, <2>5, <2>6, <2>7, PutOne
  <2>9. inbox' \in InboxType /\ thr' \in ThrType
    BY <2>1, <2>2, <2>3, PutFacts DEF StartTypes, InboxType
  <2>10. MessageInv'
    BY SMT, <2>1, <2>2, <2>3, <2>9, NoMessage, PutMessages DEF f
  <2> QED
    BY <1>AnsweredStep, <2>1, <2>8, <2>9, <2>10, SameSessions, RpcClose
<1> QED
  BY <1>BeginStep, <1>CreateSessionStep, <1>AcceptSessionStep,
     <1>AnnounceGuardianStep, <1>AnsweredStep

(* SessionHandler.                                                            *)
LEMMA ConnectedKeep ==
    StartInv => \A s \in Metas : /\ ConnectedGuardian(s) => StartInv'
                                 /\ \A r \in Rpcs : ConnectedEvent(s, r) => StartInv'

<1>SessionFacts.
        ASSUME StartInv, NEW s \in Metas, NEW r \in Rpcs, thr[s][r] # <<>>,
               NEW f, f = Top(thr[s][r]), SessionUp(s, r, f)
        PROVE  /\ f.pc = "connect" /\ f \in Frames
               /\ f.i \in Metas /\ f.i # s /\ f.j \in Rpcs
               /\ SessGrow /\ <<f.i, Remote(r, f)>> \in sess'[s][r]
               /\ \A a \in Metas, b \in Rpcs : \A p \in sess'[a][b] : p[1] # a
               /\ r = 0 => \A j \in 0 .. f.j : <<f.i, j>> \in sess'[s][0]
               /\ r # 0 => <<f.i, r>> \in sess'[s][r]
               /\ \A i \in Metas, q \in Rpcs : \A m \in inbox[i][q] : <<m.s, m.r>> # <<s, r>>
  <2>1. f.pc = "connect" /\ f.flag /\ StartTypes /\ ThreadInv /\ MessageInv
    BY <1>SessionFacts DEF SessionUp, Doing, StartInv
  <2>2. /\ Len(thr[s][r]) \in {1, 2} /\ f \in Frames /\ Up(s)
        /\ Len(thr[s][r]) = 1 => f = thr[s][r][1] /\ Joining(s, r, f)
        /\ Len(thr[s][r]) = 2 => f = thr[s][r][2] /\ Back(s, f)
    BY SMT, <1>SessionFacts, <2>1, TopFrame
  <2>3. f.i \in Metas /\ f.i # s /\ f.j \in Rpcs
    <3>1. Len(thr[s][r]) = 1 => f.i \in 0 .. s - 1 /\ f.j \in Rpcs
      BY <2>1, <2>2 DEF Joining
    <3>2. Len(thr[s][r]) = 2 => f.i \in Metas /\ f.i > s /\ f.j \in Rpcs
      BY <2>2 DEF Back
    <3> QED
      BY SMT, <2>2, <3>1, <3>2, StartupAssumption DEF Metas
  <2>4. Remote(r, f) \in Rpcs /\ (Remote(r, f) = IF r = 0 THEN f.j ELSE r)
    BY <2>2, <2>3, RemoteSelf
  <2>5. r = 0 => \A j \in 0 .. f.j - 1 : <<f.i, j>> \in sess[s][0]
    <3>1. CASE Len(thr[s][r]) = 1
      BY <1>SessionFacts, <2>1, <2>2, <3>1 DEF StartInv, ReachedInv, Joining
    <3>2. CASE Len(thr[s][r]) = 2
      BY <1>SessionFacts, <2>1, <2>2, <3>2 DEF StartInv, BackInv
    <3> QED
      BY <2>2, <3>1, <3>2
  <2> DEFINE p == <<f.i, Remote(r, f)>>
  <2>6. p \in Metas \X Rpcs /\ p[1] # s
    BY <2>3, <2>4
  <2>7. sess' = [sess EXCEPT ![s][r] = @ \cup {p}]
    BY <1>SessionFacts DEF SessionUp
  <2> HIDE DEF p
  <2>8. /\ sess' \in [Metas -> [Rpcs -> SUBSET (Metas \X Rpcs)]]
        /\ \A a \in Metas, b \in Rpcs :
              sess'[a][b] = IF a = s /\ b = r THEN sess[a][b] \cup {p} ELSE sess[a][b]
    BY <2>1, <2>6, <2>7 DEF StartTypes
  <2>9. SessGrow
    BY <2>8 DEF SessGrow
  <2>10. \A a \in Metas, b \in Rpcs : \A x \in sess'[a][b] : x[1] # a
    <3>1. \A a \in Metas, b \in Rpcs : \A x \in sess[a][b] : x[1] # a
      BY <2>1 DEF StartTypes
    <3>2. ASSUME NEW a \in Metas, NEW b \in Rpcs, NEW x \in sess'[a][b]
          PROVE  x \in sess[a][b] \/ (a = s /\ x = p)
      BY <2>8
    <3>3. p[1] # s
      BY <2>6
    <3> QED
      BY <3>1, <3>2, <3>3
  <2>11. p \in sess'[s][r]
    BY <2>8
  <2>12. r = 0 => \A j \in 0 .. f.j : <<f.i, j>> \in sess'[s][0]
    <3>1. SUFFICES ASSUME r = 0, NEW j \in 0 .. f.j PROVE <<f.i, j>> \in sess'[s][0]
      OBVIOUS
    <3>2. CASE j = f.j
      BY <2>4, <2>11, <3>1, <3>2 DEF p
    <3>3. CASE j # f.j
      <4>1. j \in 0 .. f.j - 1
        BY SMT, <2>3, <3>3 DEF Rpcs
      <4> QED
        BY <2>5, <2>8, <3>1, <4>1
    <3> QED
      BY <3>2, <3>3
  <2>13. r # 0 => <<f.i, r>> \in sess'[s][r]
    BY <2>4, <2>11 DEF p
  <2>14. \A i \in Metas, q \in Rpcs : \A m \in inbox[i][q] : <<m.s, m.r>> # <<s, r>>
    BY <1>SessionFacts, <2>1, NoMessage
  <2> QED
    BY <2>1, <2>2, <2>3, <2>9, <2>10, <2>11, <2>12, <2>13, <2>14 DEF p

(* A handler has connected back and returns to the event loop.                *)
<1>PopStep.
        ASSUME StartInv, NEW s \in Metas, NEW r \in Rpcs, Len(thr[s][r]) = 2,
               thr' = Pop(s, r), UNCHANGED <<main, dev, peers, inbox>>, SessGrow,
               \A a \in Metas, b \in Rpcs : \A p \in sess'[a][b] : p[1] # a,
               \A i \in Metas, q \in Rpcs : \A m \in inbox[i][q] : <<m.s, m.r>> # <<s, r>>,
               r = 0 => \A j \in Rpcs : <<thr[s][r][2].i, j>> \in sess'[s][0],
               r # 0 => <<thr[s][r][2].i, r>> \in sess'[s][r]
        PROVE  StartInv'
  <2>1. StartTypes /\ ThreadInv /\ MessageInv /\ MainInv /\ PassedInv /\ BackInv /\ ReachedInv
    BY <1>PopStep DEF StartInv
  <2>2. thr \in ThrType /\ inbox \in InboxType
    BY <2>1 DEF StartTypes, ThrType, InboxType
  <2> DEFINE q == Below(thr[s][r])
             t == thr[s][r][2].i
  <2>3. q \in Seq(Frames) /\ Len(q) = 1 /\ q[1] = thr[s][r][1]
    BY <1>PopStep, <2>2, StackPop DEF ThrType
  <2>4. thr' = [thr EXCEPT ![s][r] = q]
    BY <1>PopStep DEF Pop
  <2> HIDE DEF q
  <2>5. /\ thr' \in ThrType /\ thr'[s][r] = q
        /\ \A a \in Metas, b \in Rpcs : <<a, b>> # <<s, r>> => thr'[a][b] = thr[a][b]
    BY <2>2, <2>3, <2>4 DEF ThrType
  <2>6. \A a \in Metas, b \in Rpcs : thr'[a][b][1] = thr[a][b][1]
    BY <2>3, <2>5
  <2>7. \A a \in Metas : Up(a)' = Up(a)
    BY <1>PopStep DEF Up
  <2>8. Len(thr[s][r]) # 0 /\ Up(s)
    BY SMT, <1>PopStep, <2>1 DEF ThreadInv
  <2>9. \A a \in Metas, b \in Rpcs :
           /\ Len(thr'[a][b]) = 2 => thr'[a][b] = thr[a][b] /\ <<a, b>> # <<s, r>>
           /\ Up(a) => Len(thr'[a][b]) \in {1, 2}
           /\ ~Up(a) => thr'[a][b] = <<>>
    BY SMT, <2>1, <2>3, <2>5, <2>8 DEF ThreadInv
  <2>10. ThreadInv'
    <3>1. \A a \in Metas, b \in Rpcs :
            /\ ~Up(a) => thr'[a][b] = <<>>
            /\ Up(a) => Len(thr'[a][b]) \in {1, 2} /\ Joining(a, b, thr'[a][b][1])
            /\ Len(thr'[a][b]) = 2 => Back(a, thr'[a][b][2])
            /\ \A k \in Metas : a < k /\ Up(k) => thr'[a][b][1] = ServeFrame
      BY SMT, <2>1, <2>6, <2>9 DEF ThreadInv
    <3> QED
      BY <1>PopStep, <3>1, ThreadClose
  <2>11. MessageInv'
    <3>1. ASSUME NEW i \in Metas, NEW k \in Rpcs, NEW m \in inbox[i][k]
          PROVE  Awaited(i, k, m)'
      <4>1. Awaited(i, k, m) /\ m.s \in Metas /\ m.r \in Rpcs
        BY <2>1, MessageType DEF MessageInv
      <4>2. thr'[m.s][m.r] = thr[m.s][m.r] /\ Up(m.s)' = Up(m.s)
        BY <1>PopStep, <2>5, <2>7, <4>1
      <4> QED
        BY <4>1, <4>2 DEF Awaited, Remote
    <3> QED
      BY <1>PopStep, <3>1 DEF MessageInv
  <2>12. \A a \in Metas, b \in Rpcs, i \in Metas : ConnectedTo(a, b, i) => ConnectedTo(a, b, i)'
    BY <1>PopStep, StartupAssumption DEF ConnectedTo, SessGrow, Rpcs
  <2>13. \A a \in Metas : \A i \in 0 .. a - 1 : i \in Metas
    BY SMT, StartupAssumption DEF Metas
  <2>14. PassedInv'
    <3>1. ASSUME NEW a \in Metas, NEW b \in Rpcs, Up(a), NEW i \in 0 .. a - 1,
                 Passed(thr'[a][b][1], i)
          PROVE  /\ b = 0 => peers[i].n >= a + 1
                 /\ \/ Len(thr'[i][b]) = 2 /\ thr'[i][b][2].i = a
                    \/ ConnectedTo(i, b, a)'
      <4>1. i \in Metas
        BY <2>13
      <4>2. /\ b = 0 => peers[i].n >= a + 1
            /\ \/ Len(thr[i][b]) = 2 /\ thr[i][b][2].i = a
               \/ ConnectedTo(i, b, a)'
        BY <2>1, <2>6, <2>12, <3>1, <4>1 DEF PassedInv
      <4>3. CASE <<i, b>> # <<s, r>>
        BY <2>5, <4>1, <4>2, <4>3
      <4>4. CASE <<i, b>> = <<s, r>>
        BY <1>PopStep, <4>2, <4>4 DEF ConnectedTo
      <4> QED
        BY <4>3, <4>4
    <3> QED
      BY <1>PopStep, <2>7, <3>1 DEF PassedInv
  <2>15. BackInv'
    <3>1. ASSUME NEW a \in Metas, NEW b \in Rpcs, Len(thr'[a][b]) = 2
          PROVE  /\ Passed(thr'[thr'[a][b][2].i][b][1], a)
                 /\ b = 0 => \A j \in 0 .. thr'[a][b][2].j - 1 :
                               <<thr'[a][b][2].i, j>> \in sess'[a][0]
      <4>1. Len(thr[a][b]) = 2 /\ thr'[a][b] = thr[a][b]
        BY <2>9, <3>1
      <4>2. thr[a][b][2].i \in Metas
        BY <2>1, <4>1 DEF ThreadInv, Back
      <4>3. b = 0 => sess[a][0] \subseteq sess'[a][0]
        BY <1>PopStep DEF SessGrow
      <4> QED
        BY <2>1, <2>6, <4>1, <4>2, <4>3 DEF BackInv
    <3> QED
      BY <3>1 DEF BackInv
  <2>16. ReachedInv'
    <3>1. ASSUME NEW a \in Metas, NEW b \in Rpcs, Up(a), NEW i \in 0 .. a - 1
          PROVE  /\ Reached(thr'[a][b][1], i) => ConnectedTo(a, b, i)'
                 /\ b = 0 /\ thr'[a][b][1].pc \in {"turn", "connect"} /\ thr'[a][b][1].i = i =>
                       \A j \in 0 .. thr'[a][b][1].j - 1 : <<i, j>> \in sess'[a][0]
      <4>1. i \in Metas /\ (b = 0 => sess[a][0] \subseteq sess'[a][0])
        BY <1>PopStep, <2>13 DEF SessGrow
      <4> QED
        BY <2>1, <2>6, <2>12, <3>1, <4>1 DEF ReachedInv
    <3> QED
      BY <2>7, <3>1 DEF ReachedInv
  <2> QED
    BY <1>PopStep, <2>2, <2>5, <2>10, <2>11, <2>14, <2>15, <2>16, RpcClose

<1>GoFacts.
        ASSUME NEW f \in Frames, NEW j \in Int, NEW pc \in {"turn", "local", "call"}
        PROVE  /\ Go(f, pc, j) \in Frames
               /\ Go(f, pc, j).pc = pc /\ ~Go(f, pc, j).flag /\ Go(f, pc, j).j = j
               /\ Go(f, pc, j).i = f.i /\ Go(f, pc, j).n = f.n
  BY DEF Go, Frames

(* An event loop thread's session is up.                                      *)
<1>ConnectedEventStep.
        ASSUME StartInv, NEW s \in Metas, NEW r \in Rpcs, ConnectedEvent(s, r)
        PROVE  StartInv'
  <2>0. PICK f : f = Top(thr[s][r])
    OBVIOUS
  <2> DEFINE g == Go(f, "call", 0)
             to == Remote(r, f)
             msg == [kind |-> "meta", s |-> s, r |-> r, n |-> s + 1]
  <2>1. /\ r > 0 /\ thr[s][r] # <<>> /\ SessionUp(s, r, f) /\ UNCHANGED <<main, dev, peers>>
        /\ StartTypes /\ ThreadInv /\ MessageInv
    BY <1>ConnectedEventStep, <2>0 DEF ConnectedEvent, StartInv
  <2>2. /\ f.pc = "connect" /\ f \in Frames
        /\ f.i \in Metas /\ f.i # s /\ f.j \in Rpcs
        /\ SessGrow
        /\ \A a \in Metas, b \in Rpcs : \A p \in sess'[a][b] : p[1] # a
        /\ <<f.i, r>> \in sess'[s][r]
        /\ \A i \in Metas, q \in Rpcs : \A m \in inbox[i][q] : <<m.s, m.r>> # <<s, r>>
    <3>1. r # 0
      BY SMT, <2>1 DEF Rpcs
    <3>2. thr[s][r] # <<>> /\ SessionUp(s, r, f)
      BY <2>1
    <3>3. /\ f.pc = "connect" /\ f \in Frames
          /\ f.i \in Metas /\ f.i # s /\ f.j \in Rpcs
          /\ SessGrow
      BY <1>ConnectedEventStep, <2>0, <3>2, <1>SessionFacts
    <3>4. /\ \A a \in Metas, b \in Rpcs : \A p \in sess'[a][b] : p[1] # a
      BY <1>ConnectedEventStep, <2>0, <3>2, <1>SessionFacts
    <3>5. <<f.i, r>> \in sess'[s][r]
      BY <1>ConnectedEventStep, <2>0, <3>1, <3>2, <1>SessionFacts
    <3>6. \A i \in Metas, q \in Rpcs : \A m \in inbox[i][q] : <<m.s, m.r>> # <<s, r>>
      BY <1>ConnectedEventStep, <2>0, <3>2, <1>SessionFacts
    <3> QED
      BY <3>3, <3>4, <3>5, <3>6
  <2>3. /\ Len(thr[s][r]) \in {1, 2} /\ Up(s)
        /\ Len(thr[s][r]) = 1 => f = thr[s][r][1] /\ Joining(s, r, f)
        /\ Len(thr[s][r]) = 2 => f = thr[s][r][2] /\ Back(s, f)
    BY SMT, <2>0, <2>1, TopFrame
  <2>4. CASE f.n > 0
    <3>1. Len(thr[s][r]) = 2 /\ thr[s][r][2].i = f.i
      BY SMT, <2>3, <2>4 DEF Joining
    <3>2. thr' = Pop(s, r) /\ inbox' = inbox
      BY <1>ConnectedEventStep, <2>0, <2>4 DEF ConnectedEvent
    <3>3. r # 0 /\ <<thr[s][r][2].i, r>> \in sess'[s][r]
      BY SMT, <2>1, <2>2, <3>1 DEF Rpcs
    <3> QED
      BY <1>ConnectedEventStep, <2>1, <2>2, <3>1, <3>2, <3>3, <1>PopStep
  <2>5. CASE ~(f.n > 0)
    <3>1. Len(thr[s][r]) = 1 /\ f = thr[s][r][1] /\ Joining(s, r, f) /\ f.i \in 0 .. s - 1
      BY SMT, <2>2, <2>3, <2>5 DEF Joining, Back, Metas
    <3>2. thr' = Put(thr, s, r, g)
      BY <1>ConnectedEventStep, <2>0, <2>5 DEF ConnectedEvent
    <3>3. inbox' = [inbox EXCEPT ![f.i][to] = @ \cup {msg}]
      BY <1>ConnectedEventStep, <2>0, <2>5 DEF ConnectedEvent, Send
    <3>4. /\ g \in Frames /\ g.pc = "call" /\ ~g.flag /\ g.j = 0 /\ g.i = f.i /\ g.n = f.n
      <4>1. f \in Frames
        BY <2>2
      <4> QED
        BY SMT, <4>1, <1>GoFacts
    <3>5. to = r /\ Remote(r, g) = r
      BY SMT, <2>1, <2>2, <3>4, RemoteSelf DEF Rpcs
    <3>6. /\ msg \in Messages
          /\ msg.s = s /\ msg.r = r /\ msg.kind = "meta" /\ msg.n = s + 1
      BY SMT DEF Messages, Kinds, Metas
    <3>7. inbox \in InboxType
      BY <2>1 DEF StartTypes, InboxType
    <3> HIDE DEF g, to, msg
    <3>8. 0 \in Rpcs /\ r # 0
      BY SMT, <2>1, StartupAssumption DEF Rpcs
    <3>9. Joining(s, r, g)
      BY <2>2, <3>1, <3>4, <3>8 DEF Joining
    <3>10. \A i \in 0 .. s - 1 :
             /\ Passed(g, i) <=> Passed(f, i)
             /\ Reached(g, i) => Reached(f, i) \/ ConnectedTo(s, r, i)'
      <4>1. \A i \in 0 .. s - 1 : i = f.i => ConnectedTo(s, r, i)'
        BY <2>2, <3>8 DEF ConnectedTo
      <4>2. \A i \in 0 .. s - 1 : (Passed(g, i) <=> Passed(f, i))
                                 /\ (Reached(g, i) => Reached(f, i) \/ i = f.i)
        BY <2>2, <3>4 DEF Passed, Reached, Busy
      <4> QED
        BY <4>1, <4>2
    <3>11. ThreadInv' /\ PassedInv' /\ BackInv' /\ ReachedInv'
      <4>1. /\ thr[s][r] # <<>> /\ f = Top(thr[s][r]) /\ UNCHANGED <<main, peers>>
            /\ SessGrow /\ f.pc # "serve" /\ Len(thr[s][r]) # 2 /\ r # 0
        BY SMT, <2>0, <2>1, <2>2, <3>1, <3>8
      <4> QED
        BY <1>ConnectedEventStep, <3>2, <3>4, <3>9, <3>10, <4>1, PutStep
    <3>12. inbox' \in InboxType /\ thr' \in ThrType
      <4>1. thr' \in ThrType
        BY <2>1, <3>2, <3>4, PutFacts
      <4> QED
        BY SMT, <2>2, <3>3, <3>5, <3>6, <3>7, <4>1 DEF InboxType
    <3>13. MessageInv'
      <4>1. Top(thr'[s][r]) = g
        BY SMT, <2>1, <3>2, <3>4, PutFacts
      <4>2. ASSUME NEW i, NEW q, NEW m, i = f.i, q = to, m = msg
            PROVE  Awaited(i, q, m)'
        BY <2>1, <2>3, <3>4, <3>5, <3>6, <3>8, <4>1, <4>2 DEF Awaited, Up, Remote
      <4>3. \A i \in Metas, q \in Rpcs : \A m \in inbox'[i][q] :
               \/ m \in inbox[i][q]
               \/ i = f.i /\ q = to /\ m = msg
        BY <2>2, <3>3, <3>5, <3>7 DEF InboxType
      <4>4. \A i \in Metas, q \in Rpcs : \A m \in inbox'[i][q] :
               \/ m \in inbox[i][q] /\ <<m.s, m.r>> # <<s, r>>
               \/ Awaited(i, q, m)'
        BY SMT, <2>2, <4>2, <4>3
      <4> QED
        BY SMT, <2>1, <3>2, <3>4, <3>12, <4>4, PutMessages
    <3> QED
      BY <1>ConnectedEventStep, <2>1, <2>2, <3>11, <3>12, <3>13, RpcClose
  <2> QED
    BY <2>4, <2>5

(* The guardian's session is up: on to the next thread of that server, then   *)
(* back to the event loop or on to the call.                                  *)
<1>ConnectedGuardianStep.
        ASSUME StartInv, NEW s \in Metas, ConnectedGuardian(s)
        PROVE  StartInv'
  <2>0. SUFFICES ASSUME NEW r \in Rpcs, r = 0 PROVE StartInv'
    BY SMT, StartupAssumption DEF Rpcs
  <2>1. PICK f : f = Top(thr[s][r])
    OBVIOUS
  <2>2. /\ thr[s][r] # <<>> /\ SessionUp(s, r, f) /\ UNCHANGED <<main, dev, peers, inbox>>
        /\ thr' = CASE f.j + 1 < RpcNum -> Put(thr, s, r, Go(f, "turn", f.j + 1))
                    [] f.j + 1 = RpcNum /\ f.n > 0 -> Pop(s, r)
                    [] OTHER -> Put(thr, s, r, Go(f, "local", 0))
    BY <1>ConnectedGuardianStep, <2>0, <2>1 DEF ConnectedGuardian
  <2>3. r \in Rpcs /\ StartTypes /\ ThreadInv /\ MessageInv
    BY <1>ConnectedGuardianStep, <2>0 DEF StartInv
  <2>4. /\ f.pc = "connect" /\ f \in Frames
        /\ f.i \in Metas /\ f.i # s /\ f.j \in Rpcs
        /\ SessGrow
    BY <1>ConnectedGuardianStep, <2>1, <2>2, <2>3, <1>SessionFacts
  <2>5. /\ \A a \in Metas, b \in Rpcs : \A p \in sess'[a][b] : p[1] # a
        /\ \A i \in Metas, q \in Rpcs : \A m \in inbox[i][q] : <<m.s, m.r>> # <<s, r>>
    BY <1>ConnectedGuardianStep, <2>1, <2>2, <2>3, <1>SessionFacts
  <2>6. \A j \in 0 .. f.j : <<f.i, j>> \in sess'[s][0]
    BY <1>ConnectedGuardianStep, <2>0, <2>1, <2>2, <1>SessionFacts
  <2>7. /\ Len(thr[s][r]) \in {1, 2} /\ Up(s)
        /\ Len(thr[s][r]) = 1 => f = thr[s][r][1] /\ Joining(s, r, f)
        /\ Len(thr[s][r]) = 2 => f = thr[s][r][2] /\ Back(s, f)
    BY SMT, <2>1, <2>2, <2>3, TopFrame
  <2>8. /\ inbox' \in InboxType
    BY <2>2, <2>3 DEF StartTypes, InboxType
  <2>9. ASSUME NEW g \in Frames, thr' = Put(thr, s, r, g),
               ThreadInv', PassedInv', BackInv', ReachedInv'
        PROVE  StartInv'
    <3>1. thr' \in ThrType
      BY <2>2, <2>3, <2>9, PutFacts
    <3>2. \A i \in Metas, q \in Rpcs : \A m \in inbox'[i][q] :
             m \in inbox[i][q] /\ <<m.s, m.r>> # <<s, r>>
      BY <2>2, <2>5
    <3>3. MessageInv'
      BY SMT, <2>2, <2>3, <2>8, <2>9, <3>2, PutMessages
    <3> QED
      BY <1>ConnectedGuardianStep, <2>2, <2>4, <2>5, <2>8, <2>9, <3>1, <3>3, RpcClose
  <2>10. CASE f.j + 1 < RpcNum
    <3> DEFINE g == Go(f, "turn", f.j + 1)
    <3>2. f.j + 1 \in Int /\ f.j + 1 \in Rpcs /\ f.j \in 0 .. f.j
      BY SMT, <2>4, <2>10, StartupAssumption DEF Rpcs
    <3>1. thr' = Put(thr, s, r, g)
      BY SMT, <2>2, <2>10, <3>2, StartupAssumption
    <3>3. /\ g \in Frames /\ g.pc = "turn" /\ ~g.flag /\ g.j = f.j + 1 /\ g.i = f.i /\ g.n = f.n
      BY <2>4, <3>2, <1>GoFacts
    <3> HIDE DEF g
    <3>4. Len(thr[s][r]) = 1 => Joining(s, r, g)
      BY <2>4, <2>7, <3>2, <3>3 DEF Joining
    <3>5. \A i \in 0 .. s - 1 : (Passed(g, i) <=> Passed(f, i)) /\ (Reached(g, i) => Reached(f, i))
      BY <2>4, <3>3 DEF Passed, Reached, Busy
    <3>6. \A j \in 0 .. g.j - 1 : <<g.i, j>> \in sess'[s][0]
      BY SMT, <2>4, <2>6, <3>3 DEF Rpcs
    <3>7. ThreadInv' /\ PassedInv' /\ BackInv' /\ ReachedInv'
      BY <1>ConnectedGuardianStep, <2>1, <2>2, <2>3, <2>4, <3>1, <3>2, <3>3, <3>4, <3>5, <3>6, PutStep
    <3> QED
      BY <2>9, <3>1, <3>3, <3>7
  <2>11. CASE ~(f.j + 1 < RpcNum)
    <3>1. \A j \in Rpcs : <<f.i, j>> \in sess'[s][0]
      BY SMT, <2>4, <2>6, <2>11, StartupAssumption DEF Rpcs
    <3>2. f.j + 1 = RpcNum
      BY SMT, <2>4, <2>11, StartupAssumption DEF Rpcs
    <3>3. CASE f.n > 0
      <4>1. Len(thr[s][r]) = 2 /\ f = thr[s][r][2]
        BY SMT, <2>7, <3>3 DEF Joining
      <4>2. thr' = Pop(s, r)
        BY <2>2, <2>11, <3>2, <3>3
      <4>3. /\ r = 0 => \A j \in Rpcs : <<thr[s][r][2].i, j>> \in sess'[s][0]
            /\ r # 0 => <<thr[s][r][2].i, r>> \in sess'[s][r]
        BY <2>0, <3>1, <4>1
      <4> QED
        BY <1>ConnectedGuardianStep, <2>2, <2>3, <2>4, <2>5, <4>1, <4>2, <4>3, <1>PopStep
    <3>4. CASE ~(f.n > 0)
      <4> DEFINE g == Go(f, "local", 0)
      <4>1. thr' = Put(thr, s, r, g)
        BY <2>2, <2>11, <3>2, <3>4
      <4>2. /\ g \in Frames /\ g.pc = "local" /\ ~g.flag /\ g.j = 0 /\ g.i = f.i /\ g.n = f.n
        BY SMT, <2>4, <1>GoFacts
      <4> HIDE DEF g
      <4>3. Len(thr[s][r]) = 1
        BY SMT, <2>7, <3>4 DEF Back, Metas
      <4>4. Joining(s, r, g)
        BY <2>0, <2>4, <2>7, <4>2, <4>3 DEF Joining
      <4>5. \A i \in 0 .. s - 1 :
               /\ Passed(g, i) <=> Passed(f, i)
               /\ Reached(g, i) => Reached(f, i) \/ ConnectedTo(s, r, i)'
        <5>1. \A i \in 0 .. s - 1 : i = f.i => ConnectedTo(s, r, i)'
          BY <2>0, <3>1 DEF ConnectedTo
        <5>2. \A i \in 0 .. s - 1 : (Passed(g, i) <=> Passed(f, i))
                                   /\ (Reached(g, i) => Reached(f, i) \/ i = f.i)
          BY <2>4, <4>2 DEF Passed, Reached, Busy
        <5> QED
          BY <5>1, <5>2
      <4>6. /\ f.pc # "serve" /\ Len(thr[s][r]) # 2 /\ g.pc \notin {"turn", "connect"}
        BY SMT, <2>4, <4>2, <4>3
      <4>7. ThreadInv' /\ PassedInv' /\ BackInv' /\ ReachedInv'
        BY <1>ConnectedGuardianStep, <2>1, <2>2, <2>3, <2>4, <4>1, <4>2, <4>4, <4>5, <4>6, PutStep
      <4> QED
        BY <2>9, <4>1, <4>2, <4>7
    <3> QED
      BY <3>3, <3>4
  <2> QED
    BY <2>10, <2>11
<1> QED
  BY <1>ConnectedEventStep, <1>ConnectedGuardianStep

(*---------------------------------------------------------------------------*)
(* Start-up.                                                                  *)

(* Every step of start-up keeps the invariant when the sleeps are long        *)
(* enough.                                                                    *)
LEMMA StartInvStep ==
    ASSUME StartInv, Paced = TRUE, StartStep
    PROVE  StartInv'
<1>1. PICK s \in Metas :
        \/ MainStep(s)
        \/ ConnectedGuardian(s)
        \/ AnnounceGuardian(s)
        \/ HandleGuardian(s)
        \/ \E r \in Rpcs : RpcStep(s, r)
  BY DEF StartStep
<1> QED
  BY <1>1, MainStepKeeps, HandlersKeep, ThreadsKeep, ConnectedKeep DEF RpcStep

(* When every sleep of server_main.cc outlasts what it waits for, servers     *)
(* that have all reached their event loops know each other's inode blocks and *)
(* notification areas, and have all the sessions between them, for every      *)
(* number of servers and of RPC threads.                                      *)
THEOREM StartupCorrect ==
    Paced = TRUE => (StartSpec => []ServersKnowEachOther)
<1> SUFFICES ASSUME Paced = TRUE
             PROVE  StartSpec => []ServersKnowEachOther
  OBVIOUS
<1>1. StartInit => StartInv
  BY StartInvInit
<1>2. StartInv /\ [StartStep]_startVars => StartInv'
  BY StartInvStep, StartInvUnchanged
<1>3. StartInv => ServersKnowEachOther
  BY ServingKnows
<1> QED
  BY <1>1, <1>2, <1>3, PTL DEF StartSpec
=============================================================================
