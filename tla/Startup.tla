------------------------------- MODULE Startup -------------------------------
(***************************************************************************)
(* How the metadata servers come up: the device headers in CXL memory        *)
(* (CXLDevice::Init), the shared hashtable and the servers' inode array       *)
(* blocks (Metadata::Init, SetMetaNum), and the sessions between the servers' *)
(* RPC threads (src/server_main.cc).                                          *)
(*                                                                          *)
(* Server m connects to every lower-numbered server and is connected back.   *)
(* The order of sessions is fixed by the counter gConnectedSessionNum, for    *)
(* which threads spin without running their event loop; a thread answers      *)
(* others only while it runs it.  Handlers run inside the event loop, on top  *)
(* of what the thread was doing, so a thread is a stack of frames.            *)
(***************************************************************************)
EXTENDS Integers, Sequences, FiniteSets

CONSTANTS
    NumMetas,    \* servers, numbered from 0
    RpcNum,      \* meta_rpc_num_[i]: RPC threads of each server, the guardian is 0
    Paced        \* TRUE: the sleeps before a step outlast what they wait for

ASSUME StartupAssumption ==
    /\ NumMetas \in Nat \ {0}
    /\ RpcNum \in Nat /\ RpcNum >= 2
    /\ Paced \in BOOLEAN

VARIABLES
    main,     \* per server: how far its main thread is
    dev,      \* the headers in CXL memory
    peers,    \* per server: total_metas_, all_meta_num_ and block_offs_
    conn,     \* per server: gConnectedSessionNum and gLocalServerSetupReady
    thr,      \* per server and RPC thread: its stack of frames
    inbox,    \* per server and RPC thread: what waits for its event loop
    sess      \* per server and RPC thread: the sessions it has created

startVars == <<main, dev, peers, conn, thr, inbox, sess>>

Metas == 0 .. NumMetas - 1
Rpcs == 0 .. RpcNum - 1

(*---------------------------------------------------------------------------*)
(* The main thread.                                                          *)

At(s, pc) == main[s] = pc
Goto(s, pc) == main' = [main EXCEPT ![s] = pc]
Waits(P) == Paced => P

Launch(s) ==
    /\ At(s, "off")
    /\ Goto(s, "header")
    /\ UNCHANGED <<dev, peers, conn, thr, inbox, sess>>

(* CXLDevice::Init: server 0 resets the pool and initializes the headers, the *)
(* others spin until it has.                                                  *)
AttachPool(s) ==
    /\ At(s, "header")
    /\ s = 0 \/ dev.pool
    /\ dev' = [dev EXCEPT !.pool = TRUE, !.counts = @ + 1]
    /\ Goto(s, "window")
    /\ UNCHANGED <<peers, conn, thr, inbox, sess>>

(* Count the servers until the number is the same twice, 100 ms apart, and    *)
(* map the local memory of as many.                                           *)
CloseWindow(s) ==
    /\ At(s, "window")
    /\ Waits(dev.counts = NumMetas)
    /\ peers' = [peers EXCEPT ![s].total = dev.counts]
    /\ Goto(s, "ssd")
    /\ UNCHANGED <<dev, conn, thr, inbox, sess>>

(* CXLSSD::Init: server 0 allocates the device's DRAM.                        *)
AttachSsd(s) ==
    /\ At(s, "ssd")
    /\ s = 0 \/ dev.ssd
    /\ dev' = [dev EXCEPT !.ssd = TRUE]
    /\ Goto(s, "finish")
    /\ UNCHANGED <<peers, conn, thr, inbox, sess>>

(* The server's bit of the barrier.                                           *)
FinishDevice(s) ==
    /\ At(s, "finish")
    /\ dev' = [dev EXCEPT !.finish = @ \cup {s}]
    /\ Goto(s, "barrier")
    /\ UNCHANGED <<peers, conn, thr, inbox, sess>>

(* The barrier waits for the lower-numbered servers only.                     *)
PassBarrier(s) ==
    /\ At(s, "barrier")
    /\ 0 .. s \subseteq dev.finish
    /\ Goto(s, "table")
    /\ UNCHANGED <<dev, peers, conn, thr, inbox, sess>>

(* InitHashtable: server 0 creates the shared table.                          *)
AttachTable(s) ==
    /\ At(s, "table")
    /\ s = 0 \/ dev.table
    /\ dev' = [dev EXCEPT !.table = TRUE]
    /\ Goto(s, "block")
    /\ UNCHANGED <<peers, conn, thr, inbox, sess>>

(* After 300 ms for every lower number: the resize notification area and      *)
(* InodeArray::InitBlock, with the server's first segment.                    *)
PublishBlock(s) ==
    /\ At(s, "block")
    /\ Waits(0 .. s - 1 \subseteq dev.blocks)
    /\ dev' = [dev EXCEPT !.blocks = @ \cup {s}]
    /\ peers' = [peers EXCEPT ![s].known = {s}]
    /\ Goto(s, "setmds")
    /\ UNCHANGED <<conn, thr, inbox, sess>>

(* Metadata::SetMetaNum with InodeArray::SetMds: the block offsets of servers *)
(* 0 .. n - 1 as they are in the header now, and                              *)
(* CXLPersistence::ConfigureClusterMetaCount.                                 *)
SetMetaNum(p, n) == [p EXCEPT !.n = n, !.known = {i \in 0 .. n - 1 : i \in dev.blocks}]

CountServers(s) ==
    /\ At(s, "setmds")
    /\ peers' = [peers EXCEPT ![s] = SetMetaNum(@, s + 1)]
    /\ Goto(s, "pause")
    /\ UNCHANGED <<dev, conn, thr, inbox, sess>>

Frame(pc, i, n) == [pc |-> pc, i |-> i, j |-> 0, n |-> n, flag |-> FALSE]
Serving(s) == main[s] = "up" /\ \A r \in Rpcs : thr[s][r] = <<Frame("serve", 0, 0)>>

(* After another 300 ms for every lower number: the guardian and the event    *)
(* loop threads.                                                              *)
StartThreads(s) ==
    /\ At(s, "pause")
    /\ Waits(\A i \in 0 .. s - 1 : Serving(i))
    /\ thr' = [thr EXCEPT ![s] = [r \in Rpcs |-> <<Frame("new", 0, 0)>>]]
    /\ Goto(s, "up")
    /\ UNCHANGED <<dev, peers, conn, inbox, sess>>

(*---------------------------------------------------------------------------*)
(* RPC threads.                                                              *)

(* The frame a thread is in, and the ones it returns to.                      *)
Top(q) == q[Len(q)]
Below(q) == SubSeq(q, 1, Len(q) - 1)

Exists(s, r) == thr[s][r] # <<>> /\ thr[s][r][1].pc # "new"
Doing(s, r, pc) == thr[s][r] # <<>> /\ Top(thr[s][r]).pc = pc
Polls(s, r) == \E pc \in {"connect", "call", "local", "serve"} : Doing(s, r, pc)

Put(q, s, r, f) == [q EXCEPT ![s][r] = Append(Below(@), f)]
Flag(q, s, r) == [q EXCEPT ![s][r] = Append(Below(@), [Top(@) EXCEPT !.flag = TRUE])]

(* The next lower-numbered server, or the event loop.                         *)
NextPeer(s, f) == IF f.i + 1 < s THEN Frame("turn", f.i + 1, 0) ELSE Frame("serve", 0, 0)

(* A new thread has its RPC object; gLocalServerSetupReady counts event loop  *)
(* threads.                                                                   *)
Begin(s, r) ==
    /\ Doing(s, r, "new")
    /\ thr' = Put(thr, s, r, IF s = 0 THEN Frame("serve", 0, 0) ELSE Frame("turn", 0, 0))
    /\ conn' = [conn EXCEPT ![s].ready = IF r = 0 THEN @ ELSE @ + 1]
    /\ UNCHANGED <<main, dev, peers, inbox, sess>>

(* The thread of server i that this one connects to.                          *)
Remote(r, f) == IF r = 0 THEN f.j ELSE ((r - 1) % (RpcNum - 1)) + 1

(* Mutant of Turn: a handler counts its own server among the others.          *)
TurnCountsSelf(s, r, f) ==
    LET sum == f.i * (2 * RpcNum - 1)
    IN  IF r = 0 THEN sum + f.j ELSE (sum + RpcNum + r) - 1

(* The number of sessions this server has when it is the thread's turn: a     *)
(* server's guardian is first, then its event loop threads in order.  The     *)
(* handlers (n > 0) leave their own server out of the sum.                    *)
Turn(s, r, f) ==
    LET before == {k \in 0 .. f.i - 1 : f.n > 0 => k # s}
        sum == Cardinality(before) * (2 * RpcNum - 1)
    IN  IF r = 0 THEN sum + f.j ELSE (sum + RpcNum + r) - 1

CreateSession(s, r) ==
    /\ Doing(s, r, "turn")
    /\ LET f == Top(thr[s][r])
           to == Remote(r, f)
       IN  /\ conn[s].sessions = Turn(s, r, f)
           /\ inbox' = IF Exists(f.i, to)
                         THEN [inbox EXCEPT ![f.i][to] = @ \cup
                                 {[kind |-> "session", s |-> s, r |-> r, n |-> 0]}]
                         ELSE inbox
           /\ thr' = Put(thr, s, r, [f EXCEPT !.pc = "connect", !.flag = FALSE])
    /\ UNCHANGED <<main, dev, peers, conn, sess>>

(* The event loop of the other side.                                          *)
AcceptSession(s, r) ==
    /\ Polls(s, r)
    /\ \E m \in inbox[s][r] :
          /\ m.kind = "session"
          /\ inbox' = [inbox EXCEPT ![s][r] = @ \ {m}]
          /\ thr' = Flag(thr, m.s, m.r)
    /\ UNCHANGED <<main, dev, peers, conn, sess>>

Send(i, r, kind, s, from) ==
    inbox' = [inbox EXCEPT ![i][r] = @ \cup {[kind |-> kind, s |-> s, r |-> from, n |-> s + 1]}]

(* SessionHandler counts the session.                                         *)
SessionUp(s, r, f) ==
    /\ Doing(s, r, "connect") /\ f.flag
    /\ conn' = [conn EXCEPT ![s].sessions = @ + 1]
    /\ sess' = [sess EXCEPT ![s][r] = @ \cup {<<f.i, Remote(r, f)>>}]

Go(f, pc, j) == [f EXCEPT !.pc = pc, !.j = j, !.flag = FALSE]
Pop(s, r) == [thr EXCEPT ![s][r] = Below(@)]

(* An event loop thread of a joining server then announces its server to the  *)
(* other side; one that connected back in a handler returns from it.          *)
ConnectedEvent(s, r) ==
    /\ r > 0 /\ thr[s][r] # <<>>
    /\ LET f == Top(thr[s][r])
       IN  /\ SessionUp(s, r, f)
           /\ IF f.n > 0
                THEN thr' = Pop(s, r) /\ UNCHANGED inbox
                ELSE /\ thr' = Put(thr, s, r, Go(f, "call", 0))
                     /\ Send(f.i, Remote(r, f), "meta", s, r)
    /\ UNCHANGED <<main, dev, peers>>

(* The guardian goes on to the next thread of the same server, after the last *)
(* one it waits for its own server's threads or returns from the handler.     *)
ConnectedGuardian(s) ==
    /\ thr[s][0] # <<>>
    /\ LET f == Top(thr[s][0])
       IN  /\ SessionUp(s, 0, f)
           /\ thr' = CASE f.j + 1 < RpcNum -> Put(thr, s, 0, Go(f, "turn", f.j + 1))
                       [] f.j + 1 = RpcNum /\ f.n > 0 -> Pop(s, 0)
                       [] OTHER -> Put(thr, s, 0, Go(f, "local", 0))
    /\ UNCHANGED <<main, dev, peers, inbox>>

(* The guardian announces its server once all local threads can be reached.   *)
AnnounceGuardian(s) ==
    /\ Doing(s, 0, "local")
    /\ conn[s].ready >= RpcNum - 1
    /\ LET f == Top(thr[s][0])
       IN  /\ Send(f.i, 0, "guardian", s, 0)
           /\ thr' = Put(thr, s, 0, [f EXCEPT !.pc = "call"])
    /\ UNCHANGED <<main, dev, peers, conn, sess>>

(* Mutant of HandleGuardian: the number of servers is not passed on.          *)
HandleGuardianForgets(s) ==
    /\ Polls(s, 0)
    /\ \E m \in inbox[s][0] :
          /\ m.kind = "guardian"
          /\ inbox' = [inbox EXCEPT ![s][0] = @ \ {m}]
          /\ LET q == Flag(thr, m.s, m.r)
             IN  thr' = [q EXCEPT ![s][0] = Append(@, Frame("turn", m.n - 1, m.n))]
    /\ UNCHANGED <<main, dev, peers, conn, sess>>

(* MDGuardianCommunicationReqHandler: learn of the new server, answer, then   *)
(* connect to all its threads.                                                *)
HandleGuardian(s) ==
    /\ Polls(s, 0)
    /\ \E m \in inbox[s][0] :
          /\ m.kind = "guardian"
          /\ inbox' = [inbox EXCEPT ![s][0] = @ \ {m}]
          /\ peers' = [peers EXCEPT ![s] = IF m.n > @.n THEN SetMetaNum(@, m.n) ELSE @]
          /\ LET q == Flag(thr, m.s, m.r)
             IN  thr' = [q EXCEPT ![s][0] = Append(@, Frame("turn", m.n - 1, m.n))]
    /\ UNCHANGED <<main, dev, conn, sess>>

(* MDMetaCommunicationReqHandler: the same for an event loop thread, which    *)
(* connects to one thread of the new server.                                  *)
HandleMeta(s, r) ==
    /\ Polls(s, r)
    /\ \E m \in inbox[s][r] :
          /\ m.kind = "meta"
          /\ inbox' = [inbox EXCEPT ![s][r] = @ \ {m}]
          /\ LET q == Flag(thr, m.s, m.r)
             IN  thr' = [q EXCEPT ![s][r] = Append(@, Frame("turn", m.n - 1, m.n))]
    /\ UNCHANGED <<main, dev, peers, conn, sess>>

(* The answer to an announcement: on to the next server.                      *)
Answered(s, r) ==
    /\ Doing(s, r, "call") /\ Top(thr[s][r]).flag
    /\ thr' = Put(thr, s, r, NextPeer(s, Top(thr[s][r])))
    /\ UNCHANGED <<main, dev, peers, conn, inbox, sess>>

(*---------------------------------------------------------------------------*)

MainStep(s) ==
    \/ Launch(s) \/ AttachPool(s) \/ CloseWindow(s) \/ AttachSsd(s)
    \/ FinishDevice(s) \/ PassBarrier(s) \/ AttachTable(s) \/ PublishBlock(s) \/ CountServers(s)
    \/ StartThreads(s)

RpcStep(s, r) ==
    \/ Begin(s, r) \/ CreateSession(s, r) \/ AcceptSession(s, r)
    \/ ConnectedEvent(s, r) \/ HandleMeta(s, r) \/ Answered(s, r)

StartStep ==
    \E s \in Metas :
        \/ MainStep(s)
        \/ ConnectedGuardian(s)
        \/ AnnounceGuardian(s)
        \/ HandleGuardian(s)
        \/ \E r \in Rpcs : RpcStep(s, r)

StartInit ==
    /\ main = [s \in Metas |-> "off"]
    /\ dev = [pool |-> FALSE, counts |-> 0, ssd |-> FALSE, finish |-> {},
              table |-> FALSE, blocks |-> {}]
    /\ peers = [s \in Metas |-> [total |-> 0, n |-> s + 1, known |-> {}]]
    /\ conn = [s \in Metas |-> [sessions |-> 0, ready |-> 0]]
    /\ thr = [s \in Metas |-> [r \in Rpcs |-> <<>>]]
    /\ inbox = [s \in Metas |-> [r \in Rpcs |-> {}]]
    /\ sess = [s \in Metas |-> [r \in Rpcs |-> {}]]

(* The servers coming up, with nothing else going on.                         *)
StartSpec == StartInit /\ [][StartStep]_startVars

AllServing == \A s \in Metas : Serving(s)

StartTypeOK ==
    /\ \A s \in Metas :
          /\ peers[s].total \in 0 .. NumMetas /\ peers[s].n \in 1 .. NumMetas
          /\ peers[s].known \subseteq Metas
          /\ conn[s].sessions \in 0 .. (NumMetas - 1) * (2 * RpcNum - 1)
          /\ conn[s].ready \in 0 .. RpcNum - 1
          /\ \A r \in Rpcs : Len(thr[s][r]) <= 2

(* Once every server is in its event loops, every server reaches the inode    *)
(* blocks and the notification areas of all others, the guardian has a        *)
(* session with every thread of every other server, and each event loop       *)
(* thread one with an event loop thread of every other server.                *)
ServersKnowEachOther ==
    AllServing =>
        \A s \in Metas :
            /\ peers[s].known = Metas /\ peers[s].total = NumMetas
            /\ sess[s][0] = (Metas \ {s}) \X Rpcs
            /\ \A r \in Rpcs \ {0}, i \in Metas \ {s} :
                  \E p \in sess[s][r] : p[1] = i /\ p[2] # 0
=============================================================================
