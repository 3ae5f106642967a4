--------------------------- MODULE HashtableResize ---------------------------
(***************************************************************************)
(* The table of module LevelHashtable while it grows.  An insert that finds  *)
(* no room starts a resize: it claims the resize control word, publishes the *)
(* control block twice (first without a layout, then with one) and notifies  *)
(* the other servers through their local memory.  Every server that notices  *)
(* switches to the new layout and migrates its share of the old bottom       *)
(* level, one bucket after each operation; the initiator closes the resize   *)
(* when all shares are done.                                                 *)
(***************************************************************************)
EXTENDS LevelHashtable

CONSTANTS
    Preloads,    \* the tables to start from, each with the threads' plans
    Quiesced     \* TRUE: a bucket is not migrated while an operation that chose
                 \* its candidates before the resize is still running

ASSUME HashtableResizeAssumption ==
    \A p \in Preloads :
        p.table \in [Buckets -> [dirty : {FALSE}, ver : 0 .. Versions - 1,
                                fp : [1 .. Slots -> Keys \cup {NoKey}],
                                val : [1 .. Slots -> Entry \cup {NoEntry}]]]

NMds == Cardinality(Servers)
vars == <<mem, hint, srv, th, meta, wit, moved>>

(*---------------------------------------------------------------------------*)
(* The control block and a server's copy of it.                              *)

NewServer == [k |-> 0, active |-> FALSE, begun |-> FALSE, notified |-> 0,
              state |-> "NORMAL", version |-> 0, ready |-> TRUE,
              cursor |-> 0, end |-> 0, range_done |-> TRUE, reported |-> FALSE]

(* refresh_cache: the server's share of the old bottom level starts over.     *)
refresh_cache(s, sv, m) ==
    LET old == Size(m.k - 1)
        chunk == old \div NMds
        c == [sv EXCEPT !.state = m.state, !.version = m.version, !.ready = m.ready]
    IN  IF m.state = "MIGRATING" /\ m.ready
          THEN [c EXCEPT !.cursor = s * chunk,
                         !.end = IF s = NMds - 1 THEN old ELSE (s + 1) * chunk,
                         !.range_done = FALSE, !.reported = FALSE]
          ELSE [c EXCEPT !.range_done = TRUE]

check_version_changed(s) == srv[s].notified # srv[s].version

(* notify_all_mds: the version in every server's local memory.                *)
notify_all_mds(sv, v) == [s \in Servers |-> [sv[s] EXCEPT !.notified = v]]

(* begin_migration, end_migration, adopt_layout: a new layout starts with an  *)
(* empty hint.                                                                *)
begin_migration(sv) == [sv EXCEPT !.k = meta.k, !.active = TRUE]
end_migration(sv) == [sv EXCEPT !.active = FALSE]
adopt_layout(sv) == [sv EXCEPT !.k = meta.k]

Goto(t, pc) == Set(t, [th[t] EXCEPT !.pc = pc])
Serve(s, sv) == srv' = [srv EXCEPT ![s] = sv]
NewHint(s) == hint' = [hint EXCEPT ![s] = EmptyHint]

(*---------------------------------------------------------------------------*)
(* A call, and check_resize in front of it.                                  *)

(* The callers look a name up before they insert it, and do not insert a name *)
(* twice at the same time.                                                    *)
Callable(c) ==
    c.op = "insert" =>
        /\ ValueOf(c.key) = NoVal
        /\ \A u \in Threads : ~(th[u].call.op = "insert" /\ th[u].call.key = c.key)

Invoke(t) ==
    /\ th[t].pc = "idle" /\ th[t].plan # <<>>
    /\ \E c \in Head(th[t].plan) :
          /\ Callable(c)
          /\ Set(t, [Idle(Tail(th[t].plan)) EXCEPT !.pc = "pre", !.call = c,
                         !.item = [key |-> c.key, val |-> c.val]])
    /\ UNCHANGED <<mem, hint, srv, meta>>
    /\ Watch

(* check_resize: wait for a switch in progress, look for a new version.       *)
CheckResize(t) ==
    /\ th[t].pc = "pre"
    /\ LET sv == srv[ServerOf[t]]
       IN  /\ sv.begun => sv.active
           /\ Goto(t, CASE ~check_version_changed(ServerOf[t]) -> "cands"
                        [] sv.begun -> "ctrl_migrating"
                        [] OTHER -> "ctrl")
    /\ UNCHANGED <<mem, hint, srv, meta>>
    /\ Watch

(* A server that is migrating reads the control word: is the resize over?  One *)
(* thread of the server acts on it.                                           *)
ReadCtrlMigrating(t) ==
    /\ th[t].pc = "ctrl_migrating"
    /\ LET s == ServerOf[t]
           over == meta.state = "NORMAL" /\ srv[s].begun
       IN  /\ Goto(t, IF over THEN "end" ELSE "cands")
           /\ Serve(s, [srv[s] EXCEPT !.begun = @ /\ ~over])
    /\ UNCHANGED <<mem, hint, meta>>
    /\ Watch

(* One that is not: a migration to join, or one that came and went.           *)
ReadCtrl(t) ==
    /\ th[t].pc = "ctrl"
    /\ LET s == ServerOf[t]
           migrating == meta.state = "MIGRATING"
       IN  /\ Goto(t, CASE ~migrating -> "adopt"
                        [] migrating /\ srv[s].begun -> "wait"
                        [] OTHER -> "join")
           /\ Serve(s, [srv[s] EXCEPT !.begun = @ \/ migrating])
    /\ UNCHANGED <<mem, hint, meta>>
    /\ Watch

(* wait_layout_ready                                                          *)
WaitLayout(t) ==
    /\ th[t].pc = "wait"
    /\ srv[ServerOf[t]].begun => srv[ServerOf[t]].active
    /\ Goto(t, "cands")
    /\ UNCHANGED <<mem, hint, srv, meta>>
    /\ Watch

EndJoined(t) ==
    /\ th[t].pc = "end"
    /\ LET s == ServerOf[t] IN Serve(s, end_migration(refresh_cache(s, srv[s], meta)))
    /\ Goto(t, "cands")
    /\ UNCHANGED <<mem, hint, meta>>
    /\ Watch

(* The loop until the control block has a layout, and the switch to it.       *)
JoinMigration(t) ==
    /\ th[t].pc = "join" /\ meta.ready
    /\ LET s == ServerOf[t]
       IN  Serve(s, begin_migration(refresh_cache(s, srv[s], meta))) /\ NewHint(s)
    /\ Goto(t, "cands")
    /\ UNCHANGED <<mem, meta>>
    /\ Watch

CatchUp(t) ==
    /\ th[t].pc = "adopt"
    /\ LET s == ServerOf[t]
       IN  Serve(s, adopt_layout(refresh_cache(s, srv[s], meta))) /\ NewHint(s)
    /\ Goto(t, "cands")
    /\ UNCHANGED <<mem, meta>>
    /\ Watch

Candidates(t) ==
    /\ th[t].pc = "cands"
    /\ Set(t, StartProbe(th[t], ServerOf[t]))
    /\ UNCHANGED <<mem, hint, srv, meta>>
    /\ Watch

(*---------------------------------------------------------------------------*)
(* An insert without room: do_resize, then a second try.                     *)

Retry(t) == Set(t, [th[t] EXCEPT !.pc = "cands", !.again = TRUE])

(* During a migration, and after the second try, the insert fails.            *)
GiveUp(t) ==
    /\ th[t].pc = "full"
    /\ th[t].again \/ srv[ServerOf[t]].active
    /\ Set(t, Answer(th[t], "no"))
    /\ UNCHANGED <<mem, hint, srv, meta>>
    /\ Watch

(* do_resize: another server was faster.                                      *)
SeeResize(t) ==
    /\ th[t].pc = "full" /\ ~th[t].again
    /\ ~srv[ServerOf[t]].active /\ check_version_changed(ServerOf[t])
    /\ Goto(t, "refresh")
    /\ UNCHANGED <<mem, hint, srv, meta>>
    /\ Watch

FollowResize(t) ==
    /\ th[t].pc = "refresh"
    /\ LET s == ServerOf[t]
           sv == refresh_cache(s, srv[s], meta)
       IN  IF sv.state = "NORMAL"
             THEN Serve(s, adopt_layout(sv)) /\ NewHint(s) /\ Retry(t)
             ELSE Serve(s, sv) /\ Goto(t, "follow") /\ UNCHANGED hint
    /\ UNCHANGED <<mem, meta>>
    /\ Watch

(* join_migration: wait for the layout, then switch or wait for the local     *)
(* thread that does.                                                          *)
Follow(t) ==
    /\ th[t].pc = "follow" /\ meta.ready
    /\ LET s == ServerOf[t]
           sv == IF srv[s].ready THEN srv[s] ELSE refresh_cache(s, srv[s], meta)
       IN  IF ~sv.begun
             THEN Serve(s, [begin_migration(sv) EXCEPT !.begun = TRUE]) /\ NewHint(s)
             ELSE sv.active /\ Serve(s, sv) /\ UNCHANGED hint
    /\ Retry(t)
    /\ UNCHANGED <<mem, meta>>
    /\ Watch

(* try_initiate_resize: claim the control word, or find that another server   *)
(* has, and wait for its notification.                                        *)
ClaimResize(t) ==
    /\ th[t].pc = "full" /\ ~th[t].again
    /\ ~srv[ServerOf[t]].active /\ ~check_version_changed(ServerOf[t])
    /\ meta.k + 2 <= LastRegion
    /\ IF meta.state = "NORMAL"
         THEN meta' = [meta EXCEPT !.state = "MIGRATING"] /\ Goto(t, "early")
         ELSE Goto(t, "lost") /\ UNCHANGED meta
    /\ UNCHANGED <<mem, hint, srv>>
    /\ Watch

LostResize(t) ==
    /\ th[t].pc = "lost"
    /\ LET sv == srv[ServerOf[t]] IN meta.version # sv.version \/ sv.active
    /\ Goto(t, "switch")
    /\ UNCHANGED <<mem, hint, srv, meta>>
    /\ Watch

(* The control block without a layout: others stop and wait.                  *)
PublishEarly(t) ==
    /\ th[t].pc = "early"
    /\ LET s == ServerOf[t]
       IN  /\ meta' = [meta EXCEPT !.init = s, !.done = 0, !.ready = FALSE,
                                   !.version = @ + 1]
           /\ srv' = notify_all_mds([srv EXCEPT ![s].k = meta.k], meta.version + 1)
    /\ Goto(t, "layout")
    /\ UNCHANGED <<mem, hint>>
    /\ Watch

(* The new top level is allocated; the old one becomes the bottom level.      *)
PublishLayout(t) ==
    /\ th[t].pc = "layout"
    /\ meta' = [meta EXCEPT !.k = @ + 1, !.ready = TRUE]
    /\ LET s == ServerOf[t] IN Serve(s, refresh_cache(s, srv[s], meta'))
    /\ Goto(t, "switch")
    /\ UNCHANGED <<mem, hint>>
    /\ Watch

(* The rest of do_resize.                                                     *)
SwitchLayout(t) ==
    /\ th[t].pc = "switch"
    /\ LET s == ServerOf[t]
           sv == refresh_cache(s, srv[s], meta)
       IN  IF srv[s].begun
             THEN srv[s].active /\ UNCHANGED <<srv, hint>>
             ELSE /\ meta.state = "MIGRATING" => meta.ready
                  /\ Serve(s, IF meta.state = "MIGRATING"
                                THEN [begin_migration(sv) EXCEPT !.begun = TRUE]
                                ELSE adopt_layout(sv))
                  /\ NewHint(s)
    /\ Retry(t)
    /\ UNCHANGED <<mem, meta>>
    /\ Watch

(*---------------------------------------------------------------------------*)
(* post_op: migrate_step and check_finalize.                                 *)

(* The thread chose its candidates, or is about to, before the layout in      *)
(* force.                                                                     *)
BeforeResize(t) ==
    \/ th[t].pc = "cands" /\ srv[ServerOf[t]].k # meta.k
    \/ /\ th[t].cands # <<>> /\ th[t].pc # "dead"
       /\ th[t].cands[Len(th[t].cands)].b[1] # meta.k

(* Mutant of ReportShare: the end of the share is not remembered.             *)
ReportShareAgain(t) ==
    /\ th[t].pc = "post"
    /\ LET sv == srv[ServerOf[t]]
       IN  /\ sv.begun /\ sv.state = "MIGRATING" /\ ~sv.range_done
           /\ sv.cursor >= sv.end
           /\ meta' = [meta EXCEPT !.done = @ + 1]
    /\ Goto(t, "final")
    /\ UNCHANGED <<mem, hint, srv>>
    /\ Watch

(* The share is done: say so once.                                            *)
ReportShare(t) ==
    /\ th[t].pc = "post"
    /\ LET s == ServerOf[t]
           sv == srv[s]
       IN  /\ sv.begun /\ sv.state = "MIGRATING" /\ ~sv.range_done
           /\ sv.cursor >= sv.end
           /\ meta' = [meta EXCEPT !.done = IF sv.reported THEN @ ELSE @ + 1]
           /\ Serve(s, [sv EXCEPT !.reported = TRUE, !.range_done = TRUE])
    /\ Goto(t, "final")
    /\ UNCHANGED <<mem, hint>>
    /\ Watch

(* Read the next bucket of the share.  A locked one is left for later, an     *)
(* empty one is passed.                                                       *)
MigrateRead(t) ==
    /\ th[t].pc = "post"
    /\ LET s == ServerOf[t]
           sv == srv[s]
           b == <<sv.k - 1, sv.cursor>>
       IN  /\ sv.begun /\ sv.state = "MIGRATING" /\ ~sv.range_done
           /\ sv.cursor < sv.end
           /\ Quiesced => \A u \in Threads : ~BeforeResize(u)
           /\ LET empty == \A x \in 1 .. Slots : mem[b].fp[x] = NoKey
              IN  /\ Set(t, IF mem[b].dirty \/ empty
                              THEN [th[t] EXCEPT !.pc = "final"]
                              ELSE [th[t] EXCEPT !.pc = "migcas",
                                     !.mig = [b |-> b, snap |-> Line(b),
                                              slot |-> 1, done |-> {}]])
                  /\ Serve(s, IF ~mem[b].dirty /\ empty
                                THEN [sv EXCEPT !.cursor = @ + 1] ELSE sv)
    /\ UNCHANGED <<mem, hint, meta>>
    /\ Watch

NothingToMigrate(t) ==
    /\ th[t].pc = "post"
    /\ LET sv == srv[ServerOf[t]]
       IN  /\ ~sv.begun \/ sv.state # "MIGRATING" \/ sv.range_done
           /\ Goto(t, IF sv.begun THEN "final" ELSE "return")
    /\ UNCHANGED <<mem, hint, srv, meta>>
    /\ Watch

MigrateLock(t) ==
    /\ th[t].pc = "migcas"
    /\ LET g == th[t].mig
       IN  IF Unmoved(g.b, g.snap)
             THEN Write(g.b, make_locked(mem[g.b], g.snap)) /\ Goto(t, "migslot")
             ELSE /\ Set(t, [th[t] EXCEPT !.mig = NoMig, !.pc = "final"])
                  /\ UNCHANGED mem
    /\ UNCHANGED <<hint, srv, meta>>
    /\ Watch

Occupied(g) == {x \in 1 .. Slots : g.snap.fp[x] # NoKey}

(* insert_to_new_layout for the next entry of the locked bucket.              *)
MigrateSlot(t) ==
    /\ th[t].pc = "migslot"
    /\ LET g == th[t].mig
           left == {x \in Occupied(g) : x >= g.slot}
       IN  /\ left # {}
           /\ LET x == CHOOSE x \in left : \A y \in left : x <= y
              IN  Set(t, StartProbe([th[t] EXCEPT !.mig.slot = x,
                                       !.item = mem[g.b].val[x]], ServerOf[t]))
    /\ UNCHANGED <<mem, hint, srv, meta>>
    /\ Watch

(* Write the bucket back without the entries that found a place; the cursor   *)
(* stays if some did not.                                                     *)
MigrateCommit(t) ==
    /\ th[t].pc = "migslot"
    /\ LET g == th[t].mig
           s == ServerOf[t]
           fp == [x \in 1 .. Slots |-> IF x \in g.done THEN NoKey ELSE g.snap.fp[x]]
       IN  /\ \A x \in Occupied(g) : x < g.slot
           /\ Write(g.b, set_unlocked(mem[g.b], g.snap, fp))
           /\ Serve(s, IF g.done = Occupied(g) /\ srv[s].cursor = g.b[2]
                         THEN [srv[s] EXCEPT !.cursor = @ + 1] ELSE srv[s])
    /\ Set(t, [th[t] EXCEPT !.mig = NoMig, !.item = NoEntry, !.pc = "final"])
    /\ UNCHANGED <<hint, meta>>
    /\ Watch

(* Mutant of CheckFinalize: one share short.                                  *)
CheckFinalizeEarly(t) ==
    /\ th[t].pc = "final"
    /\ LET s == ServerOf[t]
       IN  IF srv[s].begun /\ srv[s].range_done /\ meta.init = s /\ meta.done + 1 >= NMds
             THEN meta' = [meta EXCEPT !.state = "NORMAL"] /\ Goto(t, "publish")
             ELSE Goto(t, "return") /\ UNCHANGED meta
    /\ UNCHANGED <<mem, hint, srv>>
    /\ Watch

(* check_finalize: only the initiator, and only when every share is done.     *)
CheckFinalize(t) ==
    /\ th[t].pc = "final"
    /\ LET s == ServerOf[t]
       IN  IF srv[s].begun /\ srv[s].range_done /\ meta.init = s /\ meta.done >= NMds
             THEN meta' = [meta EXCEPT !.state = "NORMAL"] /\ Goto(t, "publish")
             ELSE Goto(t, "return") /\ UNCHANGED meta
    /\ UNCHANGED <<mem, hint, srv>>
    /\ Watch

PublishNormal(t) ==
    /\ th[t].pc = "publish"
    /\ meta' = [meta EXCEPT !.state = "NORMAL", !.version = @ + 1]
    /\ LET s == ServerOf[t]
           sv == [end_migration(refresh_cache(s, srv[s], meta')) EXCEPT !.begun = FALSE]
       IN  srv' = notify_all_mds([srv EXCEPT ![s] = sv], meta.version + 1)
    /\ Goto(t, "return")
    /\ UNCHANGED <<mem, hint>>
    /\ Watch

Return(t) ==
    /\ th[t].pc = "return"
    /\ Set(t, [Idle(th[t].plan) EXCEPT !.res = th[t].res])
    /\ UNCHANGED <<mem, hint, srv, meta>>
    /\ Watch

(*---------------------------------------------------------------------------*)

ResizeStep(t) ==
    \/ Invoke(t) \/ CheckResize(t) \/ ReadCtrlMigrating(t) \/ ReadCtrl(t)
    \/ WaitLayout(t) \/ EndJoined(t) \/ JoinMigration(t) \/ CatchUp(t)
    \/ Candidates(t) \/ GiveUp(t) \/ SeeResize(t) \/ FollowResize(t) \/ Follow(t)
    \/ ClaimResize(t) \/ LostResize(t) \/ PublishEarly(t) \/ PublishLayout(t)
    \/ SwitchLayout(t) \/ ReportShare(t) \/ MigrateRead(t) \/ NothingToMigrate(t)
    \/ MigrateLock(t) \/ MigrateSlot(t) \/ MigrateCommit(t) \/ CheckFinalize(t)
    \/ PublishNormal(t) \/ Return(t)

Step(t) == ResizeStep(t) \/ ProbeStep(t) \/ MoveStep(t)

(* A table at rest, in which some threads have just found no room for an      *)
(* insert, or one that all servers have begun to migrate.                     *)
Init ==
    \E p \in Preloads :
        /\ mem = p.table
        /\ hint = [s \in Servers |-> EmptyHint]
        /\ meta = [state |-> IF p.resizing THEN "MIGRATING" ELSE "NORMAL",
                   init |-> 0, done |-> 0, version |-> IF p.resizing THEN 1 ELSE 0,
                   k |-> IF p.resizing THEN 1 ELSE 0, ready |-> TRUE]
        /\ srv = [s \in Servers |->
              IF p.resizing
                THEN [begin_migration(refresh_cache(s, NewServer, meta))
                         EXCEPT !.begun = TRUE, !.notified = 1]
                ELSE NewServer]
        /\ th = [t \in Threads |->
              IF p.full[t] = NoCall
                THEN Idle(p.plan[t])
                ELSE [Idle(p.plan[t]) EXCEPT !.pc = "full", !.call = p.full[t],
                        !.item = [key |-> p.full[t].key, val |-> p.full[t].val]]]
        /\ wit = [t \in Threads |-> IF p.full[t] = NoCall THEN {} ELSE {NoVal}]
        /\ moved = [t \in Threads |-> FALSE]

Next == \E t \in Threads : Step(t)
Spec == Init /\ [][Next]_vars

(*---------------------------------------------------------------------------*)
(* Properties.                                                               *)

TypeOK ==
    /\ mem \in [Buckets -> [dirty : BOOLEAN, ver : 0 .. Versions - 1,
                            fp : [1 .. Slots -> Keys \cup {NoKey}],
                            val : [1 .. Slots -> Entry \cup {NoEntry}]]]
    /\ \A s \in Servers :
          /\ srv[s].k \in 0 .. LastRegion - 1
          /\ srv[s].cursor \in 0 .. srv[s].end \/ srv[s].range_done
          /\ srv[s].notified \in 0 .. meta.version
    /\ \A t \in Threads : Len(th[t].stack) <= 2
    /\ meta.done \in 0 .. NMds

(* The table is the map its callers take it for: an insert, update or erase   *)
(* changes one key at one instant, and returns success exactly if it did.     *)
(* Displacing an entry, migrating a bucket and switching layouts change       *)
(* nothing.                                                                   *)
Map == INSTANCE HashMap WITH
           map <- [k \in Keys |-> ValueOf(k)],
           calls <- [t \in Threads |-> th[t].call],
           eff <- [t \in Threads |-> th[t].eff],
           ans <- [t \in Threads |-> IF InCall(t) THEN "none" ELSE th[t].res]
RefinesMap == Map!MapSpec

(* A find returns a value its key had during the call, although it takes no   *)
(* lock.  An operation overlooks a key that is there all the time only if the *)
(* key was displaced meanwhile, or its last look met a locked bucket.         *)
AnswersJustified ==
    \A t \in Threads :
        /\ th[t].res = "yes" /\ th[t].call.op = "find" => th[t].got \in wit[t]
        /\ th[t].res = "no" /\ th[t].call.op \in {"find", "update", "erase"} =>
              NoVal \in wit[t] \/ moved[t] \/ th[t].skipped

(* When a resize is closed, nothing is left in the bottom level it retired,   *)
(* which no operation will search again.                                      *)
NothingLeftBehind ==
    meta.state = "NORMAL" =>
        \A b \in Buckets : b[1] < meta.k =>
            \A s \in 1 .. Slots : mem[b].fp[s] = NoKey

(* A locked bucket is some thread's to unlock, and no bucket is two threads'. *)
Holds(t, b) ==
    \/ th[t].pc \in {"write", "commit", "dead"} /\ Cand(th[t]).b = b
    \/ \E i \in 1 .. Len(th[t].stack) :
          /\ th[t].stack[i].b = b
          /\ i < Len(th[t].stack) \/ th[t].pc \notin {"mread", "mcas"}
    \/ th[t].pc = "altput" /\ Top(th[t]).alt = b
    \/ th[t].mig # NoMig /\ th[t].mig.b = b /\ th[t].pc # "migcas"
LocksHaveOneHolder ==
    \A b \in Buckets :
        LET H == {t \in Threads : Holds(t, b)}
        IN  /\ mem[b].dirty => H # {}
            /\ Cardinality(H) <= 1 \/ \E t \in H : th[t].pc = "dead"

(* Calls never all wait for one another: a thread that displaces an entry or   *)
(* migrates a bucket holds locks, but whoever waits for a lock or a layout     *)
(* waits for a thread that can go on.  No thread repeats a step on its own, so *)
(* every call returns.                                                         *)
CallsNeverAllWait ==
    LET Active == {t \in Threads : th[t].pc \notin {"idle", "dead"}}
    IN  Active # {} => \E t \in Active : ENABLED Step(t)
=============================================================================
