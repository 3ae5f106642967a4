----------------------------- MODULE HybridClock -----------------------------
(***************************************************************************)
(* The hybrid logical clock that stamps every WAL record and orders the      *)
(* directory views of different metadata servers: hlc_state_ and the         *)
(* thread-local pending version of include/server/compact_wal.h, the clock   *)
(* guard of src/server_main.cc around each request handler, and the highest  *)
(* version a client remembers (include/client/rpc_client.h).                 *)
(*                                                                          *)
(* hlc_state_ is physical << 14 | logical and a version is hlc_state_ << 8 | *)
(* meta id; here the two radices are LogicalRange and NumMetas.  The wall    *)
(* clock of a server is an arbitrary reading at each load: system_clock may  *)
(* stand still, jump or go back.                                             *)
(***************************************************************************)
EXTENDS Integers, FiniteSets

CONSTANTS
    NumMetas,      \* metadata servers 0..NumMetas-1
    Threads,       \* RPC threads per metadata server
    Clients,
    LogicalRange,  \* 2^kVersionLogicalBits
    MaxNow,        \* bound: wall-clock readings are 0..MaxNow
    MaxRequests,   \* bound: requests per client
    MaxLogs        \* bound: records one request logs (a covering rename logs 2)

ASSUME HybridClockAssumption ==
    /\ NumMetas \in Nat \ {0}
    /\ LogicalRange \in Nat \ {0, 1}
    /\ MaxNow \in Nat
    /\ MaxRequests \in Nat
    /\ MaxLogs \in Nat

Metas == 0..NumMetas-1
Workers == Metas \X Threads
MetaOf(t) == t[1]

VARIABLES
    hlc_state_,      \* per server
    pending,         \* per worker: tls_pending_version_, 0 when taken
    wpc,             \* per worker: where it is in the handler
    old,             \* per worker: hlc_state_ as loaded by MergeAndTick
    next,            \* per worker: the value MergeAndTick will store
    request,         \* per worker: the request it serves
    logged,          \* per worker: records logged for that request
    last_seen_hlc_,  \* per client
    reqno,           \* per client: requests sent so far
    response,        \* per client: the clock in the answer under way, 0 if none
    issued           \* history: the versions given to WAL records

vars == <<hlc_state_, pending, wpc, old, next, request, logged,
          last_seen_hlc_, reqno, response, issued>>

NoRequest == [client |-> "none", no |-> 0, hlc |-> 0]

PackVersion(state, meta) == state * NumMetas + meta
StateOf(version) == version \div NumMetas

Larger(a, b) == IF a >= b THEN a ELSE b

(* Mutants: the request's clock is not merged; the logical part wraps without *)
(* a carry.                                                                   *)
NextStateIgnoresObserved(state, observed, now) ==
    LET physical == state \div LogicalRange
    IN  IF now > physical THEN now * LogicalRange ELSE state + 1

NextStateWithoutCarry(state, observed, now) ==
    LET base == Larger(state, observed)
        physical == base \div LogicalRange
    IN  IF now > physical THEN now * LogicalRange
        ELSE physical * LogicalRange + ((base + 1) % LogicalRange)

(* MergeAndTick's arithmetic: the newer of the own and the observed state is  *)
(* the base; a wall clock that is ahead of it wins, otherwise the logical     *)
(* part ticks and carries into the physical part when it is exhausted.        *)
NextState(state, observed, now) ==
    LET base == Larger(state, observed)
        base_physical == base \div LogicalRange
        base_logical == base % LogicalRange
        next_physical == Larger(now, base_physical)
    IN  CASE next_physical # base_physical -> next_physical * LogicalRange
          [] next_physical = base_physical /\ base_logical = LogicalRange - 1
               -> (base_physical + 1) * LogicalRange
          [] OTHER -> base_physical * LogicalRange + base_logical + 1

(* CurrentVersion: the operation's own version while no record has taken it,  *)
(* else the server's clock.                                                   *)
CurrentVersion(t) ==
    IF pending[t] # 0 THEN pending[t]
    ELSE IF hlc_state_[MetaOf(t)] = 0 THEN 0
    ELSE PackVersion(hlc_state_[MetaOf(t)], MetaOf(t))

Init ==
    /\ hlc_state_ = [m \in Metas |-> 0]
    /\ pending = [t \in Workers |-> 0]
    /\ wpc = [t \in Workers |-> "idle"]
    /\ old = [t \in Workers |-> 0]
    /\ next = [t \in Workers |-> 0]
    /\ request = [t \in Workers |-> NoRequest]
    /\ logged = [t \in Workers |-> 0]
    /\ last_seen_hlc_ = [c \in Clients |-> 0]
    /\ reqno = [c \in Clients |-> 0]
    /\ response = [c \in Clients |-> 0]
    /\ issued = {}

(* A client whose last answer has been observed sends LoadLastSeenHLC() to    *)
(* any server; the handler enters its clock guard: BeginOperation.            *)
SendRequest(c, t) ==
    /\ wpc[t] = "idle"
    /\ response[c] = 0
    /\ \A u \in Workers : wpc[u] # "idle" => request[u].client # c
    /\ reqno[c] < MaxRequests
    /\ reqno' = [reqno EXCEPT ![c] = @ + 1]
    /\ request' = [request EXCEPT ![t] =
                     [client |-> c, no |-> reqno[c] + 1, hlc |-> last_seen_hlc_[c]]]
    /\ logged' = [logged EXCEPT ![t] = 0]
    /\ wpc' = [wpc EXCEPT ![t] = "begin"]
    /\ UNCHANGED <<hlc_state_, pending, old, next, last_seen_hlc_, response, issued>>

(* MergeAndTick, the load of hlc_state_ and of the wall clock: merging the    *)
(* request's clock in BeginOperation, 0 in NextVersion.                       *)
LoadClock(t) ==
    /\ wpc[t] \in {"begin", "tick"}
    /\ \E now \in 0..MaxNow :
         LET observed == IF wpc[t] = "begin" THEN StateOf(request[t].hlc) ELSE 0
         IN  next' = [next EXCEPT ![t] =
                        NextState(hlc_state_[MetaOf(t)], observed, now)]
    /\ old' = [old EXCEPT ![t] = hlc_state_[MetaOf(t)]]
    /\ wpc' = [wpc EXCEPT ![t] = IF wpc[t] = "begin" THEN "begin_cas" ELSE "tick_cas"]
    /\ UNCHANGED <<hlc_state_, pending, request, logged, last_seen_hlc_, reqno,
                   response, issued>>

(* The version goes on a WAL record.                                          *)
Stamp(t, version) ==
    /\ issued' = issued \cup
         {[version |-> version, client |-> request[t].client,
           no |-> request[t].no, record |-> logged[t] + 1]}
    /\ logged' = [logged EXCEPT ![t] = @ + 1]

(* Mutant: a plain store in place of the compare-and-swap.                    *)
CasClockStores(t) ==
    LET m == MetaOf(t)
    IN  /\ wpc[t] \in {"begin_cas", "tick_cas"}
        /\ hlc_state_' = [hlc_state_ EXCEPT ![m] = next[t]]
        /\ wpc' = [wpc EXCEPT ![t] = "handler"]
        /\ IF wpc[t] = "begin_cas"
             THEN /\ pending' = [pending EXCEPT ![t] = PackVersion(next[t], m)]
                  /\ UNCHANGED <<issued, logged>>
             ELSE /\ Stamp(t, PackVersion(next[t], m))
                  /\ UNCHANGED pending
        /\ UNCHANGED <<old, next, request, last_seen_hlc_, reqno, response>>

(* MergeAndTick's CAS.  A failure starts over from the load.                  *)
CasClock(t) ==
    LET m == MetaOf(t)
        won == hlc_state_[m] = old[t]
    IN  /\ wpc[t] \in {"begin_cas", "tick_cas"}
        /\ IF won
             THEN /\ hlc_state_' = [hlc_state_ EXCEPT ![m] = next[t]]
                  /\ wpc' = [wpc EXCEPT ![t] = "handler"]
                  /\ IF wpc[t] = "begin_cas"
                       THEN /\ pending' = [pending EXCEPT ![t] = PackVersion(next[t], m)]
                            /\ UNCHANGED <<issued, logged>>
                       ELSE /\ Stamp(t, PackVersion(next[t], m))
                            /\ UNCHANGED pending
             ELSE /\ wpc' = [wpc EXCEPT ![t] =
                               IF wpc[t] = "begin_cas" THEN "begin" ELSE "tick"]
                  /\ UNCHANGED <<hlc_state_, pending, issued, logged>>
        /\ UNCHANGED <<old, next, request, last_seen_hlc_, reqno, response>>

(* NextVersion: the first record of a request takes the pending version, the  *)
(* others tick the clock.                                                     *)
LogRecord(t) ==
    /\ wpc[t] = "handler"
    /\ logged[t] < MaxLogs
    /\ IF pending[t] # 0
         THEN /\ Stamp(t, pending[t])
              /\ pending' = [pending EXCEPT ![t] = 0]
              /\ UNCHANGED wpc
         ELSE /\ wpc' = [wpc EXCEPT ![t] = "tick"]
              /\ UNCHANGED <<pending, issued, logged>>
    /\ UNCHANGED <<hlc_state_, old, next, request, last_seen_hlc_, reqno, response>>

(* Mutant: the guard leaves the thread's pending version behind.              *)
RespondKeepsPending(t) ==
    /\ wpc[t] = "handler"
    /\ response' = [response EXCEPT ![request[t].client] = CurrentVersion(t)]
    /\ wpc' = [wpc EXCEPT ![t] = "idle"]
    /\ UNCHANGED <<hlc_state_, pending, old, next, request, logged, last_seen_hlc_,
                   reqno, issued>>

(* The answer carries CurrentMetadataServerHLC(); leaving the guard is        *)
(* EndOperation.                                                              *)
Respond(t) ==
    /\ wpc[t] = "handler"
    /\ response' = [response EXCEPT ![request[t].client] = CurrentVersion(t)]
    /\ pending' = [pending EXCEPT ![t] = 0]
    /\ wpc' = [wpc EXCEPT ![t] = "idle"]
    /\ UNCHANGED <<hlc_state_, old, next, request, logged, last_seen_hlc_,
                   reqno, issued>>

(* ObserveServerHLC: last_seen_hlc_ only grows.                               *)
ObserveServerHLC(c) ==
    /\ response[c] # 0
    /\ last_seen_hlc_' = [last_seen_hlc_ EXCEPT ![c] = Larger(@, response[c])]
    /\ response' = [response EXCEPT ![c] = 0]
    /\ UNCHANGED <<hlc_state_, pending, wpc, old, next, request, logged, reqno, issued>>

Next ==
    \/ \E t \in Workers :
         \/ \E c \in Clients : SendRequest(c, t)
         \/ LoadClock(t)
         \/ CasClock(t)
         \/ LogRecord(t)
         \/ Respond(t)
    \/ \E c \in Clients : ObserveServerHLC(c)

Spec == Init /\ [][Next]_vars

-----------------------------------------------------------------------------
Version == Nat

(* Type invariant of the clocks; a thread outside a handler holds no version. *)
TypeOK ==
    /\ hlc_state_ \in [Metas -> Nat]
    /\ pending \in [Workers -> Version]
    /\ wpc \in [Workers -> {"idle", "begin", "begin_cas", "handler", "tick", "tick_cas"}]
    /\ old \in [Workers -> Nat]
    /\ next \in [Workers -> Nat]
    /\ request \in [Workers -> [client : Clients \cup {"none"}, no : Nat, hlc : Version]]
    /\ logged \in [Workers -> Nat]
    /\ last_seen_hlc_ \in [Clients -> Version]
    /\ reqno \in [Clients -> Nat]
    /\ response \in [Clients -> Version]
    /\ \A t \in Workers : wpc[t] = "idle" => pending[t] = 0
    /\ issued \in SUBSET [version : Version, client : Clients, no : Nat, record : Nat]

(* No two WAL records of the cluster carry the same version, though threads   *)
(* race on hlc_state_, a version is drawn when the handler starts and used    *)
(* later, and wall clocks go back: readers pick the newest event of a name by *)
(* version alone.                                                             *)
VersionsUnique ==
    \A a, b \in issued : a.version = b.version => a = b

(* What a client does later is newer: the records of a client's request carry *)
(* larger versions than those of all its earlier requests, whichever servers  *)
(* served them and whatever their wall clocks say, and within a request the   *)
(* versions grow in the order of logging.                                     *)
CausalOrder ==
    \A a, b \in issued :
        a.client = b.client /\ (\/ a.no < b.no
                                \/ a.no = b.no /\ a.record < b.record)
            => a.version < b.version

(* MergeAndTick never moves a server's clock back, also when the logical part *)
(* is exhausted while the wall clock stands still.                            *)
ClockNeverGoesBack ==
    [][\A m \in Metas : hlc_state_'[m] >= hlc_state_[m]]_vars
=============================================================================
