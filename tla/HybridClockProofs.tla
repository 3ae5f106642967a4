-------------------------- MODULE HybridClockProofs --------------------------
(***************************************************************************)
(* Theorems about the versions of WAL records, for any number of servers,    *)
(* threads, clients and requests: they are unique in the cluster, they       *)
(* follow what a client did before, and no server's clock goes back.         *)
(***************************************************************************)
EXTENDS HybridClock, TLAPS

(* Leaves are Zenon's unless they name SMT.                                   *)
USE ZenonT(30)

Active(t) == wpc[t] # "idle"
ClockVersion(t) == PackVersion(hlc_state_[MetaOf(t)], MetaOf(t))

(* The version was drawn from server m's clock when it was at h, or earlier.  *)
Drawn(v, m, h) == \E s \in 1..h : v = PackVersion(s, m)

(* BeginOperation has merged the request's clock.                             *)
Merged(t) == wpc[t] \in {"handler", "tick", "tick_cas"}

(* No record of the request the worker serves has been logged.                *)
Unlogged(t) == wpc[t] \in {"begin", "begin_cas"} \/ pending[t] # 0

(* A client has one request under way.                                        *)
RequestInv ==
    /\ \A t \in Workers : Active(t) =>
         /\ request[t].client \in Clients
         /\ request[t].no = reqno[request[t].client]
         /\ response[request[t].client] = 0
    /\ \A t, u \in Workers :
         Active(t) /\ Active(u) /\ t # u => request[t].client # request[u].client

(* What MergeAndTick is about to store is newer than what it has loaded, and  *)
(* the clock it leaves is newer than the request's.                           *)
TickInv ==
    \A t \in Workers :
        /\ wpc[t] \in {"begin_cas", "tick_cas"} => old[t] < next[t]
        /\ wpc[t] = "begin_cas" => StateOf(request[t].hlc) < next[t]
        /\ Merged(t) => StateOf(request[t].hlc) < hlc_state_[MetaOf(t)]
        /\ pending[t] # 0 => wpc[t] = "handler" /\ request[t].hlc < pending[t]

(* Versions, on records or pending, were drawn from a server's clock, and no  *)
(* two of them are the same draw.                                             *)
VersionInv ==
    /\ \A a \in issued : \E m \in Metas : Drawn(a.version, m, hlc_state_[m])
    /\ \A t \in Workers : pending[t] # 0 =>
         /\ Drawn(pending[t], MetaOf(t), hlc_state_[MetaOf(t)])
         /\ \A a \in issued : a.version # pending[t]
    /\ \A t, u \in Workers : pending[t] # 0 /\ t # u => pending[t] # pending[u]
    /\ VersionsUnique

(* Where the records of a client are: those of earlier requests are not newer *)
(* than the clock in the request under way, its own lie between that clock    *)
(* and the server's; a client that waits for no server knows them all.        *)
ClientInv ==
    /\ \A a \in issued : a.no <= reqno[a.client]
    /\ \A t \in Workers : Active(t) =>
         \A a \in issued : a.client = request[t].client =>
             /\ a.no < request[t].no => a.version <= request[t].hlc
             /\ a.no = request[t].no => /\ ~Unlogged(t)
                                        /\ a.record <= logged[t]
                                        /\ a.version <= ClockVersion(t)
    /\ \A c \in Clients : (\A t \in Workers : Active(t) => request[t].client # c) =>
         \A a \in issued : a.client = c =>
             a.version <= Larger(last_seen_hlc_[c], response[c])
    /\ CausalOrder

IInv == TypeOK /\ RequestInv /\ TickInv /\ VersionInv /\ ClientInv

-----------------------------------------------------------------------------
(* The arithmetic of versions (PackVersion, MergeAndTick).                    *)

LEMMA Division ==
    ASSUME NEW a \in Nat, NEW C \in Nat \ {0}
    PROVE  /\ a \div C \in Nat /\ a % C \in 0..C-1
           /\ a = C * (a \div C) + (a % C)
BY SMT

LEMMA ProductMonotone ==
    ASSUME NEW a \in Nat, NEW b \in Nat, NEW C \in Nat, a < b
    PROVE  a * C + C <= b * C
<1>1. b = a + 1 + (b - a - 1) /\ b - a - 1 \in Nat
  BY SMT
<1>2. (b - a - 1) * C \in Nat
  BY SMT, <1>1
<1>3. b * C = a * C + C + (b - a - 1) * C
  BY SMT, <1>1
<1> QED
  BY SMT, <1>2, <1>3

(* A version orders by the clock state first.                                 *)
LEMMA PackMonotone ==
    ASSUME NEW s \in Nat, NEW r \in Nat, NEW m \in Metas, NEW k \in Metas, s < r
    PROVE  PackVersion(s, m) < PackVersion(r, k)
<1>1. s * NumMetas + NumMetas <= r * NumMetas
  BY ProductMonotone, HybridClockAssumption
<1>2. s * NumMetas \in Nat /\ r * NumMetas \in Nat
  BY SMT, HybridClockAssumption
<1> QED
  BY SMT, <1>1, <1>2, HybridClockAssumption DEF PackVersion, Metas

LEMMA PackType ==
    ASSUME NEW s \in Nat, NEW m \in Metas
    PROVE  PackVersion(s, m) \in Nat /\ (s # 0 => PackVersion(s, m) # 0)
<1>1. s * NumMetas \in Nat /\ (s # 0 => s * NumMetas # 0)
  BY SMT, HybridClockAssumption
<1> QED
  BY SMT, <1>1, HybridClockAssumption DEF PackVersion, Metas

(* Versions of different servers, or of different states, differ.             *)
LEMMA PackInjective ==
    ASSUME NEW s \in Nat, NEW r \in Nat, NEW m \in Metas, NEW k \in Metas,
           PackVersion(s, m) = PackVersion(r, k)
    PROVE  s = r /\ m = k
<1>1. ~(s < r) /\ ~(r < s)
  BY SMT, PackMonotone, PackType
<1>2. s = r
  BY SMT, <1>1
<1>3. s * NumMetas \in Nat
  BY SMT, HybridClockAssumption
<1> QED
  BY SMT, <1>2, <1>3, HybridClockAssumption DEF PackVersion, Metas

(* A state newer than that of version v gives versions above v.               *)
LEMMA PackAbove ==
    ASSUME NEW v \in Nat, NEW s \in Nat, NEW m \in Metas, StateOf(v) < s
    PROVE  v < PackVersion(s, m)
<1> DEFINE q == v \div NumMetas
<1>1. /\ q \in Nat /\ v % NumMetas \in 0..NumMetas-1
      /\ v = NumMetas * q + (v % NumMetas)
  BY Division, HybridClockAssumption
<1>2. q < s
  BY DEF StateOf
<1> HIDE DEF q
<1>3. q * NumMetas + NumMetas <= s * NumMetas
  BY <1>1, <1>2, ProductMonotone, HybridClockAssumption
<1>4. q * NumMetas \in Nat /\ s * NumMetas \in Nat /\ NumMetas * q = q * NumMetas
  BY SMT, <1>1, HybridClockAssumption
<1> QED
  BY SMT, <1>1, <1>3, <1>4, HybridClockAssumption DEF PackVersion, Metas

LEMMA StateType ==
    ASSUME NEW v \in Nat
    PROVE  StateOf(v) \in Nat
BY Division, HybridClockAssumption DEF StateOf

(* MergeAndTick's next state is above the server's state and above the        *)
(* observed one, whatever the wall clock says and when the logical part is    *)
(* exhausted.                                                                 *)
LEMMA NextStateGrows ==
    ASSUME NEW s \in Nat, NEW o \in Nat, NEW now \in Nat
    PROVE  NextState(s, o, now) \in Nat /\ s < NextState(s, o, now) /\ o < NextState(s, o, now)
<1> DEFINE base == Larger(s, o)
           p == base \div LogicalRange
           l == base % LogicalRange
           n == Larger(now, p)
<1>1. base \in Nat /\ s <= base /\ o <= base
  BY SMT DEF Larger
<1>2. LogicalRange \in Nat \ {0}
  BY HybridClockAssumption
<1> HIDE DEF base
<1>3. p \in Nat /\ l \in 0..LogicalRange-1 /\ base = LogicalRange * p + l
  BY <1>1, <1>2, Division
<1> HIDE DEF p, l
<1>4. n \in Nat /\ p <= n
  BY SMT, <1>3 DEF Larger
<1> HIDE DEF n
<1>5. p * LogicalRange \in Nat /\ LogicalRange * p = p * LogicalRange
  BY SMT, <1>2, <1>3
<1>6. NextState(s, o, now) =
        CASE n # p -> n * LogicalRange
          [] n = p /\ l = LogicalRange - 1 -> (p + 1) * LogicalRange
          [] OTHER -> p * LogicalRange + l + 1
  BY DEF NextState, base, p, l, n
<1>7. CASE n # p
  <2>1. p * LogicalRange + LogicalRange <= n * LogicalRange
    BY SMT, <1>2, <1>3, <1>4, <1>7, ProductMonotone
  <2>2. n * LogicalRange \in Nat
    BY SMT, <1>2, <1>4
  <2> QED
    BY SMT, <1>1, <1>2, <1>3, <1>5, <1>6, <1>7, <2>1, <2>2
<1>8. CASE n = p /\ l = LogicalRange - 1
  <2>1. (p + 1) * LogicalRange = p * LogicalRange + LogicalRange
    BY SMT, <1>2, <1>3
  <2> QED
    BY SMT, <1>1, <1>2, <1>3, <1>5, <1>6, <1>8, <2>1
<1>9. CASE n = p /\ l # LogicalRange - 1
  BY SMT, <1>1, <1>2, <1>3, <1>5, <1>6, <1>9
<1> QED
  BY <1>7, <1>8, <1>9

-----------------------------------------------------------------------------
(* IInv holds at first, and every action preserves it.                        *)

LEMMA InitInvariant == Init => IInv
<1> SUFFICES ASSUME Init PROVE IInv
  OBVIOUS
<1>1. TypeOK
  BY DEF Init, TypeOK, Version, NoRequest
<1>2. \A t \in Workers : wpc[t] = "idle" /\ pending[t] = 0
  BY DEF Init
<1>3. issued = {}
  BY DEF Init
<1>4. RequestInv /\ TickInv
  BY <1>2 DEF RequestInv, TickInv, Active, Merged
<1>5. VersionInv /\ ClientInv
  BY <1>2, <1>3 DEF VersionInv, ClientInv, VersionsUnique, CausalOrder
<1> QED
  BY <1>1, <1>4, <1>5 DEF IInv

LEMMA SendRequestStep ==
    ASSUME IInv, NEW c \in Clients, NEW t \in Workers, SendRequest(c, t)
    PROVE  IInv'
<1>0. TypeOK /\ RequestInv /\ TickInv /\ VersionInv /\ ClientInv
  BY DEF IInv
<1>1. TypeOK'
  BY SMT, <1>0 DEF TypeOK, Version, SendRequest
<1>2. /\ wpc'[t] = "begin" /\ request'[t].client = c /\ request'[t].no = reqno'[c]
      /\ request'[t].hlc = last_seen_hlc_[c] /\ pending[t] = 0
      /\ \A u \in Workers : u # t => wpc'[u] = wpc[u] /\ request'[u] = request[u]
                                      /\ logged'[u] = logged[u]
      /\ \A d \in Clients : d # c => reqno'[d] = reqno[d]
      /\ reqno'[c] = reqno[c] + 1 /\ response[c] = 0 /\ wpc[t] = "idle"
  BY <1>0 DEF TypeOK, SendRequest
<1>3. \A u \in Workers : wpc[u] # "idle" => request[u].client # c
  BY DEF SendRequest
<1>4. UNCHANGED <<hlc_state_, pending, old, next, last_seen_hlc_, response, issued>>
  BY DEF SendRequest
<1>5. RequestInv'
  BY SMT, <1>0, <1>2, <1>3, <1>4 DEF RequestInv, Active
<1>6. TickInv'
  BY <1>0, <1>2, <1>4 DEF TickInv, Merged
<1>7. VersionInv'
  BY <1>0, <1>4 DEF VersionInv, VersionsUnique
<1>8. ClientInv'
  <2>1. \A a \in issued : a.version \in Nat /\ a.no \in Nat /\ a.client \in Clients
    BY <1>0 DEF TypeOK, Version
  <2>2. reqno[c] \in Nat /\ last_seen_hlc_[c] \in Nat
    BY <1>0 DEF TypeOK, Version
  <2>3. \A a \in issued : a.client = c => a.no <= reqno[c] /\ a.version <= last_seen_hlc_[c]
    BY SMT, <1>0, <1>2, <1>3, <2>2 DEF ClientInv, Active, Larger
  <2>4. \A a \in issued' : a.no <= reqno'[a.client]
    BY SMT, <1>0, <1>2, <1>4, <2>1, <2>2, <2>3 DEF ClientInv
  <2>5. ASSUME NEW u \in Workers, Active(u)', NEW a \in issued, a.client = request'[u].client
        PROVE  /\ a.no < request'[u].no => a.version <= request'[u].hlc
               /\ a.no = request'[u].no => /\ ~Unlogged(u)'
                                           /\ a.record <= logged'[u]
                                           /\ a.version <= ClockVersion(u)'
    <3>1. CASE u = t
      BY SMT, <1>2, <2>1, <2>2, <2>3, <2>5, <3>1
    <3>2. CASE u # t
      BY <1>0, <1>2, <1>4, <2>5, <3>2 DEF ClientInv, Active, Unlogged, ClockVersion
    <3> QED
      BY <3>1, <3>2
  <2>6. ASSUME NEW d \in Clients, \A u \in Workers : Active(u)' => request'[u].client # d,
               NEW a \in issued, a.client = d
        PROVE  a.version <= Larger(last_seen_hlc_[d], response[d])
    BY SMT, <1>0, <1>2, <2>6 DEF ClientInv, Active
  <2>7. CausalOrder'
    BY <1>0, <1>4 DEF ClientInv, CausalOrder
  <2> QED
    BY <1>4, <2>4, <2>5, <2>6, <2>7 DEF ClientInv
<1> QED
  BY <1>1, <1>5, <1>6, <1>7, <1>8 DEF IInv

LEMMA LoadClockStep ==
    ASSUME IInv, NEW t \in Workers, LoadClock(t)
    PROVE  IInv'
<1>0. TypeOK /\ RequestInv /\ TickInv /\ VersionInv /\ ClientInv
  BY DEF IInv
<1>1. /\ hlc_state_[MetaOf(t)] \in Nat /\ request[t].hlc \in Nat
      /\ MetaOf(t) \in Metas
  BY <1>0 DEF TypeOK, Version, Workers, MetaOf
<1>2. StateOf(request[t].hlc) \in Nat
  BY <1>1, StateType
<1>3. PICK now \in 0..MaxNow :
        next' = [next EXCEPT ![t] =
                   NextState(hlc_state_[MetaOf(t)],
                             IF wpc[t] = "begin" THEN StateOf(request[t].hlc) ELSE 0, now)]
  BY DEF LoadClock
<1>4. now \in Nat
  BY SMT, HybridClockAssumption
<1>5. /\ next'[t] \in Nat /\ next' = [next EXCEPT ![t] = next'[t]]
      /\ hlc_state_[MetaOf(t)] < next'[t]
      /\ wpc[t] = "begin" => StateOf(request[t].hlc) < next'[t]
  BY <1>0, <1>1, <1>2, <1>3, <1>4, NextStateGrows DEF TypeOK
<1>6. UNCHANGED <<hlc_state_, pending, request, logged, last_seen_hlc_, reqno,
                  response, issued>>
  BY DEF LoadClock
<1>7. /\ \/ wpc[t] = "begin" /\ wpc'[t] = "begin_cas"
         \/ wpc[t] = "tick" /\ wpc'[t] = "tick_cas"
      /\ old'[t] = hlc_state_[MetaOf(t)]
      /\ \A u \in Workers : u # t => wpc'[u] = wpc[u] /\ old'[u] = old[u] /\ next'[u] = next[u]
  <2>1. DOMAIN wpc = Workers /\ DOMAIN old = Workers /\ DOMAIN next = Workers
    BY <1>0 DEF TypeOK
  <2>2. /\ wpc[t] \in {"begin", "tick"}
        /\ wpc' = [wpc EXCEPT ![t] = IF wpc[t] = "begin" THEN "begin_cas" ELSE "tick_cas"]
        /\ old' = [old EXCEPT ![t] = hlc_state_[MetaOf(t)]]
    BY DEF LoadClock
  <2> QED
    BY <1>5, <2>1, <2>2
<1>8. TypeOK'
  <2>1. old' \in [Workers -> Nat]
    BY <1>0, <1>1 DEF TypeOK, LoadClock
  <2>2. next' \in [Workers -> Nat]
    BY <1>0, <1>5 DEF TypeOK
  <2>3. wpc' \in [Workers -> {"idle", "begin", "begin_cas", "handler", "tick", "tick_cas"}]
    BY <1>0 DEF TypeOK, LoadClock
  <2> QED
    BY <1>0, <1>6, <1>7, <2>1, <2>2, <2>3 DEF TypeOK
<1>9. RequestInv'
  BY SMT, <1>0, <1>6, <1>7 DEF RequestInv, Active
<1>10. TickInv'
  BY <1>0, <1>5, <1>6, <1>7 DEF TickInv, Merged
<1>11. VersionInv'
  BY <1>0, <1>6 DEF VersionInv, VersionsUnique
<1>12. ClientInv'
  <2>1. \A u \in Workers : /\ Active(u)' = Active(u) /\ Unlogged(u)' = Unlogged(u)
                           /\ ClockVersion(u)' = ClockVersion(u)
    BY <1>6, <1>7 DEF Active, Unlogged, ClockVersion
  <2> QED
    BY <1>0, <1>6, <2>1 DEF ClientInv, CausalOrder
<1> QED
  BY <1>8, <1>9, <1>10, <1>11, <1>12 DEF IInv

(* A version drawn before is not the one the next state gives.                *)
LEMMA NotDrawn ==
    ASSUME TypeOK, NEW m \in Metas, NEW k \in Metas, NEW s \in Nat,
           hlc_state_[m] < s, NEW v, Drawn(v, k, hlc_state_[k])
    PROVE  v # PackVersion(s, m)
<1>1. PICK r \in 1..hlc_state_[k] : v = PackVersion(r, k)
  BY DEF Drawn
<1>2. hlc_state_[k] \in Nat /\ hlc_state_[m] \in Nat
  BY DEF TypeOK
<1>r. r \in Nat
  BY SMT, <1>2
<1>3. SUFFICES ASSUME v = PackVersion(s, m) PROVE FALSE
  OBVIOUS
<1>e. PackVersion(s, m) = PackVersion(r, k)
  BY <1>1, <1>3
<1>4. s = r /\ m = k
  BY SMT, <1>e, <1>r, PackInjective
<1> QED
  BY SMT, <1>1, <1>2, <1>4

LEMMA DrawnStays ==
    ASSUME TypeOK, NEW m \in Metas, NEW s \in Nat, hlc_state_[m] < s,
           hlc_state_' = [hlc_state_ EXCEPT ![m] = s]
    PROVE  /\ \A k \in Metas : \A v : Drawn(v, k, hlc_state_[k]) => Drawn(v, k, hlc_state_'[k])
           /\ s > 0 /\ Drawn(PackVersion(s, m), m, hlc_state_'[m])
<1>1. \A k \in Metas : hlc_state_[k] \in Nat /\ hlc_state_'[k] \in Nat
                         /\ hlc_state_[k] <= hlc_state_'[k]
  BY SMT DEF TypeOK
<1>2. s > 0 /\ s = hlc_state_'[m]
  BY SMT, <1>1 DEF TypeOK
<1> QED
  BY SMT, <1>1, <1>2 DEF Drawn

(* Where the clock was merged, its version is above the request's.            *)
LEMMA MergedAbove ==
    ASSUME IInv, NEW t \in Workers, Merged(t)
    PROVE  /\ ClockVersion(t) \in Nat /\ request[t].hlc \in Nat
           /\ request[t].hlc < ClockVersion(t)
           /\ hlc_state_[MetaOf(t)] # 0 /\ ClockVersion(t) # 0
<1>1. MetaOf(t) \in Metas /\ hlc_state_[MetaOf(t)] \in Nat /\ request[t].hlc \in Nat
  BY DEF IInv, TypeOK, Version, Workers, MetaOf
<1>2. StateOf(request[t].hlc) < hlc_state_[MetaOf(t)]
  BY DEF IInv, TickInv
<1>3. StateOf(request[t].hlc) \in Nat
  BY <1>1, StateType
<1> QED
  BY SMT, <1>1, <1>2, <1>3, PackAbove, PackType DEF ClockVersion

(* A record whose version is new and above those of its client's earlier      *)
(* records keeps versions unique and in causal order.                         *)
LEMMA StampInOrder ==
    ASSUME IInv, NEW t \in Workers, Active(t), NEW v \in Nat, Stamp(t, v),
           \A a \in issued : a.version # v,
           \A a \in issued : a.client = request[t].client =>
               a.version < v /\ (a.no = request[t].no => a.record <= logged[t])
    PROVE  /\ issued' \in SUBSET [version : Version, client : Clients, no : Nat, record : Nat]
           /\ logged' \in [Workers -> Nat] /\ logged'[t] = logged[t] + 1
           /\ VersionsUnique' /\ CausalOrder'
<1> DEFINE r == [version |-> v, client |-> request[t].client,
                 no |-> request[t].no, record |-> logged[t] + 1]
<1>1. issued' = issued \cup {r} /\ logged' = [logged EXCEPT ![t] = @ + 1]
  BY DEF Stamp
<1>2. /\ issued \in SUBSET [version : Version, client : Clients, no : Nat, record : Nat]
      /\ logged \in [Workers -> Nat] /\ reqno \in [Clients -> Nat]
      /\ request[t].no \in Nat /\ request[t].client \in Clients
      /\ request[t].no = reqno[request[t].client]
  BY DEF IInv, TypeOK, RequestInv
<1>3. r \in [version : Version, client : Clients, no : Nat, record : Nat]
  BY SMT, <1>2 DEF Version
<1>4. /\ r.version = v /\ r.client = request[t].client /\ r.no = request[t].no
      /\ r.record = logged[t] + 1
  OBVIOUS
<1> HIDE DEF r
<1>5. VersionsUnique'
  <2>1. VersionsUnique
    BY DEF IInv, VersionInv
  <2> QED
    BY <1>1, <1>4, <2>1 DEF VersionsUnique
<1>6. CausalOrder'
  <2>1. CausalOrder /\ \A a \in issued : a.no <= reqno[a.client]
    BY DEF IInv, ClientInv
  <2>2. logged[t] \in Nat
    BY <1>2
  <2>3. \A a \in issued : a.version \in Nat /\ a.no \in Nat /\ a.record \in Nat
    BY <1>2 DEF Version
  <2>4. SUFFICES ASSUME NEW a \in issued', NEW b \in issued', a.client = b.client,
                        a.no < b.no \/ (a.no = b.no /\ a.record < b.record)
                 PROVE  a.version < b.version
    BY DEF CausalOrder
  <2>5. CASE a \in issued /\ b \in issued
    BY <2>1, <2>4, <2>5 DEF CausalOrder
  <2>6. CASE a \in issued /\ b = r
    BY <1>4, <2>4, <2>6
  <2>7. CASE a = r /\ b \in issued
    <3>1. b.no <= request[t].no
      BY <1>2, <1>4, <2>1, <2>4, <2>7
    <3>2. b.no = request[t].no /\ logged[t] + 1 < b.record
      BY SMT, <1>2, <1>4, <2>3, <2>4, <2>7, <3>1
    <3> QED
      BY SMT, <1>4, <2>2, <2>3, <2>4, <2>7, <3>2
  <2>8. CASE a = r /\ b = r
    BY SMT, <1>2, <1>3, <1>4, <2>2, <2>4, <2>8
  <2> QED
    BY <1>1, <2>5, <2>6, <2>7, <2>8
<1> QED
  BY SMT, <1>1, <1>2, <1>3, <1>5, <1>6

LEMMA DrawnBelow ==
    ASSUME TypeOK, NEW t \in Workers, NEW v, Drawn(v, MetaOf(t), hlc_state_[MetaOf(t)])
    PROVE  v \in Nat /\ ClockVersion(t) \in Nat /\ v <= ClockVersion(t)
<1>1. MetaOf(t) \in Metas /\ hlc_state_[MetaOf(t)] \in Nat
  BY DEF TypeOK, Workers, MetaOf
<1>2. PICK s \in 1..hlc_state_[MetaOf(t)] : v = PackVersion(s, MetaOf(t))
  BY DEF Drawn
<1>3. s \in Nat /\ (s = hlc_state_[MetaOf(t)] \/ s < hlc_state_[MetaOf(t)])
  BY SMT, <1>1, <1>2
<1> QED
  BY SMT, <1>1, <1>2, <1>3, PackMonotone, PackType DEF ClockVersion

LEMMA ClockVersionGrows ==
    ASSUME TypeOK, NEW m \in Metas, NEW s \in Nat, hlc_state_[m] < s,
           hlc_state_' = [hlc_state_ EXCEPT ![m] = s]
    PROVE  \A u \in Workers : /\ ClockVersion(u) \in Nat /\ ClockVersion(u)' \in Nat
                              /\ ClockVersion(u) <= ClockVersion(u)'
<1> TAKE u \in Workers
<1>1. /\ MetaOf(u) \in Metas
      /\ hlc_state_[MetaOf(u)] \in Nat /\ hlc_state_'[MetaOf(u)] \in Nat
      /\ \/ hlc_state_[MetaOf(u)] < hlc_state_'[MetaOf(u)]
         \/ hlc_state_[MetaOf(u)] = hlc_state_'[MetaOf(u)]
  BY DEF TypeOK, Workers, MetaOf
<1> QED
  BY SMT, <1>1, PackMonotone, PackType DEF ClockVersion

LEMMA StampClient ==
    ASSUME IInv, NEW t \in Workers, Active(t), NEW v \in Nat, Stamp(t, v),
           \A a \in issued : a.version # v,
           \A a \in issued : a.client = request[t].client =>
               a.version < v /\ (a.no = request[t].no => a.record <= logged[t]),
           UNCHANGED <<request, last_seen_hlc_, reqno, response>>,
           \A u \in Workers : Active(u)' = Active(u),
           \A u \in Workers : u # t => Unlogged(u)' = Unlogged(u),
           ~Unlogged(t)',
           \A u \in Workers : /\ ClockVersion(u) \in Nat /\ ClockVersion(u)' \in Nat
                              /\ ClockVersion(u) <= ClockVersion(u)',
           v <= ClockVersion(t)'
    PROVE  ClientInv'
<1>0. TypeOK /\ RequestInv /\ ClientInv
  BY DEF IInv
<1>1. /\ CausalOrder' /\ logged' \in [Workers -> Nat] /\ logged'[t] = logged[t] + 1
      /\ logged[t] \in Nat /\ \A u \in Workers : u # t => logged'[u] = logged[u]
  BY <1>0, StampInOrder DEF Stamp, TypeOK
<1>2. \A a \in issued' :
        \/ a \in issued
        \/ /\ a.version = v /\ a.client = request[t].client
           /\ a.no = request[t].no /\ a.record = logged[t] + 1
  BY SMT DEF Stamp
<1>3. /\ request[t].client \in Clients /\ request[t].no = reqno[request[t].client]
      /\ request[t].no \in Nat
  BY <1>0 DEF RequestInv, TypeOK
<1>4. \A a \in issued : a.version \in Nat /\ a.no \in Nat /\ a.record \in Nat
  BY <1>0 DEF TypeOK, Version
<1>5. \A a \in issued' : a.no <= reqno'[a.client]
  BY SMT, <1>0, <1>2, <1>3 DEF ClientInv
<1>6. ASSUME NEW u \in Workers, Active(u)', NEW a \in issued', a.client = request'[u].client
      PROVE  /\ a.no < request'[u].no => a.version <= request'[u].hlc
             /\ a.no = request'[u].no => /\ ~Unlogged(u)'
                                         /\ a.record <= logged'[u]
                                         /\ a.version <= ClockVersion(u)'
  <2>0. Active(u) /\ request'[u] = request[u]
    BY <1>6
  <2>1. CASE a \in issued
    <3>1. /\ a.no < request[u].no => a.version <= request[u].hlc
          /\ a.no = request[u].no => /\ ~Unlogged(u)
                                     /\ a.record <= logged[u]
                                     /\ a.version <= ClockVersion(u)
      BY <1>0, <1>6, <2>0, <2>1 DEF ClientInv
    <3>2. CASE u = t
      BY SMT, <1>1, <1>4, <2>0, <2>1, <3>1, <3>2
    <3>3. CASE u # t
      BY SMT, <1>1, <1>4, <2>0, <2>1, <3>1, <3>3
    <3> QED
      BY <3>2, <3>3
  <2>2. CASE a \notin issued
    <3>1. a.version = v /\ a.client = request[t].client
            /\ a.no = request[t].no /\ a.record = logged[t] + 1
      BY <1>2, <1>6, <2>2
    <3>2. u = t
      BY <1>0, <1>6, <2>0, <3>1 DEF RequestInv
    <3> QED
      BY SMT, <1>1, <1>3, <2>0, <3>1, <3>2
  <2> QED
    BY <2>1, <2>2
<1>7. ASSUME NEW d \in Clients, \A u \in Workers : Active(u)' => request'[u].client # d,
             NEW a \in issued', a.client = d
      PROVE  a.version <= Larger(last_seen_hlc_[d], response[d])'
  <2>1. \A u \in Workers : Active(u) => request[u].client # d
    BY <1>7
  <2>2. a \in issued
    BY <1>2, <1>7, <2>1
  <2> QED
    BY <1>0, <1>7, <2>1, <2>2 DEF ClientInv, Larger
<1> QED
  BY <1>1, <1>5, <1>6, <1>7 DEF ClientInv

(* CasClock, one lemma per outcome.                                           *)
LEMMA CasFailStep ==
    ASSUME IInv, NEW t \in Workers, CasClock(t), hlc_state_[MetaOf(t)] # old[t]
    PROVE  IInv'
<1>0. TypeOK /\ RequestInv /\ TickInv /\ VersionInv /\ ClientInv
  BY DEF IInv
<1>1. UNCHANGED <<hlc_state_, pending, issued, logged, old, next, request,
                  last_seen_hlc_, reqno, response>>
  BY DEF CasClock
<1>2. /\ wpc' = [wpc EXCEPT ![t] = IF wpc[t] = "begin_cas" THEN "begin" ELSE "tick"]
      /\ wpc[t] \in {"begin_cas", "tick_cas"}
  BY DEF CasClock
<1>3. wpc \in [Workers -> {"idle", "begin", "begin_cas", "handler", "tick", "tick_cas"}]
  BY <1>0 DEF TypeOK
<1>4. /\ \/ wpc[t] = "begin_cas" /\ wpc'[t] = "begin"
         \/ wpc[t] = "tick_cas" /\ wpc'[t] = "tick"
      /\ \A u \in Workers : u # t => wpc'[u] = wpc[u]
      /\ wpc' \in [Workers -> {"idle", "begin", "begin_cas", "handler", "tick", "tick_cas"}]
  BY <1>2, <1>3
<1>5. TypeOK'
  BY <1>0, <1>1, <1>4 DEF TypeOK
<1>6. RequestInv'
  <2>1. \A u \in Workers : Active(u)' = Active(u)
    BY <1>4 DEF Active
  <2>2. UNCHANGED <<request, reqno, response>>
    BY <1>1
  <2> QED
    BY <1>0, <2>1, <2>2 DEF RequestInv
<1>7. TickInv'
  BY <1>0, <1>1, <1>4 DEF TickInv, Merged
<1>8. VersionInv'
  BY <1>0, <1>1 DEF VersionInv, VersionsUnique
<1>9. ClientInv'
  <2>1. \A u \in Workers : /\ Active(u)' = Active(u) /\ Unlogged(u)' = Unlogged(u)
                           /\ ClockVersion(u)' = ClockVersion(u)
    BY <1>1, <1>4 DEF Active, Unlogged, ClockVersion
  <2> QED
    BY <1>0, <1>1, <2>1 DEF ClientInv, CausalOrder
<1> QED
  BY <1>5, <1>6, <1>7, <1>8, <1>9 DEF IInv

(* What every successful CAS gives.                                           *)
LEMMA CasWins ==
    ASSUME IInv, NEW t \in Workers, CasClock(t), hlc_state_[MetaOf(t)] = old[t]
    PROVE  LET m == MetaOf(t)
               v == PackVersion(next[t], m)
           IN  /\ m \in Metas /\ hlc_state_[m] \in Nat /\ next[t] \in Nat
               /\ hlc_state_[m] < next[t]
               /\ hlc_state_' = [hlc_state_ EXCEPT ![m] = next[t]]
               /\ hlc_state_' \in [Metas -> Nat]
               /\ wpc' \in [Workers -> {"idle", "begin", "begin_cas", "handler",
                                        "tick", "tick_cas"}]
               /\ wpc'[t] = "handler" /\ Active(t)
               /\ \A u \in Workers : u # t => wpc'[u] = wpc[u]
               /\ UNCHANGED <<old, next, request, last_seen_hlc_, reqno, response>>
               /\ v \in Nat /\ v # 0 /\ request[t].hlc < v
               /\ \A a \in issued : a.version # v
               /\ \A u \in Workers : pending[u] # v
               /\ RequestInv' /\ StateOf(request[t].hlc) < next[t]
               /\ \A u \in Workers : Active(u)' = Active(u)
               /\ \A u \in Workers : Merged(u) =>
                    StateOf(request[u].hlc) < hlc_state_'[MetaOf(u)]
<1> DEFINE m == MetaOf(t)
           v == PackVersion(next[t], m)
<1>0. TypeOK /\ RequestInv /\ TickInv /\ VersionInv
  BY DEF IInv
<1>1. /\ m \in Metas /\ hlc_state_[m] \in Nat /\ next[t] \in Nat /\ request[t].hlc \in Nat
      /\ wpc \in [Workers -> {"idle", "begin", "begin_cas", "handler", "tick", "tick_cas"}]
      /\ hlc_state_ \in [Metas -> Nat]
  BY <1>0 DEF TypeOK, Version, Workers, MetaOf
<1>2. /\ wpc[t] \in {"begin_cas", "tick_cas"} /\ wpc' = [wpc EXCEPT ![t] = "handler"]
      /\ hlc_state_' = [hlc_state_ EXCEPT ![m] = next[t]]
      /\ UNCHANGED <<old, next, request, last_seen_hlc_, reqno, response>>
  BY DEF CasClock
<1>3. hlc_state_[m] < next[t]
  BY <1>0, <1>2 DEF TickInv
<1>4. StateOf(request[t].hlc) \in Nat /\ StateOf(request[t].hlc) < next[t]
  <2>1. StateOf(request[t].hlc) \in Nat
    BY <1>1, StateType
  <2>2. wpc[t] = "tick_cas" => StateOf(request[t].hlc) < hlc_state_[m]
    BY <1>0 DEF TickInv, Merged
  <2>3. wpc[t] = "begin_cas" => StateOf(request[t].hlc) < next[t]
    BY <1>0 DEF TickInv
  <2> QED
    BY SMT, <1>1, <1>2, <1>3, <2>1, <2>2, <2>3
<1>5. /\ wpc' \in [Workers -> {"idle", "begin", "begin_cas", "handler", "tick", "tick_cas"}]
      /\ hlc_state_' \in [Metas -> Nat] /\ wpc'[t] = "handler"
      /\ \A u \in Workers : u # t => wpc'[u] = wpc[u]
  BY <1>1, <1>2
<1>6. \A u \in Workers : Active(u)' = Active(u)
  BY <1>2, <1>5 DEF Active
<1>7. RequestInv'
  BY <1>0, <1>2, <1>6 DEF RequestInv
<1>8. v \in Nat /\ v # 0 /\ request[t].hlc < v
  BY SMT, <1>1, <1>3, <1>4, PackType, PackAbove
<1>9. \A a \in issued : a.version # v
  BY <1>0, <1>1, <1>3, NotDrawn DEF VersionInv
<1>10. \A u \in Workers : pending[u] # v
  <2>1. \A u \in Workers : MetaOf(u) \in Metas
    BY DEF Workers, MetaOf
  <2> QED
    BY <1>0, <1>1, <1>3, <1>8, <2>1, NotDrawn DEF VersionInv
<1>11. ASSUME NEW u \in Workers, Merged(u)
       PROVE  StateOf(request[u].hlc) < hlc_state_'[MetaOf(u)]
  <2>1. StateOf(request[u].hlc) < hlc_state_[MetaOf(u)]
    BY <1>0, <1>11 DEF TickInv
  <2>2. StateOf(request[u].hlc) \in Nat
    BY <1>0, StateType DEF TypeOK, Version
  <2>3. MetaOf(u) \in Metas
    BY DEF Workers, MetaOf
  <2> QED
    BY SMT, <1>1, <1>2, <1>3, <2>1, <2>2, <2>3
<1> QED
  BY <1>1, <1>2, <1>3, <1>4, <1>5, <1>6, <1>7, <1>8, <1>9, <1>10, <1>11 DEF Active

(* BeginOperation's CAS: the version becomes pending.                         *)
LEMMA CasBeginStep ==
    ASSUME IInv, NEW t \in Workers, CasClock(t), hlc_state_[MetaOf(t)] = old[t],
           wpc[t] = "begin_cas"
    PROVE  IInv'
<1> DEFINE m == MetaOf(t)
           v == PackVersion(next[t], m)
<1>0. TypeOK /\ RequestInv /\ TickInv /\ VersionInv /\ ClientInv
  BY DEF IInv
<1>1. /\ m \in Metas /\ hlc_state_[m] \in Nat /\ next[t] \in Nat /\ hlc_state_[m] < next[t]
      /\ hlc_state_' = [hlc_state_ EXCEPT ![m] = next[t]]
      /\ hlc_state_' \in [Metas -> Nat]
      /\ v \in Nat /\ v # 0 /\ request[t].hlc < v
      /\ \A a \in issued : a.version # v
      /\ \A u \in Workers : pending[u] # v
  BY CasWins
<1>2. /\ wpc' \in [Workers -> {"idle", "begin", "begin_cas", "handler", "tick", "tick_cas"}]
      /\ wpc'[t] = "handler" /\ \A u \in Workers : u # t => wpc'[u] = wpc[u]
      /\ UNCHANGED <<old, next, request, last_seen_hlc_, reqno, response>>
      /\ RequestInv' /\ StateOf(request[t].hlc) < next[t]
      /\ \A u \in Workers : Active(u)' = Active(u)
      /\ \A u \in Workers : Merged(u) => StateOf(request[u].hlc) < hlc_state_'[MetaOf(u)]
  BY CasWins
<1>3. UNCHANGED <<issued, logged>> /\ pending' = [pending EXCEPT ![t] = v]
  BY DEF CasClock
<1> HIDE DEF v
<1>4. /\ pending' \in [Workers -> Nat] /\ pending'[t] = v
      /\ \A u \in Workers : u # t => pending'[u] = pending[u]
  BY <1>0, <1>1, <1>3 DEF TypeOK, Version
<1>5. TypeOK'
  BY <1>0, <1>1, <1>2, <1>3, <1>4 DEF TypeOK, Version
<1>6. TickInv'
  <2>1. hlc_state_'[m] = next[t]
    BY <1>0, <1>1 DEF TypeOK
  <2> QED
    BY <1>0, <1>1, <1>2, <1>4, <2>1 DEF TickInv, Merged
<1>7. VersionInv'
  <2>1. \A k \in Metas : \A x : Drawn(x, k, hlc_state_[k]) => Drawn(x, k, hlc_state_'[k])
    BY <1>0, <1>1, DrawnStays
  <2>2. Drawn(v, m, hlc_state_'[m])
    BY <1>0, <1>1, DrawnStays DEF v
  <2>3. \A u \in Workers : MetaOf(u) \in Metas
    BY DEF Workers, MetaOf
  <2>4. \A a \in issued' : \E k \in Metas : Drawn(a.version, k, hlc_state_'[k])
    BY <1>0, <1>3, <2>1 DEF VersionInv
  <2>5. \A u \in Workers : pending'[u] # 0 =>
          /\ Drawn(pending'[u], MetaOf(u), hlc_state_'[MetaOf(u)])
          /\ \A a \in issued' : a.version # pending'[u]
    BY <1>0, <1>1, <1>3, <1>4, <2>1, <2>2, <2>3 DEF VersionInv
  <2>6. \A u, x \in Workers : pending'[u] # 0 /\ u # x => pending'[u] # pending'[x]
    BY <1>0, <1>1, <1>4 DEF VersionInv
  <2>7. VersionsUnique'
    BY <1>0, <1>3 DEF VersionInv, VersionsUnique
  <2> QED
    BY <2>4, <2>5, <2>6, <2>7 DEF VersionInv
<1>8. ClientInv'
  <2>1. \A u \in Workers : Unlogged(u)' = Unlogged(u)
    BY <1>1, <1>2, <1>4 DEF Unlogged
  <2>2. \A u \in Workers : /\ ClockVersion(u) \in Nat /\ ClockVersion(u)' \in Nat
                           /\ ClockVersion(u) <= ClockVersion(u)'
    BY <1>0, <1>1, ClockVersionGrows
  <2>3. \A a \in issued : a.version \in Nat
    BY <1>0 DEF TypeOK, Version
  <2>a. UNCHANGED <<request, logged, reqno, last_seen_hlc_, response, issued>>
    BY <1>2, <1>3
  <2>b. \A u \in Workers : Active(u)' = Active(u)
    BY <1>2
  <2>4. ASSUME NEW u \in Workers, Active(u), NEW a \in issued, a.client = request[u].client
        PROVE  /\ a.no < request[u].no => a.version <= request[u].hlc
               /\ a.no = request[u].no => /\ ~Unlogged(u)'
                                          /\ a.record <= logged[u]
                                          /\ a.version <= ClockVersion(u)'
    <3>1. /\ a.no < request[u].no => a.version <= request[u].hlc
          /\ a.no = request[u].no => /\ ~Unlogged(u)
                                     /\ a.record <= logged[u]
                                     /\ a.version <= ClockVersion(u)
      BY <1>0, <2>4 DEF ClientInv
    <3>2. a.version \in Nat /\ ClockVersion(u) \in Nat /\ ClockVersion(u)' \in Nat
            /\ ClockVersion(u) <= ClockVersion(u)' /\ Unlogged(u)' = Unlogged(u)
      BY <2>1, <2>2, <2>3
    <3> QED
      BY SMT, <3>1, <3>2
  <2>5. /\ \A a \in issued : a.no <= reqno[a.client]
        /\ \A d \in Clients : (\A u \in Workers : Active(u) => request[u].client # d) =>
             \A a \in issued : a.client = d =>
                 a.version <= Larger(last_seen_hlc_[d], response[d])
    BY <1>0 DEF ClientInv
  <2>6. CausalOrder'
    BY <1>0, <2>a DEF ClientInv, CausalOrder
  <2> QED
    BY <2>a, <2>b, <2>4, <2>5, <2>6 DEF ClientInv
<1> QED
  BY <1>2, <1>5, <1>6, <1>7, <1>8 DEF IInv

(* NextVersion's CAS: the version goes on a record.                           *)
LEMMA CasTickStep ==
    ASSUME IInv, NEW t \in Workers, CasClock(t), hlc_state_[MetaOf(t)] = old[t],
           wpc[t] = "tick_cas"
    PROVE  IInv'
<1> DEFINE m == MetaOf(t)
           v == PackVersion(next[t], m)
<1>0. TypeOK /\ RequestInv /\ TickInv /\ VersionInv /\ ClientInv
  BY DEF IInv
<1>1. /\ m \in Metas /\ hlc_state_[m] \in Nat /\ next[t] \in Nat /\ hlc_state_[m] < next[t]
      /\ hlc_state_' = [hlc_state_ EXCEPT ![m] = next[t]]
      /\ hlc_state_' \in [Metas -> Nat]
      /\ v \in Nat /\ v # 0 /\ request[t].hlc < v
      /\ \A a \in issued : a.version # v
      /\ \A u \in Workers : pending[u] # v
  BY CasWins
<1>2. /\ wpc' \in [Workers -> {"idle", "begin", "begin_cas", "handler", "tick", "tick_cas"}]
      /\ wpc'[t] = "handler" /\ \A u \in Workers : u # t => wpc'[u] = wpc[u]
      /\ UNCHANGED <<old, next, request, last_seen_hlc_, reqno, response>>
      /\ RequestInv' /\ StateOf(request[t].hlc) < next[t] /\ Active(t)
      /\ \A u \in Workers : Active(u)' = Active(u)
      /\ \A u \in Workers : Merged(u) => StateOf(request[u].hlc) < hlc_state_'[MetaOf(u)]
  BY CasWins
<1>3. UNCHANGED pending /\ Stamp(t, v)
  BY DEF CasClock
<1>4. pending[t] = 0
  BY <1>0 DEF TickInv
<1>5. \A u \in Workers : /\ ClockVersion(u) \in Nat /\ ClockVersion(u)' \in Nat
                         /\ ClockVersion(u) <= ClockVersion(u)'
  BY <1>0, <1>1, ClockVersionGrows
<1>6. ClockVersion(t) < v /\ v = ClockVersion(t)'
  <2>1. hlc_state_'[m] = next[t]
    BY <1>0, <1>1 DEF TypeOK
  <2> QED
    BY <1>1, <2>1, PackMonotone DEF ClockVersion
<1> HIDE DEF v
<1>7. \A a \in issued : a.client = request[t].client =>
        a.version < v /\ (a.no = request[t].no => a.record <= logged[t])
  <2>1. \A a \in issued : a.version \in Nat /\ a.no \in Nat
    BY <1>0 DEF TypeOK, Version
  <2>2. request[t].hlc \in Nat /\ request[t].no \in Nat
    BY <1>0 DEF TypeOK, Version
  <2>3. \A a \in issued : a.client = request[t].client => a.no <= request[t].no
    BY <1>0, <1>2 DEF ClientInv, RequestInv
  <2>4. \A a \in issued : a.client = request[t].client =>
          /\ a.no < request[t].no => a.version <= request[t].hlc
          /\ a.no = request[t].no => /\ a.record <= logged[t]
                                     /\ a.version <= ClockVersion(t)
    BY <1>0, <1>2 DEF ClientInv
  <2> QED
    BY SMT, <1>1, <1>5, <1>6, <2>1, <2>2, <2>3, <2>4
<1>8. /\ issued' \in SUBSET [version : Version, client : Clients, no : Nat, record : Nat]
      /\ logged' \in [Workers -> Nat] /\ VersionsUnique'
  BY <1>1, <1>2, <1>3, <1>7, StampInOrder
<1>9. TypeOK'
  BY <1>0, <1>1, <1>2, <1>3, <1>4, <1>8 DEF TypeOK
<1>10. TickInv'
  <2>1. hlc_state_'[m] = next[t]
    BY <1>0, <1>1 DEF TypeOK
  <2> QED
    BY <1>0, <1>1, <1>2, <1>3, <2>1 DEF TickInv, Merged
<1>11. VersionInv'
  <2>1. \A k \in Metas : \A x : Drawn(x, k, hlc_state_[k]) => Drawn(x, k, hlc_state_'[k])
    BY <1>0, <1>1, DrawnStays
  <2>2. Drawn(v, m, hlc_state_'[m])
    BY <1>0, <1>1, DrawnStays DEF v
  <2>3. \A a \in issued' : a \in issued \/ a.version = v
    BY SMT, <1>3 DEF Stamp
  <2>4. \A u \in Workers : MetaOf(u) \in Metas
    BY DEF Workers, MetaOf
  <2>5. \A a \in issued' : \E k \in Metas : Drawn(a.version, k, hlc_state_'[k])
    BY <1>0, <1>1, <2>1, <2>2, <2>3 DEF VersionInv
  <2>6. \A u \in Workers : pending'[u] # 0 =>
          /\ Drawn(pending'[u], MetaOf(u), hlc_state_'[MetaOf(u)])
          /\ \A a \in issued' : a.version # pending'[u]
    BY <1>0, <1>1, <1>3, <2>1, <2>3, <2>4 DEF VersionInv
  <2>7. \A u, x \in Workers : pending'[u] # 0 /\ u # x => pending'[u] # pending'[x]
    BY <1>0, <1>3 DEF VersionInv
  <2> QED
    BY <1>8, <2>5, <2>6, <2>7 DEF VersionInv
<1>12. ClientInv'
  <2>1. \A u \in Workers : u # t => Unlogged(u)' = Unlogged(u)
    BY <1>2, <1>3 DEF Unlogged
  <2>2. ~Unlogged(t)'
    BY <1>2, <1>3, <1>4 DEF Unlogged
  <2>3. v <= ClockVersion(t)'
    BY SMT, <1>1, <1>6
  <2> QED
    BY <1>1, <1>2, <1>3, <1>5, <1>7, <2>1, <2>2, <2>3, StampClient
<1> QED
  BY <1>2, <1>9, <1>10, <1>11, <1>12 DEF IInv

(* NextVersion with a pending version.                                        *)
LEMMA LogPendingStep ==
    ASSUME IInv, NEW t \in Workers, LogRecord(t), pending[t] # 0
    PROVE  IInv'
<1> DEFINE v == pending[t]
<1>0. TypeOK /\ RequestInv /\ TickInv /\ VersionInv /\ ClientInv
  BY DEF IInv
<1>1. /\ wpc[t] = "handler" /\ Stamp(t, v) /\ pending' = [pending EXCEPT ![t] = 0]
      /\ UNCHANGED <<hlc_state_, wpc, old, next, request, last_seen_hlc_, reqno, response>>
  BY DEF LogRecord
<1>2. /\ v \in Nat /\ request[t].hlc \in Nat /\ request[t].no \in Nat
      /\ Active(t) /\ Merged(t) /\ Unlogged(t)
  BY <1>0, <1>1 DEF TypeOK, Version, Active, Merged, Unlogged
<1>3. /\ Drawn(v, MetaOf(t), hlc_state_[MetaOf(t)]) /\ \A a \in issued : a.version # v
      /\ request[t].hlc < v
  BY <1>0 DEF VersionInv, TickInv
<1>4. v <= ClockVersion(t)
  BY <1>0, <1>3, DrawnBelow
<1>5. /\ pending' \in [Workers -> Nat] /\ pending'[t] = 0
      /\ \A u \in Workers : u # t => pending'[u] = pending[u]
  BY <1>0, <1>1 DEF TypeOK, Version
<1>6. \A a \in issued : a.client = request[t].client =>
        a.version < v /\ (a.no = request[t].no => a.record <= logged[t])
  <2>1. \A a \in issued : a.version \in Nat /\ a.no \in Nat
    BY <1>0 DEF TypeOK, Version
  <2>2. \A a \in issued : a.client = request[t].client =>
          a.no <= request[t].no /\ a.no # request[t].no
    BY <1>0, <1>2 DEF ClientInv, RequestInv
  <2>3. \A a \in issued : a.client = request[t].client =>
          (a.no < request[t].no => a.version <= request[t].hlc)
    BY <1>0, <1>2 DEF ClientInv
  <2> QED
    BY SMT, <1>2, <1>3, <2>1, <2>2, <2>3
<1>7. \A u \in Workers : /\ ClockVersion(u) \in Nat /\ ClockVersion(u)' \in Nat
                         /\ ClockVersion(u) <= ClockVersion(u)'
  <2>1. \A u \in Workers : MetaOf(u) \in Metas /\ hlc_state_[MetaOf(u)] \in Nat
    BY <1>0 DEF TypeOK, Workers, MetaOf
  <2>2. \A u \in Workers : ClockVersion(u) \in Nat
    BY <2>1, PackType DEF ClockVersion
  <2>3. \A u \in Workers : ClockVersion(u)' = ClockVersion(u)
    BY <1>1 DEF ClockVersion
  <2> QED
    BY SMT, <2>2, <2>3
<1>8. /\ issued' \in SUBSET [version : Version, client : Clients, no : Nat, record : Nat]
      /\ logged' \in [Workers -> Nat] /\ VersionsUnique'
  BY <1>1, <1>2, <1>3, <1>6, StampInOrder
<1>9. TypeOK'
  BY <1>0, <1>1, <1>5, <1>8 DEF TypeOK, Version
<1>10. RequestInv'
  BY <1>0, <1>1 DEF RequestInv, Active
<1>11. TickInv'
  BY <1>0, <1>1, <1>5 DEF TickInv, Merged
<1>12. VersionInv'
  <2>1. \A a \in issued' : a \in issued \/ a.version = v
    BY SMT, <1>1 DEF Stamp
  <2>2. MetaOf(t) \in Metas
    BY DEF Workers, MetaOf
  <2>3. \A a \in issued' : \E k \in Metas : Drawn(a.version, k, hlc_state_'[k])
    BY <1>0, <1>1, <1>3, <2>1, <2>2 DEF VersionInv
  <2>4. \A u \in Workers : pending'[u] # 0 =>
          /\ Drawn(pending'[u], MetaOf(u), hlc_state_'[MetaOf(u)])
          /\ \A a \in issued' : a.version # pending'[u]
    BY <1>0, <1>1, <1>5, <2>1 DEF VersionInv
  <2>5. \A u, x \in Workers : pending'[u] # 0 /\ u # x => pending'[u] # pending'[x]
    BY <1>0, <1>5 DEF VersionInv
  <2> QED
    BY <1>8, <2>3, <2>4, <2>5 DEF VersionInv
<1>13. ClientInv'
  <2>1. \A u \in Workers : u # t => Unlogged(u)' = Unlogged(u)
    BY <1>1, <1>5 DEF Unlogged
  <2>2. ~Unlogged(t)'
    BY <1>1, <1>5 DEF Unlogged
  <2>3. v <= ClockVersion(t)' /\ \A u \in Workers : Active(u)' = Active(u)
    BY <1>1, <1>4 DEF ClockVersion, Active
  <2> QED
    BY <1>1, <1>2, <1>3, <1>6, <1>7, <2>1, <2>2, <2>3, StampClient
<1> QED
  BY <1>9, <1>10, <1>11, <1>12, <1>13 DEF IInv

(* NextVersion without one starts a tick.                                     *)
LEMMA LogTickStep ==
    ASSUME IInv, NEW t \in Workers, LogRecord(t), pending[t] = 0
    PROVE  IInv'
<1>0. TypeOK /\ RequestInv /\ TickInv /\ VersionInv /\ ClientInv
  BY DEF IInv
<1>1. /\ wpc[t] = "handler" /\ wpc' = [wpc EXCEPT ![t] = "tick"]
      /\ UNCHANGED <<hlc_state_, pending, issued, logged, old, next, request,
                     last_seen_hlc_, reqno, response>>
  BY DEF LogRecord
<1>2. wpc \in [Workers -> {"idle", "begin", "begin_cas", "handler", "tick", "tick_cas"}]
  BY <1>0 DEF TypeOK
<1>3. /\ wpc'[t] = "tick" /\ \A u \in Workers : u # t => wpc'[u] = wpc[u]
      /\ wpc' \in [Workers -> {"idle", "begin", "begin_cas", "handler", "tick", "tick_cas"}]
  BY <1>1, <1>2
<1>4. TypeOK'
  BY <1>0, <1>1, <1>3 DEF TypeOK
<1>5. RequestInv'
  BY SMT, <1>0, <1>1, <1>3 DEF RequestInv, Active
<1>6. TickInv'
  BY <1>0, <1>1, <1>3 DEF TickInv, Merged
<1>7. VersionInv'
  BY <1>0, <1>1 DEF VersionInv, VersionsUnique
<1>8. ClientInv'
  <2>1. \A u \in Workers : /\ Active(u)' = Active(u) /\ Unlogged(u)' = Unlogged(u)
                           /\ ClockVersion(u)' = ClockVersion(u)
    BY <1>1, <1>3 DEF Active, Unlogged, ClockVersion
  <2> QED
    BY <1>0, <1>1, <2>1 DEF ClientInv, CausalOrder
<1> QED
  BY <1>4, <1>5, <1>6, <1>7, <1>8 DEF IInv

LEMMA RespondStep ==
    ASSUME IInv, NEW t \in Workers, Respond(t)
    PROVE  IInv'
<1> DEFINE c == request[t].client
<1>0. TypeOK /\ RequestInv /\ TickInv /\ VersionInv /\ ClientInv
  BY DEF IInv
<1>1. /\ wpc[t] = "handler" /\ response' = [response EXCEPT ![c] = CurrentVersion(t)]
      /\ pending' = [pending EXCEPT ![t] = 0] /\ wpc' = [wpc EXCEPT ![t] = "idle"]
      /\ UNCHANGED <<hlc_state_, old, next, request, logged, last_seen_hlc_, reqno, issued>>
  BY DEF Respond
<1>2. Active(t) /\ Merged(t)
  BY <1>1 DEF Active, Merged
<1>3. /\ c \in Clients /\ pending[t] \in Nat /\ request[t].hlc \in Nat /\ request[t].no \in Nat
      /\ last_seen_hlc_[c] \in Nat
  BY <1>0, <1>2 DEF TypeOK, Version, RequestInv
<1>4. /\ ClockVersion(t) \in Nat /\ request[t].hlc < ClockVersion(t)
      /\ hlc_state_[MetaOf(t)] # 0
  BY <1>2, MergedAbove
<1>5. CurrentVersion(t) \in Nat /\ request[t].hlc < CurrentVersion(t)
      /\ (pending[t] = 0 => CurrentVersion(t) = ClockVersion(t))
  BY <1>0, <1>3, <1>4 DEF CurrentVersion, ClockVersion, TickInv
<1>6. /\ wpc' \in [Workers -> {"idle", "begin", "begin_cas", "handler", "tick", "tick_cas"}]
      /\ wpc'[t] = "idle" /\ \A u \in Workers : u # t => wpc'[u] = wpc[u]
      /\ pending' \in [Workers -> Nat] /\ pending'[t] = 0
      /\ \A u \in Workers : u # t => pending'[u] = pending[u]
  BY <1>0, <1>1 DEF TypeOK, Version
<1>7. /\ response' \in [Clients -> Nat] /\ response'[c] = CurrentVersion(t)
      /\ \A d \in Clients : d # c => response'[d] = response[d]
  BY <1>0, <1>1, <1>3, <1>5 DEF TypeOK, Version
<1>8. \A u \in Workers : Active(u)' => Active(u) /\ u # t /\ request[u].client # c
  BY <1>0, <1>2, <1>6 DEF Active, RequestInv
<1>9. TypeOK'
  BY <1>0, <1>1, <1>6, <1>7 DEF TypeOK, Version
<1>10. RequestInv'
  BY <1>0, <1>1, <1>7, <1>8 DEF RequestInv
<1>11. TickInv'
  BY <1>0, <1>1, <1>6 DEF TickInv, Merged
<1>12. VersionInv'
  <2>1. VersionsUnique'
    BY <1>0, <1>1 DEF VersionInv, VersionsUnique
  <2> QED
    BY SMT, <1>0, <1>1, <1>6, <2>1 DEF VersionInv
<1>13. ClientInv'
  <2>1. \A a \in issued : a.version \in Nat /\ a.no \in Nat
    BY <1>0 DEF TypeOK, Version
  <2>2. \A a \in issued : a.client = c => a.version <= CurrentVersion(t)
    <3>1. \A a \in issued : a.client = c =>
            /\ a.no <= request[t].no
            /\ a.no < request[t].no => a.version <= request[t].hlc
            /\ a.no = request[t].no => ~Unlogged(t) /\ a.version <= ClockVersion(t)
      BY <1>0, <1>2 DEF ClientInv, RequestInv
    <3>2. ~Unlogged(t) => pending[t] = 0
      BY DEF Unlogged
    <3> QED
      BY SMT, <1>3, <1>4, <1>5, <2>1, <3>1, <3>2
  <2>3. \A d \in Clients : (\A u \in Workers : Active(u)' => request'[u].client # d) =>
          \A a \in issued : a.client = d =>
              a.version <= Larger(last_seen_hlc_'[d], response'[d])
    <3> SUFFICES ASSUME NEW d \in Clients, NEW a \in issued, a.client = d,
                        \A u \in Workers : Active(u)' => request'[u].client # d
                 PROVE  a.version <= Larger(last_seen_hlc_'[d], response'[d])
      OBVIOUS
    <3>1. CASE d = c
      <4>1. response'[d] = CurrentVersion(t) /\ last_seen_hlc_'[d] = last_seen_hlc_[c]
        BY <1>1, <1>7, <3>1
      <4>2. a.version \in Nat /\ a.version <= CurrentVersion(t)
        BY <2>1, <2>2, <3>1
      <4> QED
        BY SMT, <1>3, <1>5, <4>1, <4>2 DEF Larger
    <3>2. CASE d # c
      <4>1. \A u \in Workers : Active(u) => request[u].client # d
        BY <1>1, <1>6, <3>2 DEF Active
      <4> QED
        BY <1>0, <1>1, <1>7, <3>2, <4>1 DEF ClientInv
    <3> QED
      BY <3>1, <3>2
  <2>4. \A u \in Workers : u # t => Unlogged(u)' = Unlogged(u) /\ ClockVersion(u)' = ClockVersion(u)
    BY <1>1, <1>6 DEF Unlogged, ClockVersion
  <2>5. \A u \in Workers : Active(u)' =>
          \A a \in issued : a.client = request[u].client =>
             /\ a.no < request[u].no => a.version <= request[u].hlc
             /\ a.no = request[u].no => /\ ~Unlogged(u)'
                                        /\ a.record <= logged[u]
                                        /\ a.version <= ClockVersion(u)'
    BY <1>0, <1>8, <2>4 DEF ClientInv
  <2>6. CausalOrder' /\ \A a \in issued : a.no <= reqno[a.client]
    BY <1>0, <1>1 DEF ClientInv, CausalOrder
  <2> QED
    BY <1>1, <2>3, <2>5, <2>6 DEF ClientInv
<1> QED
  BY <1>9, <1>10, <1>11, <1>12, <1>13 DEF IInv

LEMMA ObserveStep ==
    ASSUME IInv, NEW c \in Clients, ObserveServerHLC(c)
    PROVE  IInv'
<1>0. TypeOK /\ RequestInv /\ TickInv /\ VersionInv /\ ClientInv
  BY DEF IInv
<1>1. /\ response[c] # 0 /\ response' = [response EXCEPT ![c] = 0]
      /\ last_seen_hlc_' = [last_seen_hlc_ EXCEPT ![c] = Larger(@, response[c])]
      /\ UNCHANGED <<hlc_state_, pending, wpc, old, next, request, logged, reqno, issued>>
  BY DEF ObserveServerHLC
<1>2. response[c] \in Nat /\ last_seen_hlc_[c] \in Nat
  BY <1>0 DEF TypeOK, Version
<1>3. /\ response' \in [Clients -> Nat] /\ last_seen_hlc_' \in [Clients -> Nat]
      /\ \A d \in Clients :
           Larger(last_seen_hlc_'[d], response'[d]) = Larger(last_seen_hlc_[d], response[d])
      /\ \A d \in Clients : response'[d] = response[d] \/ response'[d] = 0
  BY SMT, <1>0, <1>1, <1>2 DEF TypeOK, Version, Larger
<1>4. TypeOK'
  BY <1>0, <1>1, <1>3 DEF TypeOK, Version
<1>5. RequestInv'
  BY <1>0, <1>1, <1>3 DEF RequestInv, Active
<1>6. TickInv'
  BY <1>0, <1>1 DEF TickInv, Merged
<1>7. VersionInv'
  BY <1>0, <1>1 DEF VersionInv, VersionsUnique
<1>8. ClientInv'
  <2>1. \A u \in Workers : /\ Active(u)' = Active(u) /\ Unlogged(u)' = Unlogged(u)
                           /\ ClockVersion(u)' = ClockVersion(u)
    BY <1>1 DEF Active, Unlogged, ClockVersion
  <2> QED
    BY <1>0, <1>1, <1>3, <2>1 DEF ClientInv, CausalOrder
<1> QED
  BY <1>4, <1>5, <1>6, <1>7, <1>8 DEF IInv

LEMMA StutterStep ==
    ASSUME IInv, UNCHANGED vars
    PROVE  IInv'
BY DEF IInv, vars, TypeOK, RequestInv, TickInv, VersionInv, ClientInv, VersionsUnique,
       CausalOrder, Active, Merged, Unlogged, ClockVersion

LEMMA CasClockStep ==
    ASSUME IInv, NEW t \in Workers, CasClock(t)
    PROVE  IInv'
<1>1. wpc[t] = "begin_cas" \/ wpc[t] = "tick_cas"
  BY DEF CasClock
<1> QED
  BY <1>1, CasFailStep, CasBeginStep, CasTickStep

LEMMA NextInvariant == IInv /\ [Next]_vars => IInv'
<1> SUFFICES ASSUME IInv, [Next]_vars PROVE IInv'
  OBVIOUS
<1>1. CASE Next
  <2>1. ASSUME NEW t \in Workers, NEW c \in Clients, SendRequest(c, t) PROVE IInv'
    BY <2>1, SendRequestStep
  <2>2. ASSUME NEW t \in Workers, LoadClock(t) PROVE IInv'
    BY <2>2, LoadClockStep
  <2>3. ASSUME NEW t \in Workers, CasClock(t) PROVE IInv'
    BY <2>3, CasClockStep
  <2>4. ASSUME NEW t \in Workers, LogRecord(t) PROVE IInv'
    BY <2>4, LogPendingStep, LogTickStep
  <2>5. ASSUME NEW t \in Workers, Respond(t) PROVE IInv'
    BY <2>5, RespondStep
  <2>6. ASSUME NEW c \in Clients, ObserveServerHLC(c) PROVE IInv'
    BY <2>6, ObserveStep
  <2> QED
    BY <1>1, <2>1, <2>2, <2>3, <2>4, <2>5, <2>6 DEF Next
<1>2. CASE UNCHANGED vars
  BY <1>2, StutterStep
<1> QED
  BY <1>1, <1>2

(* The inductive invariant holds however BeginOperation, MergeAndTick and     *)
(* EndOperation of the servers' threads interleave.                           *)
THEOREM Invariance == Spec => []IInv
<1>1. Init => IInv
  BY InitInvariant
<1>2. IInv /\ [Next]_vars => IInv'
  BY NextInvariant
<1> QED
  BY <1>1, <1>2, PTL DEF Spec

-----------------------------------------------------------------------------
(* The clocks, requests and versions keep their types, and a thread outside a *)
(* handler holds no version (HLC's thread-local tls_pending_version_).        *)
THEOREM ClockTypes == Spec => []TypeOK
<1>1. IInv => TypeOK
  BY DEF IInv
<1> QED
  BY <1>1, Invariance, PTL

(* No two WAL records of the cluster carry the same version, with any number  *)
(* of servers and threads that race in MergeAndTick.                          *)
THEOREM UniqueVersions == Spec => []VersionsUnique
<1>1. IInv => VersionsUnique
  BY DEF IInv, VersionInv
<1> QED
  BY <1>1, Invariance, PTL

(* The records of a client's later request, and the later records of one      *)
(* request, carry larger versions, on whichever servers (BeginOperation       *)
(* merges the clock ObserveServerHLC has collected).                          *)
THEOREM VersionsFollowClients == Spec => []CausalOrder
<1>1. IInv => CausalOrder
  BY DEF IInv, ClientInv
<1> QED
  BY <1>1, Invariance, PTL

(* No step moves a server's hlc_state_ back.                                  *)
THEOREM MonotonicClock == Spec => ClockNeverGoesBack
<1>1. ASSUME IInv, [Next]_vars
      PROVE  [\A m \in Metas : hlc_state_'[m] >= hlc_state_[m]]_vars
  <2>0. TypeOK /\ TickInv
    BY <1>1 DEF IInv
  <2>1. \A m \in Metas : hlc_state_[m] \in Nat
    BY <2>0 DEF TypeOK
  <2>2. ASSUME NEW t \in Workers, CasClock(t), NEW m \in Metas
        PROVE  hlc_state_'[m] >= hlc_state_[m]
    <3>1. CASE hlc_state_[MetaOf(t)] = old[t]
      <4>1. /\ next[t] \in Nat /\ hlc_state_[MetaOf(t)] < next[t]
            /\ hlc_state_' = [hlc_state_ EXCEPT ![MetaOf(t)] = next[t]]
        BY <1>1, <2>2, <3>1, CasWins
      <4>2. hlc_state_'[m] = hlc_state_[m] \/ (m = MetaOf(t) /\ hlc_state_'[m] = next[t])
        BY <2>0, <4>1 DEF TypeOK
      <4> QED
        BY SMT, <2>1, <4>1, <4>2
    <3>2. CASE hlc_state_[MetaOf(t)] # old[t]
      BY SMT, <2>1, <2>2, <3>2 DEF CasClock
    <3> QED
      BY <3>1, <3>2
  <2>3. ASSUME ~ \E t \in Workers : CasClock(t)
        PROVE  hlc_state_' = hlc_state_
    BY <1>1, <2>3 DEF Next, vars, SendRequest, LoadClock, LogRecord, Respond, ObserveServerHLC
  <2> QED
    BY SMT, <2>1, <2>2, <2>3
<1> QED
  BY <1>1, Invariance, PTL DEF Spec, ClockNeverGoesBack
=============================================================================
