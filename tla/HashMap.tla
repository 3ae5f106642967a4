------------------------------- MODULE HashMap -------------------------------
(***************************************************************************)
(* What the callers of the dirent hashtable rely on: a map from keys to       *)
(* values, on which a call of insert, update or erase takes effect at one     *)
(* instant between its begin and its return, or not at all, and says which.   *)
(***************************************************************************)
CONSTANTS Threads, Keys, Vals, NoKey, NoVal

VARIABLES
    map,     \* the value of each key, NoVal if it has none
    calls,   \* per thread: the call in progress
    eff,     \* per thread: it has taken effect
    ans      \* per thread: the answer to the last call

mapVars == <<map, calls, eff, ans>>

Call == [op : {"insert", "find", "update", "erase"}, key : Keys, val : Vals]
None == [op |-> "none", key |-> NoKey, val |-> NoVal]

MapInit ==
    /\ map \in [Keys -> Vals \cup {NoVal}]
    /\ calls \in [Threads -> Call \cup {None}]
    /\ eff = [t \in Threads |-> FALSE]
    /\ ans = [t \in Threads |-> "none"]

Begin(t) ==
    /\ calls[t] = None
    /\ calls'[t] \in Call
    /\ calls' = [calls EXCEPT ![t] = calls'[t]]
    /\ ans' = [ans EXCEPT ![t] = "none"]
    /\ UNCHANGED <<map, eff>>

(* An insert is called for a key that has no value, an update or an erase     *)
(* finds one.                                                                 *)
TakeEffect(t) ==
    /\ ~eff[t]
    /\ eff' = [eff EXCEPT ![t] = TRUE]
    /\ \/ calls[t].op = "insert" /\ map[calls[t].key] = NoVal
          /\ map' = [map EXCEPT ![calls[t].key] = calls[t].val]
       \/ calls[t].op = "update" /\ map[calls[t].key] # NoVal
          /\ map' = [map EXCEPT ![calls[t].key] = calls[t].val]
       \/ calls[t].op = "erase" /\ map[calls[t].key] # NoVal
          /\ map' = [map EXCEPT ![calls[t].key] = NoVal]
    /\ UNCHANGED <<calls, ans>>

Return(t) ==
    /\ calls[t] # None
    /\ \E a \in {"yes", "no"} :
          /\ calls[t].op # "find" => (a = "yes") = eff[t]
          /\ ans' = [ans EXCEPT ![t] = a]
    /\ calls' = [calls EXCEPT ![t] = None]
    /\ eff' = [eff EXCEPT ![t] = FALSE]
    /\ UNCHANGED map

MapNext == \E t \in Threads : Begin(t) \/ TakeEffect(t) \/ Return(t)
MapSpec == MapInit /\ [][MapNext]_mapVars
=============================================================================
