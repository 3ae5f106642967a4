----------------------------- MODULE MCHashtable -----------------------------
(****************************************************************************)
(* Instance of HashtableResize for TLC: server 0 with thread ta, server 1   *)
(* with threads tb and tc, buckets of one slot, a table of six buckets that *)
(* grows to twelve.  Key 5 is inserted into tables in which its candidates  *)
(* are full, before, during and at the start of a resize.                   *)
(****************************************************************************)
EXTENDS HashtableResize

CONSTANTS ta, tb, tc

MCServerOf == [t \in {ta, tb, tc} |-> IF t = ta THEN 0 ELSE 1]

(* Keys 6, 8 and 9 have somewhere else to go, 1, 2, 3 and 5 share all their    *)
(* buckets.                                                                    *)
MCH1 == [k \in Keys |-> IF k \in {4, 9} THEN 2 ELSE 0]
MCH2 == [k \in Keys |-> CASE k \in {6, 8, 9} -> 1 [] k = 4 -> 0 [] OTHER -> 2]

Bucket(k) == [dirty |-> FALSE, ver |-> 0, fp |-> <<k>>,
              val |-> <<IF k = NoKey THEN NoEntry ELSE [key |-> k, val |-> "x"]>>]
Table(place) ==
    [x \in Buckets |-> Bucket(IF \E p \in place : p[1] = x
                                THEN (CHOOSE p \in place : p[1] = x)[2] ELSE NoKey)]

(* Everything full; a top-level entry can change sides; a bottom-level entry   *)
(* can be promoted; in the middle of a resize, two entries must move.          *)
Full == {<< <<1, 0>>, 1>>, << <<1, 2>>, 2>>, << <<0, 0>>, 3>>, << <<0, 1>>, 4>>}
Sideways == {<< <<1, 0>>, 6>>, << <<1, 2>>, 2>>, << <<0, 0>>, 3>>, << <<0, 1>>, 4>>}
Upwards == {<< <<1, 0>>, 1>>, << <<1, 2>>, 2>>, << <<0, 0>>, 6>>, << <<0, 1>>, 4>>}
TwoMoves == {<< <<1, 0>>, 1>>, << <<1, 2>>, 2>>, << <<0, 1>>, 4>>,
             << <<2, 6>>, 3>>, << <<2, 0>>, 8>>, << <<2, 5>>, 9>>}
Stuck == {<< <<1, 0>>, 1>>, << <<1, 2>>, 2>>, << <<2, 6>>, 3>>, << <<2, 0>>, 7>>}

Op(o, k) == [op |-> o, key |-> k, val |-> "y"]
Ins == {Op("insert", 5)}
Plan(pa, pb, pc) == [t \in {ta, tb, tc} |-> CASE t = ta -> pa [] t = tb -> pb [] t = tc -> pc]
Nobody == Plan(NoCall, NoCall, NoCall)
Start(place, plan) ==
    [table |-> Table(place), resizing |-> FALSE, full |-> Nobody, plan |-> plan]
Resizing(start) == [start EXCEPT !.resizing = TRUE]
FoundFull(start, who) == [start EXCEPT !.full = who]
Racing == {Op("find", 6), Op("erase", 6), Op("update", 6)}
Look == <<{Op("find", 1)}, {Op("find", 1)}>>
QuietPreloads ==
    {Start(Full, Plan(<<Ins, {Op("update", 3)}, {Op("find", 4)}>>,
                      <<{Op("find", 3), Op("erase", 3)},
                        {Op("insert", 3), Op("find", 4)}>>, <<>>)),
     Start(Sideways, Plan(<<Ins>>, <<Racing>>, <<>>)),
     Start(Upwards, Plan(<<Ins>>, <<Racing>>, <<>>)),
     Resizing(Start(TwoMoves, Plan(<<Ins>>, <<{Op("find", 9), Op("update", 8)}>>, <<>>))),
     Resizing(Start(Stuck, Plan(<<Ins>>, <<{Op("erase", 2)}>>, <<>>))),
     FoundFull(Start(Full, Plan(<<>>, <<{Op("find", 3)}>>, <<>>)),
               Plan(Op("insert", 5), Op("insert", 7), NoCall)),
     FoundFull(Start({<< <<1, 0>>, 1>>}, Plan(Look, Look, <<{Op("find", 1)}>>)),
               Plan(Op("insert", 5), NoCall, NoCall))}

(* Server 0 resizes while server 1 inserts key 7 where there is room again.     *)
StraddlePreloads ==
    {FoundFull(Start({<< <<1, 0>>, 1>>, << <<1, 2>>, 2>>, << <<0, 1>>, 4>>},
                     Plan(Look, <<{Op("insert", 7)}>> \o Look, <<>>)),
               Plan(Op("insert", 5), NoCall, NoCall))}

MCPreloads == QuietPreloads \cup StraddlePreloads
=============================================================================
