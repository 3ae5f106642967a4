------------------------------ MODULE MCInodes ------------------------------
(***************************************************************************)
(* Three servers come up with three threads each; two workers of server 0    *)
(* race for ids, segments and slots, and one of server 1 resolves them from   *)
(* outside.                                                                  *)
(***************************************************************************)
EXTENDS InodeArray

TwoAndOne == {<<0, 1>>, <<0, 2>>, <<1, 1>>}
=============================================================================
