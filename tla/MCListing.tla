------------------------------ MODULE MCListing ------------------------------
(* Names of different lengths, so that offsets into different listings of the *)
(* same directory may or may not agree.                                       *)
EXTENDS DirListing

MCRecLen == [n \in Names |-> IF n = 2 THEN 2 ELSE 1]

(* The name that the first server has on a page was renamed on the second.    *)
MCHistory == << [s |-> 2, del |-> {1}, add |-> {2}] >>
=============================================================================
