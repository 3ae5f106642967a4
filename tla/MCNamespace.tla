----------------------------- MODULE MCNamespace -----------------------------
(* Two threads and a menu of calls that meet in the root and in d.            *)
EXTENDS ClientFiles, TLC

CONSTANTS t1, t2

MCNames == {"d", "f", "g", "n"}
One(op, path) == [op |-> op, path |-> path, new |-> <<>>]
Two(op, path, new) == [op |-> op, path |-> path, new |-> new]

MCMenu == {
    One("create", <<"n">>), One("create", <<"d", "n">>), One("mkdir", <<"n">>),
    One("unlink", <<"f">>), One("unlink", <<"d", "g">>), One("unlink", <<"d", "n">>),
    One("rmdir", <<"d">>), One("rmdir", <<"f">>), One("unlink", <<"d">>),
    One("chmod", <<"f">>), One("open", <<"f">>), One("stat", <<"d", "g">>),
    Two("rename", <<"f">>, <<"n">>), Two("rename", <<"f">>, <<"d", "n">>),
    Two("rename", <<"d", "g">>, <<"f">>), Two("rename", <<"f">>, <<"d", "g">>),
    Two("rename", <<"n">>, <<"d">>), Two("link", <<"f">>, <<"d", "n">>)}
MCSymmetry == Permutations({t1, t2})
=============================================================================
