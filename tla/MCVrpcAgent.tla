---------------------------- MODULE MCVrpcAgent ----------------------------
(* Instances of VrpcAgent for TLC: the lists of requests clients pick from *)
(* in the different runs, and the symmetric sets.                          *)
EXTENDS VrpcAgent, TLC

MCFunctions == <<"f">>

Create(x) == [inst |-> Static, f |-> "__createShared__", a |-> x]
Remove(x) == [inst |-> Static, f |-> "__delete__", a |-> x]
CallOf(x, fn) == [inst |-> x, f |-> "call", a |-> fn]
Direct(x, fn) == [inst |-> x, f |-> fn, a |-> NoArg]

(* Every shape of request that reaches a branch of the publish handler, of *)
(* functions that return ("f"), that may end their fork ("d") and that     *)
(* never return ("e").                                                     *)
MixedMenu ==
    {Direct(Static, "f"), CallOf(Static, "e"), CallOf(Static, BadArg), Create(BadArg)}
    \cup UNION {{Create(x), Remove(x), Direct(x, "f"), CallOf(x, "d")} : x \in Instances}

(* Several clients creating, deleting and calling instances. *)
DirectoryMenu == UNION {{Create(x), Remove(x), Direct(x, "f")} : x \in Instances}

Symmetry == Permutations(Clients) \cup Permutations(Instances)
=============================================================================
