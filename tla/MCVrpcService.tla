--------------------------- MODULE MCVrpcService ---------------------------
(* Instances of VrpcService for TLC: a session is created, deleted and     *)
(* called to set a variable and return what it was, or to draw a plot,     *)
(* which may fail, of what was set, and set it; a static call finds        *)
(* nothing to draw.                                                        *)
EXTENDS VrpcService, TLC

Create(x) == [inst |-> Static, f |-> "__createShared__", a |-> x]
Remove(x) == [inst |-> Static, f |-> "__delete__", a |-> x]
CallOf(x, fn) == [inst |-> x, f |-> "call", a |-> fn]
Direct(x, fn) == [inst |-> x, f |-> fn, a |-> NoArg]

MCFunctions == <<>>
MCMenu == UNION {{Create(x), Remove(x), Direct(x, "set"), Direct(x, "draw")} : x \in Instances}
          \cup {CallOf(Static, "draw")}

MCSlots == {"data", "set", "draw"}
MCOpOf == "set"  :> [fn |-> "set", ref |-> "no slot", reads |-> "data", writes |-> "data",
                     fails |-> FALSE, frail |-> FALSE]
       @@ "draw" :> [fn |-> "draw", ref |-> "set", reads |-> "data", writes |-> "data",
                     fails |-> FALSE, frail |-> TRUE]
MCOps == {MCOpOf["set"], MCOpOf["draw"]}
=============================================================================
