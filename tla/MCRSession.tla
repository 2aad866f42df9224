----------------------------- MODULE MCRSession -----------------------------
(* Instances of RSession for TLC: what the calls of the runs do. *)
EXTENDS RSession

Set   == [fn |-> "set", ref |-> NoSlot, reads |-> "data", writes |-> "data", fails |-> FALSE, frail |-> FALSE]
Look  == [fn |-> "look", ref |-> NoSlot, reads |-> "data", writes |-> NoSlot, fails |-> FALSE, frail |-> FALSE]
Use   == [fn |-> "look", ref |-> "set", reads |-> "set", writes |-> NoSlot, fails |-> FALSE, frail |-> FALSE]
Break == [fn |-> "look", ref |-> NoSlot, reads |-> "data", writes |-> "data", fails |-> TRUE, frail |-> FALSE]
Plot  == [fn |-> "look", ref |-> NoSlot, reads |-> "data", writes |-> "data", fails |-> FALSE, frail |-> TRUE]

MCSlots == {"data", "set", "look"}
AllOps  == {Set, Look, Use, Break, Plot}
SetLook == {Set, Look}
=============================================================================
