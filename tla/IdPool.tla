------------------------------- MODULE IdPool -------------------------------
(* What the users of value_allocator (packet ids, topic aliases) rely on:  *)
(* a set of free values; allocating takes the least of them.               *)
EXTENDS Integers

CONSTANTS Lowest, Highest

VARIABLES
    free,   \* the values that can be handed out
    ret     \* what the last operation returned: at most one value

Values == Lowest..Highest

Init == free = Values /\ ret = {}

Allocate ==
    \/ free = {} /\ free' = {} /\ ret' = {}
    \/ \E v \in free : /\ \A w \in free : v <= w
                       /\ free' = free \ {v}
                       /\ ret' = {v}

Deallocate(v) == free' = free \cup {v} /\ ret' = {}

Use(v) == free' = free \ {v} /\ ret' = free \cap {v}

Clear == free' = Values /\ ret' = {}

Next == Allocate \/ Clear \/ \E v \in Values : Deallocate(v) \/ Use(v)

Spec == Init /\ [][Next]_<<free, ret>>
=============================================================================
