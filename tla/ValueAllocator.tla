--------------------------- MODULE ValueAllocator ---------------------------
(***************************************************************************)
(* value_allocator of src/vrpc/src/mqtt/value_allocator.hpp, which hands   *)
(* out MQTT packet ids: the free values are kept as a set of intervals,    *)
(* ordered by "lies wholly below".  Values are narrower than int, so that  *)
(* value + 1 does not wrap.                                                *)
(***************************************************************************)
EXTENDS Integers

CONSTANTS Lowest, Highest   \* the values handed out: 1..65535 for packet ids

ASSUME RangeAssumption ==
    Lowest \in Nat /\ Highest \in Nat /\ Lowest <= Highest

VARIABLES
    pool,   \* pool_, the intervals of free values
    ret     \* the optional or bool the last operation returned, as a set

Values == Lowest..Highest

Interval(lo, hi) == [low |-> lo, high |-> hi]
Intervals == [low : Values, high : Values]

(* operator<; the container takes two intervals neither of which is below  *)
(* the other for the same element.                                         *)
IsBelow(a, b)  == a.low < b.low /\ a.high < b.low
Collides(a, b) == ~IsBelow(a, b) /\ ~IsBelow(b, a)

(* pool_.emplace: refused on a collision. *)
Emplaced(set, e) == IF \E o \in set : Collides(o, e) THEN set ELSE set \cup {e}

(* pool_.modify: an element that collides after the change is erased. *)
Modified(set, old, new) ==
    IF \E o \in set \ {old} : Collides(o, new) THEN set \ {old}
                                               ELSE (set \ {old}) \cup {new}

Init == pool = {Interval(Lowest, Highest)} /\ ret = {}

----------------------------------------------------------------------------
IsBegin(it) == it \in pool /\ \A e \in pool : it.low <= e.low

(* The smallest interval gives its low end. *)
Allocate ==
    \/ pool = {} /\ pool' = {} /\ ret' = {}
    \/ \E it \in pool :
        /\ IsBegin(it)
        /\ ret' = {it.low}
        /\ pool' = IF it.low + 1 <= it.high
                   THEN Modified(pool, it, Interval(it.low + 1, it.high))
                   ELSE pool \ {it}

(* upper_bound and its predecessor. *)
Above(v) == {e \in pool : IsBelow(Interval(v, v), e)}
IsRight(itr, v) == itr \in Above(v) /\ \A e \in Above(v) : itr.low <= e.low
IsLeft(itl, v)  == itl \in pool \ Above(v) /\ \A e \in pool \ Above(v) : e.low <= itl.low

(* Slip: a value that fits between two intervals joins the left one only. *)
JoinedLeftOnly(v, itl, itr) ==
    CASE itl.high + 1 = v -> Modified(pool, itl, Interval(itl.low, v))
      [] itl.high + 1 # v /\ v + 1 = itr.low ->
            Modified(pool, itr, Interval(v, itr.high))
      [] OTHER -> Emplaced(pool, Interval(v, v))

(* ".. v ..": between two intervals, v joins both, one or neither. *)
Joined(v, itl, itr) ==
    CASE itl.high + 1 = v /\ v + 1 = itr.low ->
            Modified(pool \ {itr}, itl, Interval(itl.low, itr.high))
      [] itl.high + 1 = v /\ v + 1 # itr.low ->
            Modified(pool, itl, Interval(itl.low, v))
      [] itl.high + 1 # v /\ v + 1 = itr.low ->
            Modified(pool, itr, Interval(v, itr.high))
      [] OTHER -> Emplaced(pool, Interval(v, v))

Deallocate(v) ==
    /\ ret' = {}
    /\ \/ /\ pool = {}
          /\ pool' = Emplaced(pool, Interval(v, v))
       \/ /\ Above(v) = {}
          /\ \E itl \in pool :
              /\ IsLeft(itl, v)
              /\ pool' = IF itl.high + 1 = v
                         THEN Modified(pool, itl, Interval(itl.low, v))
                         ELSE Emplaced(pool, Interval(v, v))
       \/ /\ Above(v) = pool
          /\ \E itr \in pool :
              /\ IsRight(itr, v)
              /\ pool' = IF v + 1 = itr.low
                         THEN Modified(pool, itr, Interval(v, itr.high))
                         ELSE Emplaced(pool, Interval(v, v))
       \/ \E itl, itr \in pool :
              /\ IsLeft(itl, v) /\ IsRight(itr, v)
              /\ pool' = Joined(v, itl, itr)

(* Slips: the value stays in the right part; the right part is made even   *)
(* when it is empty.                                                       *)
SplitKeeping(it, v) ==
    (pool \ {it}) \cup (IF it.low < v THEN {Interval(it.low, v - 1)} ELSE {})
                  \cup {Interval(v, it.high)}
SplitUnguarded(it, v) ==
    (pool \ {it}) \cup (IF it.low < v THEN {Interval(it.low, v - 1)} ELSE {})
                  \cup {Interval(v + 1, it.high)}

(* use: the interval that holds v, if there is one, is split around it. *)
Split(it, v) ==
    LET rest  == pool \ {it}
        left  == IF it.low < v THEN Emplaced(rest, Interval(it.low, v - 1)) ELSE rest
    IN  IF v + 1 <= it.high THEN Emplaced(left, Interval(v + 1, it.high)) ELSE left

Use(v) ==
    \/ /\ \A e \in pool : ~Collides(e, Interval(v, v))
       /\ ret' = {} /\ pool' = pool
    \/ \E it \in pool :
        /\ Collides(it, Interval(v, v))
        /\ ret' = {v}
        /\ pool' = Split(it, v)

Clear == pool' = {Interval(Lowest, Highest)} /\ ret' = {}

(* Users release any value, also one that is free already. *)
Next == Allocate \/ Clear \/ \E v \in Values : Deallocate(v) \/ Use(v)

vars == <<pool, ret>>
Spec == Init /\ [][Next]_vars

----------------------------------------------------------------------------
TypeOK == pool \subseteq Intervals /\ ret \subseteq Values

(* The intervals are not empty, do not touch and do not overlap, whatever  *)
(* the order of allocations, uses and releases: every join is made, so     *)
(* that the container's order stays an order.                              *)
Separated ==
    /\ \A e \in pool : e.low <= e.high
    /\ \A a, b \in pool : a # b => a.high + 1 < b.low \/ b.high + 1 < a.low

(* The allocator is a set of free values: the least is allocated, a value  *)
(* is handed out once until it is released, and releasing a free value     *)
(* changes nothing.                                                        *)
Free == UNION {e.low..e.high : e \in pool}

Pool == INSTANCE IdPool WITH free <- Free
ImplementsPool == Pool!Spec
=============================================================================
