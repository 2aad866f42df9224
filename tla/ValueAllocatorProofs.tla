------------------------ MODULE ValueAllocatorProofs ------------------------
(* Proofs about ValueAllocator for every range of values: the intervals    *)
(* stay separated, and the allocator implements a set of free values.      *)
EXTENDS ValueAllocator, TLAPS

Inv == TypeOK /\ Separated

(* Intervals of values that are not empty. *)
LEMMA PoolFacts ==
    ASSUME Inv
    PROVE  /\ Lowest \in Nat /\ Highest \in Nat /\ Lowest <= Highest
           /\ \A e \in pool : /\ e = Interval(e.low, e.high)
                              /\ e.low \in Int /\ e.high \in Int
                              /\ Lowest <= e.low /\ e.low <= e.high /\ e.high <= Highest
  BY RangeAssumption DEF Inv, TypeOK, Separated, Intervals, Interval, Values

(* The container's notion of a collision is to overlap. *)
LEMMA CollidesIsOverlap ==
    ASSUME NEW a, NEW b, a.low \in Int, a.high \in Int, b.low \in Int, b.high \in Int,
           a.low <= a.high, b.low <= b.high
    PROVE  Collides(a, b) <=> a.low <= b.high /\ b.low <= a.high
  BY DEF Collides, IsBelow

LEMMA FreeMembers ==
    ASSUME Inv
    PROVE  \A w : w \in Free <=> w \in Int /\ \E e \in pool : e.low <= w /\ w <= e.high
  BY PoolFacts DEF Free

(* A pool made of separated intervals of values. *)
LEMMA NewPool ==
    ASSUME NEW P, P \subseteq Intervals,
           \A e \in P : e.low <= e.high,
           \A a, b \in P : a # b => a.high + 1 < b.low \/ b.high + 1 < a.low,
           pool' = P, ret' \subseteq Values
    PROVE  /\ Inv'
           /\ \A w : w \in Free' <=> w \in Int /\ \E e \in P : e.low <= w /\ w <= e.high
  <1>1. Inv'
    BY DEF Inv, TypeOK, Separated
  <1>2. \A e \in P : e.low \in Int /\ e.high \in Int
    BY RangeAssumption DEF Intervals, Values
  <1> QED
    BY <1>1, <1>2 DEF Free

(* The four ways the pool changes.  Each leaves the pool separated and     *)
(* changes the free values by the one value concerned.                     *)

(* v is added between separated intervals it touches none of, or is free   *)
(* already and refused.                                                    *)
LEMMA EmplaceValue ==
    ASSUME Inv, NEW v \in Values,
           \A e \in pool : (e.low <= v /\ v <= e.high) \/ e.high + 1 < v \/ v + 1 < e.low,
           pool' = Emplaced(pool, Interval(v, v)), ret' = {}
    PROVE  Inv' /\ Free' = Free \cup {v}
  <1>1. v \in Int /\ Lowest <= v /\ v <= Highest
    BY PoolFacts DEF Values
  <1> DEFINE n == Interval(v, v)
  <1>2. n.low = v /\ n.high = v /\ n \in Intervals
    BY DEF Interval, Intervals
  <1>3. \A e \in pool : Collides(e, n) <=> e.low <= v /\ v <= e.high
    BY <1>1, <1>2, PoolFacts, CollidesIsOverlap
  <1> HIDE DEF n
  <1>4. CASE \E e \in pool : Collides(e, n)
    <2>1. pool' = pool
      BY <1>4 DEF Emplaced, n
    <2>2. Inv'
      BY <2>1 DEF Inv, TypeOK, Separated
    <2>3. Free' = Free
      BY <2>1 DEF Free
    <2>4. v \in Free
      BY <1>1, <1>3, <1>4, FreeMembers
    <2> QED
      BY <2>2, <2>3, <2>4
  <1>5. CASE \A e \in pool : ~Collides(e, n)
    <2>1. pool' = pool \cup {n}
      BY <1>5 DEF Emplaced, n
    <2>2. \A e \in pool : e.high + 1 < v \/ v + 1 < e.low
      BY <1>3, <1>5
    <2>3. /\ Inv'
          /\ \A w : w \in Free' <=> w \in Int /\ \E e \in pool \cup {n} : e.low <= w /\ w <= e.high
      <3>1. pool \cup {n} \subseteq Intervals
        BY <1>2 DEF Inv, TypeOK
      <3>2. \A e \in pool \cup {n} : e.low <= e.high
        BY <1>1, <1>2, PoolFacts
      <3>3. \A a, b \in pool \cup {n} : a # b => a.high + 1 < b.low \/ b.high + 1 < a.low
        BY <1>2, <2>2 DEF Inv, Separated
      <3> QED
        BY <2>1, <3>1, <3>2, <3>3, NewPool
    <2> QED
      BY <1>1, <1>2, <2>3, FreeMembers
  <1> QED
    BY <1>4, <1>5

(* Some intervals are replaced by others, separated from what remains.     *)
LEMMA Replace ==
    ASSUME Inv, NEW P \in SUBSET pool, NEW N \in SUBSET Intervals,
           \A n \in N : n.low <= n.high,
           \A n \in N, e \in P : e.high + 1 < n.low \/ n.high + 1 < e.low,
           \A m, n \in N : m # n => m.high + 1 < n.low \/ n.high + 1 < m.low,
           pool' = P \cup N, ret' \subseteq Values
    PROVE  /\ Inv'
           /\ \A w : w \in Free' <=> w \in Int /\ \E e \in P \cup N : e.low <= w /\ w <= e.high
  <1>1. P \cup N \subseteq Intervals
    BY DEF Inv, TypeOK
  <1>2. \A e \in P \cup N : e.low <= e.high
    BY DEF Inv, Separated
  <1>3. \A a, b \in P \cup N : a # b => a.high + 1 < b.low \/ b.high + 1 < a.low
    BY DEF Inv, Separated
  <1> QED
    BY <1>1, <1>2, <1>3, NewPool

(* The container accepts intervals that are separated from its others.     *)
LEMMA Accepted ==
    ASSUME Inv, NEW P \in SUBSET pool, NEW n \in Intervals, n.low <= n.high,
           \A e \in P : e.high + 1 < n.low \/ n.high + 1 < e.low
    PROVE  \A e \in P : ~Collides(e, n)
  <1>1. n.low \in Int /\ n.high \in Int
    BY RangeAssumption DEF Intervals, Values
  <1> QED
    BY <1>1, PoolFacts, CollidesIsOverlap

(* it grows or shrinks to n, away from the other intervals.                *)
LEMMA ModifyInterval ==
    ASSUME Inv, NEW P \in SUBSET pool, NEW it \in P,
           NEW n \in Intervals, n.low <= n.high,
           \A e \in P \ {it} : e.high + 1 < n.low \/ n.high + 1 < e.low,
           pool' = Modified(P, it, n), ret' \subseteq Values
    PROVE  /\ Inv'
           /\ \A w : w \in Free' <=>
                /\ w \in Int
                /\ (\E e \in P \ {it} : e.low <= w /\ w <= e.high) \/ (n.low <= w /\ w <= n.high)
  <1>1. \A e \in P \ {it} : ~Collides(e, n)
    BY Accepted
  <1>2. pool' = (P \ {it}) \cup {n}
    BY <1>1 DEF Modified
  <1>3. /\ Inv'
        /\ \A w : w \in Free' <=>
             w \in Int /\ \E e \in (P \ {it}) \cup {n} : e.low <= w /\ w <= e.high
    <2>1. P \ {it} \in SUBSET pool /\ {n} \in SUBSET Intervals
      OBVIOUS
    <2> QED
      BY <1>2, <2>1, Replace
  <1> QED
    BY <1>3

----------------------------------------------------------------------------
(* allocate takes the least free value.                                    *)
LEMMA AllocateStep ==
    ASSUME Inv, Allocate
    PROVE  Inv' /\ Pool!Allocate
  <1>1. CASE pool = {} /\ pool' = {} /\ ret' = {}
    <2>1. Free = {} /\ Free' = {}
      BY <1>1 DEF Free
    <2>2. Inv'
      BY <1>1 DEF Inv, TypeOK, Separated
    <2> QED
      BY <1>1, <2>1, <2>2 DEF Pool!Allocate
  <1>2. ASSUME NEW it \in pool, IsBegin(it), ret' = {it.low},
               pool' = IF it.low + 1 <= it.high
                       THEN Modified(pool, it, Interval(it.low + 1, it.high))
                       ELSE pool \ {it}
        PROVE  Inv' /\ Pool!Allocate
    <2> DEFINE n == Interval(it.low + 1, it.high)
    <2>1. /\ it.low \in Int /\ it.high \in Int
          /\ Lowest <= it.low /\ it.low <= it.high /\ it.high <= Highest
          /\ Lowest \in Int /\ Highest \in Int
      BY PoolFacts
    <2>2. \A e \in pool \ {it} : e.low \in Int /\ e.high \in Int /\ it.high + 1 < e.low /\ e.low <= e.high
      BY <1>2, PoolFacts DEF Inv, Separated, IsBegin
    <2>3. ret' \subseteq Values
      BY <1>2, <2>1 DEF Values
    <2>4. /\ Inv'
          /\ \A w : w \in Free' <=>
               /\ w \in Int
               /\ (\E e \in pool \ {it} : e.low <= w /\ w <= e.high) \/ (it.low + 1 <= w /\ w <= it.high)
      <3>1. CASE it.low + 1 <= it.high
        <4>1. n \in Intervals /\ n.low = it.low + 1 /\ n.high = it.high
          BY <2>1, <3>1 DEF Intervals, Interval, Values
        <4>2. pool' = Modified(pool, it, n)
          BY <1>2, <3>1
        <4> HIDE DEF n
        <4>3. pool \in SUBSET pool
          OBVIOUS
        <4>4. \A e \in pool \ {it} : e.high + 1 < n.low \/ n.high + 1 < e.low
          BY <2>2, <4>1
        <4>5. n.low <= n.high
          BY <3>1, <4>1
        <4> QED
          BY <2>3, <4>1, <4>2, <4>3, <4>4, <4>5, ModifyInterval
      <3>2. CASE ~(it.low + 1 <= it.high)
        <4>1. pool' = (pool \ {it}) \cup {}
          BY <1>2, <3>2
        <4>2. pool \ {it} \in SUBSET pool /\ {} \in SUBSET Intervals
          OBVIOUS
        <4>3. Inv' /\ \A w : w \in Free' <=>
                w \in Int /\ \E e \in (pool \ {it}) \cup {} : e.low <= w /\ w <= e.high
          BY <2>3, <4>1, <4>2, Replace
        <4> QED
          BY <2>1, <3>2, <4>3
      <3> QED
        BY <3>1, <3>2
    <2>5. it.low \in Free /\ \A w \in Free : it.low <= w
      BY <2>1, <2>2, FreeMembers
    <2>6. Free' = Free \ {it.low}
      <3>1. \A w : w \in Free' <=> w \in Free /\ w # it.low
        BY <2>1, <2>2, <2>4, FreeMembers
      <3> QED
        BY <3>1
    <2> QED
      BY <1>2, <2>4, <2>5, <2>6 DEF Pool!Allocate
  <1> QED
    BY <1>1, <1>2 DEF Allocate

----------------------------------------------------------------------------
(* upper_bound's neighbours of v: every other interval lies beyond them.   *)
LEMMA LeftNeighbour ==
    ASSUME Inv, NEW v \in Values, NEW itl, IsLeft(itl, v)
    PROVE  /\ itl \in pool /\ itl.low <= v
           /\ \A e \in pool \ {itl} : \/ e.high + 1 < itl.low
                                      \/ v < e.low /\ itl.high + 1 < e.low /\ e \in Above(v)
  <1>1. v \in Int
    BY PoolFacts DEF Values
  <1>2. \A e \in pool : e \in Above(v) <=> v < e.low
    BY <1>1, PoolFacts DEF Above, IsBelow, Interval
  <1>3. itl \in pool /\ itl.low <= v
    BY <1>1, <1>2, PoolFacts DEF IsLeft
  <1>4. \A e \in pool : e.low <= v => e.low <= itl.low
    BY <1>1, <1>2, PoolFacts DEF IsLeft
  <1>5. \A e \in pool \ {itl} : itl.high + 1 < e.low \/ e.high + 1 < itl.low
    BY <1>3 DEF Inv, Separated
  <1> QED
    BY <1>1, <1>2, <1>3, <1>4, <1>5, PoolFacts

LEMMA RightNeighbour ==
    ASSUME Inv, NEW v \in Values, NEW itr, IsRight(itr, v)
    PROVE  /\ itr \in pool /\ v < itr.low
           /\ \A e \in pool \ {itr} : \/ itr.high + 1 < e.low
                                      \/ e.low <= v /\ e.high + 1 < itr.low /\ e \notin Above(v)
  <1>1. v \in Int
    BY PoolFacts DEF Values
  <1>2. \A e \in pool : e \in Above(v) <=> v < e.low
    BY <1>1, PoolFacts DEF Above, IsBelow, Interval
  <1>3. itr \in pool /\ v < itr.low
    BY <1>1, <1>2, PoolFacts DEF IsRight, Above
  <1>4. \A e \in pool : v < e.low => itr.low <= e.low
    BY <1>1, <1>2, PoolFacts DEF IsRight
  <1>5. \A e \in pool \ {itr} : itr.high + 1 < e.low \/ e.high + 1 < itr.low
    BY <1>3 DEF Inv, Separated
  <1> QED
    BY <1>1, <1>2, <1>3, <1>4, <1>5, PoolFacts

(* An interval that v touches grows by v.                                  *)
LEMMA GrowUp ==
    ASSUME Inv, NEW v \in Values, NEW itl \in pool, itl.high + 1 = v,
           \A e \in pool \ {itl} : e.high + 1 < itl.low \/ v + 1 < e.low,
           pool' = Modified(pool, itl, Interval(itl.low, v)), ret' = {}
    PROVE  Inv' /\ Free' = Free \cup {v}
  <1>1. v \in Int /\ Lowest <= v /\ v <= Highest /\ Lowest \in Int /\ Highest \in Int
    BY PoolFacts DEF Values
  <1>2. itl.low \in Int /\ itl.high \in Int /\ Lowest <= itl.low /\ itl.low <= itl.high
    BY PoolFacts
  <1> DEFINE n == Interval(itl.low, v)
  <1>3. n \in Intervals /\ n.low = itl.low /\ n.high = v
    BY <1>1, <1>2 DEF Intervals, Interval, Values
  <1>4. pool' = Modified(pool, itl, n) /\ pool \in SUBSET pool /\ ret' \subseteq Values
    OBVIOUS
  <1> HIDE DEF n
  <1>5. n.low <= n.high /\ \A e \in pool \ {itl} : e.high + 1 < n.low \/ n.high + 1 < e.low
    BY <1>1, <1>2, <1>3
  <1>6. /\ Inv'
        /\ \A w : w \in Free' <=>
             /\ w \in Int
             /\ (\E e \in pool \ {itl} : e.low <= w /\ w <= e.high) \/ (n.low <= w /\ w <= n.high)
    BY <1>3, <1>4, <1>5, ModifyInterval
  <1>7. \A w : w \in Free' <=> w \in Free \/ w = v
    BY <1>1, <1>2, <1>3, <1>6, FreeMembers
  <1> QED
    BY <1>6, <1>7

LEMMA GrowDown ==
    ASSUME Inv, NEW v \in Values, NEW itr \in pool, v + 1 = itr.low,
           \A e \in pool \ {itr} : itr.high + 1 < e.low \/ e.high + 1 < v,
           pool' = Modified(pool, itr, Interval(v, itr.high)), ret' = {}
    PROVE  Inv' /\ Free' = Free \cup {v}
  <1>1. v \in Int /\ Lowest <= v /\ v <= Highest /\ Lowest \in Int /\ Highest \in Int
    BY PoolFacts DEF Values
  <1>2. itr.low \in Int /\ itr.high \in Int /\ itr.low <= itr.high /\ itr.high <= Highest
    BY PoolFacts
  <1> DEFINE n == Interval(v, itr.high)
  <1>3. n \in Intervals /\ n.low = v /\ n.high = itr.high
    BY <1>1, <1>2 DEF Intervals, Interval, Values
  <1>4. pool' = Modified(pool, itr, n) /\ pool \in SUBSET pool /\ ret' \subseteq Values
    OBVIOUS
  <1> HIDE DEF n
  <1>5. n.low <= n.high /\ \A e \in pool \ {itr} : e.high + 1 < n.low \/ n.high + 1 < e.low
    BY <1>1, <1>2, <1>3
  <1>6. /\ Inv'
        /\ \A w : w \in Free' <=>
             /\ w \in Int
             /\ (\E e \in pool \ {itr} : e.low <= w /\ w <= e.high) \/ (n.low <= w /\ w <= n.high)
    BY <1>3, <1>4, <1>5, ModifyInterval
  <1>7. \A w : w \in Free' <=> w \in Free \/ w = v
    BY <1>1, <1>2, <1>3, <1>6, FreeMembers
  <1> QED
    BY <1>6, <1>7

(* v fills the gap between two intervals: they become one.                 *)
LEMMA Bridge ==
    ASSUME Inv, NEW v \in Values, NEW itl \in pool, NEW itr \in pool,
           itl.high + 1 = v, v + 1 = itr.low,
           \A e \in pool \ {itl, itr} : e.high + 1 < itl.low \/ itr.high + 1 < e.low,
           pool' = Modified(pool \ {itr}, itl, Interval(itl.low, itr.high)), ret' = {}
    PROVE  Inv' /\ Free' = Free \cup {v}
  <1>1. v \in Int /\ Lowest \in Int /\ Highest \in Int
    BY PoolFacts DEF Values
  <1>2. /\ itl.low \in Int /\ itl.high \in Int /\ Lowest <= itl.low /\ itl.low <= itl.high
        /\ itr.low \in Int /\ itr.high \in Int /\ itr.low <= itr.high /\ itr.high <= Highest
    BY PoolFacts
  <1> DEFINE n == Interval(itl.low, itr.high)
             P == pool \ {itr}
  <1>3. n \in Intervals /\ n.low = itl.low /\ n.high = itr.high
    BY <1>1, <1>2 DEF Intervals, Interval, Values
  <1>4. pool' = Modified(P, itl, n) /\ P \in SUBSET pool /\ ret' \subseteq Values
    OBVIOUS
  <1>5. itl \in P /\ P \ {itl} = pool \ {itl, itr}
    BY <1>1, <1>2
  <1> HIDE DEF n, P
  <1>6. n.low <= n.high /\ \A e \in P \ {itl} : e.high + 1 < n.low \/ n.high + 1 < e.low
    BY <1>1, <1>2, <1>3, <1>5
  <1>7. /\ Inv'
        /\ \A w : w \in Free' <=>
             /\ w \in Int
             /\ (\E e \in P \ {itl} : e.low <= w /\ w <= e.high) \/ (n.low <= w /\ w <= n.high)
    BY <1>3, <1>4, <1>5, <1>6, ModifyInterval
  <1>8. \A w : w \in Free' <=> w \in Free \/ w = v
    BY <1>1, <1>2, <1>3, <1>5, <1>7, FreeMembers
  <1> QED
    BY <1>7, <1>8

(* deallocate makes the value free, whatever lies around it.               *)
LEMMA DeallocateStep ==
    ASSUME Inv, NEW v \in Values, Deallocate(v)
    PROVE  Inv' /\ Pool!Deallocate(v)
  <1>0. ret' = {}
    BY DEF Deallocate
  <1>1. v \in Int
    BY PoolFacts DEF Values
  <1>2. SUFFICES Inv' /\ Free' = Free \cup {v}
    BY <1>0 DEF Pool!Deallocate
  <1>3. CASE pool = {} /\ pool' = Emplaced(pool, Interval(v, v))
    BY <1>0, <1>3, EmplaceValue
  <1>4. ASSUME Above(v) = {}, NEW itl \in pool, IsLeft(itl, v),
               pool' = IF itl.high + 1 = v
                       THEN Modified(pool, itl, Interval(itl.low, v))
                       ELSE Emplaced(pool, Interval(v, v))
        PROVE  Inv' /\ Free' = Free \cup {v}
    <2>1. itl.low <= v /\ \A e \in pool \ {itl} : e.high + 1 < itl.low
      BY <1>4, LeftNeighbour
    <2>2. CASE itl.high + 1 = v
      BY <1>0, <1>4, <2>1, <2>2, GrowUp
    <2>3. CASE itl.high + 1 # v
      <3>1. \A e \in pool : (e.low <= v /\ v <= e.high) \/ e.high + 1 < v \/ v + 1 < e.low
        BY <1>1, <2>1, <2>3, PoolFacts
      <3> QED
        BY <1>0, <1>4, <2>3, <3>1, EmplaceValue
    <2> QED
      BY <2>2, <2>3
  <1>5. ASSUME Above(v) = pool, NEW itr \in pool, IsRight(itr, v),
               pool' = IF v + 1 = itr.low
                       THEN Modified(pool, itr, Interval(v, itr.high))
                       ELSE Emplaced(pool, Interval(v, v))
        PROVE  Inv' /\ Free' = Free \cup {v}
    <2>1. v < itr.low /\ \A e \in pool \ {itr} : itr.high + 1 < e.low
      BY <1>5, RightNeighbour
    <2>2. CASE v + 1 = itr.low
      BY <1>0, <1>5, <2>1, <2>2, GrowDown
    <2>3. CASE v + 1 # itr.low
      <3>1. \A e \in pool : (e.low <= v /\ v <= e.high) \/ e.high + 1 < v \/ v + 1 < e.low
        BY <1>1, <2>1, <2>3, PoolFacts
      <3> QED
        BY <1>0, <1>5, <2>3, <3>1, EmplaceValue
    <2> QED
      BY <2>2, <2>3
  <1>6. ASSUME NEW itl \in pool, NEW itr \in pool, IsLeft(itl, v), IsRight(itr, v),
               pool' = Joined(v, itl, itr)
        PROVE  Inv' /\ Free' = Free \cup {v}
    <2>1. /\ itl.low <= v /\ v < itr.low /\ itl # itr
          /\ itl.low \in Int /\ itl.high \in Int /\ itr.low \in Int /\ itr.high \in Int
          /\ itl.low <= itl.high /\ itr.low <= itr.high
      BY <1>1, <1>6, PoolFacts, LeftNeighbour, RightNeighbour
    <2>2. itl.high + 1 < itr.low
      BY <1>1, <1>6, <2>1, LeftNeighbour
    <2>3. \A e \in pool \ {itl, itr} : e.high + 1 < itl.low \/ itr.high + 1 < e.low
      BY <1>1, <1>6, <2>1, PoolFacts, LeftNeighbour, RightNeighbour
    <2>4. CASE itl.high + 1 = v /\ v + 1 = itr.low
      <3>1. pool' = Modified(pool \ {itr}, itl, Interval(itl.low, itr.high))
        BY <1>6, <2>4 DEF Joined
      <3> QED
        BY <1>0, <2>3, <2>4, <3>1, Bridge
    <2>5. CASE itl.high + 1 = v /\ v + 1 # itr.low
      <3>1. pool' = Modified(pool, itl, Interval(itl.low, v))
        BY <1>6, <2>5 DEF Joined
      <3>2. \A e \in pool \ {itl} : e.high + 1 < itl.low \/ v + 1 < e.low
        BY <1>1, <2>1, <2>3, <2>5, PoolFacts
      <3> QED
        BY <1>0, <2>5, <3>1, <3>2, GrowUp
    <2>6. CASE itl.high + 1 # v /\ v + 1 = itr.low
      <3>1. pool' = Modified(pool, itr, Interval(v, itr.high))
        BY <1>6, <2>6 DEF Joined
      <3>2. \A e \in pool \ {itr} : itr.high + 1 < e.low \/ e.high + 1 < v
        BY <1>1, <2>1, <2>2, <2>3, <2>6, PoolFacts
      <3> QED
        BY <1>0, <2>6, <3>1, <3>2, GrowDown
    <2>7. CASE itl.high + 1 # v /\ v + 1 # itr.low
      <3>1. pool' = Emplaced(pool, Interval(v, v))
        BY <1>6, <2>7 DEF Joined
      <3>2. \A e \in pool : (e.low <= v /\ v <= e.high) \/ e.high + 1 < v \/ v + 1 < e.low
        BY <1>1, <2>1, <2>3, <2>7, PoolFacts
      <3> QED
        BY <1>0, <3>1, <3>2, EmplaceValue
    <2> QED
      BY <2>4, <2>5, <2>6, <2>7
  <1> QED
    BY <1>3, <1>4, <1>5, <1>6 DEF Deallocate

----------------------------------------------------------------------------
(* use takes the value out of the interval that holds it.                  *)
LEMMA UseStep ==
    ASSUME Inv, NEW v \in Values, Use(v)
    PROVE  Inv' /\ Pool!Use(v)
  <1>1. v \in Int /\ Lowest <= v /\ v <= Highest /\ Lowest \in Int /\ Highest \in Int
    BY PoolFacts DEF Values
  <1>2. \A e \in pool : Collides(e, Interval(v, v)) <=> e.low <= v /\ v <= e.high
    <2>1. Interval(v, v).low = v /\ Interval(v, v).high = v
      BY DEF Interval
    <2> QED
      BY <1>1, <2>1, PoolFacts, CollidesIsOverlap
  <1>3. CASE (\A e \in pool : ~Collides(e, Interval(v, v))) /\ ret' = {} /\ pool' = pool
    <2>1. v \notin Free
      BY <1>2, <1>3, FreeMembers
    <2>2. Free' = Free
      BY <1>3 DEF Free
    <2>3. Inv'
      BY <1>3 DEF Inv, TypeOK, Separated
    <2> QED
      BY <1>3, <2>1, <2>2, <2>3 DEF Pool!Use
  <1>4. ASSUME NEW it \in pool, Collides(it, Interval(v, v)), ret' = {v}, pool' = Split(it, v)
        PROVE  Inv' /\ Pool!Use(v)
    <2> DEFINE l == Interval(it.low, v - 1)
               r == Interval(v + 1, it.high)
               L == IF it.low < v THEN {l} ELSE {}
               R == IF v + 1 <= it.high THEN {r} ELSE {}
               P == pool \ {it}
    <2>1. /\ it.low \in Int /\ it.high \in Int /\ Lowest <= it.low /\ it.high <= Highest
          /\ it.low <= v /\ v <= it.high
      BY <1>2, <1>4, PoolFacts
    <2>2. /\ \A n \in L : n = l /\ n \in Intervals /\ n.low = it.low /\ n.high = v - 1 /\ it.low < v
          /\ \A n \in R : n = r /\ n \in Intervals /\ n.low = v + 1 /\ n.high = it.high /\ v + 1 <= it.high
      BY <1>1, <2>1 DEF Intervals, Interval, Values
    <2>3. \A w : /\ (\E n \in L : n.low <= w /\ w <= n.high) <=> it.low < v /\ it.low <= w /\ w <= v - 1
                 /\ (\E n \in R : n.low <= w /\ w <= n.high) <=> v + 1 <= it.high /\ v + 1 <= w /\ w <= it.high
      BY <2>2 DEF Interval
    <2>4. P \in SUBSET pool /\ ret' \subseteq Values
      BY <1>4
    <2>5. \A e \in P : it.high + 1 < e.low \/ e.high + 1 < it.low
      BY DEF Inv, Separated
    <2>6. pool' = P \cup (L \cup R)
      <3> HIDE DEF l, r
      <3>1. it.low < v => \A e \in P : ~Collides(e, l)
        <4>1. CASE it.low < v
          <5>1. l \in Intervals /\ l.low = it.low /\ l.high = v - 1
            BY <4>1, <2>2
          <5>2. \A e \in P : e.high + 1 < l.low \/ l.high + 1 < e.low
            BY <1>1, <2>1, <2>5, <5>1, PoolFacts
          <5>3. l.low <= l.high
            BY <1>1, <2>1, <4>1, <5>1
          <5> HIDE DEF P
          <5> QED
            BY <2>4, <5>1, <5>2, <5>3, Accepted
        <4> QED
          BY <4>1
      <3>2. v + 1 <= it.high => \A e \in P : ~Collides(e, r)
        <4>1. CASE v + 1 <= it.high
          <5>1. r \in Intervals /\ r.low = v + 1 /\ r.high = it.high
            BY <4>1, <2>2
          <5>2. \A e \in P : e.high + 1 < r.low \/ r.high + 1 < e.low
            BY <1>1, <2>1, <2>5, <5>1, PoolFacts
          <5> HIDE DEF P
          <5> QED
            BY <2>4, <4>1, <5>1, <5>2, Accepted
        <4> QED
          BY <4>1
      <3>3. it.low < v /\ v + 1 <= it.high => ~Collides(l, r)
        <4>1. CASE it.low < v /\ v + 1 <= it.high
          <5>1. l.low = it.low /\ l.high = v - 1 /\ r.low = v + 1 /\ r.high = it.high
            BY <4>1, <2>2
          <5> QED
            BY <1>1, <2>1, <4>1, <5>1, CollidesIsOverlap
        <4> QED
          BY <4>1
      <3>4. (IF it.low < v THEN Emplaced(P, l) ELSE P) = P \cup L
        BY <3>1 DEF Emplaced
      <3>5. (IF v + 1 <= it.high THEN Emplaced(P \cup L, r) ELSE P \cup L) = P \cup (L \cup R)
        <4>1. CASE v + 1 <= it.high
          <5>1. \A e \in P \cup L : ~Collides(e, r)
            BY <3>2, <3>3, <4>1
          <5> HIDE DEF P, L
          <5> QED
            BY <4>1, <5>1 DEF Emplaced
        <4>2. CASE ~(v + 1 <= it.high)
          BY <4>2
        <4> QED
          BY <4>1, <4>2
      <3> QED
        BY <1>4, <3>4, <3>5 DEF Split, l, r
    <2>7. /\ Inv'
          /\ \A w : w \in Free' <=>
               w \in Int /\ \E e \in P \cup (L \cup R) : e.low <= w /\ w <= e.high
      <3> HIDE DEF P
      <3>1. L \cup R \in SUBSET Intervals
        BY <2>2
      <3>2. \A n \in L \cup R : n.low <= n.high
        BY <1>1, <2>1, <2>2
      <3>3. \A n \in L \cup R : it.low <= n.low /\ n.high <= it.high /\ n.low \in Int /\ n.high \in Int
        BY <1>1, <2>1, <2>2
      <3>4. \A n \in L \cup R, e \in P : e.high + 1 < n.low \/ n.high + 1 < e.low
        BY <2>1, <2>4, <2>5, <3>3, PoolFacts
      <3>5. \A m, n \in L \cup R : m # n => m.high + 1 < n.low \/ n.high + 1 < m.low
        BY <1>1, <2>1, <2>2
      <3> HIDE DEF L, R
      <3> QED
        BY <2>4, <2>6, <3>1, <3>2, <3>4, <3>5, Replace
    <2>8. \A w : w \in Free' <=> w \in Free /\ w # v
      <3> HIDE DEF L, R
      <3>1. \A w \in Int : w \in Free' <=>
              \/ \E e \in P : e.low <= w /\ w <= e.high
              \/ it.low <= w /\ w <= it.high /\ w # v
        BY <1>1, <2>1, <2>3, <2>7
      <3>2. \A e \in P : ~(e.low <= v /\ v <= e.high)
        BY <1>1, <2>1, <2>5, PoolFacts
      <3> QED
        BY <1>1, <2>1, <2>7, <3>1, <3>2, FreeMembers
    <2>9. v \in Free
      BY <1>1, <2>1, FreeMembers
    <2> QED
      BY <1>4, <2>7, <2>8, <2>9 DEF Pool!Use
  <1> QED
    BY <1>3, <1>4 DEF Use

LEMMA ClearStep ==
    ASSUME Inv, Clear
    PROVE  Inv' /\ Pool!Clear
  <1> DEFINE n == Interval(Lowest, Highest)
  <1>1. n \in Intervals /\ n.low = Lowest /\ n.high = Highest /\ Lowest \in Int /\ Highest \in Int
    BY RangeAssumption DEF Intervals, Interval, Values
  <1>2. pool' = {n} /\ ret' = {} /\ n.low <= n.high
    BY <1>1, RangeAssumption DEF Clear
  <1> HIDE DEF n
  <1>3. Inv' /\ \A w : w \in Free' <=> w \in Int /\ \E e \in {n} : e.low <= w /\ w <= e.high
    BY <1>1, <1>2, NewPool
  <1>4. Free' = Lowest..Highest
    <2>1. \A w : w \in Free' <=> w \in Lowest..Highest
      BY <1>1, <1>3
    <2> QED
      BY <2>1
  <1> QED
    BY <1>2, <1>3, <1>4 DEF Pool!Clear, Pool!Values

LEMMA InitFacts ==
    ASSUME Init
    PROVE  Inv /\ Pool!Init
  <1> DEFINE n == Interval(Lowest, Highest)
  <1>1. n \in Intervals /\ n.low = Lowest /\ n.high = Highest /\ Lowest \in Int /\ Highest \in Int
    BY RangeAssumption DEF Intervals, Interval, Values
  <1>2. pool = {n} /\ ret = {} /\ n.low <= n.high
    BY <1>1, RangeAssumption DEF Init
  <1> HIDE DEF n
  <1>3. Inv
    BY <1>1, <1>2 DEF Inv, TypeOK, Separated
  <1>4. Free = Lowest..Highest
    <2>1. \A w : w \in Free <=> w \in Int /\ \E e \in {n} : e.low <= w /\ w <= e.high
      BY <1>2, <1>3, FreeMembers
    <2>2. \A w : w \in Free <=> w \in Lowest..Highest
      BY <1>1, <2>1
    <2> QED
      BY <2>2
  <1> QED
    BY <1>2, <1>3, <1>4 DEF Pool!Init, Pool!Values

(* Every step of the allocator is a step of the set of free values.        *)
LEMMA NextStep ==
    ASSUME Inv, [Next]_vars
    PROVE  Inv' /\ [Pool!Next]_<<Free, ret>>
  <1>1. CASE Allocate
    BY <1>1, AllocateStep DEF Pool!Next
  <1>2. CASE Clear
    BY <1>2, ClearStep DEF Pool!Next
  <1>3. ASSUME NEW v \in Values, Deallocate(v)
        PROVE  Inv' /\ [Pool!Next]_<<Free, ret>>
    BY <1>3, DeallocateStep DEF Pool!Next, Pool!Values, Values
  <1>4. ASSUME NEW v \in Values, Use(v)
        PROVE  Inv' /\ [Pool!Next]_<<Free, ret>>
    BY <1>4, UseStep DEF Pool!Next, Pool!Values, Values
  <1>5. CASE UNCHANGED vars
    <2>1. pool' = pool /\ ret' = ret
      BY <1>5 DEF vars
    <2>2. Inv'
      BY <2>1 DEF Inv, TypeOK, Separated
    <2>3. Free' = Free
      BY <2>1 DEF Free
    <2> QED
      BY <2>1, <2>2, <2>3
  <1> QED
    BY <1>1, <1>2, <1>3, <1>4, <1>5 DEF Next

----------------------------------------------------------------------------
(* The intervals of free values stay non-empty and apart from each other,  *)
(* for every range of values: the order of the container stays an order.   *)
THEOREM StaysSeparated == Spec => []Separated
  <1>1. Inv => Separated
    BY DEF Inv
  <1> QED
    BY <1>1, InitFacts, NextStep, PTL DEF Spec

(* The intervals and the value returned stay within the range.             *)
THEOREM TypeCorrect == Spec => []TypeOK
  <1>1. Inv => TypeOK
    BY DEF Inv
  <1> QED
    BY <1>1, InitFacts, NextStep, PTL DEF Spec

(* value_allocator hands out and takes back values as a set of free values *)
(* does, for every range: no value is handed out twice, none is lost.      *)
THEOREM RefinesPool == Spec => ImplementsPool
  <1> QED
    BY InitFacts, NextStep, PTL DEF Spec, ImplementsPool, Pool!Spec
=============================================================================
