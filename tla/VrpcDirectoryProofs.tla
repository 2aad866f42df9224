------------------------ MODULE VrpcDirectoryProofs ------------------------
(* Proofs about VrpcAgent's directory of instances: the list of the agent, *)
(* the subscriptions and the announcement the broker holds, and what the   *)
(* clients that create and delete instances are told about them.           *)
EXTENDS VrpcReplyProofs

(* A stream of packets ends up with a subscription for instance x, or does *)
(* not cancel one.                                                         *)
Kept(x, s) == \A m \in DOMAIN s : s[m] # Unsubscribe(InstanceFilter(x))
Joins(x, s) ==
    \E n \in DOMAIN s : /\ s[n] = Subscribe(InstanceFilter(x))
                        /\ \A m \in DOMAIN s : m > n => s[m] # Unsubscribe(InstanceFilter(x))

(* It announces nothing, or this list last.                                *)
Silent(s) == \A n \in DOMAIN s : s[n].type # "classInfo"
Announces(s, list) ==
    \E n \in DOMAIN s : /\ s[n].type = "classInfo" /\ s[n].instances = list
                        /\ \A m \in DOMAIN s : m > n => s[m].type # "classInfo"

(* A reply about creating or deleting an instance. *)
Reports(p, f, x) == p.type = "reply" /\ p.out.fn = f /\ p.out.inst = x

(* What a step that leaves the directory alone may write: the announcement *)
(* of the agent or of the unchanged list, subscriptions for the functions  *)
(* of the class, replies about nothing but evaluated functions or errors.  *)
StaticNames == RFunctions \cup {"call", "__createShared__", "__delete__"}
Neutral(p) ==
    \/ p = AgentInfo
    \/ p = ClassInfo(instances)
    \/ \E f \in StaticNames : p = Subscribe(StaticFilter(f))
    \/ /\ p.type = "reply" /\ p.out.tag \in {"value", "error"}
       /\ p.out.fn \notin {"__createShared__", "__delete__"} \/ p.out.inst \notin Instances

(* The replies that left the socket. *)
Delivered == RepliesIn(got) \cup UNION {RepliesIn(inbox[c]) : c \in Clients}

(* The kinds of steps there are for the directory. *)
QuietStep ==
    /\ instances' = instances /\ subs' = subs /\ retained' = retained
    /\ Delivered' \subseteq Delivered
    /\ \E t \in Seq(Packets) :
          /\ up' = up \o t
          /\ \A n \in DOMAIN t : Neutral(t[n])
          /\ Silent(t) \/ (t # <<>> /\ t[Len(t)] = ClassInfo(instances))

Takes(f, x) == \E m \in DOMAIN down : down[m].f = f /\ down[m].a = x
Handles(f, x) ==
    down # <<>> /\ down' = Tail(down) /\ Head(down).f = f /\ Head(down).a = x

CreateStep(x) ==
    /\ Takes("__createShared__", x) /\ Handles("__createShared__", x)
    /\ instances' = Append(instances, x)
    /\ \E j \in Contexts : up' = up \o CreatePackets(x, j)
    /\ UNCHANGED <<brokerVars, clientVars>>

DeleteStep(x) ==
    /\ Takes("__delete__", x) /\ Handles("__delete__", x)
    /\ instances' = IF Listed(x) THEN WithoutFirst(x) ELSE instances
    /\ \E j \in Contexts : up' = up \o DeletePackets(x, j)
    /\ UNCHANGED <<brokerVars, clientVars>>

----------------------------------------------------------------------------
(* Operators. *)

(* WithoutFirst drops one entry of the name and moves the later ones up. *)
LEMMA WithoutFirstAt ==
    ASSUME TypeOK, NEW x, Listed(x)
    PROVE  \E k \in DOMAIN instances :
              /\ instances[k] = x
              /\ WithoutFirst(x) \in Seq(Instances)
              /\ Len(instances) \in Nat /\ DOMAIN instances = 1..Len(instances)
              /\ DOMAIN WithoutFirst(x) = 1..(Len(instances) - 1)
              /\ \A n \in 1..(k - 1) : WithoutFirst(x)[n] = instances[n]
              /\ \A n \in k..(Len(instances) - 1) : WithoutFirst(x)[n] = instances[n + 1]
  <1> DEFINE IsFirst(n) == instances[n] = x /\ \A m \in 1..(n - 1) : instances[m] # x
             k == CHOOSE n \in DOMAIN instances : IsFirst(n)
             s == instances
             N == Len(instances)
  <1>1. \E n \in DOMAIN instances : IsFirst(n)
    <2> DEFINE T == {n \in DOMAIN instances : instances[n] = x}
    <2>1. T \subseteq 1..N /\ T # {} /\ N \in Nat
      BY DEF Listed, TypeOK
    <2>2. PICK n \in T : \A m \in T : n <= m
      BY <2>1, LeastElement
    <2> QED
      BY <2>2 DEF TypeOK
  <1>2. k \in DOMAIN instances /\ instances[k] = x
    BY <1>1
  <1>3. s \in Seq(Instances) /\ N \in Nat /\ DOMAIN s = 1..N /\ k \in 1..N
    BY <1>2 DEF TypeOK
  <1>4. WithoutFirst(x) = SubSeq(s, 1, k - 1) \o SubSeq(s, k + 1, N)
    BY DEF WithoutFirst
  <1> HIDE DEF k
  <1> DEFINE a == SubSeq(s, 1, k - 1)
             b == SubSeq(s, k + 1, N)
  <1>5. /\ a \in Seq(Instances) /\ Len(a) = k - 1 /\ \A n \in 1..(k - 1) : a[n] = s[n]
        /\ b \in Seq(Instances) /\ Len(b) = N - k /\ \A n \in 1..(N - k) : b[n] = s[k + n]
    <2>1. a \in Seq(Instances) /\ Len(a) = k - 1 /\ \A n \in 1..(k - 1) : a[n] = s[n]
      <3> HIDE DEF s, N
      <3> QED
        BY <1>3
    <2>2. b \in Seq(Instances) /\ Len(b) = N - k /\ \A n \in 1..(N - k) : b[n] = s[k + n]
      <3> HIDE DEF s, N
      <3> QED
        BY <1>3
    <2> QED
      BY <2>1, <2>2
  <1> HIDE DEF a, b, s, N
  <1>6. /\ a \o b \in Seq(Instances) /\ DOMAIN (a \o b) = 1..(N - 1)
        /\ \A n \in 1..(k - 1) : (a \o b)[n] = s[n]
    <2>1. /\ a \o b \in Seq(Instances) /\ DOMAIN (a \o b) = 1..((k - 1) + (N - k))
          /\ DOMAIN a = 1..(k - 1) /\ \A n \in DOMAIN a : (a \o b)[n] = a[n]
      <3>1. a \in Seq(Instances) /\ b \in Seq(Instances) /\ Len(a) = k - 1 /\ Len(b) = N - k
        BY <1>5
      <3>2. /\ a \o b \in Seq(Instances) /\ DOMAIN (a \o b) = 1..(Len(a) + Len(b))
            /\ DOMAIN a = 1..Len(a) /\ \A n \in DOMAIN a : (a \o b)[n] = a[n]
        <4>1. a \o b \in Seq(Instances) /\ DOMAIN (a \o b) = 1..(Len(a) + Len(b))
          BY <3>1
        <4>2. DOMAIN a = 1..Len(a)
          BY <3>1
        <4>3. \A n \in DOMAIN a : (a \o b)[n] = a[n]
          BY <3>1
        <4> QED
          BY <4>1, <4>2, <4>3
      <3>3. DOMAIN (a \o b) = 1..((k - 1) + (N - k)) /\ DOMAIN a = 1..(k - 1)
        BY <3>1, <3>2
      <3> QED
        BY <3>2, <3>3
    <2>2. (k - 1) + (N - k) = N - 1
      BY <1>3
    <2> QED
      BY <1>5, <2>1, <2>2
  <1>7. ASSUME NEW n \in k..(N - 1)
        PROVE  (a \o b)[n] = s[n + 1]
    <2>1. n - (k - 1) \in DOMAIN b /\ n = Len(a) + (n - (k - 1))
      BY <1>3, <1>5
    <2>2. (a \o b)[n] = b[n - (k - 1)]
      BY <1>5, <2>1, ConcatAt
    <2> QED
      BY <1>3, <1>5, <2>1, <2>2
  <1> QED
    BY <1>2, <1>3, <1>4, <1>6, <1>7 DEF a, b, s, N

(* The other names stay. *)
LEMMA WithoutFirstKeeps ==
    ASSUME TypeOK, NEW x, Listed(x), NEW y, y # x
    PROVE  Listed(y) <=> \E n \in DOMAIN WithoutFirst(x) : WithoutFirst(x)[n] = y
  <1> DEFINE w == WithoutFirst(x)
             N == Len(instances)
  <1>1. PICK k \in 1..N :
              /\ instances[k] = x /\ N \in Nat
              /\ DOMAIN instances = 1..N /\ DOMAIN w = 1..(N - 1)
              /\ \A n \in 1..(k - 1) : w[n] = instances[n]
              /\ \A n \in k..(N - 1) : w[n] = instances[n + 1]
    BY WithoutFirstAt
  <1> HIDE DEF w, N
  <1>2. ASSUME NEW n \in 1..N, instances[n] = y
        PROVE  \E m \in 1..(N - 1) : w[m] = y
    <2>1. CASE n < k
      BY <1>1, <1>2, <2>1
    <2>2. CASE n > k
      <3>1. n - 1 \in k..(N - 1) /\ n - 1 \in 1..(N - 1) /\ (n - 1) + 1 = n
        BY <1>1, <2>2
      <3>2. w[n - 1] = instances[(n - 1) + 1]
        BY <1>1, <3>1
      <3> QED
        BY <1>2, <3>1, <3>2
    <2>3. n # k
      BY <1>1, <1>2
    <2> QED
      BY <1>1, <2>1, <2>2, <2>3
  <1>3. ASSUME NEW m \in 1..(N - 1), w[m] = y
        PROVE  \E n \in 1..N : instances[n] = y
    <2>1. CASE m < k
      BY <1>1, <1>3, <2>1
    <2>2. CASE m >= k
      <3>1. m \in k..(N - 1) /\ m + 1 \in 1..N
        BY <1>1, <2>2
      <3> QED
        BY <1>1, <1>3, <3>1
    <2> QED
      BY <1>1, <2>1, <2>2
  <1> QED
    BY <1>1, <1>2, <1>3 DEF Listed, w

(* Subscriptions and announcements of a stream that grows or is read. *)
LEMMA StreamConcat ==
    ASSUME NEW S, NEW s \in Seq(S), NEW t \in Seq(S), NEW x, NEW list
    PROVE  /\ Kept(x, s \o t) <=> Kept(x, s) /\ Kept(x, t)
           /\ Joins(x, s \o t) <=> Joins(x, t) \/ (Joins(x, s) /\ Kept(x, t))
           /\ Silent(s \o t) <=> Silent(s) /\ Silent(t)
           /\ Announces(t, list) \/ (Announces(s, list) /\ Silent(t)) => Announces(s \o t, list)
  <1> DEFINE u == s \o t
  <1>1. /\ \A n \in DOMAIN s : n \in DOMAIN u /\ u[n] = s[n]
        /\ \A n \in DOMAIN t : Len(s) + n \in DOMAIN u /\ u[Len(s) + n] = t[n]
        /\ \A n \in DOMAIN u :
              n \in DOMAIN s \/ (n - Len(s) \in DOMAIN t /\ u[n] = t[n - Len(s)])
        /\ DOMAIN u \subseteq Int /\ Len(s) \in Nat /\ DOMAIN s = 1..Len(s)
        /\ DOMAIN t \subseteq Nat \ {0}
    BY ConcatAt
  <1> HIDE DEF u
  <1> DEFINE In == Subscribe(InstanceFilter(x))
             Out == Unsubscribe(InstanceFilter(x))
  <1>2. Kept(x, u) <=> Kept(x, s) /\ Kept(x, t)
    <2> HIDE DEF Out
    <2> QED
      BY <1>1 DEF Kept, Out
  <1>3. Silent(u) <=> Silent(s) /\ Silent(t)
    BY <1>1 DEF Silent
  <1>4. Joins(x, t) => Joins(x, u)
    <2> SUFFICES ASSUME NEW n \in DOMAIN t, t[n] = In, \A m \in DOMAIN t : m > n => t[m] # Out
                 PROVE  /\ Len(s) + n \in DOMAIN u /\ u[Len(s) + n] = In
                        /\ \A m \in DOMAIN u : m > Len(s) + n => u[m] # Out
      BY <1>1 DEF Joins
    <2> HIDE DEF In, Out
    <2>1. ASSUME NEW m \in DOMAIN u, m > Len(s) + n
          PROVE  u[m] # Out
      <3>1. m \notin DOMAIN s /\ m - Len(s) > n
        BY <1>1, <2>1
      <3> QED
        BY <1>1, <3>1
    <2> QED
      BY <1>1, <2>1
  <1>5. Joins(x, s) /\ Kept(x, t) => Joins(x, u)
    <2> SUFFICES ASSUME NEW n \in DOMAIN s, s[n] = In, \A m \in DOMAIN s : m > n => s[m] # Out,
                        \A m \in DOMAIN t : t[m] # Out
                 PROVE  n \in DOMAIN u /\ u[n] = In /\ \A m \in DOMAIN u : m > n => u[m] # Out
      BY DEF Joins, Kept
    <2> HIDE DEF In, Out
    <2> QED
      BY <1>1
  <1>6. Joins(x, u) => Joins(x, t) \/ (Joins(x, s) /\ Kept(x, t))
    <2> SUFFICES ASSUME NEW n \in DOMAIN u, u[n] = In, \A m \in DOMAIN u : m > n => u[m] # Out
                 PROVE  Joins(x, t) \/ (Joins(x, s) /\ Kept(x, t))
      BY DEF Joins
    <2>1. CASE n \in DOMAIN s
      <3>1. s[n] = In /\ \A m \in DOMAIN s : m > n => s[m] # Out
        BY <1>1, <2>1
      <3>2. \A m \in DOMAIN t : t[m] # Out
        <4> SUFFICES ASSUME NEW m \in DOMAIN t
                     PROVE  t[m] # Out
          OBVIOUS
        <4>1. Len(s) + m \in DOMAIN u /\ Len(s) + m > n /\ u[Len(s) + m] = t[m]
          BY <1>1, <2>1
        <4> HIDE DEF Out
        <4> QED
          BY <4>1
      <3> QED
        BY <2>1, <3>1, <3>2 DEF Joins, Kept
    <2>2. CASE n \notin DOMAIN s
      <3>1. n - Len(s) \in DOMAIN t /\ t[n - Len(s)] = In
        BY <1>1, <2>2
      <3>2. \A m \in DOMAIN t : m > n - Len(s) => t[m] # Out
        <4> SUFFICES ASSUME NEW m \in DOMAIN t, m > n - Len(s)
                     PROVE  t[m] # Out
          OBVIOUS
        <4>1. Len(s) + m \in DOMAIN u /\ Len(s) + m > n /\ u[Len(s) + m] = t[m]
          BY <1>1
        <4> HIDE DEF Out
        <4> QED
          BY <4>1
      <3> QED
        BY <3>1, <3>2 DEF Joins
    <2> QED
      BY <2>1, <2>2
  <1>7. Announces(t, list) => Announces(u, list)
    <2> SUFFICES ASSUME NEW n \in DOMAIN t, t[n].type = "classInfo", t[n].instances = list,
                        \A m \in DOMAIN t : m > n => t[m].type # "classInfo"
                 PROVE  Announces(u, list)
      BY DEF Announces
    <2>1. Len(s) + n \in DOMAIN u /\ u[Len(s) + n] = t[n]
      BY <1>1
    <2>2. ASSUME NEW m \in DOMAIN u, m > Len(s) + n
          PROVE  u[m].type # "classInfo"
      <3>1. m \notin DOMAIN s /\ m - Len(s) > n
        BY <1>1, <2>2
      <3> QED
        BY <1>1, <3>1
    <2> QED
      BY <2>1, <2>2 DEF Announces
  <1>8. Announces(s, list) /\ Silent(t) => Announces(u, list)
    <2> SUFFICES ASSUME NEW n \in DOMAIN s, s[n].type = "classInfo", s[n].instances = list,
                        \A m \in DOMAIN s : m > n => s[m].type # "classInfo", Silent(t)
                 PROVE  Announces(u, list)
      BY DEF Announces
    <2>1. \A m \in DOMAIN u : m > n => u[m].type # "classInfo"
      BY <1>1 DEF Silent
    <2> QED
      BY <1>1, <2>1 DEF Announces
  <1> QED
    BY <1>2, <1>3, <1>4, <1>5, <1>6, <1>7, <1>8 DEF u

LEMMA StreamTail ==
    ASSUME NEW S, NEW s \in Seq(S), s # <<>>, NEW x, NEW list
    PROVE  /\ Kept(x, s) <=> Head(s) # Unsubscribe(InstanceFilter(x)) /\ Kept(x, Tail(s))
           /\ Joins(x, s) <=> \/ Joins(x, Tail(s))
                              \/ Head(s) = Subscribe(InstanceFilter(x)) /\ Kept(x, Tail(s))
           /\ Silent(s) <=> Head(s).type # "classInfo" /\ Silent(Tail(s))
           /\ Announces(s, list) => 
                 \/ Announces(Tail(s), list)
                 \/ /\ Head(s).type = "classInfo" /\ Head(s).instances = list
                    /\ Silent(Tail(s))
  <1> DEFINE t == Tail(s)
             p == Head(s)
             In == Subscribe(InstanceFilter(x))
             Out == Unsubscribe(InstanceFilter(x))
  <1>1. /\ \A n \in DOMAIN t : n + 1 \in DOMAIN s /\ t[n] = s[n + 1]
        /\ \A n \in DOMAIN s : n # 1 => n - 1 \in DOMAIN t /\ t[n - 1] = s[n]
        /\ p = s[1] /\ 1 \in DOMAIN s /\ DOMAIN t \subseteq Nat \ {0} /\ DOMAIN s \subseteq Nat \ {0}
    BY TailAt
  <1> HIDE DEF t, p, In, Out
  <1>2. (\A m \in DOMAIN s : s[m] # Out) <=> p # Out /\ \A m \in DOMAIN t : t[m] # Out
    BY <1>1
  <1>3. Silent(s) <=> p.type # "classInfo" /\ Silent(t)
    BY <1>1 DEF Silent
  <1>4. ASSUME NEW n \in DOMAIN t
        PROVE  (\A m \in DOMAIN t : m > n => t[m] # Out) <=> (\A m \in DOMAIN s : m > n + 1 => s[m] # Out)
    <2>1. ASSUME \A m \in DOMAIN t : m > n => t[m] # Out, NEW m \in DOMAIN s, m > n + 1
          PROVE  s[m] # Out
      <3>1. m # 1 /\ m - 1 > n
        BY <1>1, <2>1
      <3> QED
        BY <1>1, <2>1, <3>1
    <2>2. ASSUME \A m \in DOMAIN s : m > n + 1 => s[m] # Out, NEW m \in DOMAIN t, m > n
          PROVE  t[m] # Out
      <3>1. m + 1 > n + 1 /\ m + 1 \in DOMAIN s
        BY <1>1, <2>2
      <3> QED
        BY <1>1, <2>2, <3>1
    <2> QED
      BY <2>1, <2>2
  <1>5. (\A m \in DOMAIN t : t[m] # Out) <=> (\A m \in DOMAIN s : m > 1 => s[m] # Out)
    BY <1>1
  <1>6. Joins(x, s) <=> Joins(x, t) \/ (p = In /\ \A m \in DOMAIN t : t[m] # Out)
    <2>1. Joins(x, s) <=> \E n \in DOMAIN s : s[n] = In /\ \A m \in DOMAIN s : m > n => s[m] # Out
      BY DEF Joins, In, Out
    <2>2. Joins(x, t) <=> \E n \in DOMAIN t : t[n] = In /\ \A m \in DOMAIN t : m > n => t[m] # Out
      BY DEF Joins, In, Out
    <2>3. ASSUME NEW n \in DOMAIN s, s[n] = In, \A m \in DOMAIN s : m > n => s[m] # Out
          PROVE  Joins(x, t) \/ (p = In /\ \A m \in DOMAIN t : t[m] # Out)
      <3>1. CASE n = 1
        BY <1>1, <1>5, <2>3, <3>1
      <3>2. CASE n # 1
        <4>1. n - 1 \in DOMAIN t /\ t[n - 1] = In /\ (n - 1) + 1 = n
          BY <1>1, <2>3, <3>2
        <4> QED
          BY <1>4, <2>2, <2>3, <4>1
      <3> QED
        BY <3>1, <3>2
    <2>4. ASSUME NEW n \in DOMAIN t, t[n] = In, \A m \in DOMAIN t : m > n => t[m] # Out
          PROVE  Joins(x, s)
      BY <1>1, <1>4, <2>1, <2>4
    <2>5. ASSUME p = In, \A m \in DOMAIN t : t[m] # Out
          PROVE  Joins(x, s)
      BY <1>1, <1>5, <2>1, <2>5
    <2> QED
      BY <2>1, <2>2, <2>3, <2>4, <2>5
  <1>7. ASSUME NEW n \in DOMAIN s, s[n].type = "classInfo", s[n].instances = list,
               \A m \in DOMAIN s : m > n => s[m].type # "classInfo"
        PROVE  Announces(t, list) \/ (p.type = "classInfo" /\ p.instances = list /\ Silent(t))
    <2>1. CASE n = 1
      <3>1. \A m \in DOMAIN t : m + 1 \in DOMAIN s /\ m + 1 > n /\ t[m] = s[m + 1]
        BY <1>1, <2>1
      <3> QED
        BY <1>1, <1>7, <2>1, <3>1 DEF Silent
    <2>2. CASE n # 1
      <3>1. n - 1 \in DOMAIN t /\ t[n - 1] = s[n]
        BY <1>1, <2>2
      <3>2. \A m \in DOMAIN t : m > n - 1 => m + 1 \in DOMAIN s /\ m + 1 > n /\ t[m] = s[m + 1]
        BY <1>1
      <3> QED
        BY <1>7, <3>1, <3>2 DEF Announces
    <2> QED
      BY <2>1, <2>2
  <1> QED
    BY <1>2, <1>3, <1>6, <1>7 DEF Announces, Kept, t, p, In, Out

----------------------------------------------------------------------------
(* What a step may do to the directory. *)

(* Replies change hands but do not come out of nothing. *)
LEMMA DeliveredFrame ==
    ASSUME inbox' = inbox, got' = got
    PROVE  Delivered' = Delivered
  BY DEF Delivered

LEMMA DeliveredReceives ==
    ASSUME TypeOK, NEW c \in Clients, ClientReceives(c)
    PROVE  Delivered' \subseteq Delivered
  <1>1. /\ inbox[c] \in Seq(Replies) /\ inbox[c] # <<>> /\ got \in Seq(Replies)
        /\ got' = Append(got, Head(inbox[c])) /\ inbox' = [inbox EXCEPT ![c] = Tail(@)]
    BY DEF ClientReceives, TypeOK
  <1>2. Head(inbox[c]) \in Replies /\ Head(inbox[c]) \in RepliesIn(inbox[c])
    <2>1. Head(inbox[c]) = inbox[c][1] /\ 1 \in DOMAIN inbox[c] /\ Head(inbox[c]) \in Replies
      BY <1>1
    <2>2. Head(inbox[c]).type = "reply"
      BY <2>1 DEF Replies
    <2> QED
      BY <2>1, <2>2 DEF RepliesIn
  <1>3. RepliesIn(got') \subseteq RepliesIn(got) \cup {Head(inbox[c])}
    BY <1>1, <1>2, RepliesInAppend
  <1>4. \A d \in Clients : RepliesIn(inbox'[d]) \subseteq RepliesIn(inbox[d])
    BY <1>1, RepliesInTail DEF TypeOK
  <1> QED
    BY <1>2, <1>3, <1>4 DEF Delivered

(* Steps that write nothing, or one neutral reply. *)
LEMMA QuietNothing ==
    ASSUME TypeOK, instances' = instances, subs' = subs, retained' = retained,
           up' = up, Delivered' \subseteq Delivered
    PROVE  QuietStep
  <1> DEFINE t == <<>>
  <1>1. t \in Seq(Packets) /\ up' = up \o t /\ DOMAIN t = {}
    BY DEF TypeOK
  <1> QED
    BY <1>1 DEF QuietStep, Silent

LEMMA QuietReply ==
    ASSUME TypeOK, instances' = instances, subs' = subs, retained' = retained,
           NEW p \in Packets, p.type = "reply", Neutral(p),
           up' = Append(up, p), Delivered' \subseteq Delivered
    PROVE  QuietStep
  <1> DEFINE t == <<p>>
  <1>1. t \in Seq(Packets) /\ up' = up \o t
    BY AppendIsConcat DEF TypeOK
  <1>2. DOMAIN t = {1} /\ t[1] = p
    OBVIOUS
  <1>3. Silent(t) /\ \A n \in DOMAIN t : Neutral(t[n])
    BY <1>2 DEF Silent
  <1> QED
    BY <1>1, <1>3 DEF QuietStep

LEMMA Effects ==
    ASSUME TypeOK, CallInv, [Next]_vars
    PROVE  \/ QuietStep
           \/ \E x \in Instances : CreateStep(x) \/ DeleteStep(x)
           \/ BrokerReads
  <1>1. CASE HandleConnack
    <2>1. instances' = instances /\ subs' = subs /\ retained' = retained /\ inbox' = inbox /\ got' = got
      BY <1>1 DEF HandleConnack, brokerVars, clientVars
    <2>2. CASE up' = up
      BY <2>1, <2>2, DeliveredFrame, QuietNothing
    <2>3. CASE up' = up \o ConnackPackets
      <3> DEFINE t == ConnackPackets
      <3>1. t \in Seq(Packets) /\ t # <<>> /\ t[Len(t)] = ClassInfo(instances)
        <4>1. Len(t) # 0 /\ t[Len(t)] = ClassInfo(instances)
          BY ConnackAt
        <4>2. t \in Seq(Packets)
          BY PacketTypes
        <4> QED
          BY <4>1, <4>2
      <3>2. \A n \in DOMAIN t : Neutral(t[n])
        BY ConnackAt DEF Neutral, StaticNames
      <3> QED
        BY <2>1, <2>3, <3>1, <3>2, DeliveredFrame DEF QuietStep
    <2> QED
      BY <1>1, <2>2, <2>3 DEF HandleConnack
  <1>2. CASE HandlePublish
    <2> DEFINE q == Head(down)
               j == Context(q)
               id == callId + 1
    <2>1. down # <<>>
      BY <1>2 DEF HandlePublish, RequestWaiting
    <2>2. q \in Requests /\ ShapeOf(q) \in Shapes /\ j \in Contexts
      BY <2>1, HeadOfDown, ContextType
    <2>3. /\ inbox' = inbox /\ got' = got /\ subs' = subs /\ retained' = retained /\ calls' = calls
          /\ CreateShared(q, j) \/ Delete(q, j) \/ VrpcCall(q, id, j) \/ Catch(q, j)
      BY <1>2 DEF HandlePublish, brokerVars, clientVars
    <2>4. 1 \in DOMAIN down /\ down[1] = q /\ Head(down) = q /\ down' = Tail(down)
      BY <1>2, <2>1 DEF TypeOK, HandlePublish
    <2> HIDE DEF q, j, id
    <2>5. CASE CreateShared(q, j)
      <3>1. q.a \in Instances /\ q.f = "__createShared__"
        BY <2>2, <2>5, ShapeFacts DEF CreateShared, Administers
      <3>2. Takes("__createShared__", q.a)
        BY <2>4, <3>1 DEF Takes
      <3>3. CreateStep(q.a)
        BY <2>1, <2>2, <2>3, <2>4, <2>5, <3>1, <3>2
        DEF CreateStep, CreateShared, Handles, brokerVars, clientVars
      <3> QED
        BY <3>1, <3>3
    <2>6. CASE Delete(q, j)
      <3>1. q.a \in Instances /\ q.f = "__delete__"
        BY <2>2, <2>6, ShapeFacts DEF Delete, Administers
      <3>2. Takes("__delete__", q.a)
        BY <2>4, <3>1 DEF Takes
      <3>3. DeleteStep(q.a)
        BY <2>1, <2>2, <2>3, <2>4, <2>6, <3>1, <3>2
        DEF DeleteStep, Delete, Handles, brokerVars, clientVars
      <3> QED
        BY <3>1, <3>3
    <2>7. CASE VrpcCall(q, id, j)
      BY <2>3, <2>7, DeliveredFrame, QuietNothing DEF VrpcCall
    <2>8. CASE Catch(q, j)
      <3> DEFINE p == Reply(j, Outcome("error", Target(q), q.inst))
      <3>1. Outcome("error", Target(q), q.inst) \in Outcomes
        BY <2>2, ShapeFacts DEF Outcome, Outcomes, Requests
      <3>2. p \in Packets /\ p.type = "reply" /\ p.out = Outcome("error", Target(q), q.inst)
        BY <2>2, <3>1, ReplyType DEF Packets, Reply
      <3>3. Target(q) \notin {"__createShared__", "__delete__"} \/ q.inst \notin Instances
        <4>1. q.a = BadArg \/ Evaluates(q)
          BY <2>8 DEF Catch
        <4>2. Evaluates(q) => Target(q) \in RFunctions
          BY <2>2, ShapeFacts
        <4>3. DOMAIN Functions = 1..Len(Functions) /\ \A n \in DOMAIN Functions : Functions[n] \in RFunctions
          BY FunctionsAssumption
        <4>4. q.f \in {"__createShared__", "__delete__"} => q.inst = Static
          BY <2>2, <4>3, FunctionsAssumption DEF Shapes, ShapeOf
        <4>5. q.a = BadArg /\ q.f = "call" => Target(q) = BadArg
          BY DEF Target
        <4>6. q.f # "call" => Target(q) = q.f
          BY DEF Target
        <4> QED
          BY <4>1, <4>2, <4>4, <4>5, <4>6, FunctionsAssumption, InstancesAssumption DEF BadArg
      <3>4. Neutral(p)
        BY <3>2, <3>3 DEF Neutral, Outcome
      <3>5. up' = Append(up, p) /\ instances' = instances
        BY <2>8 DEF Catch
      <3> HIDE DEF p
      <3> QED
        BY <2>3, <3>2, <3>4, <3>5, DeliveredFrame, QuietReply
    <2> QED
      BY <2>3, <2>5, <2>6, <2>7, <2>8
  <1>3. ASSUME NEW id \in CallIds, ExecutionDone(id)
        PROVE  QuietStep
    <2>1. PICK tag \in {"value", "error"} :
             up' = Append(up, Reply(AwaitedOf(id), Outcome(tag, children[id].fn, children[id].inst)))
      BY <1>3 DEF ExecutionDone
    <2> DEFINE p == Reply(AwaitedOf(id), Outcome(tag, children[id].fn, children[id].inst))
    <2>2. children[id] \in Children /\ AwaitedOf(id) \in Contexts
      BY <1>3 DEF ExecutionDone, Evaluating, AwaitedOf, TypeOK, Children, Tables
    <2>3. children[id].fn \in RFunctions
      BY <2>2 DEF Children
    <2>4. Outcome(tag, children[id].fn, children[id].inst) \in Outcomes
      BY <2>2 DEF Outcome, Outcomes, Children
    <2>5. /\ p \in Packets /\ p.type = "reply"
          /\ p.out = Outcome(tag, children[id].fn, children[id].inst)
      BY <2>2, <2>4, ReplyType DEF Packets, Reply
    <2>6. Neutral(p)
      BY <2>3, <2>5, FunctionsAssumption DEF Neutral, Outcome
    <2>7. instances' = instances /\ subs' = subs /\ retained' = retained /\ inbox' = inbox /\ got' = got
      BY <1>3 DEF ExecutionDone, agentVars, brokerVars, clientVars
    <2> HIDE DEF p
    <2> QED
      BY <2>1, <2>5, <2>6, <2>7, DeliveredFrame, QuietReply DEF p
  <1>4. ASSUME NEW id \in CallIds, ChildDies(id) \/ ChildQuits(id)
        PROVE  QuietStep
    BY <1>4, DeliveredFrame, QuietNothing DEF ChildDies, ChildQuits, agentVars, brokerVars, clientVars
  <1>5. ASSUME NEW c \in Clients, ClientCalls(c)
        PROVE  QuietStep
    BY <1>5, DeliveredFrame, QuietNothing DEF ClientCalls, agentVars, brokerVars
  <1>6. ASSUME NEW c \in Clients, ClientReceives(c)
        PROVE  QuietStep
    BY <1>6, DeliveredReceives, QuietNothing DEF ClientReceives, agentVars
  <1>7. CASE UNCHANGED vars
    BY <1>7, DeliveredFrame, QuietNothing DEF vars, agentVars, brokerVars, clientVars
  <1> QED
    BY <1>1, <1>2, <1>3, <1>4, <1>5, <1>6, <1>7 DEF Next

LEMMA PacketFields ==
    /\ \A list : ClassInfo(list).type = "classInfo" /\ ClassInfo(list).instances = list
    /\ \A j, out : /\ Reply(j, out).type = "reply" /\ Reply(j, out).i = j.i
                   /\ Reply(j, out).out = out
    /\ \A f : Subscribe(f).type = "subscribe" /\ Subscribe(f).filter = f
    /\ \A f : Unsubscribe(f).type = "unsubscribe" /\ Unsubscribe(f).filter = f
    /\ AgentInfo.type = "agentInfo"
    /\ \A tag, fn, inst : /\ Outcome(tag, fn, inst).tag = tag /\ Outcome(tag, fn, inst).fn = fn
                          /\ Outcome(tag, fn, inst).inst = inst
  BY DEF ClassInfo, Reply, Subscribe, Unsubscribe, AgentInfo, Outcome

(* The kinds of packets a neutral stream, a creation and a deletion write. *)
LEMMA NeutralStream ==
    ASSUME TypeOK, NEW t \in Seq(Packets), \A n \in DOMAIN t : Neutral(t[n]), NEW x \in Instances
    PROVE  Kept(x, t) /\ ~Joins(x, t)
  <1>1. \A f \in StaticNames : StaticFilter(f) # InstanceFilter(x)
    BY InstancesAssumption DEF StaticFilter, InstanceFilter
  <1>2. ASSUME NEW p, Neutral(p)
        PROVE  p # Subscribe(InstanceFilter(x)) /\ p # Unsubscribe(InstanceFilter(x))
    <2>1. CASE p.type = "reply" \/ p = AgentInfo \/ p = ClassInfo(instances)
      BY <2>1 DEF Subscribe, Unsubscribe, AgentInfo, ClassInfo
    <2>2. CASE \E f \in StaticNames : p = Subscribe(StaticFilter(f))
      BY <1>1, <2>2 DEF Subscribe, Unsubscribe
    <2> QED
      BY <1>2, <2>1, <2>2 DEF Neutral
  <1> QED
    BY <1>2 DEF Kept, Joins

LEMMA CreateStream ==
    ASSUME NEW y \in Instances, NEW j, NEW x \in Instances
    PROVE  /\ Kept(x, CreatePackets(y, j))
           /\ Joins(x, CreatePackets(y, j)) <=> x = y
           /\ Announces(CreatePackets(y, j), Append(instances, y))
  <1> DEFINE t == CreatePackets(y, j)
  <1>1. /\ DOMAIN t = 1..3 /\ t[1] = Subscribe(InstanceFilter(y))
        /\ t[2].type = "classInfo" /\ t[2].instances = Append(instances, y) /\ t[3].type = "reply"
    <2>1. /\ DOMAIN t = 1..3 /\ t[1] = Subscribe(InstanceFilter(y))
          /\ t[2] = ClassInfo(Append(instances, y))
          /\ t[3] = Reply(j, Outcome("created", "__createShared__", y))
      BY CreatePacketsAt
    <2>2. t[2].type = "classInfo" /\ t[2].instances = Append(instances, y)
      <3> HIDE DEF t
      <3> QED
        BY <2>1 DEF ClassInfo
    <2>3. t[3].type = "reply"
      BY <2>1, PacketFields
    <2> QED
      BY <2>1, <2>2, <2>3
  <1>2. /\ Subscribe(InstanceFilter(x)) = Subscribe(InstanceFilter(y)) <=> x = y
        /\ \A f : Subscribe(InstanceFilter(y)) # Unsubscribe(f)
        /\ \A p, f : p.type \in {"classInfo", "reply"} => p # Unsubscribe(f) /\ p # Subscribe(f)
    BY DEF Subscribe, Unsubscribe, InstanceFilter
  <1> HIDE DEF t
  <1>3. \A n \in DOMAIN t : t[n] # Unsubscribe(InstanceFilter(x))
    BY <1>1, <1>2
  <1>4. Joins(x, t) <=> x = y
    BY <1>1, <1>2, <1>3 DEF Joins
  <1>5. Announces(t, Append(instances, y))
    BY <1>1 DEF Announces
  <1> QED
    BY <1>3, <1>4, <1>5 DEF t, Kept

LEMMA DeleteStream ==
    ASSUME NEW y \in Instances, NEW j, NEW x \in Instances
    PROVE  /\ Kept(x, DeletePackets(y, j)) <=> x # y
           /\ ~Joins(x, DeletePackets(y, j))
           /\ IF Listed(y) THEN Announces(DeletePackets(y, j), WithoutFirst(y))
                           ELSE Silent(DeletePackets(y, j))
  <1> DEFINE t == DeletePackets(y, j)
  <1>1. /\ 1 \in DOMAIN t /\ t[1] = Unsubscribe(InstanceFilter(y))
        /\ Listed(y) => /\ DOMAIN t = 1..3 /\ t[2].type = "classInfo"
                        /\ t[2].instances = WithoutFirst(y) /\ t[3].type = "reply"
        /\ ~Listed(y) => DOMAIN t = 1..2 /\ t[2].type = "reply"
    BY DeletePacketsAt, PacketFields
  <1>2. /\ Unsubscribe(InstanceFilter(x)) = Unsubscribe(InstanceFilter(y)) <=> x = y
        /\ \A f : Unsubscribe(InstanceFilter(y)) # Subscribe(f)
        /\ \A p, f : p.type \in {"classInfo", "reply"} => p # Unsubscribe(f) /\ p # Subscribe(f)
        /\ Unsubscribe(InstanceFilter(y)).type # "classInfo"
    BY DEF Subscribe, Unsubscribe, InstanceFilter
  <1> HIDE DEF t
  <1>3. \A n \in DOMAIN t : n = 1 \/ t[n].type \in {"classInfo", "reply"}
    BY <1>1
  <1>4. Kept(x, t) <=> x # y
    BY <1>1, <1>2, <1>3 DEF Kept
  <1>5. ~Joins(x, t)
    BY <1>1, <1>2, <1>3 DEF Joins
  <1>6. IF Listed(y) THEN Announces(t, WithoutFirst(y)) ELSE Silent(t)
    BY <1>1, <1>2 DEF Announces, Silent
  <1> QED
    BY <1>4, <1>5, <1>6 DEF t

(* What the broker makes of the packet it reads. *)
LEMMA BrokerEffect ==
    ASSUME TypeOK, BrokerReads
    PROVE  LET p == Head(up) IN
           /\ up \in Seq(Packets) /\ up # <<>> /\ up' = Tail(up) /\ p \in Packets
           /\ instances' = instances /\ calls' = calls /\ got' = got /\ down' = down
           /\ \A x \in Instances :
                 InstanceFilter(x) \in subs'
                   <=> \/ p = Subscribe(InstanceFilter(x))
                       \/ InstanceFilter(x) \in subs /\ p # Unsubscribe(InstanceFilter(x))
           /\ retained'.instances = IF p.type = "classInfo" THEN p.instances ELSE retained.instances
           /\ subs' \subseteq subs \/ (p.type = "subscribe" /\ subs' \subseteq subs \cup {p.filter})
           /\ \A r \in Delivered' : r \in Delivered \/ (r = p /\ p.type = "reply")
  <1> DEFINE p == Head(up)
  <1>1. /\ up \in Seq(Packets) /\ up # <<>> /\ up' = Tail(up)
        /\ instances' = instances /\ calls' = calls /\ got' = got /\ down' = down
    BY DEF BrokerReads, TypeOK, agentVars, clientVars
  <1>2. p \in Packets
    BY <1>1, TailAt
  <1>3. /\ p.type = "subscribe" => p = Subscribe(p.filter)
        /\ p.type = "unsubscribe" => p = Unsubscribe(p.filter)
    BY <1>2 DEF Packets, Replies, Subscribe, Unsubscribe
  <1> HIDE DEF p
  <1>4. \/ p.type = "subscribe" /\ subs' = subs \cup {p.filter} /\ retained' = retained /\ inbox' = inbox
        \/ p.type = "unsubscribe" /\ subs' = subs \ {p.filter} /\ retained' = retained /\ inbox' = inbox
        \/ /\ p.type = "agentInfo" /\ subs' = subs /\ inbox' = inbox
           /\ retained'.instances = retained.instances
        \/ /\ p.type = "classInfo" /\ subs' = subs /\ inbox' = inbox
           /\ retained'.instances = p.instances
        \/ /\ p.type = "reply" /\ subs' = subs /\ retained' = retained
           /\ inbox' = [inbox EXCEPT ![p.s] = Append(@, p)]
    BY DEF BrokerReads, TypeOK, p
  <1>5. ASSUME NEW x \in Instances
        PROVE  InstanceFilter(x) \in subs'
                 <=> \/ p = Subscribe(InstanceFilter(x))
                     \/ InstanceFilter(x) \in subs /\ p # Unsubscribe(InstanceFilter(x))
    BY <1>3, <1>4, PacketFields
  <1>6. retained'.instances = IF p.type = "classInfo" THEN p.instances ELSE retained.instances
    BY <1>4
  <1>7. subs' \subseteq subs \/ (p.type = "subscribe" /\ subs' \subseteq subs \cup {p.filter})
    BY <1>4
  <1>8. \A r \in Delivered' : r \in Delivered \/ (r = p /\ p.type = "reply")
    <2>1. CASE inbox' = inbox
      BY <1>1, <2>1, DeliveredFrame
    <2>2. CASE p.type = "reply" /\ inbox' = [inbox EXCEPT ![p.s] = Append(@, p)]
      <3>1. p \in Replies /\ p.s \in Clients
        BY <1>2, <2>2 DEF Packets, Replies
      <3>2. inbox[p.s] \in Seq(Replies)
        BY <3>1 DEF TypeOK
      <3>3. RepliesIn(Append(inbox[p.s], p)) \subseteq RepliesIn(inbox[p.s]) \cup {p}
        BY <3>1, <3>2, RepliesInAppend
      <3>4. \A c \in Clients : RepliesIn(inbox'[c]) \subseteq RepliesIn(inbox[c]) \cup {p}
        BY <2>2, <3>1, <3>3 DEF TypeOK
      <3> QED
        BY <1>1, <2>2, <3>4 DEF Delivered
    <2> QED
      BY <1>4, <2>1, <2>2
  <1> QED
    BY <1>1, <1>2, <1>5, <1>6, <1>7, <1>8 DEF p

----------------------------------------------------------------------------
(* What can be reached is listed, and the announced list is the agent's.   *)

LEMMA ListeningIs ==
    ASSUME NEW x
    PROVE  Listening(x) <=> Joins(x, up) \/ (InstanceFilter(x) \in subs /\ Kept(x, up))
  BY DEF Listening, Joins, Kept

(* The packet the broker reads changes nothing for who listens.            *)
LEMMA ListeningRead ==
    ASSUME TypeOK, BrokerReads, NEW x \in Instances
    PROVE  (Joins(x, up') \/ (InstanceFilter(x) \in subs' /\ Kept(x, up'))) <=> Listening(x)
  <1>1. /\ up \in Seq(Packets) /\ up # <<>> /\ up' = Tail(up)
        /\ InstanceFilter(x) \in subs'
             <=> \/ Head(up) = Subscribe(InstanceFilter(x))
                 \/ InstanceFilter(x) \in subs /\ Head(up) # Unsubscribe(InstanceFilter(x))
    BY BrokerEffect
  <1>2. /\ Kept(x, up) <=> Head(up) # Unsubscribe(InstanceFilter(x)) /\ Kept(x, up')
        /\ Joins(x, up) <=> \/ Joins(x, up')
                            \/ Head(up) = Subscribe(InstanceFilter(x)) /\ Kept(x, up')
    BY <1>1, StreamTail
  <1>3. Subscribe(InstanceFilter(x)) # Unsubscribe(InstanceFilter(x))
    BY DEF Subscribe, Unsubscribe
  <1>4. Listening(x) <=> Joins(x, up) \/ (InstanceFilter(x) \in subs /\ Kept(x, up))
    BY ListeningIs
  <1> QED
    BY <1>1, <1>2, <1>3, <1>4

LEMMA ReachableStep ==
    TypeOK /\ CallInv /\ ReachableIsListed /\ [Next]_vars => ReachableIsListed'
  <1> SUFFICES ASSUME TypeOK, CallInv, ReachableIsListed, [Next]_vars, NEW x \in Instances,
                      Joins(x, up') \/ (InstanceFilter(x) \in subs' /\ Kept(x, up'))
               PROVE  \E n \in DOMAIN instances' : instances'[n] = x
    BY DEF ReachableIsListed, Listening, Joins, Kept, Listed
  <1>0. (Listening(x) => Listed(x)) /\ up \in Seq(Packets)
    BY DEF ReachableIsListed, TypeOK
  <1>1. CASE QuietStep
    <2>1. PICK t \in Seq(Packets) : up' = up \o t /\ \A n \in DOMAIN t : Neutral(t[n])
      BY <1>1 DEF QuietStep
    <2>2. subs' = subs /\ instances' = instances
      BY <1>1 DEF QuietStep
    <2>3. Kept(x, t) /\ ~Joins(x, t)
      BY <2>1, NeutralStream
    <2>4. Listening(x)
      BY <1>0, <2>1, <2>2, <2>3, StreamConcat, ListeningIs
    <2> QED
      BY <1>0, <2>2, <2>4 DEF Listed
  <1>2. ASSUME NEW y \in Instances, CreateStep(y)
        PROVE  \E n \in DOMAIN instances' : instances'[n] = x
    <2>1. PICK j \in Contexts : up' = up \o CreatePackets(y, j)
      BY <1>2 DEF CreateStep
    <2>2. subs' = subs /\ instances' = Append(instances, y) /\ instances \in Seq(Instances)
      BY <1>2 DEF CreateStep, brokerVars, TypeOK
    <2>3. CreatePackets(y, j) \in Seq(Packets)
      BY <2>1, PacketTypes
    <2>4. x = y \/ Listening(x)
      <3>1. Kept(x, CreatePackets(y, j)) /\ (Joins(x, CreatePackets(y, j)) <=> x = y)
        BY CreateStream
      <3>2. /\ Kept(x, up') <=> Kept(x, up) /\ Kept(x, CreatePackets(y, j))
            /\ Joins(x, up') <=> \/ Joins(x, CreatePackets(y, j))
                                 \/ Joins(x, up) /\ Kept(x, CreatePackets(y, j))
        BY <1>0, <2>1, <2>3, StreamConcat
      <3> QED
        BY <2>2, <3>1, <3>2, ListeningIs
    <2>5. /\ DOMAIN instances' = DOMAIN instances \cup {Len(instances) + 1}
          /\ instances'[Len(instances) + 1] = y
          /\ \A n \in DOMAIN instances : instances'[n] = instances[n]
      BY <2>2
    <2> QED
      BY <1>0, <2>4, <2>5 DEF Listed
  <1>3. ASSUME NEW y \in Instances, DeleteStep(y)
        PROVE  \E n \in DOMAIN instances' : instances'[n] = x
    <2>1. PICK j \in Contexts : up' = up \o DeletePackets(y, j)
      BY <1>3 DEF DeleteStep
    <2>2. subs' = subs /\ instances' = IF Listed(y) THEN WithoutFirst(y) ELSE instances
      BY <1>3 DEF DeleteStep, brokerVars
    <2>3. DeletePackets(y, j) \in Seq(Packets)
      BY <2>1, PacketTypes
    <2>4. x # y /\ Listening(x)
      BY <1>0, <2>1, <2>2, <2>3, DeleteStream, StreamConcat, ListeningIs
    <2> QED
      BY <1>0, <2>2, <2>4, WithoutFirstKeeps DEF Listed
  <1>4. CASE BrokerReads
    <2>1. Listening(x)
      BY <1>4, ListeningRead
    <2> QED
      BY <1>0, <1>4, <2>1, BrokerEffect DEF Listed
  <1> QED
    BY <1>1, <1>2, <1>3, <1>4, Effects

(* However clients' creations and deletions, the writes of the agent and   *)
(* the reads of the broker interleave, an instance the agent is or will be *)
(* subscribed to is in its list.                                           *)
THEOREM ReachableListed == Spec => []ReachableIsListed
  <1> DEFINE Inv == TypeOK /\ CallInv /\ ReachableIsListed
  <1>1. Init => Inv
    <2>1. Init => ReachableIsListed
      BY DEF Init, ReachableIsListed, Listening
    <2> QED
      BY <2>1, TypeInit, CallInvInit
  <1>2. Inv /\ [Next]_vars => Inv'
    BY TypeStep, CallInvStep, ReachableStep
  <1> QED
    BY <1>1, <1>2, PTL DEF Spec

LEMMA DirectoryIs ==
    ASSUME TypeOK
    PROVE  DirectoryFollowsAgent
             <=> IF Silent(up) THEN retained.instances = instances ELSE Announces(up, instances)
  <1>1. DOMAIN up \subseteq Int
    BY DEF TypeOK
  <1>2. ClassInfos = {} <=> Silent(up)
    BY DEF ClassInfos, Silent
  <1>3. (\E n \in ClassInfos : (\A m \in ClassInfos : m <= n) /\ up[n].instances = instances)
          <=> Announces(up, instances)
    BY <1>1 DEF ClassInfos, Announces
  <1> QED
    BY <1>2, <1>3 DEF DirectoryFollowsAgent

LEMMA DirectoryStep ==
    TypeOK /\ CallInv /\ DirectoryFollowsAgent /\ [Next]_vars => DirectoryFollowsAgent'
  <1> SUFFICES ASSUME TypeOK, CallInv, DirectoryFollowsAgent, [Next]_vars
               PROVE  DirectoryFollowsAgent'
    OBVIOUS
  <1>a. TypeOK'
    BY TypeStep
  <1> SUFFICES IF Silent(up') THEN retained'.instances = instances' ELSE Announces(up', instances')
    <2>1. TypeOK => (DirectoryFollowsAgent
             <=> IF Silent(up) THEN retained.instances = instances ELSE Announces(up, instances))
      BY DirectoryIs
    <2>2. (TypeOK => (DirectoryFollowsAgent
             <=> IF Silent(up) THEN retained.instances = instances ELSE Announces(up, instances)))'
      BY DirectoryIs, PTL
    <2> QED
      BY <1>a, <2>2 DEF Silent, Announces
  <1>0. /\ up \in Seq(Packets)
        /\ IF Silent(up) THEN retained.instances = instances ELSE Announces(up, instances)
    BY DirectoryIs DEF TypeOK
  <1>1. CASE QuietStep
    <2>1. PICK t \in Seq(Packets) :
            /\ up' = up \o t
            /\ Silent(t) \/ (t # <<>> /\ t[Len(t)] = ClassInfo(instances))
      BY <1>1 DEF QuietStep
    <2>2. retained' = retained /\ instances' = instances
      BY <1>1 DEF QuietStep
    <2>3. CASE Silent(t)
      BY <1>0, <2>1, <2>2, <2>3, StreamConcat
    <2>4. CASE t # <<>> /\ t[Len(t)] = ClassInfo(instances)
      <3>1. Len(t) \in DOMAIN t /\ \A m \in DOMAIN t : ~(m > Len(t))
        BY <2>4
      <3>2. Announces(t, instances)
        BY <2>4, <3>1, PacketFields DEF Announces
      <3>3. Announces(up', instances)
        BY <1>0, <2>1, <3>2, StreamConcat
      <3> QED
        BY <2>2, <3>3 DEF Silent, Announces
    <2> QED
      BY <2>1, <2>3, <2>4
  <1>2. ASSUME NEW y \in Instances, CreateStep(y)
        PROVE  Announces(up', instances')
    <2>1. PICK j \in Contexts : up' = up \o CreatePackets(y, j)
      BY <1>2 DEF CreateStep
    <2>2. instances' = Append(instances, y)
      BY <1>2 DEF CreateStep
    <2>3. CreatePackets(y, j) \in Seq(Packets)
      BY <2>1, PacketTypes
    <2> QED
      BY <1>0, <2>1, <2>2, <2>3, CreateStream, StreamConcat
  <1>3. ASSUME NEW y \in Instances, DeleteStep(y)
        PROVE  IF Silent(up') THEN retained'.instances = instances' ELSE Announces(up', instances')
    <2>1. PICK j \in Contexts : up' = up \o DeletePackets(y, j)
      BY <1>3 DEF DeleteStep
    <2>2. /\ instances' = IF Listed(y) THEN WithoutFirst(y) ELSE instances
          /\ retained' = retained
      BY <1>3 DEF DeleteStep, brokerVars
    <2>3. DeletePackets(y, j) \in Seq(Packets)
      BY <2>1, PacketTypes
    <2>4. CASE Listed(y)
      <3>1. Announces(up', instances')
        BY <1>0, <2>1, <2>2, <2>3, <2>4, DeleteStream, StreamConcat
      <3> QED
        BY <3>1 DEF Silent, Announces
    <2>5. CASE ~Listed(y)
      BY <1>0, <2>1, <2>2, <2>3, <2>5, DeleteStream, StreamConcat
    <2> QED
      BY <2>4, <2>5
  <1>4. CASE BrokerReads
    <2>1. /\ up' = Tail(up) /\ up # <<>> /\ instances' = instances
          /\ retained'.instances = IF Head(up).type = "classInfo" THEN Head(up).instances
                                   ELSE retained.instances
      BY <1>4, BrokerEffect
    <2>2. /\ Silent(up) <=> Head(up).type # "classInfo" /\ Silent(up')
          /\ Announces(up, instances) =>
                 \/ Announces(up', instances)
                 \/ /\ Head(up).type = "classInfo" /\ Head(up).instances = instances
                    /\ Silent(up')
      BY <1>0, <2>1, StreamTail
    <2>3. ~(Silent(up') /\ Announces(up', instances))
      BY DEF Silent, Announces
    <2> QED
      BY <1>0, <2>1, <2>2, <2>3
  <1>5. Announces(up', instances') => ~Silent(up')
    BY DEF Silent, Announces
  <1> QED
    BY <1>1, <1>2, <1>3, <1>4, <1>5, Effects

(* The last list announced, on the socket or retained by the broker, is    *)
(* the agent's list.                                                       *)
THEOREM DirectoryCurrent == Spec => []DirectoryFollowsAgent
  <1> DEFINE Inv == TypeOK /\ CallInv /\ DirectoryFollowsAgent
  <1>1. Init => Inv
    <2>1. Init => DirectoryFollowsAgent
      BY DEF Init, DirectoryFollowsAgent, ClassInfos
    <2> QED
      BY <2>1, TypeInit, CallInvInit
  <1>2. Inv /\ [Next]_vars => Inv'
    BY TypeStep, CallInvStep, DirectoryStep
  <1> QED
    BY <1>1, <1>2, PTL DEF Spec

----------------------------------------------------------------------------
(* What clients are told: a created instance can be used, a deleted one    *)
(* cannot be reached.                                                      *)

Has(list, x) == \E k \in DOMAIN list : list[k] = x

(* Once the broker with subscriptions S and the announced list R has read  *)
(* n packets of s, x is subscribed to and announced; it stays announced.   *)
Settled(x, n, s, S, R) ==
    /\ InstanceFilter(x) \in S \/ \E m \in 1..n : s[m] = Subscribe(InstanceFilter(x))
    /\ \E b \in 0..n :
          /\ IF b = 0 THEN Has(R, x) ELSE s[b].type = "classInfo" /\ Has(s[b].instances, x)
          /\ \A m \in DOMAIN s : m > b /\ s[m].type = "classInfo" => Has(s[m].instances, x)

(* Once it has read n packets, x has been unsubscribed from. *)
Gone(x, n, s, S) ==
    InstanceFilter(x) \notin S \/ \E m \in 1..n : s[m] = Unsubscribe(InstanceFilter(x))

(* A subscription under way is followed by the reply to a creation, its    *)
(* end by the reply to a deletion.                                         *)
Followed(x, s) ==
    /\ \A m \in DOMAIN s : s[m] = Subscribe(InstanceFilter(x)) =>
          \E n \in DOMAIN s : n > m /\ Reports(s[n], "__createShared__", x)
    /\ \A m \in DOMAIN s : s[m] = Unsubscribe(InstanceFilter(x)) =>
          \E n \in DOMAIN s : n > m /\ Reports(s[n], "__delete__", x)

(* What a request had seen answered when it was issued is answered. *)
AfterAnswered == \A i \in DOMAIN calls : calls[i].after \subseteq Answered

(* All requests of this kind about x were answered when call i was issued. *)
Quieted(f, i, x) == Issued(f, x) \subseteq calls[i].after

(* The filters are those of the class's functions and of instances. *)
Known(filter) == filter[1] = Static \/ filter[2] = "+"
FiltersKnown ==
    /\ \A filter \in subs : Known(filter)
    /\ \A n \in DOMAIN up : up[n].type = "subscribe" => Known(up[n].filter)

(* A reply to a creation that no deletion disturbs finds x settled when it *)
(* is read, and from then on.                                              *)
CreatedOf(x) ==
    /\ \A n \in DOMAIN up :
          Reports(up[n], "__createShared__", x) /\ Quieted("__delete__", up[n].i, x)
          => Listed(x) /\ Settled(x, n, up, subs, retained.instances)
    /\ \A p \in Delivered :
          Reports(p, "__createShared__", x) /\ Quieted("__delete__", p.i, x)
          => Listed(x) /\ Settled(x, 0, up, subs, retained.instances)

DeletedOf(x) ==
    /\ \A n \in DOMAIN up :
          Reports(up[n], "__delete__", x) /\ Quieted("__createShared__", up[n].i, x)
          => Gone(x, n, up, subs)
    /\ \A p \in Delivered :
          Reports(p, "__delete__", x) /\ Quieted("__createShared__", p.i, x)
          => Gone(x, 0, up, subs)

DirectoryInv ==
    /\ ReplyInv
    /\ AfterAnswered
    /\ FiltersKnown
    /\ \A x \in Instances : Followed(x, up) /\ CreatedOf(x) /\ DeletedOf(x)

(* More packets at the end, or one fewer at the front. *)
LEMMA SettledConcat ==
    ASSUME NEW P, NEW s \in Seq(P), NEW t \in Seq(P), NEW x, NEW S, NEW R, NEW n \in 0..Len(s),
           Settled(x, n, s, S, R),
           \A m \in DOMAIN t : t[m].type = "classInfo" => Has(t[m].instances, x)
    PROVE  Settled(x, n, s \o t, S, R)
  <1> DEFINE u == s \o t
             In == Subscribe(InstanceFilter(x))
  <1>1. /\ \A m \in 1..n : m \in DOMAIN s /\ u[m] = s[m]
        /\ \A m \in DOMAIN u : (m \in DOMAIN s /\ u[m] = s[m]) \/ (\E k \in DOMAIN t : u[m] = t[k])
    BY ConcatAt
  <1> HIDE DEF u
  <1>2. InstanceFilter(x) \in S \/ \E m \in 1..n : u[m] = In
    BY <1>1 DEF Settled
  <1>3. PICK b \in 0..n :
          /\ IF b = 0 THEN Has(R, x) ELSE s[b].type = "classInfo" /\ Has(s[b].instances, x)
          /\ \A m \in DOMAIN s : m > b /\ s[m].type = "classInfo" => Has(s[m].instances, x)
    BY DEF Settled
  <1>4. IF b = 0 THEN Has(R, x) ELSE u[b].type = "classInfo" /\ Has(u[b].instances, x)
    BY <1>1, <1>3
  <1>5. \A m \in DOMAIN u : m > b /\ u[m].type = "classInfo" => Has(u[m].instances, x)
    BY <1>1, <1>3
  <1> QED
    BY <1>2, <1>4, <1>5 DEF Settled, u

LEMMA SettledTail ==
    ASSUME NEW P, NEW s \in Seq(P), s # <<>>, NEW x, NEW S, NEW R, NEW S2, NEW R2,
           NEW n \in 0..Len(s), Settled(x, n, s, S, R),
           Head(s) # Unsubscribe(InstanceFilter(x)),
           InstanceFilter(x) \in S2 <=> \/ Head(s) = Subscribe(InstanceFilter(x))
                                        \/ InstanceFilter(x) \in S
                                           /\ Head(s) # Unsubscribe(InstanceFilter(x)),
           R2 = IF Head(s).type = "classInfo" THEN Head(s).instances ELSE R
    PROVE  Settled(x, IF n = 0 THEN 0 ELSE n - 1, Tail(s), S2, R2)
  <1> DEFINE t == Tail(s)
             k == IF n = 0 THEN 0 ELSE n - 1
             In == Subscribe(InstanceFilter(x))
  <1>1. /\ \A m \in DOMAIN t : m + 1 \in DOMAIN s /\ t[m] = s[m + 1]
        /\ \A m \in DOMAIN s : m # 1 => m - 1 \in DOMAIN t /\ t[m - 1] = s[m]
        /\ Head(s) = s[1] /\ 1 \in DOMAIN s /\ DOMAIN t \subseteq Nat \ {0}
        /\ DOMAIN s = 1..Len(s) /\ Len(s) \in Nat
    BY TailAt
  <1>2. k \in Nat /\ n \in Nat /\ \A m \in 2..n : m - 1 \in 1..k
    OBVIOUS
  <1>3. \A m \in 1..n : m \in DOMAIN s /\ (m # 1 => m \in 2..n)
    BY <1>1
  <1> HIDE DEF t, k, In
  <1>4. InstanceFilter(x) \in S2 \/ \E m \in 1..k : t[m] = In
    <2>1. CASE InstanceFilter(x) \in S
      BY <2>1
    <2>2. ASSUME NEW m \in 1..n, s[m] = In
          PROVE  InstanceFilter(x) \in S2 \/ \E l \in 1..k : t[l] = In
      <3>1. CASE m = 1
        BY <1>1, <2>2, <3>1 DEF In
      <3>2. CASE m # 1
        <4>1. m \in DOMAIN s /\ m - 1 \in 1..k
          BY <1>2, <1>3, <3>2
        <4> QED
          BY <1>1, <2>2, <3>2, <4>1
      <3> QED
        BY <3>1, <3>2
    <2> QED
      BY <2>1, <2>2 DEF Settled, In
  <1>5. PICK b \in 0..n :
          /\ IF b = 0 THEN Has(R, x) ELSE s[b].type = "classInfo" /\ Has(s[b].instances, x)
          /\ \A m \in DOMAIN s : m > b /\ s[m].type = "classInfo" => Has(s[m].instances, x)
    BY DEF Settled
  <1>6. CASE b \in {0, 1}
    <2>1. Has(R2, x)
      <3>1. CASE b = 0
        BY <1>1, <1>5, <3>1
      <3>2. CASE b = 1
        BY <1>1, <1>5, <3>2
      <3> QED
        BY <1>6, <3>1, <3>2
    <2>2. \A m \in DOMAIN t : m > 0 /\ t[m].type = "classInfo" => Has(t[m].instances, x)
      <3> SUFFICES ASSUME NEW m \in DOMAIN t, t[m].type = "classInfo"
                   PROVE  Has(t[m].instances, x)
        OBVIOUS
      <3>1. m + 1 > b /\ m + 1 \in DOMAIN s /\ t[m] = s[m + 1]
        BY <1>1, <1>6
      <3> QED
        BY <1>5, <3>1
    <2>3. 0 \in 0..k
      BY <1>2
    <2> QED
      BY <1>4, <2>1, <2>2, <2>3 DEF Settled, t, k, In
  <1>7. CASE b \notin {0, 1}
    <2>1. b - 1 \in 1..k /\ b \in DOMAIN s /\ t[b - 1] = s[b]
      <3>1. b - 1 \in 1..k /\ b \in DOMAIN s
        BY <1>2, <1>5, <1>7, <1>3
      <3> QED
        BY <1>1, <1>7, <3>1
    <2>2. t[b - 1].type = "classInfo" /\ Has(t[b - 1].instances, x)
      BY <1>5, <1>7, <2>1
    <2>3. \A m \in DOMAIN t : m > b - 1 /\ t[m].type = "classInfo" => Has(t[m].instances, x)
      <3> SUFFICES ASSUME NEW m \in DOMAIN t, m > b - 1, t[m].type = "classInfo"
                   PROVE  Has(t[m].instances, x)
        OBVIOUS
      <3>1. m + 1 > b /\ m + 1 \in DOMAIN s /\ t[m] = s[m + 1]
        BY <1>1
      <3> QED
        BY <1>5, <3>1
    <2>4. b - 1 \in 0..k /\ b - 1 # 0
      BY <1>2, <2>1
    <2> DEFINE a == b - 1
    <2> HIDE DEF a
    <2>5. /\ a \in 0..k
          /\ IF a = 0 THEN Has(R2, x) ELSE t[a].type = "classInfo" /\ Has(t[a].instances, x)
          /\ \A m \in DOMAIN t : m > a /\ t[m].type = "classInfo" => Has(t[m].instances, x)
      BY <2>2, <2>3, <2>4 DEF a
    <2> QED
      BY <1>4, <2>5 DEF Settled, t, k, In
  <1> QED
    BY <1>6, <1>7

LEMMA GoneTail ==
    ASSUME NEW P, NEW s \in Seq(P), s # <<>>, NEW x, NEW S, NEW S2,
           NEW n \in 0..Len(s), Gone(x, n, s, S),
           Head(s) # Subscribe(InstanceFilter(x)),
           InstanceFilter(x) \in S2 <=> \/ Head(s) = Subscribe(InstanceFilter(x))
                                        \/ InstanceFilter(x) \in S
                                           /\ Head(s) # Unsubscribe(InstanceFilter(x))
    PROVE  Gone(x, IF n = 0 THEN 0 ELSE n - 1, Tail(s), S2)
  <1> DEFINE t == Tail(s)
             k == IF n = 0 THEN 0 ELSE n - 1
             Out == Unsubscribe(InstanceFilter(x))
  <1>1. /\ \A m \in DOMAIN s : m # 1 => m - 1 \in DOMAIN t /\ t[m - 1] = s[m]
        /\ Head(s) = s[1] /\ 1 \in DOMAIN s /\ DOMAIN s = 1..Len(s) /\ Len(s) \in Nat
    BY TailAt
  <1>2. k \in Nat /\ n \in Nat /\ \A m \in 2..n : m - 1 \in 1..k
    OBVIOUS
  <1> HIDE DEF t, k
  <1>3. ASSUME NEW m \in 1..n, s[m] = Out
        PROVE  InstanceFilter(x) \notin S2 \/ \E l \in 1..k : t[l] = Out
    <2>1. CASE m = 1
      BY <1>1, <1>3, <2>1
    <2>2. CASE m # 1
      <3>1. m \in DOMAIN s /\ m - 1 \in 1..k
        BY <1>1, <1>2, <2>2
      <3> QED
        BY <1>1, <1>3, <2>2, <3>1
    <2> QED
      BY <2>1, <2>2
  <1> QED
    BY <1>3 DEF Gone, t, k

LEMMA FollowedConcat ==
    ASSUME NEW P, NEW s \in Seq(P), NEW t \in Seq(P), NEW x, Followed(x, s), Followed(x, t)
    PROVE  Followed(x, s \o t)
  <1> DEFINE u == s \o t
  <1>1. /\ \A n \in DOMAIN s : n \in DOMAIN u /\ u[n] = s[n]
        /\ \A n \in DOMAIN t : Len(s) + n \in DOMAIN u /\ u[Len(s) + n] = t[n]
        /\ \A n \in DOMAIN u :
              (n \in DOMAIN s /\ u[n] = s[n]) \/ (n - Len(s) \in DOMAIN t /\ u[n] = t[n - Len(s)])
        /\ DOMAIN u \subseteq Int /\ Len(s) \in Int
    BY ConcatAt
  <1> HIDE DEF u
  <1>2. ASSUME NEW f, NEW p, NEW m \in DOMAIN u, u[m] = p,
               \A k \in DOMAIN s : s[k] = p => \E n \in DOMAIN s : n > k /\ Reports(s[n], f, x),
               \A k \in DOMAIN t : t[k] = p => \E n \in DOMAIN t : n > k /\ Reports(t[n], f, x)
        PROVE  \E n \in DOMAIN u : n > m /\ Reports(u[n], f, x)
    <2>1. CASE m \in DOMAIN s /\ u[m] = s[m]
      <3>1. PICK n \in DOMAIN s : n > m /\ Reports(s[n], f, x)
        BY <1>2, <2>1
      <3> QED
        BY <1>1, <3>1
    <2>2. CASE m - Len(s) \in DOMAIN t /\ u[m] = t[m - Len(s)]
      <3>1. PICK n \in DOMAIN t : n > m - Len(s) /\ Reports(t[n], f, x)
        BY <1>2, <2>2
      <3>2. Len(s) + n \in DOMAIN u /\ u[Len(s) + n] = t[n] /\ Len(s) + n > m
        <4>1. n \in Int
          BY <1>1, ConcatAt
        <4> QED
          BY <1>1, <3>1, <4>1
      <3> QED
        BY <3>1, <3>2
    <2> QED
      BY <1>1, <2>1, <2>2
  <1>3. \A m \in DOMAIN u : u[m] = Subscribe(InstanceFilter(x)) =>
            \E n \in DOMAIN u : n > m /\ Reports(u[n], "__createShared__", x)
    BY <1>2 DEF Followed
  <1>4. \A m \in DOMAIN u : u[m] = Unsubscribe(InstanceFilter(x)) =>
            \E n \in DOMAIN u : n > m /\ Reports(u[n], "__delete__", x)
    BY <1>2 DEF Followed
  <1> QED
    BY <1>3, <1>4 DEF Followed, u

LEMMA FollowedTail ==
    ASSUME NEW P, NEW s \in Seq(P), s # <<>>, NEW x, Followed(x, s)
    PROVE  Followed(x, Tail(s))
  <1> DEFINE t == Tail(s)
  <1>1. /\ \A n \in DOMAIN t : n + 1 \in DOMAIN s /\ t[n] = s[n + 1]
        /\ \A n \in DOMAIN s : n # 1 => n - 1 \in DOMAIN t /\ t[n - 1] = s[n]
        /\ DOMAIN t \subseteq Nat \ {0} /\ DOMAIN s \subseteq Nat \ {0}
    BY TailAt
  <1> HIDE DEF t
  <1>2. ASSUME NEW f, NEW p, NEW m \in DOMAIN t, t[m] = p,
               \A k \in DOMAIN s : s[k] = p => \E n \in DOMAIN s : n > k /\ Reports(s[n], f, x)
        PROVE  \E n \in DOMAIN t : n > m /\ Reports(t[n], f, x)
    <2>1. PICK n \in DOMAIN s : n > m + 1 /\ Reports(s[n], f, x)
      BY <1>1, <1>2
    <2>2. n - 1 \in DOMAIN t /\ t[n - 1] = s[n] /\ n - 1 > m
      BY <1>1, <2>1
    <2> QED
      BY <2>1, <2>2
  <1>3. \A m \in DOMAIN t : t[m] = Subscribe(InstanceFilter(x)) =>
            \E n \in DOMAIN t : n > m /\ Reports(t[n], "__createShared__", x)
    BY <1>2 DEF Followed
  <1>4. \A m \in DOMAIN t : t[m] = Unsubscribe(InstanceFilter(x)) =>
            \E n \in DOMAIN t : n > m /\ Reports(t[n], "__delete__", x)
    BY <1>2 DEF Followed
  <1> QED
    BY <1>3, <1>4 DEF Followed, t

(* The history of calls only grows. *)
LEMMA CallsGrow ==
    ASSUME TypeOK, [Next]_vars
    PROVE  /\ \A i \in DOMAIN calls : i \in DOMAIN calls' /\ calls'[i] = calls[i]
           /\ Answered \subseteq Answered'
           /\ \A i \in DOMAIN calls' : i \in DOMAIN calls \/ calls'[i].after = Answered
  <1>1. calls \in Seq(Requests) /\ got \in Seq(Replies)
    BY DEF TypeOK
  <1>2. CASE calls' = calls /\ got' = got
    BY <1>2 DEF Answered
  <1>3. ASSUME NEW c \in Clients, ClientCalls(c)
        PROVE  /\ \A i \in DOMAIN calls : i \in DOMAIN calls' /\ calls'[i] = calls[i]
               /\ Answered \subseteq Answered'
               /\ \A i \in DOMAIN calls' : i \in DOMAIN calls \/ calls'[i].after = Answered
    <2>1. PICK q : calls' = Append(calls, q) /\ q.after = Answered
      BY <1>3 DEF ClientCalls
    <2>2. got' = got
      BY <1>3 DEF ClientCalls
    <2>3. /\ DOMAIN calls' = DOMAIN calls \cup {Len(calls) + 1} /\ calls'[Len(calls) + 1] = q
          /\ \A i \in DOMAIN calls : calls'[i] = calls[i]
      BY <1>1, <2>1
    <2> QED
      BY <2>1, <2>2, <2>3 DEF Answered
  <1>4. ASSUME NEW c \in Clients, ClientReceives(c)
        PROVE  /\ \A i \in DOMAIN calls : i \in DOMAIN calls' /\ calls'[i] = calls[i]
               /\ Answered \subseteq Answered'
               /\ \A i \in DOMAIN calls' : i \in DOMAIN calls \/ calls'[i].after = Answered
    <2>1. calls' = calls /\ got' = Append(got, Head(inbox[c]))
      BY <1>4 DEF ClientReceives
    <2>2. \A n \in DOMAIN got : n \in DOMAIN got' /\ got'[n] = got[n]
      BY <1>1, <2>1
    <2> QED
      BY <2>1, <2>2 DEF Answered
  <1>5. CASE ~\E c \in Clients : ClientCalls(c) \/ ClientReceives(c)
    <2>1. calls' = calls /\ got' = got
      BY <1>5 DEF Next, vars, HandleConnack, HandlePublish, ExecutionDone, ChildDies, ChildQuits,
                  BrokerReads, clientVars
    <2> QED
      BY <1>2, <2>1
  <1> QED
    BY <1>3, <1>4, <1>5

(* A reply about creating or deleting x answers a request for it. *)
LEMMA ReportsIssued ==
    ASSUME ReplyInv, NEW f \in {"__createShared__", "__delete__"}, NEW x \in Instances,
           NEW p \in AllReplies, Reports(p, f, x)
    PROVE  p.i \in Issued(f, x)
  <1> DEFINE q == calls[p.i]
  <1>1. p.i \in DOMAIN calls /\ Answers(p, q) /\ q \in Requests /\ ShapeOf(q) \in Shapes
    BY DEF ReplyInv, RepliesAnswerTheirCalls, CallInv, CallsNumbered, TypeOK
  <1> HIDE DEF q
  <1>2. p.out.inst = (IF Administers(q) THEN q.a ELSE q.inst) /\ p.out.fn = (IF q.f = "call" THEN q.a ELSE q.f)
    BY <1>1 DEF Answers
  <1>3. DOMAIN Functions = 1..Len(Functions) /\ \A n \in DOMAIN Functions : Functions[n] \in RFunctions
    BY FunctionsAssumption
  <1>4. /\ q.f = "call" => q.a \in RFunctions \cup {BadArg}
        /\ q.f \in {"__createShared__", "__delete__"} => q.inst = Static
    BY <1>1, <1>3, FunctionsAssumption DEF Shapes, ShapeOf
  <1>5. q.f = f
    BY <1>2, <1>4, FunctionsAssumption DEF Reports, BadArg
  <1>6. Administers(q)
    BY <1>2, <1>4, <1>5, InstancesAssumption DEF Reports, Administers
  <1> QED
    BY <1>1, <1>2, <1>5, <1>6 DEF Issued, Reports, q

(* A call that saw all requests of a kind about x answered: none of them   *)
(* waits or is being answered any more.                                    *)
LEMMA NothingUnderWay ==
    ASSUME ReplyInv, AfterAnswered, NEW f \in {"__createShared__", "__delete__"},
           NEW x \in Instances, NEW i \in DOMAIN calls, Quieted(f, i, x)
    PROVE  ~Takes(f, x) /\ \A n \in DOMAIN up : ~Reports(up[n], f, x)
  <1>1. Issued(f, x) \subseteq Answered
    BY DEF Quieted, AfterAnswered
  <1>2. ASSUME NEW m \in DOMAIN down, down[m].f = f, down[m].a = x
        PROVE  FALSE
    <2>1. down[m].i \in DOMAIN calls /\ down[m] = calls[down[m].i]
      BY DEF ReplyInv, CallInv, QueueKnown
    <2>2. down[m].i \in Issued(f, x)
      BY <1>2, <2>1 DEF Issued
    <2>3. down[m].i \in Waiting
      BY DEF Waiting
    <2> QED
      BY <1>1, <2>2, <2>3 DEF ReplyInv, OnePlace
  <1>3. ASSUME NEW n \in DOMAIN up, Reports(up[n], f, x)
        PROVE  FALSE
    <2>1. up[n] \in RepliesIn(up) /\ up[n] \in AllReplies
      BY <1>3 DEF AllReplies, RepliesIn, Reports
    <2>2. up[n].i \in Answered
      BY <1>1, <1>3, <2>1, ReportsIssued
    <2>3. up[n].i \in Written
      BY <2>1 DEF Written, Numbers
    <2> QED
      BY <2>2, <2>3 DEF ReplyInv, OnePlace
  <1> QED
    BY <1>2, <1>3 DEF Takes

(* Being undisturbed is lost, never gained, as more calls are issued. *)
LEMMA QuietedBefore ==
    ASSUME TypeOK, [Next]_vars, NEW f, NEW x, NEW i \in DOMAIN calls,
           Issued(f, x)' \subseteq calls'[i].after
    PROVE  Quieted(f, i, x)
  <1>1. \A k \in DOMAIN calls : k \in DOMAIN calls' /\ calls'[k] = calls[k]
    BY CallsGrow
  <1> QED
    BY <1>1 DEF Quieted, Issued

LEMMA RepliesPlaced ==
    ASSUME ReplyInv
    PROVE  /\ \A n \in DOMAIN up : up[n].type = "reply" => up[n].i \in DOMAIN calls
           /\ \A p \in Delivered : p.i \in DOMAIN calls
  BY DEF ReplyInv, RepliesAnswerTheirCalls, AllReplies, RepliesIn, Delivered

(* Packets written at the end of the socket's stream. *)
LEMMA CreatedWrites ==
    ASSUME DirectoryInv, [Next]_vars, NEW x \in Instances, NEW t \in Seq(Packets),
           up' = up \o t, subs' = subs, retained' = retained, Delivered' \subseteq Delivered,
           Listed(x) /\ ~Takes("__delete__", x)
             => /\ Listed(x)'
                /\ \A m \in DOMAIN t : t[m].type = "classInfo" => Has(t[m].instances, x),
           \A n \in DOMAIN t : Reports(t[n], "__createShared__", x)
             => Listed(x)' /\ Settled(x, Len(up) + n, up', subs', retained'.instances)
    PROVE  CreatedOf(x)'
  <1>1. ReplyInv /\ AfterAnswered /\ TypeOK /\ up \in Seq(Packets) /\ CreatedOf(x)
    BY DEF DirectoryInv, ReplyInv, TypeOK
  <1>2. /\ \A n \in DOMAIN up' :
              (n \in DOMAIN up /\ up'[n] = up[n]) \/ (n - Len(up) \in DOMAIN t /\ up'[n] = t[n - Len(up)])
        /\ DOMAIN up = 1..Len(up) /\ Len(up) \in Nat /\ DOMAIN up' \subseteq Int
    BY <1>1, ConcatAt
  <1>3. ASSUME NEW i \in DOMAIN calls, Quieted("__delete__", i, x), Listed(x), NEW n \in 0..Len(up),
               Settled(x, n, up, subs, retained.instances)
        PROVE  Listed(x)' /\ Settled(x, n, up', subs', retained'.instances)
    <2>1. ~Takes("__delete__", x)
      BY <1>1, <1>3, NothingUnderWay
    <2> QED
      BY <1>1, <1>3, <2>1, SettledConcat
  <1>4. ASSUME NEW n \in DOMAIN up', Reports(up'[n], "__createShared__", x),
               Issued("__delete__", x)' \subseteq calls'[up'[n].i].after
        PROVE  Listed(x)' /\ Settled(x, n, up', subs', retained'.instances)
    <2>1. CASE n \in DOMAIN up /\ up'[n] = up[n]
      <3>1. up[n].i \in DOMAIN calls
        BY <1>1, <1>4, <2>1, RepliesPlaced DEF Reports
      <3>2. Quieted("__delete__", up[n].i, x)
        BY <1>1, <1>4, <2>1, <3>1, QuietedBefore
      <3>3. n \in 0..Len(up)
        BY <1>2, <2>1
      <3>4. Listed(x) /\ Settled(x, n, up, subs, retained.instances)
        BY <1>1, <1>4, <2>1, <3>2 DEF CreatedOf
      <3> QED
        BY <1>3, <3>1, <3>2, <3>3, <3>4
    <2>2. CASE n - Len(up) \in DOMAIN t /\ up'[n] = t[n - Len(up)]
      <3>1. Len(up) + (n - Len(up)) = n
        BY <1>2
      <3> QED
        BY <1>4, <2>2, <3>1
    <2> QED
      BY <1>2, <2>1, <2>2
  <1>5. ASSUME NEW p \in Delivered', Reports(p, "__createShared__", x),
               Issued("__delete__", x)' \subseteq calls'[p.i].after
        PROVE  Listed(x)' /\ Settled(x, 0, up', subs', retained'.instances)
    <2>1. p \in Delivered /\ p.i \in DOMAIN calls
      BY <1>1, RepliesPlaced
    <2>2. Quieted("__delete__", p.i, x)
      BY <1>1, <1>5, <2>1, QuietedBefore
    <2>3. Listed(x) /\ Settled(x, 0, up, subs, retained.instances)
      BY <1>1, <1>5, <2>1, <2>2 DEF CreatedOf
    <2> QED
      BY <1>2, <1>3, <2>1, <2>2, <2>3
  <1> QED
    BY <1>4, <1>5 DEF CreatedOf, Quieted

LEMMA DeletedWrites ==
    ASSUME DirectoryInv, [Next]_vars, NEW x \in Instances, NEW t \in Seq(Packets),
           up' = up \o t, subs' = subs, Delivered' \subseteq Delivered,
           \A n \in DOMAIN t : Reports(t[n], "__delete__", x) => Gone(x, Len(up) + n, up', subs')
    PROVE  DeletedOf(x)'
  <1>1. ReplyInv /\ TypeOK /\ up \in Seq(Packets) /\ DeletedOf(x)
    BY DEF DirectoryInv, ReplyInv, TypeOK
  <1>2. /\ \A n \in DOMAIN up' :
              (n \in DOMAIN up /\ up'[n] = up[n]) \/ (n - Len(up) \in DOMAIN t /\ up'[n] = t[n - Len(up)])
        /\ \A n \in DOMAIN up : up'[n] = up[n]
        /\ DOMAIN up = 1..Len(up) /\ Len(up) \in Nat /\ DOMAIN up' \subseteq Int
    BY <1>1, ConcatAt
  <1>3. ASSUME NEW n \in 0..Len(up), Gone(x, n, up, subs)
        PROVE  Gone(x, n, up', subs')
    <2>1. \A m \in 1..n : up'[m] = up[m]
      BY <1>2
    <2> QED
      BY <1>3, <2>1 DEF Gone
  <1>4. ASSUME NEW n \in DOMAIN up', Reports(up'[n], "__delete__", x),
               Issued("__createShared__", x)' \subseteq calls'[up'[n].i].after
        PROVE  Gone(x, n, up', subs')
    <2>1. CASE n \in DOMAIN up /\ up'[n] = up[n]
      <3>1. up[n].i \in DOMAIN calls
        BY <1>1, <1>4, <2>1, RepliesPlaced DEF Reports
      <3>2. Quieted("__createShared__", up[n].i, x)
        BY <1>1, <1>4, <2>1, <3>1, QuietedBefore
      <3>3. n \in 0..Len(up)
        BY <1>2, <2>1
      <3> QED
        BY <1>1, <1>3, <1>4, <2>1, <3>2, <3>3 DEF DeletedOf
    <2>2. CASE n - Len(up) \in DOMAIN t /\ up'[n] = t[n - Len(up)]
      <3>1. Len(up) + (n - Len(up)) = n
        BY <1>2
      <3> QED
        BY <1>4, <2>2, <3>1
    <2> QED
      BY <1>2, <2>1, <2>2
  <1>5. ASSUME NEW p \in Delivered', Reports(p, "__delete__", x),
               Issued("__createShared__", x)' \subseteq calls'[p.i].after
        PROVE  Gone(x, 0, up', subs')
    <2>1. p \in Delivered /\ p.i \in DOMAIN calls
      BY <1>1, RepliesPlaced
    <2>2. Quieted("__createShared__", p.i, x)
      BY <1>1, <1>5, <2>1, QuietedBefore
    <2>3. Gone(x, 0, up, subs)
      BY <1>1, <1>5, <2>1, <2>2 DEF DeletedOf
    <2> QED
      BY <1>2, <1>3, <2>3
  <1> QED
    BY <1>4, <1>5 DEF DeletedOf, Quieted

(* The broker reads the first packet. *)
LEMMA CreatedReads ==
    ASSUME DirectoryInv, [Next]_vars, BrokerReads, NEW x \in Instances
    PROVE  CreatedOf(x)'
  <1>1. ReplyInv /\ AfterAnswered /\ TypeOK /\ CreatedOf(x) /\ Followed(x, up)
    BY DEF DirectoryInv, ReplyInv
  <1>2. /\ up \in Seq(Packets) /\ up # <<>> /\ up' = Tail(up) /\ instances' = instances
        /\ InstanceFilter(x) \in subs'
             <=> \/ Head(up) = Subscribe(InstanceFilter(x))
                 \/ InstanceFilter(x) \in subs /\ Head(up) # Unsubscribe(InstanceFilter(x))
        /\ retained'.instances = IF Head(up).type = "classInfo" THEN Head(up).instances
                                 ELSE retained.instances
        /\ \A r \in Delivered' : r \in Delivered \/ (r = Head(up) /\ Head(up).type = "reply")
    BY <1>1, BrokerEffect
  <1>3. /\ \A n \in DOMAIN up' : n + 1 \in DOMAIN up /\ up'[n] = up[n + 1]
        /\ Head(up) = up[1] /\ 1 \in DOMAIN up /\ DOMAIN up = 1..Len(up) /\ Len(up) \in Nat
        /\ DOMAIN up' \subseteq Nat \ {0}
    BY <1>2, TailAt
  <1>4. ASSUME NEW i \in DOMAIN calls, Quieted("__delete__", i, x), Listed(x), NEW n \in 0..Len(up),
               Settled(x, n, up, subs, retained.instances)
        PROVE  Listed(x)' /\ Settled(x, IF n = 0 THEN 0 ELSE n - 1, up', subs', retained'.instances)
    <2>1. Head(up) # Unsubscribe(InstanceFilter(x))
      BY <1>1, <1>3, <1>4, NothingUnderWay DEF Followed
    <2>2. Settled(x, IF n = 0 THEN 0 ELSE n - 1, up', subs', retained'.instances)
      BY <1>2, <1>4, <2>1, SettledTail
    <2> QED
      BY <1>2, <1>4, <2>2 DEF Listed
  <1>5. ASSUME NEW n \in DOMAIN up', Reports(up'[n], "__createShared__", x),
               Issued("__delete__", x)' \subseteq calls'[up'[n].i].after
        PROVE  Listed(x)' /\ Settled(x, n, up', subs', retained'.instances)
    <2>1. n + 1 \in DOMAIN up /\ up'[n] = up[n + 1] /\ n + 1 \in 0..Len(up) /\ n + 1 # 0 /\ (n + 1) - 1 = n
      BY <1>3
    <2>2. up'[n].i \in DOMAIN calls
      BY <1>1, <1>5, <2>1, RepliesPlaced DEF Reports
    <2>3. Quieted("__delete__", up'[n].i, x)
      BY <1>1, <1>5, <2>2, QuietedBefore
    <2>4. Listed(x) /\ Settled(x, n + 1, up, subs, retained.instances)
      BY <1>1, <1>5, <2>1, <2>3 DEF CreatedOf
    <2> QED
      BY <1>4, <2>1, <2>2, <2>3, <2>4
  <1>6. ASSUME NEW p \in Delivered', Reports(p, "__createShared__", x),
               Issued("__delete__", x)' \subseteq calls'[p.i].after
        PROVE  Listed(x)' /\ Settled(x, 0, up', subs', retained'.instances)
    <2>1. p \in Delivered \/ (p = up[1] /\ p.type = "reply")
      BY <1>2, <1>3
    <2>2. p.i \in DOMAIN calls
      BY <1>1, <1>3, <2>1, RepliesPlaced
    <2>3. Quieted("__delete__", p.i, x)
      BY <1>1, <1>6, <2>2, QuietedBefore
    <2>4. PICK n \in {0, 1} : Listed(x) /\ Settled(x, n, up, subs, retained.instances)
      BY <1>1, <1>3, <1>6, <2>1, <2>3 DEF CreatedOf
    <2>5. n \in 0..Len(up) /\ (IF n = 0 THEN 0 ELSE n - 1) = 0
      BY <1>3
    <2> QED
      BY <1>4, <2>2, <2>3, <2>4, <2>5
  <1> QED
    BY <1>5, <1>6 DEF CreatedOf, Quieted

LEMMA DeletedReads ==
    ASSUME DirectoryInv, [Next]_vars, BrokerReads, NEW x \in Instances
    PROVE  DeletedOf(x)'
  <1>1. ReplyInv /\ AfterAnswered /\ TypeOK /\ DeletedOf(x) /\ Followed(x, up)
    BY DEF DirectoryInv, ReplyInv
  <1>2. /\ up \in Seq(Packets) /\ up # <<>> /\ up' = Tail(up)
        /\ InstanceFilter(x) \in subs'
             <=> \/ Head(up) = Subscribe(InstanceFilter(x))
                 \/ InstanceFilter(x) \in subs /\ Head(up) # Unsubscribe(InstanceFilter(x))
        /\ \A r \in Delivered' : r \in Delivered \/ (r = Head(up) /\ Head(up).type = "reply")
    BY <1>1, BrokerEffect
  <1>3. /\ \A n \in DOMAIN up' : n + 1 \in DOMAIN up /\ up'[n] = up[n + 1]
        /\ Head(up) = up[1] /\ 1 \in DOMAIN up /\ DOMAIN up = 1..Len(up) /\ Len(up) \in Nat
        /\ DOMAIN up' \subseteq Nat \ {0}
    BY <1>2, TailAt
  <1>4. ASSUME NEW i \in DOMAIN calls, Quieted("__createShared__", i, x), NEW n \in 0..Len(up),
               Gone(x, n, up, subs)
        PROVE  Gone(x, IF n = 0 THEN 0 ELSE n - 1, up', subs')
    <2>1. Head(up) # Subscribe(InstanceFilter(x))
      BY <1>1, <1>3, <1>4, NothingUnderWay DEF Followed
    <2> QED
      BY <1>2, <1>4, <2>1, GoneTail
  <1>5. ASSUME NEW n \in DOMAIN up', Reports(up'[n], "__delete__", x),
               Issued("__createShared__", x)' \subseteq calls'[up'[n].i].after
        PROVE  Gone(x, n, up', subs')
    <2>1. n + 1 \in DOMAIN up /\ up'[n] = up[n + 1] /\ n + 1 \in 0..Len(up) /\ n + 1 # 0 /\ (n + 1) - 1 = n
      BY <1>3
    <2>2. up'[n].i \in DOMAIN calls
      BY <1>1, <1>5, <2>1, RepliesPlaced DEF Reports
    <2>3. Quieted("__createShared__", up'[n].i, x)
      BY <1>1, <1>5, <2>2, QuietedBefore
    <2>4. Gone(x, n + 1, up, subs)
      BY <1>1, <1>5, <2>1, <2>3 DEF DeletedOf
    <2> QED
      BY <1>4, <2>1, <2>2, <2>3, <2>4
  <1>6. ASSUME NEW p \in Delivered', Reports(p, "__delete__", x),
               Issued("__createShared__", x)' \subseteq calls'[p.i].after
        PROVE  Gone(x, 0, up', subs')
    <2>1. p \in Delivered \/ (p = up[1] /\ p.type = "reply")
      BY <1>2, <1>3
    <2>2. p.i \in DOMAIN calls
      BY <1>1, <1>3, <2>1, RepliesPlaced
    <2>3. Quieted("__createShared__", p.i, x)
      BY <1>1, <1>6, <2>2, QuietedBefore
    <2>4. PICK n \in {0, 1} : Gone(x, n, up, subs)
      BY <1>1, <1>3, <1>6, <2>1, <2>3 DEF DeletedOf
    <2>5. n \in 0..Len(up) /\ (IF n = 0 THEN 0 ELSE n - 1) = 0
      BY <1>3
    <2> QED
      BY <1>4, <2>2, <2>3, <2>4, <2>5
  <1> QED
    BY <1>5, <1>6 DEF DeletedOf, Quieted

(* What each kind of writing step adds, packet by packet. *)
LEMMA NeutralKinds ==
    ASSUME TypeOK, NEW t \in Seq(Packets), \A n \in DOMAIN t : Neutral(t[n]), NEW x \in Instances
    PROVE  /\ Followed(x, t)
           /\ \A n \in DOMAIN t :
                 /\ ~Reports(t[n], "__createShared__", x) /\ ~Reports(t[n], "__delete__", x)
                 /\ t[n].type = "subscribe" => Known(t[n].filter)
                 /\ t[n].type = "classInfo" => t[n].instances = instances
  <1>1. \A n \in DOMAIN t : /\ t[n] # Subscribe(InstanceFilter(x))
                            /\ t[n] # Unsubscribe(InstanceFilter(x))
    <2>1. \A f \in StaticNames : StaticFilter(f) # InstanceFilter(x)
      BY InstancesAssumption DEF StaticFilter, InstanceFilter
    <2> SUFFICES ASSUME NEW p, Neutral(p)
                 PROVE  p # Subscribe(InstanceFilter(x)) /\ p # Unsubscribe(InstanceFilter(x))
      OBVIOUS
    <2>2. CASE p.type = "reply" \/ p = AgentInfo \/ p = ClassInfo(instances)
      BY <2>2 DEF Subscribe, Unsubscribe, AgentInfo, ClassInfo
    <2>3. CASE \E f \in StaticNames : p = Subscribe(StaticFilter(f))
      BY <2>1, <2>3 DEF Subscribe, Unsubscribe
    <2> QED
      BY <2>2, <2>3 DEF Neutral
  <1>2. ASSUME NEW p, Neutral(p)
        PROVE  /\ ~Reports(p, "__createShared__", x) /\ ~Reports(p, "__delete__", x)
               /\ p.type = "subscribe" => Known(p.filter)
               /\ p.type = "classInfo" => p.instances = instances
    <2>1. CASE p = AgentInfo \/ p = ClassInfo(instances)
      BY <2>1 DEF Reports, AgentInfo, ClassInfo
    <2>2. CASE \E f \in StaticNames : p = Subscribe(StaticFilter(f))
      <3>1. p.type = "subscribe" /\ p.filter[1] = Static
        BY <2>2 DEF Subscribe, StaticFilter
      <3> QED
        BY <3>1 DEF Reports, Known
    <2>3. CASE /\ p.type = "reply"
               /\ p.out.fn \notin {"__createShared__", "__delete__"} \/ p.out.inst \notin Instances
      BY <2>3 DEF Reports
    <2> QED
      BY <1>2, <2>1, <2>2, <2>3 DEF Neutral
  <1> QED
    BY <1>1, <1>2 DEF Followed

LEMMA CreateKinds ==
    ASSUME NEW y \in Instances, NEW j, NEW x \in Instances
    PROVE  LET t == CreatePackets(y, j) IN
           /\ Followed(x, t)
           /\ \A n \in DOMAIN t :
                 /\ ~Reports(t[n], "__delete__", x)
                 /\ Reports(t[n], "__createShared__", x) => n = 3 /\ x = y
                 /\ t[n].type = "subscribe" => Known(t[n].filter)
                 /\ t[n].type = "classInfo" => t[n].instances = Append(instances, y)
  <1> DEFINE t == CreatePackets(y, j)
  <1>1. /\ DOMAIN t = 1..3 /\ t[1] = Subscribe(InstanceFilter(y))
        /\ t[2] = ClassInfo(Append(instances, y))
        /\ t[3] = Reply(j, Outcome("created", "__createShared__", y))
    BY CreatePacketsAt
  <1> HIDE DEF t
  <1>2. t[1].type = "subscribe" /\ t[1].filter[2] = "+"
    BY <1>1 DEF Subscribe, InstanceFilter
  <1>3. t[2].type = "classInfo" /\ t[2].instances = Append(instances, y)
    BY <1>1 DEF ClassInfo
  <1>4. t[3].type = "reply" /\ t[3].out.fn = "__createShared__" /\ t[3].out.inst = y
    BY <1>1 DEF Reply, Outcome
  <1>5. \A f : Subscribe(f).type = "subscribe" /\ Unsubscribe(f).type = "unsubscribe"
    BY PacketFields
  <1>6. Subscribe(InstanceFilter(x)) = Subscribe(InstanceFilter(y)) => x = y
    BY DEF Subscribe, InstanceFilter
  <1>7. Followed(x, t)
    <2>1. \A m \in DOMAIN t : t[m] # Unsubscribe(InstanceFilter(x))
      BY <1>1, <1>2, <1>3, <1>4, <1>5
    <2>2. \A m \in DOMAIN t : t[m] = Subscribe(InstanceFilter(x)) => m = 1 /\ x = y
      BY <1>1, <1>3, <1>4, <1>5, <1>6
    <2>3. x = y => Reports(t[3], "__createShared__", x)
      BY <1>4 DEF Reports
    <2> QED
      BY <1>1, <2>1, <2>2, <2>3 DEF Followed
  <1>8. \A n \in DOMAIN t : n \in {1, 2, 3}
    BY <1>1
  <1> QED
    BY <1>2, <1>3, <1>4, <1>7, <1>8 DEF Reports, Known, t

LEMMA DeleteKinds ==
    ASSUME NEW y \in Instances, NEW j, NEW x \in Instances
    PROVE  LET t == DeletePackets(y, j) IN
           /\ Followed(x, t)
           /\ 1 \in DOMAIN t /\ t[1] = Unsubscribe(InstanceFilter(y))
           /\ \A n \in DOMAIN t :
                 /\ ~Reports(t[n], "__createShared__", x)
                 /\ Reports(t[n], "__delete__", x) => n > 1 /\ x = y
                 /\ t[n].type # "subscribe"
                 /\ t[n].type = "classInfo" => Listed(y) /\ t[n].instances = WithoutFirst(y)
  <1> DEFINE t == DeletePackets(y, j)
  <1>1. /\ t[1] = Unsubscribe(InstanceFilter(y))
        /\ Listed(y) => /\ DOMAIN t = 1..3 /\ t[2] = ClassInfo(WithoutFirst(y))
                        /\ t[3] = Reply(j, Outcome("deleted", "__delete__", y))
        /\ ~Listed(y) => DOMAIN t = 1..2 /\ t[2] = Reply(j, Outcome("unknown", "__delete__", y))
    BY DeletePacketsAt
  <1> HIDE DEF t
  <1>2. t[1].type = "unsubscribe"
    BY <1>1 DEF Unsubscribe
  <1>3. Listed(y) => t[2].type = "classInfo" /\ t[2].instances = WithoutFirst(y)
    BY <1>1 DEF ClassInfo
  <1>4. \A tag : LET p == Reply(j, Outcome(tag, "__delete__", y)) IN
                 p.type = "reply" /\ p.out.fn = "__delete__" /\ p.out.inst = y
    BY DEF Reply, Outcome
  <1>5. PICK last \in {2, 3} : /\ last \in DOMAIN t /\ t[last].type = "reply"
                               /\ t[last].out.fn = "__delete__" /\ t[last].out.inst = y
                               /\ \A n \in DOMAIN t : n \in {1, last} \/ (n = 2 /\ Listed(y))
    <2>1. CASE Listed(y)
      <3>1. DOMAIN t = 1..3 /\ t[3].type = "reply" /\ t[3].out.fn = "__delete__" /\ t[3].out.inst = y
        BY <1>1, <1>4, <2>1
      <3> QED
        BY <2>1, <3>1
    <2>2. CASE ~Listed(y)
      <3>1. DOMAIN t = 1..2 /\ t[2].type = "reply" /\ t[2].out.fn = "__delete__" /\ t[2].out.inst = y
        BY <1>1, <1>4, <2>2
      <3> QED
        BY <2>2, <3>1
    <2> QED
      BY <2>1, <2>2
  <1>6. \A f : Subscribe(f).type = "subscribe" /\ Unsubscribe(f).type = "unsubscribe"
    BY PacketFields
  <1>7. Unsubscribe(InstanceFilter(x)) = Unsubscribe(InstanceFilter(y)) => x = y
    BY DEF Unsubscribe, InstanceFilter
  <1>8. Followed(x, t)
    <2>1. \A m \in DOMAIN t : t[m] # Subscribe(InstanceFilter(x))
      BY <1>2, <1>3, <1>5, <1>6
    <2>2. \A m \in DOMAIN t : t[m] = Unsubscribe(InstanceFilter(x)) => m = 1 /\ x = y
      BY <1>1, <1>2, <1>3, <1>5, <1>6, <1>7
    <2>3. x = y => Reports(t[last], "__delete__", x)
      BY <1>5 DEF Reports
    <2> QED
      BY <1>5, <2>1, <2>2, <2>3 DEF Followed
  <1>9. 1 \in DOMAIN t
    BY <1>1
  <1>10. ASSUME NEW n \in DOMAIN t
         PROVE  /\ ~Reports(t[n], "__createShared__", x)
                /\ Reports(t[n], "__delete__", x) => n > 1 /\ x = y
                /\ t[n].type # "subscribe"
                /\ t[n].type = "classInfo" => Listed(y) /\ t[n].instances = WithoutFirst(y)
    <2>1. CASE n = 1
      BY <1>2, <2>1 DEF Reports
    <2>2. CASE n = last
      BY <1>5, <2>2 DEF Reports
    <2>3. CASE n = 2 /\ Listed(y)
      BY <1>3, <2>3 DEF Reports
    <2> QED
      BY <1>5, <2>1, <2>2, <2>3
  <1> QED
    BY <1>1, <1>8, <1>9, <1>10 DEF t

(* A writing step keeps the invariant when its packets are as above. *)
LEMMA StreamsKnown ==
    ASSUME TypeOK, FiltersKnown, subs' = subs, NEW t \in Seq(Packets), up' = up \o t,
           \A n \in DOMAIN t : t[n].type = "subscribe" => Known(t[n].filter)
    PROVE  FiltersKnown'
  <1>1. \A n \in DOMAIN up' : (n \in DOMAIN up /\ up'[n] = up[n]) \/ (\E k \in DOMAIN t : up'[n] = t[k])
    BY ConcatAt DEF TypeOK
  <1> QED
    BY <1>1 DEF FiltersKnown

LEMMA QuietKeeps ==
    ASSUME DirectoryInv, [Next]_vars, QuietStep
    PROVE  FiltersKnown' /\ \A x \in Instances : (Followed(x, up) /\ CreatedOf(x) /\ DeletedOf(x))'
  <1>1. TypeOK /\ FiltersKnown /\ up \in Seq(Packets)
    BY DEF DirectoryInv, ReplyInv, TypeOK
  <1>2. PICK t \in Seq(Packets) : up' = up \o t /\ \A n \in DOMAIN t : Neutral(t[n])
    BY DEF QuietStep
  <1>3. instances' = instances /\ subs' = subs /\ retained' = retained /\ Delivered' \subseteq Delivered
    BY DEF QuietStep
  <1>4. FiltersKnown'
    <2>1. \A n \in DOMAIN t : t[n].type = "subscribe" => Known(t[n].filter)
      <3> SUFFICES ASSUME NEW p, Neutral(p), p.type = "subscribe"
                   PROVE  Known(p.filter)
        BY <1>2
      <3>1. PICK f \in StaticNames : p = Subscribe(StaticFilter(f))
        BY DEF Neutral, AgentInfo, ClassInfo
      <3> QED
        BY <3>1 DEF Subscribe, StaticFilter, Known
    <2> QED
      BY <1>1, <1>2, <1>3, <2>1, StreamsKnown
  <1>5. ASSUME NEW x \in Instances
        PROVE  Followed(x, up') /\ CreatedOf(x)' /\ DeletedOf(x)'
    <2>1. /\ Followed(x, t)
          /\ \A n \in DOMAIN t :
                /\ ~Reports(t[n], "__createShared__", x) /\ ~Reports(t[n], "__delete__", x)
                /\ t[n].type = "classInfo" => t[n].instances = instances
      BY <1>1, <1>2, <1>5, NeutralKinds
    <2>2. Followed(x, up')
      BY <1>1, <1>2, <2>1, FollowedConcat DEF DirectoryInv
    <2>3. Listed(x) => Listed(x)' /\ Has(instances, x)
      BY <1>3 DEF Listed, Has
    <2>4. CreatedOf(x)'
      BY <1>2, <1>3, <2>1, <2>3, CreatedWrites
    <2>5. DeletedOf(x)'
      BY <1>2, <1>3, <2>1, DeletedWrites
    <2> QED
      BY <2>2, <2>4, <2>5
  <1> QED
    BY <1>4, <1>5

LEMMA CreateKeeps ==
    ASSUME DirectoryInv, [Next]_vars, NEW y \in Instances, CreateStep(y)
    PROVE  FiltersKnown' /\ \A x \in Instances : (Followed(x, up) /\ CreatedOf(x) /\ DeletedOf(x))'
  <1>1. TypeOK /\ FiltersKnown /\ up \in Seq(Packets) /\ instances \in Seq(Instances)
    BY DEF DirectoryInv, ReplyInv, TypeOK
  <1>2. PICK j \in Contexts : up' = up \o CreatePackets(y, j)
    BY DEF CreateStep
  <1> DEFINE t == CreatePackets(y, j)
  <1>3. /\ instances' = Append(instances, y) /\ subs' = subs /\ retained' = retained
        /\ inbox' = inbox /\ got' = got
    BY DEF CreateStep, brokerVars, clientVars
  <1>4. t \in Seq(Packets) /\ Delivered' \subseteq Delivered
    BY <1>1, <1>2, <1>3, PacketTypes, DeliveredFrame
  <1>5. FiltersKnown'
    BY <1>1, <1>2, <1>3, <1>4, CreateKinds, StreamsKnown
  <1>6. /\ DOMAIN t = 1..3 /\ t[1] = Subscribe(InstanceFilter(y))
        /\ t[2] = ClassInfo(Append(instances, y))
        /\ t[3] = Reply(j, Outcome("created", "__createShared__", y))
    BY CreatePacketsAt
  <1>7. ASSUME NEW x \in Instances
        PROVE  Followed(x, up') /\ CreatedOf(x)' /\ DeletedOf(x)'
    <2>1. /\ Followed(x, t)
          /\ \A n \in DOMAIN t :
                /\ ~Reports(t[n], "__delete__", x)
                /\ Reports(t[n], "__createShared__", x) => n = 3 /\ x = y
                /\ t[n].type = "classInfo" => t[n].instances = instances'
      BY <1>3, CreateKinds
    <2> HIDE DEF t
    <2>2. Followed(x, up')
      BY <1>1, <1>2, <1>4, <2>1, FollowedConcat DEF DirectoryInv, t
    <2>3. /\ Listed(x) \/ x = y => Has(instances', x)
          /\ Has(instances', x) <=> Listed(x)'
      <3>1. /\ DOMAIN instances' = DOMAIN instances \cup {Len(instances) + 1}
            /\ instances'[Len(instances) + 1] = y
            /\ \A n \in DOMAIN instances : instances'[n] = instances[n]
        BY <1>1, <1>3
      <3> QED
        BY <3>1 DEF Listed, Has
    <2>4. ASSUME x = y
          PROVE  Settled(x, Len(up) + 3, up', subs', retained'.instances)
      <3> DEFINE N == Len(up)
      <3>1. /\ N \in Nat /\ DOMAIN up' = 1..(N + 3)
            /\ up'[N + 1] = t[1] /\ up'[N + 2] = t[2] /\ up'[N + 3] = t[3]
        <4>1. N \in Nat /\ Len(t) = 3 /\ up' = up \o t
          BY <1>1, <1>2, <1>4, <1>6 DEF t
        <4>2. DOMAIN up' = 1..(N + Len(t)) /\ \A n \in DOMAIN t : up'[N + n] = t[n]
          <5>1. up \in Seq(Packets) /\ t \in Seq(Packets)
            BY <1>1, <1>4
          <5>2. /\ DOMAIN (up \o t) = 1..(Len(up) + Len(t))
                /\ \A n \in DOMAIN t : (up \o t)[Len(up) + n] = t[n]
            BY <5>1, ConcatAt
          <5> QED
            BY <4>1, <5>2
        <4> QED
          BY <1>6, <4>1, <4>2
      <3> HIDE DEF N
      <3>2. up'[N + 1] = Subscribe(InstanceFilter(x)) /\ N + 1 \in 1..(N + 3)
        BY <1>6, <2>4, <3>1
      <3>3. up'[N + 2].type = "classInfo" /\ Has(up'[N + 2].instances, x)
        <4>1. t[2].type = "classInfo"
          BY <1>6 DEF ClassInfo
        <4>2. t[2].instances = instances'
          BY <1>6, <2>1, <4>1
        <4> QED
          BY <2>3, <2>4, <3>1, <4>1, <4>2
      <3>4. \A m \in DOMAIN up' : m > N + 2 => up'[m].type # "classInfo"
        <4>1. t[3].type = "reply"
          BY <1>6 DEF Reply
        <4>2. \A m \in DOMAIN up' : m > N + 2 => m = N + 3
          BY <3>1
        <4> QED
          BY <3>1, <4>1, <4>2
      <3>5. N + 2 \in 0..(N + 3) /\ N + 2 # 0
        BY <3>1
      <3> DEFINE b == N + 2
      <3> HIDE DEF b
      <3>6. /\ b \in 0..(N + 3)
            /\ IF b = 0 THEN Has(retained'.instances, x)
                        ELSE up'[b].type = "classInfo" /\ Has(up'[b].instances, x)
            /\ \A m \in DOMAIN up' : m > b /\ up'[m].type = "classInfo" => Has(up'[m].instances, x)
        BY <3>3, <3>4, <3>5 DEF b
      <3> QED
        BY <3>2, <3>6 DEF Settled, N
    <2>5. CreatedOf(x)'
      <3>1. \A n \in DOMAIN t : Reports(t[n], "__createShared__", x)
              => Listed(x)' /\ Settled(x, Len(up) + n, up', subs', retained'.instances)
        BY <2>1, <2>3, <2>4
      <3>2. Listed(x) /\ ~Takes("__delete__", x)
              => /\ Listed(x)'
                 /\ \A m \in DOMAIN t : t[m].type = "classInfo" => Has(t[m].instances, x)
        BY <2>1, <2>3
      <3> QED
        BY <1>2, <1>3, <1>4, <3>1, <3>2, CreatedWrites DEF t
    <2>6. DeletedOf(x)'
      BY <1>2, <1>3, <1>4, <2>1, DeletedWrites DEF t
    <2> QED
      BY <2>2, <2>5, <2>6
  <1> QED
    BY <1>5, <1>7

LEMMA DeleteKeeps ==
    ASSUME DirectoryInv, [Next]_vars, NEW y \in Instances, DeleteStep(y)
    PROVE  FiltersKnown' /\ \A x \in Instances : (Followed(x, up) /\ CreatedOf(x) /\ DeletedOf(x))'
  <1>1. TypeOK /\ FiltersKnown /\ up \in Seq(Packets)
    BY DEF DirectoryInv, ReplyInv, TypeOK
  <1>2. PICK j \in Contexts : up' = up \o DeletePackets(y, j)
    BY DEF DeleteStep
  <1> DEFINE t == DeletePackets(y, j)
  <1>3. /\ instances' = (IF Listed(y) THEN WithoutFirst(y) ELSE instances)
        /\ subs' = subs /\ retained' = retained /\ inbox' = inbox /\ got' = got
        /\ Takes("__delete__", y)
    BY DEF DeleteStep, brokerVars, clientVars
  <1>4. t \in Seq(Packets) /\ Delivered' \subseteq Delivered
    BY <1>1, <1>2, <1>3, PacketTypes, DeliveredFrame
  <1>5. FiltersKnown'
    <2>1. \A n \in DOMAIN t : t[n].type # "subscribe"
      BY DeleteKinds
    <2> QED
      BY <1>1, <1>2, <1>3, <1>4, <2>1, StreamsKnown
  <1>6. ASSUME NEW x \in Instances
        PROVE  Followed(x, up') /\ CreatedOf(x)' /\ DeletedOf(x)'
    <2>1. /\ Followed(x, t)
          /\ 1 \in DOMAIN t /\ t[1] = Unsubscribe(InstanceFilter(y))
          /\ \A n \in DOMAIN t :
                /\ ~Reports(t[n], "__createShared__", x)
                /\ Reports(t[n], "__delete__", x) => n > 1 /\ x = y
                /\ t[n].type = "classInfo" => Listed(y) /\ t[n].instances = WithoutFirst(y)
      BY DeleteKinds
    <2> HIDE DEF t
    <2>2. Followed(x, up')
      BY <1>1, <1>2, <1>4, <2>1, FollowedConcat DEF DirectoryInv, t
    <2>3. Listed(x) /\ x # y => Has(instances', x) /\ Listed(x)'
      BY <1>1, <1>3, WithoutFirstKeeps DEF Listed, Has
    <2>4. CreatedOf(x)'
      <3>1. Listed(x) /\ ~Takes("__delete__", x)
              => /\ Listed(x)'
                 /\ \A m \in DOMAIN t : t[m].type = "classInfo" => Has(t[m].instances, x)
        BY <1>3, <2>1, <2>3
      <3> QED
        BY <1>2, <1>3, <1>4, <2>1, <3>1, CreatedWrites DEF t
    <2>5. ASSUME NEW n \in DOMAIN t, Reports(t[n], "__delete__", x)
          PROVE  Gone(x, Len(up) + n, up', subs')
      <3>1. up'[Len(up) + 1] = Unsubscribe(InstanceFilter(x))
        BY <1>1, <1>2, <1>4, <2>1, <2>5, ConcatAt DEF t
      <3>2. Len(up) + 1 \in 1..(Len(up) + n)
        BY <1>1, <1>4, <2>1, <2>5
      <3> QED
        BY <3>1, <3>2 DEF Gone
    <2>6. DeletedOf(x)'
      BY <1>2, <1>3, <1>4, <2>5, DeletedWrites DEF t
    <2> QED
      BY <2>2, <2>4, <2>6
  <1> QED
    BY <1>5, <1>6

LEMMA BrokerKeeps ==
    ASSUME DirectoryInv, [Next]_vars, BrokerReads
    PROVE  FiltersKnown' /\ \A x \in Instances : (Followed(x, up) /\ CreatedOf(x) /\ DeletedOf(x))'
  <1>1. TypeOK /\ FiltersKnown
    BY DEF DirectoryInv, ReplyInv
  <1>2. /\ up \in Seq(Packets) /\ up # <<>> /\ up' = Tail(up)
        /\ subs' \subseteq subs \/ (Head(up).type = "subscribe" /\ subs' \subseteq subs \cup {Head(up).filter})
    BY <1>1, BrokerEffect
  <1>3. /\ \A n \in DOMAIN up' : n + 1 \in DOMAIN up /\ up'[n] = up[n + 1]
        /\ Head(up) = up[1] /\ 1 \in DOMAIN up
    BY <1>2, TailAt
  <1>4. FiltersKnown'
    BY <1>1, <1>2, <1>3 DEF FiltersKnown
  <1>5. ASSUME NEW x \in Instances
        PROVE  Followed(x, up') /\ CreatedOf(x)' /\ DeletedOf(x)'
    <2>1. Followed(x, up')
      BY <1>2, FollowedTail DEF DirectoryInv
    <2> QED
      BY <2>1, CreatedReads, DeletedReads
  <1> QED
    BY <1>4, <1>5

LEMMA DirectoryInvInit == Init => DirectoryInv
  <1> SUFFICES ASSUME Init
               PROVE  DirectoryInv
    OBVIOUS
  <1>1. ReplyInv
    BY ReplyInvInit
  <1>2. DOMAIN up = {} /\ DOMAIN got = {} /\ DOMAIN calls = {} /\ subs = {}
        /\ \A c \in Clients : DOMAIN inbox[c] = {}
    BY DEF Init
  <1>3. Delivered = {}
    BY <1>2 DEF Delivered, RepliesIn
  <1> QED
    BY <1>1, <1>2, <1>3 DEF DirectoryInv, AfterAnswered, FiltersKnown, Followed, CreatedOf, DeletedOf

LEMMA DirectoryInvNext == DirectoryInv /\ [Next]_vars => DirectoryInv'
  <1> SUFFICES ASSUME DirectoryInv, [Next]_vars
               PROVE  DirectoryInv'
    OBVIOUS
  <1>1. ReplyInv'
    BY ReplyInvNext DEF DirectoryInv
  <1>2. AfterAnswered'
    BY CallsGrow DEF DirectoryInv, ReplyInv, AfterAnswered
  <1>3. FiltersKnown' /\ \A x \in Instances : (Followed(x, up) /\ CreatedOf(x) /\ DeletedOf(x))'
    BY Effects, QuietKeeps, CreateKeeps, DeleteKeeps, BrokerKeeps DEF DirectoryInv, ReplyInv
  <1> QED
    BY <1>1, <1>2, <1>3 DEF DirectoryInv

LEMMA ToldIsTrue == DirectoryInv => CreatedIsUsable /\ DeletedIsUnreachable
  <1> SUFFICES ASSUME DirectoryInv
               PROVE  CreatedIsUsable /\ DeletedIsUnreachable
    OBVIOUS
  <1>1. \A n \in DOMAIN got : got[n].type = "reply" /\ got[n] \in Delivered
    <2>1. \A n \in DOMAIN got : got[n].type = "reply"
      BY AnsweredNumbers DEF DirectoryInv, ReplyInv
    <2> QED
      BY <2>1 DEF Delivered, RepliesIn
  <1>2. ASSUME NEW x \in Instances, NEW n \in ReceivedFor("__createShared__", x),
               Issued("__delete__", x) \subseteq calls[got[n].i].after
        PROVE  Subscribed(x, "call") /\ \E k \in DOMAIN retained.instances : retained.instances[k] = x
    <2>1. Settled(x, 0, up, subs, retained.instances)
      BY <1>1, <1>2 DEF DirectoryInv, CreatedOf, ReceivedFor, Reports, Quieted
    <2>2. InstanceFilter(x) \in subs /\ Has(retained.instances, x)
      BY <2>1 DEF Settled
    <2> QED
      BY <2>2 DEF Subscribed, InstanceFilter, Has
  <1>3. ASSUME NEW x \in Instances, NEW n \in ReceivedFor("__delete__", x),
               Issued("__createShared__", x) \subseteq calls[got[n].i].after
        PROVE  ~Subscribed(x, "call")
    <2>1. Gone(x, 0, up, subs)
      BY <1>1, <1>3 DEF DirectoryInv, DeletedOf, ReceivedFor, Reports, Quieted
    <2>2. InstanceFilter(x) \notin subs
      BY <2>1 DEF Gone
    <2>3. <<x, "call">> \notin subs
      BY InstancesAssumption DEF DirectoryInv, FiltersKnown, Known
    <2> QED
      BY <2>2, <2>3 DEF Subscribed, InstanceFilter
  <1> QED
    BY <1>2, <1>3 DEF CreatedIsUsable, DeletedIsUnreachable

(* A client that is told of a creation no deletion interferes with finds   *)
(* the instance announced and subscribed to: the reply overtakes neither.  *)
THEOREM CreatedUsable == Spec => []CreatedIsUsable
  <1>1. DirectoryInv => CreatedIsUsable
    BY ToldIsTrue
  <1> QED
    BY <1>1, DirectoryInvInit, DirectoryInvNext, PTL DEF Spec

(* A client that is told the outcome of a deletion no creation interferes  *)
(* with knows that no call of the instance reaches the agent any more.     *)
THEOREM DeletedUnreachable == Spec => []DeletedIsUnreachable
  <1>1. DirectoryInv => DeletedIsUnreachable
    BY ToldIsTrue
  <1> QED
    BY <1>1, DirectoryInvInit, DirectoryInvNext, PTL DEF Spec

----------------------------------------------------------------------------
(* Clients that race to delete: every deletion that is confirmed used up a *)
(* creation.                                                               *)

(* The calls whose reply confirms a deletion of x, the entries of x in the *)
(* list, and the creations of x that wait for the agent.                   *)
Deletions(x) == {p.i : p \in {r \in AllReplies : r.out.tag = "deleted" /\ r.out.inst = x}}
Held(x)      == {n \in DOMAIN instances : instances[n] = x}
Pending(x)   == {down[m].i : m \in {n \in DOMAIN down : down[n].f = "__createShared__" /\ down[n].a = x}}

Balance(x) ==
    Cardinality(Deletions(x)) + Cardinality(Held(x)) + Cardinality(Pending(x))
      <= Cardinality(Issued("__createShared__", x))

DeletionInv == ReplyInv /\ \A x \in Instances : Balance(x)

LEMMA BalanceFinite ==
    ASSUME ReplyInv, NEW x
    PROVE  /\ IsFiniteSet(Deletions(x)) /\ IsFiniteSet(Held(x)) /\ IsFiniteSet(Pending(x))
           /\ IsFiniteSet(Issued("__createShared__", x))
           /\ Deletions(x) \subseteq DOMAIN calls /\ Pending(x) \subseteq DOMAIN calls
           /\ Issued("__createShared__", x) \subseteq DOMAIN calls
  <1>1. IsFiniteSet(DOMAIN calls) /\ IsFiniteSet(DOMAIN instances)
    <2>1. /\ DOMAIN calls = 1..Len(calls) /\ Len(calls) \in Nat
          /\ DOMAIN instances = 1..Len(instances) /\ Len(instances) \in Nat
      BY DEF ReplyInv, TypeOK
    <2> QED
      BY <2>1, FS_Interval
  <1>2. Deletions(x) \subseteq DOMAIN calls
    BY DEF Deletions, ReplyInv, RepliesAnswerTheirCalls
  <1>3. Pending(x) \subseteq DOMAIN calls
    BY DEF Pending, ReplyInv, CallInv, QueueKnown
  <1>4. Held(x) \subseteq DOMAIN instances /\ Issued("__createShared__", x) \subseteq DOMAIN calls
    BY DEF Held, Issued
  <1> QED
    BY <1>1, <1>2, <1>3, <1>4, FS_Subset

(* The same of the next state. *)
LEMMA BalanceFiniteNext ==
    ASSUME ReplyInv', NEW x
    PROVE  /\ IsFiniteSet(Deletions(x)') /\ IsFiniteSet(Held(x)') /\ IsFiniteSet(Pending(x)')
           /\ IsFiniteSet(Issued("__createShared__", x)')
  <1>1. /\ DOMAIN calls' = 1..Len(calls') /\ Len(calls') \in Nat
        /\ DOMAIN instances' = 1..Len(instances') /\ Len(instances') \in Nat
    BY DEF ReplyInv, TypeOK
  <1>2. IsFiniteSet(DOMAIN calls') /\ IsFiniteSet(DOMAIN instances')
    BY <1>1, FS_Interval
  <1>3. Deletions(x)' \subseteq DOMAIN calls'
    BY DEF Deletions, ReplyInv, RepliesAnswerTheirCalls
  <1>4. Pending(x)' \subseteq DOMAIN calls'
    BY DEF Pending, ReplyInv, CallInv, QueueKnown
  <1>5. Held(x)' \subseteq DOMAIN instances' /\ Issued("__createShared__", x)' \subseteq DOMAIN calls'
    BY DEF Held, Issued
  <1> QED
    BY <1>2, <1>3, <1>4, <1>5, FS_Subset

(* Steps under which no side of the balance grows but the creations. *)
LEMMA BalanceFrame ==
    ASSUME ReplyInv, ReplyInv', NEW x, Balance(x),
           Deletions(x)' \subseteq Deletions(x), Cardinality(Held(x)') <= Cardinality(Held(x)),
           Pending(x)' \subseteq Pending(x),
           Issued("__createShared__", x) \subseteq Issued("__createShared__", x)'
    PROVE  Balance(x)'
  <1> DEFINE D == Cardinality(Deletions(x))
             D2 == Cardinality(Deletions(x)')
             H == Cardinality(Held(x))
             H2 == Cardinality(Held(x)')
             P == Cardinality(Pending(x))
             P2 == Cardinality(Pending(x)')
             I == Cardinality(Issued("__createShared__", x))
             I2 == Cardinality(Issued("__createShared__", x)')
  <1>1. D \in Nat /\ D2 \in Nat /\ H \in Nat /\ H2 \in Nat /\ P \in Nat /\ P2 \in Nat
        /\ I \in Nat /\ I2 \in Nat
    BY BalanceFinite, BalanceFiniteNext, FS_CardinalityType
  <1>2. D2 <= D /\ P2 <= P /\ I <= I2
    BY BalanceFinite, BalanceFiniteNext, FS_Subset
  <1>3. D + H + P <= I /\ H2 <= H
    BY DEF Balance
  <1> HIDE DEF D, D2, H, H2, P, P2, I, I2
  <1>4. D2 + H2 + P2 <= I2
    BY <1>1, <1>2, <1>3
  <1> QED
    BY <1>4 DEF Balance, D2, H2, P2, I2

(* Erasing the first entry of y takes one entry of y and none of another   *)
(* name: the entries left are mapped back to where they were.              *)
LEMMA ErasedHeld ==
    ASSUME ReplyInv, NEW y, Listed(y), instances' = WithoutFirst(y), NEW x
    PROVE  Cardinality(Held(x)') <= Cardinality(Held(x)) - (IF x = y THEN 1 ELSE 0)
  <1> DEFINE N == Len(instances)
  <1>1. TypeOK /\ IsFiniteSet(Held(x)) /\ Cardinality(Held(x)) \in Nat
    BY BalanceFinite, FS_CardinalityType DEF ReplyInv
  <1>2. PICK k \in DOMAIN instances :
              /\ instances[k] = y
              /\ N \in Nat /\ DOMAIN instances = 1..N /\ DOMAIN instances' = 1..(N - 1)
              /\ \A n \in 1..(k - 1) : instances'[n] = instances[n]
              /\ \A n \in k..(N - 1) : instances'[n] = instances[n + 1]
    BY <1>1, WithoutFirstAt
  <1> HIDE DEF N
  <1> DEFINE f == [n \in Held(x)' |-> IF n < k THEN n ELSE n + 1]
             T == Held(x) \ {k}
  <1>3. ASSUME NEW n \in Held(x)'
        PROVE  n \in 1..(N - 1) /\ (IF n < k THEN n ELSE n + 1) \in T
    <2>1. n \in 1..(N - 1) /\ instances'[n] = x
      BY <1>2, <1>3 DEF Held
    <2>2. CASE n < k
      <3>1. n \in 1..(k - 1) /\ n \in 1..N /\ n # k
        BY <1>2, <2>1, <2>2
      <3> QED
        BY <1>2, <2>1, <2>2, <3>1 DEF Held
    <2>3. CASE ~(n < k)
      <3>1. n \in k..(N - 1) /\ n + 1 \in 1..N /\ n + 1 # k
        BY <1>2, <2>1, <2>3
      <3>2. instances[n + 1] = x
        BY <1>2, <2>1, <3>1
      <3> QED
        BY <1>2, <2>1, <2>3, <3>1, <3>2 DEF Held
    <2> QED
      BY <2>2, <2>3
  <1>4. f \in [Held(x)' -> T]
    BY <1>3
  <1>5. \A m, n \in Held(x)' : f[m] = f[n] => m = n
    <2> SUFFICES ASSUME NEW m \in Held(x)', NEW n \in Held(x)', f[m] = f[n]
                 PROVE  m = n
      OBVIOUS
    <2>1. m \in Int /\ n \in Int /\ k \in Int
      BY <1>2, <1>3
    <2>2. (IF m < k THEN m ELSE m + 1) = (IF n < k THEN n ELSE n + 1)
      OBVIOUS
    <2> QED
      BY <2>1, <2>2
  <1>6. f \in Injection(Held(x)', T)
    <2> HIDE DEF f
    <2>1. DOMAIN f = Held(x)'
      BY <1>4
    <2> QED
      BY <1>4, <1>5, <2>1 DEF Injection, IsInjective
  <1> HIDE DEF f
  <1>7. IsFiniteSet(T) /\ Cardinality(T) = IF k \in Held(x) THEN Cardinality(Held(x)) - 1
                                           ELSE Cardinality(Held(x))
    BY <1>1, FS_RemoveElement
  <1>8. Cardinality(Held(x)') <= Cardinality(T)
    BY <1>6, <1>7, FS_Injection
  <1>9. k \in Held(x) <=> x = y
    BY <1>2 DEF Held
  <1>10. Cardinality(T) = Cardinality(Held(x)) - (IF x = y THEN 1 ELSE 0)
    BY <1>1, <1>7, <1>9
  <1> QED
    BY <1>8, <1>10

LEMMA AllRepliesAre == AllReplies = RepliesIn(up) \cup Delivered
  BY DEF AllReplies, Delivered

(* What a step may do to the queue of the agent. *)
LEMMA QueueSteps ==
    ASSUME TypeOK, [Next]_vars, ~\E c \in Clients : ClientCalls(c)
    PROVE  /\ down' = down \/ (down # <<>> /\ down' = Tail(down))
           /\ calls' = calls
  BY DEF Next, vars, HandleConnack, HandlePublish, RequestWaiting, ExecutionDone, ChildDies,
         ChildQuits, BrokerReads, ClientReceives, clientVars

LEMMA PendingShrinks ==
    ASSUME TypeOK, down' = down \/ (down # <<>> /\ down' = Tail(down)), NEW x
    PROVE  Pending(x)' \subseteq Pending(x)
  <1>1. \A n \in DOMAIN down' : \E m \in DOMAIN down : down'[n] = down[m]
    <2>1. CASE down' = down
      BY <2>1
    <2>2. CASE down # <<>> /\ down' = Tail(down)
      <3>1. down \in Seq(Requests)
        BY DEF TypeOK
      <3>2. \A n \in DOMAIN Tail(down) : n + 1 \in DOMAIN down /\ Tail(down)[n] = down[n + 1]
        BY <2>2, <3>1, TailAt
      <3> QED
        BY <2>2, <3>2
    <2> QED
      BY <2>1, <2>2
  <1> QED
    BY <1>1 DEF Pending

(* Handling a creation takes it out of those pending. *)
LEMMA PendingHandled ==
    ASSUME ReplyInv, NEW x, Handles("__createShared__", x)
    PROVE  /\ Head(down).i \in Pending(x)
           /\ Pending(x)' \subseteq Pending(x) \ {Head(down).i}
  <1>1. TypeOK /\ OncePerPlace /\ down # <<>> /\ down' = Tail(down) /\ down \in Seq(Requests)
    BY DEF ReplyInv, Handles, TypeOK
  <1>2. Head(down) = down[1] /\ 1 \in DOMAIN down
    BY <1>1, TailAt
  <1>3. Head(down).i \in Pending(x)
    BY <1>2 DEF Handles, Pending
  <1>4. Pending(x)' \subseteq Pending(x)
    BY <1>1, PendingShrinks
  <1>5. Head(down).i \notin Waiting'
    BY <1>1, DownShrinks
  <1>6. Pending(x)' \subseteq Waiting'
    BY DEF Pending, Waiting
  <1> QED
    BY <1>3, <1>4, <1>5, <1>6

(* Replies that a step brings. *)
LEMMA DeletionsWritten ==
    ASSUME TypeOK, NEW t \in Seq(Packets), up' = up \o t, Delivered' \subseteq Delivered,
           NEW x, NEW I,
           \A n \in DOMAIN t :
              t[n].type = "reply" /\ t[n].out.tag = "deleted" /\ t[n].out.inst = x => t[n].i \in I
    PROVE  Deletions(x)' \subseteq Deletions(x) \cup I
  <1>1. RepliesIn(up') \subseteq RepliesIn(up) \cup RepliesIn(t)
    BY RepliesInConcat DEF TypeOK
  <1>2. AllReplies = RepliesIn(up) \cup Delivered
    BY AllRepliesAre
  <1>3. AllReplies' = RepliesIn(up') \cup Delivered'
    BY DEF AllReplies, Delivered
  <1>4. \A p \in RepliesIn(t) : p.out.tag = "deleted" /\ p.out.inst = x => p.i \in I
    BY DEF RepliesIn
  <1>5. \A p \in AllReplies' : p \in AllReplies \/ p \in RepliesIn(t)
    BY <1>1, <1>2, <1>3
  <1> QED
    BY <1>4, <1>5 DEF Deletions

LEMMA DeletionsRead ==
    ASSUME TypeOK, BrokerReads, NEW x
    PROVE  Deletions(x)' \subseteq Deletions(x)
  <1>1. /\ up \in Seq(Packets) /\ up # <<>> /\ up' = Tail(up)
        /\ \A r \in Delivered' : r \in Delivered \/ (r = Head(up) /\ Head(up).type = "reply")
    BY BrokerEffect
  <1>2. RepliesIn(up') \subseteq RepliesIn(up)
    BY <1>1, RepliesInTail
  <1>3. Head(up).type = "reply" => Head(up) \in RepliesIn(up)
    <2>1. Head(up) = up[1] /\ 1 \in DOMAIN up
      BY <1>1, TailAt
    <2> QED
      BY <2>1 DEF RepliesIn
  <1>4. AllReplies = RepliesIn(up) \cup Delivered
    BY AllRepliesAre
  <1>5. AllReplies' = RepliesIn(up') \cup Delivered'
    BY DEF AllReplies, Delivered
  <1>6. \A p \in AllReplies' : p \in AllReplies
    BY <1>1, <1>2, <1>3, <1>4, <1>5
  <1> QED
    BY <1>6 DEF Deletions

(* Issuing a request adds at most itself to what is pending, and then to   *)
(* the creations issued.                                                   *)
LEMMA BalanceIssue ==
    ASSUME ReplyInv, ReplyInv', NEW c \in Clients, ClientCalls(c), NEW x, Balance(x)
    PROVE  Balance(x)'
  <1>1. PICK q : /\ q.i = Len(calls) + 1 /\ calls' = Append(calls, q)
                 /\ down' = Append(down, q) \/ down' = down
    BY DEF ClientCalls
  <1>2. instances' = instances /\ up' = up /\ inbox' = inbox /\ got' = got
    BY DEF ClientCalls, agentVars, brokerVars
  <1>3. Deletions(x)' = Deletions(x) /\ Held(x)' = Held(x)
    BY <1>2 DEF Deletions, AllReplies, Held
  <1>4. calls \in Seq(Requests) /\ down \in Seq(Requests)
    BY DEF ReplyInv, TypeOK
  <1>5. /\ DOMAIN calls' = DOMAIN calls \cup {q.i} /\ calls'[q.i] = q /\ q.i \notin DOMAIN calls
        /\ \A n \in DOMAIN calls : calls'[n] = calls[n]
    BY <1>1, <1>4
  <1>6. \A n \in DOMAIN down' : (n \in DOMAIN down /\ down'[n] = down[n]) \/ down'[n] = q
    BY <1>1, <1>4
  <1>7. CASE q.f = "__createShared__" /\ q.a = x
    <2>1. Pending(x)' \subseteq Pending(x) \cup {q.i}
      BY <1>6 DEF Pending
    <2>2. Issued("__createShared__", x)' = Issued("__createShared__", x) \cup {q.i}
      BY <1>5, <1>7 DEF Issued
    <2> DEFINE D == Cardinality(Deletions(x))
               H == Cardinality(Held(x))
               P == Cardinality(Pending(x))
               P2 == Cardinality(Pending(x)')
               I == Cardinality(Issued("__createShared__", x))
               I2 == Cardinality(Issued("__createShared__", x)')
    <2>3. D \in Nat /\ H \in Nat /\ P \in Nat /\ P2 \in Nat /\ I \in Nat /\ I2 \in Nat
      BY BalanceFinite, BalanceFiniteNext, FS_CardinalityType
    <2>4. P2 <= P + 1
      <3>1. IsFiniteSet(Pending(x) \cup {q.i}) /\ Cardinality(Pending(x) \cup {q.i}) \in {P, P + 1}
        BY BalanceFinite, FS_AddElement
      <3>2. P2 <= Cardinality(Pending(x) \cup {q.i})
        BY <2>1, <3>1, FS_Subset
      <3> HIDE DEF P, P2
      <3> QED
        BY <2>3, <3>1, <3>2
    <2>5. I2 = I + 1
      <3>1. q.i \notin Issued("__createShared__", x) /\ IsFiniteSet(Issued("__createShared__", x))
        BY <1>5, BalanceFinite
      <3> QED
        BY <2>2, <3>1, FS_AddElement
    <2>6. D + H + P <= I
      BY DEF Balance
    <2> HIDE DEF D, H, P, P2, I, I2
    <2>7. D + H + P2 <= I2
      BY <2>3, <2>4, <2>5, <2>6
    <2> QED
      BY <1>3, <2>7 DEF Balance, D, H, P2, I2
  <1>8. CASE ~(q.f = "__createShared__" /\ q.a = x)
    <2>1. Pending(x)' \subseteq Pending(x)
      BY <1>6, <1>8 DEF Pending
    <2>2. Issued("__createShared__", x) \subseteq Issued("__createShared__", x)'
      BY <1>5 DEF Issued
    <2>3. Cardinality(Held(x)') <= Cardinality(Held(x))
      BY <1>3, BalanceFinite, FS_CardinalityType
    <2> QED
      BY <1>3, <2>1, <2>2, <2>3, BalanceFrame
  <1> QED
    BY <1>7, <1>8

(* A creation moves from pending into the list. *)
LEMMA BalanceCreate ==
    ASSUME ReplyInv, ReplyInv', NEW y \in Instances, CreateStep(y), NEW x, Balance(x)
    PROVE  Balance(x)'
  <1>1. TypeOK /\ up \in Seq(Packets) /\ instances \in Seq(Instances)
    BY DEF ReplyInv, TypeOK
  <1>2. PICK j \in Contexts : up' = up \o CreatePackets(y, j)
    BY DEF CreateStep
  <1>3. /\ instances' = Append(instances, y) /\ inbox' = inbox /\ got' = got /\ calls' = calls
        /\ Handles("__createShared__", y)
    BY DEF CreateStep, brokerVars, clientVars
  <1>4. Deletions(x)' \subseteq Deletions(x)
    <2> DEFINE t == CreatePackets(y, j)
    <2>1. t \in Seq(Packets) /\ Delivered' \subseteq Delivered
      BY <1>1, <1>2, <1>3, PacketTypes, DeliveredFrame
    <2>2. /\ DOMAIN t = 1..3 /\ t[1].type = "subscribe" /\ t[2].type = "classInfo"
          /\ t[3].out.tag = "created"
      <3>1. /\ t[1] = Subscribe(InstanceFilter(y)) /\ DOMAIN t = 1..3
            /\ t[2] = ClassInfo(Append(instances, y))
            /\ t[3] = Reply(j, Outcome("created", "__createShared__", y))
        BY CreatePacketsAt
      <3> HIDE DEF t
      <3>2. t[2].type = "classInfo"
        BY <3>1 DEF ClassInfo
      <3> QED
        BY <3>1, <3>2, PacketFields
    <2> HIDE DEF t
    <2>3. \A n \in DOMAIN t :
             t[n].type = "reply" /\ t[n].out.tag = "deleted" /\ t[n].out.inst = x => t[n].i \in {}
      <3>1. \A n \in DOMAIN t : n \in {1, 2, 3}
        BY <2>2
      <3> QED
        BY <2>2, <3>1
    <2>4. Deletions(x)' \subseteq Deletions(x) \cup {}
      BY <1>1, <1>2, <2>1, <2>3, DeletionsWritten DEF t
    <2> QED
      BY <2>4
  <1>5. Pending(x)' \subseteq Pending(x)
    BY <1>1, <1>3, PendingShrinks DEF Handles
  <1>6. Issued("__createShared__", x)' = Issued("__createShared__", x)
    BY <1>3 DEF Issued
  <1>7. /\ DOMAIN instances' = DOMAIN instances \cup {Len(instances) + 1}
        /\ instances'[Len(instances) + 1] = y
        /\ \A n \in DOMAIN instances : instances'[n] = instances[n]
    BY <1>1, <1>3
  <1>8. CASE x # y
    <2>1. Held(x)' = Held(x)
      BY <1>7, <1>8 DEF Held
    <2>2. Cardinality(Held(x)') <= Cardinality(Held(x))
      BY <2>1, BalanceFinite, FS_CardinalityType
    <2> QED
      BY <1>4, <1>5, <1>6, <2>2, BalanceFrame
  <1>9. CASE x = y
    <2> DEFINE D == Cardinality(Deletions(x))
               D2 == Cardinality(Deletions(x)')
               H == Cardinality(Held(x))
               H2 == Cardinality(Held(x)')
               P == Cardinality(Pending(x))
               P2 == Cardinality(Pending(x)')
               I == Cardinality(Issued("__createShared__", x))
    <2>1. D \in Nat /\ D2 \in Nat /\ H \in Nat /\ H2 \in Nat /\ P \in Nat /\ P2 \in Nat /\ I \in Nat
      BY BalanceFinite, BalanceFiniteNext, FS_CardinalityType
    <2>2. D2 <= D
      BY <1>4, BalanceFinite, FS_Subset
    <2>3. H2 <= H + 1
      <3>1. Held(x)' \subseteq Held(x) \cup {Len(instances) + 1}
        BY <1>7 DEF Held
      <3>2. /\ IsFiniteSet(Held(x) \cup {Len(instances) + 1})
            /\ Cardinality(Held(x) \cup {Len(instances) + 1}) \in {H, H + 1}
        BY BalanceFinite, FS_AddElement
      <3>3. H2 <= Cardinality(Held(x) \cup {Len(instances) + 1})
        BY <3>1, <3>2, FS_Subset
      <3> HIDE DEF H, H2
      <3> QED
        BY <2>1, <3>2, <3>3
    <2>4. P2 <= P - 1
      <3> DEFINE i == Head(down).i
      <3>1. i \in Pending(x) /\ Pending(x)' \subseteq Pending(x) \ {i}
        BY <1>3, <1>9, PendingHandled
      <3>2. IsFiniteSet(Pending(x) \ {i}) /\ Cardinality(Pending(x) \ {i}) = P - 1
        BY <3>1, BalanceFinite, FS_RemoveElement
      <3> QED
        BY <3>1, <3>2, FS_Subset
    <2>5. D + H + P <= I
      BY DEF Balance
    <2> HIDE DEF D, D2, H, H2, P, P2, I
    <2>6. D2 + H2 + P2 <= I
      BY <2>1, <2>2, <2>3, <2>4, <2>5
    <2> QED
      BY <1>6, <2>6 DEF Balance, D2, H2, P2, I
  <1> QED
    BY <1>8, <1>9

(* A deletion that finds x moves one entry out of the list. *)
LEMMA BalanceDelete ==
    ASSUME ReplyInv, ReplyInv', NEW y \in Instances, DeleteStep(y), NEW x, Balance(x)
    PROVE  Balance(x)'
  <1>1. TypeOK /\ up \in Seq(Packets) /\ instances \in Seq(Instances)
    BY DEF ReplyInv, TypeOK
  <1>2. PICK j \in Contexts : up' = up \o DeletePackets(y, j)
    BY DEF DeleteStep
  <1> DEFINE t == DeletePackets(y, j)
  <1>3. /\ instances' = (IF Listed(y) THEN WithoutFirst(y) ELSE instances)
        /\ inbox' = inbox /\ got' = got /\ calls' = calls
        /\ Handles("__delete__", y)
    BY DEF DeleteStep, brokerVars, clientVars
  <1>4. t \in Seq(Packets) /\ Delivered' \subseteq Delivered
    BY <1>1, <1>2, <1>3, PacketTypes, DeliveredFrame
  <1>5. Pending(x)' \subseteq Pending(x) /\ Issued("__createShared__", x)' = Issued("__createShared__", x)
    BY <1>1, <1>3, PendingShrinks DEF Handles, Issued
  <1>6. /\ t[1] = Unsubscribe(InstanceFilter(y))
        /\ Listed(y) => /\ DOMAIN t = 1..3 /\ t[2] = ClassInfo(WithoutFirst(y))
                        /\ t[3] = Reply(j, Outcome("deleted", "__delete__", y))
        /\ ~Listed(y) => DOMAIN t = 1..2 /\ t[2] = Reply(j, Outcome("unknown", "__delete__", y))
    BY DeletePacketsAt
  <1> HIDE DEF t
  <1>7. \A n \in DOMAIN t :
           t[n].type = "reply" /\ t[n].out.tag = "deleted" /\ t[n].out.inst = x
             => t[n].i = j.i /\ x = y /\ Listed(y)
    <2>1. t[1].type = "unsubscribe"
      BY <1>6 DEF Unsubscribe
    <2>2. Listed(y) => t[2].type = "classInfo" /\ t[3].out.inst = y /\ t[3].i = j.i
      BY <1>6 DEF ClassInfo, Reply, Outcome
    <2>3. ~Listed(y) => t[2].out.tag = "unknown"
      BY <1>6 DEF Reply, Outcome
    <2>4. \A n \in DOMAIN t : n \in {1, 2} \/ (n = 3 /\ Listed(y))
      BY <1>6
    <2> QED
      BY <2>1, <2>2, <2>3, <2>4
  <1>8. CASE ~(x = y /\ Listed(y))
    <2>1. Deletions(x)' \subseteq Deletions(x) \cup {}
      BY <1>1, <1>2, <1>4, <1>7, <1>8, DeletionsWritten DEF t
    <2>2. Cardinality(Held(x)') <= Cardinality(Held(x))
      <3>1. Cardinality(Held(x)) \in Nat
        BY BalanceFinite, FS_CardinalityType
      <3>2. CASE ~Listed(y)
        <4>1. Held(x)' = Held(x)
          BY <1>3, <3>2 DEF Held
        <4> QED
          BY <3>1, <4>1
      <3>3. CASE Listed(y)
        <4>1. Cardinality(Held(x)') <= Cardinality(Held(x)) - (IF x = y THEN 1 ELSE 0)
          BY <1>3, <3>3, ErasedHeld
        <4> QED
          BY <1>8, <3>1, <3>3, <4>1
      <3> QED
        BY <3>2, <3>3
    <2> QED
      BY <1>5, <2>1, <2>2, BalanceFrame
  <1>9. CASE x = y /\ Listed(y)
    <2> DEFINE D == Cardinality(Deletions(x))
               D2 == Cardinality(Deletions(x)')
               H == Cardinality(Held(x))
               H2 == Cardinality(Held(x)')
               P == Cardinality(Pending(x))
               P2 == Cardinality(Pending(x)')
               I == Cardinality(Issued("__createShared__", x))
    <2>1. D \in Nat /\ D2 \in Nat /\ H \in Nat /\ H2 \in Nat /\ P \in Nat /\ P2 \in Nat /\ I \in Nat
      BY BalanceFinite, BalanceFiniteNext, FS_CardinalityType
    <2>2. D2 <= D + 1
      <3>1. Deletions(x)' \subseteq Deletions(x) \cup {j.i}
        BY <1>1, <1>2, <1>4, <1>7, DeletionsWritten DEF t
      <3>2. /\ IsFiniteSet(Deletions(x) \cup {j.i})
            /\ Cardinality(Deletions(x) \cup {j.i}) \in {D, D + 1}
        BY BalanceFinite, FS_AddElement
      <3>3. D2 <= Cardinality(Deletions(x) \cup {j.i})
        BY <3>1, <3>2, FS_Subset
      <3> HIDE DEF D, D2
      <3> QED
        BY <2>1, <3>2, <3>3
    <2>3. H2 <= H - 1
      BY <1>3, <1>9, ErasedHeld
    <2>4. P2 <= P
      BY <1>5, BalanceFinite, FS_Subset
    <2>5. D + H + P <= I
      BY DEF Balance
    <2> HIDE DEF D, D2, H, H2, P, P2, I
    <2>6. D2 + H2 + P2 <= I
      BY <2>1, <2>2, <2>3, <2>4, <2>5
    <2> QED
      BY <1>5, <2>6 DEF Balance, D2, H2, P2, I
  <1> QED
    BY <1>8, <1>9

LEMMA BalanceOther ==
    ASSUME ReplyInv, ReplyInv', [Next]_vars, ~\E c \in Clients : ClientCalls(c),
           QuietStep \/ BrokerReads, NEW x \in Instances, Balance(x)
    PROVE  Balance(x)'
  <1>1. TypeOK
    BY DEF ReplyInv
  <1>2. Pending(x)' \subseteq Pending(x) /\ Issued("__createShared__", x)' = Issued("__createShared__", x)
    BY <1>1, QueueSteps, PendingShrinks DEF Issued
  <1>3. instances' = instances
    BY <1>1, BrokerEffect DEF QuietStep
  <1>4. Cardinality(Held(x)') <= Cardinality(Held(x))
    <2>1. Held(x)' = Held(x)
      BY <1>3 DEF Held
    <2> QED
      BY <2>1, BalanceFinite, FS_CardinalityType
  <1>5. Deletions(x)' \subseteq Deletions(x)
    <2>1. CASE BrokerReads
      BY <1>1, <2>1, DeletionsRead
    <2>2. CASE QuietStep
      <3>1. PICK t \in Seq(Packets) : up' = up \o t /\ \A n \in DOMAIN t : Neutral(t[n])
        BY <2>2 DEF QuietStep
      <3>2. \A p : Neutral(p) /\ p.type = "reply" => p.out.tag # "deleted"
        BY DEF Neutral, AgentInfo, ClassInfo, Subscribe
      <3>3. \A n \in DOMAIN t :
               t[n].type = "reply" /\ t[n].out.tag = "deleted" /\ t[n].out.inst = x => t[n].i \in {}
        BY <3>1, <3>2
      <3>4. Delivered' \subseteq Delivered
        BY <2>2 DEF QuietStep
      <3>5. Deletions(x)' \subseteq Deletions(x) \cup {}
        BY <1>1, <3>1, <3>3, <3>4, DeletionsWritten
      <3> QED
        BY <3>5
    <2> QED
      BY <2>1, <2>2
  <1> QED
    BY <1>2, <1>4, <1>5, BalanceFrame

LEMMA DeletionInvNext == DeletionInv /\ [Next]_vars => DeletionInv'
  <1> SUFFICES ASSUME DeletionInv, [Next]_vars
               PROVE  DeletionInv'
    OBVIOUS
  <1>1. ReplyInv /\ ReplyInv' /\ TypeOK /\ CallInv
    BY ReplyInvNext DEF DeletionInv, ReplyInv
  <1>2. ASSUME NEW x \in Instances
        PROVE  Balance(x)'
    <2>1. Balance(x)
      BY DEF DeletionInv
    <2>2. CASE \E c \in Clients : ClientCalls(c)
      BY <1>1, <2>1, <2>2, BalanceIssue
    <2>3. CASE \E y \in Instances : CreateStep(y)
      BY <1>1, <2>1, <2>3, BalanceCreate
    <2>4. CASE \E y \in Instances : DeleteStep(y)
      BY <1>1, <2>1, <2>4, BalanceDelete
    <2>5. CASE (QuietStep \/ BrokerReads) /\ ~\E c \in Clients : ClientCalls(c)
      BY <1>1, <2>1, <2>5, BalanceOther
    <2> QED
      BY <1>1, <2>2, <2>3, <2>4, <2>5, Effects
  <1> QED
    BY <1>1, <1>2 DEF DeletionInv

LEMMA DeletionInvInit == Init => DeletionInv
  <1> SUFFICES ASSUME Init, NEW x \in Instances
               PROVE  Balance(x)
    BY ReplyInvInit DEF DeletionInv
  <1>1. /\ DOMAIN up = {} /\ DOMAIN got = {} /\ DOMAIN down = {} /\ DOMAIN instances = {}
        /\ DOMAIN calls = {} /\ \A c \in Clients : DOMAIN inbox[c] = {}
    BY DEF Init
  <1>2. AllReplies = {}
    BY <1>1 DEF AllReplies, RepliesIn
  <1>3. /\ Deletions(x) = {} /\ Held(x) = {} /\ Pending(x) = {}
        /\ Issued("__createShared__", x) = {}
    BY <1>1, <1>2 DEF Deletions, Held, Pending, Issued
  <1> QED
    BY <1>3, FS_EmptySet DEF Balance

(* The confirmed deletions that clients hold are distinct calls. *)
LEMMA TaggedCounted ==
    ASSUME ReplyInv, NEW x
    PROVE  Cardinality(Tagged("deleted", x)) <= Cardinality(Deletions(x))
  <1> DEFINE T == Tagged("deleted", x)
             f == [n \in T |-> got[n].i]
  <1>1. \A n \in DOMAIN got : got[n].type = "reply"
    BY AnsweredNumbers DEF ReplyInv
  <1>2. \A n \in T : n \in DOMAIN got /\ got[n].i \in Deletions(x)
    BY <1>1 DEF Tagged, Deletions, AllReplies, RepliesIn
  <1>3. \A m, n \in T : got[m].i = got[n].i => m = n
    BY <1>1, <1>2 DEF ReplyInv, OncePerPlace, Once
  <1>4. f \in Injection(T, Deletions(x))
    <2> HIDE DEF T
    <2> QED
      BY <1>2, <1>3 DEF Injection, IsInjective
  <1> QED
    BY <1>4, BalanceFinite, FS_Injection

(* However clients race to delete an instance, no more of them are told    *)
(* that they did than creations of it were issued.                         *)
THEOREM DeletedAtMostOnce == Spec => []OneDeletionPerCreation
  <1>1. DeletionInv => OneDeletionPerCreation
    <2> SUFFICES ASSUME DeletionInv, NEW x \in Instances
                 PROVE  Cardinality(Tagged("deleted", x)) <= Cardinality(Issued("__createShared__", x))
      BY DEF OneDeletionPerCreation
    <2> DEFINE T == Cardinality(Tagged("deleted", x))
               D == Cardinality(Deletions(x))
               H == Cardinality(Held(x))
               P == Cardinality(Pending(x))
               I == Cardinality(Issued("__createShared__", x))
    <2>1. D \in Nat /\ H \in Nat /\ P \in Nat /\ I \in Nat /\ T <= D /\ T \in Nat
      <3>1. Tagged("deleted", x) \subseteq DOMAIN got /\ IsFiniteSet(DOMAIN got)
        <4>1. DOMAIN got = 1..Len(got) /\ Len(got) \in Nat
          BY DEF DeletionInv, ReplyInv, TypeOK
        <4> QED
          BY <4>1, FS_Interval DEF Tagged
      <3> QED
        BY <3>1, TaggedCounted, BalanceFinite, FS_CardinalityType, FS_Subset DEF DeletionInv
    <2>2. D + H + P <= I
      BY DEF DeletionInv, Balance
    <2> HIDE DEF T, D, H, P, I
    <2>3. T <= I
      BY <2>1, <2>2
    <2> QED
      BY <2>3 DEF T, I
  <1> QED
    BY <1>1, DeletionInvInit, DeletionInvNext, PTL DEF Spec
=============================================================================
