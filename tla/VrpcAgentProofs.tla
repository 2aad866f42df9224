-------------------------- MODULE VrpcAgentProofs --------------------------
(* Proofs about VrpcAgent for every set of clients, instances and          *)
(* functions and every number of calls: type correctness and that every    *)
(* reply answers the call it names.                                        *)
EXTENDS VrpcAgent, TLAPS, SequenceTheorems, FiniteSetTheorems

(* A request without its number and bookkeeping is one a client may issue. *)
ShapeOf(q) == [inst |-> q.inst, f |-> q.f, a |-> q.a]

(* The history of calls numbers them from 1 and stays within the bound. *)
CallsNumbered ==
    /\ Len(calls) <= MaxCalls
    /\ \A n \in DOMAIN calls : calls[n].i = n /\ ShapeOf(calls[n]) \in Shapes

(* What waits for the agent was issued, and there is a call_id for each. *)
QueueKnown ==
    /\ callId + Len(down) <= Len(calls)
    /\ \A n \in DOMAIN down :
          down[n].i \in DOMAIN calls /\ down[n] = calls[down[n].i]

(* A fork evaluates the function of the call whose context its own table   *)
(* holds under the fork's own call_id.                                     *)
ForksMatch ==
    \A id \in CallIds : Evaluating(id) =>
        \E n \in DOMAIN calls :
            /\ Evaluates(calls[n])
            /\ children[id].table[id] = Context(calls[n])
            /\ children[id].fn = Target(calls[n])
            /\ children[id].inst = calls[n].inst

CallInv == CallsNumbered /\ QueueKnown /\ ForksMatch

ReplyFits(p) == p.i \in DOMAIN calls /\ Answers(p, calls[p.i])

----------------------------------------------------------------------------
(* Operators. *)

(* The admissible requests keep to what the handler's branches expect. *)
LEMMA ShapeFacts ==
    ASSUME NEW q \in Requests, ShapeOf(q) \in Shapes
    PROVE  /\ Administers(q) => q.inst = Static /\ q.a \in Instances
           /\ Evaluates(q) => Target(q) \in RFunctions
           /\ Target(q) \in RFunctions \cup {"__createShared__", "__delete__", BadArg}
  <1>1. DOMAIN Functions = 1..Len(Functions) /\ \A n \in DOMAIN Functions : Functions[n] \in RFunctions
    BY FunctionsAssumption
  <1>2. /\ q.inst \in Instances \cup {Static}
        /\ \/ q.inst = Static /\ q.f \in {"__createShared__", "__delete__"} /\ q.a \in Instances \cup {BadArg}
           \/ q.f = "call" /\ q.a \in RFunctions \cup {BadArg}
           \/ q.inst = Static /\ q.f \in RFunctions /\ q.a = NoArg
           \/ q.inst \in Instances /\ q.f \in RFunctions /\ q.a = NoArg
    BY <1>1 DEF Shapes, ShapeOf
  <1> QED
    BY <1>2, FunctionsAssumption, InstancesAssumption
    DEF Administers, Evaluates, Target, BadArg, NoArg

LEMMA ContextType ==
    ASSUME NEW q \in Requests
    PROVE  Context(q) \in Contexts /\ Context(q) # Null
  BY DEF Requests, Contexts, Context, Null

LEMMA ReplyType ==
    ASSUME NEW j \in Contexts, NEW out \in Outcomes
    PROVE  Reply(j, out) \in Replies
  BY DEF Contexts, Replies, Reply

(* A nonempty set of indices has a least one: the intervals 1..m, ordered  *)
(* by strict inclusion, are well-founded.                                  *)
LEMMA LeastElement ==
    ASSUME NEW N \in Nat, NEW T \in SUBSET (1..N), T # {}
    PROVE  \E n \in T : \A m \in T : n <= m
  <1> DEFINE R == StrictSubsetOrdering(1..N)
             U == {1..m : m \in T}
  <1>2. IsWellFoundedOn(R, FiniteSubsetsOf(1..N))
    BY FS_StrictSubsetOrderingWellFounded
  <1>3. U \subseteq FiniteSubsetsOf(1..N) /\ U # {}
    <2>1. \A m \in T : 1..m \subseteq 1..N /\ IsFiniteSet(1..m)
      BY FS_Interval
    <2> QED
      BY <2>1 DEF FiniteSubsetsOf
  <1>4. PICK X \in U : \A Y \in U : ~(<<Y, X>> \in R)
    BY <1>2, <1>3, WFMin
  <1>5. PICK n \in T : X = 1..n
    OBVIOUS
  <1>6. ASSUME NEW m \in T, m < n
        PROVE  FALSE
    <2>1. 1..m \subseteq 1..N /\ 1..n \subseteq 1..N /\ 1..m \subseteq 1..n /\ n \in 1..n /\ n \notin 1..m
      BY <1>6
    <2>2. <<1..m, 1..n>> \in R
      BY <2>1 DEF StrictSubsetOrdering
    <2> QED
      BY <2>2, <1>4, <1>5
  <1> QED
    BY <1>6

(* Replies in a queue that grows, shrinks or stays. *)
LEMMA RepliesInAppend ==
    ASSUME NEW S, NEW s \in Seq(S), NEW p \in S
    PROVE  RepliesIn(Append(s, p)) \subseteq RepliesIn(s) \cup ({p} \cap {r \in {p} : r.type = "reply"})
  BY DEF RepliesIn

LEMMA RepliesInTail ==
    ASSUME NEW S, NEW s \in Seq(S), s # <<>>
    PROVE  RepliesIn(Tail(s)) \subseteq RepliesIn(s)
  BY DEF RepliesIn

LEMMA RepliesInConcat ==
    ASSUME NEW S, NEW s \in Seq(S), NEW t \in Seq(S)
    PROVE  RepliesIn(s \o t) \subseteq RepliesIn(s) \cup RepliesIn(t)
  BY DEF RepliesIn

----------------------------------------------------------------------------
(* Type correctness. *)

LEMMA TypeInit == Init => TypeOK
  BY BoundAssumption DEF Init, TypeOK, Tables

(* What the handlers write consists of packets. *)
LEMMA PacketTypes ==
    ASSUME TypeOK
    PROVE  /\ ConnackPackets \in Seq(Packets)
           /\ \A x \in Instances, j \in Contexts :
                 /\ CreatePackets(x, j) \in Seq(Packets)
                 /\ Listed(x) => WithoutFirst(x) \in Seq(Instances)
                 /\ DeletePackets(x, j) \in Seq(Packets)
  <1>1. /\ AgentInfo \in Packets
        /\ \A list \in Seq(Instances) : ClassInfo(list) \in Packets
        /\ \A filter \in Filters : Subscribe(filter) \in Packets /\ Unsubscribe(filter) \in Packets
    BY DEF Packets, AgentInfo, ClassInfo, Subscribe, Unsubscribe
  <1>2. /\ \A f \in RFunctions \cup {"call", "__createShared__", "__delete__"} :
              StaticFilter(f) \in Filters
        /\ \A x \in Instances : InstanceFilter(x) \in Filters
    BY DEF StaticFilter, InstanceFilter, Filters
  <1>3. ConnackPackets \in Seq(Packets)
    <2>1. [n \in DOMAIN Functions |-> Subscribe(StaticFilter(Functions[n]))] \in Seq(Packets)
      <3>1. Functions \in Seq(RFunctions)
        BY FunctionsAssumption
      <3>2. \A n \in 1..Len(Functions) : Subscribe(StaticFilter(Functions[n])) \in Packets
        BY <3>1, <1>1, <1>2
      <3> QED
        BY <3>1, <3>2, IsASeq
    <2>2. /\ <<AgentInfo, Subscribe(StaticFilter("__createShared__")),
               Subscribe(StaticFilter("__delete__")), Subscribe(StaticFilter("call"))>> \in Seq(Packets)
          /\ <<ClassInfo(instances)>> \in Seq(Packets)
      BY <1>1, <1>2 DEF TypeOK
    <2> QED
      BY <2>1, <2>2, ConcatProperties DEF ConnackPackets
  <1>4. ASSUME NEW x \in Instances, Listed(x)
        PROVE  WithoutFirst(x) \in Seq(Instances)
    <2> DEFINE IsFirst(k) == /\ instances[k] = x
                             /\ \A m \in 1..(k - 1) : instances[m] # x
               k == CHOOSE n \in DOMAIN instances : IsFirst(n)
    <2>1. \E n \in DOMAIN instances : IsFirst(n)
      <3>1. /\ {n \in DOMAIN instances : instances[n] = x} \subseteq 1..Len(instances)
            /\ {n \in DOMAIN instances : instances[n] = x} # {}
            /\ Len(instances) \in Nat
        BY <1>4 DEF Listed, TypeOK
      <3>2. PICK n \in {n \in DOMAIN instances : instances[n] = x} :
               \A m \in {m \in DOMAIN instances : instances[m] = x} : n <= m
        BY <3>1, LeastElement
      <3> QED
        BY <3>2 DEF TypeOK
    <2>2. k \in DOMAIN instances
      BY <2>1
    <2>3. k \in 1..Len(instances)
      BY <2>2 DEF TypeOK
    <2> HIDE DEF k
    <2>4. SubSeq(instances, 1, k - 1) \in Seq(Instances)
          /\ SubSeq(instances, k + 1, Len(instances)) \in Seq(Instances)
      BY <2>3 DEF TypeOK
    <2> QED
      BY <2>4, ConcatProperties DEF WithoutFirst, k
  <1>5. ASSUME NEW x \in Instances, NEW j \in Contexts
        PROVE  /\ CreatePackets(x, j) \in Seq(Packets)
               /\ DeletePackets(x, j) \in Seq(Packets)
    <2>1. \A tag \in {"created", "deleted", "unknown"}, fn \in {"__createShared__", "__delete__"} :
             Reply(j, Outcome(tag, fn, x)) \in Packets
      BY ReplyType DEF Outcome, Outcomes, Packets
    <2>2. ClassInfo(Append(instances, x)) \in Packets
      <3>1. Append(instances, x) \in Seq(Instances)
        BY <1>5 DEF TypeOK
      <3> QED
        BY <1>1, <3>1
    <2>3. CreatePackets(x, j) \in Seq(Packets)
      BY <1>1, <1>2, <2>1, <2>2 DEF CreatePackets
    <2>4. DeleteAnswer(x, j) \in Seq(Packets)
      BY <1>1, <1>4, <2>1 DEF DeleteAnswer
    <2> QED
      BY <1>1, <1>2, <2>3, <2>4, ConcatProperties DEF DeletePackets
  <1> QED
    BY <1>3, <1>4, <1>5

(* The packets of the connack handler; the list of instances comes last. *)
LEMMA ConnackAt ==
    ASSUME TypeOK
    PROVE  /\ Len(ConnackPackets) \in Nat \ {0}
           /\ DOMAIN ConnackPackets = 1..Len(ConnackPackets)
           /\ ConnackPackets[Len(ConnackPackets)] = ClassInfo(instances)
           /\ \A n \in DOMAIN ConnackPackets :
                 \/ ConnackPackets[n] = AgentInfo
                 \/ ConnackPackets[n] = ClassInfo(instances)
                 \/ \E f \in RFunctions \cup {"call", "__createShared__", "__delete__"} :
                       ConnackPackets[n] = Subscribe(StaticFilter(f))
  <1> DEFINE Kinds == {AgentInfo, ClassInfo(instances)}
                      \cup {Subscribe(StaticFilter(f)) :
                              f \in RFunctions \cup {"call", "__createShared__", "__delete__"}}
             front == <<AgentInfo, Subscribe(StaticFilter("__createShared__")),
                        Subscribe(StaticFilter("__delete__")), Subscribe(StaticFilter("call"))>>
             middle == [n \in DOMAIN Functions |-> Subscribe(StaticFilter(Functions[n]))]
             back == <<ClassInfo(instances)>>
             last == ClassInfo(instances)
  <1>1. front \in Seq(Kinds) /\ last \in Kinds
    OBVIOUS
  <1>2. middle \in Seq(Kinds)
    <2>1. Functions \in Seq(RFunctions)
      BY FunctionsAssumption
    <2>2. \A n \in 1..Len(Functions) : Subscribe(StaticFilter(Functions[n])) \in Kinds
      BY <2>1
    <2> QED
      BY <2>1, <2>2, IsASeq
  <1>3. ConnackPackets = (front \o middle) \o <<last>>
    BY DEF ConnackPackets
  <1> HIDE DEF Kinds, front, middle, last
  <1>4. front \o middle \in Seq(Kinds)
    BY <1>1, <1>2, ConcatProperties
  <1> DEFINE most == front \o middle
  <1> HIDE DEF most
  <1>5. /\ ConnackPackets \in Seq(Kinds) /\ Len(ConnackPackets) = Len(most) + 1
        /\ Len(most) \in Nat /\ ConnackPackets[Len(most) + 1] = last
    BY <1>1, <1>3, <1>4 DEF most
  <1>6. \A n \in DOMAIN ConnackPackets : ConnackPackets[n] \in Kinds
    BY <1>5
  <1> QED
    BY <1>5, <1>6 DEF Kinds, last

(* The request a handler takes, and what is left in the queue. *)
LEMMA HeadOfDown ==
    ASSUME TypeOK, CallInv, down # <<>>
    PROVE  /\ Head(down) \in Requests
           /\ Head(down).i \in DOMAIN calls
           /\ Head(down) = calls[Head(down).i]
           /\ ShapeOf(Head(down)) \in Shapes
           /\ Tail(down) \in Seq(Requests)
           /\ Len(Tail(down)) = Len(down) - 1
           /\ \A n \in DOMAIN Tail(down) : Tail(down)[n] = down[n + 1] /\ n + 1 \in DOMAIN down
           /\ callId + 1 \in CallIds
  <1>1. down \in Seq(Requests) /\ Len(down) \in Nat \ {0} /\ Head(down) = down[1] /\ 1 \in DOMAIN down
    BY DEF TypeOK
  <1>2. callId + 1 \in CallIds
    <2>1. callId \in Nat /\ Len(calls) \in Nat
      BY BoundAssumption DEF TypeOK
    <2> QED
      BY <1>1, <2>1, BoundAssumption DEF CallInv, QueueKnown, CallsNumbered, CallIds
  <1>3. Head(down).i \in DOMAIN calls /\ Head(down) = calls[Head(down).i]
    BY <1>1 DEF CallInv, QueueKnown
  <1>4. ShapeOf(Head(down)) \in Shapes
    BY <1>3 DEF CallInv, CallsNumbered
  <1> QED
    BY <1>1, <1>2, <1>3, <1>4

(* The fork made for a call, and the table it takes along. *)
LEMMA ForkType ==
    ASSUME TypeOK, NEW id \in CallIds, NEW q \in Requests, ShapeOf(q) \in Shapes
    PROVE  /\ Registered(id, Context(q)) \in Tables
           /\ Registered(id, Context(q))[id] = Context(q)
           /\ Evaluates(q) => Fork(id, q, Registered(id, Context(q))) \in Children
  <1>1. /\ Registered(id, Context(q)) \in Tables
        /\ Registered(id, Context(q))[id] = Context(q)
    BY ContextType DEF Registered, TypeOK, Tables
  <1>2. Evaluates(q) => Target(q) \in RFunctions
    BY ShapeFacts
  <1> QED
    BY <1>1, <1>2 DEF Fork, Children, Requests

(* A request as a client issues it. *)
LEMMA IssuedType ==
    ASSUME TypeOK, NEW c \in Clients, NEW m \in Menu, Len(calls) < MaxCalls
    PROVE  LET q == [i |-> Len(calls) + 1, s |-> c, inst |-> m.inst, f |-> m.f,
                     a |-> m.a, after |-> Answered, routed |-> Subscribed(m.inst, m.f)]
           IN  q \in Requests /\ ShapeOf(q) = m
  <1>1. m \in Shapes
    BY MenuAssumption
  <1>2. DOMAIN Functions = 1..Len(Functions) /\ \A n \in DOMAIN Functions : Functions[n] \in RFunctions
    BY FunctionsAssumption
  <1>3. /\ m = [inst |-> m.inst, f |-> m.f, a |-> m.a]
        /\ m.inst \in Instances \cup {Static}
        /\ m.f \in RFunctions \cup {"call", "__createShared__", "__delete__"}
        /\ m.a \in RFunctions \cup Instances \cup {BadArg, NoArg}
    BY <1>1, <1>2 DEF Shapes
  <1>4. Len(calls) + 1 \in CallIds
    BY BoundAssumption DEF TypeOK, CallIds
  <1>5. Answered \in SUBSET CallIds
    <2>1. \A n \in DOMAIN got : got[n].i \in CallIds
      <3>1. \A n \in DOMAIN got : got[n] \in Replies
        BY DEF TypeOK
      <3> QED
        BY <3>1 DEF Replies
    <2> QED
      BY <2>1 DEF Answered
  <1>6. Subscribed(m.inst, m.f) \in BOOLEAN
    BY DEF Subscribed
  <1> DEFINE q == [i |-> Len(calls) + 1, s |-> c, inst |-> m.inst, f |-> m.f,
                   a |-> m.a, after |-> Answered, routed |-> Subscribed(m.inst, m.f)]
  <1>7. q \in Requests
    <2> HIDE DEF Answered, Subscribed
    <2> QED
      BY <1>3, <1>4, <1>5, <1>6 DEF Requests
  <1>8. ShapeOf(q) = m
    BY <1>3 DEF ShapeOf
  <1> QED
    BY <1>7, <1>8

LEMMA TypeStep == TypeOK /\ CallInv /\ [Next]_vars => TypeOK'
  <1> SUFFICES ASSUME TypeOK, CallInv, [Next]_vars
               PROVE  TypeOK'
    OBVIOUS
  <1>1. CASE HandleConnack
    <2>1. up' \in Seq(Packets)
      <3>1. up \in Seq(Packets) /\ ConnackPackets \in Seq(Packets)
        BY PacketTypes DEF TypeOK
      <3>2. up' = up \o ConnackPackets \/ up' = up
        BY <1>1 DEF HandleConnack
      <3> QED
        BY <3>1, <3>2, ConcatProperties
    <2> QED
      BY <1>1, <2>1 DEF HandleConnack, TypeOK, brokerVars, clientVars
  <1>2. CASE HandlePublish
    <2> DEFINE q == Head(down)
               j == Context(q)
               id == callId + 1
    <2>1. down # <<>>
      BY <1>2 DEF HandlePublish, RequestWaiting
    <2>2. /\ q \in Requests /\ ShapeOf(q) \in Shapes /\ id \in CallIds /\ j \in Contexts
          /\ Tail(down) \in Seq(Requests)
      BY <2>1, HeadOfDown, ContextType
    <2>3. /\ down' = Tail(down) /\ callId' = id /\ awaited' = Registered(id, j)
          /\ CreateShared(q, j) \/ Delete(q, j) \/ VrpcCall(q, id, j) \/ Catch(q, j)
          /\ UNCHANGED <<phase, subs, retained, inbox, calls, got>>
      BY <1>2 DEF HandlePublish, brokerVars, clientVars
    <2>4. down' \in Seq(Requests) /\ callId' \in 0..MaxCalls /\ awaited' \in Tables
      BY <2>2, <2>3, ForkType DEF CallIds
    <2> HIDE DEF q, j, id
    <2>5. /\ instances' \in Seq(Instances)
          /\ up' \in Seq(Packets)
          /\ children' \in [CallIds -> Children \cup {Null}]
      <3>1. CASE CreateShared(q, j)
        <4>1. q.a \in Instances
          BY <3>1, <2>2, ShapeFacts DEF CreateShared, Administers
        <4> QED
          BY <3>1, <4>1, <2>2, PacketTypes, ConcatProperties DEF CreateShared, TypeOK
      <3>2. CASE Delete(q, j)
        <4>1. q.a \in Instances
          BY <3>2, <2>2, ShapeFacts DEF Delete, Administers
        <4> QED
          BY <3>2, <4>1, <2>2, PacketTypes, ConcatProperties DEF Delete, TypeOK
      <3>3. CASE VrpcCall(q, id, j)
        <4>1. Fork(id, q, Registered(id, j)) \in Children
          BY <3>3, <2>2, ForkType DEF VrpcCall, j
        <4> QED
          BY <3>3, <4>1, <2>2 DEF VrpcCall, TypeOK
      <3>4. CASE Catch(q, j)
        <4>1. Outcome("error", Target(q), q.inst) \in Outcomes
          BY <2>2, ShapeFacts DEF Outcome, Outcomes, Requests
        <4>2. Reply(j, Outcome("error", Target(q), q.inst)) \in Packets
          BY <4>1, <2>2, ReplyType DEF Packets
        <4> QED
          BY <3>4, <4>2 DEF Catch, TypeOK
      <3> QED
        BY <2>3, <3>1, <3>2, <3>3, <3>4
    <2> QED
      BY <2>3, <2>4, <2>5 DEF TypeOK
  <1>3. ASSUME NEW id \in CallIds, ExecutionDone(id)
        PROVE  TypeOK'
    <2>1. /\ children[id] \in Children
          /\ children[id].table[id] \in Contexts
      BY <1>3 DEF ExecutionDone, Evaluating, AwaitedOf, TypeOK, Children, Tables
    <2>2. \A tag \in {"value", "error"} :
             Reply(AwaitedOf(id), Outcome(tag, children[id].fn, children[id].inst)) \in Packets
      BY <2>1, ReplyType DEF AwaitedOf, Outcome, Outcomes, Children, Packets
    <2>3. up' \in Seq(Packets)
      BY <1>3, <2>2 DEF ExecutionDone, TypeOK
    <2>4. [children[id] EXCEPT !.st = "sleeping", !.table[id] = Null] \in Children
      BY <2>1 DEF Children, Tables
    <2>5. children' \in [CallIds -> Children \cup {Null}]
      BY <1>3, <2>4 DEF ExecutionDone, TypeOK
    <2> QED
      BY <1>3, <2>3, <2>5 DEF ExecutionDone, TypeOK, agentVars, brokerVars, clientVars
  <1>4. ASSUME NEW id \in CallIds, ChildDies(id) \/ ChildQuits(id)
        PROVE  TypeOK'
    <2>1. children[id] \in Children
      BY <1>4 DEF ChildDies, ChildQuits, Evaluating, TypeOK
    <2>2. [children[id] EXCEPT !.st = "gone"] \in Children
      BY <2>1 DEF Children
    <2> QED
      BY <1>4, <2>2 DEF ChildDies, ChildQuits, TypeOK, agentVars, brokerVars, clientVars
  <1>5. CASE BrokerReads
    <2>1. Head(up) \in Packets /\ Tail(up) \in Seq(Packets)
      BY <1>5 DEF BrokerReads, TypeOK
    <2>2. /\ Head(up).type \in {"subscribe", "unsubscribe"} => Head(up).filter \in Filters
          /\ Head(up).type = "agentInfo" => Head(up).status = "online"
          /\ Head(up).type = "classInfo" => Head(up).instances \in Seq(Instances)
          /\ Head(up).type = "reply" => Head(up) \in Replies /\ Head(up).s \in Clients
      BY <2>1 DEF Packets, Replies
    <2>3. up' \in Seq(Packets) /\ UNCHANGED <<agentVars, children, down, clientVars>>
      BY <1>5, <2>1 DEF BrokerReads
    <2>4. /\ subs' \subseteq Filters
          /\ retained' \in [agentInfo : {"none", "online"}, instances : Seq(Instances)]
          /\ inbox' \in [Clients -> Seq(Replies)]
      <3>1. CASE Head(up).type \in {"subscribe", "unsubscribe"}
        BY <1>5, <3>1, <2>2 DEF BrokerReads, TypeOK
      <3>2. CASE Head(up).type = "agentInfo"
        BY <1>5, <3>2, <2>2 DEF BrokerReads, TypeOK
      <3>3. CASE Head(up).type = "classInfo"
        BY <1>5, <3>3, <2>2 DEF BrokerReads, TypeOK
      <3>4. CASE Head(up).type = "reply"
        <4>1. /\ inbox' = [inbox EXCEPT ![Head(up).s] = Append(@, Head(up))]
              /\ UNCHANGED <<subs, retained>>
          BY <1>5, <3>4 DEF BrokerReads
        <4>2. inbox[Head(up).s] \in Seq(Replies)
          BY <3>4, <2>2 DEF TypeOK
        <4>3. Append(inbox[Head(up).s], Head(up)) \in Seq(Replies)
          BY <4>2, <3>4, <2>2
        <4> QED
          BY <4>1, <4>3 DEF TypeOK
      <3> QED
        BY <1>5, <3>1, <3>2, <3>3, <3>4 DEF BrokerReads
    <2> QED
      BY <2>3, <2>4 DEF TypeOK, agentVars, clientVars
  <1>6. ASSUME NEW c \in Clients, ClientCalls(c)
        PROVE  TypeOK'
    <2>1. PICK m \in Menu :
            LET q == [i |-> Len(calls) + 1, s |-> c, inst |-> m.inst, f |-> m.f,
                      a |-> m.a, after |-> Answered, routed |-> Subscribed(m.inst, m.f)]
            IN  calls' = Append(calls, q) /\ down' = IF q.routed THEN Append(down, q) ELSE down
      BY <1>6 DEF ClientCalls
    <2> DEFINE q == [i |-> Len(calls) + 1, s |-> c, inst |-> m.inst, f |-> m.f,
                     a |-> m.a, after |-> Answered, routed |-> Subscribed(m.inst, m.f)]
    <2>2. q \in Requests
      <3>1. Len(calls) < MaxCalls
        BY <1>6 DEF ClientCalls
      <3> QED
        BY <1>6, <3>1, IssuedType
    <2>3. calls' = Append(calls, q) /\ (down' = Append(down, q) \/ down' = down)
      BY <2>1
    <2> HIDE DEF q
    <2> QED
      BY <1>6, <2>2, <2>3 DEF ClientCalls, TypeOK, agentVars, brokerVars
  <1>7. ASSUME NEW c \in Clients, ClientReceives(c)
        PROVE  TypeOK'
    <2>1. Head(inbox[c]) \in Replies /\ Tail(inbox[c]) \in Seq(Replies)
      BY <1>7 DEF ClientReceives, TypeOK
    <2> QED
      BY <1>7, <2>1 DEF ClientReceives, TypeOK, agentVars
  <1>8. CASE UNCHANGED vars
    BY <1>8 DEF vars, agentVars, brokerVars, clientVars, TypeOK
  <1> QED
    BY <1>1, <1>2, <1>3, <1>4, <1>5, <1>6, <1>7, <1>8 DEF Next

----------------------------------------------------------------------------
(* Calls, queue and forks keep together. *)

LEMMA CallInvInit == Init => CallInv
  BY BoundAssumption DEF Init, CallInv, CallsNumbered, QueueKnown, ForksMatch, Evaluating

(* Steps that leave the calls and the queue alone and start no fork. *)
LEMMA CallInvFrame ==
    ASSUME TypeOK, CallInv, calls' = calls, down' = down, callId' = callId,
           \A id \in CallIds : Evaluating(id)' => Evaluating(id) /\ children'[id] = children[id]
    PROVE  CallInv'
  BY DEF CallInv, CallsNumbered, QueueKnown, ForksMatch

LEMMA CallInvStep == TypeOK /\ CallInv /\ [Next]_vars => CallInv'
  <1> SUFFICES ASSUME TypeOK, CallInv, [Next]_vars
               PROVE  CallInv'
    OBVIOUS
  <1>1. CASE HandleConnack
    BY <1>1, CallInvFrame DEF HandleConnack, clientVars, Evaluating
  <1>2. CASE HandlePublish
    <2> DEFINE q == Head(down)
               j == Context(q)
               id == callId + 1
    <2>1. down # <<>>
      BY <1>2 DEF HandlePublish, RequestWaiting
    <2>2. /\ q \in Requests /\ ShapeOf(q) \in Shapes /\ id \in CallIds
          /\ q.i \in DOMAIN calls /\ q = calls[q.i]
          /\ Len(Tail(down)) = Len(down) - 1
          /\ \A n \in DOMAIN Tail(down) : Tail(down)[n] = down[n + 1] /\ n + 1 \in DOMAIN down
      BY <2>1, HeadOfDown
    <2>3. /\ down' = Tail(down) /\ callId' = id /\ calls' = calls
          /\ CreateShared(q, j) \/ Delete(q, j) \/ VrpcCall(q, id, j) \/ Catch(q, j)
      BY <1>2 DEF HandlePublish, clientVars
    <2>4. CallsNumbered'
      BY <2>3 DEF CallInv, CallsNumbered
    <2>5. QueueKnown'
      <3>1. callId \in Int /\ Len(down) \in Int /\ Len(calls) \in Int
        BY BoundAssumption DEF TypeOK
      <3>2. callId' + Len(down') <= Len(calls')
        <4>1. /\ callId' = callId + 1 /\ Len(down') = Len(down) - 1 /\ Len(calls') = Len(calls)
              /\ callId + Len(down) <= Len(calls)
          BY <2>2, <2>3 DEF CallInv, QueueKnown
        <4> QED
          BY <4>1, <3>1
      <3> QED
        BY <2>2, <2>3, <3>2 DEF CallInv, QueueKnown
    <2>6. ForksMatch'
      <3>1. CASE VrpcCall(q, id, j)
        <4>1. /\ Evaluates(q)
              /\ children' = [children EXCEPT ![id] = Fork(id, q, Registered(id, j))]
          BY <3>1 DEF VrpcCall
        <4>2. /\ children'[id].table[id] = Context(q)
              /\ children'[id].fn = Target(q)
              /\ children'[id].inst = q.inst
          BY <4>1, <2>2, ForkType DEF Fork, TypeOK
        <4>3. \A k \in CallIds \ {id} : children'[k] = children[k]
          BY <4>1 DEF TypeOK
        <4> QED
          BY <4>1, <4>2, <4>3, <2>2, <2>3 DEF CallInv, ForksMatch, Evaluating
      <3>2. CASE UNCHANGED children
        BY <3>2, <2>3 DEF CallInv, ForksMatch, Evaluating
      <3> QED
        BY <2>3, <3>1, <3>2 DEF CreateShared, Delete, Catch
    <2> QED
      BY <2>4, <2>5, <2>6 DEF CallInv
  <1>3. ASSUME NEW id \in CallIds, ExecutionDone(id) \/ ChildDies(id) \/ ChildQuits(id)
        PROVE  CallInv'
    <2>1. \A k \in CallIds : Evaluating(k)' => Evaluating(k) /\ children'[k] = children[k]
      <3>1. /\ children[id] \in Children
            /\ \A k \in CallIds \ {id} : children'[k] = children[k]
            /\ children'[id].st \in {"sleeping", "gone"}
        BY <1>3 DEF ExecutionDone, ChildDies, ChildQuits, Evaluating, TypeOK, Children
      <3> QED
        BY <3>1 DEF Evaluating
    <2> QED
      BY <1>3, <2>1, CallInvFrame
      DEF ExecutionDone, ChildDies, ChildQuits, agentVars, clientVars
  <1>4. CASE BrokerReads
    BY <1>4, CallInvFrame DEF BrokerReads, agentVars, clientVars, Evaluating
  <1>5. ASSUME NEW c \in Clients, ClientCalls(c)
        PROVE  CallInv'
    <2>1. PICK q \in Requests :
            /\ q.i = Len(calls) + 1 /\ ShapeOf(q) \in Shapes
            /\ calls' = Append(calls, q)
            /\ down' = Append(down, q) \/ down' = down
      <3>1. Len(calls) < MaxCalls
        BY <1>5 DEF ClientCalls
      <3>2. PICK m \in Menu :
              LET q == [i |-> Len(calls) + 1, s |-> c, inst |-> m.inst, f |-> m.f,
                        a |-> m.a, after |-> Answered, routed |-> Subscribed(m.inst, m.f)]
              IN  calls' = Append(calls, q) /\ down' = IF q.routed THEN Append(down, q) ELSE down
        BY <1>5 DEF ClientCalls
      <3> DEFINE q == [i |-> Len(calls) + 1, s |-> c, inst |-> m.inst, f |-> m.f,
                       a |-> m.a, after |-> Answered, routed |-> Subscribed(m.inst, m.f)]
      <3>3. q \in Requests /\ ShapeOf(q) \in Shapes
        BY <1>5, <3>1, IssuedType, MenuAssumption
      <3>4. q.i = Len(calls) + 1
        OBVIOUS
      <3>5. calls' = Append(calls, q) /\ (down' = Append(down, q) \/ down' = down)
        BY <3>2
      <3> HIDE DEF q
      <3> QED
        BY <3>3, <3>4, <3>5
    <2>2. /\ Len(calls) < MaxCalls /\ callId' = callId /\ children' = children
          /\ calls \in Seq(Requests) /\ down \in Seq(Requests)
          /\ callId \in Int
      BY <1>5, BoundAssumption DEF ClientCalls, agentVars, TypeOK
    <2>3. /\ Len(calls') = Len(calls) + 1 /\ DOMAIN calls' = DOMAIN calls \cup {q.i}
          /\ calls'[q.i] = q /\ \A n \in DOMAIN calls : calls'[n] = calls[n]
      BY <2>1, <2>2
    <2>4. CallsNumbered'
      BY <2>1, <2>2, <2>3, BoundAssumption DEF CallInv, CallsNumbered
    <2>5. QueueKnown'
      <3>1. CASE down' = down
        BY <3>1, <2>2, <2>3 DEF CallInv, QueueKnown
      <3>2. CASE down' = Append(down, q)
        <4>1. /\ Len(down') = Len(down) + 1
              /\ \A n \in DOMAIN down' : down'[n] = q \/ (n \in DOMAIN down /\ down'[n] = down[n])
          BY <3>2, <2>2
        <4> QED
          BY <4>1, <2>2, <2>3 DEF CallInv, QueueKnown
      <3> QED
        BY <2>1, <3>1, <3>2
    <2>6. ForksMatch'
      BY <2>2, <2>3 DEF CallInv, ForksMatch, Evaluating
    <2> QED
      BY <2>4, <2>5, <2>6 DEF CallInv
  <1>6. ASSUME NEW c \in Clients, ClientReceives(c)
        PROVE  CallInv'
    BY <1>6, CallInvFrame DEF ClientReceives, agentVars, Evaluating
  <1>7. CASE UNCHANGED vars
    BY <1>7, CallInvFrame DEF vars, agentVars, clientVars, Evaluating
  <1> QED
    BY <1>1, <1>2, <1>3, <1>4, <1>5, <1>6, <1>7 DEF Next

(* TypeOK, as an invariant of the specification: the agent's variables,    *)
(* the queues and what clients hold keep their types whatever is called.   *)
THEOREM TypeCorrect == Spec => []TypeOK
  <1>1. Init => TypeOK /\ CallInv
    BY TypeInit, CallInvInit
  <1>2. TypeOK /\ CallInv /\ [Next]_vars => TypeOK' /\ CallInv'
    BY TypeStep, CallInvStep
  <1> QED
    BY <1>1, <1>2, PTL DEF Spec

----------------------------------------------------------------------------
(* Every reply answers the call it names. *)

LEMMA RepliesFit ==
    RepliesAnswerTheirCalls <=> \A p \in AllReplies : ReplyFits(p)
  BY DEF RepliesAnswerTheirCalls, ReplyFits

(* A reply under the context of a call fits it when its outcome does. *)
LEMMA ContextFits ==
    ASSUME NEW i \in DOMAIN calls, calls[i].i = i, NEW tag, NEW fn, NEW inst,
           fn = Target(calls[i]),
           inst = IF Administers(calls[i]) THEN calls[i].a ELSE calls[i].inst,
           tag \in (IF ~Administers(calls[i]) THEN {"value", "error"}
                   ELSE IF calls[i].f = "__createShared__" THEN {"created"}
                   ELSE {"deleted", "unknown"})
    PROVE  ReplyFits(Reply(Context(calls[i]), Outcome(tag, fn, inst)))
  BY DEF ReplyFits, Answers, Reply, Context, Outcome, Target

(* Steps that leave the calls alone and add only fitting replies. *)
LEMMA RepliesFrame ==
    ASSUME RepliesAnswerTheirCalls, calls' = calls,
           \A p \in AllReplies' : p \in AllReplies \/ ReplyFits(p)
    PROVE  RepliesAnswerTheirCalls'
  BY DEF RepliesAnswerTheirCalls, ReplyFits, Answers

LEMMA RepliesInit == Init => RepliesAnswerTheirCalls
  BY DEF Init, RepliesAnswerTheirCalls, AllReplies, RepliesIn

LEMMA RepliesStep ==
    TypeOK /\ CallInv /\ RepliesAnswerTheirCalls /\ [Next]_vars => RepliesAnswerTheirCalls'
  <1> SUFFICES ASSUME TypeOK, CallInv, RepliesAnswerTheirCalls, [Next]_vars
               PROVE  RepliesAnswerTheirCalls'
    OBVIOUS
  <1>1. CASE HandleConnack
    <2>1. RepliesIn(up') \subseteq RepliesIn(up)
      <3>1. \A p \in RepliesIn(ConnackPackets) : FALSE
        BY ConnackAt DEF RepliesIn, AgentInfo, ClassInfo, Subscribe
      <3>2. up \in Seq(Packets) /\ ConnackPackets \in Seq(Packets)
        BY PacketTypes DEF TypeOK
      <3>3. up' = up \o ConnackPackets \/ up' = up
        BY <1>1 DEF HandleConnack
      <3> QED
        BY <3>1, <3>2, <3>3, RepliesInConcat
    <2> QED
      BY <1>1, <2>1, RepliesFrame DEF HandleConnack, AllReplies, brokerVars, clientVars
  <1>2. CASE HandlePublish
    <2> DEFINE q == Head(down)
               j == Context(q)
               id == callId + 1
    <2>1. down # <<>>
      BY <1>2 DEF HandlePublish, RequestWaiting
    <2>2. /\ q \in Requests /\ ShapeOf(q) \in Shapes /\ id \in CallIds /\ j \in Contexts
          /\ q.i \in DOMAIN calls /\ q = calls[q.i]
      BY <2>1, HeadOfDown, ContextType
    <2>3. /\ calls' = calls /\ inbox' = inbox /\ got' = got
          /\ CreateShared(q, j) \/ Delete(q, j) \/ VrpcCall(q, id, j) \/ Catch(q, j)
      BY <1>2 DEF HandlePublish, brokerVars, clientVars
    <2>4. calls[q.i].i = q.i
      BY <2>2
    <2>5. up \in Seq(Packets)
      BY DEF TypeOK
    <2>6. \A p \in RepliesIn(up') : p \in RepliesIn(up) \/ ReplyFits(p)
      <3> HIDE DEF q, id
      <3>1. CASE CreateShared(q, j)
        <4>1. q.a \in Instances /\ Administers(q) /\ q.f = "__createShared__" /\ Target(q) = q.f
          BY <3>1, <2>2, ShapeFacts DEF CreateShared, Administers, Target
        <4>2. CreatePackets(q.a, j) \in Seq(Packets) /\ up' = up \o CreatePackets(q.a, j)
          BY <3>1, <4>1, <2>2, PacketTypes DEF CreateShared
        <4>3. \A p \in RepliesIn(CreatePackets(q.a, j)) :
                 p = Reply(j, Outcome("created", "__createShared__", q.a))
          BY DEF RepliesIn, CreatePackets, Subscribe, ClassInfo
        <4>4. ReplyFits(Reply(j, Outcome("created", "__createShared__", q.a)))
          BY <4>1, <2>2, <2>4, ContextFits
        <4> QED
          BY <4>2, <4>3, <4>4, <2>5, RepliesInConcat
      <3>2. CASE Delete(q, j)
        <4>1. q.a \in Instances /\ Administers(q) /\ q.f = "__delete__" /\ Target(q) = q.f
          BY <3>2, <2>2, ShapeFacts DEF Delete, Administers, Target
        <4>2. DeletePackets(q.a, j) \in Seq(Packets) /\ up' = up \o DeletePackets(q.a, j)
          BY <3>2, <4>1, <2>2, PacketTypes DEF Delete
        <4>3. \A p \in RepliesIn(DeletePackets(q.a, j)) :
                 \E tag \in {"deleted", "unknown"} : p = Reply(j, Outcome(tag, "__delete__", q.a))
          BY DEF RepliesIn, DeletePackets, DeleteAnswer, Unsubscribe, ClassInfo
        <4>4. \A tag \in {"deleted", "unknown"} : ReplyFits(Reply(j, Outcome(tag, "__delete__", q.a)))
          BY <4>1, <2>2, <2>4, ContextFits
        <4> QED
          BY <4>2, <4>3, <4>4, <2>5, RepliesInConcat
      <3>3. CASE VrpcCall(q, id, j)
        BY <3>3 DEF VrpcCall
      <3>4. CASE Catch(q, j)
        <4>1. ~Administers(q)
          BY <3>4 DEF Catch, Administers, Evaluates
        <4> DEFINE p == Reply(j, Outcome("error", Target(q), q.inst))
        <4>2. ReplyFits(p)
          BY <4>1, <2>2, <2>4, ContextFits
        <4>3. Outcome("error", Target(q), q.inst) \in Outcomes
          BY <2>2, ShapeFacts DEF Outcome, Outcomes, Requests
        <4>4. p \in Packets
          BY <4>3, <2>2, ReplyType DEF Packets
        <4>5. up' = Append(up, p)
          BY <3>4 DEF Catch
        <4> HIDE DEF p
        <4> QED
          BY <4>2, <4>4, <4>5, <2>5, RepliesInAppend
      <3> QED
        BY <2>3, <3>1, <3>2, <3>3, <3>4
    <2> QED
      BY <2>3, <2>6, RepliesFrame DEF AllReplies
  <1>3. ASSUME NEW id \in CallIds, ExecutionDone(id)
        PROVE  RepliesAnswerTheirCalls'
    <2>1. PICK tag \in {"value", "error"} :
             up' = Append(up, Reply(AwaitedOf(id), Outcome(tag, children[id].fn, children[id].inst)))
      BY <1>3 DEF ExecutionDone
    <2>2. PICK n \in DOMAIN calls :
            /\ Evaluates(calls[n])
            /\ children[id].table[id] = Context(calls[n])
            /\ children[id].fn = Target(calls[n])
            /\ children[id].inst = calls[n].inst
      BY <1>3 DEF ExecutionDone, CallInv, ForksMatch
    <2> DEFINE p == Reply(AwaitedOf(id), Outcome(tag, children[id].fn, children[id].inst))
    <2>3. calls[n].i = n /\ ~Administers(calls[n])
      BY <2>2 DEF CallInv, CallsNumbered, Administers, Evaluates
    <2>4. ReplyFits(p)
      BY <2>2, <2>3, ContextFits DEF AwaitedOf
    <2>5. p \in Packets /\ up \in Seq(Packets)
      <3>1. children[id] \in Children /\ AwaitedOf(id) \in Contexts
        BY <1>3 DEF ExecutionDone, Evaluating, AwaitedOf, TypeOK, Children, Tables
      <3>2. Outcome(tag, children[id].fn, children[id].inst) \in Outcomes
        BY <3>1 DEF Outcome, Outcomes, Children
      <3> QED
        BY <3>1, <3>2, ReplyType DEF Packets, TypeOK
    <2>6. \A r \in RepliesIn(up') : r \in RepliesIn(up) \/ ReplyFits(r)
      <3> HIDE DEF p
      <3> QED
        BY <2>1, <2>4, <2>5, RepliesInAppend DEF p
    <2> QED
      BY <1>3, <2>6, RepliesFrame DEF ExecutionDone, AllReplies, brokerVars, clientVars
  <1>4. ASSUME NEW id \in CallIds, ChildDies(id) \/ ChildQuits(id)
        PROVE  RepliesAnswerTheirCalls'
    BY <1>4, RepliesFrame DEF ChildDies, ChildQuits, AllReplies, brokerVars, clientVars
  <1>5. CASE BrokerReads
    <2>1. up \in Seq(Packets) /\ up # <<>> /\ up' = Tail(up) /\ calls' = calls /\ got' = got
      BY <1>5 DEF BrokerReads, TypeOK, clientVars
    <2>2. RepliesIn(up') \subseteq RepliesIn(up)
      BY <2>1, RepliesInTail
    <2>3. \A c \in Clients : RepliesIn(inbox'[c]) \subseteq RepliesIn(inbox[c]) \cup RepliesIn(up)
      <3>1. CASE inbox' = inbox
        BY <3>1
      <3>2. CASE /\ Head(up).type = "reply"
                 /\ inbox' = [inbox EXCEPT ![Head(up).s] = Append(@, Head(up))]
        <4>1. Head(up) \in Replies /\ Head(up).s \in Clients /\ Head(up) \in RepliesIn(up)
          BY <2>1, <3>2 DEF Packets, Replies, RepliesIn
        <4>2. inbox[Head(up).s] \in Seq(Replies)
          BY <4>1 DEF TypeOK
        <4>3. RepliesIn(Append(inbox[Head(up).s], Head(up)))
                \subseteq RepliesIn(inbox[Head(up).s]) \cup {Head(up)}
          BY <4>1, <4>2, RepliesInAppend
        <4> QED
          BY <3>2, <4>1, <4>3 DEF TypeOK
      <3> QED
        BY <1>5, <3>1, <3>2 DEF BrokerReads
    <2> QED
      BY <2>1, <2>2, <2>3, RepliesFrame DEF AllReplies
  <1>6. ASSUME NEW c \in Clients, ClientCalls(c)
        PROVE  RepliesAnswerTheirCalls'
    <2>1. PICK q : calls' = Append(calls, q)
      BY <1>6 DEF ClientCalls
    <2>2. \A i \in DOMAIN calls : i \in DOMAIN calls' /\ calls'[i] = calls[i]
      BY <2>1 DEF TypeOK
    <2>3. AllReplies' = AllReplies
      BY <1>6 DEF ClientCalls, AllReplies, brokerVars
    <2> QED
      BY <2>2, <2>3 DEF RepliesAnswerTheirCalls, Answers
  <1>7. ASSUME NEW c \in Clients, ClientReceives(c)
        PROVE  RepliesAnswerTheirCalls'
    <2>1. /\ inbox[c] \in Seq(Replies) /\ inbox[c] # <<>> /\ got \in Seq(Replies)
          /\ up' = up /\ calls' = calls /\ got' = Append(got, Head(inbox[c]))
          /\ inbox' = [inbox EXCEPT ![c] = Tail(@)]
      BY <1>7 DEF ClientReceives, TypeOK
    <2>2. Head(inbox[c]) \in Replies /\ Head(inbox[c]) \in RepliesIn(inbox[c])
      <3>1. Head(inbox[c]) = inbox[c][1] /\ 1 \in DOMAIN inbox[c] /\ Head(inbox[c]) \in Replies
        BY <2>1
      <3>2. Head(inbox[c]).type = "reply"
        BY <3>1 DEF Replies
      <3> QED
        BY <3>1, <3>2 DEF RepliesIn
    <2>3. RepliesIn(got') \subseteq RepliesIn(got) \cup {Head(inbox[c])}
      BY <2>1, <2>2, RepliesInAppend
    <2>4. \A d \in Clients : RepliesIn(inbox'[d]) \subseteq RepliesIn(inbox[d])
      BY <2>1, RepliesInTail DEF TypeOK
    <2> QED
      BY <2>1, <2>2, <2>3, <2>4, RepliesFrame DEF AllReplies
  <1>8. CASE UNCHANGED vars
    BY <1>8, RepliesFrame DEF vars, AllReplies, brokerVars, clientVars
  <1> QED
    BY <1>1, <1>2, <1>3, <1>4, <1>5, <1>6, <1>7, <1>8 DEF Next

(* Every reply, on the socket, on its way or received, names a call that   *)
(* was issued and answers that call: its sender, function, class or        *)
(* instance, and the function that ran in its session are that call's.     *)
THEOREM RepliesCorrect == Spec => []RepliesAnswerTheirCalls
  <1> DEFINE Inv == TypeOK /\ CallInv /\ RepliesAnswerTheirCalls
  <1>1. Init => Inv
    BY TypeInit, CallInvInit, RepliesInit
  <1>2. Inv /\ [Next]_vars => Inv'
    BY TypeStep, CallInvStep, RepliesStep
  <1> QED
    BY <1>1, <1>2, PTL DEF Spec
=============================================================================
