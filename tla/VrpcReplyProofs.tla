-------------------------- MODULE VrpcReplyProofs --------------------------
(* Proofs about VrpcAgent: no call is answered twice, however the publish  *)
(* handler, the forks, the socket and the clients' inboxes interleave.     *)
(* Each request is followed through the places where it can be: the queue  *)
(* of the agent, a fork, the socket, an inbox, a client.                   *)
EXTENDS VrpcAgentProofs

(* The numbers of the calls that wait for the agent, that a fork evaluates, *)
(* and that a reply to is written or arriving.  Answered holds those whose *)
(* client received one.                                                    *)
Numbers(s) == {p.i : p \in RepliesIn(s)}
Waiting    == {down[n].i : n \in DOMAIN down}
Running    == {children[id].table[id].i : id \in {k \in CallIds : Evaluating(k)}}
Written    == Numbers(up)
Arriving   == UNION {Numbers(inbox[c]) : c \in Clients}

(* A queue holds one reply of each number. *)
Once(s) ==
    \A m, n \in DOMAIN s :
        s[m].type = "reply" /\ s[n].type = "reply" /\ s[m].i = s[n].i => m = n

(* Nothing is in two positions of one place ...                            *)
OncePerPlace ==
    /\ \A m, n \in DOMAIN down : down[m].i = down[n].i => m = n
    /\ \A a, b \in CallIds :
          Evaluating(a) /\ Evaluating(b) /\ children[a].table[a].i = children[b].table[b].i => a = b
    /\ Once(up) /\ Once(got)
    /\ \A c \in Clients : Once(inbox[c])
    /\ \A c, d \in Clients : c # d => Numbers(inbox[c]) \cap Numbers(inbox[d]) = {}

(* ... nor in two places.                                                  *)
OnePlace ==
    /\ Waiting \cap Running = {} /\ Waiting \cap Written = {}
    /\ Waiting \cap Arriving = {} /\ Waiting \cap Answered = {}
    /\ Running \cap Written = {} /\ Running \cap Arriving = {} /\ Running \cap Answered = {}
    /\ Written \cap Arriving = {} /\ Written \cap Answered = {}
    /\ Arriving \cap Answered = {}

(* Whatever is in a place was issued. *)
Placed == Waiting \cup Running \cup Written \cup Arriving \cup Answered

ReplyInv == TypeOK /\ CallInv /\ RepliesAnswerTheirCalls /\ OncePerPlace /\ OnePlace

----------------------------------------------------------------------------
(* Queues. *)
LEMMA ConcatAt ==
    ASSUME NEW S, NEW s \in Seq(S), NEW t \in Seq(S)
    PROVE  /\ s \o t \in Seq(S) /\ Len(s \o t) = Len(s) + Len(t)
           /\ Len(s) \in Nat /\ Len(t) \in Nat
           /\ DOMAIN s = 1..Len(s) /\ DOMAIN t = 1..Len(t)
           /\ DOMAIN (s \o t) = 1..(Len(s) + Len(t))
           /\ \A n \in DOMAIN s : (s \o t)[n] = s[n]
           /\ \A n \in DOMAIN t : (s \o t)[Len(s) + n] = t[n]
           /\ \A n \in DOMAIN (s \o t) :
                 n \in DOMAIN s \/ (n - Len(s) \in DOMAIN t /\ (s \o t)[n] = t[n - Len(s)])
  OBVIOUS

LEMMA ConcatOne ==
    ASSUME NEW S, NEW a \in S, NEW t \in Seq(S)
    PROVE  /\ Len(<<a>> \o t) = 1 + Len(t) /\ DOMAIN (<<a>> \o t) = 1..(1 + Len(t))
           /\ (<<a>> \o t)[1] = a
           /\ \A n \in 1..Len(t) : (<<a>> \o t)[n + 1] = t[n]
  <1>1. <<a>> \in Seq(S) /\ Len(<<a>>) = 1 /\ <<a>>[1] = a
    OBVIOUS
  <1> QED
    BY <1>1, ConcatAt

LEMMA TailAt ==
    ASSUME NEW S, NEW s \in Seq(S), s # <<>>
    PROVE  /\ Tail(s) \in Seq(S) /\ Head(s) = s[1] /\ Head(s) \in S
           /\ Len(s) \in Nat \ {0} /\ DOMAIN s = 1..Len(s)
           /\ DOMAIN Tail(s) = 1..(Len(s) - 1) /\ Len(Tail(s)) = Len(s) - 1
           /\ \A n \in DOMAIN Tail(s) : n + 1 \in DOMAIN s /\ Tail(s)[n] = s[n + 1]
           /\ \A n \in DOMAIN s : n # 1 => n - 1 \in DOMAIN Tail(s) /\ Tail(s)[n - 1] = s[n]
  OBVIOUS

LEMMA InNumbers ==
    ASSUME NEW s, NEW i
    PROVE  i \in Numbers(s) <=> \E n \in DOMAIN s : s[n].type = "reply" /\ s[n].i = i
  BY DEF Numbers, RepliesIn

LEMMA OnceAppend ==
    ASSUME NEW S, NEW s \in Seq(S), NEW p \in S, Once(s), p.type = "reply", p.i \notin Numbers(s)
    PROVE  Once(Append(s, p)) /\ Numbers(Append(s, p)) = Numbers(s) \cup {p.i}
  <1> DEFINE t == Append(s, p)
  <1>1. /\ DOMAIN t = DOMAIN s \cup {Len(s) + 1} /\ t[Len(s) + 1] = p
        /\ Len(s) + 1 \notin DOMAIN s /\ \A n \in DOMAIN s : t[n] = s[n]
    OBVIOUS
  <1> HIDE DEF t
  <1>2. \A n \in DOMAIN s : ~(s[n].type = "reply" /\ s[n].i = p.i)
    BY InNumbers
  <1>3. Once(t)
    BY <1>1, <1>2 DEF Once
  <1>4. \A i : i \in Numbers(t) <=> i \in Numbers(s) \/ i = p.i
    BY <1>1, InNumbers
  <1> QED
    BY <1>3, <1>4 DEF t

LEMMA OnceConcat ==
    ASSUME NEW S, NEW s \in Seq(S), NEW t \in Seq(S), Once(s), Once(t),
           Numbers(s) \cap Numbers(t) = {}
    PROVE  Once(s \o t) /\ Numbers(s \o t) = Numbers(s) \cup Numbers(t)
  <1> DEFINE u == s \o t
  <1>1. /\ \A n \in DOMAIN s : n \in DOMAIN u /\ u[n] = s[n]
        /\ \A n \in DOMAIN t : Len(s) + n \in DOMAIN u /\ u[Len(s) + n] = t[n]
        /\ \A n \in DOMAIN u :
              n \in DOMAIN s \/ (n - Len(s) \in DOMAIN t /\ u[n] = t[n - Len(s)])
        /\ DOMAIN u \subseteq Int /\ Len(s) \in Int
    BY ConcatAt
  <1> HIDE DEF u
  <1>2. \A m \in DOMAIN s, n \in DOMAIN t :
            ~(s[m].type = "reply" /\ t[n].type = "reply" /\ s[m].i = t[n].i)
    BY InNumbers
  <1>3. ASSUME NEW m \in DOMAIN u, NEW n \in DOMAIN u, u[m].type = "reply", u[n].type = "reply",
               u[m].i = u[n].i
        PROVE  m = n
    <2>1. CASE m \in DOMAIN s /\ n \in DOMAIN s
      BY <1>1, <1>3, <2>1 DEF Once
    <2>2. CASE m \notin DOMAIN s /\ n \notin DOMAIN s
      <3>1. m - Len(s) = n - Len(s)
        BY <1>1, <1>3, <2>2 DEF Once
      <3> QED
        BY <1>1, <3>1
    <2> QED
      BY <1>1, <1>2, <1>3, <2>1, <2>2
  <1>4. \A i : i \in Numbers(u) <=> i \in Numbers(s) \/ i \in Numbers(t)
    BY <1>1, InNumbers
  <1> QED
    BY <1>3, <1>4 DEF u, Once

LEMMA OnceTail ==
    ASSUME NEW S, NEW s \in Seq(S), s # <<>>, Once(s)
    PROVE  /\ Once(Tail(s)) /\ Numbers(Tail(s)) \subseteq Numbers(s)
           /\ Head(s).type = "reply" =>
                 Head(s).i \in Numbers(s) /\ Head(s).i \notin Numbers(Tail(s))
  <1> DEFINE t == Tail(s)
  <1>1. /\ \A n \in DOMAIN t : n + 1 \in DOMAIN s /\ t[n] = s[n + 1]
        /\ Head(s) = s[1] /\ 1 \in DOMAIN s /\ DOMAIN t \subseteq Nat \ {0}
    BY TailAt
  <1> HIDE DEF t
  <1>2. Once(t)
    <2> SUFFICES ASSUME NEW m \in DOMAIN t, NEW n \in DOMAIN t, t[m].type = "reply",
                        t[n].type = "reply", t[m].i = t[n].i
                 PROVE  m = n
      BY DEF Once
    <2>1. m + 1 = n + 1
      BY <1>1 DEF Once
    <2> QED
      BY <1>1, <2>1
  <1>3. Numbers(t) \subseteq Numbers(s)
    BY <1>1, InNumbers
  <1>4. ASSUME Head(s).type = "reply"
        PROVE  Head(s).i \in Numbers(s) /\ Head(s).i \notin Numbers(t)
    <2>1. Head(s).i \in Numbers(s)
      BY <1>1, <1>4, InNumbers
    <2>2. \A n \in DOMAIN t : ~(t[n].type = "reply" /\ t[n].i = Head(s).i)
      <3> SUFFICES ASSUME NEW n \in DOMAIN t, t[n].type = "reply", t[n].i = Head(s).i
                   PROVE  FALSE
        OBVIOUS
      <3>1. n + 1 = 1
        BY <1>1, <1>4 DEF Once
      <3> QED
        BY <1>1, <3>1
    <2> QED
      BY <2>1, <2>2, InNumbers
  <1> QED
    BY <1>2, <1>3, <1>4 DEF t

LEMMA CreatePacketsAt ==
    ASSUME NEW x, NEW j
    PROVE  /\ Len(CreatePackets(x, j)) = 3 /\ DOMAIN CreatePackets(x, j) = 1..3
           /\ CreatePackets(x, j)[1] = Subscribe(InstanceFilter(x))
           /\ CreatePackets(x, j)[2] = ClassInfo(Append(instances, x))
           /\ CreatePackets(x, j)[3] = Reply(j, Outcome("created", "__createShared__", x))
  BY DEF CreatePackets

LEMMA DeletePacketsAt ==
    ASSUME NEW x, NEW j
    PROVE  /\ DeletePackets(x, j)[1] = Unsubscribe(InstanceFilter(x))
           /\ Listed(x) =>
                 /\ Len(DeletePackets(x, j)) = 3 /\ DOMAIN DeletePackets(x, j) = 1..3
                 /\ DeletePackets(x, j)[2] = ClassInfo(WithoutFirst(x))
                 /\ DeletePackets(x, j)[3] = Reply(j, Outcome("deleted", "__delete__", x))
           /\ ~Listed(x) =>
                 /\ Len(DeletePackets(x, j)) = 2 /\ DOMAIN DeletePackets(x, j) = 1..2
                 /\ DeletePackets(x, j)[2] = Reply(j, Outcome("unknown", "__delete__", x))
  <1> DEFINE s == DeletePackets(x, j)
             U == Unsubscribe(InstanceFilter(x))
             L == ClassInfo(WithoutFirst(x))
             D == Reply(j, Outcome("deleted", "__delete__", x))
             K == Reply(j, Outcome("unknown", "__delete__", x))
  <1>1. CASE Listed(x)
    <2>1. s = <<U>> \o <<L, D>>
      BY <1>1 DEF DeletePackets, DeleteAnswer
    <2> HIDE DEF U, L, D, s
    <2>2. <<L, D>> \in Seq({U, L, D}) /\ Len(<<L, D>>) = 2 /\ <<L, D>>[1] = L /\ <<L, D>>[2] = D
      OBVIOUS
    <2>3. Len(s) = 3 /\ DOMAIN s = 1..3 /\ s[1] = U /\ s[2] = L /\ s[3] = D
      BY <2>1, <2>2, ConcatOne
    <2> QED
      BY <1>1, <2>3 DEF s, U, L, D
  <1>2. CASE ~Listed(x)
    <2>1. s = <<U>> \o <<K>>
      BY <1>2 DEF DeletePackets, DeleteAnswer
    <2> HIDE DEF U, K, s
    <2>2. <<K>> \in Seq({U, K}) /\ Len(<<K>>) = 1 /\ <<K>>[1] = K
      OBVIOUS
    <2>3. Len(s) = 2 /\ DOMAIN s = 1..2 /\ s[1] = U /\ s[2] = K
      BY <2>1, <2>2, ConcatOne
    <2> QED
      BY <1>2, <2>3 DEF s, U, K
  <1> QED
    BY <1>1, <1>2

(* What the handlers write answers at most the request they handle. *)
LEMMA NoReplies ==
    ASSUME NEW s, \A n \in DOMAIN s : s[n].type # "reply"
    PROVE  Once(s) /\ Numbers(s) = {}
  BY InNumbers DEF Once

LEMMA PacketNumbers ==
    ASSUME TypeOK
    PROVE  /\ Once(ConnackPackets) /\ Numbers(ConnackPackets) = {}
           /\ \A x \in Instances, j \in Contexts :
                 /\ Once(CreatePackets(x, j)) /\ Numbers(CreatePackets(x, j)) = {j.i}
                 /\ Once(DeletePackets(x, j)) /\ Numbers(DeletePackets(x, j)) = {j.i}
  <1>1. \A n \in DOMAIN ConnackPackets : ConnackPackets[n].type # "reply"
    BY ConnackAt DEF AgentInfo, ClassInfo, Subscribe
  <1>2. ASSUME NEW x \in Instances, NEW j \in Contexts
        PROVE  Once(CreatePackets(x, j)) /\ Numbers(CreatePackets(x, j)) = {j.i}
    <2> DEFINE s == CreatePackets(x, j)
    <2>1. /\ DOMAIN s = 1..3 /\ s[1].type = "subscribe" /\ s[2].type = "classInfo"
          /\ s[3].type = "reply" /\ s[3].i = j.i
      BY DEF CreatePackets, Subscribe, ClassInfo, Reply
    <2> HIDE DEF s
    <2>2. Once(s)
      BY <2>1 DEF Once
    <2>3. \A i : i \in Numbers(s) <=> i = j.i
      BY <2>1, InNumbers
    <2> QED
      BY <2>2, <2>3 DEF s
  <1>3. ASSUME NEW x \in Instances, NEW j \in Contexts
        PROVE  Once(DeletePackets(x, j)) /\ Numbers(DeletePackets(x, j)) = {j.i}
    <2> DEFINE s == DeletePackets(x, j)
    <2>1. \/ /\ DOMAIN s = 1..3 /\ s[1].type = "unsubscribe" /\ s[2].type = "classInfo"
             /\ s[3].type = "reply" /\ s[3].i = j.i
          \/ /\ DOMAIN s = 1..2 /\ s[1].type = "unsubscribe"
             /\ s[2].type = "reply" /\ s[2].i = j.i
      <3>1. /\ Unsubscribe(InstanceFilter(x)).type = "unsubscribe"
            /\ ClassInfo(WithoutFirst(x)).type = "classInfo"
            /\ \A out : Reply(j, out).type = "reply" /\ Reply(j, out).i = j.i
        BY DEF Unsubscribe, ClassInfo, Reply
      <3> QED
        BY <3>1, DeletePacketsAt
    <2> HIDE DEF s
    <2>2. Once(s)
      BY <2>1 DEF Once
    <2>3. \A i : i \in Numbers(s) <=> i = j.i
      BY <2>1, InNumbers
    <2> QED
      BY <2>2, <2>3 DEF s
  <1> QED
    BY <1>1, <1>2, <1>3, NoReplies

----------------------------------------------------------------------------
(* Each action moves at most one call to its next place. *)
LEMMA AnsweredNumbers ==
    ASSUME TypeOK
    PROVE  Answered = Numbers(got) /\ \A n \in DOMAIN got : got[n].type = "reply"
  <1>1. \A n \in DOMAIN got : got[n] \in Replies
    BY DEF TypeOK
  <1>2. \A p \in Replies : p.type = "reply"
    BY DEF Replies
  <1>3. \A i : i \in Answered <=> i \in Numbers(got)
    BY <1>1, <1>2, InNumbers DEF Answered
  <1> QED
    BY <1>1, <1>2, <1>3

LEMMA PlacedIssued ==
    ASSUME ReplyInv
    PROVE  Placed \subseteq DOMAIN calls
  <1>1. Waiting \subseteq DOMAIN calls
    BY DEF ReplyInv, CallInv, QueueKnown, Waiting
  <1>2. Running \subseteq DOMAIN calls
    <2> SUFFICES ASSUME NEW id \in CallIds, Evaluating(id)
                 PROVE  children[id].table[id].i \in DOMAIN calls
      BY DEF Running
    <2>1. PICK n \in DOMAIN calls : children[id].table[id] = Context(calls[n])
      BY DEF ReplyInv, CallInv, ForksMatch
    <2> QED
      BY <2>1 DEF ReplyInv, CallInv, CallsNumbered, Context
  <1>3. \A p \in AllReplies : p.i \in DOMAIN calls
    BY DEF ReplyInv, RepliesAnswerTheirCalls
  <1>4. Written \subseteq DOMAIN calls /\ Arriving \subseteq DOMAIN calls
    BY <1>3 DEF Written, Arriving, Numbers, AllReplies
  <1>5. Answered \subseteq DOMAIN calls
    <2>1. \A n \in DOMAIN got : got[n].type = "reply"
      BY AnsweredNumbers DEF ReplyInv
    <2> QED
      BY <1>3, <2>1 DEF Answered, AllReplies, RepliesIn
  <1> QED
    BY <1>1, <1>2, <1>4, <1>5 DEF Placed

(* Taking the first request off the queue. *)
LEMMA DownShrinks ==
    ASSUME TypeOK, OncePerPlace, down # <<>>, down' = Tail(down)
    PROVE  /\ Waiting' \subseteq Waiting /\ Head(down).i \in Waiting /\ Head(down).i \notin Waiting'
           /\ \A m, n \in DOMAIN down' : down'[m].i = down'[n].i => m = n
  <1>1. /\ \A n \in DOMAIN down' : n + 1 \in DOMAIN down /\ down'[n] = down[n + 1]
        /\ Head(down) = down[1] /\ 1 \in DOMAIN down /\ DOMAIN down' \subseteq Nat \ {0}
    BY TailAt DEF TypeOK
  <1>2. \A m, n \in DOMAIN down : down[m].i = down[n].i => m = n
    BY DEF OncePerPlace
  <1>3. \A m, n \in DOMAIN down' : down'[m].i = down'[n].i => m = n
    <2> SUFFICES ASSUME NEW m \in DOMAIN down', NEW n \in DOMAIN down', down'[m].i = down'[n].i
                 PROVE  m = n
      OBVIOUS
    <2>1. m + 1 = n + 1
      BY <1>1, <1>2
    <2> QED
      BY <1>1, <2>1
  <1>4. \A n \in DOMAIN down' : down'[n].i # Head(down).i
    <2> SUFFICES ASSUME NEW n \in DOMAIN down', down'[n].i = Head(down).i
                 PROVE  FALSE
      OBVIOUS
    <2>1. n + 1 = 1
      BY <1>1, <1>2
    <2> QED
      BY <1>1, <2>1
  <1> QED
    BY <1>1, <1>3, <1>4 DEF Waiting

(* The parent answers a request, or the handler's exception does. *)
LEMMA ParentAnswers ==
    ASSUME ReplyInv, down # <<>>, down' = Tail(down), children' = children,
           inbox' = inbox, got' = got,
           NEW t \in Seq(Packets), up' = up \o t, Once(t), Numbers(t) = {Head(down).i}
    PROVE  OncePerPlace' /\ OnePlace'
  <1> DEFINE i == Head(down).i
  <1>1. TypeOK /\ OncePerPlace /\ OnePlace
    BY DEF ReplyInv
  <1>2. /\ Waiting' \subseteq Waiting /\ i \in Waiting /\ i \notin Waiting'
        /\ \A m, n \in DOMAIN down' : down'[m].i = down'[n].i => m = n
    BY <1>1, DownShrinks
  <1>3. Running' = Running /\ Arriving' = Arriving /\ Answered' = Answered
    BY DEF Running, Evaluating, Arriving, Answered
  <1>4. Once(up') /\ Written' = Written \cup {i}
    <2>1. Once(up) /\ up \in Seq(Packets) /\ Numbers(up) \cap Numbers(t) = {}
      BY <1>1, <1>2 DEF OncePerPlace, OnePlace, TypeOK, Written
    <2> QED
      BY <2>1, OnceConcat DEF Written
  <1>5. OncePerPlace'
    BY <1>1, <1>2, <1>4 DEF OncePerPlace, Evaluating
  <1>6. OnePlace'
    <2> HIDE DEF i
    <2> QED
      BY <1>1, <1>2, <1>3, <1>4 DEF OnePlace
  <1> QED
    BY <1>5, <1>6

LEMMA HandlePublishOnce ==
    ASSUME ReplyInv, HandlePublish
    PROVE  OncePerPlace' /\ OnePlace'
  <1> DEFINE q == Head(down)
             j == Context(q)
             id == callId + 1
  <1>1. TypeOK /\ CallInv /\ OncePerPlace /\ OnePlace /\ up \in Seq(Packets)
    BY DEF ReplyInv, TypeOK
  <1>2. down # <<>>
    BY DEF HandlePublish, RequestWaiting
  <1>3. /\ q \in Requests /\ ShapeOf(q) \in Shapes /\ id \in CallIds /\ j \in Contexts /\ j.i = q.i
    BY <1>1, <1>2, HeadOfDown, ContextType DEF Context
  <1>4. /\ down' = Tail(down) /\ inbox' = inbox /\ got' = got
        /\ CreateShared(q, j) \/ Delete(q, j) \/ VrpcCall(q, id, j) \/ Catch(q, j)
    BY DEF HandlePublish, brokerVars, clientVars
  <1> HIDE DEF id, j
  <1>5. CASE CreateShared(q, j)
    <2>1. q.a \in Instances
      BY <1>3, <1>5, ShapeFacts DEF CreateShared, Administers
    <2>2. /\ CreatePackets(q.a, j) \in Seq(Packets) /\ up' = up \o CreatePackets(q.a, j)
          /\ children' = children
      BY <1>1, <1>3, <1>5, <2>1, PacketTypes DEF CreateShared
    <2>3. Once(CreatePackets(q.a, j)) /\ Numbers(CreatePackets(q.a, j)) = {q.i}
      BY <1>1, <1>3, <2>1, PacketNumbers
    <2> QED
      BY <1>2, <1>4, <2>2, <2>3, ParentAnswers
  <1>6. CASE Delete(q, j)
    <2>1. q.a \in Instances
      BY <1>3, <1>6, ShapeFacts DEF Delete, Administers
    <2>2. /\ DeletePackets(q.a, j) \in Seq(Packets) /\ up' = up \o DeletePackets(q.a, j)
          /\ children' = children
      BY <1>1, <1>3, <1>6, <2>1, PacketTypes DEF Delete
    <2>3. Once(DeletePackets(q.a, j)) /\ Numbers(DeletePackets(q.a, j)) = {q.i}
      BY <1>1, <1>3, <2>1, PacketNumbers
    <2> QED
      BY <1>2, <1>4, <2>2, <2>3, ParentAnswers
  <1>7. CASE Catch(q, j)
    <2> DEFINE p == Reply(j, Outcome("error", Target(q), q.inst))
    <2>1. p \in Packets /\ p.type = "reply" /\ p.i = q.i
      <3>1. Outcome("error", Target(q), q.inst) \in Outcomes
        BY <1>3, ShapeFacts DEF Outcome, Outcomes, Requests
      <3>2. p \in Packets
        BY <1>3, <3>1, ReplyType DEF Packets
      <3> QED
        BY <1>3, <3>2 DEF Reply
    <2>2. up' = Append(up, p) /\ children' = children
      BY <1>7 DEF Catch
    <2> HIDE DEF p
    <2>3. up' = up \o <<p>> /\ <<p>> \in Seq(Packets)
      BY <1>1, <2>1, <2>2, AppendIsConcat
    <2>4. Once(<<p>>) /\ Numbers(<<p>>) = {q.i}
      <3>1. DOMAIN <<p>> = {1} /\ <<p>>[1] = p
        OBVIOUS
      <3>2. \A k : k \in Numbers(<<p>>) <=> k = q.i
        BY <2>1, <3>1, InNumbers
      <3> QED
        BY <3>1, <3>2 DEF Once
    <2> QED
      BY <1>2, <1>4, <2>2, <2>3, <2>4, ParentAnswers
  <1>8. CASE VrpcCall(q, id, j)
    <2> DEFINE i == q.i
    <2>1. /\ children' = [children EXCEPT ![id] = Fork(id, q, Registered(id, j))] /\ up' = up
      BY <1>8 DEF VrpcCall
    <2>2. children'[id].table[id].i = i /\ \A k \in CallIds \ {id} : children'[k] = children[k]
      <3>1. Registered(id, j)[id] = j
        BY <1>1, <1>3, ForkType DEF j
      <3> QED
        BY <1>1, <1>3, <2>1, <3>1 DEF Fork, TypeOK
    <2>3. /\ Waiting' \subseteq Waiting /\ i \in Waiting /\ i \notin Waiting'
          /\ \A m, n \in DOMAIN down' : down'[m].i = down'[n].i => m = n
      BY <1>1, <1>2, <1>4, DownShrinks
    <2>4. Written' = Written /\ Arriving' = Arriving /\ Answered' = Answered
      BY <1>4, <2>1 DEF Written, Arriving, Answered
    <2>5. Running' \subseteq Running \cup {i}
      BY <2>2 DEF Running, Evaluating
    <2>6. \A k \in CallIds \ {id} : Evaluating(k)' => Evaluating(k) /\ children'[k].table[k].i # i
      <3>1. i \notin Running
        BY <1>1, <2>3 DEF OnePlace
      <3> QED
        BY <2>2, <3>1 DEF Running, Evaluating
    <2>7. \A a, b \in CallIds :
              Evaluating(a)' /\ Evaluating(b)' /\ children'[a].table[a].i = children'[b].table[b].i
                  => a = b
      BY <1>1, <1>3, <2>2, <2>6 DEF OncePerPlace
    <2>8. OncePerPlace'
      BY <1>1, <1>4, <2>1, <2>3, <2>7 DEF OncePerPlace
    <2>9. OnePlace'
      <3> HIDE DEF i
      <3> QED
        BY <1>1, <2>3, <2>4, <2>5 DEF OnePlace
    <2> QED
      BY <2>8, <2>9
  <1> QED
    BY <1>4, <1>5, <1>6, <1>7, <1>8

LEMMA ExecutionDoneOnce ==
    ASSUME ReplyInv, NEW id \in CallIds, ExecutionDone(id)
    PROVE  OncePerPlace' /\ OnePlace'
  <1> DEFINE i == AwaitedOf(id).i
  <1>1. TypeOK /\ CallInv /\ OncePerPlace /\ OnePlace /\ up \in Seq(Packets)
    BY DEF ReplyInv, TypeOK
  <1>2. PICK p \in Packets : up' = Append(up, p) /\ p.type = "reply" /\ p.i = i
    <2>1. PICK tag \in {"value", "error"} :
             up' = Append(up, Reply(AwaitedOf(id), Outcome(tag, children[id].fn, children[id].inst)))
      BY DEF ExecutionDone
    <2>2. children[id] \in Children /\ AwaitedOf(id) \in Contexts
      BY <1>1 DEF ExecutionDone, Evaluating, AwaitedOf, TypeOK, Children, Tables
    <2>3. Outcome(tag, children[id].fn, children[id].inst) \in Outcomes
      BY <2>2 DEF Outcome, Outcomes, Children
    <2>4. Reply(AwaitedOf(id), Outcome(tag, children[id].fn, children[id].inst)) \in Packets
      BY <2>2, <2>3, ReplyType DEF Packets
    <2> QED
      BY <2>1, <2>4 DEF Reply
  <1>3. Evaluating(id) /\ down' = down /\ inbox' = inbox /\ got' = got
    BY DEF ExecutionDone, brokerVars, clientVars
  <1>4. \A k \in CallIds : Evaluating(k)' => k # id /\ Evaluating(k) /\ children'[k] = children[k]
    <2>1. children'[id].st = "sleeping" /\ \A k \in CallIds \ {id} : children'[k] = children[k]
      BY <1>1 DEF ExecutionDone, Evaluating, TypeOK, Children
    <2> QED
      BY <2>1 DEF Evaluating
  <1>5. i \in Running /\ Running' \subseteq Running /\ i \notin Running'
    BY <1>1, <1>3, <1>4 DEF Running, AwaitedOf, OncePerPlace
  <1>6. Waiting' = Waiting /\ Arriving' = Arriving /\ Answered' = Answered
    BY <1>3 DEF Waiting, Arriving, Answered
  <1>7. Once(up') /\ Written' = Written \cup {i}
    <2>1. Once(up) /\ i \notin Numbers(up)
      BY <1>1, <1>5 DEF OncePerPlace, OnePlace, Written
    <2> QED
      BY <1>1, <1>2, <2>1, OnceAppend DEF Written
  <1>8. OncePerPlace'
    BY <1>1, <1>3, <1>4, <1>7 DEF OncePerPlace
  <1>9. OnePlace'
    <2> HIDE DEF i
    <2> QED
      BY <1>1, <1>5, <1>6, <1>7 DEF OnePlace
  <1> QED
    BY <1>8, <1>9

(* Steps that write nothing and change no queue, and start no fork. *)
LEMMA OnceFrame ==
    ASSUME ReplyInv, down' = down, up' = up, inbox' = inbox, got' = got,
           \A k \in CallIds : Evaluating(k)' => Evaluating(k) /\ children'[k] = children[k]
    PROVE  OncePerPlace' /\ OnePlace'
  <1>1. Running' \subseteq Running /\ Waiting' = Waiting /\ Written' = Written
        /\ Arriving' = Arriving /\ Answered' = Answered
    BY DEF Running, Waiting, Written, Arriving, Answered
  <1>2. OnePlace'
    BY <1>1 DEF ReplyInv, OnePlace
  <1>3. OncePerPlace'
    BY DEF ReplyInv, OncePerPlace
  <1> QED
    BY <1>2, <1>3

LEMMA ConnackOnce ==
    ASSUME ReplyInv, HandleConnack
    PROVE  OncePerPlace' /\ OnePlace'
  <1>1. TypeOK /\ OncePerPlace /\ OnePlace /\ up \in Seq(Packets)
    BY DEF ReplyInv, TypeOK
  <1>2. down' = down /\ children' = children /\ inbox' = inbox /\ got' = got
    BY DEF HandleConnack, brokerVars, clientVars
  <1>3. Once(up') /\ Written' = Written
    <2>1. /\ ConnackPackets \in Seq(Packets) /\ Once(ConnackPackets) /\ Numbers(ConnackPackets) = {}
      BY <1>1, PacketTypes, PacketNumbers
    <2>2. Once(up \o ConnackPackets) /\ Numbers(up \o ConnackPackets) = Numbers(up)
      <3>1. Once(up) /\ Numbers(up) \cap Numbers(ConnackPackets) = {}
        BY <1>1, <2>1 DEF OncePerPlace
      <3>2. /\ Once(up \o ConnackPackets)
            /\ Numbers(up \o ConnackPackets) = Numbers(up) \cup Numbers(ConnackPackets)
        BY <1>1, <2>1, <3>1, OnceConcat
      <3> QED
        BY <2>1, <3>2
    <2>3. up' = up \o ConnackPackets \/ up' = up
      BY DEF HandleConnack
    <2> QED
      BY <1>1, <2>2, <2>3 DEF Written, OncePerPlace
  <1>4. /\ Running' = Running /\ Waiting' = Waiting /\ Arriving' = Arriving /\ Answered' = Answered
    BY <1>2 DEF Running, Evaluating, Waiting, Arriving, Answered
  <1> QED
    BY <1>1, <1>2, <1>3, <1>4 DEF OncePerPlace, OnePlace, Evaluating

LEMMA BrokerReadsOnce ==
    ASSUME ReplyInv, BrokerReads
    PROVE  OncePerPlace' /\ OnePlace'
  <1> DEFINE p == Head(up)
  <1>1. TypeOK /\ OncePerPlace /\ OnePlace /\ up \in Seq(Packets)
    BY DEF ReplyInv, TypeOK
  <1>2. /\ down' = down /\ children' = children /\ got' = got /\ up # <<>> /\ up' = Tail(up)
        /\ \/ inbox' = inbox
           \/ p.type = "reply" /\ inbox' = [inbox EXCEPT ![p.s] = Append(@, p)]
    BY DEF BrokerReads, agentVars, clientVars
  <1>3. /\ Once(up') /\ Written' \subseteq Written
        /\ p.type = "reply" => p.i \in Written /\ p.i \notin Written'
    BY <1>1, <1>2, OnceTail DEF OncePerPlace, Written
  <1>4. Running' = Running /\ Waiting' = Waiting /\ Answered' = Answered
    BY <1>2 DEF Running, Evaluating, Waiting, Answered
  <1>5. CASE inbox' = inbox
    <2>1. Arriving' = Arriving
      BY <1>5 DEF Arriving
    <2> QED
      BY <1>1, <1>2, <1>3, <1>4, <1>5, <2>1 DEF OncePerPlace, OnePlace, Evaluating
  <1>6. CASE p.type = "reply" /\ inbox' = [inbox EXCEPT ![p.s] = Append(@, p)]
    <2>1. p \in Replies /\ p.s \in Clients /\ inbox[p.s] \in Seq(Replies)
      <3>1. p \in Packets
        BY <1>1, <1>2, TailAt
      <3>2. p \in Replies
        BY <1>6, <3>1 DEF Packets
      <3> QED
        BY <1>1, <3>2 DEF Replies, TypeOK
    <2>2. p.i \notin Arriving
      BY <1>1, <1>3, <1>6 DEF OnePlace
    <2>3. p.i \notin Numbers(inbox[p.s])
      BY <2>1, <2>2 DEF Arriving
    <2> DEFINE b == Append(inbox[p.s], p)
    <2>4. Once(b) /\ Numbers(b) = Numbers(inbox[p.s]) \cup {p.i}
      BY <1>1, <1>6, <2>1, <2>3, OnceAppend DEF OncePerPlace
    <2>5. inbox'[p.s] = b /\ \A c \in Clients \ {p.s} : inbox'[c] = inbox[c]
      BY <1>1, <1>6, <2>1 DEF TypeOK
    <2> HIDE DEF b
    <2>6. Arriving' = Arriving \cup {p.i}
      <3>1. \A c \in Clients : Numbers(inbox'[c]) = IF c = p.s THEN Numbers(inbox[c]) \cup {p.i}
                                                    ELSE Numbers(inbox[c])
        BY <2>4, <2>5
      <3> HIDE DEF p
      <3> QED
        BY <2>1, <3>1 DEF Arriving
    <2>7. /\ \A c \in Clients : Once(inbox'[c])
          /\ \A c, d \in Clients : c # d => Numbers(inbox'[c]) \cap Numbers(inbox'[d]) = {}
      <3>1. \A c \in Clients : p.i \notin Numbers(inbox[c])
        BY <2>2 DEF Arriving
      <3>2. \A c, d \in Clients : c # d => Numbers(inbox[c]) \cap Numbers(inbox[d]) = {}
        BY <1>1 DEF OncePerPlace
      <3>3. \A c \in Clients : Once(inbox[c])
        BY <1>1 DEF OncePerPlace
      <3> HIDE DEF p
      <3> QED
        BY <2>4, <2>5, <3>1, <3>2, <3>3
    <2>8. OncePerPlace'
      BY <1>1, <1>2, <1>3, <2>7 DEF OncePerPlace, Evaluating
    <2>9. OnePlace'
      <3> HIDE DEF p
      <3> QED
        BY <1>1, <1>3, <1>4, <1>6, <2>6 DEF OnePlace
    <2> QED
      BY <2>8, <2>9
  <1> QED
    BY <1>2, <1>5, <1>6

LEMMA ClientReceivesOnce ==
    ASSUME ReplyInv, NEW c \in Clients, ClientReceives(c)
    PROVE  OncePerPlace' /\ OnePlace'
  <1> DEFINE p == Head(inbox[c])
  <1>1. TypeOK /\ OncePerPlace /\ OnePlace
    BY DEF ReplyInv
  <1>2. /\ down' = down /\ children' = children /\ up' = up
        /\ inbox[c] # <<>> /\ got' = Append(got, p) /\ inbox' = [inbox EXCEPT ![c] = Tail(@)]
        /\ inbox[c] \in Seq(Replies) /\ got \in Seq(Replies)
    BY <1>1 DEF ClientReceives, agentVars, TypeOK
  <1>3. p \in Replies /\ p.type = "reply"
    <2>1. p \in Replies
      BY <1>2, TailAt
    <2> QED
      BY <2>1 DEF Replies
  <1>4. /\ Once(Tail(inbox[c])) /\ Numbers(Tail(inbox[c])) \subseteq Numbers(inbox[c])
        /\ p.i \in Numbers(inbox[c]) /\ p.i \notin Numbers(Tail(inbox[c]))
    BY <1>1, <1>2, <1>3, OnceTail DEF OncePerPlace
  <1>5. inbox'[c] = Tail(inbox[c]) /\ \A d \in Clients \ {c} : inbox'[d] = inbox[d]
    BY <1>1, <1>2 DEF TypeOK
  <1>6. p.i \in Arriving /\ p.i \notin Answered
    BY <1>1, <1>4 DEF Arriving, OnePlace
  <1>7. Once(got') /\ Answered' = Answered \cup {p.i}
    <2>1. Answered = Numbers(got)
      BY <1>1, AnsweredNumbers
    <2>2. Once(got') /\ Numbers(got') = Numbers(got) \cup {p.i}
      BY <1>1, <1>2, <1>3, <1>6, <2>1, OnceAppend DEF OncePerPlace
    <2>3. Answered' = Answered \cup {p.i}
      <3>1. /\ DOMAIN got' = DOMAIN got \cup {Len(got) + 1} /\ got'[Len(got) + 1] = p
            /\ \A n \in DOMAIN got : got'[n] = got[n]
        BY <1>2, <1>3
      <3> HIDE DEF p
      <3> QED
        BY <3>1 DEF Answered
    <2> QED
      BY <2>2, <2>3
  <1>8. Arriving' \subseteq Arriving /\ p.i \notin Arriving'
    <2>1. \A d \in Clients : Numbers(inbox'[d]) \subseteq Numbers(inbox[d]) /\ p.i \notin Numbers(inbox'[d])
      BY <1>1, <1>4, <1>5 DEF OncePerPlace
    <2> HIDE DEF p
    <2> QED
      BY <2>1 DEF Arriving
  <1>9. Running' = Running /\ Waiting' = Waiting /\ Written' = Written
    BY <1>2 DEF Running, Evaluating, Waiting, Written
  <1>10. /\ \A d \in Clients : Once(inbox'[d])
         /\ \A d, e \in Clients : d # e => Numbers(inbox'[d]) \cap Numbers(inbox'[e]) = {}
    <2>1. /\ \A d \in Clients : Once(inbox[d])
          /\ \A d, e \in Clients : d # e => Numbers(inbox[d]) \cap Numbers(inbox[e]) = {}
      BY <1>1 DEF OncePerPlace
    <2> QED
      BY <1>4, <1>5, <2>1
  <1>11. OncePerPlace'
    BY <1>1, <1>2, <1>7, <1>10 DEF OncePerPlace, Evaluating
  <1>12. OnePlace'
    <2> HIDE DEF p
    <2> QED
      BY <1>1, <1>6, <1>7, <1>8, <1>9 DEF OnePlace
  <1> QED
    BY <1>11, <1>12

LEMMA ClientCallsOnce ==
    ASSUME ReplyInv, NEW c \in Clients, ClientCalls(c)
    PROVE  OncePerPlace' /\ OnePlace'
  <1>1. TypeOK /\ OncePerPlace /\ OnePlace /\ Placed \subseteq DOMAIN calls
    BY PlacedIssued DEF ReplyInv
  <1>2. PICK q : q.i = Len(calls) + 1 /\ (down' = Append(down, q) \/ down' = down)
    BY DEF ClientCalls
  <1>3. q.i \notin Placed
    BY <1>1, <1>2 DEF TypeOK
  <1>4. /\ up' = up /\ children' = children /\ inbox' = inbox /\ got' = got
        /\ Running' = Running /\ Written' = Written /\ Arriving' = Arriving /\ Answered' = Answered
    BY DEF ClientCalls, agentVars, brokerVars, Running, Evaluating, Written, Arriving, Answered
  <1>5. /\ Waiting' \subseteq Waiting \cup {q.i}
        /\ \A m, n \in DOMAIN down' : down'[m].i = down'[n].i => m = n
    <2>1. CASE down' = down
      BY <1>1, <2>1 DEF Waiting, OncePerPlace
    <2>2. CASE down' = Append(down, q)
      <3>1. /\ DOMAIN down' = DOMAIN down \cup {Len(down) + 1} /\ down'[Len(down) + 1] = q
            /\ \A n \in DOMAIN down : down'[n] = down[n]
        BY <1>1, <2>2 DEF TypeOK
      <3>2. \A n \in DOMAIN down : down[n].i # q.i
        BY <1>3 DEF Placed, Waiting
      <3> QED
        BY <1>1, <3>1, <3>2 DEF Waiting, OncePerPlace
    <2> QED
      BY <1>2, <2>1, <2>2
  <1>6. OncePerPlace'
    BY <1>1, <1>4, <1>5 DEF OncePerPlace, Evaluating
  <1>7. OnePlace'
    BY <1>1, <1>3, <1>4, <1>5 DEF OnePlace, Placed
  <1> QED
    BY <1>6, <1>7

LEMMA ReplyInvInit == Init => ReplyInv
  <1>1. Init => TypeOK /\ CallInv /\ RepliesAnswerTheirCalls
    BY TypeInit, CallInvInit, RepliesInit
  <1> SUFFICES ASSUME Init
               PROVE  OncePerPlace /\ OnePlace
    BY <1>1 DEF ReplyInv
  <1>2. /\ DOMAIN down = {} /\ DOMAIN up = {} /\ DOMAIN got = {}
        /\ \A c \in Clients : DOMAIN inbox[c] = {}
        /\ \A id \in CallIds : ~Evaluating(id)
    BY DEF Init, Evaluating
  <1>3. Once(up) /\ Once(got) /\ \A c \in Clients : Once(inbox[c])
    BY <1>2 DEF Once
  <1>4. /\ Written = {} /\ \A c \in Clients : Numbers(inbox[c]) = {}
    BY <1>2, InNumbers DEF Written
  <1>5. Waiting = {} /\ Running = {} /\ Arriving = {} /\ Answered = {}
    BY <1>2, <1>4 DEF Waiting, Running, Arriving, Answered
  <1> QED
    BY <1>2, <1>3, <1>4, <1>5 DEF OncePerPlace, OnePlace

LEMMA ReplyInvNext == ReplyInv /\ [Next]_vars => ReplyInv'
  <1>1. ReplyInv /\ [Next]_vars => TypeOK' /\ CallInv' /\ RepliesAnswerTheirCalls'
    BY TypeStep, CallInvStep, RepliesStep DEF ReplyInv
  <1> SUFFICES ASSUME ReplyInv, [Next]_vars
               PROVE  OncePerPlace' /\ OnePlace'
    BY <1>1 DEF ReplyInv
  <1>2. CASE HandleConnack
    BY <1>2, ConnackOnce
  <1>3. CASE HandlePublish
    BY <1>3, HandlePublishOnce
  <1>4. ASSUME NEW id \in CallIds, ExecutionDone(id)
        PROVE  OncePerPlace' /\ OnePlace'
    BY <1>4, ExecutionDoneOnce
  <1>5. ASSUME NEW id \in CallIds, ChildDies(id) \/ ChildQuits(id)
        PROVE  OncePerPlace' /\ OnePlace'
    <2>1. \A k \in CallIds : Evaluating(k)' => Evaluating(k) /\ children'[k] = children[k]
      <3>1. children'[id].st = "gone" /\ \A k \in CallIds \ {id} : children'[k] = children[k]
        BY <1>5 DEF ReplyInv, ChildDies, ChildQuits, Evaluating, TypeOK, Children
      <3> QED
        BY <3>1 DEF Evaluating
    <2> QED
      BY <1>5, <2>1, OnceFrame DEF ChildDies, ChildQuits, brokerVars, clientVars
  <1>6. CASE BrokerReads
    BY <1>6, BrokerReadsOnce
  <1>7. ASSUME NEW c \in Clients, ClientCalls(c) \/ ClientReceives(c)
        PROVE  OncePerPlace' /\ OnePlace'
    BY <1>7, ClientCallsOnce, ClientReceivesOnce
  <1>8. CASE UNCHANGED vars
    BY <1>8, OnceFrame DEF vars, brokerVars, clientVars, Evaluating
  <1> QED
    BY <1>2, <1>3, <1>4, <1>5, <1>6, <1>7, <1>8 DEF Next

(* At most one reply of a number in a queue, and none if it has none. *)
LEMMA RepliesToCard ==
    ASSUME NEW i, NEW s, Once(s)
    PROVE  /\ Cardinality(RepliesTo(i, s)) \in {0, 1}
           /\ i \notin Numbers(s) => Cardinality(RepliesTo(i, s)) = 0
  <1>1. CASE RepliesTo(i, s) = {}
    BY <1>1, FS_EmptySet
  <1>2. CASE RepliesTo(i, s) # {}
    <2>1. PICK n \in DOMAIN s : s[n].type = "reply" /\ s[n].i = i
      BY <1>2 DEF RepliesTo
    <2>2. RepliesTo(i, s) = {n}
      BY <2>1 DEF RepliesTo, Once
    <2>3. i \in Numbers(s)
      BY <2>1, InNumbers
    <2> QED
      BY <2>2, <2>3, FS_Singleton
  <1> QED
    BY <1>1, <1>2

LEMMA OneReply ==
    ReplyInv => OneReplyPerCall
  <1> SUFFICES ASSUME ReplyInv, NEW i \in DOMAIN calls
               PROVE  Cardinality(RepliesTo(i, up)) + Cardinality(RepliesTo(i, got))
                      + Cardinality(RepliesTo(i, inbox[calls[i].s])) <= 1
    BY DEF OneReplyPerCall
  <1> DEFINE s == inbox[calls[i].s]
  <1>1. calls[i].s \in Clients
    <2>1. calls[i] \in Requests
      BY DEF ReplyInv, TypeOK
    <2> QED
      BY <2>1 DEF Requests
  <1>2. Once(up) /\ Once(got) /\ Once(s)
    BY <1>1 DEF ReplyInv, OncePerPlace
  <1>3. /\ ~(i \in Numbers(up) /\ i \in Numbers(got))
        /\ ~(i \in Numbers(up) /\ i \in Numbers(s))
        /\ ~(i \in Numbers(s) /\ i \in Numbers(got))
    <2>1. Answered = Numbers(got)
      BY AnsweredNumbers DEF ReplyInv
    <2>2. Numbers(s) \subseteq Arriving
      BY <1>1 DEF Arriving
    <2> QED
      BY <2>1, <2>2 DEF ReplyInv, OnePlace, Written
  <1> QED
    BY <1>2, <1>3, RepliesToCard

(* No call is answered twice: not by the parent and a fork, not by two     *)
(* forks, and no reply is in two places on its way to the client.          *)
THEOREM AnsweredAtMostOnce == Spec => []OneReplyPerCall
  <1>1. ReplyInv => OneReplyPerCall
    BY OneReply
  <1> QED
    BY <1>1, ReplyInvInit, ReplyInvNext, PTL DEF Spec
=============================================================================
