-------------------------- MODULE MqttEndpointProofs --------------------------
(***************************************************************************)
(* Proofs about MqttEndpoint.  First for all constants: its types, and     *)
(* that a publish of the broker is handled before it is settled.  Then, for *)
(* users that wait for the CONNACK as the agent does (UsersWait): packet   *)
(* ids, stored publishes, single delivery, the order of first deliveries.  *)
(* Packets move through up and down in order, and each step drops some from *)
(* the front and adds some at the end; Follows describes that, and what    *)
(* the invariants say of packets and of pairs of them carries over by it.  *)
(***************************************************************************)
EXTENDS MqttEndpoint, TLAPS, SequenceTheorems, FiniteSetTheorems

(* t is s without its first d members and perhaps some of its last, then w. *)
Follows(t, s, d, w) ==
    /\ t \in Seq(Packets) /\ w \in Seq(Packets) /\ d \in Nat
    /\ \A n \in DOMAIN t :
          \/ n + d \in DOMAIN s /\ t[n] = s[n + d]
          \/ n + d - Len(s) \in DOMAIN w /\ t[n] = w[n + d - Len(s)]

LEMMA FollowsSame ==
    ASSUME NEW s \in Seq(Packets)
    PROVE  Follows(s, s, 0, <<>>)
  BY DEF Follows

LEMMA FollowsTail ==
    ASSUME NEW s \in Seq(Packets), s # <<>>
    PROVE  /\ Follows(Tail(s), s, 1, <<>>)
           /\ Head(s) \in Packets /\ 1 \in DOMAIN s /\ Head(s) = s[1]
  BY DEF Follows

LEMMA FollowsAll ==
    ASSUME NEW s \in Seq(Packets), NEW w \in Seq(Packets)
    PROVE  Follows(s \o w, s, 0, w)
  BY DEF Follows

LEMMA FollowsAppend ==
    ASSUME NEW s \in Seq(Packets), NEW p \in Packets
    PROVE  Follows(Append(s, p), s, 0, <<p>>)
  BY DEF Follows

LEMMA FollowsPrefix ==
    ASSUME NEW s \in Seq(Packets), NEW n \in 0..Len(s)
    PROVE  Follows(SubSeq(s, 1, n), s, 0, <<>>)
  BY DEF Follows

LEMMA FollowsNone ==
    ASSUME NEW s \in Seq(Packets)
    PROVE  Follows(<<>>, s, 0, <<>>)
  BY DEF Follows

(* What a kind of packet carries. *)
LEMMA PacketFields ==
    ASSUME NEW p \in Packets
    PROVE  /\ p.type = "publish" =>
                 /\ p.pid \in Ids /\ p.qos \in {1, 2} /\ p.m \in 1..(MaxMsgs + MaxIncoming)
                 /\ p = Publish(p.pid, p.qos, p.m)
           /\ p.type \in {"pubrel", "puback", "pubrec", "pubcomp", "subscribe", "suback",
                          "forked"} => p.pid \in Ids /\ p = Packet(p.type, p.pid)
           /\ p.type = "connack" => p.present \in BOOLEAN /\ p = Connack(p.present)
           /\ p.type \in {"publish", "pubrel", "puback", "pubrec", "pubcomp", "subscribe",
                          "suback", "forked", "connect", "connack"}
  BY DEF Packets, Publish, Packet, Connack

LEMMA PacketIs ==
    /\ \A pid \in Ids, qos \in {1, 2}, m \in 1..(MaxMsgs + MaxIncoming) :
          Publish(pid, qos, m) \in Packets
    /\ \A pid \in Ids, type \in {"pubrel", "puback", "pubrec", "pubcomp", "subscribe", "suback",
                                 "forked"} : Packet(type, pid) \in Packets
    /\ \A present \in BOOLEAN : Connack(present) \in Packets
    /\ \A clean \in BOOLEAN : [type |-> "connect", clean |-> clean] \in Packets
  BY DEF Packets, Publish, Packet, Connack

(* Written packets follow what is in up; without a connection they are lost. *)
Sent(w) == IF conn # "off" /\ link THEN w ELSE <<>>

LEMMA WrittenFollows ==
    ASSUME up \in Seq(Packets), NEW w \in Seq(Packets)
    PROVE  Follows(Written(w), up, 0, Sent(w))
  BY FollowsSame, FollowsAll DEF Written, Sent

LEMMA WrittenOne ==
    ASSUME up \in Seq(Packets), NEW p \in Packets
    PROVE  /\ Follows(Written(<<p>>), up, 0, Sent(<<p>>))
           /\ ~link => Sent(<<p>>) = <<>>
           /\ \A n \in DOMAIN Sent(<<p>>) : n = 1 /\ Sent(<<p>>)[n] = p
           /\ link /\ conn # "off" => Sent(<<p>>) = <<p>>
<1>1. <<p>> \in Seq(Packets) /\ DOMAIN <<p>> = {1} /\ <<p>>[1] = p
  OBVIOUS
<1>2. Follows(Written(<<p>>), up, 0, Sent(<<p>>))
  BY <1>1, WrittenFollows
<1>. QED  BY <1>1, <1>2 DEF Sent

----------------------------------------------------------------------------
(* What is known of the packets: the messages in them are messages made,   *)
(* and what is stored or sent of one is what it was made with.             *)
Bounds == Len(made) <= MaxMsgs /\ Len(incoming) <= MaxIncoming

DeliveredMade == \A n \in DOMAIN delivered : delivered[n] \in Msgs

MadeAs(p, ms) == p.type = "publish" => p.m \in DOMAIN ms /\ ms[p.m] = [qos |-> p.qos, pid |-> p.pid]
AllMade(ps, ms) == \A n \in DOMAIN ps : MadeAs(ps[n], ms)
UpMade == AllMade(up, made)

MadeBy(p, ms) == p.type = "publish" => p.m \in DOMAIN ms
AllMadeBy(ps, ms) == \A n \in DOMAIN ps : MadeBy(ps[n], ms)
DownMade == AllMadeBy(down, incoming)

EntryMade(e, ms) ==
    \/ e.expect = "pubcomp" /\ e.packet = Packet("pubrel", e.pid)
    \/ \E m \in DOMAIN ms : /\ ms[m].pid = e.pid /\ e.expect = Awaited(ms[m].qos)
                            /\ e.packet = Publish(e.pid, ms[m].qos, m)
EntriesMade(es, ms) == \A n \in DOMAIN es : EntryMade(es[n], ms)
StoreMade == EntriesMade(store, made)

(* A connection is opened with nothing in up or down. *)
Phases ==
    /\ conn = "off" => ~link /\ down = <<>>
    /\ ~link => up = <<>>
    /\ \A n \in DOMAIN up : up[n].type = "connect" => n = 1 /\ conn = "opening" /\ down = <<>>

(* A fork that has not published has the connection it was made on. *)
ForksLinked == \A n \in DOMAIN forks : forks[n] # {} => link /\ conn = "on"

Basic ==
    /\ TypeOK /\ Bounds /\ DeliveredMade /\ UpMade /\ DownMade /\ StoreMade
    /\ Phases /\ ForksLinked

(* One more message was made, or none. *)
Grows(ts, ss) == DOMAIN ss \subseteq DOMAIN ts /\ \A n \in DOMAIN ss : ts[n] = ss[n]

LEMMA GrowsAppend ==
    ASSUME NEW S, NEW s \in Seq(S), NEW e
    PROVE  Grows(Append(s, e), s)
  BY DEF Grows

(* The invariants about packets, for the packets that a step adds. *)
LEMMA AllMadeKept ==
    ASSUME NEW t, NEW s, NEW d, NEW w, Follows(t, s, d, w), NEW ms, NEW ns, Grows(ns, ms),
           AllMade(s, ms), AllMade(w, ns)
    PROVE  AllMade(t, ns)
  BY DEF AllMade, MadeAs, Follows, Grows

LEMMA AllMadeByKept ==
    ASSUME NEW t, NEW s, NEW d, NEW w, Follows(t, s, d, w), NEW ms, NEW ns,
           DOMAIN ms \subseteq DOMAIN ns,
           AllMadeBy(s, ms), AllMadeBy(w, ns)
    PROVE  AllMadeBy(t, ns)
  BY DEF AllMadeBy, MadeBy, Follows

LEMMA EntriesMadeKept ==
    ASSUME NEW es, NEW ms, NEW ns, Grows(ns, ms), EntriesMade(es, ms)
    PROVE  EntriesMade(es, ns)
  BY DEF EntriesMade, EntryMade, Grows

LEMMA MadeTyped ==
    ASSUME TypeOK, NEW m \in DOMAIN made
    PROVE  /\ made[m].qos \in {1, 2} /\ made[m].pid \in Ids /\ m \in Nat
           /\ made[m] = [qos |-> made[m].qos, pid |-> made[m].pid]
<1>1. made \in Seq([qos : {1, 2}, pid : Ids])  BY DEF TypeOK
<1>. DEFINE R == [qos : {1, 2}, pid : Ids]
<1>2. made \in Seq(R)  BY <1>1
<1>. HIDE DEF R
<1>3. made[m] \in R /\ m \in Nat  BY <1>2
<1>. QED  BY <1>3 DEF R

LEMMA StoreTyped ==
    ASSUME TypeOK
    PROVE  /\ store \in Seq(Entries)
           /\ \A n \in DOMAIN store :
                 /\ store[n].pid \in Ids /\ store[n].expect \in {"puback", "pubrec", "pubcomp"}
                 /\ store[n].packet \in Packets
<1>1. store \in Seq(Entries)  BY DEF TypeOK
<1>2. \A n \in DOMAIN store : store[n] \in Entries  BY <1>1
<1>. QED  BY <1>1, <1>2 DEF Entries

(* An entry holds the PUBREL of its id, or a message made with it. *)
LEMMA EntryKinds ==
    ASSUME TypeOK, StoreMade, NEW n \in DOMAIN store
    PROVE  \/ /\ store[n].expect = "pubcomp" /\ store[n].packet = Packet("pubrel", store[n].pid)
              /\ store[n].packet.type = "pubrel" /\ store[n].packet.pid = store[n].pid
           \/ /\ store[n].packet.type = "publish" /\ store[n].packet.pid = store[n].pid
              /\ store[n].packet.m \in DOMAIN made
              /\ store[n].packet.qos \in {1, 2}
              /\ made[store[n].packet.m] = [qos |-> store[n].packet.qos, pid |-> store[n].pid]
              /\ store[n].expect = Awaited(store[n].packet.qos)
              /\ store[n].packet = Publish(store[n].pid, store[n].packet.qos, store[n].packet.m)
<1>1. CASE store[n].expect = "pubcomp" /\ store[n].packet = Packet("pubrel", store[n].pid)
  BY <1>1 DEF Packet
<1>2. ASSUME NEW m \in DOMAIN made, made[m].pid = store[n].pid, store[n].expect = Awaited(made[m].qos),
             store[n].packet = Publish(store[n].pid, made[m].qos, m)
      PROVE  /\ store[n].packet.type = "publish" /\ store[n].packet.pid = store[n].pid
             /\ store[n].packet.m \in DOMAIN made
             /\ store[n].packet.qos \in {1, 2}
             /\ made[store[n].packet.m] = [qos |-> store[n].packet.qos, pid |-> store[n].pid]
             /\ store[n].expect = Awaited(store[n].packet.qos)
             /\ store[n].packet = Publish(store[n].pid, store[n].packet.qos, store[n].packet.m)
  BY <1>2, MadeTyped DEF Publish
<1>. QED  BY <1>1, <1>2 DEF StoreMade, EntriesMade, EntryMade

(* Messages stored are messages made. *)
LEMMA StoredMessagesMade ==
    ASSUME TypeOK, StoreMade
    PROVE  StoredMessages \subseteq DOMAIN made
  BY EntryKinds DEF StoredMessages

(* What is resent are the stored packets. *)
LEMMA ResentIs ==
    ASSUME TypeOK, StoreMade
    PROVE  /\ Resent \in Seq(Packets)
           /\ DOMAIN Resent = DOMAIN store /\ \A n \in DOMAIN store : Resent[n] = store[n].packet
           /\ AllMade(Resent, made)
           /\ \A n \in DOMAIN Resent : Resent[n].type \in {"publish", "pubrel"}
<1>1. Resent = [n \in 1..Len(store) |-> store[n].packet] /\ DOMAIN store = 1..Len(store)
  BY StoreTyped DEF Resent
<1>2. /\ Resent \in Seq(Packets) /\ DOMAIN Resent = DOMAIN store
      /\ \A n \in DOMAIN store : Resent[n] = store[n].packet
  BY <1>1, StoreTyped
<1>3. ASSUME NEW n \in DOMAIN store
      PROVE  MadeAs(store[n].packet, made) /\ store[n].packet.type \in {"publish", "pubrel"}
  BY EntryKinds DEF MadeAs
<1>. QED  BY <1>2, <1>3 DEF AllMade

(* Erasing takes one entry out and leaves the others in their order. *)
Without(s, i) == [n \in 1..(Len(s) - 1) |-> IF n < i THEN s[n] ELSE s[n + 1]]

LEMMA WithoutEntries ==
    ASSUME NEW s \in Seq(Entries), NEW i \in DOMAIN s
    PROVE  /\ RemoveAt(s, i) = Without(s, i)
           /\ Without(s, i) \in Seq(Entries) /\ DOMAIN Without(s, i) = 1..(Len(s) - 1)
<1>. DEFINE a == SubSeq(s, 1, i - 1)
            b == SubSeq(s, i + 1, Len(s))
<1>1. /\ a \in Seq(Entries) /\ Len(a) = i - 1 /\ \A n \in 1..(i - 1) : a[n] = s[n]
  OBVIOUS
<1>2. /\ b \in Seq(Entries) /\ Len(b) = Len(s) - i /\ \A n \in 1..(Len(s) - i) : b[n] = s[i + n]
  OBVIOUS
<1>3. RemoveAt(s, i) = a \o b  BY DEF RemoveAt
<1>. HIDE DEF a, b
<1>4. /\ a \o b \in Seq(Entries) /\ Len(a \o b) = Len(s) - 1
      /\ \A n \in 1..(Len(s) - 1) : (a \o b)[n] = IF n < i THEN s[n] ELSE s[n + 1]
  BY <1>1, <1>2
<1>5. a \o b = [n \in 1..Len(a \o b) |-> (a \o b)[n]]
  BY <1>4, LenProperties
<1>6. a \o b = [n \in 1..(Len(s) - 1) |-> IF n < i THEN s[n] ELSE s[n + 1]]
  BY <1>4, <1>5
<1>. QED  BY <1>3, <1>4, <1>6 DEF Without

LEMMA ErasedIs ==
    ASSUME store \in Seq(Entries), NEW pid, NEW expect
    PROVE  \/ ~IsStored(pid, expect) /\ Erased(pid, expect) = store
           \/ \E i \in DOMAIN store :
                 /\ store[i].pid = pid /\ store[i].expect = expect
                 /\ Erased(pid, expect) = Without(store, i)
  BY WithoutEntries DEF Erased, StoredAt, IsStored

----------------------------------------------------------------------------
(* Every step keeps the types, and what is known of the packets.           *)

(* The packets of a step that writes some of a kind and reads some.        *)
LEMMA PhasesKept ==
    ASSUME TypeOK, Phases, NEW d, NEW w, Follows(up', up, d, w), NEW e, NEW v, Follows(down', down, e, v),
           \A n \in DOMAIN w : w[n].type # "connect",
           link' = link, ~link => w = <<>>,
           conn' # conn => up = <<>> \/ up[1].type # "connect",
           conn' = "off" => ~link /\ down' = <<>>,
           v # <<>> => up = <<>> \/ up[1].type # "connect" \/ d > 0
    PROVE  Phases'
<1>1. /\ up \in Seq(Packets) /\ down \in Seq(Packets) /\ up' \in Seq(Packets) /\ down' \in Seq(Packets)
      /\ d \in Nat /\ e \in Nat /\ v \in Seq(Packets) /\ w \in Seq(Packets)
  BY DEF TypeOK, Follows
<1>2. ~link => up' = <<>>
  <2>1. SUFFICES ASSUME ~link, up' # <<>> PROVE FALSE
    OBVIOUS
  <2>2. up = <<>> /\ w = <<>>  BY <2>1 DEF Phases
  <2>3. 1 \in DOMAIN up'  BY <1>1, <2>1
  <2>. QED  BY <2>2, <2>3 DEF Follows
<1>3. ASSUME NEW n \in DOMAIN up', up'[n].type = "connect"
      PROVE  n = 1 /\ conn' = "opening" /\ down' = <<>>
  <2>1. n + d \in DOMAIN up /\ up'[n] = up[n + d]
    BY <1>3 DEF Follows
  <2>2. n + d = 1 /\ conn = "opening" /\ down = <<>>
    BY <1>3, <2>1 DEF Phases
  <2>3. n = 1 /\ d = 0  BY <1>1, <1>3, <2>2
  <2>4. up # <<>> /\ up[1].type = "connect"  BY <1>1, <1>3, <2>1, <2>2
  <2>5. v = <<>>  BY <2>3, <2>4
  <2>6. down' = <<>>
    <3>1. SUFFICES ASSUME down' # <<>> PROVE FALSE
      OBVIOUS
    <3>2. 1 \in DOMAIN down'  BY <1>1, <3>1
    <3>. QED  BY <2>2, <2>5, <3>2 DEF Follows
  <2>. QED  BY <2>2, <2>3, <2>4, <2>6
<1>. QED  BY <1>2, <1>3 DEF Phases

LEMMA PublishBasic ==
    ASSUME Basic, NEW qos \in Qos, DoPublish(qos)
    PROVE  Basic'
<1>0. PICK m : m = Len(made) + 1
  OBVIOUS
<1>1. PICK pid \in free :
         /\ MixesWith(pid)
         /\ made' = Append(made, [qos |-> qos, pid |-> pid])
         /\ free' = free \ {pid}
         /\ store' = Stored(Entry(pid, Awaited(qos), Publish(pid, qos, m)))
         /\ up' = Written(<<Publish(pid, qos, m)>>)
  BY <1>0 DEF DoPublish
<1>2. /\ Len(made) < MaxMsgs
      /\ UNCHANGED <<handledIds, handled, conn, inflight, link, down, session, received,
                     delivered, incoming, forks, dropped, orphaned, subs, breaks>>
  BY DEF DoPublish, inVars, brokerVars
<1>3. TypeOK /\ Bounds /\ DeliveredMade /\ UpMade /\ DownMade /\ StoreMade /\ Phases /\ ForksLinked
  BY DEF Basic
<1>4. /\ pid \in Ids /\ qos \in {1, 2} /\ m \in 1..(MaxMsgs + MaxIncoming) /\ m \in 1..MaxMsgs
      /\ Len(made) \in Nat
  BY <1>0, <1>2, <1>3, ConstantsAssumption DEF TypeOK
<1>5. Publish(pid, qos, m) \in Packets
  BY <1>4, PacketIs
<1>p. PICK p : p = Publish(pid, qos, m)
  OBVIOUS
<1>. DEFINE R == [qos : {1, 2}, pid : Ids]
<1>6. p.type = "publish" /\ p.m = m /\ p.qos = qos /\ p.pid = pid /\ p \in Packets
  BY <1>5, <1>p DEF Publish
<1>7. /\ made' \in Seq(R) /\ Grows(made', made) /\ Len(made') = m /\ DOMAIN made' = 1..m
      /\ made'[m] = [qos |-> qos, pid |-> pid] /\ made \in Seq(R)
  <2>1. [qos |-> qos, pid |-> pid] \in R  BY <1>4
  <2>2. made \in Seq(R)  BY <1>3 DEF TypeOK
  <2>. HIDE DEF R
  <2>. QED  BY <1>0, <1>1, <2>1, <2>2 DEF Grows
<1>8. MadeAs(p, made')
  BY <1>4, <1>6, <1>7 DEF MadeAs
<1>9. PICK w : /\ Follows(up', up, 0, w) /\ (~link => w = <<>>)
               /\ \A n \in DOMAIN w : w[n] = p
  <2>1. up \in Seq(Packets) /\ p \in Packets  BY <1>3, <1>6 DEF TypeOK
  <2>2. up' = Written(<<p>>)  BY <1>1, <1>p
  <2>3. /\ Follows(Written(<<p>>), up, 0, Sent(<<p>>))
        /\ ~link => Sent(<<p>>) = <<>>
        /\ \A n \in DOMAIN Sent(<<p>>) : Sent(<<p>>)[n] = p
    BY <2>1, WrittenOne
  <2>. QED  BY <2>2, <2>3
<1>10. UpMade'
  <2>1. AllMade(w, made')  BY <1>8, <1>9 DEF AllMade
  <2>. QED  BY <1>3, <1>7, <1>9, <2>1, AllMadeKept DEF UpMade
<1>. DEFINE e == Entry(pid, Awaited(qos), p)
<1>11. e \in Entries /\ EntryMade(e, made')
  BY <1>4, <1>6, <1>7, <1>p DEF Entries, Entry, Awaited, EntryMade
<1>12. store' \in Seq(Entries) /\ StoreMade'
  <2>1. EntriesMade(store, made')  BY <1>3, <1>7, EntriesMadeKept DEF StoreMade
  <2>2. store' = store \/ store' = Append(store, e)  BY <1>1, <1>p DEF Stored
  <2>3. store \in Seq(Entries)  BY <1>3 DEF TypeOK
  <2>. HIDE DEF e
  <2>. QED  BY <1>11, <2>1, <2>2, <2>3 DEF StoreMade, EntriesMade
<1>13. Phases'
  <2>1. \A n \in DOMAIN w : w[n].type # "connect"  BY <1>6, <1>9
  <2>2. Follows(down', down, 0, <<>>)  BY <1>2, <1>3, FollowsSame DEF TypeOK
  <2>. QED  BY <1>2, <1>3, <1>9, <2>1, <2>2, PhasesKept DEF Phases
<1>14. mixed' \subseteq Ids /\ up' \in Seq(Packets)
  BY <1>1, <1>3, <1>4, <1>9 DEF MixesWith, Follows, TypeOK
<1>15. TypeOK'
  <2>. HIDE DEF R
  <2>1. made' \in Seq([qos : {1, 2}, pid : Ids])  BY <1>7 DEF R
  <2>. QED  BY <1>1, <1>2, <1>3, <1>12, <1>14, <2>1 DEF TypeOK
<1>16. Bounds' /\ DeliveredMade' /\ DownMade' /\ ForksLinked'
  BY <1>2, <1>3, <1>4, <1>7 DEF Bounds, DeliveredMade, DownMade, ForksLinked, Msgs, Grows
<1>. QED  BY <1>10, <1>12, <1>13, <1>15, <1>16 DEF Basic

(* The steps that make no publish, by the packets they write and send. *)
LEMMA BasicKept ==
    ASSUME Basic, NEW d, NEW w, Follows(up', up, d, w), NEW e, NEW v, Follows(down', down, e, v),
           \A n \in DOMAIN w : w[n].type # "connect", AllMade(w, made),
           AllMadeBy(v, incoming'), DOMAIN incoming \subseteq DOMAIN incoming',
           TypeOK', Bounds', DeliveredMade', StoreMade', ForksLinked',
           made' = made, link' = link, ~link => w = <<>>,
           conn' # conn => up = <<>> \/ up[1].type # "connect",
           conn' = "off" => ~link /\ down' = <<>>,
           v # <<>> => up = <<>> \/ up[1].type # "connect" \/ d > 0
    PROVE  Basic'
<1>1. TypeOK /\ Phases /\ UpMade /\ DownMade  BY DEF Basic
<1>2. Phases'  BY <1>1, PhasesKept
<1>3. Grows(made', made)  BY DEF Grows
<1>4. UpMade'  BY <1>1, <1>3, AllMadeKept DEF UpMade
<1>5. DownMade'  BY <1>1, AllMadeByKept DEF DownMade
<1>. QED  BY <1>2, <1>4, <1>5 DEF Basic

(* Those that write one packet or none, and read one or none. *)
LEMMA WritesBasic ==
    ASSUME Basic, NEW w, Follows(up', up, 0, w), NEW e, Follows(down', down, e, <<>>),
           \A n \in DOMAIN w : w[n].type # "connect" /\ (w[n].type = "publish" => MadeAs(w[n], made)),
           ~link => w = <<>>,
           UNCHANGED <<link, made, delivered, incoming, session, received, orphaned>>,
           store' \in Seq(Entries), StoreMade', dropped' \subseteq 1..MaxMsgs,
           conn' # conn => up = <<>> \/ up[1].type # "connect",
           conn' \in {"off", "opening", "on"}, conn' = "off" => ~link /\ down' = <<>>,
           conn = "on" => conn' = "on" \/ ~link,
           free' \subseteq Ids, inflight' \subseteq Ids, mixed' \subseteq Ids,
           handledIds' \subseteq Ids, handled' \subseteq DOMAIN incoming,
           forks' \in Seq(SUBSET Ids),
           \A n \in DOMAIN forks' : forks'[n] # {} => (n \in DOMAIN forks /\ forks[n] # {}) \/ (link /\ conn = "on"),
           subs' \in 0..MaxSubs, breaks' \in 0..MaxBreaks
    PROVE  Basic'
<1>1. TypeOK /\ Bounds /\ DeliveredMade /\ ForksLinked
  BY DEF Basic
<1>2. up' \in Seq(Packets) /\ down' \in Seq(Packets)
  BY DEF Follows
<1>3. TypeOK'
  BY <1>1, <1>2 DEF TypeOK
<1>4. Bounds' /\ DeliveredMade' /\ ForksLinked'
  BY <1>1 DEF Bounds, DeliveredMade, Msgs, ForksLinked
<1>5. AllMadeBy(<<>>, incoming')  BY DEF AllMadeBy
<1>6. AllMade(w, made)  BY DEF AllMade, MadeAs
<1>. QED  BY <1>3, <1>4, <1>5, <1>6, BasicKept

LEMMA SubscribeBasic ==
    ASSUME Basic, DoSubscribe
    PROVE  Basic'
<1>1. PICK pid \in free : /\ MixesWith(pid) /\ free' = free \ {pid}
                          /\ inflight' = inflight \cup {pid}
                          /\ up' = Written(<<Packet("subscribe", pid)>>)
  BY DEF DoSubscribe
<1>2. /\ subs < MaxSubs /\ subs' = subs + 1
      /\ UNCHANGED <<handledIds, handled, conn, store, link, down, session, received, delivered,
                     incoming, forks, made, dropped, orphaned, breaks>>
  BY DEF DoSubscribe, inVars, brokerVars
<1>3. TypeOK /\ StoreMade /\ Phases  BY DEF Basic
<1>4. pid \in Ids /\ Packet("subscribe", pid) \in Packets
  BY <1>3, PacketIs DEF TypeOK
<1>p. PICK p : p = Packet("subscribe", pid)
  OBVIOUS
<1>5. PICK w : /\ Follows(up', up, 0, w) /\ (~link => w = <<>>) /\ \A n \in DOMAIN w : w[n] = p
  <2>1. up \in Seq(Packets) /\ p \in Packets  BY <1>3, <1>4, <1>p DEF TypeOK
  <2>2. up' = Written(<<p>>)  BY <1>1, <1>p
  <2>3. /\ Follows(Written(<<p>>), up, 0, Sent(<<p>>))
        /\ ~link => Sent(<<p>>) = <<>>
        /\ \A n \in DOMAIN Sent(<<p>>) : Sent(<<p>>)[n] = p
    BY <2>1, WrittenOne
  <2>. QED  BY <2>2, <2>3
<1>6. p.type = "subscribe"  BY <1>p DEF Packet
<1>7. Follows(down', down, 0, <<>>)  BY <1>2, <1>3, FollowsSame DEF TypeOK
<1>8. mixed' \subseteq Ids  BY <1>1, <1>3, <1>4 DEF MixesWith, TypeOK
<1>9. subs' \in 0..MaxSubs /\ StoreMade'
  BY <1>2, <1>3, ConstantsAssumption DEF TypeOK, StoreMade
<1>10. /\ store' \in Seq(Entries) /\ dropped' \subseteq 1..MaxMsgs /\ conn' \in {"off", "opening", "on"}
       /\ free' \subseteq Ids /\ inflight' \subseteq Ids /\ handledIds' \subseteq Ids
       /\ handled' \subseteq DOMAIN incoming /\ forks' \in Seq(SUBSET Ids) /\ breaks' \in 0..MaxBreaks
  BY <1>1, <1>2, <1>3, <1>4 DEF TypeOK
<1>11. conn' = "off" => ~link /\ down' = <<>>
  BY <1>2, <1>3 DEF Phases
<1>12. /\ \A n \in DOMAIN w : w[n].type # "connect" /\ (w[n].type = "publish" => MadeAs(w[n], made))
       /\ \A n \in DOMAIN forks' : forks'[n] # {} => (n \in DOMAIN forks /\ forks[n] # {}) \/ (link /\ conn = "on")
       /\ conn' = conn
  BY <1>2, <1>5, <1>6
<1>. QED  BY <1>2, <1>5, <1>7, <1>8, <1>9, <1>10, <1>11, <1>12, WritesBasic

LEMMA ForksBasic ==
    ASSUME Basic, Forks
    PROVE  Basic'
<1>1. /\ conn = "on" /\ forks' = Append(forks, IF link THEN free ELSE {})
      /\ UNCHANGED <<handledIds, handled, conn, free, store, inflight, link, up, down, session,
                     received, delivered, incoming, mixed, made, dropped, orphaned, subs, breaks>>
  BY DEF Forks, inVars, endpointVars, brokerVars, historyVars
<1>2. TypeOK /\ StoreMade  BY DEF Basic
<1>3. Follows(up', up, 0, <<>>) /\ Follows(down', down, 0, <<>>)
  BY <1>1, <1>2, FollowsSame DEF TypeOK
<1>w. PICK w : w = <<>> /\ \A n \in DOMAIN w : FALSE
  OBVIOUS
<1>4. /\ forks' \in Seq(SUBSET Ids)
      /\ \A n \in DOMAIN forks' : forks'[n] # {} => (n \in DOMAIN forks /\ forks[n] # {}) \/ (link /\ conn = "on")
  <2>1. (IF link THEN free ELSE {}) \in SUBSET Ids /\ forks \in Seq(SUBSET Ids)
    BY <1>2 DEF TypeOK
  <2>. QED  BY <1>1, <2>1
<1>5. /\ store' \in Seq(Entries) /\ dropped' \subseteq 1..MaxMsgs /\ conn' \in {"off", "opening", "on"}
      /\ free' \subseteq Ids /\ inflight' \subseteq Ids /\ handledIds' \subseteq Ids /\ mixed' \subseteq Ids
      /\ handled' \subseteq DOMAIN incoming /\ subs' \in 0..MaxSubs /\ breaks' \in 0..MaxBreaks
  BY <1>1, <1>2 DEF TypeOK
<1>6. StoreMade'  BY <1>1, <1>2 DEF StoreMade
<1>7. Follows(up', up, 0, w)  BY <1>3, <1>w
<1>. QED  BY <1>1, <1>3, <1>4, <1>5, <1>6, <1>7, <1>w, WritesBasic

LEMMA ForkPublishesBasic ==
    ASSUME Basic, NEW n \in DOMAIN forks, ForkPublishes(n)
    PROVE  Basic'
<1>1. PICK pid \in forks[n] : /\ up' = Append(up, Packet("forked", pid))
                              /\ mixed' = IF pid \in free THEN mixed ELSE mixed \cup {pid}
  BY DEF ForkPublishes
<1>2. /\ forks' = [forks EXCEPT ![n] = {}]
      /\ UNCHANGED <<handledIds, handled, conn, free, store, inflight, link, down, session,
                     received, delivered, incoming, made, dropped, orphaned, subs, breaks>>
  BY DEF ForkPublishes, inVars, endpointVars, brokerVars, historyVars
<1>3. TypeOK /\ StoreMade /\ ForksLinked  BY DEF Basic
<1>4. /\ forks' \in Seq(SUBSET Ids) /\ pid \in Ids
      /\ \A k \in DOMAIN forks' : forks'[k] # {} => k \in DOMAIN forks /\ forks[k] # {}
  <2>1. forks \in Seq(SUBSET Ids)  BY <1>3 DEF TypeOK
  <2>. QED  BY <1>1, <1>2, <2>1
<1>5. link /\ conn = "on"
  BY <1>1, <1>3 DEF ForksLinked
<1>p. PICK p : p = Packet("forked", pid)
  OBVIOUS
<1>6. p \in Packets /\ p.type = "forked"
  BY <1>4, <1>p, PacketIs DEF Packet
<1>7. Follows(up', up, 0, <<p>>) /\ \A k \in DOMAIN <<p>> : <<p>>[k] = p
  <2>1. up \in Seq(Packets)  BY <1>3 DEF TypeOK
  <2>. QED  BY <1>1, <1>6, <1>p, <2>1, FollowsAppend
<1>8. Follows(down', down, 0, <<>>)
  BY <1>2, <1>3, FollowsSame DEF TypeOK
<1>9. /\ store' \in Seq(Entries) /\ dropped' \subseteq 1..MaxMsgs /\ conn' \in {"off", "opening", "on"}
      /\ free' \subseteq Ids /\ inflight' \subseteq Ids /\ handledIds' \subseteq Ids /\ mixed' \subseteq Ids
      /\ handled' \subseteq DOMAIN incoming /\ subs' \in 0..MaxSubs /\ breaks' \in 0..MaxBreaks
  BY <1>1, <1>2, <1>3, <1>4 DEF TypeOK
<1>10. StoreMade'  BY <1>2, <1>3 DEF StoreMade
<1>q. PICK w : w = <<p>>
  OBVIOUS
<1>11. Follows(up', up, 0, w) /\ \A k \in DOMAIN w : w[k] = p
  BY <1>7, <1>q
<1>. QED  BY <1>2, <1>4, <1>5, <1>6, <1>8, <1>9, <1>10, <1>11, WritesBasic

LEMMA ConnectBasic ==
    ASSUME Basic, Connect
    PROVE  Basic'
<1>1. PICK clean \in CleanSessions : up' = <<[type |-> "connect", clean |-> clean]>>
  BY DEF Connect
<1>2. /\ conn = "off" /\ conn' = "opening" /\ link' = TRUE /\ down' = <<>>
      /\ UNCHANGED <<forks, mixed, handledIds, handled, free, store, inflight, session, received,
                     delivered, incoming, made, dropped, orphaned, subs, breaks>>
  BY DEF Connect, forkVars, inVars, brokerVars, historyVars
<1>3. TypeOK /\ Bounds /\ DeliveredMade /\ UpMade /\ DownMade /\ StoreMade /\ Phases /\ ForksLinked
  BY DEF Basic
<1>p. PICK p : p = [type |-> "connect", clean |-> clean]
  OBVIOUS
<1>4. p \in Packets /\ p.type = "connect"
  BY <1>p, PacketIs, ConstantsAssumption
<1>5. up' = <<p>> /\ up' \in Seq(Packets) /\ down' \in Seq(Packets) /\ DOMAIN up' = {1} /\ up'[1] = p
      /\ DOMAIN down' = {}
  BY <1>1, <1>2, <1>4, <1>p
<1>6. TypeOK'
  BY <1>2, <1>3, <1>5 DEF TypeOK
<1>7. Bounds' /\ DeliveredMade' /\ StoreMade'
  BY <1>2, <1>3 DEF Bounds, DeliveredMade, StoreMade, Msgs
<1>8. UpMade' /\ DownMade'
  BY <1>4, <1>5 DEF UpMade, DownMade, AllMade, MadeAs, AllMadeBy, MadeBy
<1>9. Phases'
  BY <1>2, <1>5 DEF Phases
<1>10. ForksLinked'
  BY <1>2, <1>3 DEF ForksLinked
<1>. QED  BY <1>6, <1>7, <1>8, <1>9, <1>10 DEF Basic

LEMMA HandleErrorBasic ==
    ASSUME Basic, HandleError
    PROVE  Basic'
<1>1. /\ conn' = "off" /\ ~link /\ down = <<>> /\ free' = free \cup inflight
      /\ UNCHANGED <<forks, mixed, handledIds, handled, store, inflight, link, up, down, session,
                     received, delivered, incoming, made, dropped, orphaned, subs, breaks>>
  BY DEF HandleError, forkVars, inVars, brokerVars, historyVars
<1>2. TypeOK /\ Bounds /\ DeliveredMade /\ UpMade /\ DownMade /\ StoreMade /\ Phases /\ ForksLinked
  BY DEF Basic
<1>3. TypeOK'
  BY <1>1, <1>2 DEF TypeOK
<1>4. Bounds' /\ DeliveredMade' /\ StoreMade' /\ UpMade' /\ DownMade'
  BY <1>1, <1>2 DEF Bounds, DeliveredMade, StoreMade, Msgs, UpMade, DownMade
<1>5. Phases' /\ ForksLinked'
  BY <1>1, <1>2 DEF Phases, ForksLinked, TypeOK
<1>. QED  BY <1>3, <1>4, <1>5 DEF Basic

(* What a handler finds: while it reads, no CONNECT is on its way. *)
LEMMA ReceivesIs ==
    ASSUME TypeOK, Phases, NEW type, Receives(type)
    PROVE  /\ conn # "off" /\ 1 \in DOMAIN down /\ Head(down) = down[1]
           /\ down[1] \in Packets /\ down[1].type = type
           /\ Follows(down', down, 1, <<>>) /\ down' = Tail(down)
           /\ \A n \in DOMAIN up : up[n].type # "connect"
<1>1. down \in Seq(Packets) /\ up \in Seq(Packets)  BY DEF TypeOK
<1>2. conn # "off" /\ down # <<>> /\ Head(down).type = type /\ down' = Tail(down)
  BY DEF Receives
<1>. QED  BY <1>1, <1>2, FollowsTail DEF Phases

(* Handlers that change the store and the ids only, and write one packet   *)
(* or none.                                                                *)
LEMMA HandlerBasic ==
    ASSUME Basic, NEW w, Follows(up', up, 0, w), NEW type, Receives(type),
           \A n \in DOMAIN w : w[n].type # "connect" /\ (w[n].type = "publish" => MadeAs(w[n], made)),
           ~link => w = <<>>,
           conn' \in {conn, "on"}, free' \subseteq Ids, inflight' \subseteq Ids,
           store' \in Seq(Entries), StoreMade', dropped' \subseteq 1..MaxMsgs,
           handledIds' \subseteq Ids, handled' \subseteq DOMAIN incoming,
           UNCHANGED <<link, made, brokerVars, forkVars, orphaned, subs, breaks>>
    PROVE  Basic'
<1>1. TypeOK /\ Phases  BY DEF Basic
<1>2. /\ conn # "off" /\ Follows(down', down, 1, <<>>)
      /\ \A n \in DOMAIN up : up[n].type # "connect"
  BY <1>1, ReceivesIs
<1>3. UNCHANGED <<delivered, incoming, session, received, forks, mixed>>
  BY DEF brokerVars, forkVars
<1>4. up = <<>> \/ up[1].type # "connect"
  <2>1. up \in Seq(Packets)  BY <1>1 DEF TypeOK
  <2>. QED  BY <1>2, <2>1
<1>5. /\ mixed' \subseteq Ids /\ forks' \in Seq(SUBSET Ids) /\ subs' \in 0..MaxSubs
      /\ breaks' \in 0..MaxBreaks /\ conn' \in {"off", "opening", "on"} /\ conn' # "off"
      /\ \A n \in DOMAIN forks' : forks'[n] # {} => n \in DOMAIN forks /\ forks[n] # {}
  BY <1>1, <1>2, <1>3 DEF TypeOK
<1>. QED  BY <1>2, <1>3, <1>4, <1>5, WritesBasic

LEMMA ErasedMade ==
    ASSUME TypeOK, StoreMade, NEW pid, NEW expect
    PROVE  Erased(pid, expect) \in Seq(Entries) /\ EntriesMade(Erased(pid, expect), made)
<1>1. store \in Seq(Entries)  BY DEF TypeOK
<1>2. CASE Erased(pid, expect) = store
  BY <1>1, <1>2 DEF StoreMade
<1>3. ASSUME NEW i \in DOMAIN store, Erased(pid, expect) = Without(store, i)
      PROVE  Erased(pid, expect) \in Seq(Entries) /\ EntriesMade(Erased(pid, expect), made)
  <2>1. /\ Without(store, i) \in Seq(Entries) /\ DOMAIN Without(store, i) = 1..(Len(store) - 1)
        /\ DOMAIN store = 1..Len(store) /\ Len(store) \in Nat
    BY <1>1, WithoutEntries
  <2>2. ASSUME NEW n \in 1..(Len(store) - 1)
        PROVE  EntryMade(Without(store, i)[n], made)
    <3>1. Without(store, i)[n] = store[n] \/ Without(store, i)[n] = store[n + 1]
      BY DEF Without
    <3>2. n \in DOMAIN store /\ n + 1 \in DOMAIN store
      BY <2>1
    <3>. QED  BY <3>1, <3>2 DEF StoreMade, EntriesMade
  <2>. QED  BY <1>3, <2>1, <2>2 DEF EntriesMade
<1>. QED  BY <1>1, <1>2, <1>3, ErasedIs

LEMMA AppendMade ==
    ASSUME NEW s \in Seq(Entries), NEW ms, EntriesMade(s, ms), NEW e \in Entries, EntryMade(e, ms)
    PROVE  Append(s, e) \in Seq(Entries) /\ EntriesMade(Append(s, e), ms)
  BY DEF EntriesMade

LEMMA PubrelEntry ==
    ASSUME NEW pid \in Ids, NEW ms
    PROVE  /\ Entry(pid, "pubcomp", Packet("pubrel", pid)) \in Entries
           /\ EntryMade(Entry(pid, "pubcomp", Packet("pubrel", pid)), ms)
<1>1. Packet("pubrel", pid) \in Packets  BY PacketIs
<1>. QED  BY <1>1 DEF Entry, Entries, EntryMade

LEMMA ConnackBasic ==
    ASSUME Basic, ProcessConnack
    PROVE  Basic'
<1>1. /\ Receives("connack") /\ conn' = "on"
      /\ UNCHANGED <<forkVars, handledIds, handled, inflight, link, brokerVars, made, orphaned,
                     subs, breaks>>
  BY DEF ProcessConnack, inVars
<1>2. TypeOK /\ StoreMade /\ Phases  BY DEF Basic
<1>3. CASE up' = Written(Resent) /\ UNCHANGED <<free, store, dropped>>
  <2>1. /\ Resent \in Seq(Packets) /\ AllMade(Resent, made)
        /\ \A n \in DOMAIN Resent : Resent[n].type \in {"publish", "pubrel"}
    BY <1>2, ResentIs
  <2>2. PICK w : w = Sent(Resent)
    OBVIOUS
  <2>3. /\ Follows(up', up, 0, w) /\ (~link => w = <<>>)
        /\ \A n \in DOMAIN w : w[n].type # "connect" /\ (w[n].type = "publish" => MadeAs(w[n], made))
    <3>1. up \in Seq(Packets)  BY <1>2 DEF TypeOK
    <3>2. Follows(Written(Resent), up, 0, Sent(Resent))  BY <2>1, <3>1, WrittenFollows
    <3>3. \A n \in DOMAIN w : n \in DOMAIN Resent /\ w[n] = Resent[n]
      BY <2>2 DEF Sent
    <3>. QED  BY <1>3, <2>1, <2>2, <3>2, <3>3 DEF AllMade, Sent
  <2>4. store' \in Seq(Entries) /\ StoreMade' /\ dropped' \subseteq 1..MaxMsgs /\ free' \subseteq Ids
    BY <1>1, <1>2, <1>3 DEF TypeOK, StoreMade
  <2>5. inflight' \subseteq Ids /\ handledIds' \subseteq Ids /\ handled' \subseteq DOMAIN incoming
    BY <1>1, <1>2 DEF TypeOK
  <2>. QED  BY <1>1, <2>3, <2>4, <2>5, HandlerBasic
<1>4. CASE free' = AllFree /\ store' = <<>> /\ up' = up /\ dropped' = dropped \cup StoredMessages
  <2>1. PICK w : w = <<>> /\ \A n \in DOMAIN w : FALSE
    OBVIOUS
  <2>2. Follows(up', up, 0, w)  BY <1>2, <1>4, <2>1, FollowsSame DEF TypeOK
  <2>3. dropped' \subseteq 1..MaxMsgs
    <3>1. DOMAIN made \subseteq 1..MaxMsgs
      <4>1. made \in Seq([qos : {1, 2}, pid : Ids]) /\ Len(made) <= MaxMsgs
        BY DEF Basic, TypeOK, Bounds
      <4>. QED  BY <4>1, ConstantsAssumption
    <3>. QED  BY <1>2, <1>4, <3>1, StoredMessagesMade DEF TypeOK
  <2>4. store' \in Seq(Entries) /\ StoreMade' /\ free' \subseteq Ids
    BY <1>4 DEF StoreMade, EntriesMade, AllFree
  <2>5. inflight' \subseteq Ids /\ handledIds' \subseteq Ids /\ handled' \subseteq DOMAIN incoming
    BY <1>1, <1>2 DEF TypeOK
  <2>. QED  BY <1>1, <2>1, <2>2, <2>3, <2>4, <2>5, HandlerBasic
<1>. QED  BY <1>3, <1>4 DEF ProcessConnack

(* PUBACK, PUBCOMP and SUBACK. *)
LEMMA SettlesBasic ==
    ASSUME Basic, ProcessPuback \/ ProcessPubcomp \/ ProcessSuback
    PROVE  Basic'
<1>1. TypeOK /\ StoreMade /\ Phases  BY DEF Basic
<1>2. PICK type \in {"puback", "pubcomp", "suback"} :
         /\ Receives(type) /\ free' = free \cup {Head(down).pid}
         /\ store' = IF type = "suback" THEN store ELSE Erased(Head(down).pid, type)
         /\ inflight' \subseteq inflight
         /\ UNCHANGED <<forkVars, handledIds, handled, conn, link, up, brokerVars, made, dropped,
                        orphaned, subs, breaks>>
  BY DEF ProcessPuback, ProcessPubcomp, ProcessSuback, PubcompFrees, inVars, historyVars
<1>3. Head(down).pid \in Ids
  BY <1>1, <1>2, ReceivesIs, PacketFields
<1>4. store' \in Seq(Entries) /\ StoreMade'
  <2>1. UNCHANGED made  BY <1>2
  <2>. QED  BY <1>1, <1>2, <2>1, ErasedMade, StoreTyped DEF StoreMade
<1>5. PICK w : w = <<>> /\ \A n \in DOMAIN w : FALSE
  OBVIOUS
<1>6. Follows(up', up, 0, w)  BY <1>1, <1>2, <1>5, FollowsSame DEF TypeOK
<1>7. /\ inflight' \subseteq Ids /\ handledIds' \subseteq Ids /\ handled' \subseteq DOMAIN incoming
      /\ free' \subseteq Ids /\ dropped' \subseteq 1..MaxMsgs
  BY <1>1, <1>2, <1>3 DEF TypeOK
<1>. QED  BY <1>2, <1>4, <1>5, <1>6, <1>7, HandlerBasic

LEMMA PubrecBasic ==
    ASSUME Basic, ProcessPubrec
    PROVE  Basic'
<1>1. TypeOK /\ StoreMade /\ Phases  BY DEF Basic
<1>2. PICK pid : pid = Head(down).pid
  OBVIOUS
<1>3. /\ Receives("pubrec") /\ PubrelStored(pid) /\ up' = Written(<<Packet("pubrel", pid)>>)
      /\ UNCHANGED <<forkVars, handledIds, handled, conn, inflight, link, brokerVars, made, dropped,
                     orphaned, subs, breaks>>
  BY <1>2 DEF ProcessPubrec, inVars, historyVars
<1>4. pid \in Ids
  BY <1>1, <1>2, <1>3, ReceivesIs, PacketFields
<1>5. store' \in Seq(Entries) /\ StoreMade'
  <2>1. Erased(pid, "pubrec") \in Seq(Entries) /\ EntriesMade(Erased(pid, "pubrec"), made)
    BY <1>1, ErasedMade
  <2>2. \/ store' = Erased(pid, "pubrec")
        \/ store' = Append(Erased(pid, "pubrec"), Entry(pid, "pubcomp", Packet("pubrel", pid)))
    BY <1>3 DEF PubrelStored
  <2>3. made' = made  BY <1>3
  <2>. QED  BY <1>4, <2>1, <2>2, <2>3, AppendMade, PubrelEntry DEF StoreMade
<1>p. PICK p : p = Packet("pubrel", pid)
  OBVIOUS
<1>6. p \in Packets /\ p.type = "pubrel"
  BY <1>4, <1>p, PacketIs DEF Packet
<1>7. PICK w : /\ Follows(up', up, 0, w) /\ (~link => w = <<>>) /\ \A n \in DOMAIN w : w[n] = p
  <2>1. up \in Seq(Packets) /\ p \in Packets  BY <1>1, <1>6 DEF TypeOK
  <2>2. up' = Written(<<p>>)  BY <1>3, <1>p
  <2>3. /\ Follows(Written(<<p>>), up, 0, Sent(<<p>>))
        /\ ~link => Sent(<<p>>) = <<>>
        /\ \A n \in DOMAIN Sent(<<p>>) : Sent(<<p>>)[n] = p
    BY <2>1, WrittenOne
  <2>. QED  BY <2>2, <2>3
<1>8. /\ inflight' \subseteq Ids /\ handledIds' \subseteq Ids /\ handled' \subseteq DOMAIN incoming
      /\ free' \subseteq Ids /\ dropped' \subseteq 1..MaxMsgs
  BY <1>1, <1>3 DEF TypeOK, PubrelStored
<1>. QED  BY <1>3, <1>5, <1>6, <1>7, <1>8, HandlerBasic

LEMMA AnswersBasic ==
    ASSUME Basic, ProcessPublish \/ ProcessPubrel
    PROVE  Basic'
<1>1. TypeOK /\ StoreMade /\ Phases /\ DownMade  BY DEF Basic
<1>2. PICK type, p :
         /\ type \in {"publish", "pubrel"}
         /\ Receives(type) /\ up' = Written(<<p>>)
         /\ p = Packet(IF type = "publish" THEN Awaited(Head(down).qos) ELSE "pubcomp", Head(down).pid)
         /\ handledIds' \subseteq handledIds \cup {Head(down).pid}
         /\ handled' \subseteq handled \cup (IF type = "publish" THEN {Head(down).m} ELSE {})
         /\ UNCHANGED <<conn, free, store, inflight, link, brokerVars, forkVars, made, dropped,
                        orphaned, subs, breaks>>
  BY DEF ProcessPublish, ProcessPubrel, Handled, endpointVars, historyVars
<1>3. /\ Head(down).pid \in Ids
      /\ type = "publish" => Head(down).qos \in {1, 2} /\ Head(down).m \in DOMAIN incoming
  BY <1>1, <1>2, ReceivesIs, PacketFields DEF DownMade, AllMadeBy, MadeBy
<1>4. p \in Packets /\ p.type \in {"puback", "pubrec", "pubcomp"}
  BY <1>2, <1>3, PacketIs DEF Awaited, Packet
<1>5. PICK w : /\ Follows(up', up, 0, w) /\ (~link => w = <<>>) /\ \A n \in DOMAIN w : w[n] = p
  <2>1. up \in Seq(Packets) /\ p \in Packets  BY <1>1, <1>4 DEF TypeOK
  <2>2. up' = Written(<<p>>)  BY <1>2
  <2>3. /\ Follows(Written(<<p>>), up, 0, Sent(<<p>>))
        /\ ~link => Sent(<<p>>) = <<>>
        /\ \A n \in DOMAIN Sent(<<p>>) : Sent(<<p>>)[n] = p
    BY <2>1, WrittenOne
  <2>. QED  BY <2>2, <2>3
<1>6. /\ inflight' \subseteq Ids /\ handledIds' \subseteq Ids /\ handled' \subseteq DOMAIN incoming
      /\ free' \subseteq Ids /\ dropped' \subseteq 1..MaxMsgs /\ store' \in Seq(Entries) /\ StoreMade'
  BY <1>1, <1>2, <1>3 DEF TypeOK, StoreMade
<1>. QED  BY <1>2, <1>4, <1>5, <1>6, HandlerBasic

----------------------------------------------------------------------------
(* The broker's steps. *)
Progress == [pid : Ids, qos : {1, 2}, state : {"sent", "released", "settled", "discarded"}]

LEMMA IncomingTyped ==
    ASSUME TypeOK
    PROVE  /\ incoming \in Seq(Progress)
           /\ \A m \in DOMAIN incoming :
                 /\ m \in Nat /\ incoming[m] \in Progress
                 /\ incoming[m].pid \in Ids /\ incoming[m].qos \in {1, 2}
<1>1. incoming \in Seq(Progress)  BY DEF TypeOK, Progress
<1>2. \A m \in DOMAIN incoming : m \in Nat /\ incoming[m] \in Progress
  BY <1>1
<1>. QED  BY <1>1, <1>2 DEF Progress

LEMMA MovesTyped ==
    ASSUME TypeOK, NEW pid, NEW state \in {"sent", "released", "settled", "discarded"}, Moves(pid, state)
    PROVE  incoming' \in Seq(Progress) /\ DOMAIN incoming' = DOMAIN incoming
<1>1. incoming' = [m \in DOMAIN incoming |-> IF m = OpenAt(pid) THEN [incoming[m] EXCEPT !.state = state]
                                             ELSE incoming[m]]
  BY DEF Moves
<1>2. \A m \in DOMAIN incoming : [incoming[m] EXCEPT !.state = state] \in Progress /\ incoming[m] \in Progress
  BY IncomingTyped DEF Progress
<1>3. DOMAIN incoming = 1..Len(incoming)  BY IncomingTyped
<1>. QED  BY <1>1, <1>2, <1>3

LEMMA DiscardsTyped ==
    ASSUME Basic, Discards
    PROVE  /\ incoming' \in Seq(Progress) /\ DOMAIN incoming' = DOMAIN incoming
           /\ received' = {} /\ orphaned' \subseteq 1..MaxMsgs
<1>1. TypeOK /\ StoreMade /\ Bounds  BY DEF Basic
<1>2. incoming' = [m \in DOMAIN incoming |-> IF IsOpen(m) THEN [incoming[m] EXCEPT !.state = "discarded"]
                                             ELSE incoming[m]]
  BY DEF Discards
<1>3. \A m \in DOMAIN incoming :
         [incoming[m] EXCEPT !.state = "discarded"] \in Progress /\ incoming[m] \in Progress
  BY <1>1, IncomingTyped DEF Progress
<1>4. DOMAIN incoming = 1..Len(incoming)  BY <1>1, IncomingTyped
<1>5. StoredMessages \subseteq 1..MaxMsgs
  <2>1. made \in Seq([qos : {1, 2}, pid : Ids]) /\ Len(made) <= MaxMsgs
    BY <1>1 DEF TypeOK, Bounds
  <2>. QED  BY <1>1, <2>1, StoredMessagesMade, ConstantsAssumption
<1>. QED  BY <1>1, <1>2, <1>3, <1>4, <1>5 DEF Discards, TypeOK

LEMMA BrokerPublishesBasic ==
    ASSUME Basic, NEW qos \in Qos, BrokerPublishes(qos)
    PROVE  Basic'
<1>1. TypeOK /\ StoreMade /\ Phases /\ DownMade /\ Bounds /\ DeliveredMade /\ ForksLinked  BY DEF Basic
<1>2. PICK m : m = Len(incoming) + 1
  OBVIOUS
<1>3. PICK pid \in Ids : /\ incoming' = Append(incoming, [pid |-> pid, qos |-> qos, state |-> "sent"])
                        /\ down' = Append(down, Publish(pid, qos, m))
  BY <1>2 DEF BrokerPublishes, Answer
<1>4. /\ Len(incoming) < MaxIncoming /\ \A n \in DOMAIN up : up[n].type # "connect"
      /\ UNCHANGED <<conn, free, store, inflight, handledIds, handled, forks, mixed, made, dropped,
                     orphaned, subs, breaks, link, up, session, received, delivered>>
  BY DEF BrokerPublishes, endpointVars, inVars, forkVars, historyVars
<1>5. /\ incoming' \in Seq(Progress) /\ Len(incoming') = m /\ DOMAIN incoming \subseteq DOMAIN incoming'
      /\ m \in DOMAIN incoming' /\ m \in 1..(MaxMsgs + MaxIncoming) /\ m <= MaxIncoming
  <2>1. [pid |-> pid, qos |-> qos, state |-> "sent"] \in Progress
    BY ConstantsAssumption DEF Progress
  <2>2. incoming \in Seq(Progress)  BY <1>1, IncomingTyped
  <2>. QED  BY <1>2, <1>3, <1>4, <2>1, <2>2, ConstantsAssumption
<1>6. PICK p : p = Publish(pid, qos, m)
  OBVIOUS
<1>7. p \in Packets /\ p.type = "publish" /\ p.m = m
  BY <1>5, <1>6, PacketIs, ConstantsAssumption DEF Publish
<1>v. PICK v : v = <<p>>
  OBVIOUS
<1>8. v = <<p>> /\ \A n \in DOMAIN v : v[n] = p
  BY <1>v
<1>9. Follows(down', down, 0, v)
  <2>1. down \in Seq(Packets)  BY <1>1 DEF TypeOK
  <2>. QED  BY <1>3, <1>6, <1>7, <1>8, <2>1, FollowsAppend
<1>10. AllMadeBy(v, incoming')  BY <1>5, <1>7, <1>8 DEF AllMadeBy, MadeBy
<1>11. PICK w : w = <<>> /\ \A n \in DOMAIN w : FALSE
  OBVIOUS
<1>12. Follows(up', up, 0, w) /\ AllMade(w, made)
  BY <1>1, <1>4, <1>11, FollowsSame DEF TypeOK, AllMade
<1>13. TypeOK'
  <2>1. down' \in Seq(Packets)  BY <1>9 DEF Follows
  <2>2. handled' \subseteq DOMAIN incoming'  BY <1>1, <1>4, <1>5 DEF TypeOK
  <2>3. incoming' \in Seq([pid : Ids, qos : {1, 2},
                           state : {"sent", "released", "settled", "discarded"}])
    BY <1>5 DEF Progress
  <2>. QED  BY <1>1, <1>4, <2>1, <2>2, <2>3 DEF TypeOK
<1>14. Bounds' /\ DeliveredMade' /\ StoreMade' /\ ForksLinked'
  BY <1>1, <1>4, <1>5 DEF Bounds, DeliveredMade, StoreMade, ForksLinked, Msgs
<1>15. /\ conn' = "off" => ~link /\ down' = <<>>
       /\ up = <<>> \/ up[1].type # "connect"
  <2>1. up \in Seq(Packets)  BY <1>1 DEF TypeOK
  <2>2. link  BY DEF BrokerPublishes
  <2>. QED  BY <1>1, <1>4, <2>1, <2>2 DEF Phases
<1>16. \A n \in DOMAIN w : w[n].type # "connect"  BY <1>11
<1>. QED  BY <1>4, <1>5, <1>9, <1>10, <1>11, <1>12, <1>13, <1>14, <1>15, <1>16, BasicKept

(* Reading all but a CONNECT: the broker answers with one packet or none. *)
LEMMA AnsweredBasic ==
    ASSUME Basic, link, up # <<>>, up' = Tail(up), Head(up).type # "connect",
           NEW p \in Packets, p.type # "publish", down' = Append(down, p) \/ down' = down,
           incoming' \in Seq(Progress), DOMAIN incoming' = DOMAIN incoming,
           Len(incoming') <= MaxIncoming,
           delivered' \in Seq(1..MaxMsgs), DeliveredMade', received' \subseteq Ids,
           UNCHANGED <<session, orphaned, forks, mixed, handledIds, handled, conn, free, store,
                       inflight, link, made, dropped, subs, breaks>>
    PROVE  Basic'
<1>1. TypeOK /\ StoreMade /\ Phases /\ DownMade /\ Bounds /\ DeliveredMade /\ ForksLinked  BY DEF Basic
<1>v. PICK v : v = IF down' = down THEN <<>> ELSE <<p>>
  OBVIOUS
<1>2. \A n \in DOMAIN v : v[n] = p
  BY <1>v
<1>3. Follows(down', down, 0, v)
  <2>1. down \in Seq(Packets)  BY <1>1 DEF TypeOK
  <2>. QED  BY <1>v, <2>1, FollowsSame, FollowsAppend
<1>w. PICK w : w = <<>> /\ \A n \in DOMAIN w : FALSE
  OBVIOUS
<1>4. up \in Seq(Packets)  BY <1>1 DEF TypeOK
<1>5. Follows(up', up, 1, w)
  BY <1>4, <1>w, FollowsTail
<1>6. AllMade(w, made) /\ AllMadeBy(v, incoming')
  BY <1>2, <1>w DEF AllMade, AllMadeBy, MadeBy
<1>7. TypeOK'
  <2>1. down' \in Seq(Packets) /\ up' \in Seq(Packets)  BY <1>3, <1>5 DEF Follows
  <2>2. handled' \subseteq DOMAIN incoming'  BY <1>1 DEF TypeOK
  <2>3. incoming' \in Seq([pid : Ids, qos : {1, 2},
                           state : {"sent", "released", "settled", "discarded"}])
    BY DEF Progress
  <2>. QED  BY <1>1, <2>1, <2>2, <2>3 DEF TypeOK
<1>8. Bounds' /\ StoreMade' /\ ForksLinked'
  BY <1>1 DEF Bounds, StoreMade, ForksLinked
<1>9. conn' # "off"
  BY <1>1 DEF Phases
<1>10. /\ up[1].type # "connect" /\ \A n \in DOMAIN w : w[n].type # "connect"
       /\ DOMAIN incoming \subseteq DOMAIN incoming' /\ ~link => w = <<>>
  BY <1>4, <1>w
<1>11. conn' # conn => up = <<>> \/ up[1].type # "connect"
  BY <1>10
<1>12. v # <<>> => up = <<>> \/ up[1].type # "connect" \/ 1 > 0
  OBVIOUS
<1>. QED  BY <1>3, <1>5, <1>6, <1>7, <1>8, <1>9, <1>10, <1>11, <1>12, BasicKept

(* The packets of a resumed session. *)
LEMMA ResumedTyped ==
    ASSUME Basic, NEW s \in InOrder(Unsettled)
    PROVE  LET r == [n \in DOMAIN s |-> Resend(s[n])]
           IN  /\ r \in Seq(Packets) /\ DOMAIN s = 1..Len(r)
               /\ \A n \in DOMAIN s : /\ s[n] \in DOMAIN incoming /\ IsOpen(s[n])
                                      /\ r[n] = Resend(s[n]) /\ r[n].pid = incoming[s[n]].pid
                                      /\ \/ /\ incoming[s[n]].state = "sent" /\ r[n].type = "publish"
                                            /\ r[n].m = s[n]
                                         \/ incoming[s[n]].state = "released" /\ r[n].type = "pubrel"
<1>. DEFINE r == [n \in DOMAIN s |-> Resend(s[n])]
<1>1. TypeOK /\ Bounds  BY DEF Basic
<1>2. incoming \in Seq(Progress) /\ Len(incoming) <= MaxIncoming /\ Len(incoming) \in Nat
  BY <1>1, IncomingTyped DEF Bounds
<1>3. Cardinality(Unsettled) \in Nat
  <2>1. IsFiniteSet(1..Len(incoming))  BY <1>2, FS_Interval
  <2>2. Unsettled \subseteq 1..Len(incoming)  BY <1>2 DEF Unsettled
  <2>. QED  BY <2>1, <2>2, FS_Subset, FS_CardinalityType
<1>4. DOMAIN s = 1..Cardinality(Unsettled) /\ \A n \in DOMAIN s : s[n] \in DOMAIN incoming /\ IsOpen(s[n])
  BY DEF InOrder, Unsettled
<1>5. ASSUME NEW n \in DOMAIN s
      PROVE  /\ Resend(s[n]) \in Packets /\ Resend(s[n]).pid = incoming[s[n]].pid
             /\ \/ /\ incoming[s[n]].state = "sent" /\ Resend(s[n]).type = "publish"
                   /\ Resend(s[n]).m = s[n]
                \/ incoming[s[n]].state = "released" /\ Resend(s[n]).type = "pubrel"
  <2>1. /\ s[n] \in DOMAIN incoming /\ incoming[s[n]].state \in {"sent", "released"}
    BY <1>4 DEF IsOpen
  <2>2. /\ incoming[s[n]].pid \in Ids /\ incoming[s[n]].qos \in {1, 2}
        /\ s[n] \in 1..(MaxMsgs + MaxIncoming)
    BY <1>1, <1>2, <2>1, IncomingTyped, ConstantsAssumption
  <2>. QED  BY <2>1, <2>2, PacketIs DEF Resend, Publish, Packet
<1>6. r \in Seq(Packets) /\ DOMAIN s = 1..Len(r)
  BY <1>3, <1>4, <1>5
<1>. QED  BY <1>4, <1>5, <1>6

LEMMA AcceptsBasic ==
    ASSUME Basic, BrokerReads, Head(up).type = "connect"
    PROVE  Basic'
<1>1. TypeOK /\ StoreMade /\ UpMade /\ Phases /\ DownMade /\ Bounds /\ DeliveredMade /\ ForksLinked
  BY DEF Basic
<1>2. /\ link /\ up # <<>> /\ up' = Tail(up) /\ session' = TRUE
      /\ \/ down' = Append(down, Connack(FALSE)) /\ Discards
         \/ /\ \E s \in InOrder(Unsettled) :
                  down' = Append(down, Connack(session)) \o [n \in DOMAIN s |-> Resend(s[n])]
            /\ UNCHANGED <<received, incoming, orphaned>>
      /\ UNCHANGED <<delivered, forks, mixed, handledIds, handled, conn, free, store, inflight, link,
                     made, dropped, subs, breaks>>
  BY DEF BrokerReads, Answer, forkVars, inVars, endpointVars
<1>3. /\ up \in Seq(Packets) /\ Head(up) = up[1] /\ 1 \in DOMAIN up
  BY <1>1, <1>2 DEF TypeOK
<1>4. down = <<>> /\ conn = "opening" /\ \A n \in DOMAIN up : n # 1 => up[n].type # "connect"
  BY <1>1, <1>3 DEF Phases
<1>5. /\ incoming' \in Seq(Progress) /\ DOMAIN incoming' = DOMAIN incoming
      /\ received' \subseteq Ids /\ orphaned' \subseteq 1..MaxMsgs
  BY <1>1, <1>2, DiscardsTyped, IncomingTyped DEF TypeOK
<1>6. down' \in Seq(Packets) /\ AllMadeBy(down', incoming')
  <2>1. \A present \in BOOLEAN : /\ Append(down, Connack(present)) \in Seq(Packets)
                                 /\ AllMadeBy(Append(down, Connack(present)), incoming)
    <3>1. ASSUME NEW present \in BOOLEAN
          PROVE  /\ Append(down, Connack(present)) \in Seq(Packets)
                 /\ AllMadeBy(Append(down, Connack(present)), incoming)
      <4>1. Connack(present) \in Packets /\ Connack(present).type = "connack"
        BY PacketIs DEF Connack
      <4>. QED  BY <1>4, <4>1 DEF AllMadeBy, MadeBy
    <3>. QED  BY <3>1
  <2>2. ASSUME NEW s \in InOrder(Unsettled),
               down' = Append(down, Connack(session)) \o [n \in DOMAIN s |-> Resend(s[n])]
        PROVE  down' \in Seq(Packets) /\ AllMadeBy(down', incoming)
    <3>1. PICK r : r = [n \in DOMAIN s |-> Resend(s[n])]
      OBVIOUS
    <3>2. /\ r \in Seq(Packets) /\ DOMAIN s = 1..Len(r)
          /\ \A n \in DOMAIN s : /\ s[n] \in DOMAIN incoming
                                 /\ r[n].type = "publish" => r[n].m = s[n]
      BY <3>1, ResumedTyped
    <3>3. AllMadeBy(r, incoming)
      BY <3>2 DEF AllMadeBy, MadeBy
    <3>4. PICK a : a = Append(down, Connack(session))
      OBVIOUS
    <3>5. a \in Seq(Packets) /\ AllMadeBy(a, incoming) /\ down' = a \o r
      BY <1>1, <2>1, <2>2, <3>1, <3>4 DEF TypeOK
    <3>. QED  BY <3>2, <3>3, <3>5 DEF AllMadeBy
  <2>3. AllMadeBy(down', incoming) => AllMadeBy(down', incoming')
    BY <1>5 DEF AllMadeBy, MadeBy
  <2>. QED  BY <1>2, <2>1, <2>2, <2>3
<1>7. TypeOK'
  <2>1. up' \in Seq(Packets)  BY <1>2, <1>3
  <2>2. handled' \subseteq DOMAIN incoming'  BY <1>1, <1>2, <1>5 DEF TypeOK
  <2>3. incoming' \in Seq([pid : Ids, qos : {1, 2},
                           state : {"sent", "released", "settled", "discarded"}])
    BY <1>5 DEF Progress
  <2>. QED  BY <1>1, <1>2, <1>5, <1>6, <2>1, <2>2, <2>3 DEF TypeOK
<1>8. UpMade'
  BY <1>1, <1>2, <1>3 DEF UpMade, AllMade, MadeAs
<1>9. Phases'
  <2>1. \A n \in DOMAIN up' : up'[n].type # "connect"
    BY <1>2, <1>3, <1>4
  <2>. QED  BY <1>1, <1>2, <1>4, <2>1 DEF Phases
<1>10. Bounds' /\ DeliveredMade' /\ StoreMade' /\ ForksLinked' /\ DownMade'
  <2>1. Len(incoming') = Len(incoming)
    BY <1>1, <1>5, IncomingTyped
  <2>. QED  BY <1>1, <1>2, <1>6, <2>1 DEF Bounds, DeliveredMade, StoreMade, ForksLinked, Msgs, DownMade
<1>. QED  BY <1>7, <1>8, <1>9, <1>10 DEF Basic

LEMMA ReadsBasic ==
    ASSUME Basic, BrokerReads, Head(up).type # "connect"
    PROVE  Basic'
<1>1. TypeOK /\ UpMade /\ Bounds /\ DeliveredMade
  BY DEF Basic
<1>2. PICK p : p = Head(up)
  OBVIOUS
<1>3. /\ up # <<>> /\ p \in Packets /\ p = up[1] /\ 1 \in DOMAIN up
  <2>1. up \in Seq(Packets)  BY <1>1 DEF TypeOK
  <2>2. up # <<>>  BY DEF BrokerReads
  <2>. QED  BY <1>2, <2>1, <2>2
<1>4. /\ link /\ up' = Tail(up)
      /\ UNCHANGED <<forks, mixed, handledIds, handled, conn, free, store, inflight, link, made,
                     dropped, subs, breaks>>
  BY DEF BrokerReads, forkVars, inVars, endpointVars
<1>5. PICK q, state :
         /\ q \in Packets /\ q.type # "publish" /\ (down' = Append(down, q) \/ down' = down)
         /\ state \in {"settled", "released"} /\ (Moves(p.pid, state) \/ incoming' = incoming)
         /\ UNCHANGED <<session, orphaned>>
         /\ received' \subseteq received \cup Ids
         /\ delivered' = delivered \/ (p.type = "publish" /\ delivered' = Append(delivered, p.m))
  <2>1. CASE p.type = "publish" /\ p.qos = 1
    <3>1. Packet("puback", p.pid) \in Packets /\ Packet("puback", p.pid).type = "puback"
      BY <1>3, <2>1, PacketFields, PacketIs DEF Packet
    <3>2. /\ delivered' = Append(delivered, p.m) /\ down' = Append(down, Packet("puback", p.pid))
          /\ UNCHANGED <<session, received, incoming, orphaned>>
      <4>1. p.qos # 2  BY <2>1
      <4>. QED  BY <1>2, <2>1, <4>1 DEF BrokerReads, Answer
    <3>. QED  BY <2>1, <3>1, <3>2
  <2>2. CASE p.type = "publish" /\ p.qos # 1
    <3>1. /\ Packet("pubrec", p.pid) \in Packets /\ Packet("pubrec", p.pid).type = "pubrec"
          /\ p.pid \in Ids
      BY <1>3, <2>2, PacketFields, PacketIs DEF Packet
    <3>. QED  BY <1>2, <2>2, <3>1 DEF BrokerReads, Answer
  <2>3. CASE p.type = "pubrel"
    <3>1. Packet("pubcomp", p.pid) \in Packets /\ Packet("pubcomp", p.pid).type = "pubcomp"
      BY <1>3, <2>3, PacketFields, PacketIs DEF Packet
    <3>. QED  BY <1>2, <2>3, <3>1 DEF BrokerReads, Answer
  <2>4. CASE p.type = "forked"
    <3>1. Packet("puback", p.pid) \in Packets /\ Packet("puback", p.pid).type = "puback"
      BY <1>3, <2>4, PacketFields, PacketIs DEF Packet
    <3>. QED  BY <1>2, <2>4, <3>1 DEF BrokerReads, Answer
  <2>5. CASE p.type = "subscribe"
    <3>1. Packet("suback", p.pid) \in Packets /\ Packet("suback", p.pid).type = "suback"
      BY <1>3, <2>5, PacketFields, PacketIs DEF Packet
    <3>. QED  BY <1>2, <2>5, <3>1 DEF BrokerReads, Answer
  <2>6. CASE p.type \in {"puback", "pubcomp"}
    <3>1. Moves(p.pid, "settled") /\ UNCHANGED <<down, session, received, delivered, orphaned>>
      BY <1>2, <2>6 DEF BrokerReads
    <3>2. p.type # "publish"  BY <2>6
    <3>. QED  BY <1>3, <3>1, <3>2
  <2>7. CASE p.type = "pubrec"
    <3>1. Packet("pubrel", p.pid) \in Packets /\ Packet("pubrel", p.pid).type = "pubrel"
      BY <1>3, <2>7, PacketFields, PacketIs DEF Packet
    <3>. QED  BY <1>2, <2>7, <3>1 DEF BrokerReads, Answer
  <2>. QED  BY <1>2, <2>1, <2>2, <2>3, <2>4, <2>5, <2>6, <2>7 DEF BrokerReads
<1>6. incoming' \in Seq(Progress) /\ DOMAIN incoming' = DOMAIN incoming
  BY <1>1, <1>5, MovesTyped, IncomingTyped
<1>7. Len(incoming') <= MaxIncoming
  <2>1. Len(incoming') = Len(incoming)  BY <1>1, <1>6, IncomingTyped
  <2>. QED  BY <1>1, <2>1 DEF Bounds
<1>8. delivered' \in Seq(1..MaxMsgs) /\ DeliveredMade'
  <2>1. p.type = "publish" => p.m \in DOMAIN made
    BY <1>1, <1>3 DEF UpMade, AllMade, MadeAs
  <2>2. /\ DOMAIN made = Msgs /\ Msgs' = Msgs /\ Msgs \subseteq 1..MaxMsgs
    <3>1. made \in Seq([qos : {1, 2}, pid : Ids]) /\ Len(made) <= MaxMsgs
      BY <1>1 DEF TypeOK, Bounds
    <3>. QED  BY <1>4, <3>1, ConstantsAssumption DEF Msgs
  <2>3. delivered \in Seq(1..MaxMsgs) /\ \A n \in DOMAIN delivered : delivered[n] \in Msgs
    BY <1>1 DEF TypeOK, DeliveredMade
  <2>4. CASE delivered' = delivered  BY <2>2, <2>3, <2>4 DEF DeliveredMade
  <2>5. ASSUME p.m \in Msgs, delivered' = Append(delivered, p.m)
        PROVE  delivered' \in Seq(1..MaxMsgs) /\ DeliveredMade'
    <3>1. p.m \in 1..MaxMsgs  BY <2>2, <2>5
    <3>2. PICK m : m = p.m
      OBVIOUS
    <3>. QED  BY <2>2, <2>3, <2>5, <3>1, <3>2 DEF DeliveredMade
  <2>. QED  BY <1>5, <2>1, <2>2, <2>4, <2>5
<1>9. received' \subseteq Ids  BY <1>1, <1>5 DEF TypeOK
<1>. QED  BY <1>3, <1>4, <1>5, <1>6, <1>7, <1>8, <1>9, AnsweredBasic

LEMMA BreakBasic ==
    ASSUME Basic, Break
    PROVE  Basic'
<1>1. TypeOK /\ StoreMade /\ Phases /\ DownMade /\ Bounds /\ DeliveredMade  BY DEF Basic
<1>2. PICK k \in 0..Len(down) : down' = SubSeq(down, 1, k)
  BY DEF Break
<1>3. /\ link /\ breaks < MaxBreaks /\ breaks' = breaks + 1 /\ link' = FALSE /\ up' = <<>>
      /\ forks' = [n \in DOMAIN forks |-> {}]
      /\ UNCHANGED <<mixed, conn, free, store, inflight, handledIds, handled, session, received,
                     delivered, incoming, made, dropped, orphaned, subs>>
  BY DEF Break, endpointVars, inVars, brokerVars
<1>4. Follows(down', down, 0, <<>>)
  BY <1>1, <1>2, FollowsPrefix DEF TypeOK
<1>5. forks' \in Seq(SUBSET Ids) /\ ForksLinked'
  <2>1. forks \in Seq(SUBSET Ids)  BY <1>1 DEF TypeOK
  <2>. QED  BY <1>3, <2>1 DEF ForksLinked
<1>6. TypeOK'
  <2>1. down' \in Seq(Packets) /\ up' \in Seq(Packets)  BY <1>3, <1>4 DEF Follows
  <2>2. breaks' \in 0..MaxBreaks  BY <1>1, <1>3, ConstantsAssumption DEF TypeOK
  <2>. QED  BY <1>1, <1>3, <1>5, <2>1, <2>2 DEF TypeOK
<1>7. Phases'
  BY <1>1, <1>3 DEF Phases
<1>8. DownMade'
  <2>1. AllMadeBy(<<>>, incoming)  BY DEF AllMadeBy
  <2>. QED  BY <1>1, <1>3, <1>4, <2>1, AllMadeByKept DEF DownMade
<1>9. Bounds' /\ DeliveredMade' /\ StoreMade' /\ UpMade'
  BY <1>1, <1>3 DEF Bounds, DeliveredMade, StoreMade, Msgs, UpMade, AllMade
<1>. QED  BY <1>5, <1>6, <1>7, <1>8, <1>9 DEF Basic

LEMMA BrokerForgetsBasic ==
    ASSUME Basic, BrokerForgets
    PROVE  Basic'
<1>1. TypeOK /\ StoreMade /\ UpMade /\ Phases /\ DownMade /\ Bounds /\ DeliveredMade /\ ForksLinked
  BY DEF Basic
<1>2. /\ session' = FALSE /\ Discards
      /\ UNCHANGED <<forks, mixed, handledIds, handled, conn, free, store, inflight, link, up, down,
                     delivered, made, dropped, subs, breaks>>
  BY DEF BrokerForgets, forkVars, inVars, endpointVars
<1>3. /\ incoming' \in Seq(Progress) /\ DOMAIN incoming' = DOMAIN incoming
      /\ received' = {} /\ orphaned' \subseteq 1..MaxMsgs
  BY <1>2, DiscardsTyped
<1>4. TypeOK'
  <2>1. handled' \subseteq DOMAIN incoming'  BY <1>1, <1>2, <1>3 DEF TypeOK
  <2>2. incoming' \in Seq([pid : Ids, qos : {1, 2},
                           state : {"sent", "released", "settled", "discarded"}])
    BY <1>3 DEF Progress
  <2>. QED  BY <1>1, <1>2, <1>3, <2>1, <2>2 DEF TypeOK
<1>5. Len(incoming') = Len(incoming)
  BY <1>1, <1>3, IncomingTyped
<1>6. Bounds' /\ DeliveredMade' /\ StoreMade' /\ UpMade' /\ Phases' /\ ForksLinked' /\ DownMade'
  BY <1>1, <1>2, <1>3, <1>5
  DEF Bounds, DeliveredMade, StoreMade, Msgs, UpMade, Phases, ForksLinked, DownMade, AllMadeBy, MadeBy
<1>. QED  BY <1>4, <1>6 DEF Basic

LEMMA InitBasic ==
    Init => Basic
<1>1. SUFFICES ASSUME Init PROVE Basic
  OBVIOUS
<1>2. /\ up = <<>> /\ down = <<>> /\ store = <<>> /\ delivered = <<>> /\ incoming = <<>>
      /\ made = <<>> /\ forks = <<>>
  BY <1>1 DEF Init
<1>3. TypeOK
  <2>1. /\ store \in Seq(Entries) /\ up \in Seq(Packets) /\ down \in Seq(Packets)
        /\ delivered \in Seq(1..MaxMsgs) /\ forks \in Seq(SUBSET Ids)
    BY <1>2
  <2>2. made \in Seq([qos : {1, 2}, pid : Ids])  BY <1>2
  <2>3. incoming \in Seq([pid : Ids, qos : {1, 2},
                          state : {"sent", "released", "settled", "discarded"}])
    BY <1>2
  <2>4. subs \in 0..MaxSubs /\ breaks \in 0..MaxBreaks
    BY <1>1, ConstantsAssumption DEF Init
  <2>. QED  BY <1>1, <2>1, <2>2, <2>3, <2>4 DEF Init, TypeOK, AllFree
<1>4. Bounds
  BY <1>2, ConstantsAssumption DEF Bounds
<1>5. /\ DeliveredMade /\ UpMade /\ DownMade /\ StoreMade /\ Phases /\ ForksLinked
  BY <1>1, <1>2 DEF Init, DeliveredMade, UpMade, DownMade, StoreMade, Phases, ForksLinked, AllMade,
                   AllMadeBy, EntriesMade
<1>. QED  BY <1>3, <1>4, <1>5 DEF Basic

LEMMA NextBasic ==
    Basic /\ [Next]_vars => Basic'
<1>1. SUFFICES ASSUME Basic, [Next]_vars PROVE Basic'
  OBVIOUS
<1>2. CASE UNCHANGED vars
  BY <1>1, <1>2 DEF vars, endpointVars, inVars, brokerVars, forkVars, historyVars, Basic, TypeOK, Bounds,
     DeliveredMade, UpMade, DownMade, StoreMade, Phases, ForksLinked, Msgs
<1>3. CASE Next
  BY <1>1, <1>3, PublishBasic, BrokerPublishesBasic, ForksBasic, ForkPublishesBasic, SubscribeBasic,
     ConnectBasic, HandleErrorBasic, AnswersBasic, ConnackBasic, SettlesBasic, PubrecBasic,
     AcceptsBasic, ReadsBasic, BreakBasic, BrokerForgetsBasic
  DEF Next, ProcessPacket
<1>. QED  BY <1>1, <1>2, <1>3

(* The types of MqttEndpoint hold in all its behaviours: packets and       *)
(* entries are well formed, ids are ids, and the bounds are kept.          *)
THEOREM TypeCorrect == Spec => []TypeOK
<1>1. Basic => TypeOK  BY DEF Basic
<1>. QED  BY <1>1, InitBasic, NextBasic, PTL DEF Spec

----------------------------------------------------------------------------
(* The publishes of the broker.  At most one packet of an exchange is on   *)
(* its way at a time, and it is the one that the broker's record of the    *)
(* exchange asks for: so what settles a publish is the acknowledgement of  *)
(* that publish, which was written when it had been handled.               *)
Acks  == {"puback", "pubrec", "pubcomp"}
Sends == {"publish", "pubrel"}

Exchange(pid, state) ==
    \E m \in DOMAIN incoming : incoming[m].pid = pid /\ incoming[m].state = state

OpenApart ==
    \A m, k \in DOMAIN incoming :
        IsOpen(m) /\ IsOpen(k) /\ incoming[m].pid = incoming[k].pid => m = k

DownMatches ==
    link => \A n \in DOMAIN down :
        /\ down[n].type = "publish" =>
              incoming[down[n].m].state = "sent" /\ incoming[down[n].m].pid = down[n].pid
        /\ down[n].type = "pubrel" => Exchange(down[n].pid, "released")

UpMatches ==
    \A n \in DOMAIN up :
        /\ up[n].type \in {"puback", "pubrec"} =>
              \E m \in handled : incoming[m].pid = up[n].pid /\ incoming[m].state = "sent"
        /\ up[n].type = "pubcomp" => Exchange(up[n].pid, "released")

OneDown ==
    link => \A i, j \in DOMAIN down :
        down[i].type \in Sends /\ down[j].type \in Sends /\ down[i].pid = down[j].pid => i = j

OneUp ==
    \A i, j \in DOMAIN up :
        up[i].type \in Acks /\ up[j].type \in Acks /\ up[i].pid = up[j].pid => i = j

OneWay ==
    link => \A i \in DOMAIN down, j \in DOMAIN up :
        down[i].type \in Sends /\ up[j].type \in Acks => down[i].pid # up[j].pid

NoAcksYet == \A i, j \in DOMAIN up : up[i].type = "connect" => up[j].type \notin Acks

ExchangeInv ==
    /\ NothingMissed /\ OpenApart /\ DownMatches /\ UpMatches
    /\ OneDown /\ OneUp /\ OneWay /\ NoAcksYet

(* Steps that neither start, advance nor end an exchange. *)
LEMMA ExchangeKept ==
    ASSUME Basic, ExchangeInv,
           NEW d, NEW w, Follows(up', up, d, w), NEW e, NEW v, Follows(down', down, e, v),
           \A n \in DOMAIN w : w[n].type \notin Acks /\ w[n].type # "connect",
           \A n \in DOMAIN v : v[n].type \notin Sends,
           link' => link, incoming' = incoming, handled' = handled
    PROVE  ExchangeInv'
<1>1. /\ up \in Seq(Packets) /\ down \in Seq(Packets) /\ d \in Nat /\ e \in Nat
      /\ up' \in Seq(Packets) /\ down' \in Seq(Packets)
  BY DEF Basic, TypeOK, Follows
<1>2. \A n \in DOMAIN up' : up'[n].type \in Acks => n + d \in DOMAIN up /\ up'[n] = up[n + d]
  BY DEF Follows
<1>3. \A n \in DOMAIN down' : down'[n].type \in Sends => n + e \in DOMAIN down /\ down'[n] = down[n + e]
  BY DEF Follows
<1>4. NothingMissed' /\ OpenApart'
  BY DEF ExchangeInv, NothingMissed, OpenApart, IsOpen
<1>5. DownMatches'
  BY <1>3 DEF ExchangeInv, DownMatches, Exchange, Sends
<1>6. UpMatches'
  BY <1>2 DEF ExchangeInv, UpMatches, Exchange, Acks
<1>7. OneDown'
  <2>1. SUFFICES ASSUME link', NEW i \in DOMAIN down', NEW j \in DOMAIN down',
                        down'[i].type \in Sends, down'[j].type \in Sends, down'[i].pid = down'[j].pid
                 PROVE  i = j
    BY DEF OneDown
  <2>2. i + e = j + e  BY <1>3, <2>1 DEF ExchangeInv, OneDown
  <2>. QED  BY <1>1, <2>2
<1>8. OneUp'
  <2>1. SUFFICES ASSUME NEW i \in DOMAIN up', NEW j \in DOMAIN up',
                        up'[i].type \in Acks, up'[j].type \in Acks, up'[i].pid = up'[j].pid
                 PROVE  i = j
    BY DEF OneUp
  <2>2. i + d = j + d  BY <1>2, <2>1 DEF ExchangeInv, OneUp
  <2>. QED  BY <1>1, <2>2
<1>9. OneWay'
  BY <1>2, <1>3 DEF ExchangeInv, OneWay
<1>10. \A n \in DOMAIN up' : up'[n].type = "connect" => n + d \in DOMAIN up /\ up'[n] = up[n + d]
  BY DEF Follows
<1>11. NoAcksYet'
  BY <1>2, <1>10 DEF ExchangeInv, NoAcksYet
<1>. QED  BY <1>4, <1>5, <1>6, <1>7, <1>8, <1>9, <1>11 DEF ExchangeInv

LEMMA AnswersExchange ==
    ASSUME Basic, ExchangeInv, ProcessPublish \/ ProcessPubrel
    PROVE  ExchangeInv'
<1>1. TypeOK /\ Phases /\ DownMade  BY DEF Basic
<1>s. PICK s : s = down[1]
  OBVIOUS
<1>2. PICK type \in Sends :
         /\ Receives(type) /\ s = down[1]
         /\ up' = Written(<<Packet(IF type = "publish" THEN Awaited(s.qos) ELSE "pubcomp", s.pid)>>)
         /\ handled' = IF type = "publish" THEN handled \cup {s.m} ELSE handled
         /\ UNCHANGED <<link, incoming>>
  BY <1>1, <1>s, ReceivesIs DEF ProcessPublish, ProcessPubrel, Handled, brokerVars, Sends
<1>3. PICK p : p = Packet(IF type = "publish" THEN Awaited(s.qos) ELSE "pubcomp", s.pid)
  OBVIOUS
<1>4. /\ conn # "off" /\ 1 \in DOMAIN down /\ s \in Packets /\ s.type = type
      /\ Follows(down', down, 1, <<>>)
  BY <1>1, <1>2, ReceivesIs
<1>5. /\ s.pid \in Ids /\ p.pid = s.pid /\ p \in Packets
      /\ \/ type = "publish" /\ s.m \in DOMAIN incoming /\ p.type \in {"puback", "pubrec"}
         \/ type = "pubrel" /\ p.type = "pubcomp"
  <2>1. CASE type = "publish"
    <3>1. s.pid \in Ids /\ s.qos \in {1, 2} /\ s.m \in DOMAIN incoming
      BY <1>1, <1>2, <1>4, <2>1, PacketFields DEF DownMade, AllMadeBy, MadeBy
    <3>. QED  BY <1>3, <2>1, <3>1, PacketIs DEF Packet, Awaited
  <2>2. CASE type = "pubrel"
    <3>1. s.pid \in Ids  BY <1>4, <2>2, PacketFields
    <3>. QED  BY <1>3, <2>2, <3>1, PacketIs DEF Packet
  <2>. QED  BY <2>1, <2>2 DEF Sends
<1>6. NothingMissed' /\ OpenApart' /\ handled \subseteq handled'
  BY <1>2 DEF ExchangeInv, NothingMissed, OpenApart, IsOpen
<1>7. CASE ~link
  <2>1. up' = up /\ ~link' /\ up = <<>>
    BY <1>1, <1>2, <1>7 DEF Written, Phases
  <2>2. UpMatches' /\ OneUp' /\ NoAcksYet'  BY <2>1 DEF UpMatches, OneUp, NoAcksYet
  <2>3. DownMatches' /\ OneDown' /\ OneWay'  BY <2>1 DEF DownMatches, OneDown, OneWay
  <2>. QED  BY <1>6, <2>2, <2>3 DEF ExchangeInv
<1>8. CASE link
  <2>1. /\ up' = Append(up, p) /\ up \in Seq(Packets) /\ up' \in Seq(Packets)
        /\ down \in Seq(Packets) /\ down' = Tail(down) /\ down' \in Seq(Packets)
    BY <1>1, <1>2, <1>3, <1>4, <1>5, <1>8 DEF Written, TypeOK, Receives
  <2>2. \A n \in DOMAIN down' : n + 1 \in DOMAIN down /\ down'[n] = down[n + 1] /\ n + 1 # 1 /\ n \in Nat
    BY <1>4, <2>1
  <2>3. \A n \in DOMAIN up' : (n \in DOMAIN up /\ up'[n] = up[n]) \/ (n = Len(up) + 1 /\ up'[n] = p)
    BY <2>1
  <2>4. DownMatches'
    BY <1>2, <1>8, <2>2 DEF ExchangeInv, DownMatches, Exchange
  <2>5. UpMatches'
    <3>1. ASSUME NEW n \in DOMAIN up', up'[n] = p
          PROVE  /\ p.type \in {"puback", "pubrec"} =>
                       \E m \in handled' : incoming[m].pid = p.pid /\ incoming[m].state = "sent"
                 /\ p.type = "pubcomp" => Exchange(p.pid, "released")
      BY <1>2, <1>4, <1>5, <1>8 DEF ExchangeInv, DownMatches
    <3>2. ASSUME NEW n \in DOMAIN up, up'[n] = up[n]
          PROVE  /\ up[n].type \in {"puback", "pubrec"} =>
                       \E m \in handled' : incoming[m].pid = up[n].pid /\ incoming[m].state = "sent"
                 /\ up[n].type = "pubcomp" => Exchange(up[n].pid, "released")
      BY <1>6 DEF ExchangeInv, UpMatches
    <3>. QED  BY <1>2, <2>3, <3>1, <3>2 DEF UpMatches, Exchange
  <2>6. OneDown'
    <3>1. SUFFICES ASSUME NEW i \in DOMAIN down', NEW j \in DOMAIN down',
                          down'[i].type \in Sends, down'[j].type \in Sends, down'[i].pid = down'[j].pid
                   PROVE  i = j
      BY DEF OneDown
    <3>2. i + 1 = j + 1  BY <1>8, <2>2, <3>1 DEF ExchangeInv, OneDown
    <3>. QED  BY <2>2, <3>2
  <2>7. \A n \in DOMAIN up : up[n].type \in Acks => up[n].pid # p.pid
    BY <1>2, <1>4, <1>5, <1>8 DEF ExchangeInv, OneWay
  <2>8. OneUp'
    BY <2>3, <2>7 DEF ExchangeInv, OneUp
  <2>9. OneWay'
    <3>1. SUFFICES ASSUME NEW i \in DOMAIN down', NEW j \in DOMAIN up',
                          down'[i].type \in Sends, up'[j].type \in Acks, down'[i].pid = up'[j].pid
                   PROVE  FALSE
      BY DEF OneWay
    <3>2. CASE j \in DOMAIN up /\ up'[j] = up[j]
      BY <1>8, <2>2, <3>1, <3>2 DEF ExchangeInv, OneWay
    <3>3. CASE up'[j] = p
      <4>1. i + 1 = 1
        BY <1>2, <1>4, <1>5, <1>8, <2>2, <3>1, <3>3 DEF ExchangeInv, OneDown
      <4>. QED  BY <2>2, <4>1
    <3>. QED  BY <2>3, <3>2, <3>3
  <2>10. NoAcksYet'
    <3>1. \A n \in DOMAIN up : up[n].type # "connect"  BY <1>1, <1>2, ReceivesIs
    <3>. QED  BY <1>5, <2>3, <3>1 DEF NoAcksYet
  <2>. QED  BY <1>6, <2>4, <2>5, <2>6, <2>8, <2>9, <2>10 DEF ExchangeInv
<1>. QED  BY <1>7, <1>8

LEMMA ConnectExchange ==
    ASSUME Basic, ExchangeInv, Connect
    PROVE  ExchangeInv'
<1>1. PICK clean \in CleanSessions : up' = <<[type |-> "connect", clean |-> clean]>>
  BY DEF Connect
<1>2. /\ DOMAIN up' = {1} /\ up'[1].type = "connect" /\ DOMAIN down' = {}
      /\ UNCHANGED <<incoming, handled>>
  BY <1>1 DEF Connect, inVars, brokerVars
<1>3. NothingMissed' /\ OpenApart'
  BY <1>2 DEF ExchangeInv, NothingMissed, OpenApart, IsOpen
<1>. QED  BY <1>2, <1>3 DEF ExchangeInv, DownMatches, UpMatches, OneDown, OneUp, OneWay, NoAcksYet, Acks

LEMMA BrokerPublishesExchange ==
    ASSUME Basic, ExchangeInv, NEW qos \in Qos, BrokerPublishes(qos)
    PROVE  ExchangeInv'
<1>1. TypeOK  BY DEF Basic
<1>2. PICK m : m = Len(incoming) + 1
  OBVIOUS
<1>3. PICK pid \in Ids :
         /\ \A k \in DOMAIN incoming : ~(IsOpen(k) /\ incoming[k].pid = pid)
         /\ incoming' = Append(incoming, [pid |-> pid, qos |-> qos, state |-> "sent"])
         /\ down' = Append(down, Publish(pid, qos, m))
  BY <1>2 DEF BrokerPublishes, Answer
<1>4. link /\ UNCHANGED <<link, up, handled>>
  BY DEF BrokerPublishes, inVars
<1>p. PICK p : p = Publish(pid, qos, m)
  OBVIOUS
<1>5. p.type = "publish" /\ p.pid = pid /\ p.m = m
  BY <1>p DEF Publish
<1>6. /\ m \notin DOMAIN incoming /\ m \in DOMAIN incoming' /\ DOMAIN incoming' = DOMAIN incoming \cup {m}
      /\ incoming'[m].pid = pid /\ incoming'[m].state = "sent"
      /\ \A k \in DOMAIN incoming : incoming'[k] = incoming[k]
  <2>1. incoming \in Seq(Progress)  BY <1>1, IncomingTyped
  <2>2. PICK r : r = [pid |-> pid, qos |-> qos, state |-> "sent"]
    OBVIOUS
  <2>3. incoming' = Append(incoming, r) /\ r.pid = pid /\ r.state = "sent"
    BY <1>3, <2>2
  <2>. QED  BY <1>2, <2>1, <2>3
<1>7. \A n \in DOMAIN down' :
         (n \in DOMAIN down /\ down'[n] = down[n]) \/ (n = Len(down) + 1 /\ down'[n] = p)
  <2>1. down \in Seq(Packets)  BY <1>1 DEF TypeOK
  <2>. QED  BY <1>3, <1>p, <2>1
<1>8. NothingMissed' /\ OpenApart'
  BY <1>3, <1>4, <1>6 DEF ExchangeInv, NothingMissed, OpenApart, IsOpen
<1>9. \A n \in DOMAIN down : down[n].type \in Sends => down[n].pid # pid
  <2>1. ASSUME NEW n \in DOMAIN down, down[n].type \in Sends
        PROVE  down[n].pid # pid
    <3>1. CASE down[n].type = "publish"
      <4>1. down[n].m \in DOMAIN incoming
        BY <3>1 DEF Basic, DownMade, AllMadeBy, MadeBy
      <4>. QED  BY <1>3, <1>4, <3>1, <4>1 DEF ExchangeInv, DownMatches, IsOpen
    <3>2. CASE down[n].type = "pubrel"
      BY <1>3, <1>4, <3>2 DEF ExchangeInv, DownMatches, Exchange, IsOpen
    <3>. QED  BY <2>1, <3>1, <3>2 DEF Sends
  <2>. QED  BY <2>1
<1>10. \A n \in DOMAIN up : up[n].type \in Acks => up[n].pid # pid
  <2>1. handled \subseteq DOMAIN incoming  BY <1>1 DEF TypeOK
  <2>. QED  BY <1>3, <2>1 DEF ExchangeInv, UpMatches, Exchange, IsOpen, Acks
<1>11. DownMatches'
  <2>1. ASSUME NEW n \in DOMAIN down
        PROVE  /\ down[n].type = "publish" =>
                     incoming'[down[n].m].state = "sent" /\ incoming'[down[n].m].pid = down[n].pid
               /\ down[n].type = "pubrel" =>
                     \E k \in DOMAIN incoming' : incoming'[k].pid = down[n].pid /\ incoming'[k].state = "released"
    BY <1>4, <1>6 DEF ExchangeInv, DownMatches, Exchange, Basic, DownMade, AllMadeBy, MadeBy
  <2>. QED  BY <1>5, <1>6, <1>7, <2>1 DEF DownMatches, Exchange
<1>12. UpMatches'
  <2>1. handled \subseteq DOMAIN incoming  BY <1>1 DEF TypeOK
  <2>. QED  BY <1>4, <1>6, <2>1 DEF ExchangeInv, UpMatches, Exchange
<1>13. OneDown'
  BY <1>4, <1>5, <1>7, <1>9 DEF ExchangeInv, OneDown
<1>14. OneUp'
  BY <1>4 DEF ExchangeInv, OneUp
<1>15. OneWay'
  BY <1>4, <1>5, <1>7, <1>10 DEF ExchangeInv, OneWay
<1>16. NoAcksYet'
  BY <1>4 DEF ExchangeInv, NoAcksYet
<1>. QED  BY <1>8, <1>11, <1>12, <1>13, <1>14, <1>15, <1>16 DEF ExchangeInv

(* A session that is discarded leaves nothing open. *)
LEMMA DiscardsAll ==
    ASSUME TypeOK, Discards
    PROVE  \A m \in DOMAIN incoming' :
              /\ m \in DOMAIN incoming /\ incoming'[m].state \notin {"sent", "released"}
              /\ incoming'[m].state \in {"settled"} => incoming'[m] = incoming[m]
<1>1. incoming' = [m \in DOMAIN incoming |-> IF IsOpen(m) THEN [incoming[m] EXCEPT !.state = "discarded"]
                                             ELSE incoming[m]]
  BY DEF Discards
<1>2. \A m \in DOMAIN incoming : [incoming[m] EXCEPT !.state = "discarded"].state = "discarded"
  BY IncomingTyped DEF Progress
<1>. QED  BY <1>1, <1>2 DEF IsOpen

LEMMA AcceptsExchange ==
    ASSUME Basic, ExchangeInv, BrokerReads, Head(up).type = "connect"
    PROVE  ExchangeInv'
<1>1. TypeOK /\ Phases  BY DEF Basic
<1>2. /\ link /\ up # <<>> /\ up' = Tail(up)
      /\ \/ down' = Append(down, Connack(FALSE)) /\ Discards
         \/ /\ \E s \in InOrder(Unsettled) :
                  down' = Append(down, Connack(session)) \o [n \in DOMAIN s |-> Resend(s[n])]
            /\ UNCHANGED <<received, incoming, orphaned>>
      /\ UNCHANGED <<handled, link>>
  BY DEF BrokerReads, Answer, inVars
<1>3. /\ up \in Seq(Packets) /\ Head(up) = up[1] /\ 1 \in DOMAIN up
      /\ \A n \in DOMAIN up' : n + 1 \in DOMAIN up /\ up'[n] = up[n + 1]
  BY <1>1, <1>2 DEF TypeOK
<1>4. /\ down = <<>>
      /\ \A n \in DOMAIN up' : up'[n].type \notin Acks /\ up'[n].type # "connect"
  <2>1. down = <<>> /\ \A n \in DOMAIN up : up[n].type \notin Acks
    BY <1>1, <1>3 DEF Phases, ExchangeInv, NoAcksYet
  <2>2. \A n \in DOMAIN up : up[n].type = "connect" => n = 1
    BY <1>1 DEF Phases
  <2>3. \A n \in DOMAIN up' : n \in Nat \ {0}
    BY <1>2, <1>3
  <2>. QED  BY <1>3, <2>1, <2>2, <2>3
<1>5. UpMatches' /\ OneUp' /\ NoAcksYet'
  BY <1>4 DEF UpMatches, OneUp, NoAcksYet, Acks
<1>6. OneWay'
  BY <1>4 DEF OneWay
<1>7. CASE down' = Append(down, Connack(FALSE)) /\ Discards
  <2>1. \A m \in DOMAIN incoming' :
              /\ m \in DOMAIN incoming /\ incoming'[m].state \notin {"sent", "released"}
              /\ incoming'[m].state \in {"settled"} => incoming'[m] = incoming[m]
    BY <1>1, <1>7, DiscardsAll
  <2>2. NothingMissed' /\ OpenApart'
    BY <1>2, <2>1 DEF ExchangeInv, NothingMissed, OpenApart, IsOpen
  <2>3. \A n \in DOMAIN down' : down'[n].type \notin Sends
    BY <1>4, <1>7 DEF Connack, Sends
  <2>4. DownMatches' /\ OneDown'
    BY <2>3 DEF DownMatches, OneDown, Sends
  <2>. QED  BY <1>5, <1>6, <2>2, <2>4 DEF ExchangeInv
<1>8. ASSUME NEW s \in InOrder(Unsettled), UNCHANGED incoming,
             down' = Append(down, Connack(session)) \o [n \in DOMAIN s |-> Resend(s[n])]
      PROVE  ExchangeInv'
  <2>1. NothingMissed' /\ OpenApart'
    BY <1>2, <1>8 DEF ExchangeInv, NothingMissed, OpenApart, IsOpen
  <2>2. PICK r : r = [n \in DOMAIN s |-> Resend(s[n])]
    OBVIOUS
  <2>3. /\ r \in Seq(Packets) /\ DOMAIN s = 1..Len(r)
        /\ \A n \in DOMAIN s :
              /\ s[n] \in DOMAIN incoming /\ IsOpen(s[n])
              /\ r[n].pid = incoming[s[n]].pid
              /\ \/ incoming[s[n]].state = "sent" /\ r[n].type = "publish" /\ r[n].m = s[n]
                 \/ incoming[s[n]].state = "released" /\ r[n].type = "pubrel"
    BY <2>2, ResumedTyped
  <2>4. PICK c : c = Connack(session)
    OBVIOUS
  <2>5. c \in Packets /\ c.type = "connack"
    BY <1>1, <2>4, PacketIs DEF Connack, TypeOK
  <2>6. down' = <<c>> \o r
    BY <1>4, <1>8, <2>2, <2>4
  <2>7. /\ \A n \in DOMAIN down' : down'[n] = c \/ (n - 1 \in DOMAIN s /\ down'[n] = r[n - 1])
        /\ \A n \in DOMAIN down' : n \in Nat
    BY <2>3, <2>5, <2>6
  <2>8. DownMatches'
    <3>1. ASSUME NEW n \in DOMAIN down'
          PROVE  /\ down'[n].type = "publish" =>
                       incoming[down'[n].m].state = "sent" /\ incoming[down'[n].m].pid = down'[n].pid
                 /\ down'[n].type = "pubrel" =>
                       \E k \in DOMAIN incoming : incoming[k].pid = down'[n].pid /\ incoming[k].state = "released"
      <4>1. CASE down'[n] = c
        BY <2>5, <4>1
      <4>2. CASE n - 1 \in DOMAIN s /\ down'[n] = r[n - 1]
        BY <2>3, <4>2
      <4>. QED  BY <2>7, <4>1, <4>2
    <3>. QED  BY <1>8, <3>1 DEF DownMatches, Exchange
  <2>9. \A i, j \in DOMAIN s : s[i] = s[j] => i = j
    <3>1. \A i, j \in DOMAIN s : i < j => s[i] < s[j]
      BY DEF InOrder
    <3>2. \A i \in DOMAIN s : i \in Nat /\ s[i] \in Nat
      BY <1>1, <2>3, IncomingTyped
    <3>. QED  BY <3>1, <3>2
  <2>10. OneDown'
    <3>1. SUFFICES ASSUME NEW i \in DOMAIN down', NEW j \in DOMAIN down',
                          down'[i].type \in Sends, down'[j].type \in Sends, down'[i].pid = down'[j].pid
                   PROVE  i = j
      BY DEF OneDown
    <3>2. /\ i - 1 \in DOMAIN s /\ down'[i] = r[i - 1]
          /\ j - 1 \in DOMAIN s /\ down'[j] = r[j - 1]
      BY <2>5, <2>7, <3>1 DEF Sends
    <3>3. s[i - 1] = s[j - 1]
      BY <2>3, <3>1, <3>2 DEF ExchangeInv, OpenApart
    <3>. QED  BY <2>7, <2>9, <3>2, <3>3
  <2>. QED  BY <1>5, <1>6, <2>1, <2>8, <2>10 DEF ExchangeInv
<1>. QED  BY <1>2, <1>7, <1>8

LEMMA BrokerForgetsExchange ==
    ASSUME Basic, ExchangeInv, BrokerForgets
    PROVE  ExchangeInv'
<1>1. TypeOK /\ Phases  BY DEF Basic
<1>2. Discards /\ ~link /\ UNCHANGED <<link, up, handled>>
  BY DEF BrokerForgets, inVars
<1>3. up = <<>>  BY <1>1, <1>2 DEF Phases
<1>4. UpMatches' /\ OneUp' /\ NoAcksYet'
  BY <1>2, <1>3 DEF UpMatches, OneUp, NoAcksYet
<1>5. OneWay' /\ DownMatches' /\ OneDown'
  BY <1>2 DEF OneWay, DownMatches, OneDown
<1>6. NothingMissed' /\ OpenApart'
  <2>1. \A m \in DOMAIN incoming' :
              /\ m \in DOMAIN incoming /\ incoming'[m].state \notin {"sent", "released"}
              /\ incoming'[m].state \in {"settled"} => incoming'[m] = incoming[m]
    BY <1>1, <1>2, DiscardsAll
  <2>. QED  BY <1>2, <2>1 DEF ExchangeInv, NothingMissed, OpenApart, IsOpen
<1>. QED  BY <1>4, <1>5, <1>6 DEF ExchangeInv

(* The broker reads an acknowledgement: the publish of its id moves on, and *)
(* no other packet of that id is on its way.                               *)
LEMMA SettlesExchange ==
    ASSUME Basic, ExchangeInv, BrokerReads, Head(up).type \in Acks
    PROVE  ExchangeInv'
<1>1. TypeOK /\ Phases /\ DownMade  BY DEF Basic
<1>2. PICK p : p = Head(up)
  OBVIOUS
<1>3. PICK state : state = IF p.type = "pubrec" THEN "released" ELSE "settled"
  OBVIOUS
<1>4. /\ link /\ up # <<>> /\ up' = Tail(up) /\ Moves(p.pid, state) /\ UNCHANGED <<handled, link>>
      /\ IF p.type = "pubrec" THEN down' = Append(down, Packet("pubrel", p.pid)) ELSE down' = down
  BY <1>2, <1>3 DEF BrokerReads, Answer, inVars, Acks
<1>5. /\ up \in Seq(Packets) /\ p = up[1] /\ 1 \in DOMAIN up /\ p.type \in Acks
      /\ \A n \in DOMAIN up' : n + 1 \in DOMAIN up /\ up'[n] = up[n + 1] /\ n + 1 # 1 /\ n \in Nat
  BY <1>1, <1>2, <1>4 DEF TypeOK
<1>6. PICK m \in DOMAIN incoming :
         /\ IsOpen(m) /\ incoming[m].pid = p.pid /\ m \in handled
         /\ p.type \in {"puback", "pubrec"} => incoming[m].state = "sent"
  <2>1. handled \subseteq DOMAIN incoming  BY <1>1 DEF TypeOK
  <2>. QED  BY <1>5, <2>1 DEF ExchangeInv, UpMatches, Exchange, IsOpen, Acks, NothingMissed
<1>7. OpenAt(p.pid) = m
  BY <1>6 DEF OpenAt, ExchangeInv, OpenApart
<1>8. /\ DOMAIN incoming' = DOMAIN incoming
      /\ incoming'[m].state = state /\ incoming'[m].pid = p.pid
      /\ \A k \in DOMAIN incoming : k # m => incoming'[k] = incoming[k]
  <2>1. incoming' = [incoming EXCEPT ![m].state = state]
    BY <1>4, <1>7 DEF Moves
  <2>2. incoming[m] \in Progress  BY <1>1, IncomingTyped
  <2>. QED  BY <1>6, <2>1, <2>2 DEF Progress
<1>9. \A k \in DOMAIN incoming : IsOpen(k) /\ k # m => incoming[k].pid # p.pid
  BY <1>6 DEF ExchangeInv, OpenApart
<1>10. /\ \A n \in DOMAIN down : down[n].type \in Sends => down[n].pid # p.pid
       /\ \A n \in DOMAIN up' : up'[n].type \in Acks => up'[n].pid # p.pid
  BY <1>4, <1>5 DEF ExchangeInv, OneWay, OneUp
<1>11. \A n \in DOMAIN down' :
          \/ n \in DOMAIN down /\ down'[n] = down[n]
          \/ /\ n = Len(down) + 1 /\ down'[n] = Packet("pubrel", p.pid)
             /\ p.type = "pubrec"
  <2>1. down \in Seq(Packets)  BY <1>1 DEF TypeOK
  <2>2. PICK q : q = Packet("pubrel", p.pid)
    OBVIOUS
  <2>. QED  BY <1>4, <2>1, <2>2
<1>12. NothingMissed'
  BY <1>4, <1>6, <1>8 DEF ExchangeInv, NothingMissed
<1>13. OpenApart'
  <2>1. \A k \in DOMAIN incoming : k # m /\ IsOpen(k)' => IsOpen(k)
    BY <1>8 DEF IsOpen
  <2>. QED  BY <1>8, <1>9, <2>1 DEF ExchangeInv, OpenApart
<1>14. DownMatches'
  <2>1. ASSUME NEW n \in DOMAIN down
        PROVE  /\ down[n].type = "publish" =>
                     incoming'[down[n].m].state = "sent" /\ incoming'[down[n].m].pid = down[n].pid
               /\ down[n].type = "pubrel" =>
                     \E k \in DOMAIN incoming' : incoming'[k].pid = down[n].pid /\ incoming'[k].state = "released"
    <3>1. CASE down[n].type = "publish"
      <4>1. /\ down[n].m \in DOMAIN incoming /\ incoming[down[n].m].state = "sent"
            /\ incoming[down[n].m].pid = down[n].pid /\ down[n].pid # p.pid
        BY <1>1, <1>4, <1>10, <3>1 DEF ExchangeInv, DownMatches, DownMade, AllMadeBy, MadeBy, Sends
      <4>2. down[n].m # m  BY <1>6, <4>1
      <4>. QED  BY <1>8, <3>1, <4>1, <4>2
    <3>2. CASE down[n].type = "pubrel"
      <4>1. PICK k \in DOMAIN incoming : incoming[k].pid = down[n].pid /\ incoming[k].state = "released"
        BY <1>4, <3>2 DEF ExchangeInv, DownMatches, Exchange
      <4>2. k # m  BY <1>6, <1>10, <3>2, <4>1 DEF Sends
      <4>. QED  BY <1>8, <3>2, <4>1, <4>2
    <3>. QED  BY <3>1, <3>2
  <2>2. ASSUME NEW n \in DOMAIN down', down'[n] = Packet("pubrel", p.pid), p.type = "pubrec"
        PROVE  /\ down'[n].type = "pubrel" /\ down'[n].pid = p.pid
               /\ m \in DOMAIN incoming' /\ incoming'[m].pid = p.pid /\ incoming'[m].state = "released"
    BY <1>3, <1>8, <2>2 DEF Packet
  <2>. QED  BY <1>11, <2>1, <2>2 DEF DownMatches, Exchange
<1>15. UpMatches'
  <2>1. ASSUME NEW n \in DOMAIN up'
        PROVE  /\ up'[n].type \in {"puback", "pubrec"} =>
                     \E k \in handled' : incoming'[k].pid = up'[n].pid /\ incoming'[k].state = "sent"
               /\ up'[n].type = "pubcomp" =>
                     \E k \in DOMAIN incoming' : incoming'[k].pid = up'[n].pid /\ incoming'[k].state = "released"
    <3>1. CASE up'[n].type \in {"puback", "pubrec"}
      <4>1. PICK k \in handled : incoming[k].pid = up'[n].pid /\ incoming[k].state = "sent"
        BY <1>5, <3>1 DEF ExchangeInv, UpMatches
      <4>2. k \in DOMAIN incoming /\ k # m
        BY <1>1, <1>6, <1>10, <3>1, <4>1 DEF TypeOK, Acks
      <4>. QED  BY <1>4, <1>8, <3>1, <4>1, <4>2
    <3>2. CASE up'[n].type = "pubcomp"
      <4>1. PICK k \in DOMAIN incoming : incoming[k].pid = up'[n].pid /\ incoming[k].state = "released"
        BY <1>5, <3>2 DEF ExchangeInv, UpMatches, Exchange
      <4>2. k # m  BY <1>6, <1>10, <3>2, <4>1 DEF Acks
      <4>. QED  BY <1>8, <3>2, <4>1, <4>2
    <3>. QED  BY <3>1, <3>2
  <2>. QED  BY <2>1 DEF UpMatches, Exchange
<1>16. OneDown'
  BY <1>4, <1>10, <1>11 DEF ExchangeInv, OneDown, Packet
<1>17. OneUp'
  <2>1. SUFFICES ASSUME NEW i \in DOMAIN up', NEW j \in DOMAIN up',
                        up'[i].type \in Acks, up'[j].type \in Acks, up'[i].pid = up'[j].pid
                 PROVE  i = j
    BY DEF OneUp
  <2>2. i + 1 = j + 1  BY <1>5, <2>1 DEF ExchangeInv, OneUp
  <2>. QED  BY <1>5, <2>2
<1>18. OneWay'
  BY <1>4, <1>5, <1>10, <1>11 DEF ExchangeInv, OneWay, Packet
<1>19. NoAcksYet'
  BY <1>5 DEF ExchangeInv, NoAcksYet
<1>. QED  BY <1>12, <1>13, <1>14, <1>15, <1>16, <1>17, <1>18, <1>19 DEF ExchangeInv

(* The other steps write no acknowledgement and send no publish.           *)
LEMMA ReadsExchange ==
    ASSUME Basic, ExchangeInv, BrokerReads, Head(up).type \notin Acks, Head(up).type # "connect"
    PROVE  ExchangeInv'
<1>1. TypeOK  BY DEF Basic
<1>2. PICK p : p = Head(up)
  OBVIOUS
<1>3. /\ link /\ up # <<>> /\ up' = Tail(up) /\ UNCHANGED <<handled, link>>
  BY DEF BrokerReads, inVars
<1>4. PICK type \in {"puback", "pubrec", "pubcomp", "suback"} :
         down' = Append(down, Packet(type, p.pid)) /\ incoming' = incoming
  BY <1>2 DEF BrokerReads, Answer, Acks
<1>5. PICK q : q = Packet(type, p.pid)
  OBVIOUS
<1>6. PICK v : v = <<q>>
  OBVIOUS
<1>7. q \in Packets /\ q.type \notin Sends
  <2>1. p \in Packets  BY <1>1, <1>2, <1>3 DEF TypeOK
  <2>2. p.type \in {"publish", "pubrel", "forked", "subscribe"}
    BY <1>2 DEF BrokerReads, Acks
  <2>3. p.pid \in Ids  BY <2>1, <2>2, PacketFields
  <2>. QED  BY <1>5, <2>3, PacketIs DEF Packet, Sends
<1>8. Follows(down', down, 0, v) /\ \A n \in DOMAIN v : v[n] = q
  <2>1. down \in Seq(Packets)  BY <1>1 DEF TypeOK
  <2>. QED  BY <1>4, <1>5, <1>6, <1>7, <2>1, FollowsAppend
<1>9. PICK w : w = <<>> /\ \A n \in DOMAIN w : FALSE
  OBVIOUS
<1>10. Follows(up', up, 1, w)
  <2>1. up \in Seq(Packets)  BY <1>1 DEF TypeOK
  <2>. QED  BY <1>3, <1>9, <2>1, FollowsTail
<1>11. link' => link  BY <1>3
<1>. QED  BY <1>3, <1>4, <1>7, <1>8, <1>9, <1>10, <1>11, ExchangeKept

LEMMA OneWritten ==
    ASSUME TypeOK, NEW p \in Packets, up' = Written(<<p>>)
    PROVE  \E w : Follows(up', up, 0, w) /\ \A n \in DOMAIN w : n = 1 /\ w[n] = p
<1>1. up \in Seq(Packets)  BY DEF TypeOK
<1>2. /\ Follows(Written(<<p>>), up, 0, Sent(<<p>>))
      /\ \A n \in DOMAIN Sent(<<p>>) : n = 1 /\ Sent(<<p>>)[n] = p
  BY <1>1, WrittenOne
<1>. QED  BY <1>2

LEMMA OwnExchange ==
    ASSUME Basic, ExchangeInv, NEW p \in Packets, up' = Written(<<p>>),
           p.type \in {"publish", "subscribe", "pubrel"},
           NEW e, Follows(down', down, e, <<>>), UNCHANGED <<link, incoming, handled>>
    PROVE  ExchangeInv'
<1>1. TypeOK  BY DEF Basic
<1>2. PICK w : Follows(up', up, 0, w) /\ \A n \in DOMAIN w : w[n] = p
  BY <1>1, OneWritten
<1>3. PICK v : v = <<>> /\ \A n \in DOMAIN v : FALSE
  OBVIOUS
<1>4. Follows(down', down, e, v)  BY <1>3
<1>5. link' => link  OBVIOUS
<1>6. \A n \in DOMAIN w : w[n].type \notin Acks /\ w[n].type # "connect"
  BY <1>2 DEF Acks
<1>. QED  BY <1>2, <1>3, <1>4, <1>5, <1>6, ExchangeKept

LEMMA PublishExchange ==
    ASSUME Basic, ExchangeInv, NEW qos \in Qos, DoPublish(qos)
    PROVE  ExchangeInv'
<1>1. TypeOK /\ Bounds  BY DEF Basic
<1>2. PICK pid \in free : up' = Written(<<Publish(pid, qos, Len(made) + 1)>>)
  BY DEF DoPublish
<1>3. PICK p : p = Publish(pid, qos, Len(made) + 1)
  OBVIOUS
<1>4. Len(made) < MaxMsgs /\ UNCHANGED <<down, link, incoming, handled>>
  BY DEF DoPublish, brokerVars, inVars
<1>5. p \in Packets /\ p.type = "publish"
  <2>1. made \in Seq([qos : {1, 2}, pid : Ids])  BY <1>1 DEF TypeOK
  <2>2. pid \in Ids /\ qos \in {1, 2} /\ Len(made) + 1 \in 1..(MaxMsgs + MaxIncoming)
    BY <1>1, <1>4, <2>1, ConstantsAssumption DEF TypeOK
  <2>. QED  BY <1>3, <2>2, PacketIs DEF Publish
<1>6. Follows(down', down, 0, <<>>)  BY <1>1, <1>4, FollowsSame DEF TypeOK
<1>. QED  BY <1>2, <1>3, <1>4, <1>5, <1>6, OwnExchange

LEMMA SubscribeExchange ==
    ASSUME Basic, ExchangeInv, DoSubscribe
    PROVE  ExchangeInv'
<1>1. TypeOK  BY DEF Basic
<1>2. PICK pid \in free : up' = Written(<<Packet("subscribe", pid)>>)
  BY DEF DoSubscribe
<1>3. PICK p : p = Packet("subscribe", pid)
  OBVIOUS
<1>4. UNCHANGED <<down, link, incoming, handled>>
  BY DEF DoSubscribe, brokerVars, inVars
<1>5. p \in Packets /\ p.type = "subscribe"
  <2>1. pid \in Ids  BY <1>1 DEF TypeOK
  <2>. QED  BY <1>3, <2>1, PacketIs DEF Packet
<1>6. Follows(down', down, 0, <<>>)  BY <1>1, <1>4, FollowsSame DEF TypeOK
<1>. QED  BY <1>2, <1>3, <1>4, <1>5, <1>6, OwnExchange

LEMMA PubrecExchange ==
    ASSUME Basic, ExchangeInv, ProcessPubrec
    PROVE  ExchangeInv'
<1>1. TypeOK /\ Phases  BY DEF Basic
<1>2. /\ Receives("pubrec") /\ up' = Written(<<Packet("pubrel", Head(down).pid)>>)
      /\ UNCHANGED <<link, incoming, handled>>
  BY DEF ProcessPubrec, brokerVars, inVars
<1>3. PICK p : p = Packet("pubrel", Head(down).pid)
  OBVIOUS
<1>4. p \in Packets /\ p.type = "pubrel" /\ Follows(down', down, 1, <<>>)
  <2>1. Head(down).pid \in Ids  BY <1>1, <1>2, ReceivesIs, PacketFields
  <2>. QED  BY <1>1, <1>2, <1>3, <2>1, PacketIs, ReceivesIs DEF Packet
<1>. QED  BY <1>2, <1>3, <1>4, OwnExchange

(* Steps that write nothing, and whose client reads no publish or PUBREL.  *)
LEMMA QuietExchange ==
    ASSUME Basic, ExchangeInv, NEW e, Follows(up', up, 0, <<>>), Follows(down', down, e, <<>>),
           link' => link, incoming' = incoming, handled' = handled
    PROVE  ExchangeInv'
<1>1. PICK v : v = <<>> /\ \A n \in DOMAIN v : FALSE
  OBVIOUS
<1>2. Follows(up', up, 0, v) /\ Follows(down', down, e, v)  BY <1>1
<1>. QED  BY <1>1, <1>2, ExchangeKept

LEMMA OthersExchange ==
    ASSUME Basic, ExchangeInv,
           Forks \/ HandleError \/ ProcessPuback \/ ProcessPubcomp \/ ProcessSuback \/ Break
    PROVE  ExchangeInv'
<1>1. TypeOK /\ Phases  BY DEF Basic
<1>2. Follows(up, up, 0, <<>>) /\ Follows(down, down, 0, <<>>) /\ Follows(<<>>, up, 0, <<>>)
  BY <1>1, FollowsSame, FollowsNone DEF TypeOK
<1>3. CASE Forks \/ HandleError
  BY <1>2, <1>3, QuietExchange DEF Forks, HandleError, inVars, endpointVars, brokerVars
<1>4. CASE ProcessPuback \/ ProcessPubcomp \/ ProcessSuback
  <2>1. \E type : Receives(type)
    BY <1>4 DEF ProcessPuback, ProcessPubcomp, ProcessSuback
  <2>2. Follows(down', down, 1, <<>>)  BY <1>1, <2>1, ReceivesIs
  <2>3. UNCHANGED <<up, link, incoming, handled>>
    BY <1>4 DEF ProcessPuback, ProcessPubcomp, ProcessSuback, inVars, brokerVars
  <2>. QED  BY <1>2, <2>2, <2>3, QuietExchange
<1>5. CASE Break
  <2>1. PICK n \in 0..Len(down) : down' = SubSeq(down, 1, n)
    BY <1>5 DEF Break
  <2>2. Follows(down', down, 0, <<>>)  BY <1>1, <2>1, FollowsPrefix DEF TypeOK
  <2>3. up' = <<>> /\ link' = FALSE /\ UNCHANGED <<incoming, handled>>
    BY <1>5 DEF Break, inVars, brokerVars
  <2>. QED  BY <1>2, <2>2, <2>3, QuietExchange
<1>. QED  BY <1>3, <1>4, <1>5

LEMMA ForkPublishesExchange ==
    ASSUME Basic, ExchangeInv, NEW n \in DOMAIN forks, ForkPublishes(n)
    PROVE  ExchangeInv'
<1>1. TypeOK  BY DEF Basic
<1>2. PICK pid \in forks[n] : up' = Append(up, Packet("forked", pid))
  BY DEF ForkPublishes
<1>3. PICK p : p = Packet("forked", pid)
  OBVIOUS
<1>4. UNCHANGED <<down, link, incoming, handled>>
  BY DEF ForkPublishes, brokerVars, inVars
<1>5. p \in Packets /\ p.type = "forked"
  <2>1. forks \in Seq(SUBSET Ids)  BY <1>1 DEF TypeOK
  <2>2. pid \in Ids  BY <2>1
  <2>. QED  BY <1>3, <2>2, PacketIs DEF Packet
<1>6. PICK w : w = <<p>>
  OBVIOUS
<1>7. Follows(up', up, 0, w) /\ \A k \in DOMAIN w : w[k] = p
  <2>1. up \in Seq(Packets)  BY <1>1 DEF TypeOK
  <2>. QED  BY <1>2, <1>3, <1>5, <1>6, <2>1, FollowsAppend
<1>8. PICK v : v = <<>> /\ \A k \in DOMAIN v : FALSE
  OBVIOUS
<1>9. Follows(down', down, 0, v)  BY <1>1, <1>4, <1>8, FollowsSame DEF TypeOK
<1>10. link' => link  BY <1>4
<1>11. \A k \in DOMAIN w : w[k].type \notin Acks /\ w[k].type # "connect"
  BY <1>5, <1>7 DEF Acks
<1>. QED  BY <1>4, <1>7, <1>8, <1>9, <1>10, <1>11, ExchangeKept

LEMMA ConnackExchange ==
    ASSUME Basic, ExchangeInv, ProcessConnack
    PROVE  ExchangeInv'
<1>1. TypeOK /\ StoreMade /\ Phases  BY DEF Basic
<1>2. Receives("connack") /\ UNCHANGED <<link, incoming, handled>>
  BY DEF ProcessConnack, brokerVars, inVars
<1>3. PICK v : v = <<>> /\ \A k \in DOMAIN v : FALSE
  OBVIOUS
<1>4. Follows(down', down, 1, v)  BY <1>1, <1>2, <1>3, ReceivesIs
<1>5. PICK w : w = IF up' = up THEN <<>> ELSE Sent(Resent)
  OBVIOUS
<1>6. /\ Follows(up', up, 0, w)
      /\ \A n \in DOMAIN w : w[n].type \notin Acks /\ w[n].type # "connect"
  <2>1. up \in Seq(Packets)  BY <1>1 DEF TypeOK
  <2>2. CASE up' = up
    <3>1. w = <<>> /\ \A n \in DOMAIN w : FALSE  BY <1>5, <2>2
    <3>. QED  BY <2>1, <2>2, <3>1, FollowsSame
  <2>3. CASE up' = Written(Resent) /\ up' # up
    <3>1. /\ Resent \in Seq(Packets)
          /\ \A n \in DOMAIN Resent : Resent[n].type \in {"publish", "pubrel"}
      BY <1>1, ResentIs
    <3>2. w = Sent(Resent)  BY <1>5, <2>3
    <3>3. \A n \in DOMAIN w : w[n].type \in {"publish", "pubrel"}
      BY <3>1, <3>2 DEF Sent
    <3>4. Follows(Written(Resent), up, 0, Sent(Resent))  BY <2>1, <3>1, WrittenFollows
    <3>. QED  BY <2>3, <3>2, <3>3, <3>4 DEF Acks
  <2>. QED  BY <2>2, <2>3 DEF ProcessConnack
<1>7. link' => link  BY <1>2
<1>. QED  BY <1>2, <1>3, <1>4, <1>6, <1>7, ExchangeKept

LEMMA InitExchange == Init => ExchangeInv
  BY DEF Init, ExchangeInv, NothingMissed, OpenApart, DownMatches, UpMatches, OneDown, OneUp, OneWay,
         NoAcksYet

LEMMA NextExchange == Basic /\ ExchangeInv /\ [Next]_vars => ExchangeInv'
<1>1. SUFFICES ASSUME Basic, ExchangeInv, [Next]_vars PROVE ExchangeInv'
  OBVIOUS
<1>2. CASE UNCHANGED vars
  BY <1>1, <1>2 DEF vars, inVars, brokerVars, ExchangeInv, NothingMissed, OpenApart, DownMatches,
     UpMatches, OneDown, OneUp, OneWay, NoAcksYet, Exchange, IsOpen
<1>3. CASE BrokerReads
  BY <1>1, <1>3, AcceptsExchange, SettlesExchange, ReadsExchange
<1>4. CASE ProcessPacket
  BY <1>1, <1>4, AnswersExchange, ConnackExchange, PubrecExchange, OthersExchange DEF ProcessPacket
<1>5. CASE Next /\ ~BrokerReads /\ ~ProcessPacket
  BY <1>1, <1>5, PublishExchange, BrokerPublishesExchange, ForkPublishesExchange, SubscribeExchange,
     ConnectExchange, OthersExchange, BrokerForgetsExchange
  DEF Next
<1>. QED  BY <1>1, <1>2, <1>3, <1>4, <1>5

(* NothingMissed, about process_publish: a publish that the broker will not *)
(* send again was handled, for any number of connections and sessions and  *)
(* with ids that are used again.                                           *)
THEOREM HandledBeforeSettled == Spec => []NothingMissed
<1>1. ExchangeInv => NothingMissed  BY DEF ExchangeInv
<1>. QED  BY <1>1, InitBasic, NextBasic, InitExchange, NextExchange, PTL DEF Spec

----------------------------------------------------------------------------
(* Packet ids and deliveries, for users that wait for the CONNACK before   *)
(* they publish and subscribe, and subscriptions in flight that at most    *)
(* one error follows.  The agent is such a user: it subscribes and         *)
(* publishes when it is connected, and does not connect again.             *)
UsersWait == WaitsForConnack /\ (MaxBreaks <= SubscribesFrom \/ MaxBreaks <= 1)

(* While a connection is opened, its CONNECT or CONNACK is on its way and  *)
(* nothing of the client's else; the broker keeps ids only in a session.   *)
UpOpening   == conn = "opening" => \A n \in DOMAIN up : up[n].type = "connect"
DownOpening ==
    /\ conn = "opening" =>
          \A n \in DOMAIN down : IF n = 1 THEN down[n].type = "connack" ELSE down[n].type \in Sends
    /\ conn = "opening" /\ link /\ up = <<>> => down # <<>>
    /\ conn # "opening" => \A n \in DOMAIN down : down[n].type # "connack"
SessionHeld ==
    /\ link => session \/ \E n \in DOMAIN up : up[n].type = "connect"
    /\ ~session => received = {}
    /\ \A n \in DOMAIN down : down[n].type = "connack" /\ ~down[n].present => received = {}

(* The errors that can still come. *)
Errors == (IF conn # "off" /\ ~link THEN 1 ELSE 0) + MaxBreaks - breaks
LastErrors ==
    /\ conn # "off" /\ ~link => breaks >= 1
    /\ inflight # {} => Errors <= 1
    /\ inflight # {} /\ conn # "on" => Errors = 0

SessionInv == UpOpening /\ DownOpening /\ SessionHeld /\ LastErrors

(* What is read while a connection is opened can only be the CONNACK. *)
LEMMA ReadsWhenOn ==
    ASSUME Basic, SessionInv, NEW type, Receives(type), type # "connack"
    PROVE  conn = "on"
<1>1. TypeOK /\ Phases  BY DEF Basic
<1>2. conn # "off" /\ 1 \in DOMAIN down /\ down[1].type = type
  BY <1>1, ReceivesIs
<1>. QED  BY <1>1, <1>2 DEF SessionInv, DownOpening, TypeOK

(* Steps on an open connection. *)
LEMMA SessionKept ==
    ASSUME Basic, SessionInv, conn = "on", conn' = "on",
           NEW e, NEW v, Follows(down', down, e, v), \A n \in DOMAIN v : v[n].type # "connack",
           link' = link, breaks' = breaks, session' = session,
           received' # received => link,
           inflight' # {} => inflight # {} \/ Errors <= 1
    PROVE  SessionInv'
<1>1. Phases  BY DEF Basic
<1>2. link => session
  BY <1>1 DEF SessionInv, SessionHeld, Phases
<1>3. \A n \in DOMAIN down' : down'[n].type # "connack"
  BY DEF SessionInv, DownOpening, Follows
<1>4. UpOpening' /\ DownOpening'
  BY <1>3 DEF UpOpening, DownOpening
<1>5. SessionHeld'
  BY <1>2, <1>3 DEF SessionInv, SessionHeld
<1>6. LastErrors'
  BY DEF SessionInv, LastErrors, Errors
<1>. QED  BY <1>4, <1>5, <1>6 DEF SessionInv

(* Steps that leave packets, session and connection alone. *)
LEMMA SessionSame ==
    ASSUME SessionInv, UNCHANGED <<conn, up, down, link, session, received, breaks>>,
           inflight' # {} => inflight # {}
    PROVE  SessionInv'
  BY DEF SessionInv, UpOpening, DownOpening, SessionHeld, LastErrors, Errors

LEMMA UsersSession ==
    ASSUME UsersWait, Basic, SessionInv, (\E qos \in Qos : DoPublish(qos)) \/ DoSubscribe
    PROVE  SessionInv'
<1>1. TypeOK  BY DEF Basic
<1>2. UNCHANGED <<conn, down, link, session, received, breaks>>
  BY DEF DoPublish, DoSubscribe, brokerVars
<1>3. CASE conn = "on"
  <2>1. PICK v : v = <<>> /\ \A n \in DOMAIN v : FALSE
    OBVIOUS
  <2>2. Follows(down', down, 0, v)  BY <1>1, <1>2, <2>1, FollowsSame DEF TypeOK
  <2>3. inflight' # {} => inflight # {} \/ Errors <= 1
    <3>1. CASE \E qos \in Qos : DoPublish(qos)  BY <3>1 DEF DoPublish
    <3>2. CASE DoSubscribe
      <4>1. breaks \in Nat /\ breaks <= MaxBreaks /\ breaks >= SubscribesFrom
        BY <1>1, <3>2, ConstantsAssumption DEF DoSubscribe, TypeOK
      <4>2. conn # "off" /\ ~link => breaks >= 1  BY DEF SessionInv, LastErrors
      <4>. QED  BY <1>3, <4>1, <4>2, ConstantsAssumption DEF Errors, UsersWait
    <3>. QED  BY <3>1, <3>2
  <2>4. conn' = "on" /\ \A n \in DOMAIN v : v[n].type # "connack"  BY <1>2, <1>3, <2>1
  <2>5. received' # received => link  BY <1>2
  <2>. QED  BY <1>2, <1>3, <2>2, <2>3, <2>4, <2>5, SessionKept
<1>4. CASE conn = "off"
  <2>1. up' = up /\ inflight' = inflight
    BY <1>4 DEF DoPublish, DoSubscribe, Written, UserMaySubscribe, UsersWait
  <2>. QED  BY <1>2, <2>1, SessionSame
<1>5. conn # "opening"
  BY DEF DoPublish, DoSubscribe, UserMayPublish, UserMaySubscribe, UsersWait
<1>. QED  BY <1>1, <1>3, <1>4, <1>5 DEF TypeOK

LEMMA HandlersSession ==
    ASSUME Basic, SessionInv,
           ProcessPublish \/ ProcessPubrel \/ ProcessPuback \/ ProcessPubrec \/ ProcessPubcomp \/ ProcessSuback
    PROVE  SessionInv'
<1>1. TypeOK /\ Phases  BY DEF Basic
<1>2. PICK type : Receives(type) /\ type # "connack"
  BY DEF ProcessPublish, ProcessPubrel, ProcessPuback, ProcessPubrec, ProcessPubcomp, ProcessSuback
<1>3. UNCHANGED <<conn, link, session, received, breaks>> /\ inflight' \subseteq inflight
  BY DEF ProcessPublish, ProcessPubrel, ProcessPuback, ProcessPubrec, ProcessPubcomp, ProcessSuback,
         endpointVars, brokerVars, historyVars
<1>4. conn = "on"  BY <1>2, ReadsWhenOn
<1>5. PICK v : v = <<>> /\ \A n \in DOMAIN v : FALSE
  OBVIOUS
<1>6. Follows(down', down, 1, v)  BY <1>1, <1>2, <1>5, ReceivesIs
<1>7. conn' = "on" /\ (received' # received => link) /\ \A n \in DOMAIN v : v[n].type # "connack"
  BY <1>3, <1>4, <1>5
<1>8. inflight' # {} => inflight # {} \/ Errors <= 1  BY <1>3
<1>. QED  BY <1>3, <1>4, <1>6, <1>7, <1>8, SessionKept

LEMMA ConnectionSession ==
    ASSUME Basic, SessionInv, Connect \/ HandleError
    PROVE  SessionInv'
<1>1. TypeOK /\ Phases  BY DEF Basic
<1>2. /\ SessionHeld /\ LastErrors /\ breaks \in Nat /\ breaks <= MaxBreaks
      /\ UNCHANGED <<inflight, session, received, breaks>>
  BY <1>1, ConstantsAssumption DEF SessionInv, TypeOK, Connect, HandleError, brokerVars, historyVars
<1>3. CASE Connect
  <2>1. PICK clean \in CleanSessions : up' = <<[type |-> "connect", clean |-> clean]>>
    BY <1>3 DEF Connect
  <2>2. conn = "off" /\ conn' = "opening" /\ link' = TRUE /\ down' = <<>>
    BY <1>3 DEF Connect
  <2>3. PICK p : p = [type |-> "connect", clean |-> clean]
    OBVIOUS
  <2>4. p.type = "connect" /\ DOMAIN up' = {1} /\ up'[1] = p /\ up' # <<>> /\ DOMAIN down' = {}
    BY <2>1, <2>2, <2>3
  <2>5. UpOpening' /\ DownOpening' /\ SessionHeld'
    BY <1>2, <2>2, <2>4 DEF UpOpening, DownOpening, SessionHeld
  <2>6. LastErrors'
    BY <1>2, <2>2 DEF LastErrors, Errors
  <2>. QED  BY <2>5, <2>6 DEF SessionInv
<1>4. CASE HandleError
  <2>1. conn # "off" /\ ~link /\ conn' = "off" /\ down = <<>> /\ UNCHANGED <<link, up, down>>
    BY <1>4 DEF HandleError
  <2>2. UpOpening' /\ DownOpening' /\ SessionHeld'
    BY <1>2, <2>1 DEF UpOpening, DownOpening, SessionHeld
  <2>3. LastErrors'
    BY <1>2, <2>1, ConstantsAssumption DEF LastErrors, Errors
  <2>. QED  BY <2>2, <2>3 DEF SessionInv
<1>. QED  BY <1>3, <1>4

LEMMA ConnackSession ==
    ASSUME Basic, SessionInv, ProcessConnack
    PROVE  SessionInv'
<1>1. TypeOK /\ Phases  BY DEF Basic
<1>2. /\ Receives("connack") /\ conn' = "on"
      /\ UNCHANGED <<inflight, link, session, received, breaks>>
  BY DEF ProcessConnack, brokerVars
<1>3. /\ conn # "off" /\ 1 \in DOMAIN down /\ down[1].type = "connack"
      /\ Follows(down', down, 1, <<>>) /\ \A n \in DOMAIN up : up[n].type # "connect"
  BY <1>1, <1>2, ReceivesIs
<1>4. conn = "opening"  BY <1>3 DEF SessionInv, DownOpening
<1>5. ASSUME NEW n \in DOMAIN down'
      PROVE  down'[n].type # "connack"
  <2>1. n + 1 \in DOMAIN down /\ down'[n] = down[n + 1]
    BY <1>3 DEF Follows
  <2>2. n \in DOMAIN down' /\ down' \in Seq(Packets)  BY <1>3 DEF Follows
  <2>3. n + 1 # 1  BY <2>2
  <2>. QED  BY <1>4, <2>1, <2>3 DEF SessionInv, DownOpening, Sends
<1>6. UpOpening' /\ DownOpening' /\ SessionHeld'
  BY <1>2, <1>3, <1>5 DEF SessionInv, UpOpening, DownOpening, SessionHeld
<1>7. LastErrors'
  BY <1>2, <1>3, <1>4 DEF SessionInv, LastErrors, Errors
<1>. QED  BY <1>6, <1>7 DEF SessionInv

LEMMA ForksSession ==
    ASSUME Basic, SessionInv, Forks \/ \E n \in DOMAIN forks : ForkPublishes(n)
    PROVE  SessionInv'
<1>1. TypeOK /\ ForksLinked  BY DEF Basic
<1>2. UNCHANGED <<conn, inflight, link, down, session, received, breaks>>
  BY DEF Forks, ForkPublishes, endpointVars, brokerVars, historyVars
<1>3. CASE Forks
  <2>1. up' = up  BY <1>3 DEF Forks
  <2>. QED  BY <1>2, <2>1, SessionSame
<1>4. CASE \E n \in DOMAIN forks : ForkPublishes(n)
  <2>1. conn = "on"  BY <1>1, <1>4 DEF ForkPublishes, ForksLinked
  <2>2. PICK v : v = <<>> /\ \A n \in DOMAIN v : FALSE
    OBVIOUS
  <2>3. Follows(down', down, 0, v)  BY <1>1, <1>2, <2>2, FollowsSame DEF TypeOK
  <2>4. conn' = "on" /\ \A n \in DOMAIN v : v[n].type # "connack"  BY <1>2, <2>1, <2>2
  <2>5. received' # received => link  BY <1>2
  <2>6. inflight' # {} => inflight # {} \/ Errors <= 1  BY <1>2
  <2>. QED  BY <1>2, <2>1, <2>3, <2>4, <2>5, <2>6, SessionKept
<1>. QED  BY <1>3, <1>4

LEMMA BrokerPublishesSession ==
    ASSUME Basic, SessionInv, NEW qos \in Qos, BrokerPublishes(qos)
    PROVE  SessionInv'
<1>1. TypeOK /\ Phases /\ Basic'  BY BrokerPublishesBasic DEF Basic
<1>2. PICK m : m = Len(incoming) + 1
  OBVIOUS
<1>3. PICK pid \in Ids : down' = Append(down, Publish(pid, qos, m))
  BY <1>2 DEF BrokerPublishes, Answer
<1>4. /\ link /\ \A n \in DOMAIN up : up[n].type # "connect"
      /\ UNCHANGED <<conn, inflight, link, up, session, received, breaks>>
  BY DEF BrokerPublishes, endpointVars, historyVars
<1>5. PICK p : p = Publish(pid, qos, m)
  OBVIOUS
<1>6. PICK v : v = <<p>>
  OBVIOUS
<1>7. /\ p.type = "publish" /\ \A n \in DOMAIN v : v[n] = p
      /\ down \in Seq(Packets) /\ up \in Seq(Packets)
  BY <1>1, <1>5, <1>6 DEF Publish, TypeOK
<1>8. p \in Packets
  <2>1. down' \in Seq(Packets)  BY <1>1 DEF Basic, TypeOK
  <2>2. down' = Append(down, p)  BY <1>3, <1>5
  <2>3. Len(down) + 1 \in DOMAIN down' /\ down'[Len(down) + 1] = p  BY <1>7, <2>2
  <2>. QED  BY <2>1, <2>3
<1>9. Follows(down', down, 0, v)
  BY <1>3, <1>5, <1>6, <1>7, <1>8, FollowsAppend
<1>10. conn # "off"  BY <1>1, <1>4 DEF Phases
<1>11. CASE conn = "on"
  <2>1. conn' = "on" /\ \A n \in DOMAIN v : v[n].type # "connack"  BY <1>4, <1>7, <1>11
  <2>2. received' # received => link  BY <1>4
  <2>3. inflight' # {} => inflight # {} \/ Errors <= 1  BY <1>4
  <2>. QED  BY <1>4, <1>9, <1>11, <2>1, <2>2, <2>3, SessionKept
<1>12. CASE conn = "opening"
  <2>1. up = <<>>
    <3>1. up # <<>> => 1 \in DOMAIN up  BY <1>7
    <3>. QED  BY <1>4, <1>12, <3>1 DEF SessionInv, UpOpening
  <2>2. down # <<>> /\ 1 \in DOMAIN down
    <3>1. down # <<>>  BY <1>4, <1>12, <2>1 DEF SessionInv, DownOpening
    <3>. QED  BY <1>7, <3>1
  <2>3. /\ DOMAIN down' = 1..(Len(down) + 1) /\ \A n \in DOMAIN down : down'[n] = down[n]
        /\ down'[Len(down) + 1] = p /\ DOMAIN down = 1..Len(down) /\ Len(down) \in Nat
    BY <1>3, <1>5, <1>7
  <2>4. UpOpening' /\ DownOpening' /\ SessionHeld'
    <3>1. DownOpening'
      <4>1. ASSUME NEW n \in DOMAIN down'
            PROVE  IF n = 1 THEN down'[n].type = "connack" ELSE down'[n].type \in Sends
        <5>1. CASE n \in DOMAIN down  BY <1>12, <2>3, <5>1 DEF SessionInv, DownOpening
        <5>2. CASE n \notin DOMAIN down
          <6>1. n = Len(down) + 1 /\ n # 1  BY <2>2, <2>3, <5>2
          <6>. QED  BY <1>7, <2>3, <6>1 DEF Sends
        <5>. QED  BY <5>1, <5>2
      <4>2. down' # <<>>  BY <2>3
      <4>. QED  BY <1>4, <1>12, <4>1, <4>2 DEF DownOpening
    <3>2. \A n \in DOMAIN down' : down'[n].type = "connack" => n \in DOMAIN down /\ down'[n] = down[n]
      BY <1>7, <2>3
    <3>. QED  BY <1>4, <3>1, <3>2 DEF SessionInv, UpOpening, SessionHeld
  <2>5. LastErrors'  BY <1>4 DEF SessionInv, LastErrors, Errors
  <2>. QED  BY <2>4, <2>5 DEF SessionInv
<1>. QED  BY <1>1, <1>10, <1>11, <1>12 DEF TypeOK

LEMMA AcceptsSession ==
    ASSUME Basic, SessionInv, BrokerReads, Head(up).type = "connect"
    PROVE  SessionInv'
<1>1. TypeOK /\ Phases  BY DEF Basic
<1>2. /\ link /\ up # <<>> /\ up' = Tail(up) /\ session' = TRUE
      /\ \/ down' = Append(down, Connack(FALSE)) /\ Discards
         \/ /\ \E s \in InOrder(Unsettled) :
                  down' = Append(down, Connack(session)) \o [n \in DOMAIN s |-> Resend(s[n])]
            /\ UNCHANGED <<received, incoming, orphaned>>
      /\ UNCHANGED <<conn, inflight, link, breaks>>
  BY DEF BrokerReads, Answer, endpointVars
<1>3. /\ up \in Seq(Packets) /\ Head(up) = up[1] /\ 1 \in DOMAIN up
      /\ \A n \in DOMAIN up' : n + 1 \in DOMAIN up /\ up'[n] = up[n + 1] /\ n + 1 # 1
  BY <1>1, <1>2 DEF TypeOK
<1>4. conn = "opening" /\ down = <<>>
  BY <1>1, <1>3 DEF Phases
<1>5. UpOpening'
  BY <1>2, <1>3, <1>4 DEF SessionInv, UpOpening
<1>6. PICK r, c :
         /\ r \in Seq(Packets) /\ c \in Packets /\ down' = <<c>> \o r
         /\ \A n \in DOMAIN r : r[n].type \in Sends
         /\ c.type = "connack" /\ (~c.present => received' = {})
  <2>1. CASE down' = Append(down, Connack(FALSE)) /\ Discards
    <3>1. PICK r : r = <<>> /\ \A n \in DOMAIN r : FALSE
      OBVIOUS
    <3>2. r \in Seq(Packets)  BY <3>1
    <3>3. PICK c : c = Connack(FALSE)
      OBVIOUS
    <3>4. c \in Packets /\ c.type = "connack"  BY <3>3, PacketIs DEF Connack
    <3>5. down' = <<c>> \o r  BY <1>4, <2>1, <3>1, <3>3, <3>4
    <3>6. received' = {}  BY <2>1 DEF Discards
    <3>. QED  BY <3>1, <3>2, <3>4, <3>5, <3>6
  <2>2. ASSUME NEW s \in InOrder(Unsettled), received' = received,
               down' = Append(down, Connack(session)) \o [n \in DOMAIN s |-> Resend(s[n])]
        PROVE  \E r, c :
                 /\ r \in Seq(Packets) /\ c \in Packets /\ down' = <<c>> \o r
                 /\ \A n \in DOMAIN r : r[n].type \in Sends
                 /\ c.type = "connack" /\ (~c.present => received' = {})
    <3>1. PICK r : r = [n \in DOMAIN s |-> Resend(s[n])]
      OBVIOUS
    <3>2. /\ r \in Seq(Packets) /\ DOMAIN s = 1..Len(r)
          /\ \A n \in DOMAIN s : r[n].type \in {"publish", "pubrel"}
      BY <3>1, ResumedTyped
    <3>3. \A n \in DOMAIN r : r[n].type \in Sends
      BY <3>2 DEF Sends
    <3>4. PICK c : c = Connack(session)
      OBVIOUS
    <3>5. down' = <<c>> \o r
      <4>1. Append(down, c) = <<c>>  BY <1>4
      <4>. QED  BY <2>2, <3>1, <3>4, <4>1
    <3>6. c \in Packets /\ c.type = "connack" /\ c.present = session
      BY <1>1, <3>4, PacketIs DEF Connack, TypeOK
    <3>7. ~session => received' = {}
      BY <2>2 DEF SessionInv, SessionHeld
    <3>. QED  BY <3>2, <3>3, <3>5, <3>6, <3>7
  <2>. QED  BY <1>2, <2>1, <2>2
<1>8. /\ down' # <<>> /\ down'[1] = c
      /\ \A n \in DOMAIN down' : n # 1 => down'[n].type \in Sends
  <2>4. /\ DOMAIN down' = 1..(Len(r) + 1) /\ Len(r) \in Nat /\ down'[1] = c
        /\ \A n \in 2..(Len(r) + 1) : down'[n] = r[n - 1] /\ n - 1 \in DOMAIN r
    BY <1>6
  <2>5. down' # <<>>  BY <2>4
  <2>6. \A n \in DOMAIN down' : n # 1 => down'[n].type \in Sends
    <3>1. SUFFICES ASSUME NEW n \in DOMAIN down', n # 1 PROVE down'[n].type \in Sends
      OBVIOUS
    <3>2. n \in 2..(Len(r) + 1)  BY <2>4, <3>1
    <3>. QED  BY <1>6, <2>4, <3>2
  <2>. QED  BY <2>4, <2>5, <2>6
<1>9. DownOpening'
  BY <1>2, <1>4, <1>6, <1>8 DEF DownOpening
<1>10. SessionHeld'
  BY <1>2, <1>6, <1>8 DEF SessionHeld, Sends
<1>11. LastErrors'
  BY <1>2 DEF SessionInv, LastErrors, Errors
<1>. QED  BY <1>5, <1>9, <1>10, <1>11 DEF SessionInv

LEMMA ReadsSession ==
    ASSUME Basic, SessionInv, BrokerReads, Head(up).type # "connect"
    PROVE  SessionInv'
<1>1. TypeOK /\ Phases  BY DEF Basic
<1>2. PICK p : p = Head(up)
  OBVIOUS
<1>3. /\ up \in Seq(Packets) /\ down \in Seq(Packets) /\ link /\ up # <<>> /\ p = up[1] /\ 1 \in DOMAIN up
      /\ UNCHANGED <<conn, inflight, link, breaks>>
  BY <1>1, <1>2 DEF BrokerReads, endpointVars, TypeOK
<1>4. conn = "on"
  <2>1. conn # "off"  BY <1>1, <1>3 DEF Phases
  <2>2. conn # "opening"  BY <1>2, <1>3 DEF SessionInv, UpOpening
  <2>. QED  BY <1>1, <2>1, <2>2 DEF TypeOK
<1>5. PICK type \in {"puback", "pubrec", "pubcomp", "suback", "pubrel"} :
         /\ down' = down \/ (p.pid \in Ids /\ down' = Append(down, Packet(type, p.pid)))
         /\ session' = session
  <2>1. p.type # "connect" /\ p \in Packets  BY <1>2, <1>3
  <2>2. p.type \notin {"connect", "connack"} => p.pid \in Ids
    BY <2>1, PacketFields
  <2>. QED  BY <1>2, <2>1, <2>2 DEF BrokerReads, Answer
<1>6. PICK q : q = Packet(type, p.pid)
  OBVIOUS
<1>7. PICK v : v = IF down' = down THEN <<>> ELSE <<q>>
  OBVIOUS
<1>8. q.type # "connack" /\ \A n \in DOMAIN v : v[n] = q
  BY <1>6, <1>7 DEF Packet
<1>9. Follows(down', down, 0, v)
  <2>1. CASE down' = down  BY <1>3, <1>7, <2>1, FollowsSame
  <2>2. CASE down' # down
    <3>1. q \in Packets  BY <1>5, <1>6, <2>2, PacketIs
    <3>. QED  BY <1>3, <1>5, <1>6, <1>7, <2>2, <3>1, FollowsAppend
  <2>. QED  BY <2>1, <2>2
<1>10. conn' = "on" /\ \A n \in DOMAIN v : v[n].type # "connack"  BY <1>3, <1>4, <1>8
<1>11. received' # received => link  BY <1>3
<1>12. inflight' # {} => inflight # {} \/ Errors <= 1  BY <1>3
<1>. QED  BY <1>3, <1>4, <1>5, <1>9, <1>10, <1>11, <1>12, SessionKept

LEMMA LostSession ==
    ASSUME Basic, SessionInv, Break \/ BrokerForgets
    PROVE  SessionInv'
<1>1. TypeOK /\ Phases  BY DEF Basic
<1>2. CASE Break
  <2>1. PICK k \in 0..Len(down) : down' = SubSeq(down, 1, k)
    BY <1>2 DEF Break
  <2>2. /\ link /\ breaks' = breaks + 1 /\ link' = FALSE /\ up' = <<>> /\ DOMAIN up' = {}
        /\ UNCHANGED <<conn, inflight, session, received>> /\ breaks \in Nat
    BY <1>1, <1>2 DEF Break, endpointVars, brokerVars, TypeOK
  <2>3. \A n \in DOMAIN down' : n \in DOMAIN down /\ down'[n] = down[n]
    BY <1>1, <2>1 DEF TypeOK
  <2>4. UpOpening' /\ DownOpening' /\ SessionHeld'
    BY <2>2, <2>3 DEF SessionInv, UpOpening, DownOpening, SessionHeld
  <2>5. LastErrors'
    <3>1. conn # "off"  BY <1>1, <2>2 DEF Phases
    <3>2. LastErrors  BY DEF SessionInv
    <3>. QED  BY <2>2, <3>1, <3>2, ConstantsAssumption DEF LastErrors, Errors
  <2>. QED  BY <2>4, <2>5 DEF SessionInv
<1>3. CASE BrokerForgets
  <2>1. ~link /\ received' = {} /\ UNCHANGED <<conn, inflight, link, up, down, breaks>>
    BY <1>3 DEF BrokerForgets, Discards, endpointVars
  <2>. QED  BY <2>1 DEF SessionInv, UpOpening, DownOpening, SessionHeld, LastErrors, Errors
<1>. QED  BY <1>2, <1>3

LEMMA InitSession == Init => SessionInv
  BY DEF Init, SessionInv, UpOpening, DownOpening, SessionHeld, LastErrors

LEMMA NextSession ==
    ASSUME UsersWait, Basic, SessionInv, [Next]_vars
    PROVE  SessionInv'
<1>1. CASE UNCHANGED vars
  <2>1. UNCHANGED <<conn, up, down, link, session, received, breaks, inflight>>
    BY <1>1 DEF vars, endpointVars, brokerVars, historyVars
  <2>. QED  BY <2>1, SessionSame
<1>2. CASE Next
  BY <1>2, UsersSession, HandlersSession, ConnectionSession, ConnackSession, ForksSession,
     BrokerPublishesSession, AcceptsSession, ReadsSession, LostSession
  DEF Next, ProcessPacket
<1>. QED  BY <1>1, <1>2

----------------------------------------------------------------------------
(* One packet id, which no fork shares: while it is in use there is one    *)
(* exchange, with at most one entry in the store and one packet on its     *)
(* way, which agree; while it is free there is nothing, but what forks     *)
(* published with it and the PUBACKs of that.                              *)
OwnUp   == {"publish", "pubrel", "subscribe"}
OwnDown == {"puback", "pubrec", "pubcomp", "suback"}

NoEntry(es, pid)  == \A n \in DOMAIN es : es[n].pid # pid
OneEntry(es, pid) == \A m, n \in DOMAIN es : es[m].pid = pid /\ es[n].pid = pid => m = n
NoPacket(ps, types, pid)  == \A n \in DOMAIN ps : ps[n].type \in types => ps[n].pid # pid
OnePacket(ps, types, pid) ==
    \A m, n \in DOMAIN ps :
        /\ ps[m].type \in types /\ ps[n].type \in types
        /\ ps[m].pid = pid /\ ps[n].pid = pid
        => m = n

FreeUnused(pid) ==
    pid \in free => /\ NoEntry(store, pid) /\ NoPacket(up, OwnUp, pid)
                    /\ NoPacket(down, OwnDown \ {"puback"}, pid)
ForkedFree(pid) == pid \in free \/ NoPacket(up, {"forked"}, pid)
OneExchange(pid) ==
    /\ OneEntry(store, pid) /\ OnePacket(up, OwnUp, pid)
    /\ pid \in free \/ OnePacket(down, OwnDown, pid)
    /\ NoPacket(up, OwnUp, pid) \/ NoPacket(down, OwnDown, pid)
UpAsked(pid) ==
    \A n \in DOMAIN up :
        /\ up[n].type = "publish" /\ up[n].pid = pid =>
              \E k \in DOMAIN store : store[k].pid = pid /\ store[k].packet = up[n]
        /\ up[n].type = "pubrel" /\ up[n].pid = pid => IsStored(pid, "pubcomp")
        /\ up[n].type = "subscribe" /\ up[n].pid = pid => pid \in inflight /\ NoEntry(store, pid)
DownAsked(pid) ==
    \A n \in DOMAIN down :
        /\ down[n].type = "puback" /\ down[n].pid = pid => pid \in free \/ IsStored(pid, "puback")
        /\ down[n].type = "pubrec" /\ down[n].pid = pid => IsStored(pid, "pubrec")
        /\ down[n].type = "pubcomp" /\ down[n].pid = pid => IsStored(pid, "pubcomp")
        /\ down[n].type = "suback" /\ down[n].pid = pid => pid \in inflight /\ NoEntry(store, pid)
(* An id that the next error gives back is not used by a publish. *)
Reserved(pid) == Errors > 0 /\ pid \in inflight => pid \notin free /\ NoEntry(store, pid)

IdKept(pid) ==
    /\ FreeUnused(pid) /\ ForkedFree(pid) /\ OneExchange(pid)
    /\ UpAsked(pid) /\ DownAsked(pid) /\ Reserved(pid)

IdsInv == \A pid \in Ids \ mixed : IdKept(pid)

(* The packets of an id, in a step that adds none of it. *)
LEMMA NoPacketKept ==
    ASSUME NEW t, NEW s, NEW d, NEW w, Follows(t, s, d, w), NEW types, NEW pid,
           NoPacket(w, types, pid), NoPacket(s, types, pid)
    PROVE  NoPacket(t, types, pid)
  BY DEF NoPacket, Follows

LEMMA OnePacketKept ==
    ASSUME NEW t, NEW s, NEW d, NEW w, Follows(t, s, d, w), NEW types, NEW pid,
           NoPacket(w, types, pid), OnePacket(s, types, pid)
    PROVE  OnePacket(t, types, pid)
<1>1. t \in Seq(Packets) /\ d \in Nat  BY DEF Follows
<1>2. SUFFICES ASSUME NEW m \in DOMAIN t, NEW n \in DOMAIN t, t[m].type \in types, t[n].type \in types,
                      t[m].pid = pid, t[n].pid = pid
               PROVE  m = n
  BY DEF OnePacket
<1>3. m + d \in DOMAIN s /\ t[m] = s[m + d] /\ n + d \in DOMAIN s /\ t[n] = s[n + d]
  BY <1>2 DEF Follows, NoPacket
<1>4. m + d = n + d  BY <1>2, <1>3 DEF OnePacket
<1>. QED  BY <1>1, <1>4

(* t has the entries of pid that s has. *)
SameEntries(t, s, pid) ==
    /\ \A n \in DOMAIN t : t[n].pid = pid => \E k \in DOMAIN s : s[k] = t[n]
    /\ \A k \in DOMAIN s : s[k].pid = pid => \E n \in DOMAIN t : t[n] = s[k]
    /\ OneEntry(s, pid) => OneEntry(t, pid)

LEMMA SameEntriesSame == \A s, pid : SameEntries(s, s, pid)
  BY DEF SameEntries

LEMMA SameEntriesAppend ==
    ASSUME NEW S, NEW s \in Seq(S), NEW e, NEW pid, e.pid # pid
    PROVE  SameEntries(Append(s, e), s, pid)
<1>1. /\ DOMAIN Append(s, e) = 1..(Len(s) + 1) /\ DOMAIN s = 1..Len(s) /\ Len(s) \in Nat
      /\ \A n \in DOMAIN s : Append(s, e)[n] = s[n]
      /\ Append(s, e)[Len(s) + 1] = e
  OBVIOUS
<1>2. \A n \in DOMAIN Append(s, e) : Append(s, e)[n].pid = pid => n \in DOMAIN s
  BY <1>1
<1>. QED  BY <1>1, <1>2 DEF SameEntries, OneEntry

LEMMA SameEntriesTransitive ==
    ASSUME NEW r, NEW s, NEW t, NEW pid, SameEntries(t, s, pid), SameEntries(s, r, pid)
    PROVE  SameEntries(t, r, pid)
<1>1. ASSUME NEW n \in DOMAIN t, t[n].pid = pid
      PROVE  \E k \in DOMAIN r : r[k] = t[n]
  <2>1. PICK j \in DOMAIN s : s[j] = t[n]  BY <1>1 DEF SameEntries
  <2>. QED  BY <1>1, <2>1 DEF SameEntries
<1>2. ASSUME NEW k \in DOMAIN r, r[k].pid = pid
      PROVE  \E n \in DOMAIN t : t[n] = r[k]
  <2>1. PICK j \in DOMAIN s : s[j] = r[k]  BY <1>2 DEF SameEntries
  <2>. QED  BY <1>2, <2>1 DEF SameEntries
<1>. QED  BY <1>1, <1>2 DEF SameEntries

LEMMA WithoutEffect ==
    ASSUME NEW s \in Seq(Entries), NEW i \in DOMAIN s
    PROVE  /\ \A pid : pid # s[i].pid => SameEntries(Without(s, i), s, pid)
           /\ \A n \in DOMAIN Without(s, i) : \E k \in DOMAIN s : k # i /\ s[k] = Without(s, i)[n]
           /\ \A k \in DOMAIN s : k # i => \E n \in DOMAIN Without(s, i) : Without(s, i)[n] = s[k]
<1>. DEFINE t == Without(s, i)
            At(n) == IF n < i THEN n ELSE n + 1
<1>1. /\ DOMAIN t = 1..(Len(s) - 1) /\ Len(s) \in Nat /\ DOMAIN s = 1..Len(s) /\ i \in Nat
      /\ \A n \in DOMAIN t : At(n) \in DOMAIN s /\ At(n) # i /\ t[n] = s[At(n)]
  BY DEF Without
<1>2. \A m, n \in DOMAIN t : At(m) = At(n) => m = n
  BY <1>1
<1>3. ASSUME NEW k \in DOMAIN s, k # i
      PROVE  \E n \in DOMAIN t : At(n) = k
  <2>1. CASE k < i
    <3>1. k \in DOMAIN t /\ At(k) = k  BY <1>1, <2>1
    <3>. QED  BY <3>1
  <2>2. CASE k > i
    <3>1. k - 1 \in DOMAIN t /\ At(k - 1) = k  BY <1>1, <2>2
    <3>. QED  BY <3>1
  <2>. QED  BY <1>1, <1>3, <2>1, <2>2
<1>. HIDE DEF t, At
<1>4. \A n \in DOMAIN t : \E k \in DOMAIN s : k # i /\ s[k] = t[n]
  BY <1>1
<1>5. \A k \in DOMAIN s : k # i => \E n \in DOMAIN t : t[n] = s[k]
  BY <1>1, <1>3
<1>6. ASSUME NEW pid, pid # s[i].pid
      PROVE  SameEntries(t, s, pid)
  <2>1. \A k \in DOMAIN s : s[k].pid = pid => \E n \in DOMAIN t : t[n] = s[k]
    BY <1>5, <1>6
  <2>2. OneEntry(s, pid) => OneEntry(t, pid)
    BY <1>1, <1>2 DEF OneEntry
  <2>. QED  BY <1>4, <2>1, <2>2 DEF SameEntries
<1>. QED  BY <1>4, <1>5, <1>6 DEF t

(* Erasing the entry of an id that has one. *)
LEMMA ErasedEffect ==
    ASSUME TypeOK, NEW pid, NEW expect
    PROVE  /\ \A q : q # pid => SameEntries(Erased(pid, expect), store, q)
           /\ ~IsStored(pid, expect) => Erased(pid, expect) = store
           /\ IsStored(pid, expect) /\ OneEntry(store, pid) => NoEntry(Erased(pid, expect), pid)
<1>1. store \in Seq(Entries)  BY DEF TypeOK
<1>2. CASE ~IsStored(pid, expect) /\ Erased(pid, expect) = store
  BY <1>2, SameEntriesSame
<1>3. ASSUME NEW i \in DOMAIN store, store[i].pid = pid, store[i].expect = expect,
             Erased(pid, expect) = Without(store, i)
      PROVE  /\ \A q : q # pid => SameEntries(Erased(pid, expect), store, q)
             /\ ~IsStored(pid, expect) => Erased(pid, expect) = store
             /\ IsStored(pid, expect) /\ OneEntry(store, pid) => NoEntry(Erased(pid, expect), pid)
  <2>1. \A q : q # pid => SameEntries(Without(store, i), store, q)
    BY <1>1, <1>3, WithoutEffect
  <2>2. IsStored(pid, expect)  BY <1>3 DEF IsStored
  <2>3. OneEntry(store, pid) => NoEntry(Without(store, i), pid)
    <3>1. \A n \in DOMAIN Without(store, i) : \E k \in DOMAIN store : k # i /\ store[k] = Without(store, i)[n]
      BY <1>1, WithoutEffect
    <3>. QED  BY <1>3, <3>1 DEF OneEntry, NoEntry
  <2>. QED  BY <1>3, <2>1, <2>2, <2>3
<1>. QED  BY <1>1, <1>2, <1>3, ErasedIs

(* A step that does not touch an id keeps it. *)
LEMMA IdFrame ==
    ASSUME TypeOK, NEW pid \in Ids, IdKept(pid),
           NEW d, NEW w, Follows(up', up, d, w), NoPacket(w, OwnUp, pid),
           NEW e, NEW v, Follows(down', down, e, v), NoPacket(v, OwnDown \ {"puback"}, pid),
           pid \in free' \/ (NoPacket(w, {"forked"}, pid) /\ NoPacket(v, {"puback"}, pid)),
           SameEntries(store', store, pid),
           pid \in free' <=> pid \in free, pid \in inflight' <=> pid \in inflight,
           Errors' > 0 => Errors > 0
    PROVE  IdKept(pid)'
<1>1. NoEntry(store, pid) => NoEntry(store', pid)
  BY DEF SameEntries, NoEntry
<1>2. \A expect : IsStored(pid, expect) => IsStored(pid, expect)'
  <2>1. SUFFICES ASSUME NEW expect, IsStored(pid, expect) PROVE IsStored(pid, expect)'
    OBVIOUS
  <2>2. PICK k \in DOMAIN store : store[k].pid = pid /\ store[k].expect = expect
    BY <2>1 DEF IsStored
  <2>3. PICK n \in DOMAIN store' : store'[n] = store[k]
    BY <2>2 DEF SameEntries
  <2>. QED  BY <2>2, <2>3 DEF IsStored
<1>3. pid \in free' \/ NoPacket(v, OwnDown, pid)
  BY DEF NoPacket
<1>4. /\ NoPacket(up, OwnUp, pid) => NoPacket(up', OwnUp, pid)
      /\ NoPacket(up, {"forked"}, pid) => pid \in free' \/ NoPacket(up', {"forked"}, pid)
      /\ NoPacket(down, OwnDown, pid) => pid \in free' \/ NoPacket(down', OwnDown, pid)
      /\ NoPacket(down, OwnDown \ {"puback"}, pid) => NoPacket(down', OwnDown \ {"puback"}, pid)
      /\ OnePacket(up, OwnUp, pid) => OnePacket(up', OwnUp, pid)
      /\ OnePacket(down, OwnDown, pid) => pid \in free' \/ OnePacket(down', OwnDown, pid)
  BY <1>3, NoPacketKept, OnePacketKept
<1>5. FreeUnused(pid)' /\ ForkedFree(pid)' /\ Reserved(pid)'
  BY <1>1, <1>4 DEF IdKept, FreeUnused, ForkedFree, Reserved
<1>6. OneExchange(pid)'
  BY <1>4 DEF IdKept, OneExchange, FreeUnused, SameEntries
<1>7. UpAsked(pid)'
  <2>1. SUFFICES ASSUME NEW n \in DOMAIN up', up'[n].type \in OwnUp, up'[n].pid = pid
                 PROVE  /\ up'[n].type = "publish" =>
                              \E k \in DOMAIN store' : store'[k].pid = pid /\ store'[k].packet = up'[n]
                        /\ up'[n].type = "pubrel" => IsStored(pid, "pubcomp")'
                        /\ up'[n].type = "subscribe" => pid \in inflight' /\ NoEntry(store', pid)
    BY DEF UpAsked, OwnUp
  <2>2. n + d \in DOMAIN up /\ up'[n] = up[n + d]
    BY <2>1 DEF Follows, NoPacket
  <2>3. ASSUME up'[n].type = "publish"
        PROVE  \E k \in DOMAIN store' : store'[k].pid = pid /\ store'[k].packet = up'[n]
    <3>1. PICK k \in DOMAIN store : store[k].pid = pid /\ store[k].packet = up[n + d]
      BY <2>1, <2>2, <2>3 DEF IdKept, UpAsked
    <3>2. PICK j \in DOMAIN store' : store'[j] = store[k]
      BY <3>1 DEF SameEntries
    <3>. QED  BY <2>2, <3>1, <3>2
  <2>. QED  BY <1>1, <1>2, <2>1, <2>2, <2>3 DEF IdKept, UpAsked
<1>8. DownAsked(pid)'
  <2>1. SUFFICES ASSUME NEW n \in DOMAIN down', down'[n].type \in OwnDown, down'[n].pid = pid
                 PROVE  /\ down'[n].type = "puback" => pid \in free' \/ IsStored(pid, "puback")'
                        /\ down'[n].type = "pubrec" => IsStored(pid, "pubrec")'
                        /\ down'[n].type = "pubcomp" => IsStored(pid, "pubcomp")'
                        /\ down'[n].type = "suback" => pid \in inflight' /\ NoEntry(store', pid)
    BY DEF DownAsked, OwnDown
  <2>2. (pid \in free' /\ down'[n].type = "puback") \/ (n + e \in DOMAIN down /\ down'[n] = down[n + e])
    BY <1>3, <2>1 DEF Follows, NoPacket
  <2>. QED  BY <1>1, <1>2, <2>1, <2>2 DEF IdKept, DownAsked
<1>. QED  BY <1>5, <1>6, <1>7, <1>8 DEF IdKept

(* Steps that change no entry and no id, and add no packet of an own       *)
(* exchange.                                                               *)
LEMMA IdsQuiet ==
    ASSUME Basic, IdsInv,
           NEW d, NEW w, Follows(up', up, d, w), \A n \in DOMAIN w : w[n].type \notin OwnUp \cup {"forked"},
           NEW e, NEW v, Follows(down', down, e, v), \A n \in DOMAIN v : v[n].type \notin OwnDown,
           UNCHANGED <<store, free, inflight>>, mixed \subseteq mixed',
           Errors' > 0 => Errors > 0
    PROVE  IdsInv'
<1>1. SUFFICES ASSUME NEW pid \in Ids, pid \notin mixed' PROVE IdKept(pid)'
  BY DEF IdsInv
<1>2. TypeOK /\ IdKept(pid)  BY <1>1 DEF Basic, IdsInv
<1>3. /\ NoPacket(w, OwnUp, pid) /\ NoPacket(v, OwnDown \ {"puback"}, pid)
      /\ NoPacket(w, {"forked"}, pid) /\ NoPacket(v, {"puback"}, pid)
  BY DEF NoPacket, OwnDown
<1>4. SameEntries(store', store, pid)  BY SameEntriesSame
<1>. QED  BY <1>2, <1>3, <1>4, IdFrame

LEMMA QuietErrors ==
    ASSUME TypeOK, conn' = conn, UNCHANGED <<link, breaks>>
    PROVE  Errors' > 0 => Errors > 0
  BY DEF Errors

LEMMA ConnectIds ==
    ASSUME Basic, IdsInv, Connect
    PROVE  IdsInv'
<1>1. TypeOK /\ Phases  BY DEF Basic
<1>2. /\ conn = "off" /\ conn' = "opening" /\ link' = TRUE /\ down' = <<>>
      /\ UNCHANGED <<store, free, inflight, mixed, breaks>>
      /\ \E clean \in CleanSessions : up' = <<[type |-> "connect", clean |-> clean]>>
  BY DEF Connect, forkVars, historyVars
<1>3. PICK p : p.type = "connect" /\ up' = <<p>> /\ p \in Packets
  <2>1. PICK clean \in CleanSessions : up' = <<[type |-> "connect", clean |-> clean]>>
    BY <1>2
  <2>2. PICK p : p = [type |-> "connect", clean |-> clean]
    OBVIOUS
  <2>3. p \in Packets  BY <2>2, PacketIs, ConstantsAssumption
  <2>. QED  BY <2>1, <2>2, <2>3
<1>4. up = <<>> /\ down = <<>>  BY <1>1, <1>2 DEF Phases
<1>5. PICK w : w = <<p>>
  OBVIOUS
<1>6. Follows(up', up, 0, w) /\ \A n \in DOMAIN w : w[n] = p
  <2>1. up' = Append(up, p) /\ up \in Seq(Packets)  BY <1>1, <1>3, <1>4 DEF TypeOK
  <2>2. \A n \in DOMAIN w : w[n] = p  BY <1>5
  <2>. QED  BY <1>3, <1>5, <2>1, <2>2, FollowsAppend
<1>7. PICK v : v = <<>> /\ \A n \in DOMAIN v : FALSE
  OBVIOUS
<1>8. Follows(down', down, 0, v)
  BY <1>1, <1>2, <1>4, <1>7, FollowsSame DEF TypeOK
<1>9. Errors' > 0 => Errors > 0  BY <1>2 DEF Errors
<1>10. /\ \A n \in DOMAIN w : w[n].type \notin OwnUp \cup {"forked"}
       /\ mixed \subseteq mixed'
  BY <1>2, <1>3, <1>6 DEF OwnUp
<1>11. \A n \in DOMAIN v : v[n].type \notin OwnDown  BY <1>7
<1>. QED  BY <1>2, <1>6, <1>8, <1>9, <1>10, <1>11, IdsQuiet

(* Steps that write nothing and send nothing. *)
LEMMA SilentIds ==
    ASSUME Basic, IdsInv, NEW d, Follows(up', up, d, <<>>), NEW e, Follows(down', down, e, <<>>),
           UNCHANGED <<store, free, inflight>>, mixed \subseteq mixed', Errors' > 0 => Errors > 0
    PROVE  IdsInv'
<1>1. PICK v : v = <<>> /\ \A n \in DOMAIN v : FALSE
  OBVIOUS
<1>2. Follows(up', up, d, v) /\ Follows(down', down, e, v)  BY <1>1
<1>. QED  BY <1>1, <1>2, IdsQuiet

LEMMA LostIds ==
    ASSUME Basic, IdsInv, Forks \/ Break \/ BrokerForgets \/ UNCHANGED vars
    PROVE  IdsInv'
<1>1. TypeOK /\ Phases  BY DEF Basic
<1>2. Follows(up, up, 0, <<>>) /\ Follows(down, down, 0, <<>>) /\ Follows(<<>>, up, 0, <<>>)
  BY <1>1, FollowsSame, FollowsNone DEF TypeOK
<1>3. CASE Forks \/ BrokerForgets \/ UNCHANGED vars
  <2>1. UNCHANGED <<store, free, inflight, conn, link, breaks, up, down, mixed>>
    BY <1>3 DEF Forks, BrokerForgets, vars, endpointVars, forkVars, historyVars
  <2>2. Errors' > 0 => Errors > 0  BY <1>1, <2>1, QuietErrors
  <2>. QED  BY <1>2, <2>1, <2>2, SilentIds
<1>4. CASE Break
  <2>1. PICK k \in 0..Len(down) : down' = SubSeq(down, 1, k)
    BY <1>4 DEF Break
  <2>2. Follows(down', down, 0, <<>>)  BY <1>1, <2>1, FollowsPrefix DEF TypeOK
  <2>3. /\ link /\ link' = FALSE /\ up' = <<>> /\ breaks' = breaks + 1
        /\ UNCHANGED <<store, free, inflight, conn, mixed>>
    BY <1>4 DEF Break, endpointVars
  <2>4. Errors' > 0 => Errors > 0
    <3>1. conn # "off" /\ breaks \in Nat  BY <1>1, <2>3 DEF Phases, TypeOK
    <3>. QED  BY <2>3, <3>1, ConstantsAssumption DEF Errors
  <2>. QED  BY <1>2, <2>2, <2>3, <2>4, SilentIds
<1>. QED  BY <1>3, <1>4

LEMMA BrokerPublishesIds ==
    ASSUME Basic, IdsInv, NEW qos \in Qos, BrokerPublishes(qos)
    PROVE  IdsInv'
<1>1. TypeOK /\ Phases /\ down' \in Seq(Packets)
  BY BrokerPublishesBasic DEF Basic, TypeOK
<1>2. PICK m : m = Len(incoming) + 1
  OBVIOUS
<1>3. PICK pid \in Ids : down' = Append(down, Publish(pid, qos, m))
  BY <1>2 DEF BrokerPublishes, Answer
<1>4. PICK p : p = Publish(pid, qos, m)
  OBVIOUS
<1>5. UNCHANGED <<store, free, inflight, conn, link, breaks, up, mixed>>
  BY DEF BrokerPublishes, endpointVars, historyVars, forkVars
<1>6. PICK v : v = <<p>>
  OBVIOUS
<1>7. /\ p.type = "publish" /\ \A n \in DOMAIN v : v[n] = p
      /\ down \in Seq(Packets) /\ up \in Seq(Packets)
  BY <1>1, <1>4, <1>6 DEF Publish, TypeOK
<1>8. p \in Packets
  <2>1. down' = Append(down, p)  BY <1>3, <1>4
  <2>2. Len(down) + 1 \in DOMAIN down' /\ down'[Len(down) + 1] = p  BY <1>7, <2>1
  <2>. QED  BY <1>1, <2>2
<1>9. Follows(down', down, 0, v)
  BY <1>3, <1>4, <1>6, <1>7, <1>8, FollowsAppend
<1>10. PICK w : w = <<>> /\ \A n \in DOMAIN w : FALSE
  OBVIOUS
<1>11. Follows(up', up, 0, w)  BY <1>5, <1>7, <1>10, FollowsSame
<1>12. Errors' > 0 => Errors > 0  BY <1>1, <1>5, QuietErrors
<1>13. /\ \A n \in DOMAIN v : v[n].type \notin OwnDown
       /\ \A n \in DOMAIN w : w[n].type \notin OwnUp \cup {"forked"}
       /\ mixed \subseteq mixed'
  BY <1>5, <1>7, <1>10 DEF OwnDown
<1>. QED  BY <1>5, <1>9, <1>11, <1>12, <1>13, IdsQuiet

LEMMA AnswersIds ==
    ASSUME Basic, IdsInv, ProcessPublish \/ ProcessPubrel
    PROVE  IdsInv'
<1>1. TypeOK /\ Phases  BY DEF Basic
<1>2. PICK type \in {"publish", "pubrel"} : Receives(type)
  BY DEF ProcessPublish, ProcessPubrel
<1>3. PICK ack \in {"puback", "pubrec", "pubcomp"} : up' = Written(<<Packet(ack, Head(down).pid)>>)
  BY DEF ProcessPublish, ProcessPubrel, Awaited
<1>4. PICK p : p = Packet(ack, Head(down).pid)
  OBVIOUS
<1>5. /\ p \in Packets /\ p.type = ack
      /\ Follows(down', down, 1, <<>>)
  <2>1. Head(down).pid \in Ids  BY <1>1, <1>2, ReceivesIs, PacketFields
  <2>. QED  BY <1>1, <1>2, <1>4, <2>1, ReceivesIs, PacketIs DEF Packet
<1>6. PICK w : Follows(up', up, 0, w) /\ \A n \in DOMAIN w : w[n] = p
  BY <1>1, <1>3, <1>4, <1>5, OneWritten
<1>7. UNCHANGED <<store, free, inflight, conn, link, breaks, mixed>>
  BY DEF ProcessPublish, ProcessPubrel, endpointVars, forkVars, historyVars
<1>8. PICK v : v = <<>> /\ \A n \in DOMAIN v : FALSE
  OBVIOUS
<1>9. Follows(down', down, 1, v)  BY <1>5, <1>8
<1>10. Errors' > 0 => Errors > 0  BY <1>1, <1>7, QuietErrors
<1>11. /\ \A n \in DOMAIN v : v[n].type \notin OwnDown
       /\ \A n \in DOMAIN w : w[n].type \notin OwnUp \cup {"forked"}
       /\ mixed \subseteq mixed'
  BY <1>5, <1>6, <1>7, <1>8 DEF OwnUp
<1>. QED  BY <1>6, <1>7, <1>9, <1>10, <1>11, IdsQuiet

LEMMA AcceptsIds ==
    ASSUME Basic, SessionInv, IdsInv, BrokerReads, Head(up).type = "connect"
    PROVE  IdsInv'
<1>1. TypeOK /\ Phases  BY DEF Basic
<1>2. link /\ up # <<>> /\ up' = Tail(up) /\ UNCHANGED <<store, free, inflight, conn, link, breaks, mixed>>
  BY DEF BrokerReads, endpointVars, forkVars
<1>3. /\ up \in Seq(Packets) /\ Head(up) = up[1] /\ 1 \in DOMAIN up
  BY <1>1, <1>2 DEF TypeOK
<1>4. conn = "opening" /\ down = <<>>
  BY <1>1, <1>3 DEF Phases
<1>5. down' \in Seq(Packets)  BY AcceptsBasic DEF Basic, TypeOK
<1>6. \A n \in DOMAIN down' : down'[n].type \notin OwnDown
  BY <1>2, <1>4, AcceptsSession DEF SessionInv, DownOpening, OwnDown, Sends
<1>7. PICK v : v = down'
  OBVIOUS
<1>8. Follows(down', down, 0, v) /\ \A n \in DOMAIN v : v[n].type \notin OwnDown
  BY <1>4, <1>5, <1>6, <1>7 DEF Follows
<1>9. PICK w : w = <<>> /\ \A n \in DOMAIN w : FALSE
  OBVIOUS
<1>10. Follows(up', up, 1, w)  BY <1>2, <1>3, <1>9, FollowsTail
<1>11. Errors' > 0 => Errors > 0  BY <1>1, <1>2, QuietErrors
<1>12. \A n \in DOMAIN w : w[n].type \notin OwnUp \cup {"forked"}  BY <1>9
<1>13. mixed \subseteq mixed'  BY <1>2
<1>. QED  BY <1>2, <1>8, <1>10, <1>11, <1>12, <1>13, IdsQuiet

LEMMA ReadsAckIds ==
    ASSUME Basic, IdsInv, BrokerReads, Head(up).type \in Acks
    PROVE  IdsInv'
<1>1. TypeOK /\ Phases  BY DEF Basic
<1>2. /\ link /\ up # <<>> /\ up' = Tail(up) /\ UNCHANGED <<store, free, inflight, conn, link, breaks, mixed>>
      /\ down' = down \/ down' = Append(down, Packet("pubrel", Head(up).pid))
  BY DEF BrokerReads, endpointVars, forkVars, Acks, Answer
<1>3. /\ up \in Seq(Packets) /\ Head(up) = up[1] /\ 1 \in DOMAIN up /\ Head(up) \in Packets
      /\ down \in Seq(Packets)
  BY <1>1, <1>2 DEF TypeOK
<1>4. PICK q : q = Packet("pubrel", Head(up).pid)
  OBVIOUS
<1>5. q \in Packets /\ q.type = "pubrel"
  <2>1. Head(up).pid \in Ids  BY <1>3, PacketFields DEF Acks
  <2>. QED  BY <1>4, <2>1, PacketIs DEF Packet
<1>6. PICK v : v = IF down' = down THEN <<>> ELSE <<q>>
  OBVIOUS
<1>7. Follows(down', down, 0, v) /\ \A n \in DOMAIN v : v[n] = q
  <2>1. CASE down' = down  BY <1>3, <1>6, <2>1, FollowsSame
  <2>2. CASE down' # down
    <3>1. v = <<q>> /\ down' = Append(down, q)  BY <1>2, <1>4, <1>6, <2>2
    <3>2. \A n \in DOMAIN v : v[n] = q  BY <3>1
    <3>. QED  BY <1>3, <1>5, <3>1, <3>2, FollowsAppend
  <2>. QED  BY <2>1, <2>2
<1>9. PICK w : w = <<>> /\ \A n \in DOMAIN w : FALSE
  OBVIOUS
<1>10. Follows(up', up, 1, w)  BY <1>2, <1>3, <1>9, FollowsTail
<1>11. Errors' > 0 => Errors > 0  BY <1>1, <1>2, QuietErrors
<1>12. /\ \A n \in DOMAIN v : v[n].type \notin OwnDown
       /\ \A n \in DOMAIN w : w[n].type \notin OwnUp \cup {"forked"}
       /\ mixed \subseteq mixed'
  BY <1>2, <1>5, <1>7, <1>9 DEF OwnDown
<1>. QED  BY <1>2, <1>7, <1>10, <1>11, <1>12, IdsQuiet

(* Steps of one exchange, by what they do to its id. *)
LEMMA IdsTouched ==
    ASSUME Basic, IdsInv, NEW pid \in Ids, pid \notin mixed' => IdKept(pid)',
           NEW d, NEW w, Follows(up', up, d, w), \A n \in DOMAIN w : w[n].pid = pid,
           NEW e, NEW v, Follows(down', down, e, v), \A n \in DOMAIN v : v[n].pid = pid,
           \A q : q # pid => SameEntries(store', store, q),
           free' \ {pid} = free \ {pid}, inflight' \ {pid} = inflight \ {pid},
           mixed \subseteq mixed', Errors' > 0 => Errors > 0
    PROVE  IdsInv'
<1>1. SUFFICES ASSUME NEW q \in Ids, q \notin mixed', q # pid PROVE IdKept(q)'
  BY DEF IdsInv
<1>2. TypeOK /\ IdKept(q)  BY <1>1 DEF Basic, IdsInv
<1>3. /\ NoPacket(w, OwnUp, q) /\ NoPacket(v, OwnDown \ {"puback"}, q)
      /\ NoPacket(w, {"forked"}, q) /\ NoPacket(v, {"puback"}, q)
  BY <1>1 DEF NoPacket
<1>4. SameEntries(store', store, q)  BY <1>1
<1>5. (q \in free' <=> q \in free) /\ (q \in inflight' <=> q \in inflight)  BY <1>1
<1>. QED  BY <1>2, <1>3, <1>4, <1>5, IdFrame

LEMMA OnePacketNew ==
    ASSUME NEW t, NEW s \in Seq(Packets), NEW d, NEW w, Follows(t, s, d, w), NEW types, NEW pid,
           NoPacket(s, types, pid), \A n \in DOMAIN w : n = 1
    PROVE  OnePacket(t, types, pid)
<1>1. t \in Seq(Packets) /\ d \in Nat /\ Len(s) \in Nat  BY DEF Follows
<1>2. SUFFICES ASSUME NEW m \in DOMAIN t, NEW n \in DOMAIN t, t[m].type \in types, t[n].type \in types,
                      t[m].pid = pid, t[n].pid = pid
               PROVE  m = n
  BY DEF OnePacket
<1>3. m + d - Len(s) = 1 /\ n + d - Len(s) = 1
  BY <1>2 DEF Follows, NoPacket
<1>. QED  BY <1>1, <1>3

LEMMA OnePacketRead ==
    ASSUME NEW s \in Seq(Packets), NEW types, NEW pid, OnePacket(s, types, pid),
           s # <<>>, s[1].type \in types, s[1].pid = pid
    PROVE  NoPacket(Tail(s), types, pid)
<1>1. /\ 1 \in DOMAIN s
      /\ \A n \in DOMAIN Tail(s) : n + 1 \in DOMAIN s /\ Tail(s)[n] = s[n + 1] /\ n + 1 # 1
  OBVIOUS
<1>. QED  BY <1>1 DEF OnePacket, NoPacket

(* The id is in use: its exchange begins, or goes on with a packet p. *)
LEMMA IdInUse ==
    ASSUME up \in Seq(Packets), NEW pid, NoPacket(up, OwnUp \cup {"forked"}, pid), NoPacket(down', OwnDown, pid),
           NEW w, Follows(up', up, 0, w), NEW p, \A n \in DOMAIN w : n = 1 /\ w[n] = p,
           pid \notin free', OneEntry(store', pid), Reserved(pid)',
           \/ p.type = "publish" /\ \E k \in DOMAIN store' : store'[k].pid = pid /\ store'[k].packet = p
           \/ p.type = "pubrel" /\ IsStored(pid, "pubcomp")'
           \/ p.type = "subscribe" /\ pid \in inflight' /\ NoEntry(store', pid)
    PROVE  IdKept(pid)'
<1>1. ASSUME NEW n \in DOMAIN up', up'[n].type \in OwnUp \cup {"forked"}, up'[n].pid = pid
      PROVE  up'[n] = p
  BY <1>1 DEF Follows, NoPacket
<1>2. NoPacket(up', {"forked"}, pid)  BY <1>1 DEF NoPacket
<1>3. OnePacket(up', OwnUp, pid)
  <2>1. NoPacket(up, OwnUp, pid)  BY DEF NoPacket
  <2>2. \A n \in DOMAIN w : n = 1  OBVIOUS
  <2>. QED  BY <2>1, <2>2, OnePacketNew
<1>4. OnePacket(down', OwnDown, pid)  BY DEF NoPacket, OnePacket
<1>5. FreeUnused(pid)' /\ ForkedFree(pid)' /\ OneExchange(pid)'
  BY <1>2, <1>3, <1>4 DEF FreeUnused, ForkedFree, OneExchange
<1>6. UpAsked(pid)'
  BY <1>1 DEF UpAsked, OwnUp
<1>7. DownAsked(pid)'
  BY DEF DownAsked, NoPacket, OwnDown
<1>. QED  BY <1>5, <1>6, <1>7 DEF IdKept

(* The id is free again. *)
LEMMA IdReturned ==
    ASSUME NEW pid, NoPacket(up', OwnUp, pid), NoPacket(down', OwnDown \ {"puback"}, pid),
           NoEntry(store', pid), pid \in free', Errors' > 0 => pid \notin inflight'
    PROVE  IdKept(pid)'
<1>1. FreeUnused(pid)' /\ ForkedFree(pid)' /\ Reserved(pid)'
  BY DEF FreeUnused, ForkedFree, Reserved
<1>2. OneExchange(pid)'
  BY DEF OneExchange, NoEntry, OneEntry, NoPacket, OnePacket
<1>3. UpAsked(pid)' /\ DownAsked(pid)'
  BY DEF UpAsked, DownAsked, NoPacket, OwnUp, OwnDown
<1>. QED  BY <1>1, <1>2, <1>3 DEF IdKept

(* An id that is acquired, unless a fork shares it, is nowhere. *)
LEMMA AcquiredUnused ==
    ASSUME Basic, IdsInv, NEW pid \in free, MixesWith(pid), pid \notin mixed'
    PROVE  /\ NoPacket(up, OwnUp \cup {"forked"}, pid) /\ NoPacket(down, OwnDown, pid)
           /\ NoEntry(store, pid) /\ (Errors > 0 => pid \notin inflight)
<1>1. TypeOK  BY DEF Basic
<1>2. ~OfForks(pid) /\ pid \notin mixed /\ pid \in Ids
  BY <1>1 DEF MixesWith, TypeOK
<1>3. IdKept(pid)  BY <1>2 DEF IdsInv
<1>4. /\ \A n \in DOMAIN up : up[n].type = "forked" => up[n] = Packet("forked", up[n].pid)
      /\ \A n \in DOMAIN down : down[n].type = "puback" => down[n] = Packet("puback", down[n].pid)
  <2>1. \A n \in DOMAIN up : up[n] \in Packets  BY <1>1 DEF TypeOK
  <2>2. \A n \in DOMAIN down : down[n] \in Packets  BY <1>1 DEF TypeOK
  <2>. QED  BY <2>1, <2>2, PacketFields
<1>5. NoPacket(up, {"forked"}, pid) /\ NoPacket(down, {"puback"}, pid)
  BY <1>2, <1>4 DEF OfForks, NoPacket
<1>6. NoPacket(up, OwnUp, pid) /\ NoPacket(down, OwnDown \ {"puback"}, pid) /\ NoEntry(store, pid)
  BY <1>3 DEF IdKept, FreeUnused
<1>7. Errors > 0 => pid \notin inflight
  BY <1>3 DEF IdKept, Reserved
<1>. QED  BY <1>5, <1>6, <1>7 DEF NoPacket

LEMMA OneEntryNew ==
    ASSUME NEW S, NEW s \in Seq(S), NEW e, NEW pid, NoEntry(s, pid)
    PROVE  OneEntry(Append(s, e), pid)
<1>1. /\ DOMAIN Append(s, e) = 1..(Len(s) + 1) /\ DOMAIN s = 1..Len(s) /\ Len(s) \in Nat
      /\ \A n \in DOMAIN s : Append(s, e)[n] = s[n]
  OBVIOUS
<1>. QED  BY <1>1 DEF NoEntry, OneEntry

LEMMA PublishIds ==
    ASSUME Basic, IdsInv, NEW qos \in Qos, DoPublish(qos)
    PROVE  IdsInv'
<1>0. PICK m : m = Len(made) + 1
  OBVIOUS
<1>1. PICK pid \in free :
         /\ MixesWith(pid)
         /\ free' = free \ {pid}
         /\ store' = Stored(Entry(pid, Awaited(qos), Publish(pid, qos, m)))
         /\ up' = Written(<<Publish(pid, qos, m)>>)
  BY <1>0 DEF DoPublish
<1>2. Len(made) < MaxMsgs /\ UNCHANGED <<conn, inflight, link, down, breaks>>
  BY DEF DoPublish
<1>3. TypeOK  BY DEF Basic
<1>4. PICK p : p = Publish(pid, qos, m)
  OBVIOUS
<1>5. p \in Packets /\ p.type = "publish" /\ p.pid = pid /\ pid \in Ids
  <2>1. made \in Seq([qos : {1, 2}, pid : Ids])  BY <1>3 DEF TypeOK
  <2>2. pid \in Ids /\ qos \in {1, 2} /\ m \in 1..(MaxMsgs + MaxIncoming)
    BY <1>0, <1>2, <1>3, <2>1, ConstantsAssumption DEF TypeOK
  <2>. QED  BY <1>4, <2>2, PacketIs DEF Publish
<1>6. PICK e : e = Entry(pid, Awaited(qos), p)
  OBVIOUS
<1>7. /\ e.pid = pid /\ e.packet = p /\ e.expect = Awaited(qos)
      /\ store' = IF IsStored(pid, e.expect) THEN store ELSE Append(store, e)
  BY <1>1, <1>4, <1>6 DEF Entry, Stored
<1>8. PICK w : Follows(up', up, 0, w) /\ \A n \in DOMAIN w : n = 1 /\ w[n] = p
  BY <1>1, <1>3, <1>4, <1>5, OneWritten
<1>9. PICK v : v = <<>> /\ \A n \in DOMAIN v : FALSE
  OBVIOUS
<1>10. Follows(down', down, 0, v)  BY <1>2, <1>3, <1>9, FollowsSame DEF TypeOK
<1>11. \A q : q # pid => SameEntries(store', store, q)
  <2>1. store \in Seq(Entries)  BY <1>3 DEF TypeOK
  <2>. QED  BY <1>7, <2>1, SameEntriesSame, SameEntriesAppend
<1>12. Errors' > 0 => Errors > 0  BY <1>2, <1>3, QuietErrors
<1>13. mixed \subseteq mixed'  BY <1>1 DEF MixesWith
<1>14. ASSUME pid \notin mixed'
       PROVE  IdKept(pid)'
  <2>1. /\ NoPacket(up, OwnUp \cup {"forked"}, pid) /\ NoPacket(down, OwnDown, pid)
        /\ NoEntry(store, pid) /\ (Errors > 0 => pid \notin inflight)
    BY <1>1, <1>14, AcquiredUnused
  <2>2. store' = Append(store, e) /\ store \in Seq(Entries)
    BY <1>3, <1>7, <2>1 DEF IsStored, NoEntry, TypeOK
  <2>3. OneEntry(store', pid)  BY <2>1, <2>2, OneEntryNew
  <2>4. \E k \in DOMAIN store' : store'[k].pid = pid /\ store'[k].packet = p
    <3>1. Len(store) + 1 \in DOMAIN store' /\ store'[Len(store) + 1] = e  BY <2>2
    <3>. QED  BY <1>7, <3>1
  <2>5. Reserved(pid)'  BY <1>2, <1>12, <2>1 DEF Reserved
  <2>6. NoPacket(down', OwnDown, pid) /\ pid \notin free' /\ up \in Seq(Packets)
    BY <1>1, <1>2, <1>3, <2>1 DEF TypeOK
  <2>. QED  BY <1>5, <1>8, <2>1, <2>3, <2>4, <2>5, <2>6, IdInUse
<1>15. /\ \A n \in DOMAIN w : w[n].pid = pid
       /\ \A n \in DOMAIN v : v[n].pid = pid
       /\ free' \ {pid} = free \ {pid} /\ inflight' \ {pid} = inflight \ {pid}
  BY <1>1, <1>2, <1>5, <1>8, <1>9
<1>. QED  BY <1>5, <1>8, <1>10, <1>11, <1>12, <1>13, <1>14, <1>15, IdsTouched

LEMMA SubscribeIds ==
    ASSUME Basic, IdsInv, DoSubscribe
    PROVE  IdsInv'
<1>1. PICK pid \in free : /\ MixesWith(pid) /\ free' = free \ {pid}
                          /\ inflight' = inflight \cup {pid}
                          /\ up' = Written(<<Packet("subscribe", pid)>>)
  BY DEF DoSubscribe
<1>2. UNCHANGED <<conn, store, link, down, breaks>>
  BY DEF DoSubscribe
<1>3. TypeOK  BY DEF Basic
<1>4. PICK p : p = Packet("subscribe", pid)
  OBVIOUS
<1>5. p \in Packets /\ p.type = "subscribe" /\ p.pid = pid /\ pid \in Ids
  BY <1>3, <1>4, PacketIs DEF Packet, TypeOK
<1>8. PICK w : Follows(up', up, 0, w) /\ \A n \in DOMAIN w : n = 1 /\ w[n] = p
  BY <1>1, <1>3, <1>4, <1>5, OneWritten
<1>9. PICK v : v = <<>> /\ \A n \in DOMAIN v : FALSE
  OBVIOUS
<1>10. Follows(down', down, 0, v)  BY <1>2, <1>3, <1>9, FollowsSame DEF TypeOK
<1>11. \A q : q # pid => SameEntries(store', store, q)
  BY <1>2, SameEntriesSame
<1>12. Errors' > 0 => Errors > 0  BY <1>2, <1>3, QuietErrors
<1>13. mixed \subseteq mixed'  BY <1>1 DEF MixesWith
<1>14. ASSUME pid \notin mixed'
       PROVE  IdKept(pid)'
  <2>1. /\ NoPacket(up, OwnUp \cup {"forked"}, pid) /\ NoPacket(down, OwnDown, pid)
        /\ NoEntry(store, pid)
    BY <1>1, <1>14, AcquiredUnused
  <2>2. pid \notin free' /\ pid \in inflight' /\ NoEntry(store', pid)
    BY <1>1, <1>2, <2>1
  <2>3. OneEntry(store', pid)  BY <2>2 DEF NoEntry, OneEntry
  <2>4. Reserved(pid)'  BY <2>2 DEF Reserved
  <2>5. NoPacket(down', OwnDown, pid) /\ up \in Seq(Packets)
    BY <1>2, <1>3, <2>1 DEF TypeOK
  <2>. QED  BY <1>5, <1>8, <2>1, <2>2, <2>3, <2>4, <2>5, IdInUse
<1>15. /\ \A n \in DOMAIN w : w[n].pid = pid
       /\ \A n \in DOMAIN v : v[n].pid = pid
       /\ free' \ {pid} = free \ {pid} /\ inflight' \ {pid} = inflight \ {pid}
  BY <1>1, <1>5, <1>8, <1>9
<1>. QED  BY <1>5, <1>8, <1>10, <1>11, <1>12, <1>13, <1>14, <1>15, IdsTouched

LEMMA ForkPublishesIds ==
    ASSUME Basic, IdsInv, NEW n \in DOMAIN forks, ForkPublishes(n)
    PROVE  IdsInv'
<1>1. PICK pid \in forks[n] : /\ up' = Append(up, Packet("forked", pid))
                              /\ mixed' = IF pid \in free THEN mixed ELSE mixed \cup {pid}
  BY DEF ForkPublishes
<1>2. UNCHANGED <<free, store, inflight, conn, link, down, breaks>>
  BY DEF ForkPublishes, endpointVars, historyVars
<1>3. TypeOK  BY DEF Basic
<1>4. PICK p : p = Packet("forked", pid)
  OBVIOUS
<1>5. p \in Packets /\ p.type = "forked" /\ p.pid = pid /\ pid \in Ids
  <2>1. forks \in Seq(SUBSET Ids)  BY <1>3 DEF TypeOK
  <2>2. pid \in Ids  BY <1>1, <2>1
  <2>. QED  BY <1>4, <2>2, PacketIs DEF Packet
<1>6. PICK w : w = <<p>>
  OBVIOUS
<1>7. Follows(up', up, 0, w) /\ \A k \in DOMAIN w : w[k] = p
  <2>1. up \in Seq(Packets)  BY <1>3 DEF TypeOK
  <2>. QED  BY <1>1, <1>4, <1>5, <1>6, <2>1, FollowsAppend
<1>8. PICK v : v = <<>> /\ \A k \in DOMAIN v : FALSE
  OBVIOUS
<1>9. Follows(down', down, 0, v)  BY <1>2, <1>3, <1>8, FollowsSame DEF TypeOK
<1>10. Errors' > 0 => Errors > 0  BY <1>2, <1>3, QuietErrors
<1>11. ASSUME NEW q \in Ids, q \notin mixed'
       PROVE  IdKept(q)'
  <2>1. IdKept(q) /\ (q = pid => pid \in free')
    BY <1>1, <1>2, <1>11 DEF IdsInv
  <2>2. /\ NoPacket(w, OwnUp, q) /\ NoPacket(v, OwnDown \ {"puback"}, q)
        /\ q \in free' \/ (NoPacket(w, {"forked"}, q) /\ NoPacket(v, {"puback"}, q))
    BY <1>5, <1>7, <1>8, <2>1 DEF NoPacket, OwnUp
  <2>3. SameEntries(store', store, q)  BY <1>2, SameEntriesSame
  <2>4. (q \in free' <=> q \in free) /\ (q \in inflight' <=> q \in inflight)  BY <1>2
  <2>. QED  BY <1>3, <1>7, <1>9, <1>10, <2>1, <2>2, <2>3, <2>4, IdFrame
<1>. QED  BY <1>11 DEF IdsInv

(* handle_close_or_error: the ids given back are reserved, so free.        *)
LEMMA HandleErrorIds ==
    ASSUME Basic, SessionInv, IdsInv, HandleError
    PROVE  IdsInv'
<1>1. TypeOK /\ Phases  BY DEF Basic
<1>2. /\ conn # "off" /\ ~link /\ down = <<>> /\ conn' = "off" /\ free' = free \cup inflight
      /\ UNCHANGED <<store, inflight, link, up, down, mixed, breaks>>
  BY DEF HandleError, forkVars, historyVars
<1>3. up = <<>>  BY <1>1, <1>2 DEF Phases
<1>4. breaks \in Nat /\ breaks <= MaxBreaks /\ MaxBreaks \in Nat
  BY <1>1, ConstantsAssumption DEF TypeOK
<1>5. Errors > 0 /\ (inflight # {} => ~(Errors' > 0))
  BY <1>2, <1>4 DEF Errors, SessionInv, LastErrors
<1>6. ASSUME NEW pid \in Ids, pid \notin mixed'
      PROVE  IdKept(pid)'
  <2>1. IdKept(pid)  BY <1>2, <1>6 DEF IdsInv
  <2>2. CASE pid \in inflight
    <3>1. NoEntry(store', pid)  BY <1>2, <1>5, <2>1, <2>2 DEF IdKept, Reserved
    <3>2. NoPacket(up', OwnUp, pid) /\ NoPacket(down', OwnDown \ {"puback"}, pid)
      BY <1>2, <1>3 DEF NoPacket
    <3>3. pid \in free' /\ (Errors' > 0 => pid \notin inflight')
      BY <1>2, <1>5, <2>2
    <3>. QED  BY <3>1, <3>2, <3>3, IdReturned
  <2>3. CASE pid \notin inflight
    <3>1. PICK w : w = <<>> /\ \A n \in DOMAIN w : FALSE
      OBVIOUS
    <3>2. Follows(up', up, 0, w) /\ Follows(down', down, 0, w)
      BY <1>1, <1>2, <3>1, FollowsSame DEF TypeOK
    <3>3. /\ NoPacket(w, OwnUp, pid) /\ NoPacket(w, OwnDown \ {"puback"}, pid)
          /\ NoPacket(w, {"forked"}, pid) /\ NoPacket(w, {"puback"}, pid)
      BY <3>1 DEF NoPacket
    <3>4. SameEntries(store', store, pid)  BY <1>2, SameEntriesSame
    <3>5. /\ (pid \in free' <=> pid \in free) /\ (pid \in inflight' <=> pid \in inflight)
          /\ (Errors' > 0 => Errors > 0)
      BY <1>2, <1>5, <2>3
    <3>. QED  BY <1>1, <2>1, <3>2, <3>3, <3>4, <3>5, IdFrame
  <2>. QED  BY <2>2, <2>3
<1>. QED  BY <1>6 DEF IdsInv

(* process_connack: what is sent again is what is stored, and what is      *)
(* forgotten leaves every id free.                                         *)
LEMMA ConnackIds ==
    ASSUME Basic, SessionInv, IdsInv, ProcessConnack
    PROVE  IdsInv'
<1>1. TypeOK /\ Phases /\ StoreMade /\ Basic'  BY ConnackBasic DEF Basic
<1>2. /\ Receives("connack") /\ conn' = "on"
      /\ \/ up' = Written(Resent) /\ UNCHANGED <<free, store>>
         \/ free' = AllFree /\ store' = <<>> /\ up' = up
      /\ UNCHANGED <<inflight, link, mixed, breaks>>
  BY DEF ProcessConnack, forkVars
<1>3. /\ conn # "off" /\ 1 \in DOMAIN down /\ down[1].type = "connack"
      /\ Follows(down', down, 1, <<>>) /\ \A n \in DOMAIN up : up[n].type # "connect"
  BY <1>1, <1>2, ReceivesIs
<1>4. conn = "opening"  BY <1>3 DEF SessionInv, DownOpening
<1>5. up = <<>>
  <2>1. up # <<>> => 1 \in DOMAIN up  BY <1>1 DEF TypeOK
  <2>. QED  BY <1>3, <1>4, <2>1 DEF SessionInv, UpOpening
<1>6. \A n \in DOMAIN down' : down'[n].type \notin OwnDown
  <2>1. \A n \in DOMAIN down : down[n].type \notin OwnDown
    BY <1>3, <1>4 DEF SessionInv, DownOpening, Sends, OwnDown
  <2>. QED  BY <1>3, <2>1 DEF Follows
<1>7. Errors' = Errors  BY <1>2, <1>3 DEF Errors
<1>8. Errors > 0 => inflight = {}  BY <1>4 DEF SessionInv, LastErrors
<1>9. CASE free' = AllFree /\ store' = <<>> /\ up' = up
  <2>1. ASSUME NEW pid \in Ids PROVE IdKept(pid)'
    <3>1. NoPacket(up', OwnUp, pid) /\ NoEntry(store', pid) /\ NoPacket(down', OwnDown \ {"puback"}, pid)
      BY <1>5, <1>6, <1>9 DEF NoPacket, NoEntry
    <3>2. pid \in free' /\ (Errors' > 0 => pid \notin inflight')
      BY <1>2, <1>7, <1>8, <1>9 DEF AllFree
    <3>. QED  BY <3>1, <3>2, IdReturned
  <2>. QED  BY <2>1 DEF IdsInv
<1>10. CASE up' = Written(Resent) /\ UNCHANGED <<free, store>>
  <2>1. /\ DOMAIN Resent = DOMAIN store /\ \A n \in DOMAIN store : Resent[n] = store[n].packet
        /\ Resent \in Seq(Packets)
    BY <1>1, ResentIs
  <2>2. \A n \in DOMAIN up' : n \in DOMAIN store /\ up'[n] = store[n].packet
    <3>1. up' = up \/ up' = up \o Resent  BY <1>10 DEF Written
    <3>. QED  BY <1>5, <2>1, <3>1
  <2>3. \A n \in DOMAIN up' :
           /\ up'[n].type \in {"publish", "pubrel"} /\ up'[n].pid = store[n].pid
           /\ up'[n].type = "pubrel" => store[n].expect = "pubcomp"
    <3>1. ASSUME NEW n \in DOMAIN store
          PROVE  /\ store[n].packet.type \in {"publish", "pubrel"} /\ store[n].packet.pid = store[n].pid
                 /\ store[n].packet.type = "pubrel" => store[n].expect = "pubcomp"
      BY <1>1, EntryKinds
    <3>. QED  BY <2>2, <3>1
  <2>4. ASSUME NEW pid \in Ids, pid \notin mixed'
        PROVE  IdKept(pid)'
    <3>1. IdKept(pid)  BY <1>2, <2>4 DEF IdsInv
    <3>2. NoPacket(up', {"forked"}, pid) /\ NoPacket(down', OwnDown, pid)
      BY <1>6, <2>3 DEF NoPacket
    <3>3. NoEntry(store, pid) => NoPacket(up', OwnUp, pid)
      BY <2>2, <2>3 DEF NoEntry, NoPacket
    <3>4. OnePacket(up', OwnUp, pid)
      BY <2>2, <2>3, <3>1 DEF IdKept, OneExchange, OneEntry, OnePacket
    <3>5. FreeUnused(pid)' /\ ForkedFree(pid)'
      BY <1>10, <3>1, <3>2, <3>3 DEF IdKept, FreeUnused, ForkedFree, NoPacket
    <3>6. OneExchange(pid)'
      BY <1>10, <3>1, <3>2, <3>4 DEF IdKept, OneExchange, NoPacket, OnePacket
    <3>7. UpAsked(pid)'
      BY <1>10, <2>2, <2>3 DEF UpAsked, IsStored
    <3>8. DownAsked(pid)'  BY <3>2 DEF DownAsked, NoPacket, OwnDown
    <3>9. Reserved(pid)'  BY <1>2, <1>7, <1>8 DEF Reserved
    <3>. QED  BY <3>5, <3>6, <3>7, <3>8, <3>9 DEF IdKept
  <2>. QED  BY <2>4 DEF IdsInv
<1>. QED  BY <1>2, <1>9, <1>10

(* An answer is read: it was the only packet of its exchange. *)
LEMMA ReadOwn ==
    ASSUME Basic, IdsInv, NEW type \in OwnDown, Receives(type), NEW pid, pid = Head(down).pid, pid \notin mixed
    PROVE  /\ pid \in Ids /\ IdKept(pid) /\ NoPacket(up, OwnUp, pid)
           /\ NoPacket(down', OwnDown \ {"puback"}, pid)
           /\ pid \notin free => NoPacket(down', OwnDown, pid)
           /\ type = "puback" => pid \in free \/ IsStored(pid, "puback")
           /\ type # "puback" => pid \notin free
           /\ type \in {"pubrec", "pubcomp"} => IsStored(pid, type)
           /\ type = "suback" => pid \in inflight /\ NoEntry(store, pid)
<1>1. TypeOK /\ Phases  BY DEF Basic
<1>2. /\ 1 \in DOMAIN down /\ down[1].type = type /\ down[1].pid = pid /\ down[1] \in Packets
      /\ Follows(down', down, 1, <<>>) /\ down' = Tail(down) /\ down \in Seq(Packets) /\ down # <<>>
  BY <1>1, ReceivesIs DEF Receives, TypeOK
<1>3. pid \in Ids  BY <1>2, PacketFields DEF OwnDown
<1>4. IdKept(pid)  BY <1>3 DEF IdsInv
<1>5. NoPacket(up, OwnUp, pid)
  BY <1>2, <1>4 DEF IdKept, OneExchange, NoPacket
<1>6. pid \notin free => NoPacket(down', OwnDown, pid)
  BY <1>2, <1>4, OnePacketRead DEF IdKept, OneExchange
<1>7. NoPacket(down', OwnDown \ {"puback"}, pid)
  <2>1. CASE pid \in free
    <3>1. NoPacket(down, OwnDown \ {"puback"}, pid)  BY <1>4, <2>1 DEF IdKept, FreeUnused
    <3>2. NoPacket(<<>>, OwnDown \ {"puback"}, pid)  BY DEF NoPacket
    <3>. QED  BY <1>2, <3>1, <3>2, NoPacketKept
  <2>2. CASE pid \notin free  BY <1>6, <2>2 DEF NoPacket
  <2>. QED  BY <2>1, <2>2
<1>8. type # "puback" => pid \notin free
  BY <1>2, <1>4 DEF IdKept, FreeUnused, NoPacket
<1>9. /\ type = "puback" => pid \in free \/ IsStored(pid, "puback")
      /\ type \in {"pubrec", "pubcomp"} => IsStored(pid, type)
      /\ type = "suback" => pid \in inflight /\ NoEntry(store, pid)
  BY <1>2, <1>4 DEF IdKept, DownAsked
<1>. QED  BY <1>3, <1>4, <1>5, <1>6, <1>7, <1>8, <1>9

LEMMA SettlesIds ==
    ASSUME Basic, IdsInv, ProcessPuback \/ ProcessPubcomp \/ ProcessSuback
    PROVE  IdsInv'
<1>1. TypeOK /\ Phases  BY DEF Basic
<1>2. PICK pid : pid = Head(down).pid
  OBVIOUS
<1>3. PICK type \in {"puback", "pubcomp", "suback"} :
         /\ Receives(type) /\ free' = free \cup {pid}
         /\ store' = IF type = "suback" THEN store ELSE Erased(pid, type)
         /\ inflight' = IF type = "suback" THEN inflight \ {pid} ELSE inflight
  <2>1. CASE ProcessPuback  BY <1>2, <2>1 DEF ProcessPuback
  <2>2. CASE ProcessPubcomp  BY <1>2, <2>2 DEF ProcessPubcomp, PubcompFrees
  <2>3. CASE ProcessSuback  BY <1>2, <2>3 DEF ProcessSuback
  <2>. QED  BY <2>1, <2>2, <2>3
<1>4. UNCHANGED <<conn, link, up, mixed, breaks>>
  BY DEF ProcessPuback, ProcessPubcomp, ProcessSuback, forkVars, historyVars
<1>5. Follows(down', down, 1, <<>>) /\ pid \in Ids
  BY <1>1, <1>2, <1>3, ReceivesIs, PacketFields
<1>6. PICK w : w = <<>> /\ \A n \in DOMAIN w : FALSE
  OBVIOUS
<1>7. Follows(down', down, 1, w) /\ Follows(up', up, 0, w)
  BY <1>1, <1>4, <1>5, <1>6, FollowsSame DEF TypeOK
<1>8. Errors' > 0 => Errors > 0  BY <1>1, <1>4, QuietErrors
<1>9. \A q : q # pid => SameEntries(store', store, q)
  BY <1>1, <1>3, ErasedEffect, SameEntriesSame
<1>10. ASSUME pid \notin mixed'
       PROVE  IdKept(pid)'
  <2>1. /\ IdKept(pid) /\ NoPacket(up, OwnUp, pid)
        /\ NoPacket(down', OwnDown \ {"puback"}, pid)
        /\ type = "puback" => pid \in free \/ IsStored(pid, "puback")
        /\ type # "puback" => pid \notin free
        /\ type = "pubcomp" => IsStored(pid, type)
        /\ type = "suback" => pid \in inflight /\ NoEntry(store, pid)
    BY <1>2, <1>3, <1>4, <1>10, ReadOwn DEF OwnDown
  <2>2. NoEntry(store', pid)
    <3>1. CASE pid \in free
      <4>1. NoEntry(store, pid)  BY <2>1, <3>1 DEF IdKept, FreeUnused
      <4>2. type = "puback" /\ ~IsStored(pid, "puback")
        BY <2>1, <3>1, <4>1 DEF IsStored, NoEntry
      <4>3. store' = store  BY <1>1, <1>3, <4>2, ErasedEffect
      <4>. QED  BY <4>1, <4>3
    <3>2. CASE type = "suback"  BY <1>3, <2>1, <3>2
    <3>3. CASE pid \notin free /\ type # "suback"
      <4>1. IsStored(pid, type) /\ OneEntry(store, pid)
        BY <2>1, <3>3 DEF IdKept, OneExchange
      <4>. QED  BY <1>1, <1>3, <3>3, <4>1, ErasedEffect
    <3>. QED  BY <3>1, <3>2, <3>3
  <2>3. Errors' > 0 => pid \notin inflight'
    <3>1. CASE type = "suback"  BY <1>3, <3>1
    <3>2. CASE type # "suback"
      <4>1. pid \in free \/ ~NoEntry(store, pid)
        BY <2>1, <3>2 DEF IsStored, NoEntry
      <4>. QED  BY <1>3, <1>8, <2>1, <3>2, <4>1 DEF IdKept, Reserved
    <3>. QED  BY <3>1, <3>2
  <2>4. NoPacket(up', OwnUp, pid) /\ pid \in free'  BY <1>3, <1>4, <2>1
  <2>. QED  BY <2>1, <2>2, <2>3, <2>4, IdReturned
<1>11. /\ \A n \in DOMAIN w : w[n].pid = pid
       /\ free' \ {pid} = free \ {pid} /\ inflight' \ {pid} = inflight \ {pid}
       /\ mixed \subseteq mixed'
  BY <1>3, <1>4, <1>6
<1>. QED  BY <1>5, <1>7, <1>8, <1>9, <1>10, <1>11, IdsTouched

LEMMA PubrecIds ==
    ASSUME Basic, IdsInv, ProcessPubrec
    PROVE  IdsInv'
<1>1. TypeOK /\ Phases /\ StoreMade  BY DEF Basic
<1>2. PICK pid : pid = Head(down).pid
  OBVIOUS
<1>p. PICK p : p = Packet("pubrel", pid)
  OBVIOUS
<1>e. PICK e : e = Entry(pid, "pubcomp", p)
  OBVIOUS
<1>3. /\ Receives("pubrec") /\ free' = free \ {pid} /\ up' = Written(<<p>>)
      /\ store' = IF IsStored(pid, "pubcomp") THEN Erased(pid, "pubrec")
                  ELSE Append(Erased(pid, "pubrec"), e)
      /\ UNCHANGED <<conn, inflight, link, mixed, breaks>>
  BY <1>2, <1>p, <1>e DEF ProcessPubrec, PubrelStored, forkVars, historyVars
<1>4. Follows(down', down, 1, <<>>) /\ pid \in Ids
  BY <1>1, <1>2, <1>3, ReceivesIs, PacketFields
<1>5. p \in Packets /\ p.type = "pubrel" /\ p.pid = pid /\ e.pid = pid /\ e.expect = "pubcomp"
  BY <1>p, <1>e, <1>4, PacketIs DEF Packet, Entry
<1>6. PICK w : Follows(up', up, 0, w) /\ \A n \in DOMAIN w : n = 1 /\ w[n] = p
  BY <1>1, <1>3, <1>5, OneWritten
<1>7. PICK v : v = <<>> /\ \A n \in DOMAIN v : FALSE
  OBVIOUS
<1>8. Follows(down', down, 1, v)  BY <1>4, <1>7
<1>9. Errors' > 0 => Errors > 0  BY <1>1, <1>3, QuietErrors
<1>10. Erased(pid, "pubrec") \in Seq(Entries)  BY <1>1, ErasedMade
<1>11. \A q : q # pid => SameEntries(store', store, q)
  <2>1. SUFFICES ASSUME NEW q, q # pid PROVE SameEntries(store', store, q)
    OBVIOUS
  <2>2. SameEntries(Erased(pid, "pubrec"), store, q)  BY <1>1, <2>1, ErasedEffect
  <2>3. SameEntries(Append(Erased(pid, "pubrec"), e), Erased(pid, "pubrec"), q)
    BY <1>5, <1>10, <2>1, SameEntriesAppend
  <2>. QED  BY <1>3, <2>2, <2>3, SameEntriesTransitive
<1>12. ASSUME pid \notin mixed'
       PROVE  IdKept(pid)'
  <2>1. /\ IdKept(pid) /\ NoPacket(up, OwnUp, pid) /\ pid \notin free
        /\ NoPacket(down', OwnDown, pid) /\ IsStored(pid, "pubrec")
    BY <1>2, <1>3, <1>12, ReadOwn DEF OwnDown
  <2>2. OneEntry(store, pid) /\ NoPacket(up, {"forked"}, pid)
    BY <2>1 DEF IdKept, OneExchange, ForkedFree
  <2>3. NoEntry(Erased(pid, "pubrec"), pid)  BY <1>1, <2>1, <2>2, ErasedEffect
  <2>4. ~IsStored(pid, "pubcomp")  BY <2>1, <2>2 DEF IsStored, OneEntry
  <2>5. store' = Append(Erased(pid, "pubrec"), e)  BY <1>3, <2>4
  <2>6. OneEntry(store', pid)  BY <1>10, <2>3, <2>5, OneEntryNew
  <2>7. IsStored(pid, "pubcomp")'
    <3>1. PICK n : n = Len(Erased(pid, "pubrec")) + 1
      OBVIOUS
    <3>2. n \in DOMAIN store' /\ store'[n] = e  BY <1>10, <2>5, <3>1
    <3>. QED  BY <1>5, <3>2 DEF IsStored
  <2>8. Reserved(pid)'
    <3>1. ~NoEntry(store, pid)  BY <2>1 DEF IsStored, NoEntry
    <3>. QED  BY <1>3, <1>9, <2>1, <3>1 DEF IdKept, Reserved
  <2>9. NoPacket(up, OwnUp \cup {"forked"}, pid) /\ pid \notin free' /\ up \in Seq(Packets)
    BY <1>1, <1>3, <2>1, <2>2 DEF NoPacket, TypeOK
  <2>. QED  BY <1>5, <1>6, <2>1, <2>6, <2>7, <2>8, <2>9, IdInUse
<1>13. /\ \A n \in DOMAIN w : w[n].pid = pid
       /\ \A n \in DOMAIN v : v[n].pid = pid
       /\ free' \ {pid} = free \ {pid} /\ inflight' \ {pid} = inflight \ {pid}
       /\ mixed \subseteq mixed'
  BY <1>3, <1>5, <1>6, <1>7
<1>. QED  BY <1>4, <1>6, <1>8, <1>9, <1>11, <1>12, <1>13, IdsTouched

(* The broker reads a publish, PUBREL or subscription: what it answers is  *)
(* what the store or the set in flight waits for.                          *)
LEMMA ReadsOwnIds ==
    ASSUME Basic, IdsInv, BrokerReads, Head(up).type \in OwnUp
    PROVE  IdsInv'
<1>1. TypeOK /\ StoreMade  BY DEF Basic
<1>2. PICK p : p = Head(up)
  OBVIOUS
<1>3. PICK pid : pid = p.pid
  OBVIOUS
<1>4. /\ link /\ up # <<>> /\ up' = Tail(up) /\ UNCHANGED <<store, free, inflight, conn, link, breaks, mixed>>
  BY DEF BrokerReads, endpointVars, forkVars
<1>5. /\ up \in Seq(Packets) /\ p = up[1] /\ 1 \in DOMAIN up /\ p \in Packets /\ down \in Seq(Packets)
      /\ p.type \in OwnUp /\ pid \in Ids
  <2>1. up \in Seq(Packets) /\ p = up[1] /\ 1 \in DOMAIN up /\ p \in Packets /\ down \in Seq(Packets)
    BY <1>1, <1>2, <1>4 DEF TypeOK
  <2>. QED  BY <1>2, <1>3, <2>1, PacketFields DEF OwnUp
<1>6. PICK type \in OwnDown :
         /\ down' = Append(down, Packet(type, pid))
         /\ \/ p.type = "publish" /\ p.qos \in {1, 2} /\ type = Awaited(p.qos)
            \/ p.type = "pubrel" /\ type = "pubcomp"
            \/ p.type = "subscribe" /\ type = "suback"
  <2>1. CASE p.type = "publish" /\ p.qos = 1
    <3>1. p.qos # 2  BY <2>1
    <3>2. down' = Append(down, Packet("puback", pid))
      BY <1>2, <1>3, <2>1, <3>1 DEF BrokerReads, Answer
    <3>. QED  BY <2>1, <3>2 DEF Awaited, OwnDown
  <2>2. CASE p.type = "publish" /\ p.qos # 1
    <3>1. down' = Append(down, Packet("pubrec", pid)) /\ p.qos = 2
      BY <1>2, <1>3, <2>2 DEF BrokerReads, Answer
    <3>. QED  BY <2>2, <3>1 DEF Awaited, OwnDown
  <2>3. CASE p.type = "pubrel"
    <3>1. down' = Append(down, Packet("pubcomp", pid))
      BY <1>2, <1>3, <2>3 DEF BrokerReads, Answer
    <3>. QED  BY <2>3, <3>1 DEF OwnDown
  <2>4. CASE p.type = "subscribe"
    <3>1. down' = Append(down, Packet("suback", pid))
      BY <1>2, <1>3, <2>4 DEF BrokerReads, Answer
    <3>. QED  BY <2>4, <3>1 DEF OwnDown
  <2>. QED  BY <1>5, <2>1, <2>2, <2>3, <2>4 DEF OwnUp
<1>7. PICK q : q = Packet(type, pid)
  OBVIOUS
<1>8. q \in Packets /\ q.type = type /\ q.pid = pid
  BY <1>5, <1>7, PacketIs DEF Packet, OwnDown
<1>v. PICK v : v = <<q>>
  OBVIOUS
<1>9. v = <<q>> /\ \A n \in DOMAIN v : n = 1 /\ v[n] = q
  BY <1>v
<1>10. Follows(down', down, 0, v)
  BY <1>5, <1>6, <1>7, <1>8, <1>9, FollowsAppend
<1>11. PICK w : w = <<>> /\ \A n \in DOMAIN w : FALSE
  OBVIOUS
<1>12. Follows(up', up, 1, w)  BY <1>4, <1>5, <1>11, FollowsTail
<1>13. Errors' > 0 => Errors > 0  BY <1>1, <1>4, QuietErrors
<1>14. \A r : r # pid => SameEntries(store', store, r)  BY <1>4, SameEntriesSame
<1>15. ASSUME pid \notin mixed'
       PROVE  IdKept(pid)'
  <2>1. IdKept(pid)  BY <1>4, <1>5, <1>15 DEF IdsInv
  <2>2. ~NoPacket(up, OwnUp, pid)
    BY <1>3, <1>5 DEF NoPacket
  <2>3. /\ pid \notin free /\ NoPacket(down, OwnDown, pid) /\ OnePacket(up, OwnUp, pid)
        /\ OneEntry(store, pid) /\ NoPacket(up, {"forked"}, pid)
    BY <2>1, <2>2 DEF IdKept, FreeUnused, OneExchange, ForkedFree
  <2>4. NoPacket(up', OwnUp, pid)
    BY <1>3, <1>4, <1>5, <2>3, OnePacketRead
  <2>5. NoPacket(up', {"forked"}, pid)
    <3>1. NoPacket(w, {"forked"}, pid)  BY <1>11 DEF NoPacket
    <3>. QED  BY <1>12, <2>3, <3>1, NoPacketKept
  <2>6. OnePacket(down', OwnDown, pid)
    <3>1. \A n \in DOMAIN v : n = 1  BY <1>9
    <3>. QED  BY <1>5, <1>10, <2>3, <3>1, OnePacketNew
  <2>7. FreeUnused(pid)' /\ ForkedFree(pid)' /\ OneExchange(pid)' /\ Reserved(pid)' /\ UpAsked(pid)'
    <3>1. FreeUnused(pid)' /\ ForkedFree(pid)'
      BY <1>4, <2>3, <2>5 DEF FreeUnused, ForkedFree
    <3>2. OneExchange(pid)'  BY <1>4, <2>3, <2>4, <2>6 DEF OneExchange, NoPacket, OnePacket
    <3>3. Reserved(pid)'  BY <1>4, <1>13, <2>1 DEF IdKept, Reserved
    <3>4. UpAsked(pid)'  BY <2>4 DEF UpAsked, NoPacket, OwnUp
    <3>. QED  BY <3>1, <3>2, <3>3, <3>4
  <2>8. /\ type = "puback" => IsStored(pid, "puback")
        /\ type = "pubrec" => IsStored(pid, "pubrec")
        /\ type = "pubcomp" => IsStored(pid, "pubcomp")
        /\ type = "suback" => pid \in inflight /\ NoEntry(store, pid)
    <3>1. CASE p.type = "publish"
      <4>1. PICK k \in DOMAIN store : store[k].pid = pid /\ store[k].packet = p
        BY <1>3, <1>5, <2>1, <3>1 DEF IdKept, UpAsked
      <4>2. store[k].expect = Awaited(p.qos)
        BY <1>1, <3>1, <4>1, EntryKinds
      <4>3. type = Awaited(p.qos) /\ type \in {"puback", "pubrec"}
        BY <1>6, <3>1 DEF Awaited
      <4>. QED  BY <4>1, <4>2, <4>3 DEF IsStored
    <3>2. CASE p.type # "publish"
      BY <1>3, <1>5, <1>6, <2>1, <3>2 DEF IdKept, UpAsked
    <3>. QED  BY <3>1, <3>2
  <2>9. DownAsked(pid)'
    <3>1. \A n \in DOMAIN down' : down'[n].type \in OwnDown /\ down'[n].pid = pid => down'[n] = q
      BY <1>9, <1>10, <2>3 DEF Follows, NoPacket
    <3>2. \A expect : IsStored(pid, expect)' <=> IsStored(pid, expect)  BY <1>4 DEF IsStored
    <3>. QED  BY <1>4, <1>8, <2>8, <3>1, <3>2 DEF DownAsked, OwnDown
  <2>. QED  BY <2>7, <2>9 DEF IdKept
<1>16. /\ \A n \in DOMAIN w : w[n].pid = pid
       /\ \A n \in DOMAIN v : v[n].pid = pid
       /\ free' \ {pid} = free \ {pid} /\ inflight' \ {pid} = inflight \ {pid}
       /\ mixed \subseteq mixed'
  BY <1>4, <1>8, <1>9, <1>11
<1>. QED  BY <1>5, <1>10, <1>12, <1>13, <1>14, <1>15, <1>16, IdsTouched

LEMMA ReadsForkedIds ==
    ASSUME Basic, IdsInv, BrokerReads, Head(up).type = "forked"
    PROVE  IdsInv'
<1>1. TypeOK  BY DEF Basic
<1>2. PICK p : p = Head(up)
  OBVIOUS
<1>3. PICK pid : pid = p.pid
  OBVIOUS
<1>4. /\ link /\ up # <<>> /\ up' = Tail(up) /\ UNCHANGED <<store, free, inflight, conn, link, breaks, mixed>>
      /\ down' = Append(down, Packet("puback", pid))
  BY <1>2, <1>3 DEF BrokerReads, Answer, endpointVars, forkVars
<1>5. /\ up \in Seq(Packets) /\ p = up[1] /\ 1 \in DOMAIN up /\ p \in Packets /\ down \in Seq(Packets)
      /\ p.type = "forked" /\ pid \in Ids
  <2>1. up \in Seq(Packets) /\ p = up[1] /\ 1 \in DOMAIN up /\ p \in Packets /\ down \in Seq(Packets)
    BY <1>1, <1>2, <1>4 DEF TypeOK
  <2>. QED  BY <1>2, <1>3, <2>1, PacketFields
<1>6. PICK q : q = Packet("puback", pid)
  OBVIOUS
<1>7. q \in Packets /\ q.type = "puback" /\ q.pid = pid
  BY <1>5, <1>6, PacketIs DEF Packet
<1>v. PICK v : v = <<q>>
  OBVIOUS
<1>8. v = <<q>> /\ \A n \in DOMAIN v : n = 1 /\ v[n] = q
  BY <1>v
<1>9. Follows(down', down, 0, v)
  BY <1>4, <1>5, <1>6, <1>7, <1>8, FollowsAppend
<1>10. PICK w : w = <<>> /\ \A n \in DOMAIN w : FALSE
  OBVIOUS
<1>11. Follows(up', up, 1, w)  BY <1>4, <1>5, <1>10, FollowsTail
<1>12. Errors' > 0 => Errors > 0  BY <1>1, <1>4, QuietErrors
<1>13. ASSUME NEW r \in Ids, r \notin mixed'
       PROVE  IdKept(r)'
  <2>1. IdKept(r)  BY <1>4, <1>13 DEF IdsInv
  <2>2. r = pid => r \in free'
    BY <1>3, <1>4, <1>5, <2>1 DEF IdKept, ForkedFree, NoPacket
  <2>3. /\ NoPacket(w, OwnUp, r) /\ NoPacket(v, OwnDown \ {"puback"}, r)
        /\ r \in free' \/ (NoPacket(w, {"forked"}, r) /\ NoPacket(v, {"puback"}, r))
    BY <1>7, <1>8, <1>10, <2>2 DEF NoPacket
  <2>4. SameEntries(store', store, r)  BY <1>4, SameEntriesSame
  <2>5. (r \in free' <=> r \in free) /\ (r \in inflight' <=> r \in inflight)  BY <1>4
  <2>. QED  BY <1>1, <1>9, <1>11, <1>12, <2>1, <2>3, <2>4, <2>5, IdFrame
<1>. QED  BY <1>13 DEF IdsInv

LEMMA InitIds == Init => IdsInv
  BY DEF Init, IdsInv, IdKept, FreeUnused, ForkedFree, OneExchange, UpAsked, DownAsked, Reserved,
         NoEntry, OneEntry, NoPacket, OnePacket

LEMMA ReadsKinds ==
    ASSUME TypeOK, BrokerReads
    PROVE  Head(up).type \in Acks \cup OwnUp \cup {"connect", "forked"}
  BY DEF BrokerReads, Acks, OwnUp

LEMMA NextIds ==
    ASSUME Basic, SessionInv, IdsInv, [Next]_vars
    PROVE  IdsInv'
<1>1. TypeOK  BY DEF Basic
<1>2. CASE UNCHANGED vars  BY <1>2, LostIds
<1>3. CASE BrokerReads
  BY <1>1, <1>3, ReadsKinds, AcceptsIds, ReadsAckIds, ReadsOwnIds, ReadsForkedIds
<1>4. CASE Next /\ ~BrokerReads
  BY <1>4, PublishIds, BrokerPublishesIds, LostIds, ForkPublishesIds, SubscribeIds, ConnectIds,
     HandleErrorIds, AnswersIds, ConnackIds, SettlesIds, PubrecIds
  DEF Next, ProcessPacket
<1>. QED  BY <1>2, <1>3, <1>4

LEMMA UniqueFromIds == TypeOK /\ IdsInv => IdsAreUnique
<1>1. SUFFICES ASSUME TypeOK, IdsInv PROVE IdsAreUnique
  OBVIOUS
<1>2. ASSUME NEW pid \in Ids, pid \notin mixed
      PROVE  IdKept(pid)
  BY <1>1, <1>2 DEF IdsInv
<1>3. ASSUME NEW m \in DOMAIN store, NEW n \in DOMAIN store, m # n, store[m].pid = store[n].pid
      PROVE  store[m].pid \in mixed
  BY <1>1, <1>2, <1>3, StoreTyped DEF IdKept, OneExchange, OneEntry
<1>. DEFINE stored == {store[n].pid : n \in DOMAIN store}
<1>4. stored \subseteq Ids  BY <1>1, StoreTyped
<1>5. Subscribing \subseteq Ids
  <2>1. (\A n \in DOMAIN up : up[n] \in Packets) /\ (\A n \in DOMAIN down : down[n] \in Packets)
    BY <1>1 DEF TypeOK
  <2>. QED  BY <2>1, PacketFields DEF Subscribing
<1>6. stored \cap Subscribing \subseteq mixed
  BY <1>2, <1>4 DEF IdKept, UpAsked, DownAsked, Subscribing, NoEntry
<1>7. (stored \cup Subscribing) \cap free \subseteq mixed
  BY <1>2, <1>4, <1>5 DEF IdKept, FreeUnused, Subscribing, NoEntry, NoPacket, OwnUp, OwnDown
<1>. QED  BY <1>3, <1>6, <1>7 DEF IdsAreUnique

(* IdsAreUnique, about acquire_unique_packet_id and the handlers that      *)
(* register, keep and release ids: for any number of ids, publishes,       *)
(* connections, errors and sessions.                                       *)
THEOREM PacketIdsAreUnique == UsersWait => (Spec => []IdsAreUnique)
<1>1. SUFFICES ASSUME UsersWait PROVE Spec => []IdsAreUnique
  OBVIOUS
<1>2. Init => Basic /\ SessionInv /\ IdsInv  BY InitBasic, InitSession, InitIds
<1>3. Basic /\ SessionInv /\ IdsInv /\ [Next]_vars => (Basic /\ SessionInv /\ IdsInv)'
  BY <1>1, NextBasic, NextSession, NextIds
<1>4. Basic /\ SessionInv /\ IdsInv => IdsAreUnique  BY UniqueFromIds DEF Basic
<1>. QED  BY <1>2, <1>3, <1>4, PTL DEF Spec

----------------------------------------------------------------------------
(* Deliveries.  For an id that no fork shares: what the broker             *)
(* acknowledged it has, and it remembers the id of a QoS 2 publish it has  *)
(* as long as the client may send that again.                              *)
Deliveries == {"puback", "pubrec", "pubcomp"}

StoredDelivered(pid, expect) ==
    \E n \in DOMAIN store : /\ store[n].pid = pid /\ store[n].expect = expect
                            /\ store[n].packet.m \in Range(delivered)

AckedDelivered(pid) ==
    \A n \in DOMAIN down :
        /\ down[n].type = "puback" /\ down[n].pid = pid => pid \in free \/ StoredDelivered(pid, "puback")
        /\ down[n].type = "pubrec" /\ down[n].pid = pid => StoredDelivered(pid, "pubrec")
        /\ down[n].type = "pubcomp" /\ down[n].pid = pid => pid \notin received
ReceivedStored(pid) ==
    pid \in received => IsStored(pid, "pubcomp") \/ StoredDelivered(pid, "pubrec")
DeliveredKnown(pid) ==
    \A n \in DOMAIN store :
        /\ store[n].pid = pid /\ store[n].expect = "pubrec" /\ store[n].packet.m \in Range(delivered)
        => pid \in received \/ store[n].packet.m \in orphaned

DeliveryKept(pid) == AckedDelivered(pid) /\ ReceivedStored(pid) /\ DeliveredKnown(pid)

DeliveryInv == \A pid \in Ids \ mixed : DeliveryKept(pid)

(* A step that does not touch an id, nor delivers a message of it. *)
LEMMA DeliveryFrame ==
    ASSUME NEW pid, DeliveryKept(pid),
           NEW e, NEW v, Follows(down', down, e, v), NoPacket(v, {"pubrec", "pubcomp"}, pid),
           pid \in free' \/ NoPacket(v, {"puback"}, pid),
           SameEntries(store', store, pid),
           pid \in free => pid \in free' \/ NoPacket(down, {"puback"}, pid),
           Range(delivered) \subseteq Range(delivered'),
           \A n \in DOMAIN store :
               /\ store[n].pid = pid /\ store[n].expect = "pubrec" /\ store[n].packet.m \in Range(delivered')
               => store[n].packet.m \in Range(delivered),
           pid \in received' <=> pid \in received, orphaned \subseteq orphaned'
    PROVE  DeliveryKept(pid)'
<1>1. ASSUME NEW k \in DOMAIN store, store[k].pid = pid
      PROVE  \E n \in DOMAIN store' : store'[n] = store[k]
  BY <1>1 DEF SameEntries
<1>2. ASSUME NEW expect, StoredDelivered(pid, expect)
      PROVE  StoredDelivered(pid, expect)'
  <2>1. PICK k \in DOMAIN store : /\ store[k].pid = pid /\ store[k].expect = expect
                                  /\ store[k].packet.m \in Range(delivered)
    BY <1>2 DEF StoredDelivered
  <2>2. PICK n \in DOMAIN store' : store'[n] = store[k]
    BY <1>1, <2>1
  <2>3. store'[n].packet.m \in Range(delivered')  BY <2>1, <2>2
  <2>. QED  BY <2>1, <2>2, <2>3 DEF StoredDelivered
<1>3. IsStored(pid, "pubcomp") => IsStored(pid, "pubcomp")'
  BY <1>1 DEF IsStored
<1>4. AckedDelivered(pid)'
  <2>1. SUFFICES ASSUME NEW n \in DOMAIN down', down'[n].type \in Deliveries, down'[n].pid = pid
                 PROVE  /\ down'[n].type = "puback" => pid \in free' \/ StoredDelivered(pid, "puback")'
                        /\ down'[n].type = "pubrec" => StoredDelivered(pid, "pubrec")'
                        /\ down'[n].type = "pubcomp" => pid \notin received'
    BY DEF AckedDelivered, Deliveries
  <2>2. (pid \in free' /\ down'[n].type = "puback") \/ (n + e \in DOMAIN down /\ down'[n] = down[n + e])
    BY <2>1 DEF Follows, NoPacket, Deliveries
  <2>3. pid \in free /\ down'[n].type = "puback" => pid \in free'
    BY <2>1, <2>2 DEF NoPacket
  <2>. QED  BY <1>2, <2>1, <2>2, <2>3 DEF DeliveryKept, AckedDelivered
<1>5. ReceivedStored(pid)'
  BY <1>2, <1>3 DEF DeliveryKept, ReceivedStored
<1>6. DeliveredKnown(pid)'
  <2>1. SUFFICES ASSUME NEW n \in DOMAIN store', store'[n].pid = pid, store'[n].expect = "pubrec",
                        store'[n].packet.m \in Range(delivered')
                 PROVE  pid \in received' \/ store'[n].packet.m \in orphaned'
    BY DEF DeliveredKnown
  <2>2. PICK k \in DOMAIN store : store[k] = store'[n]
    BY <2>1 DEF SameEntries
  <2>3. pid \in received \/ store[k].packet.m \in orphaned
    BY <2>1, <2>2 DEF DeliveryKept, DeliveredKnown
  <2>. QED  BY <2>2, <2>3
<1>. QED  BY <1>4, <1>5, <1>6 DEF DeliveryKept

(* Steps of the broker and the client that only send packets and change    *)
(* which ids are free.                                                     *)
LEMMA DeliveryQuiet ==
    ASSUME Basic, DeliveryInv,
           NEW e, NEW v, Follows(down', down, e, v), \A n \in DOMAIN v : v[n].type \notin Deliveries,
           free \subseteq free', mixed \subseteq mixed', UNCHANGED <<store, delivered, received, orphaned>>
    PROVE  DeliveryInv'
<1>1. SUFFICES ASSUME NEW pid \in Ids, pid \notin mixed' PROVE DeliveryKept(pid)'
  BY DEF DeliveryInv
<1>2. DeliveryKept(pid)  BY <1>1 DEF DeliveryInv
<1>3. NoPacket(v, {"pubrec", "pubcomp"}, pid) /\ NoPacket(v, {"puback"}, pid)
  BY DEF NoPacket, Deliveries
<1>4. SameEntries(store', store, pid)  BY SameEntriesSame
<1>5. /\ Range(delivered) \subseteq Range(delivered')
      /\ \A n \in DOMAIN store :
            store[n].pid = pid /\ store[n].packet.m \in Range(delivered') => store[n].packet.m \in Range(delivered)
      /\ (pid \in received' <=> pid \in received) /\ orphaned \subseteq orphaned'
      /\ (pid \in free => pid \in free' \/ NoPacket(down, {"puback"}, pid))
  OBVIOUS
<1>. QED  BY <1>2, <1>3, <1>4, <1>5, DeliveryFrame

(* Steps of one exchange. *)
LEMMA DeliveryTouched ==
    ASSUME Basic, DeliveryInv, NEW pid \in Ids, pid \notin mixed' => DeliveryKept(pid)',
           NEW e, NEW v, Follows(down', down, e, v), \A n \in DOMAIN v : v[n].pid = pid,
           \A q : q # pid => SameEntries(store', store, q),
           free' \ {pid} = free \ {pid}, received' \ {pid} = received \ {pid},
           Range(delivered) \subseteq Range(delivered'),
           \A n \in DOMAIN store :
               /\ store[n].pid # pid /\ store[n].expect = "pubrec" /\ store[n].packet.m \in Range(delivered')
               => store[n].packet.m \in Range(delivered),
           mixed \subseteq mixed', orphaned \subseteq orphaned'
    PROVE  DeliveryInv'
<1>1. SUFFICES ASSUME NEW q \in Ids, q \notin mixed', q # pid PROVE DeliveryKept(q)'
  BY DEF DeliveryInv
<1>2. DeliveryKept(q)  BY <1>1 DEF DeliveryInv
<1>3. NoPacket(v, {"pubrec", "pubcomp"}, q) /\ NoPacket(v, {"puback"}, q)
  BY <1>1 DEF NoPacket
<1>4. SameEntries(store', store, q)  BY <1>1
<1>5. /\ \A n \in DOMAIN store :
            /\ store[n].pid = q /\ store[n].expect = "pubrec" /\ store[n].packet.m \in Range(delivered')
            => store[n].packet.m \in Range(delivered)
      /\ (q \in received' <=> q \in received)
      /\ (q \in free => q \in free' \/ NoPacket(down, {"puback"}, q))
  BY <1>1
<1>. QED  BY <1>2, <1>3, <1>4, <1>5, DeliveryFrame

(* The id is used no more. *)
LEMMA DeliveryOver ==
    ASSUME NEW pid, NoPacket(down', {"pubrec", "pubcomp"}, pid), pid \in free' \/ NoPacket(down', {"puback"}, pid),
           NoEntry(store', pid), pid \notin received'
    PROVE  DeliveryKept(pid)'
<1>1. AckedDelivered(pid)'
  BY DEF AckedDelivered, NoPacket
<1>2. ReceivedStored(pid)' /\ DeliveredKnown(pid)'
  BY DEF ReceivedStored, DeliveredKnown, NoEntry
<1>. QED  BY <1>1, <1>2 DEF DeliveryKept

(* With no entry that waits for a PUBREC or PUBCOMP, the broker does not   *)
(* remember the id.                                                        *)
LEMMA NotReceived ==
    ASSUME NEW pid, DeliveryKept(pid), ~IsStored(pid, "pubrec"), ~IsStored(pid, "pubcomp")
    PROVE  pid \notin received
  BY DEF DeliveryKept, ReceivedStored, StoredDelivered, IsStored

LEMMA OneAnswer ==
    ASSUME TypeOK, NEW p \in Packets, down' = Append(down, p)
    PROVE  \E v : Follows(down', down, 0, v) /\ \A n \in DOMAIN v : n = 1 /\ v[n] = p
<1>1. PICK v : v = <<p>>
  OBVIOUS
<1>2. Follows(down', down, 0, v) /\ \A n \in DOMAIN v : n = 1 /\ v[n] = p
  <2>1. down \in Seq(Packets)  BY DEF TypeOK
  <2>2. \A n \in DOMAIN v : n = 1 /\ v[n] = p  BY <1>1
  <2>. QED  BY <1>1, <2>1, <2>2, FollowsAppend
<1>. QED  BY <1>2

LEMMA DeliverySilent ==
    ASSUME Basic, DeliveryInv, NEW e, Follows(down', down, e, <<>>), free \subseteq free',
           mixed \subseteq mixed', UNCHANGED <<store, delivered, received, orphaned>>
    PROVE  DeliveryInv'
<1>1. PICK v : v = <<>> /\ \A n \in DOMAIN v : FALSE
  OBVIOUS
<1>2. Follows(down', down, e, v)  BY <1>1
<1>. QED  BY <1>1, <1>2, DeliveryQuiet

LEMMA OthersDelivery ==
    ASSUME Basic, DeliveryInv,
           \/ Forks \/ (\E n \in DOMAIN forks : ForkPublishes(n)) \/ Connect \/ HandleError
           \/ ProcessPublish \/ ProcessPubrel \/ Break \/ UNCHANGED vars
    PROVE  DeliveryInv'
<1>1. TypeOK /\ Phases  BY DEF Basic
<1>2. /\ free \subseteq free' /\ mixed \subseteq mixed'
      /\ UNCHANGED <<store, delivered, received, orphaned>>
  BY DEF Forks, ForkPublishes, Connect, HandleError, ProcessPublish, ProcessPubrel, Break, vars,
         endpointVars, brokerVars, forkVars, historyVars
<1>3. PICK e : Follows(down', down, e, <<>>)
  <2>1. CASE Forks \/ (\E n \in DOMAIN forks : ForkPublishes(n)) \/ Connect \/ HandleError \/ UNCHANGED vars
    <3>1. down' = down
      BY <1>1, <2>1 DEF Forks, ForkPublishes, Connect, HandleError, vars, Phases
    <3>. QED  BY <1>1, <3>1, FollowsSame DEF TypeOK
  <2>2. CASE ProcessPublish \/ ProcessPubrel
    <3>1. PICK type \in {"publish", "pubrel"} : Receives(type)
      BY <2>2 DEF ProcessPublish, ProcessPubrel
    <3>. QED  BY <1>1, <3>1, ReceivesIs
  <2>3. CASE Break
    <3>1. PICK k \in 0..Len(down) : down' = SubSeq(down, 1, k)
      BY <2>3 DEF Break
    <3>. QED  BY <1>1, <3>1, FollowsPrefix DEF TypeOK
  <2>. QED  BY <2>1, <2>2, <2>3
<1>. QED  BY <1>2, <1>3, DeliverySilent

LEMMA BrokerPublishesDelivery ==
    ASSUME Basic, DeliveryInv, NEW qos \in Qos, BrokerPublishes(qos)
    PROVE  DeliveryInv'
<1>1. TypeOK /\ down' \in Seq(Packets)
  BY BrokerPublishesBasic DEF Basic, TypeOK
<1>2. PICK m : m = Len(incoming) + 1
  OBVIOUS
<1>3. PICK pid \in Ids : down' = Append(down, Publish(pid, qos, m))
  BY <1>2 DEF BrokerPublishes, Answer
<1>4. PICK p : p = Publish(pid, qos, m)
  OBVIOUS
<1>5. UNCHANGED <<store, free, mixed, delivered, received, orphaned>>
  BY DEF BrokerPublishes, endpointVars, historyVars, forkVars
<1>6. p \in Packets /\ p.type = "publish"
  <2>1. down' = Append(down, p) /\ down \in Seq(Packets)  BY <1>1, <1>3, <1>4 DEF TypeOK
  <2>2. Len(down) + 1 \in DOMAIN down' /\ down'[Len(down) + 1] = p  BY <2>1
  <2>. QED  BY <1>1, <1>4, <2>2 DEF Publish
<1>7. PICK v : Follows(down', down, 0, v) /\ \A n \in DOMAIN v : n = 1 /\ v[n] = p
  BY <1>1, <1>3, <1>4, <1>6, OneAnswer
<1>8. \A n \in DOMAIN v : v[n].type \notin Deliveries  BY <1>6, <1>7 DEF Deliveries
<1>9. free \subseteq free' /\ mixed \subseteq mixed'  BY <1>5
<1>. QED  BY <1>5, <1>7, <1>8, <1>9, DeliveryQuiet

(* The session is discarded: what is stored is orphaned. *)
LEMMA DiscardsDelivery ==
    ASSUME Basic, DeliveryInv, Discards, NEW e, NEW v, Follows(down', down, e, v),
           \A n \in DOMAIN v : v[n].type \notin Deliveries,
           UNCHANGED <<free, mixed, store, delivered>>
    PROVE  DeliveryInv'
<1>1. TypeOK /\ StoreMade  BY DEF Basic
<1>2. received' = {} /\ orphaned' = orphaned \cup StoredMessages  BY DEF Discards
<1>3. SUFFICES ASSUME NEW pid \in Ids, pid \notin mixed' PROVE DeliveryKept(pid)'
  BY DEF DeliveryInv
<1>4. DeliveryKept(pid)  BY <1>3 DEF DeliveryInv
<1>5. AckedDelivered(pid)'
  <2>1. \A expect : StoredDelivered(pid, expect)' <=> StoredDelivered(pid, expect)
    BY DEF StoredDelivered
  <2>2. \A n \in DOMAIN down' : down'[n].type \in Deliveries => n + e \in DOMAIN down /\ down'[n] = down[n + e]
    BY DEF Follows
  <2>. QED  BY <1>2, <1>4, <2>1, <2>2 DEF DeliveryKept, AckedDelivered, Deliveries
<1>6. ReceivedStored(pid)'  BY <1>2 DEF ReceivedStored
<1>7. DeliveredKnown(pid)'
  <2>1. ASSUME NEW n \in DOMAIN store, store[n].expect = "pubrec"
        PROVE  store[n].packet.m \in orphaned'
    <3>1. store[n].packet.type = "publish"  BY <1>1, <2>1, EntryKinds
    <3>. QED  BY <1>2, <3>1 DEF StoredMessages
  <2>. QED  BY <2>1 DEF DeliveredKnown
<1>. QED  BY <1>5, <1>6, <1>7 DEF DeliveryKept

LEMMA ForgetsDelivery ==
    ASSUME Basic, SessionInv, DeliveryInv, BrokerForgets \/ (BrokerReads /\ Head(up).type = "connect")
    PROVE  DeliveryInv'
<1>1. TypeOK /\ Phases  BY DEF Basic
<1>2. UNCHANGED <<free, mixed, store, delivered>>
  BY DEF BrokerForgets, BrokerReads, endpointVars, forkVars
<1>3. CASE BrokerForgets
  <2>1. PICK v : v = <<>> /\ \A n \in DOMAIN v : FALSE
    OBVIOUS
  <2>2. Discards /\ down' = down  BY <1>3 DEF BrokerForgets
  <2>3. Follows(down', down, 0, v)  BY <1>1, <2>1, <2>2, FollowsSame DEF TypeOK
  <2>. QED  BY <1>2, <2>1, <2>2, <2>3, DiscardsDelivery
<1>4. CASE BrokerReads /\ Head(up).type = "connect"
  <2>1. conn = "opening" /\ down = <<>> /\ conn' = conn
    <3>1. /\ up \in Seq(Packets) /\ Head(up) = up[1] /\ 1 \in DOMAIN up
      BY <1>1, <1>4 DEF TypeOK, BrokerReads
    <3>. QED  BY <1>1, <1>4, <3>1 DEF Phases, BrokerReads, endpointVars
  <2>2. down' \in Seq(Packets)  BY <1>4, AcceptsBasic DEF Basic, TypeOK
  <2>3. PICK v : v = down'
    OBVIOUS
  <2>4. \A n \in DOMAIN v : v[n].type \notin Deliveries
    BY <1>4, <2>1, <2>3, AcceptsSession DEF SessionInv, DownOpening, Deliveries, Sends
  <2>5. Follows(down', down, 0, v)  BY <2>1, <2>2, <2>3 DEF Follows
  <2>6. Discards \/ UNCHANGED <<received, orphaned>>
    BY <1>4 DEF BrokerReads
  <2>7. free \subseteq free' /\ mixed \subseteq mixed'  BY <1>2
  <2>. QED  BY <1>2, <2>4, <2>5, <2>6, <2>7, DiscardsDelivery, DeliveryQuiet
<1>. QED  BY <1>3, <1>4

LEMMA ConnackDelivery ==
    ASSUME Basic, SessionInv, DeliveryInv, ProcessConnack
    PROVE  DeliveryInv'
<1>1. TypeOK /\ Phases  BY DEF Basic
<1>2. /\ Receives("connack") /\ UNCHANGED <<mixed, delivered, received, orphaned>>
      /\ \/ UNCHANGED <<free, store>>
         \/ ~Head(down).present /\ free' = AllFree /\ store' = <<>>
  BY DEF ProcessConnack, brokerVars, forkVars
<1>3. /\ conn # "off" /\ 1 \in DOMAIN down /\ down[1] = Head(down) /\ down[1].type = "connack"
      /\ Follows(down', down, 1, <<>>)
  BY <1>1, <1>2, ReceivesIs
<1>4. CASE UNCHANGED <<free, store>>
  <2>1. free \subseteq free' /\ mixed \subseteq mixed'  BY <1>2, <1>4
  <2>. QED  BY <1>2, <1>3, <1>4, <2>1, DeliverySilent
<1>5. CASE ~Head(down).present /\ free' = AllFree /\ store' = <<>>
  <2>1. received' = {}  BY <1>2, <1>3, <1>5 DEF SessionInv, SessionHeld
  <2>2. \A n \in DOMAIN down : down[n].type \notin Deliveries
    BY <1>3 DEF SessionInv, DownOpening, Sends, Deliveries
  <2>3. \A n \in DOMAIN down' : down'[n].type \notin Deliveries
    BY <1>3, <2>2 DEF Follows
  <2>4. ASSUME NEW pid \in Ids PROVE DeliveryKept(pid)'
    <3>1. NoPacket(down', {"pubrec", "pubcomp"}, pid) /\ NoPacket(down', {"puback"}, pid)
      BY <2>3 DEF NoPacket, Deliveries
    <3>2. NoEntry(store', pid) /\ pid \notin received'  BY <1>5, <2>1 DEF NoEntry
    <3>. QED  BY <3>1, <3>2, DeliveryOver
  <2>. QED  BY <2>4 DEF DeliveryInv
<1>. QED  BY <1>2, <1>4, <1>5

LEMMA SubscribeDelivery ==
    ASSUME Basic, IdsInv, DeliveryInv, DoSubscribe
    PROVE  DeliveryInv'
<1>1. PICK pid \in free : MixesWith(pid) /\ free' = free \ {pid}
  BY DEF DoSubscribe
<1>2. UNCHANGED <<store, down, delivered, received, orphaned>>
  BY DEF DoSubscribe, brokerVars
<1>3. TypeOK  BY DEF Basic
<1>4. PICK v : v = <<>> /\ \A n \in DOMAIN v : FALSE
  OBVIOUS
<1>5. Follows(down', down, 0, v)  BY <1>2, <1>3, <1>4, FollowsSame DEF TypeOK
<1>6. mixed \subseteq mixed'  BY <1>1 DEF MixesWith
<1>7. \A q : SameEntries(store', store, q)  BY <1>2, SameEntriesSame
<1>8. ASSUME pid \notin mixed'
      PROVE  DeliveryKept(pid)'
  <2>1. NoPacket(down, OwnDown, pid)  BY <1>1, <1>8, AcquiredUnused
  <2>2. DeliveryKept(pid)  BY <1>1, <1>3, <1>6, <1>8 DEF DeliveryInv, TypeOK
  <2>3. NoPacket(v, {"pubrec", "pubcomp"}, pid) /\ NoPacket(v, {"puback"}, pid)
    BY <1>4 DEF NoPacket
  <2>4. NoPacket(down, {"puback"}, pid)  BY <2>1 DEF NoPacket, OwnDown
  <2>. QED  BY <1>2, <1>5, <1>7, <2>2, <2>3, <2>4, DeliveryFrame
<1>9. /\ pid \in Ids /\ \A n \in DOMAIN v : v[n].pid = pid
      /\ free' \ {pid} = free \ {pid} /\ received' \ {pid} = received \ {pid}
      /\ Range(delivered) \subseteq Range(delivered') /\ orphaned \subseteq orphaned'
      /\ \A n \in DOMAIN store :
            store[n].pid # pid /\ store[n].packet.m \in Range(delivered') => store[n].packet.m \in Range(delivered)
  BY <1>1, <1>2, <1>3, <1>4 DEF TypeOK
<1>. QED  BY <1>5, <1>6, <1>7, <1>8, <1>9, DeliveryTouched

LEMMA PublishDelivery ==
    ASSUME Basic, IdsInv, DeliveryInv, NEW qos \in Qos, DoPublish(qos)
    PROVE  DeliveryInv'
<1>0. PICK m : m = Len(made) + 1
  OBVIOUS
<1>1. PICK pid \in free :
         /\ MixesWith(pid)
         /\ free' = free \ {pid}
         /\ store' = Stored(Entry(pid, Awaited(qos), Publish(pid, qos, m)))
  BY <1>0 DEF DoPublish
<1>2. UNCHANGED <<down, delivered, received, orphaned>>
  BY DEF DoPublish, brokerVars
<1>3. TypeOK /\ DeliveredMade  BY DEF Basic
<1>4. PICK e : e = Entry(pid, Awaited(qos), Publish(pid, qos, m))
  OBVIOUS
<1>5. /\ e.pid = pid /\ e.packet.m = m /\ pid \in Ids
      /\ store' = IF IsStored(pid, e.expect) THEN store ELSE Append(store, e)
      /\ store \in Seq(Entries)
  BY <1>1, <1>3, <1>4 DEF Entry, Stored, Publish, TypeOK
<1>6. m \notin Range(delivered)
  <2>1. made \in Seq([qos : {1, 2}, pid : Ids])  BY <1>3 DEF TypeOK
  <2>2. Len(made) \in Nat  BY <2>1
  <2>. QED  BY <1>0, <1>3, <2>2 DEF DeliveredMade, Msgs, Range
<1>7. PICK v : v = <<>> /\ \A n \in DOMAIN v : FALSE
  OBVIOUS
<1>8. Follows(down', down, 0, v)  BY <1>2, <1>3, <1>7, FollowsSame DEF TypeOK
<1>9. mixed \subseteq mixed'  BY <1>1 DEF MixesWith
<1>10. \A q : q # pid => SameEntries(store', store, q)
  BY <1>5, SameEntriesSame, SameEntriesAppend
<1>11. ASSUME pid \notin mixed'
       PROVE  DeliveryKept(pid)'
  <2>1. NoPacket(down, OwnDown, pid) /\ NoEntry(store, pid)  BY <1>1, <1>11, AcquiredUnused
  <2>2. DeliveryKept(pid)  BY <1>5, <1>9, <1>11 DEF DeliveryInv
  <2>3. store' = Append(store, e) /\ (\A expect : ~IsStored(pid, expect))
    BY <1>5, <2>1 DEF IsStored, NoEntry
  <2>4. pid \notin received'  BY <1>2, <2>2, <2>3, NotReceived
  <2>5. \A n \in DOMAIN store' : store'[n].pid = pid => store'[n] = e
    <3>1. \A n \in DOMAIN store' : (n \in DOMAIN store /\ store'[n] = store[n]) \/ store'[n] = e
      BY <1>5, <2>3
    <3>. QED  BY <2>1, <3>1 DEF NoEntry
  <2>6. AckedDelivered(pid)'
    BY <1>2, <2>1 DEF AckedDelivered, NoPacket, OwnDown
  <2>7. ReceivedStored(pid)'  BY <2>4 DEF ReceivedStored
  <2>8. DeliveredKnown(pid)'  BY <1>2, <1>5, <1>6, <2>5 DEF DeliveredKnown
  <2>. QED  BY <2>6, <2>7, <2>8 DEF DeliveryKept
<1>12. /\ \A n \in DOMAIN v : v[n].pid = pid
       /\ free' \ {pid} = free \ {pid} /\ received' \ {pid} = received \ {pid}
       /\ Range(delivered) \subseteq Range(delivered') /\ orphaned \subseteq orphaned'
       /\ \A n \in DOMAIN store :
             store[n].pid # pid /\ store[n].packet.m \in Range(delivered') => store[n].packet.m \in Range(delivered)
  BY <1>1, <1>2, <1>7
<1>. QED  BY <1>5, <1>8, <1>9, <1>10, <1>11, <1>12, DeliveryTouched

LEMMA SettlesDelivery ==
    ASSUME Basic, IdsInv, DeliveryInv, ProcessPuback \/ ProcessPubcomp \/ ProcessSuback
    PROVE  DeliveryInv'
<1>1. TypeOK /\ Phases  BY DEF Basic
<1>2. PICK pid : pid = Head(down).pid
  OBVIOUS
<1>3. PICK type \in {"puback", "pubcomp", "suback"} :
         /\ Receives(type) /\ free' = free \cup {pid}
         /\ store' = IF type = "suback" THEN store ELSE Erased(pid, type)
  <2>1. CASE ProcessPuback  BY <1>2, <2>1 DEF ProcessPuback
  <2>2. CASE ProcessPubcomp  BY <1>2, <2>2 DEF ProcessPubcomp, PubcompFrees
  <2>3. CASE ProcessSuback  BY <1>2, <2>3 DEF ProcessSuback
  <2>. QED  BY <2>1, <2>2, <2>3
<1>4. UNCHANGED <<mixed, delivered, received, orphaned>>
  BY DEF ProcessPuback, ProcessPubcomp, ProcessSuback, forkVars, brokerVars, historyVars
<1>5. /\ Follows(down', down, 1, <<>>) /\ pid \in Ids
      /\ 1 \in DOMAIN down /\ down[1].type = type /\ down[1].pid = pid
  BY <1>1, <1>2, <1>3, ReceivesIs, PacketFields
<1>6. PICK v : v = <<>> /\ \A n \in DOMAIN v : FALSE
  OBVIOUS
<1>7. Follows(down', down, 1, v)  BY <1>5, <1>6
<1>8. \A q : q # pid => SameEntries(store', store, q)
  BY <1>1, <1>3, ErasedEffect, SameEntriesSame
<1>9. ASSUME pid \notin mixed'
      PROVE  DeliveryKept(pid)'
  <2>1. /\ IdKept(pid) /\ NoPacket(down', OwnDown \ {"puback"}, pid)
        /\ type = "puback" => pid \in free \/ IsStored(pid, "puback")
        /\ type # "puback" => pid \notin free
        /\ type = "pubcomp" => IsStored(pid, type)
        /\ type = "suback" => NoEntry(store, pid)
    BY <1>2, <1>3, <1>4, <1>9, ReadOwn DEF OwnDown
  <2>2. DeliveryKept(pid)  BY <1>4, <1>5, <1>9 DEF DeliveryInv
  <2>3. NoEntry(store', pid) /\ pid \notin received
    <3>1. CASE NoEntry(store, pid)
      <4>1. \A expect : ~IsStored(pid, expect)  BY <3>1 DEF IsStored, NoEntry
      <4>2. store' = store  BY <1>1, <1>3, <4>1, ErasedEffect
      <4>. QED  BY <2>2, <3>1, <4>1, <4>2, NotReceived
    <3>2. CASE ~NoEntry(store, pid)
      <4>1. type # "suback" /\ IsStored(pid, type) /\ OneEntry(store, pid)
        BY <2>1, <3>2 DEF IdKept, OneExchange, FreeUnused
      <4>2. NoEntry(store', pid)  BY <1>1, <1>3, <4>1, ErasedEffect
      <4>3. CASE type = "puback"
        <5>1. ~IsStored(pid, "pubrec") /\ ~IsStored(pid, "pubcomp")
          BY <4>1, <4>3 DEF IsStored, OneEntry
        <5>. QED  BY <2>2, <4>2, <5>1, NotReceived
      <4>4. CASE type = "pubcomp"
        BY <1>5, <2>2, <4>2, <4>4 DEF DeliveryKept, AckedDelivered
      <4>. QED  BY <4>1, <4>3, <4>4
    <3>. QED  BY <3>1, <3>2
  <2>4. NoPacket(down', {"pubrec", "pubcomp"}, pid) /\ pid \in free' /\ pid \notin received'
    BY <1>3, <1>4, <2>1, <2>3 DEF NoPacket, OwnDown
  <2>. QED  BY <2>3, <2>4, DeliveryOver
<1>10. /\ \A n \in DOMAIN v : v[n].pid = pid
       /\ free' \ {pid} = free \ {pid} /\ received' \ {pid} = received \ {pid}
       /\ Range(delivered) \subseteq Range(delivered') /\ orphaned \subseteq orphaned'
       /\ \A n \in DOMAIN store :
             store[n].pid # pid /\ store[n].packet.m \in Range(delivered') => store[n].packet.m \in Range(delivered)
       /\ mixed \subseteq mixed'
  BY <1>3, <1>4, <1>6
<1>. QED  BY <1>5, <1>7, <1>8, <1>9, <1>10, DeliveryTouched

LEMMA PubrecDelivery ==
    ASSUME Basic, IdsInv, DeliveryInv, ProcessPubrec
    PROVE  DeliveryInv'
<1>1. TypeOK /\ Phases /\ StoreMade  BY DEF Basic
<1>2. PICK pid : pid = Head(down).pid
  OBVIOUS
<1>e. PICK e : e = Entry(pid, "pubcomp", Packet("pubrel", pid))
  OBVIOUS
<1>3. /\ Receives("pubrec") /\ free' = free \ {pid}
      /\ store' = IF IsStored(pid, "pubcomp") THEN Erased(pid, "pubrec")
                  ELSE Append(Erased(pid, "pubrec"), e)
      /\ UNCHANGED <<mixed, delivered, received, orphaned>>
  BY <1>2, <1>e DEF ProcessPubrec, PubrelStored, forkVars, brokerVars, historyVars
<1>4. Follows(down', down, 1, <<>>) /\ pid \in Ids
  BY <1>1, <1>2, <1>3, ReceivesIs, PacketFields
<1>5. e.pid = pid /\ e.expect = "pubcomp"
  BY <1>e DEF Entry
<1>6. PICK v : v = <<>> /\ \A n \in DOMAIN v : FALSE
  OBVIOUS
<1>7. Follows(down', down, 1, v)  BY <1>4, <1>6
<1>8. Erased(pid, "pubrec") \in Seq(Entries)  BY <1>1, ErasedMade
<1>9. \A q : q # pid => SameEntries(store', store, q)
  <2>1. SUFFICES ASSUME NEW q, q # pid PROVE SameEntries(store', store, q)
    OBVIOUS
  <2>2. SameEntries(Erased(pid, "pubrec"), store, q)  BY <1>1, <2>1, ErasedEffect
  <2>3. SameEntries(Append(Erased(pid, "pubrec"), e), Erased(pid, "pubrec"), q)
    BY <1>5, <1>8, <2>1, SameEntriesAppend
  <2>. QED  BY <1>3, <2>2, <2>3, SameEntriesTransitive
<1>10. ASSUME pid \notin mixed'
       PROVE  DeliveryKept(pid)'
  <2>1. /\ IdKept(pid) /\ NoPacket(down', OwnDown, pid) /\ IsStored(pid, "pubrec")
    BY <1>2, <1>3, <1>10, ReadOwn DEF OwnDown
  <2>2. OneEntry(store, pid)  BY <2>1 DEF IdKept, OneExchange
  <2>3. NoEntry(Erased(pid, "pubrec"), pid)  BY <1>1, <2>1, <2>2, ErasedEffect
  <2>4. ~IsStored(pid, "pubcomp")  BY <2>1, <2>2 DEF IsStored, OneEntry
  <2>5. PICK n : n = Len(Erased(pid, "pubrec")) + 1
    OBVIOUS
  <2>6. /\ n \in DOMAIN store' /\ store'[n] = e
        /\ \A k \in DOMAIN store' : store'[k].pid = pid => store'[k] = e
    <3>1. PICK s : s = Erased(pid, "pubrec")
      OBVIOUS
    <3>2. store' = Append(s, e) /\ s \in Seq(Entries) /\ n = Len(s) + 1  BY <1>3, <1>8, <2>4, <2>5, <3>1
    <3>3. /\ n \in DOMAIN store' /\ store'[n] = e
          /\ \A k \in DOMAIN store' : (k \in DOMAIN s /\ store'[k] = s[k]) \/ store'[k] = e
      BY <3>2
    <3>. QED  BY <2>3, <3>1, <3>3 DEF NoEntry
  <2>7. IsStored(pid, "pubcomp")'  BY <1>5, <2>6 DEF IsStored
  <2>8. AckedDelivered(pid)'  BY <2>1 DEF AckedDelivered, NoPacket, OwnDown
  <2>9. ReceivedStored(pid)' /\ DeliveredKnown(pid)'
    BY <1>5, <2>6, <2>7 DEF ReceivedStored, DeliveredKnown
  <2>. QED  BY <2>8, <2>9 DEF DeliveryKept
<1>11. /\ \A n \in DOMAIN v : v[n].pid = pid
       /\ free' \ {pid} = free \ {pid} /\ received' \ {pid} = received \ {pid}
       /\ Range(delivered) \subseteq Range(delivered') /\ orphaned \subseteq orphaned'
       /\ \A n \in DOMAIN store :
             store[n].pid # pid /\ store[n].packet.m \in Range(delivered') => store[n].packet.m \in Range(delivered)
       /\ mixed \subseteq mixed'
  BY <1>3, <1>6
<1>. QED  BY <1>4, <1>7, <1>9, <1>10, <1>11, DeliveryTouched

LEMMA RangeAppend ==
    ASSUME NEW S, NEW s \in Seq(S), NEW e
    PROVE  Range(Append(s, e)) = Range(s) \cup {e}
<1>1. /\ DOMAIN Append(s, e) = 1..(Len(s) + 1) /\ DOMAIN s = 1..Len(s) /\ Len(s) \in Nat
      /\ \A n \in DOMAIN s : Append(s, e)[n] = s[n]
      /\ Append(s, e)[Len(s) + 1] = e
  OBVIOUS
<1>2. \A n \in DOMAIN Append(s, e) : n \in DOMAIN s \/ n = Len(s) + 1
  BY <1>1
<1>3. DOMAIN s \subseteq DOMAIN Append(s, e) /\ Len(s) + 1 \in DOMAIN Append(s, e)
  BY <1>1
<1>. QED  BY <1>1, <1>2, <1>3 DEF Range

(* The broker reads a packet of an exchange and answers it. *)
LEMMA AnswersOwn ==
    ASSUME Basic, BrokerReads, NEW p, p = Head(up), p.type \in OwnUp
    PROVE  /\ p = up[1] /\ 1 \in DOMAIN up /\ p \in Packets /\ p.pid \in Ids
           /\ up \in Seq(Packets) /\ up # <<>> /\ up' = Tail(up)
           /\ \E q \in Packets :
                 /\ down' = Append(down, q) /\ q.pid = p.pid
                 /\ \/ p.type = "publish" /\ p.qos \in {1, 2} /\ q.type = Awaited(p.qos)
                    \/ p.type = "pubrel" /\ q.type = "pubcomp"
                    \/ p.type = "subscribe" /\ q.type = "suback"
<1>1. up # <<>> /\ up' = Tail(up) /\ up \in Seq(Packets)
  BY DEF BrokerReads, Basic, TypeOK
<1>2. p = up[1] /\ 1 \in DOMAIN up /\ p \in Packets
  BY <1>1
<1>3. p.pid \in Ids  BY <1>2, PacketFields DEF OwnUp
<1>4. PICK type \in OwnDown :
         /\ down' = Append(down, Packet(type, p.pid))
         /\ \/ p.type = "publish" /\ p.qos \in {1, 2} /\ type = Awaited(p.qos)
            \/ p.type = "pubrel" /\ type = "pubcomp"
            \/ p.type = "subscribe" /\ type = "suback"
  <2>1. CASE p.type = "publish" /\ p.qos = 1
    <3>1. p.qos # 2  BY <2>1
    <3>2. down' = Append(down, Packet("puback", p.pid))
      BY <2>1, <3>1 DEF BrokerReads, Answer
    <3>. QED  BY <2>1, <3>2 DEF Awaited, OwnDown
  <2>2. CASE p.type = "publish" /\ p.qos # 1
    <3>1. down' = Append(down, Packet("pubrec", p.pid)) /\ p.qos = 2
      BY <2>2 DEF BrokerReads, Answer
    <3>. QED  BY <2>2, <3>1 DEF Awaited, OwnDown
  <2>3. CASE p.type = "pubrel"
    <3>1. down' = Append(down, Packet("pubcomp", p.pid))
      BY <2>3 DEF BrokerReads, Answer
    <3>. QED  BY <2>3, <3>1 DEF OwnDown
  <2>4. CASE p.type = "subscribe"
    <3>1. down' = Append(down, Packet("suback", p.pid))
      BY <2>4 DEF BrokerReads, Answer
    <3>. QED  BY <2>4, <3>1 DEF OwnDown
  <2>. QED  BY <2>1, <2>2, <2>3, <2>4 DEF OwnUp
<1>5. PICK q : q = Packet(type, p.pid)
  OBVIOUS
<1>6. q \in Packets /\ q.type = type /\ q.pid = p.pid
  BY <1>3, <1>5, PacketIs DEF Packet, OwnDown
<1>7. /\ down' = Append(down, q)
      /\ \/ p.type = "publish" /\ p.qos \in {1, 2} /\ q.type = Awaited(p.qos)
         \/ p.type = "pubrel" /\ q.type = "pubcomp"
         \/ p.type = "subscribe" /\ q.type = "suback"
  BY <1>4, <1>5, <1>6
<1>. QED  BY <1>1, <1>2, <1>3, <1>6, <1>7

(* What is known of the id of a packet that the broker reads. *)
LEMMA AskedFor ==
    ASSUME Basic, IdsInv, NEW n \in DOMAIN up, NEW p, p = up[n], p.type \in OwnUp, p.pid \notin mixed
    PROVE  /\ p.pid \notin free /\ NoPacket(down, OwnDown, p.pid) /\ OneEntry(store, p.pid)
           /\ p.type = "publish" =>
                 \E k \in DOMAIN store : /\ store[k].pid = p.pid /\ store[k].packet = p
                                         /\ store[k].expect = Awaited(p.qos)
           /\ p.type = "pubrel" => IsStored(p.pid, "pubcomp")
           /\ p.type = "subscribe" => NoEntry(store, p.pid)
<1>1. TypeOK /\ StoreMade  BY DEF Basic
<1>2. up \in Seq(Packets)  BY <1>1 DEF TypeOK
<1>3. p.pid \in Ids
  <2>1. p \in Packets  BY <1>2
  <2>. QED  BY <2>1, PacketFields DEF OwnUp
<1>4. IdKept(p.pid)  BY <1>3 DEF IdsInv
<1>5. ~NoPacket(up, OwnUp, p.pid)  BY DEF NoPacket
<1>6. p.pid \notin free /\ NoPacket(down, OwnDown, p.pid) /\ OneEntry(store, p.pid)
  BY <1>4, <1>5 DEF IdKept, FreeUnused, OneExchange
<1>7. ASSUME p.type = "publish"
      PROVE  \E k \in DOMAIN store : /\ store[k].pid = p.pid /\ store[k].packet = p
                                     /\ store[k].expect = Awaited(p.qos)
  <2>1. PICK k \in DOMAIN store : store[k].pid = p.pid /\ store[k].packet = p
    BY <1>4, <1>7 DEF IdKept, UpAsked
  <2>2. store[k].expect = Awaited(p.qos)  BY <1>1, <1>7, <2>1, EntryKinds
  <2>. QED  BY <2>1, <2>2
<1>8. /\ p.type = "pubrel" => IsStored(p.pid, "pubcomp")
      /\ p.type = "subscribe" => NoEntry(store, p.pid)
  BY <1>4 DEF IdKept, UpAsked
<1>. QED  BY <1>6, <1>7, <1>8

(* What the broker has after it read a packet of an exchange. *)
LEMMA DeliveredBy ==
    ASSUME Basic, BrokerReads, NEW p, p = Head(up), p.type \in OwnUp
    PROVE  /\ delivered \in Seq(1..MaxMsgs)
           /\ delivered' = IF /\ p.type = "publish"
                              /\ p.qos = 2 => p.pid \notin received
                           THEN Append(delivered, p.m) ELSE delivered
           /\ received' = IF p.type = "publish" /\ p.qos = 2 THEN received \cup {p.pid}
                          ELSE IF p.type = "pubrel" THEN received \ {p.pid} ELSE received
           /\ UNCHANGED <<store, free, inflight, mixed, orphaned, made, dropped>>
<1>1. UNCHANGED <<store, free, inflight, mixed, orphaned, made, dropped>>
  BY DEF BrokerReads, endpointVars, forkVars, OwnUp
<1>2. delivered \in Seq(1..MaxMsgs)  BY DEF Basic, TypeOK
<1>3. CASE p.type = "publish" /\ p.qos = 1
  <2>1. p.qos # 2  BY <1>3
  <2>2. delivered' = Append(delivered, p.m) /\ received' = received
    BY <1>3, <2>1 DEF BrokerReads
  <2>. QED  BY <1>1, <1>2, <1>3, <2>1, <2>2
<1>4. CASE p.type = "publish" /\ p.qos # 1
  <2>1. /\ p.qos = 2 /\ received' = received \cup {p.pid}
        /\ delivered' = IF p.pid \in received THEN delivered ELSE Append(delivered, p.m)
    BY <1>4 DEF BrokerReads
  <2>2. CASE p.pid \in received  BY <1>1, <1>2, <1>4, <2>1, <2>2
  <2>3. CASE p.pid \notin received  BY <1>1, <1>2, <1>4, <2>1, <2>3
  <2>. QED  BY <2>2, <2>3
<1>5. CASE p.type = "pubrel"
  <2>1. received' = received \ {p.pid} /\ delivered' = delivered
    BY <1>5 DEF BrokerReads
  <2>. QED  BY <1>1, <1>2, <1>5, <2>1
<1>6. CASE p.type = "subscribe"
  <2>1. received' = received /\ delivered' = delivered
    BY <1>6 DEF BrokerReads
  <2>. QED  BY <1>1, <1>2, <1>6, <2>1
<1>. QED  BY <1>3, <1>4, <1>5, <1>6 DEF OwnUp

LEMMA ReadsOwnDelivery ==
    ASSUME Basic, IdsInv, DeliveryInv, BrokerReads, Head(up).type \in OwnUp
    PROVE  DeliveryInv'
<1>1. TypeOK /\ StoreMade /\ UpMade  BY DEF Basic
<1>2. PICK p : p = Head(up)
  OBVIOUS
<1>3. PICK pid : pid = p.pid
  OBVIOUS
<1>4. p = up[1] /\ 1 \in DOMAIN up /\ p \in Packets /\ pid \in Ids /\ p.type \in OwnUp
  BY <1>2, <1>3, AnswersOwn
<1>5. PICK q \in Packets :
         /\ down' = Append(down, q) /\ q.pid = pid
         /\ \/ p.type = "publish" /\ p.qos \in {1, 2} /\ q.type = Awaited(p.qos)
            \/ p.type = "pubrel" /\ q.type = "pubcomp"
            \/ p.type = "subscribe" /\ q.type = "suback"
  BY <1>2, <1>3, AnswersOwn
<1>6. PICK v : Follows(down', down, 0, v) /\ \A n \in DOMAIN v : n = 1 /\ v[n] = q
  BY <1>1, <1>5, OneAnswer
<1>7. /\ delivered \in Seq(1..MaxMsgs)
      /\ delivered' = IF /\ p.type = "publish"
                         /\ p.qos = 2 => pid \notin received
                      THEN Append(delivered, p.m) ELSE delivered
      /\ received' = IF p.type = "publish" /\ p.qos = 2 THEN received \cup {pid}
                     ELSE IF p.type = "pubrel" THEN received \ {pid} ELSE received
      /\ UNCHANGED <<store, free, mixed, orphaned>>
  BY <1>2, <1>3, <1>4, DeliveredBy
<1>8. /\ Range(delivered) \subseteq Range(delivered')
      /\ Range(delivered') \subseteq Range(delivered) \cup {p.m}
      /\ p.type # "publish" => Range(delivered') = Range(delivered)
      /\ p.type = "publish" /\ (p.qos = 2 => pid \notin received) => p.m \in Range(delivered')
  BY <1>7, RangeAppend
<1>9. ASSUME NEW n \in DOMAIN store, store[n].pid # pid, store[n].expect = "pubrec",
             store[n].packet.m \in Range(delivered')
      PROVE  store[n].packet.m \in Range(delivered)
  <2>1. made[store[n].packet.m] = [qos |-> store[n].packet.qos, pid |-> store[n].pid]
    BY <1>1, <1>9, EntryKinds
  <2>2. p.type = "publish" => made[p.m] = [qos |-> p.qos, pid |-> pid]
    BY <1>1, <1>3, <1>4 DEF UpMade, AllMade, MadeAs
  <2>3. p.type = "publish" => store[n].packet.m # p.m
    BY <1>9, <2>1, <2>2
  <2>. QED  BY <1>8, <1>9, <2>3
<1>10. ASSUME pid \notin mixed'
       PROVE  DeliveryKept(pid)'
  <2>1. /\ pid \notin free /\ NoPacket(down, OwnDown, pid) /\ OneEntry(store, pid)
        /\ p.type = "publish" =>
              \E k \in DOMAIN store : /\ store[k].pid = pid /\ store[k].packet = p
                                      /\ store[k].expect = Awaited(p.qos)
        /\ p.type = "pubrel" => IsStored(pid, "pubcomp")
        /\ p.type = "subscribe" => NoEntry(store, pid)
    BY <1>3, <1>4, <1>7, <1>10, AskedFor
  <2>2. DeliveryKept(pid)  BY <1>4, <1>7, <1>10 DEF DeliveryInv
  <2>3. \A n \in DOMAIN down' : down'[n].type \in OwnDown /\ down'[n].pid = pid => down'[n] = q
    BY <1>6, <2>1 DEF Follows, NoPacket
  <2>4. CASE p.type = "publish" /\ p.qos = 1
    <3>1. PICK k \in DOMAIN store : store[k].pid = pid /\ store[k].packet = p /\ store[k].expect = "puback"
      BY <2>1, <2>4 DEF Awaited
    <3>2. ~IsStored(pid, "pubrec") /\ ~IsStored(pid, "pubcomp")
      BY <2>1, <3>1 DEF IsStored, OneEntry
    <3>3. pid \notin received /\ received' = received
      BY <1>7, <2>2, <2>4, <3>2, NotReceived
    <3>4. store'[k].packet.m \in Range(delivered') /\ store' = store
      BY <1>7, <1>8, <2>4, <3>1
    <3>5. StoredDelivered(pid, "puback")'  BY <3>1, <3>4 DEF StoredDelivered
    <3>6. q.type = "puback"  BY <1>5, <2>4 DEF Awaited
    <3>7. AckedDelivered(pid)'  BY <2>3, <3>5, <3>6 DEF AckedDelivered, OwnDown
    <3>8. ReceivedStored(pid)' /\ DeliveredKnown(pid)'
      BY <3>2, <3>3, <3>4 DEF ReceivedStored, DeliveredKnown, IsStored
    <3>. QED  BY <3>7, <3>8 DEF DeliveryKept
  <2>5. CASE p.type = "publish" /\ p.qos = 2
    <3>1. PICK k \in DOMAIN store : store[k].pid = pid /\ store[k].packet = p /\ store[k].expect = "pubrec"
      BY <2>1, <2>5 DEF Awaited
    <3>2. ~IsStored(pid, "pubcomp")
      BY <2>1, <3>1 DEF IsStored, OneEntry
    <3>3. pid \in received' /\ store' = store
      BY <1>7, <2>5
    <3>4. store[k].packet.m \in Range(delivered')
      <4>1. CASE pid \notin received  BY <1>8, <2>5, <3>1, <4>1
      <4>2. CASE pid \in received
        <5>1. StoredDelivered(pid, "pubrec")  BY <2>2, <3>2, <4>2 DEF DeliveryKept, ReceivedStored
        <5>2. store[k].packet.m \in Range(delivered)
          BY <2>1, <3>1, <5>1 DEF StoredDelivered, OneEntry
        <5>. QED  BY <1>8, <5>2
      <4>. QED  BY <4>1, <4>2
    <3>5. StoredDelivered(pid, "pubrec")'  BY <3>1, <3>3, <3>4 DEF StoredDelivered
    <3>6. q.type = "pubrec"  BY <1>5, <2>5 DEF Awaited
    <3>7. AckedDelivered(pid)'  BY <2>3, <3>5, <3>6 DEF AckedDelivered, OwnDown
    <3>8. ReceivedStored(pid)' /\ DeliveredKnown(pid)'
      BY <3>3, <3>5 DEF ReceivedStored, DeliveredKnown
    <3>. QED  BY <3>7, <3>8 DEF DeliveryKept
  <2>6. CASE p.type = "pubrel"
    <3>1. ~IsStored(pid, "pubrec")  BY <2>1, <2>6 DEF IsStored, OneEntry
    <3>2. pid \notin received' /\ store' = store  BY <1>7, <2>6
    <3>3. q.type = "pubcomp"  BY <1>5, <2>6
    <3>4. AckedDelivered(pid)'  BY <2>3, <3>2, <3>3 DEF AckedDelivered, OwnDown
    <3>5. ReceivedStored(pid)' /\ DeliveredKnown(pid)'
      BY <3>1, <3>2 DEF ReceivedStored, DeliveredKnown, IsStored
    <3>. QED  BY <3>4, <3>5 DEF DeliveryKept
  <2>7. CASE p.type = "subscribe"
    <3>1. NoEntry(store, pid) /\ \A expect : ~IsStored(pid, expect)
      BY <2>1, <2>7 DEF NoEntry, IsStored
    <3>2. pid \notin received' /\ store' = store  BY <1>7, <2>2, <2>7, <3>1, NotReceived
    <3>3. q.type = "suback"  BY <1>5, <2>7
    <3>4. AckedDelivered(pid)'  BY <2>3, <3>3 DEF AckedDelivered, OwnDown
    <3>5. ReceivedStored(pid)' /\ DeliveredKnown(pid)'
      BY <3>1, <3>2 DEF ReceivedStored, DeliveredKnown, NoEntry
    <3>. QED  BY <3>4, <3>5 DEF DeliveryKept
  <2>. QED  BY <1>5, <2>4, <2>5, <2>6, <2>7
<1>11. /\ \A n \in DOMAIN v : v[n].pid = pid
       /\ \A r : r # pid => SameEntries(store', store, r)
       /\ free' \ {pid} = free \ {pid} /\ received' \ {pid} = received \ {pid}
       /\ mixed \subseteq mixed' /\ orphaned \subseteq orphaned'
  BY <1>5, <1>6, <1>7, SameEntriesSame
<1>. QED  BY <1>4, <1>6, <1>8, <1>9, <1>10, <1>11, DeliveryTouched

LEMMA ReadsForkedDelivery ==
    ASSUME Basic, IdsInv, DeliveryInv, BrokerReads, Head(up).type = "forked"
    PROVE  DeliveryInv'
<1>1. TypeOK  BY DEF Basic
<1>2. PICK p : p = Head(up)
  OBVIOUS
<1>3. PICK pid : pid = p.pid
  OBVIOUS
<1>4. /\ up # <<>> /\ UNCHANGED <<store, free, mixed, delivered, received, orphaned>>
      /\ down' = Append(down, Packet("puback", pid))
  BY <1>2, <1>3 DEF BrokerReads, Answer, endpointVars, forkVars
<1>5. /\ p = up[1] /\ 1 \in DOMAIN up /\ p.type = "forked" /\ pid \in Ids
  <2>1. up \in Seq(Packets) /\ p = up[1] /\ 1 \in DOMAIN up /\ p \in Packets
    BY <1>1, <1>2, <1>4 DEF TypeOK
  <2>. QED  BY <1>2, <1>3, <2>1, PacketFields
<1>6. PICK q : q = Packet("puback", pid)
  OBVIOUS
<1>7. q \in Packets /\ q.type = "puback" /\ q.pid = pid
  BY <1>5, <1>6, PacketIs DEF Packet
<1>8. PICK v : Follows(down', down, 0, v) /\ \A n \in DOMAIN v : n = 1 /\ v[n] = q
  BY <1>1, <1>4, <1>6, <1>7, OneAnswer
<1>9. SUFFICES ASSUME NEW r \in Ids, r \notin mixed' PROVE DeliveryKept(r)'
  BY DEF DeliveryInv
<1>10. IdKept(r) /\ DeliveryKept(r)  BY <1>4, <1>9 DEF IdsInv, DeliveryInv
<1>11. r = pid => r \in free'
  BY <1>3, <1>4, <1>5, <1>10 DEF IdKept, ForkedFree, NoPacket
<1>12. NoPacket(v, {"pubrec", "pubcomp"}, r) /\ (r \in free' \/ NoPacket(v, {"puback"}, r))
  BY <1>7, <1>8, <1>11 DEF NoPacket
<1>13. SameEntries(store', store, r)  BY <1>4, SameEntriesSame
<1>. QED  BY <1>4, <1>8, <1>10, <1>12, <1>13, DeliveryFrame

LEMMA ReadsAckDelivery ==
    ASSUME Basic, DeliveryInv, BrokerReads, Head(up).type \in Acks
    PROVE  DeliveryInv'
<1>1. TypeOK  BY DEF Basic
<1>2. /\ up # <<>> /\ UNCHANGED <<store, free, mixed, delivered, received, orphaned>>
      /\ down' = down \/ down' = Append(down, Packet("pubrel", Head(up).pid))
  BY DEF BrokerReads, endpointVars, forkVars, Acks, Answer
<1>3. Head(up) \in Packets /\ down \in Seq(Packets)
  BY <1>1, <1>2 DEF TypeOK
<1>4. PICK q : q = Packet("pubrel", Head(up).pid)
  OBVIOUS
<1>5. q \in Packets /\ q.type = "pubrel"
  <2>1. Head(up).pid \in Ids  BY <1>3, PacketFields DEF Acks
  <2>. QED  BY <1>4, <2>1, PacketIs DEF Packet
<1>6. free \subseteq free' /\ mixed \subseteq mixed'  BY <1>2
<1>7. CASE down' = down
  <2>1. Follows(down', down, 0, <<>>)  BY <1>3, <1>7, FollowsSame
  <2>. QED  BY <1>2, <1>6, <2>1, DeliverySilent
<1>8. CASE down' = Append(down, q)
  <2>1. PICK v : Follows(down', down, 0, v) /\ \A n \in DOMAIN v : n = 1 /\ v[n] = q
    BY <1>1, <1>5, <1>8, OneAnswer
  <2>2. \A n \in DOMAIN v : v[n].type \notin Deliveries  BY <1>5, <2>1 DEF Deliveries
  <2>. QED  BY <1>2, <1>6, <2>1, <2>2, DeliveryQuiet
<1>. QED  BY <1>2, <1>4, <1>7, <1>8

LEMMA InitDelivery == Init => DeliveryInv
  BY DEF Init, DeliveryInv, DeliveryKept, AckedDelivered, ReceivedStored, DeliveredKnown

LEMMA NextDelivery ==
    ASSUME Basic, SessionInv, IdsInv, DeliveryInv, [Next]_vars
    PROVE  DeliveryInv'
<1>1. TypeOK  BY DEF Basic
<1>2. CASE UNCHANGED vars  BY <1>2, OthersDelivery
<1>3. CASE BrokerReads
  BY <1>1, <1>3, ReadsKinds, ForgetsDelivery, ReadsAckDelivery, ReadsOwnDelivery, ReadsForkedDelivery
<1>4. CASE Next /\ ~BrokerReads
  BY <1>4, PublishDelivery, BrokerPublishesDelivery, OthersDelivery, SubscribeDelivery,
     ForgetsDelivery, ConnackDelivery, SettlesDelivery, PubrecDelivery
  DEF Next, ProcessPacket
<1>. QED  BY <1>2, <1>3, <1>4

----------------------------------------------------------------------------
(* Nothing is forgotten: what leaves the store was delivered or is dropped. *)
Kept(es, m) == \E n \in DOMAIN es : es[n].packet.type = "publish" /\ es[n].packet.m = m

LEMMA StoredKept == \A m : m \in StoredMessages <=> Kept(store, m)
  BY DEF StoredMessages, Kept

LEMMA ForgottenFrame ==
    ASSUME NothingForgotten, made' = made, mixed \subseteq mixed', dropped \subseteq dropped',
           Range(delivered) \subseteq Range(delivered'),
           \A m \in Msgs : Kept(store, m) /\ made[m].pid \notin mixed' =>
               Kept(store', m) \/ m \in dropped' \/ m \in Range(delivered')
    PROVE  NothingForgotten'
<1>1. \A m : m \in StoredMessages' <=> Kept(store', m)
  BY DEF StoredMessages, Kept
<1>2. Msgs' = Msgs  BY DEF Msgs
<1>3. SUFFICES ASSUME NEW m \in Msgs, made[m].pid \notin mixed'
               PROVE  m \in Range(delivered') \/ m \in dropped' \/ Kept(store', m)
  BY <1>1, <1>2 DEF NothingForgotten
<1>4. m \in Range(delivered) \/ m \in dropped \/ Kept(store, m)
  BY <1>3, StoredKept DEF NothingForgotten
<1>. QED  BY <1>3, <1>4

LEMMA DeliveredGrows ==
    ASSUME Basic, BrokerReads
    PROVE  Range(delivered) \subseteq Range(delivered')
<1>1. CASE Head(up).type \in OwnUp
  <2>1. PICK p : p = Head(up)
    OBVIOUS
  <2>2. /\ delivered \in Seq(1..MaxMsgs)
        /\ delivered' = delivered \/ delivered' = Append(delivered, p.m)
    BY <1>1, <2>1, DeliveredBy
  <2>3. Range(Append(delivered, p.m)) = Range(delivered) \cup {p.m}  BY <2>2, RangeAppend
  <2>4. CASE delivered' = delivered  BY <2>4
  <2>5. CASE delivered' = Append(delivered, p.m)  BY <2>3, <2>5
  <2>. QED  BY <2>2, <2>4, <2>5
<1>2. CASE Head(up).type \notin OwnUp
  <2>1. delivered' = delivered  BY <1>2 DEF BrokerReads, OwnUp
  <2>. QED  BY <2>1
<1>. QED  BY <1>1, <1>2

LEMMA ErasedKept ==
    ASSUME TypeOK, NEW pid, NEW expect, NEW m, Kept(store, m)
    PROVE  \/ Kept(Erased(pid, expect), m)
           \/ \E i \in DOMAIN store : /\ store[i].pid = pid /\ store[i].expect = expect
                                      /\ store[i].packet.type = "publish" /\ store[i].packet.m = m
<1>1. store \in Seq(Entries)  BY DEF TypeOK
<1>2. PICK n \in DOMAIN store : store[n].packet.type = "publish" /\ store[n].packet.m = m
  BY DEF Kept
<1>3. CASE Erased(pid, expect) = store  BY <1>3
<1>4. ASSUME NEW i \in DOMAIN store, store[i].pid = pid, store[i].expect = expect,
             Erased(pid, expect) = Without(store, i), i # n
      PROVE  Kept(Erased(pid, expect), m)
  <2>1. PICK k \in DOMAIN Without(store, i) : Without(store, i)[k] = store[n]
    BY <1>1, <1>4, WithoutEffect
  <2>. QED  BY <1>2, <1>4, <2>1 DEF Kept
<1>. QED  BY <1>1, <1>2, <1>3, <1>4, ErasedIs

LEMMA PublishForgets ==
    ASSUME Basic, IdsInv, NothingForgotten, NEW qos \in Qos, DoPublish(qos)
    PROVE  NothingForgotten'
<1>0. PICK m : m = Len(made) + 1
  OBVIOUS
<1>1. PICK pid \in free :
         /\ MixesWith(pid) /\ made' = Append(made, [qos |-> qos, pid |-> pid])
         /\ store' = Stored(Entry(pid, Awaited(qos), Publish(pid, qos, m)))
  BY <1>0 DEF DoPublish
<1>2. PICK e : e = Entry(pid, Awaited(qos), Publish(pid, qos, m))
  OBVIOUS
<1>3. UNCHANGED <<delivered, dropped>>  BY DEF DoPublish, brokerVars
<1>4. TypeOK  BY DEF Basic
<1>5. /\ store' = IF IsStored(pid, e.expect) THEN store ELSE Append(store, e)
      /\ e.packet.type = "publish" /\ e.packet.m = m /\ e.pid = pid /\ store \in Seq(Entries)
  BY <1>1, <1>2, <1>4 DEF Entry, Stored, Publish, TypeOK
<1>6. /\ made \in Seq([qos : {1, 2}, pid : Ids]) /\ Msgs = DOMAIN made
      /\ Msgs' = Msgs \cup {m} /\ m \notin Msgs
      /\ made'[m].pid = pid /\ \A k \in Msgs : made'[k] = made[k]
  <2>1. made \in Seq([qos : {1, 2}, pid : Ids])  BY <1>4 DEF TypeOK
  <2>2. PICK r : r = [qos |-> qos, pid |-> pid]
    OBVIOUS
  <2>3. /\ Len(made') = Len(made) + 1 /\ Len(made) \in Nat /\ DOMAIN made = 1..Len(made)
        /\ made'[m] = r /\ \A k \in Msgs : made'[k] = made[k]
    BY <1>0, <1>1, <2>1, <2>2 DEF Msgs
  <2>. QED  BY <1>0, <2>1, <2>2, <2>3 DEF Msgs
<1>7. mixed \subseteq mixed'  BY <1>1 DEF MixesWith
<1>8. \A k : k \in StoredMessages' <=> Kept(store', k)
  BY DEF StoredMessages, Kept
<1>9. \A k : Kept(store, k) => Kept(store', k)
  <2>1. \A n \in DOMAIN store : n \in DOMAIN store' /\ store'[n] = store[n]
    BY <1>5
  <2>. QED  BY <2>1 DEF Kept
<1>10. ASSUME NEW k \in Msgs, made'[k].pid \notin mixed'
       PROVE  k \in Range(delivered') \/ k \in dropped' \/ Kept(store', k)
  <2>1. k \in Range(delivered) \/ k \in dropped \/ Kept(store, k)
    BY <1>6, <1>7, <1>10, StoredKept DEF NothingForgotten
  <2>. QED  BY <1>3, <1>9, <2>1
<1>11. ASSUME pid \notin mixed'
       PROVE  Kept(store', m)
  <2>1. NoEntry(store, pid)  BY <1>1, <1>11, AcquiredUnused
  <2>2. ~IsStored(pid, e.expect)  BY <2>1 DEF IsStored, NoEntry
  <2>3. PICK n : n = Len(store) + 1
    OBVIOUS
  <2>4. n \in DOMAIN store' /\ store'[n] = e  BY <1>5, <2>2, <2>3
  <2>. QED  BY <1>5, <2>4 DEF Kept
<1>. QED  BY <1>6, <1>8, <1>10, <1>11 DEF NothingForgotten

LEMMA ConnackForgets ==
    ASSUME Basic, NothingForgotten, ProcessConnack
    PROVE  NothingForgotten'
<1>1. UNCHANGED <<made, mixed, delivered>>  BY DEF ProcessConnack, brokerVars, forkVars
<1>2. CASE UNCHANGED <<store, dropped>>
  BY <1>1, <1>2, ForgottenFrame
<1>3. CASE dropped' = dropped \cup StoredMessages
  BY <1>1, <1>3, StoredKept, ForgottenFrame
<1>. QED  BY <1>2, <1>3 DEF ProcessConnack

LEMMA SettlesForgets ==
    ASSUME Basic, IdsInv, DeliveryInv, NothingForgotten, ProcessPuback \/ ProcessPubrec \/ ProcessPubcomp
    PROVE  NothingForgotten'
<1>1. TypeOK /\ Phases /\ StoreMade  BY DEF Basic
<1>2. PICK pid : pid = Head(down).pid
  OBVIOUS
<1>3. PICK type \in {"puback", "pubrec", "pubcomp"} :
         /\ Receives(type)
         /\ \/ store' = Erased(pid, type)
            \/ store' = Append(Erased(pid, type), Entry(pid, "pubcomp", Packet("pubrel", pid)))
  <2>1. CASE ProcessPuback  BY <1>2, <2>1 DEF ProcessPuback
  <2>2. CASE ProcessPubcomp  BY <1>2, <2>2 DEF ProcessPubcomp
  <2>3. CASE ProcessPubrec  BY <1>2, <2>3 DEF ProcessPubrec, PubrelStored
  <2>. QED  BY <2>1, <2>2, <2>3
<1>4. UNCHANGED <<made, mixed, delivered, dropped>>
  BY DEF ProcessPuback, ProcessPubcomp, ProcessPubrec, forkVars, brokerVars, historyVars
<1>5. 1 \in DOMAIN down /\ down[1].type = type /\ down[1].pid = pid
  BY <1>1, <1>2, <1>3, ReceivesIs
<1>6. \A m : Kept(Erased(pid, type), m) => Kept(store', m)
  <2>1. Erased(pid, type) \in Seq(Entries)  BY <1>1, ErasedMade
  <2>2. PICK s : s = Erased(pid, type)
    OBVIOUS
  <2>3. \A n \in DOMAIN s : n \in DOMAIN store' /\ store'[n] = s[n]
    BY <1>3, <2>1, <2>2
  <2>. QED  BY <2>2, <2>3 DEF Kept
<1>7. ASSUME NEW m \in Msgs, Kept(store, m), made[m].pid \notin mixed', ~Kept(store', m)
      PROVE  m \in Range(delivered')
  <2>1. PICK i \in DOMAIN store : /\ store[i].pid = pid /\ store[i].expect = type
                                  /\ store[i].packet.type = "publish" /\ store[i].packet.m = m
    BY <1>1, <1>6, <1>7, ErasedKept
  <2>2. /\ made[m].pid = pid /\ type # "pubcomp"
    <3>1. made[m] = [qos |-> store[i].packet.qos, pid |-> store[i].pid]
          /\ store[i].expect = Awaited(store[i].packet.qos)
      BY <1>1, <2>1, EntryKinds
    <3>. QED  BY <2>1, <3>1 DEF Awaited
  <2>3. pid \notin mixed  BY <1>4, <1>7, <2>2
  <2>4. /\ pid \in Ids /\ IdKept(pid)
    BY <1>2, <1>3, <2>3, ReadOwn DEF OwnDown
  <2>5. DeliveryKept(pid)  BY <2>3, <2>4 DEF DeliveryInv
  <2>6. pid \notin free /\ OneEntry(store, pid)
    BY <2>1, <2>4 DEF IdKept, FreeUnused, OneExchange, NoEntry
  <2>7. StoredDelivered(pid, type)
    BY <1>5, <2>2, <2>5, <2>6 DEF DeliveryKept, AckedDelivered
  <2>8. store[i].packet.m \in Range(delivered)
    BY <2>1, <2>6, <2>7 DEF StoredDelivered, OneEntry
  <2>. QED  BY <1>4, <2>1, <2>8
<1>. QED  BY <1>4, <1>7, ForgottenFrame

LEMMA NextForgets ==
    ASSUME Basic, IdsInv, DeliveryInv, NothingForgotten, [Next]_vars
    PROVE  NothingForgotten'
<1>1. CASE UNCHANGED <<store, made, dropped>> /\ mixed \subseteq mixed' /\ Range(delivered) \subseteq Range(delivered')
  BY <1>1, ForgottenFrame
<1>2. CASE BrokerReads
  <2>1. UNCHANGED <<store, made, dropped, mixed>>
    BY <1>2 DEF BrokerReads, endpointVars, forkVars
  <2>2. mixed \subseteq mixed'  BY <2>1
  <2>. QED  BY <1>1, <1>2, <2>1, <2>2, DeliveredGrows
<1>3. CASE \/ \E qos \in Qos : BrokerPublishes(qos)
           \/ Forks \/ (\E n \in DOMAIN forks : ForkPublishes(n)) \/ DoSubscribe \/ Connect \/ HandleError
           \/ ProcessPublish \/ ProcessPubrel \/ ProcessSuback \/ Break \/ BrokerForgets \/ UNCHANGED vars
  <2>1. UNCHANGED <<store, made, dropped, delivered>> /\ mixed \subseteq mixed'
    BY <1>3 DEF BrokerPublishes, Forks, ForkPublishes, DoSubscribe, MixesWith, Connect, HandleError,
                ProcessPublish, ProcessPubrel, ProcessSuback, Break, BrokerForgets, vars,
                endpointVars, brokerVars, forkVars, historyVars
  <2>2. Range(delivered) \subseteq Range(delivered')  BY <2>1
  <2>. QED  BY <1>1, <2>1, <2>2
<1>4. CASE (\E qos \in Qos : DoPublish(qos)) \/ ProcessConnack \/ ProcessPuback \/ ProcessPubrec \/ ProcessPubcomp
  BY <1>4, PublishForgets, ConnackForgets, SettlesForgets
<1>. QED  BY <1>2, <1>3, <1>4 DEF Next, ProcessPacket

(* NothingForgotten, about the store of unacknowledged publishes and what  *)
(* process_puback, process_pubrec and process_connack take out of it: for  *)
(* any number of ids, publishes, connections and sessions.                 *)
THEOREM NothingIsForgotten == UsersWait => (Spec => []NothingForgotten)
<1>1. SUFFICES ASSUME UsersWait PROVE Spec => []NothingForgotten
  OBVIOUS
<1>2. Init => Basic /\ SessionInv /\ IdsInv /\ DeliveryInv
  BY InitBasic, InitSession, InitIds, InitDelivery
<1>3. Init => NothingForgotten
  BY DEF Init, NothingForgotten, Msgs
<1>4. Basic /\ SessionInv /\ IdsInv /\ DeliveryInv /\ [Next]_vars => (Basic /\ SessionInv /\ IdsInv /\ DeliveryInv)'
  BY <1>1, NextBasic, NextSession, NextIds, NextDelivery
<1>5. Basic /\ IdsInv /\ DeliveryInv /\ NothingForgotten /\ [Next]_vars => NothingForgotten'
  BY NextForgets
<1>. QED  BY <1>2, <1>3, <1>4, <1>5, PTL DEF Spec

----------------------------------------------------------------------------
(* A QoS 2 publish is delivered once: the broker knows those it has as     *)
(* long as they can come again.                                            *)
LEMMA OnceFrame ==
    ASSUME Basic, DeliveredOnce, delivered' = delivered, Grows(made', made),
           mixed \subseteq mixed', orphaned \subseteq orphaned'
    PROVE  DeliveredOnce'
<1>1. \A n \in DOMAIN delivered : made'[delivered[n]] = made[delivered[n]]
  <2>1. made \in Seq([qos : {1, 2}, pid : Ids])  BY DEF Basic, TypeOK
  <2>2. DOMAIN made = Msgs  BY <2>1 DEF Msgs
  <2>. QED  BY <2>2 DEF Basic, DeliveredMade, Grows
<1>. QED  BY <1>1 DEF DeliveredOnce

LEMMA ReadsOnce ==
    ASSUME Basic, IdsInv, DeliveryInv, DeliveredOnce, BrokerReads
    PROVE  DeliveredOnce'
<1>1. TypeOK /\ UpMade  BY DEF Basic
<1>2. UNCHANGED <<made, mixed>> /\ orphaned \subseteq orphaned'
  BY DEF BrokerReads, Discards, forkVars
<1>3. CASE delivered' = delivered
  BY <1>2, <1>3, OnceFrame DEF Grows
<1>4. CASE delivered' # delivered
  <2>1. PICK p : p = Head(up)
    OBVIOUS
  <2>2. p.type \in OwnUp  BY <1>4, <2>1 DEF BrokerReads, OwnUp
  <2>3. p = up[1] /\ 1 \in DOMAIN up /\ p \in Packets
    BY <2>1, <2>2, AnswersOwn
  <2>4. /\ delivered \in Seq(1..MaxMsgs) /\ delivered' = Append(delivered, p.m)
        /\ p.type = "publish" /\ (p.qos = 2 => p.pid \notin received)
    BY <1>4, <2>1, <2>2, DeliveredBy
  <2>5. made[p.m].qos = p.qos /\ made[p.m].pid = p.pid /\ p.pid \in Ids /\ p.qos \in {1, 2}
    <3>1. made[p.m] = [qos |-> p.qos, pid |-> p.pid]
      BY <1>1, <2>3, <2>4 DEF UpMade, AllMade, MadeAs
    <3>. QED  BY <2>3, <2>4, <3>1, PacketFields
  <2>6. ASSUME p.m \in Range(delivered)
        PROVE  made[p.m].qos = 1 \/ p.m \in orphaned \/ made[p.m].pid \in mixed
    <3>1. SUFFICES ASSUME p.qos = 2, p.pid \notin mixed PROVE p.m \in orphaned
      BY <2>5
    <3>2. PICK k \in DOMAIN store : store[k].pid = p.pid /\ store[k].packet = p /\ store[k].expect = "pubrec"
      BY <2>2, <2>3, <2>4, <3>1, AskedFor DEF Awaited
    <3>3. DeliveryKept(p.pid)  BY <2>5, <3>1 DEF DeliveryInv
    <3>. QED  BY <2>4, <2>6, <3>1, <3>2, <3>3 DEF DeliveryKept, DeliveredKnown
  <2>7. /\ DOMAIN delivered = 1..Len(delivered) /\ DOMAIN delivered' = 1..(Len(delivered) + 1)
        /\ Len(delivered) \in Nat /\ delivered'[Len(delivered) + 1] = p.m
        /\ \A n \in DOMAIN delivered : delivered'[n] = delivered[n]
    BY <2>4
  <2>8. SUFFICES ASSUME NEW i \in DOMAIN delivered', NEW j \in DOMAIN delivered', i < j,
                        delivered'[i] = delivered'[j]
                 PROVE  \/ made[delivered'[i]].qos = 1 \/ delivered'[i] \in orphaned
                        \/ made[delivered'[i]].pid \in mixed
    BY <1>2, <2>7 DEF DeliveredOnce
  <2>9. CASE j \in DOMAIN delivered
    <3>1. i \in DOMAIN delivered /\ i # j  BY <2>7, <2>8, <2>9
    <3>. QED  BY <2>7, <2>8, <2>9, <3>1 DEF DeliveredOnce
  <2>10. CASE j \notin DOMAIN delivered
    <3>1. j = Len(delivered) + 1 /\ i \in DOMAIN delivered  BY <2>7, <2>8, <2>10
    <3>2. delivered[i] = p.m  BY <2>7, <2>8, <3>1
    <3>3. p.m \in Range(delivered)  BY <3>1, <3>2 DEF Range
    <3>. QED  BY <2>6, <2>7, <3>1, <3>2, <3>3
  <2>. QED  BY <2>9, <2>10
<1>. QED  BY <1>3, <1>4

LEMMA MadeGrows ==
    ASSUME Basic, [Next]_vars
    PROVE  Grows(made', made) /\ mixed \subseteq mixed'
<1>1. CASE made' = made /\ mixed \subseteq mixed'  BY <1>1 DEF Grows
<1>2. ASSUME NEW qos \in Qos, DoPublish(qos)
      PROVE  Grows(made', made) /\ mixed \subseteq mixed'
  <2>1. made \in Seq([qos : {1, 2}, pid : Ids])  BY DEF Basic, TypeOK
  <2>2. PICK pid : made' = Append(made, [qos |-> qos, pid |-> pid])  BY <1>2 DEF DoPublish
  <2>3. mixed \subseteq mixed'  BY <1>2 DEF DoPublish, MixesWith
  <2>. QED  BY <2>1, <2>2, <2>3, GrowsAppend
<1>3. CASE \/ \E qos \in Qos : BrokerPublishes(qos)
           \/ Forks \/ (\E n \in DOMAIN forks : ForkPublishes(n)) \/ DoSubscribe \/ Connect \/ HandleError
           \/ ProcessPacket \/ BrokerReads \/ Break \/ BrokerForgets \/ UNCHANGED vars
  <2>1. made' = made /\ mixed \subseteq mixed'
    BY <1>3 DEF BrokerPublishes, Forks, ForkPublishes, DoSubscribe, MixesWith, Connect, HandleError,
                ProcessPacket, ProcessPublish, ProcessPubrel, ProcessConnack, ProcessPuback, ProcessPubrec,
                ProcessPubcomp, ProcessSuback, BrokerReads, Break, BrokerForgets, vars, historyVars, forkVars
  <2>. QED  BY <1>1, <2>1
<1>. QED  BY <1>2, <1>3 DEF Next

LEMMA NextOnce ==
    ASSUME Basic, IdsInv, DeliveryInv, DeliveredOnce, [Next]_vars
    PROVE  DeliveredOnce'
<1>1. CASE BrokerReads  BY <1>1, ReadsOnce
<1>2. CASE ~BrokerReads
  <2>1. delivered' = delivered /\ orphaned \subseteq orphaned'
    BY <1>2 DEF Next, DoPublish, BrokerPublishes, Forks, ForkPublishes, DoSubscribe, Connect, HandleError,
                ProcessPacket, ProcessPublish, ProcessPubrel, ProcessConnack, ProcessPuback, ProcessPubrec,
                ProcessPubcomp, ProcessSuback, Break, BrokerForgets, Discards, vars, historyVars, brokerVars
  <2>. QED  BY <2>1, MadeGrows, OnceFrame
<1>. QED  BY <1>1, <1>2

(* DeliveredOnce, about process_pubrec, which stores the PUBREL in place   *)
(* of the publish, and what is resent on a new connection: for any number  *)
(* of ids, publishes, connections and sessions.                            *)
THEOREM QosTwoIsDeliveredOnce == UsersWait => (Spec => []DeliveredOnce)
<1>1. SUFFICES ASSUME UsersWait PROVE Spec => []DeliveredOnce
  OBVIOUS
<1>2. Init => Basic /\ SessionInv /\ IdsInv /\ DeliveryInv
  BY InitBasic, InitSession, InitIds, InitDelivery
<1>3. Init => DeliveredOnce
  BY DEF Init, DeliveredOnce
<1>4. Basic /\ SessionInv /\ IdsInv /\ DeliveryInv /\ [Next]_vars => (Basic /\ SessionInv /\ IdsInv /\ DeliveryInv)'
  BY <1>1, NextBasic, NextSession, NextIds, NextDelivery
<1>5. Basic /\ IdsInv /\ DeliveryInv /\ DeliveredOnce /\ [Next]_vars => DeliveredOnce'
  BY NextOnce
<1>. QED  BY <1>2, <1>3, <1>4, <1>5, PTL DEF Spec

----------------------------------------------------------------------------
(* The order of deliveries.  Publishes are stored and sent in the order    *)
(* they were made; one that the broker does not have yet is on its way on  *)
(* every connection, and was made after all that the broker has.           *)
Rising(ps) ==
    \A i, j \in DOMAIN ps :
        i < j /\ ps[i].type = "publish" /\ ps[j].type = "publish" => ps[i].m < ps[j].m
EntriesRising(es) ==
    \A i, j \in DOMAIN es :
        i < j /\ es[i].packet.type = "publish" /\ es[j].packet.type = "publish"
            => es[i].packet.m < es[j].packet.m

Waiting(e) == /\ e.packet.type = "publish" /\ e.pid \notin mixed
              /\ e.packet.m \notin Range(delivered)
WaitsBehind ==
    \A n \in DOMAIN store : Waiting(store[n]) =>
        \A i \in DOMAIN delivered : delivered[i] < store[n].packet.m
OnItsWay ==
    link /\ conn = "on" => \A n \in DOMAIN store : Waiting(store[n]) =>
        \E k \in DOMAIN up : up[k] = store[n].packet

OrderInv == EntriesRising(store) /\ Rising(up) /\ WaitsBehind /\ OnItsWay

LEMMA RisingKept ==
    ASSUME NEW t, NEW s \in Seq(Packets), NEW d, NEW w, Follows(t, s, d, w), Rising(s),
           \A n \in DOMAIN w : w[n].type # "publish"
    PROVE  Rising(t)
<1>1. t \in Seq(Packets) /\ d \in Nat /\ Len(s) \in Nat  BY DEF Follows
<1>2. SUFFICES ASSUME NEW i \in DOMAIN t, NEW j \in DOMAIN t, i < j, t[i].type = "publish", t[j].type = "publish"
               PROVE  t[i].m < t[j].m
  BY DEF Rising
<1>3. i + d \in DOMAIN s /\ t[i] = s[i + d] /\ j + d \in DOMAIN s /\ t[j] = s[j + d]
  BY <1>2 DEF Follows
<1>4. i + d < j + d  BY <1>1, <1>2
<1>. QED  BY <1>2, <1>3, <1>4 DEF Rising

LEMMA RisingMore ==
    ASSUME NEW t, NEW s \in Seq(Packets), NEW w, Follows(t, s, 0, w), Rising(s),
           NEW p, \A n \in DOMAIN w : n = 1 /\ w[n] = p,
           \A n \in DOMAIN s : s[n].type = "publish" => s[n].m < p.m
    PROVE  Rising(t)
<1>1. t \in Seq(Packets) /\ Len(s) \in Nat  BY DEF Follows
<1>2. SUFFICES ASSUME NEW i \in DOMAIN t, NEW j \in DOMAIN t, i < j, t[i].type = "publish", t[j].type = "publish"
               PROVE  t[i].m < t[j].m
  BY DEF Rising
<1>3. ASSUME NEW n \in DOMAIN t
      PROVE  (n \in DOMAIN s /\ t[n] = s[n]) \/ (n = Len(s) + 1 /\ t[n] = p)
  <2>1. n + 0 = n  BY <1>1
  <2>2. (n \in DOMAIN s /\ t[n] = s[n]) \/ (n - Len(s) \in DOMAIN w /\ t[n] = w[n - Len(s)])
    BY <1>3, <2>1 DEF Follows
  <2>. QED  BY <1>1, <2>2
<1>4. i \in DOMAIN s /\ t[i] = s[i]
  <2>1. \A n \in DOMAIN s : n <= Len(s)  OBVIOUS
  <2>. QED  BY <1>1, <1>2, <1>3, <2>1
<1>5. CASE j \in DOMAIN s /\ t[j] = s[j]  BY <1>2, <1>4, <1>5 DEF Rising
<1>6. CASE t[j] = p  BY <1>2, <1>4, <1>6
<1>. QED  BY <1>3, <1>5, <1>6

LEMMA EntriesRisingAppend ==
    ASSUME NEW s \in Seq(Entries), EntriesRising(s), NEW e,
           e.packet.type = "publish" =>
               \A n \in DOMAIN s : s[n].packet.type = "publish" => s[n].packet.m < e.packet.m
    PROVE  EntriesRising(Append(s, e))
<1>1. PICK t : t = Append(s, e)
  OBVIOUS
<1>2. /\ DOMAIN t = 1..(Len(s) + 1) /\ DOMAIN s = 1..Len(s) /\ Len(s) \in Nat
      /\ t[Len(s) + 1] = e /\ \A n \in DOMAIN s : t[n] = s[n]
  BY <1>1
<1>3. SUFFICES ASSUME NEW i \in DOMAIN t, NEW j \in DOMAIN t, i < j,
                      t[i].packet.type = "publish", t[j].packet.type = "publish"
               PROVE  t[i].packet.m < t[j].packet.m
  BY <1>1 DEF EntriesRising
<1>4. i \in DOMAIN s /\ t[i] = s[i]  BY <1>2, <1>3
<1>5. CASE j \in DOMAIN s
  <2>1. t[j] = s[j]  BY <1>2, <1>5
  <2>. QED  BY <1>3, <1>4, <1>5, <2>1 DEF EntriesRising
<1>6. CASE j \notin DOMAIN s
  <2>1. t[j] = e  BY <1>2, <1>6
  <2>. QED  BY <1>3, <1>4, <2>1
<1>. QED  BY <1>5, <1>6

LEMMA EntriesRisingWithout ==
    ASSUME NEW s \in Seq(Entries), EntriesRising(s), NEW k \in DOMAIN s
    PROVE  EntriesRising(Without(s, k))
<1>. DEFINE At(n) == IF n < k THEN n ELSE n + 1
<1>1. PICK t : t = Without(s, k)
  OBVIOUS
<1>2. DOMAIN t = 1..(Len(s) - 1) /\ Len(s) \in Nat /\ DOMAIN s = 1..Len(s) /\ k \in Nat
  BY <1>1 DEF Without
<1>3. \A n \in DOMAIN t : At(n) \in DOMAIN s /\ t[n] = s[At(n)]
  BY <1>1, <1>2 DEF Without
<1>4. \A m, n \in DOMAIN t : m < n => At(m) < At(n)
  BY <1>2
<1>. HIDE DEF At
<1>5. EntriesRising(t)  BY <1>3, <1>4 DEF EntriesRising
<1>. QED  BY <1>1, <1>5

LEMMA ErasedRising ==
    ASSUME TypeOK, EntriesRising(store), NEW pid, NEW expect
    PROVE  /\ EntriesRising(Erased(pid, expect))
           /\ \A n \in DOMAIN Erased(pid, expect) :
                 \E k \in DOMAIN store : store[k] = Erased(pid, expect)[n]
<1>1. store \in Seq(Entries)  BY DEF TypeOK
<1>2. CASE Erased(pid, expect) = store  BY <1>2
<1>3. ASSUME NEW i \in DOMAIN store, Erased(pid, expect) = Without(store, i)
      PROVE  /\ EntriesRising(Erased(pid, expect))
             /\ \A n \in DOMAIN Erased(pid, expect) :
                   \E k \in DOMAIN store : store[k] = Erased(pid, expect)[n]
  <2>1. EntriesRising(Without(store, i))  BY <1>1, EntriesRisingWithout
  <2>2. \A n \in DOMAIN Without(store, i) : \E k \in DOMAIN store : store[k] = Without(store, i)[n]
    BY <1>1, WithoutEffect
  <2>. QED  BY <1>3, <2>1, <2>2
<1>. QED  BY <1>1, <1>2, <1>3, ErasedIs

(* Steps that store no publish and deliver none. *)
LEMMA OrderFrame ==
    ASSUME Basic, OrderInv, NEW d, NEW w, Follows(up', up, d, w), \A n \in DOMAIN w : w[n].type # "publish",
           EntriesRising(store'),
           \A n \in DOMAIN store' : store'[n].packet.type = "publish" =>
               \E k \in DOMAIN store : store[k] = store'[n],
           delivered' = delivered, mixed \subseteq mixed',
           link' /\ conn' = "on" =>
               /\ link /\ conn = "on"
               /\ \A k \in DOMAIN up : up[k].type = "publish" => \E l \in DOMAIN up' : up'[l] = up[k]
    PROVE  OrderInv'
<1>1. up \in Seq(Packets)  BY DEF Basic, TypeOK
<1>2. Rising(up')  BY <1>1, RisingKept DEF OrderInv
<1>3. ASSUME NEW n \in DOMAIN store', Waiting(store[n])'
      PROVE  \E k \in DOMAIN store : store[k] = store'[n] /\ Waiting(store[k])
  BY <1>3 DEF Waiting
<1>4. WaitsBehind'
  BY <1>3 DEF OrderInv, WaitsBehind
<1>5. OnItsWay'
  <2>1. SUFFICES ASSUME link', conn' = "on", NEW n \in DOMAIN store', Waiting(store[n])'
                 PROVE  \E l \in DOMAIN up' : up'[l] = store'[n].packet
    BY DEF OnItsWay
  <2>2. PICK k \in DOMAIN store : store[k] = store'[n] /\ Waiting(store[k])
    BY <1>3, <2>1
  <2>3. PICK i \in DOMAIN up : up[i] = store[k].packet
    BY <2>1, <2>2 DEF OrderInv, OnItsWay
  <2>. QED  BY <2>1, <2>2, <2>3 DEF Waiting
<1>. QED  BY <1>2, <1>4, <1>5 DEF OrderInv

LEMMA WrittenKeeps ==
    ASSUME TypeOK, NEW p \in Packets, up' = Written(<<p>>)
    PROVE  /\ \A k \in DOMAIN up : k \in DOMAIN up' /\ up'[k] = up[k]
           /\ link /\ conn # "off" => Len(up) + 1 \in DOMAIN up' /\ up'[Len(up) + 1] = p
<1>1. up \in Seq(Packets)  BY DEF TypeOK
<1>2. PICK w : w = <<p>>
  OBVIOUS
<1>3. up \o w = Append(up, p)  BY <1>1, <1>2
<1>4. up' = IF conn # "off" /\ link THEN Append(up, p) ELSE up
  BY <1>2, <1>3 DEF Written
<1>. QED  BY <1>1, <1>4

(* Steps that write one packet, not a publish, or none. *)
LEMMA WritesOrder ==
    ASSUME Basic, OrderInv, NEW p \in Packets, p.type # "publish",
           up' = Written(<<p>>) \/ up' = Append(up, p) \/ up' = up,
           EntriesRising(store'),
           \A n \in DOMAIN store' : store'[n].packet.type = "publish" =>
               \E k \in DOMAIN store : store[k] = store'[n],
           delivered' = delivered, mixed \subseteq mixed',
           link' /\ conn' = "on" => link /\ conn = "on"
    PROVE  OrderInv'
<1>1. TypeOK  BY DEF Basic
<1>2. up \in Seq(Packets)  BY <1>1 DEF TypeOK
<1>3. PICK w : Follows(up', up, 0, w) /\ \A n \in DOMAIN w : w[n] = p
  <2>1. CASE up' = Written(<<p>>)  BY <1>1, <2>1, OneWritten
  <2>2. CASE up' = Append(up, p)
    <3>1. PICK w : w = <<p>>
      OBVIOUS
    <3>2. \A n \in DOMAIN w : w[n] = p  BY <3>1
    <3>3. Follows(up', up, 0, w)  BY <1>2, <2>2, <3>1, FollowsAppend
    <3>. QED  BY <3>2, <3>3
  <2>3. CASE up' = up
    <3>1. PICK w : w = <<>> /\ \A n \in DOMAIN w : FALSE
      OBVIOUS
    <3>2. Follows(up', up, 0, w)  BY <1>2, <2>3, <3>1, FollowsSame
    <3>. QED  BY <3>1, <3>2
  <2>. QED  BY <2>1, <2>2, <2>3
<1>4. \A k \in DOMAIN up : k \in DOMAIN up' /\ up'[k] = up[k]
  <2>1. CASE up' = Written(<<p>>)  BY <1>1, <2>1, WrittenKeeps
  <2>2. CASE up' = Append(up, p)  BY <1>2, <2>2
  <2>3. CASE up' = up  BY <2>3
  <2>. QED  BY <2>1, <2>2, <2>3
<1>5. \A n \in DOMAIN w : w[n].type # "publish"  BY <1>3
<1>6. \A k \in DOMAIN up : up[k].type = "publish" => \E l \in DOMAIN up' : up'[l] = up[k]
  BY <1>4
<1>. QED  BY <1>3, <1>5, <1>6, OrderFrame

LEMMA SubscribeOrder ==
    ASSUME Basic, OrderInv, DoSubscribe
    PROVE  OrderInv'
<1>1. TypeOK  BY DEF Basic
<1>2. PICK pid \in free : MixesWith(pid) /\ up' = Written(<<Packet("subscribe", pid)>>)
  BY DEF DoSubscribe
<1>3. PICK p : p = Packet("subscribe", pid)
  OBVIOUS
<1>4. p \in Packets /\ p.type # "publish"
  BY <1>1, <1>3, PacketIs DEF TypeOK, Packet
<1>5. UNCHANGED <<store, delivered, link, conn>> /\ mixed \subseteq mixed'
  BY <1>2 DEF DoSubscribe, brokerVars, MixesWith
<1>6. EntriesRising(store')  BY <1>5 DEF OrderInv
<1>. QED  BY <1>2, <1>3, <1>4, <1>5, <1>6, WritesOrder

LEMMA ForkPublishesOrder ==
    ASSUME Basic, OrderInv, NEW n \in DOMAIN forks, ForkPublishes(n)
    PROVE  OrderInv'
<1>1. TypeOK  BY DEF Basic
<1>2. PICK pid \in forks[n] : /\ up' = Append(up, Packet("forked", pid))
                              /\ mixed' = IF pid \in free THEN mixed ELSE mixed \cup {pid}
  BY DEF ForkPublishes
<1>3. PICK p : p = Packet("forked", pid)
  OBVIOUS
<1>4. p \in Packets /\ p.type # "publish"
  <2>1. forks \in Seq(SUBSET Ids)  BY <1>1 DEF TypeOK
  <2>2. pid \in Ids  BY <2>1
  <2>. QED  BY <1>3, <2>2, PacketIs DEF Packet
<1>5. UNCHANGED <<store, delivered, link, conn>> /\ mixed \subseteq mixed'
  BY <1>2 DEF ForkPublishes, brokerVars, endpointVars
<1>6. EntriesRising(store')  BY <1>5 DEF OrderInv
<1>. QED  BY <1>2, <1>3, <1>4, <1>5, <1>6, WritesOrder

(* Steps that only receive, or write what acknowledges a publish. *)
LEMMA HandlersOrder ==
    ASSUME Basic, OrderInv, ProcessPublish \/ ProcessPubrel \/ ProcessSuback
    PROVE  OrderInv'
<1>1. TypeOK /\ Phases  BY DEF Basic
<1>2. PICK type \in {"publish", "pubrel", "suback"} : Receives(type)
  BY DEF ProcessPublish, ProcessPubrel, ProcessSuback
<1>3. Head(down) \in Packets /\ Head(down).type = type  BY <1>1, <1>2, ReceivesIs
<1>4. Head(down).pid \in Ids /\ (Head(down).type = "publish" => Head(down).qos \in {1, 2})
  BY <1>2, <1>3, PacketFields
<1>5. UNCHANGED <<store, delivered, link, conn, mixed>>
  BY DEF ProcessPublish, ProcessPubrel, ProcessSuback, endpointVars, brokerVars, forkVars
<1>6. PICK kind \in {"puback", "pubrec", "pubcomp"} :
         up' = Written(<<Packet(kind, Head(down).pid)>>) \/ up' = up
  <2>1. CASE ProcessPublish
    <3>1. Head(down).type = "publish"  BY <2>1 DEF ProcessPublish, Receives
    <3>2. Awaited(Head(down).qos) \in {"puback", "pubrec", "pubcomp"}  BY DEF Awaited
    <3>. QED  BY <2>1, <3>2 DEF ProcessPublish
  <2>2. CASE ProcessPubrel  BY <2>2 DEF ProcessPubrel
  <2>3. CASE ProcessSuback  BY <2>3 DEF ProcessSuback
  <2>. QED  BY <2>1, <2>2, <2>3
<1>7. PICK p : p = Packet(kind, Head(down).pid)
  OBVIOUS
<1>8. p \in Packets /\ p.type # "publish"
  BY <1>4, <1>7, PacketIs DEF Packet
<1>9. EntriesRising(store') /\ mixed \subseteq mixed'  BY <1>5 DEF OrderInv
<1>. QED  BY <1>5, <1>6, <1>7, <1>8, <1>9, WritesOrder

LEMMA SettlesOrder ==
    ASSUME Basic, OrderInv, ProcessPuback \/ ProcessPubrec \/ ProcessPubcomp
    PROVE  OrderInv'
<1>1. TypeOK /\ Phases /\ StoreMade  BY DEF Basic
<1>2. PICK pid : pid = Head(down).pid
  OBVIOUS
<1>3. PICK p : p = Packet("pubrel", pid)
  OBVIOUS
<1>4. PICK e : e = Entry(pid, "pubcomp", p)
  OBVIOUS
<1>5. PICK type \in {"puback", "pubrec", "pubcomp"} :
         /\ Receives(type)
         /\ store' = Erased(pid, type) \/ store' = Append(Erased(pid, type), e)
         /\ up' = up \/ up' = Written(<<p>>)
  <2>1. CASE ProcessPuback  BY <1>2, <2>1 DEF ProcessPuback
  <2>2. CASE ProcessPubcomp  BY <1>2, <2>2 DEF ProcessPubcomp
  <2>3. CASE ProcessPubrec  BY <1>2, <1>3, <1>4, <2>3 DEF ProcessPubrec, PubrelStored
  <2>. QED  BY <2>1, <2>2, <2>3
<1>6. UNCHANGED <<delivered, link, conn, mixed>>
  BY DEF ProcessPuback, ProcessPubcomp, ProcessPubrec, forkVars, brokerVars
<1>7. pid \in Ids
  BY <1>1, <1>2, <1>5, ReceivesIs, PacketFields
<1>8. p \in Packets /\ p.type # "publish" /\ e.packet = p
  BY <1>3, <1>4, <1>7, PacketIs DEF Packet, Entry
<1>9. PICK s : s = Erased(pid, type)
  OBVIOUS
<1>10. /\ s \in Seq(Entries) /\ EntriesRising(s)
       /\ \A n \in DOMAIN s : \E k \in DOMAIN store : store[k] = s[n]
  <2>1. EntriesRising(store)  BY DEF OrderInv
  <2>2. /\ EntriesRising(Erased(pid, type))
        /\ \A n \in DOMAIN Erased(pid, type) : \E k \in DOMAIN store : store[k] = Erased(pid, type)[n]
    BY <1>1, <2>1, ErasedRising
  <2>3. Erased(pid, type) \in Seq(Entries)  BY <1>1, ErasedMade
  <2>. QED  BY <1>9, <2>2, <2>3
<1>11. EntriesRising(store')
  BY <1>5, <1>8, <1>9, <1>10, EntriesRisingAppend
<1>12. \A n \in DOMAIN store' : store'[n].packet.type = "publish" => n \in DOMAIN s /\ store'[n] = s[n]
  <2>1. \A n \in DOMAIN store' : (n \in DOMAIN s /\ store'[n] = s[n]) \/ store'[n] = e
    BY <1>5, <1>9, <1>10
  <2>. QED  BY <1>8, <2>1
<1>13. \A n \in DOMAIN store' : store'[n].packet.type = "publish" =>
           \E k \in DOMAIN store : store[k] = store'[n]
  BY <1>10, <1>12
<1>14. mixed \subseteq mixed'  BY <1>6
<1>. QED  BY <1>5, <1>6, <1>8, <1>11, <1>13, <1>14, WritesOrder

(* Steps that touch neither the store nor what is delivered. *)
LEMMA QuietOrder ==
    ASSUME Basic, OrderInv,
           \/ \E qos \in Qos : BrokerPublishes(qos)
           \/ Forks \/ Connect \/ HandleError \/ Break \/ BrokerForgets \/ UNCHANGED vars
    PROVE  OrderInv'
<1>1. TypeOK /\ Phases  BY DEF Basic
<1>2. up \in Seq(Packets)  BY <1>1 DEF TypeOK
<1>3. UNCHANGED <<store, delivered, mixed>>
  BY DEF BrokerPublishes, Forks, Connect, HandleError, Break, BrokerForgets, vars,
         endpointVars, brokerVars, forkVars
<1>4. EntriesRising(store') /\ mixed \subseteq mixed'  BY <1>3 DEF OrderInv
<1>5. PICK w : w = <<>> /\ \A n \in DOMAIN w : FALSE
  OBVIOUS
<1>6. CASE \/ \E qos \in Qos : BrokerPublishes(qos)
           \/ Forks \/ HandleError \/ BrokerForgets \/ UNCHANGED vars
  <2>1. up' = up /\ link' = link /\ (conn' = "on" => conn = "on")
    BY <1>6 DEF BrokerPublishes, Forks, HandleError, BrokerForgets, vars, endpointVars
  <2>2. Follows(up', up, 0, w)  BY <1>2, <1>5, <2>1, FollowsSame
  <2>. QED  BY <1>3, <1>4, <1>5, <2>1, <2>2, OrderFrame
<1>7. CASE Break
  <2>1. up' = <<>> /\ link' = FALSE  BY <1>7 DEF Break
  <2>2. Follows(up', up, 0, w)  BY <1>2, <1>5, <2>1, FollowsNone
  <2>. QED  BY <1>3, <1>4, <1>5, <2>1, <2>2, OrderFrame
<1>8. CASE Connect
  <2>1. PICK clean \in BOOLEAN : up' = <<[type |-> "connect", clean |-> clean]>>
    BY <1>8, ConstantsAssumption DEF Connect
  <2>2. PICK p : p = [type |-> "connect", clean |-> clean]
    OBVIOUS
  <2>3. p \in Packets /\ p.type # "publish"  BY <2>2, PacketIs
  <2>4. up = <<>> /\ conn' = "opening"  BY <1>1, <1>8 DEF Phases, Connect
  <2>5. up' = Append(up, p)  BY <2>1, <2>2, <2>4
  <2>. QED  BY <1>3, <1>4, <2>3, <2>4, <2>5, WritesOrder
<1>. QED  BY <1>6, <1>7, <1>8

LEMMA PublishOrder ==
    ASSUME Basic, OrderInv, NEW qos \in Qos, DoPublish(qos)
    PROVE  OrderInv'
<1>1. TypeOK /\ StoreMade /\ UpMade /\ DeliveredMade /\ Bounds  BY DEF Basic
<1>2. PICK m : m = Len(made) + 1
  OBVIOUS
<1>3. PICK pid \in free :
         /\ MixesWith(pid)
         /\ store' = Stored(Entry(pid, Awaited(qos), Publish(pid, qos, m)))
         /\ up' = Written(<<Publish(pid, qos, m)>>)
  BY <1>2 DEF DoPublish
<1>4. UNCHANGED <<delivered, link, conn>> /\ Len(made) < MaxMsgs /\ mixed \subseteq mixed'
  BY <1>3 DEF DoPublish, brokerVars, MixesWith
<1>5. PICK p : p = Publish(pid, qos, m)
  OBVIOUS
<1>6. PICK e : e = Entry(pid, Awaited(qos), p)
  OBVIOUS
<1>7. /\ made \in Seq([qos : {1, 2}, pid : Ids]) /\ m \in Nat
      /\ \A k \in DOMAIN made : k < m
  <2>1. made \in Seq([qos : {1, 2}, pid : Ids])  BY <1>1 DEF TypeOK
  <2>. QED  BY <1>2, <2>1
<1>8. p \in Packets /\ p.type = "publish" /\ p.m = m /\ e.packet = p /\ up \in Seq(Packets)
  <2>1. pid \in Ids /\ qos \in {1, 2} /\ m \in 1..(MaxMsgs + MaxIncoming)
    BY <1>1, <1>2, <1>3, <1>4, <1>7, ConstantsAssumption DEF TypeOK
  <2>. QED  BY <1>1, <1>5, <1>6, <2>1, PacketIs DEF Publish, Entry, TypeOK
<1>9. /\ store \in Seq(Entries)
      /\ store' = store \/ store' = Append(store, e)
  BY <1>1, <1>3, <1>5, <1>6 DEF Stored, TypeOK
<1>10. /\ \A n \in DOMAIN up : up[n].type = "publish" => up[n].m < m
       /\ \A n \in DOMAIN store : store[n].packet.type = "publish" => store[n].packet.m < m
       /\ \A n \in DOMAIN delivered : delivered[n] < m
  <2>1. \A n \in DOMAIN up : up[n].type = "publish" => up[n].m \in DOMAIN made
    BY <1>1 DEF UpMade, AllMade, MadeAs
  <2>2. ASSUME NEW n \in DOMAIN store, store[n].packet.type = "publish"
        PROVE  store[n].packet.m \in DOMAIN made
    BY <1>1, <2>2, EntryKinds
  <2>3. \A n \in DOMAIN delivered : delivered[n] \in DOMAIN made
    BY <1>1, <1>7 DEF DeliveredMade, Msgs
  <2>. QED  BY <1>7, <2>1, <2>2, <2>3
<1>11. Rising(up')
  <2>1. up' = Written(<<p>>)  BY <1>3, <1>5
  <2>2. PICK w : Follows(up', up, 0, w) /\ \A n \in DOMAIN w : n = 1 /\ w[n] = p
    BY <1>1, <1>8, <2>1, OneWritten
  <2>3. Rising(up)  BY DEF OrderInv
  <2>. QED  BY <1>8, <1>10, <2>2, <2>3, RisingMore
<1>12. EntriesRising(store')
  <2>1. EntriesRising(store)  BY DEF OrderInv
  <2>2. EntriesRising(Append(store, e))
    BY <1>8, <1>9, <1>10, <2>1, EntriesRisingAppend
  <2>. QED  BY <1>9, <2>1, <2>2
<1>13. ASSUME NEW n \in DOMAIN store', Waiting(store[n])'
       PROVE  store'[n] = e \/ (n \in DOMAIN store /\ store'[n] = store[n] /\ Waiting(store[n]))
  <2>1. (n \in DOMAIN store /\ store'[n] = store[n]) \/ store'[n] = e
    BY <1>9, <1>13
  <2>2. CASE n \in DOMAIN store /\ store'[n] = store[n]
    BY <1>4, <1>13, <2>2 DEF Waiting
  <2>. QED  BY <2>1, <2>2
<1>14. WaitsBehind'
  BY <1>4, <1>8, <1>10, <1>13 DEF OrderInv, WaitsBehind
<1>15. OnItsWay'
  <2>1. SUFFICES ASSUME link', conn' = "on", NEW n \in DOMAIN store', Waiting(store[n])'
                 PROVE  \E k \in DOMAIN up' : up'[k] = store'[n].packet
    BY DEF OnItsWay
  <2>2. up' = Written(<<p>>) /\ link /\ conn = "on"  BY <1>3, <1>4, <1>5, <2>1
  <2>3. /\ \A k \in DOMAIN up : k \in DOMAIN up' /\ up'[k] = up[k]
        /\ Len(up) + 1 \in DOMAIN up' /\ up'[Len(up) + 1] = p
    BY <1>1, <1>8, <2>2, WrittenKeeps
  <2>4. CASE store'[n] = e  BY <1>8, <2>3, <2>4
  <2>5. CASE n \in DOMAIN store /\ store'[n] = store[n] /\ Waiting(store[n])
    <3>1. PICK k \in DOMAIN up : up[k] = store[n].packet
      BY <2>2, <2>5 DEF OrderInv, OnItsWay
    <3>. QED  BY <2>3, <2>5, <3>1
  <2>. QED  BY <1>13, <2>1, <2>4, <2>5
<1>. QED  BY <1>11, <1>12, <1>14, <1>15 DEF OrderInv

LEMMA ConnackOrder ==
    ASSUME Basic, SessionInv, OrderInv, ProcessConnack
    PROVE  OrderInv'
<1>1. TypeOK /\ Phases /\ StoreMade  BY DEF Basic
<1>2. Receives("connack") /\ UNCHANGED <<delivered, mixed, link>>
  BY DEF ProcessConnack, brokerVars, forkVars
<1>3. conn = "opening" /\ up = <<>>
  <2>1. /\ conn # "off" /\ 1 \in DOMAIN down /\ down[1].type = "connack"
        /\ \A n \in DOMAIN up : up[n].type # "connect"
    BY <1>1, <1>2, ReceivesIs
  <2>2. conn = "opening"  BY <2>1 DEF SessionInv, DownOpening
  <2>3. up \in Seq(Packets) /\ DOMAIN up = {}  BY <1>1, <2>1, <2>2 DEF SessionInv, UpOpening, TypeOK
  <2>. QED  BY <2>2, <2>3
<1>4. CASE store' = <<>> /\ up' = up
  <2>1. /\ EntriesRising(store') /\ \A n \in DOMAIN store' : FALSE
    BY <1>4 DEF EntriesRising
  <2>2. Rising(up')  BY <1>4 DEF OrderInv
  <2>. QED  BY <2>1, <2>2 DEF OrderInv, WaitsBehind, OnItsWay
<1>5. CASE store' = store /\ up' = Written(Resent)
  <2>1. /\ Resent \in Seq(Packets) /\ DOMAIN Resent = DOMAIN store
        /\ \A n \in DOMAIN store : Resent[n] = store[n].packet
    BY <1>1, ResentIs
  <2>2. up' = IF link THEN Resent ELSE <<>>
    BY <1>3, <1>5, <2>1 DEF Written
  <2>3. Rising(up')
    <3>1. Rising(Resent)  BY <2>1 DEF OrderInv, EntriesRising, Rising
    <3>2. Rising(<<>>)  BY DEF Rising
    <3>. QED  BY <2>2, <3>1, <3>2
  <2>4. EntriesRising(store')  BY <1>5 DEF OrderInv
  <2>5. WaitsBehind'  BY <1>2, <1>5 DEF OrderInv, WaitsBehind, Waiting
  <2>6. OnItsWay'  BY <1>2, <1>5, <2>1, <2>2 DEF OnItsWay
  <2>. QED  BY <2>3, <2>4, <2>5, <2>6 DEF OrderInv
<1>. QED  BY <1>4, <1>5 DEF ProcessConnack

(* The broker reads a publish: what waits stays behind it. *)
LEMMA ReadsOrder ==
    ASSUME Basic, SessionInv, IdsInv, DeliveryInv, OrderInv, BrokerReads
    PROVE  OrderInv'
<1>1. TypeOK /\ Phases  BY DEF Basic
<1>2. /\ link /\ up # <<>> /\ up' = Tail(up) /\ UNCHANGED <<store, mixed, link, conn>>
  BY DEF BrokerReads, endpointVars, forkVars
<1>3. PICK p : p = Head(up)
  OBVIOUS
<1>4. /\ up \in Seq(Packets) /\ 1 \in DOMAIN up /\ p = up[1]
      /\ Follows(up', up, 1, <<>>)
      /\ \A k \in DOMAIN up : k # 1 => k - 1 \in DOMAIN up' /\ up'[k - 1] = up[k]
  <2>1. up \in Seq(Packets) /\ 1 \in DOMAIN up /\ p = up[1]  BY <1>1, <1>2, <1>3 DEF TypeOK
  <2>2. Follows(up', up, 1, <<>>)  BY <1>2, <2>1, FollowsTail
  <2>. QED  BY <1>2, <2>1, <2>2
<1>5. PICK w : w = <<>> /\ \A n \in DOMAIN w : FALSE
  OBVIOUS
<1>6. Follows(up', up, 1, w)  BY <1>4, <1>5
<1>7. EntriesRising(store') /\ mixed \subseteq mixed'  BY <1>2 DEF OrderInv
<1>8. CASE p.type # "publish"
  <2>1. delivered' = delivered  BY <1>3, <1>8 DEF BrokerReads
  <2>2. \A k \in DOMAIN up : up[k].type = "publish" => \E l \in DOMAIN up' : up'[l] = up[k]
    BY <1>4, <1>8
  <2>. QED  BY <1>2, <1>5, <1>6, <1>7, <2>1, <2>2, OrderFrame
<1>9. CASE p.type = "publish"
  <2>1. conn = "on"  BY <1>1, <1>2, <1>4, <1>9 DEF SessionInv, UpOpening, Phases, TypeOK
  <2>2. p.type \in OwnUp  BY <1>9 DEF OwnUp
  <2>3. /\ delivered \in Seq(1..MaxMsgs)
        /\ delivered' = IF p.qos = 2 => p.pid \notin received THEN Append(delivered, p.m) ELSE delivered
    BY <1>3, <1>9, <2>2, DeliveredBy
  <2>4. /\ Range(delivered) \subseteq Range(delivered')
        /\ Range(Append(delivered, p.m)) = Range(delivered) \cup {p.m}
    BY <2>3, RangeAppend, DeliveredGrows
  <2>5. ASSUME NEW n \in DOMAIN store, Waiting(store[n])'
        PROVE  /\ Waiting(store[n]) /\ \E k \in DOMAIN up : k # 1 /\ up[k] = store[n].packet
               /\ p.m < store[n].packet.m \/ delivered' = delivered
    <3>1. Waiting(store[n])  BY <1>2, <2>4, <2>5 DEF Waiting
    <3>2. PICK k \in DOMAIN up : up[k] = store[n].packet
      BY <1>2, <2>1, <3>1 DEF OrderInv, OnItsWay
    <3>3. CASE p.qos = 2 => p.pid \notin received
      <4>1. delivered' = Append(delivered, p.m)  BY <2>3, <3>3
      <4>2. store[n].packet.m # p.m  BY <1>2, <2>4, <2>5, <4>1 DEF Waiting
      <4>3. k # 1  BY <1>4, <3>2, <4>2
      <4>4. 1 < k  BY <1>4, <4>3
      <4>5. p.m < store[n].packet.m
        BY <1>4, <1>9, <3>1, <3>2, <4>4 DEF OrderInv, Rising, Waiting
      <4>. QED  BY <3>1, <3>2, <4>3, <4>5
    <3>4. CASE p.qos = 2 /\ p.pid \in received
      <4>1. delivered' = delivered  BY <2>3, <3>4
      <4>2. ASSUME k = 1
            PROVE  FALSE
        <5>1. store[n].packet = p  BY <1>4, <3>2, <4>2
        <5>2. store[n].pid = p.pid /\ store[n].expect = "pubrec"
          <6>1. store[n].pid = p.pid /\ store[n].expect = Awaited(p.qos)
            BY <1>1, <1>9, <5>1, EntryKinds DEF Basic
          <6>. QED  BY <3>4, <6>1 DEF Awaited
        <5>3. p.pid \notin mixed  BY <3>1, <5>2 DEF Waiting
        <5>4. OneEntry(store, p.pid)  BY <1>4, <2>2, <5>3, AskedFor
        <5>5. p.pid \in Ids  BY <1>4, <1>9, PacketFields
        <5>6. DeliveryKept(p.pid)  BY <5>3, <5>5 DEF DeliveryInv
        <5>7. ~IsStored(p.pid, "pubcomp")  BY <5>2, <5>4 DEF IsStored, OneEntry
        <5>8. StoredDelivered(p.pid, "pubrec")
          BY <3>4, <5>6, <5>7 DEF DeliveryKept, ReceivedStored
        <5>9. store[n].packet.m \in Range(delivered)
          BY <5>2, <5>4, <5>8 DEF StoredDelivered, OneEntry
        <5>. QED  BY <3>1, <5>9 DEF Waiting
      <4>. QED  BY <3>1, <3>2, <4>1, <4>2
    <3>. QED  BY <3>3, <3>4
  <2>6. Rising(up')
    <3>1. Rising(up)  BY DEF OrderInv
    <3>. QED  BY <1>4, <1>5, <1>6, <3>1, RisingKept
  <2>7. WaitsBehind'
    <3>1. SUFFICES ASSUME NEW n \in DOMAIN store, Waiting(store[n])', NEW i \in DOMAIN delivered'
                   PROVE  delivered'[i] < store[n].packet.m
      BY <1>2 DEF WaitsBehind
    <3>2. \A k \in DOMAIN delivered : delivered[k] < store[n].packet.m
      BY <2>5, <3>1 DEF OrderInv, WaitsBehind
    <3>3. CASE delivered' = delivered  BY <3>1, <3>2, <3>3
    <3>4. CASE delivered' # delivered
      <4>1. delivered' = Append(delivered, p.m) /\ p.m < store[n].packet.m
        BY <2>3, <2>5, <3>1, <3>4
      <4>2. (i \in DOMAIN delivered /\ delivered'[i] = delivered[i]) \/ delivered'[i] = p.m
        BY <2>3, <3>1, <4>1
      <4>. QED  BY <3>2, <4>1, <4>2
    <3>. QED  BY <3>3, <3>4
  <2>8. OnItsWay'
    <3>1. SUFFICES ASSUME NEW n \in DOMAIN store, Waiting(store[n])'
                   PROVE  \E k \in DOMAIN up' : up'[k] = store[n].packet
      BY <1>2 DEF OnItsWay
    <3>2. PICK k \in DOMAIN up : k # 1 /\ up[k] = store[n].packet  BY <2>5, <3>1
    <3>. QED  BY <1>4, <3>2
  <2>. QED  BY <1>7, <2>6, <2>7, <2>8 DEF OrderInv
<1>. QED  BY <1>8, <1>9

LEMMA InitOrder == Init => OrderInv
  BY DEF Init, OrderInv, EntriesRising, Rising, WaitsBehind, OnItsWay

LEMMA NextOrder ==
    ASSUME Basic, SessionInv, IdsInv, DeliveryInv, OrderInv, [Next]_vars
    PROVE  OrderInv'
<1>1. CASE UNCHANGED vars  BY <1>1, QuietOrder
<1>2. CASE Next
  BY <1>2, PublishOrder, QuietOrder, ForkPublishesOrder, SubscribeOrder, HandlersOrder, ConnackOrder,
     SettlesOrder, ReadsOrder
  DEF Next, ProcessPacket
<1>. QED  BY <1>1, <1>2

(* In the order they were made: a publish that the broker reads either     *)
(* waits, behind all it has, or is one that it had already.                *)
LEMMA InOrderFrame ==
    ASSUME Basic, DeliveredInOrder, delivered' = delivered, Grows(made', made), mixed \subseteq mixed'
    PROVE  DeliveredInOrder'
<1>1. \A n \in DOMAIN delivered : made'[delivered[n]] = made[delivered[n]]
  <2>1. made \in Seq([qos : {1, 2}, pid : Ids])  BY DEF Basic, TypeOK
  <2>2. DOMAIN made = Msgs  BY <2>1 DEF Msgs
  <2>. QED  BY <2>2 DEF Basic, DeliveredMade, Grows
<1>. QED  BY <1>1 DEF DeliveredInOrder

LEMMA ReadsInOrder ==
    ASSUME Basic, IdsInv, OrderInv, DeliveredInOrder, BrokerReads
    PROVE  DeliveredInOrder'
<1>1. TypeOK /\ UpMade  BY DEF Basic
<1>2. UNCHANGED <<made, mixed>>
  BY DEF BrokerReads, forkVars
<1>3. CASE delivered' = delivered
  BY <1>2, <1>3, InOrderFrame DEF Grows
<1>4. CASE delivered' # delivered
  <2>1. PICK p : p = Head(up)
    OBVIOUS
  <2>2. p.type \in OwnUp  BY <1>4, <2>1 DEF BrokerReads, OwnUp
  <2>3. p = up[1] /\ 1 \in DOMAIN up /\ p \in Packets
    BY <2>1, <2>2, AnswersOwn
  <2>4. /\ delivered \in Seq(1..MaxMsgs) /\ delivered' = Append(delivered, p.m) /\ p.type = "publish"
    BY <1>4, <2>1, <2>2, DeliveredBy
  <2>5. made[p.m].pid = p.pid
    <3>1. made[p.m] = [qos |-> p.qos, pid |-> p.pid]
      BY <1>1, <2>3, <2>4 DEF UpMade, AllMade, MadeAs
    <3>. QED  BY <3>1
  <2>6. ASSUME p.pid \notin mixed, p.m \notin Range(delivered), NEW i \in DOMAIN delivered
        PROVE  delivered[i] < p.m
    <3>1. PICK k \in DOMAIN store : store[k].pid = p.pid /\ store[k].packet = p
      BY <2>2, <2>3, <2>4, <2>6, AskedFor
    <3>2. Waiting(store[k])  BY <2>4, <2>6, <3>1 DEF Waiting
    <3>. QED  BY <2>6, <3>1, <3>2 DEF OrderInv, WaitsBehind
  <2>7. /\ DOMAIN delivered = 1..Len(delivered) /\ DOMAIN delivered' = 1..(Len(delivered) + 1)
        /\ Len(delivered) \in Nat /\ delivered'[Len(delivered) + 1] = p.m
        /\ \A n \in DOMAIN delivered : delivered'[n] = delivered[n] /\ delivered[n] \in Nat
    <3>1. made \in Seq([qos : {1, 2}, pid : Ids])  BY <1>1 DEF TypeOK
    <3>2. \A n \in DOMAIN delivered : delivered[n] \in Nat  BY <3>1 DEF Basic, DeliveredMade, Msgs
    <3>3. /\ DOMAIN delivered = 1..Len(delivered) /\ DOMAIN delivered' = 1..(Len(delivered) + 1)
          /\ Len(delivered) \in Nat /\ delivered'[Len(delivered) + 1] = p.m
          /\ \A n \in DOMAIN delivered : delivered'[n] = delivered[n]
      BY <2>4
    <3>. QED  BY <3>2, <3>3
  <2>8. SUFFICES ASSUME NEW i \in DOMAIN delivered', NEW j \in DOMAIN delivered', i < j,
                        delivered'[j] < delivered'[i], made[delivered'[j]].pid \notin mixed
                 PROVE  \E k \in 1..(i - 1) : delivered'[k] = delivered'[j]
    BY <1>2 DEF DeliveredInOrder
  <2>9. i \in DOMAIN delivered /\ \A k \in 1..(i - 1) : k \in DOMAIN delivered
    BY <2>7, <2>8
  <2>10. CASE j \in DOMAIN delivered
    <3>1. PICK k \in 1..(i - 1) : delivered[k] = delivered[j]
      BY <2>7, <2>8, <2>9, <2>10 DEF DeliveredInOrder
    <3>. QED  BY <2>7, <2>9, <2>10, <3>1
  <2>11. CASE j \notin DOMAIN delivered
    <3>1. delivered'[j] = p.m /\ p.m < delivered[i] /\ p.pid \notin mixed
      BY <2>5, <2>7, <2>8, <2>9, <2>11
    <3>2. p.m \in Range(delivered)
      <4>1. SUFFICES ASSUME p.m \notin Range(delivered) PROVE FALSE
        OBVIOUS
      <4>2. delivered[i] < p.m  BY <2>6, <2>9, <3>1, <4>1
      <4>3. p.m \in Nat  BY <2>3, <2>4, PacketFields, ConstantsAssumption
      <4>. QED  BY <2>7, <2>9, <3>1, <4>2, <4>3
    <3>3. PICK k \in DOMAIN delivered : delivered[k] = p.m
      BY <3>2 DEF Range
    <3>4. CASE k < i
      <4>1. k \in 1..(i - 1)  BY <2>7, <2>9, <3>3, <3>4
      <4>. QED  BY <2>7, <3>1, <3>3, <4>1
    <3>5. CASE k > i
      <4>1. made[delivered[k]].pid \notin mixed  BY <2>5, <3>1, <3>3
      <4>2. PICK l \in 1..(i - 1) : delivered[l] = delivered[k]
        BY <2>9, <3>1, <3>3, <3>5, <4>1 DEF DeliveredInOrder
      <4>. QED  BY <2>7, <2>9, <3>1, <3>3, <4>2
    <3>6. k # i
      BY <2>7, <2>9, <3>1, <3>3
    <3>. QED  BY <2>7, <2>9, <3>3, <3>4, <3>5, <3>6
  <2>. QED  BY <2>10, <2>11
<1>. QED  BY <1>3, <1>4

LEMMA NextInOrder ==
    ASSUME Basic, IdsInv, OrderInv, DeliveredInOrder, [Next]_vars
    PROVE  DeliveredInOrder'
<1>1. CASE BrokerReads  BY <1>1, ReadsInOrder
<1>2. CASE ~BrokerReads
  <2>1. delivered' = delivered
    BY <1>2 DEF Next, DoPublish, BrokerPublishes, Forks, ForkPublishes, DoSubscribe, Connect, HandleError,
                ProcessPacket, ProcessPublish, ProcessPubrel, ProcessConnack, ProcessPuback, ProcessPubrec,
                ProcessPubcomp, ProcessSuback, Break, BrokerForgets, vars, brokerVars
  <2>. QED  BY <2>1, MadeGrows, InOrderFrame
<1>. QED  BY <1>1, <1>2

(* DeliveredInOrder, about send_store, which resends along the sequence    *)
(* index, and what process_puback, process_pubrec and publish do to that   *)
(* order: for any number of ids, publishes, connections and sessions.      *)
THEOREM FirstDeliveriesInOrder == UsersWait => (Spec => []DeliveredInOrder)
<1>1. SUFFICES ASSUME UsersWait PROVE Spec => []DeliveredInOrder
  OBVIOUS
<1>2. Init => Basic /\ SessionInv /\ IdsInv /\ DeliveryInv /\ OrderInv
  BY InitBasic, InitSession, InitIds, InitDelivery, InitOrder
<1>3. Init => DeliveredInOrder
  BY DEF Init, DeliveredInOrder
<1>4. Basic /\ SessionInv /\ IdsInv /\ DeliveryInv /\ OrderInv /\ [Next]_vars
         => (Basic /\ SessionInv /\ IdsInv /\ DeliveryInv /\ OrderInv)'
  BY <1>1, NextBasic, NextSession, NextIds, NextDelivery, NextOrder
<1>5. Basic /\ IdsInv /\ OrderInv /\ DeliveredInOrder /\ [Next]_vars => DeliveredInOrder'
  BY NextInOrder
<1>. QED  BY <1>2, <1>3, <1>4, <1>5, PTL DEF Spec

=============================================================================
