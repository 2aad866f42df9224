---------------------------- MODULE MqttEndpoint ----------------------------
(***************************************************************************)
(* The MQTT 3.1.1 client endpoint of src/vrpc/src/mqtt/endpoint.hpp that   *)
(* the agent publishes with: packet ids from acquisition to                *)
(* acknowledgement, the store of unacknowledged publishes, ids of          *)
(* subscriptions in flight, what is resent on a new connection, and how    *)
(* publishes from the broker are handled and acknowledged.                 *)
(* The handlers run on the one thread of the event loop; writes are        *)
(* synchronous and go nowhere when the connection is broken.  The agent's  *)
(* forks inherit the endpoint: each publishes once, on the connection it   *)
(* was made on, with its own copy of the packet ids, and reads nothing.    *)
(* The broker is external: it answers in order, keeps its session until it *)
(* forgets it between two connections or is asked for a clean one,         *)
(* remembers the ids of QoS 2 publishes until they are released, and sends *)
(* its own publishes again on each connection until they are acknowledged. *)
(***************************************************************************)
EXTENDS Integers, Sequences, FiniteSets, SequencesExt

CONSTANTS
    MaxId,            \* packet ids are 1..MaxId, 65535 in the code
    MaxMsgs,          \* bound: publishes made
    MaxIncoming,      \* bound: publishes made by the broker
    MaxTraffic,       \* bound: with publishes of the broker, publishes of both sides,
                      \* subscriptions and forks together
    MaxSubs,          \* bound: subscriptions and unsubscriptions made
    MaxBreaks,        \* bound: connections that break
    MaxForks,         \* bound: forks made
    SubscribesFrom,   \* bound: subscriptions are made after so many breaks
    Qos,              \* the levels publishes are made at, of 1 and 2
    CleanSessions,    \* whether connections ask for a clean session: some of BOOLEAN
    WaitsForConnack   \* TRUE when users subscribe only when connected, and do not
                      \* publish between connect and CONNACK

ASSUME ConstantsAssumption ==
    /\ MaxId \in Nat \ {0} /\ MaxMsgs \in Nat /\ MaxSubs \in Nat /\ MaxBreaks \in Nat
    /\ MaxForks \in Nat /\ MaxIncoming \in Nat /\ MaxTraffic \in Nat
    /\ SubscribesFrom \in Nat
    /\ Qos \subseteq {1, 2}
    /\ CleanSessions \subseteq BOOLEAN /\ CleanSessions # {}
    /\ WaitsForConnack \in BOOLEAN

VARIABLES
    conn,      \* connected_ and mqtt_connected_: "off", "opening" or "on"
    free,      \* pid_man_: the ids that can be handed out
    store,     \* store_, in the order of its sequence index
    inflight,  \* sub_unsub_inflight_
    handledIds,\* qos2_publish_handled_
    link,      \* FALSE when the connection broke and nobody noticed yet
    up, down,  \* packets to and from the broker
    session,   \* the broker holds a session of this client
    received,  \* the broker's ids of QoS 2 publishes not yet released
    delivered, \* messages the broker passed on, in order
    incoming,  \* the broker's publishes to the client, and how far each is
    handled,   \* those of them that the publish handler was called with
    made,      \* the QoS and packet id of each message published so far
    forks,     \* the ids free in each fork made; none when it has published
               \* or can no longer, as its connection broke
    mixed,     \* ids that a fork and another publish used at the same time
    dropped,   \* messages the client discarded with its session
    orphaned,  \* messages stored when the broker discarded its session
    subs, breaks

endpointVars == <<conn, free, store, inflight>>
inVars       == <<handledIds, handled>>
brokerVars   == <<session, received, delivered, incoming>>
forkVars     == <<forks, mixed>>
historyVars  == <<made, dropped, orphaned, subs, breaks>>
vars == <<endpointVars, inVars, link, up, down, brokerVars, forkVars, historyVars>>

Ids  == 1..MaxId
Msgs == 1..Len(made)

(* Packets. A stored publish is resent as it is, a PUBREL carries no message. *)
Publish(pid, qos, m) == [type |-> "publish", pid |-> pid, qos |-> qos, m |-> m]
Packet(type, pid)    == [type |-> type, pid |-> pid]

Connack(present) == [type |-> "connack", present |-> present]

(* Slip: id 0 is handed out, too. *)
ZeroToo == 0..MaxId

(* pid_man_ at first and after clear_session_data *)
AllFree == Ids

Init ==
    /\ conn = "off" /\ free = AllFree /\ store = <<>> /\ inflight = {}
    /\ link = FALSE /\ up = <<>> /\ down = <<>>
    /\ session = FALSE /\ received = {} /\ delivered = <<>>
    /\ incoming = <<>> /\ handledIds = {} /\ handled = {}
    /\ forks = <<>> /\ mixed = {}
    /\ made = <<>> /\ dropped = {} /\ orphaned = {} /\ subs = 0 /\ breaks = 0

----------------------------------------------------------------------------
(* do_sync_write *)
Written(packets) == IF conn # "off" /\ link THEN up \o packets ELSE up

(* acquire_unique_packet_id: the least free id; with none left it throws   *)
(* and nothing changes.                                                    *)
Acquires(pid) == pid \in free /\ \A i \in free : pid <= i

(* The store takes one entry per id and awaited packet. *)
Entry(pid, expect, packet) == [pid |-> pid, expect |-> expect, packet |-> packet]
IsStored(pid, expect) == \E n \in DOMAIN store : store[n].pid = pid /\ store[n].expect = expect

(* Slip: what cannot be written is not stored. *)
StoredIfConnected(e) == IF conn = "off" THEN store ELSE Append(store, e)

Stored(e) == IF IsStored(e.pid, e.expect) THEN store ELSE Append(store, e)

StoredAt(pid, expect) == CHOOSE n \in DOMAIN store : store[n].pid = pid /\ store[n].expect = expect
Erased(pid, expect) ==
    IF IsStored(pid, expect) THEN RemoveAt(store, StoredAt(pid, expect)) ELSE store

(* The bound on publishes of both sides. *)
Traffic == Len(made) + Len(incoming) + Len(forks) + subs
HasRoom == incoming = <<>> \/ Traffic < MaxTraffic

(* What users do before the connection is accepted. *)
UserMayPublish   == conn = "opening" => ~WaitsForConnack
UserMaySubscribe == conn # "on" => ~WaitsForConnack

(* What forks published and the parent has not seen settled: a PUBACK for a *)
(* free id can only be theirs.                                             *)
OfForks(pid) ==
    \/ \E n \in DOMAIN up : up[n] = Packet("forked", pid)
    \/ pid \in free /\ \E n \in DOMAIN down : down[n] = Packet("puback", pid)
MixesWith(pid) == mixed' = IF OfForks(pid) THEN mixed \cup {pid} ELSE mixed

(* publish, send_publish and preprocess_publish_message. *)
Awaited(qos) == IF qos = 1 THEN "puback" ELSE "pubrec"

DoPublish(qos) ==
    /\ UserMayPublish /\ Len(made) < MaxMsgs /\ HasRoom
    /\ \E pid \in free :
        LET packet == Publish(pid, qos, Len(made) + 1) IN
        /\ Acquires(pid) /\ MixesWith(pid)
        /\ made' = Append(made, [qos |-> qos, pid |-> pid])
        /\ free' = free \ {pid}
        /\ store' = Stored(Entry(pid, Awaited(qos), packet))
        /\ up' = Written(<<packet>>)
    /\ UNCHANGED <<inVars, conn, inflight, link, down, brokerVars, forks, dropped, orphaned, subs, breaks>>

(* subscribe or unsubscribe, send_subscribe or send_unsubscribe. *)
DoSubscribe ==
    /\ UserMaySubscribe /\ subs < MaxSubs /\ breaks >= SubscribesFrom /\ HasRoom
    /\ subs' = subs + 1
    /\ \E pid \in free :
        /\ Acquires(pid) /\ MixesWith(pid)
        /\ free' = free \ {pid}
        /\ inflight' = inflight \cup {pid}
        /\ up' = Written(<<Packet("subscribe", pid)>>)
    /\ UNCHANGED <<inVars, conn, store, link, down, brokerVars, forks, made, dropped, orphaned, breaks>>

(* mcparallel, in the agent's publish handler. *)
Forks ==
    /\ conn = "on" /\ Len(forks) < MaxForks /\ HasRoom
    /\ forks' = Append(forks, IF link THEN free ELSE {})
    /\ UNCHANGED <<inVars, endpointVars, link, up, down, brokerVars, mixed, historyVars>>

(* publish at QoS 1 in a fork: what it stores is its own and never resent. *)
ForkPublishes(n) ==
    /\ forks' = [forks EXCEPT ![n] = {}]
    /\ \E pid \in forks[n] :
        /\ \A i \in forks[n] : pid <= i
        /\ up' = Append(up, Packet("forked", pid))
        /\ mixed' = IF pid \in free THEN mixed ELSE mixed \cup {pid}
    /\ UNCHANGED <<inVars, endpointVars, link, down, brokerVars, historyVars>>

(* connect: a new TCP connection and a CONNECT. *)
Connect ==
    /\ conn = "off"
    /\ conn' = "opening" /\ link' = TRUE
    /\ \E clean \in CleanSessions : up' = <<[type |-> "connect", clean |-> clean]>>
    /\ down' = <<>>
    /\ UNCHANGED <<forkVars, inVars, free, store, inflight, brokerVars, historyVars>>

(* handle_close_or_error and clean_sub_unsub_inflight: the ids in flight   *)
(* are released; the set itself is kept.                                   *)
HandleError ==
    /\ conn # "off" /\ ~link /\ down = <<>>
    /\ conn' = "off"
    /\ free' = free \cup inflight
    /\ UNCHANGED <<forkVars, inVars, store, inflight, link, up, down, brokerVars, historyVars>>

----------------------------------------------------------------------------
(* The messages that wait for a PUBACK or PUBREC. *)
StoredMessages ==
    {store[n].packet.m : n \in {k \in DOMAIN store : store[k].packet.type = "publish"}}

Receives(type) ==
    /\ conn # "off" /\ down # <<>> /\ Head(down).type = type
    /\ down' = Tail(down)

(* Slip: the stored packets are sent in the order of their ids. *)
ResentById == SortSeq([n \in DOMAIN store |-> store[n].packet], LAMBDA a, b : a.pid < b.pid)

(* send_store *)
Resent == [n \in DOMAIN store |-> store[n].packet]

(* process_connack: without a session at the broker the client forgets     *)
(* its own, with one it sends everything stored again.                     *)
ProcessConnack ==
    /\ Receives("connack")
    /\ conn' = "on"
    /\ \/ /\ Head(down).present
          /\ up' = Written(Resent)
          /\ UNCHANGED <<free, store, dropped>>
       \/ /\ ~Head(down).present
          /\ free' = AllFree /\ store' = <<>> /\ up' = up
          /\ dropped' = dropped \cup StoredMessages
    /\ UNCHANGED <<forkVars, inVars, inflight, link, brokerVars, made, orphaned, subs, breaks>>

ProcessPuback ==
    /\ Receives("puback")
    /\ LET pid == Head(down).pid IN
        /\ store' = Erased(pid, "puback")
        /\ free' = free \cup {pid}
    /\ UNCHANGED <<forkVars, inVars, conn, inflight, link, up, brokerVars, historyVars>>

(* Slips: the publish stays stored; the id is given back already. *)
PubrecErasedNot(pid) ==
    store' = Append(store, Entry(pid, "pubcomp", Packet("pubrel", pid))) /\ free' = free \ {pid}
PubrecReleases(pid) ==
    /\ store' = Append(Erased(pid, "pubrec"), Entry(pid, "pubcomp", Packet("pubrel", pid)))
    /\ free' = free \cup {pid}

(* The PUBREL takes the place of the publish; an entry of this id awaiting *)
(* PUBCOMP is overwritten in place; the id is registered if it is free.    *)
PubrelStored(pid) ==
    /\ store' = IF IsStored(pid, "pubcomp") THEN Erased(pid, "pubrec")
                ELSE Append(Erased(pid, "pubrec"), Entry(pid, "pubcomp", Packet("pubrel", pid)))
    /\ free' = free \ {pid}

(* process_pubrec and send_pubrel. *)
ProcessPubrec ==
    /\ Receives("pubrec")
    /\ PubrelStored(Head(down).pid)
    /\ up' = Written(<<Packet("pubrel", Head(down).pid)>>)
    /\ UNCHANGED <<forkVars, inVars, conn, inflight, link, brokerVars, historyVars>>

(* Slip: the id is not given back. *)
PubcompKeeps(pid) == free

PubcompFrees(pid) == free \cup {pid}

ProcessPubcomp ==
    /\ Receives("pubcomp")
    /\ LET pid == Head(down).pid IN
        /\ store' = Erased(pid, "pubcomp")
        /\ free' = PubcompFrees(pid)
    /\ UNCHANGED <<forkVars, inVars, conn, inflight, link, up, brokerVars, historyVars>>

(* process_suback, process_unsuback *)
ProcessSuback ==
    /\ Receives("suback")
    /\ LET pid == Head(down).pid IN
        /\ free' = free \cup {pid}
        /\ inflight' = inflight \ {pid}
    /\ UNCHANGED <<forkVars, inVars, conn, store, link, up, brokerVars, historyVars>>

(* Slip: an id that was handled is not handled again.                      *)
HandledOnce(p) ==
    /\ handled' = IF p.qos = 2 /\ p.pid \in handledIds THEN handled ELSE handled \cup {p.m}
    /\ handledIds' = IF p.qos = 2 THEN handledIds \cup {p.pid} ELSE handledIds

(* on_publish, which succeeds, then the id of a QoS 2 publish is noted:    *)
(* nothing ever asks for it.                                               *)
Handled(p) ==
    /\ handled' = handled \cup {p.m}
    /\ handledIds' = IF p.qos = 2 THEN handledIds \cup {p.pid} ELSE handledIds

(* process_publish: handle first, then acknowledge. *)
ProcessPublish ==
    /\ Receives("publish")
    /\ Handled(Head(down))
    /\ up' = Written(<<Packet(Awaited(Head(down).qos), Head(down).pid)>>)
    /\ UNCHANGED <<endpointVars, link, brokerVars, forkVars, historyVars>>

(* process_pubrel *)
ProcessPubrel ==
    /\ Receives("pubrel")
    /\ handledIds' = handledIds \ {Head(down).pid}
    /\ up' = Written(<<Packet("pubcomp", Head(down).pid)>>)
    /\ UNCHANGED <<handled, endpointVars, link, brokerVars, forkVars, historyVars>>

ProcessPacket ==
    \/ ProcessPublish \/ ProcessPubrel
    \/ ProcessConnack \/ ProcessPuback \/ ProcessPubrec \/ ProcessPubcomp \/ ProcessSuback

----------------------------------------------------------------------------
(* The broker and the network (external). *)
Answer(packet) == down' = Append(down, packet)

(* The broker's own publishes: it may send again what is not settled.      *)
IsOpen(m) == incoming[m].state \in {"sent", "released"}
OpenAt(pid) == CHOOSE m \in DOMAIN incoming : IsOpen(m) /\ incoming[m].pid = pid
Moves(pid, state) == incoming' = [incoming EXCEPT ![OpenAt(pid)].state = state]

Resend(m) ==
    IF incoming[m].state = "sent" THEN Publish(incoming[m].pid, incoming[m].qos, m)
    ELSE Packet("pubrel", incoming[m].pid)
Unsettled == {m \in DOMAIN incoming : IsOpen(m)}
InOrder(set) == {s \in [1..Cardinality(set) -> set] : \A i, j \in DOMAIN s : i < j => s[i] < s[j]}

Discards ==
    /\ received' = {} /\ orphaned' = orphaned \cup StoredMessages
    /\ incoming' = [m \in DOMAIN incoming |->
                        IF IsOpen(m) THEN [incoming[m] EXCEPT !.state = "discarded"]
                        ELSE incoming[m]]

BrokerPublishes(qos) ==
    /\ link /\ \A n \in DOMAIN up : up[n].type # "connect"
    /\ Len(incoming) < MaxIncoming /\ Traffic < MaxTraffic
    /\ \E pid \in Ids :
        /\ \A i \in 1..(pid - 1) : \E m \in DOMAIN incoming : IsOpen(m) /\ incoming[m].pid = i
        /\ \A m \in DOMAIN incoming : ~(IsOpen(m) /\ incoming[m].pid = pid)
        /\ incoming' = Append(incoming, [pid |-> pid, qos |-> qos, state |-> "sent"])
        /\ Answer(Publish(pid, qos, Len(incoming) + 1))
    /\ UNCHANGED <<endpointVars, inVars, forkVars, historyVars, link, up, session, received,
                   delivered>>

BrokerReads ==
    /\ link /\ up # <<>>
    /\ up' = Tail(up)
    /\ LET p == Head(up) IN
        \/ /\ p.type = "connect"
           /\ session' = TRUE
           /\ \/ p.clean /\ Answer(Connack(FALSE)) /\ Discards
              \/ /\ ~p.clean
                 /\ \E s \in InOrder(Unsettled) :
                       down' = Append(down, Connack(session)) \o [n \in DOMAIN s |-> Resend(s[n])]
                 /\ UNCHANGED <<received, incoming, orphaned>>
           /\ UNCHANGED delivered
        \/ /\ p.type = "publish" /\ p.qos = 1
           /\ delivered' = Append(delivered, p.m)
           /\ Answer(Packet("puback", p.pid))
           /\ UNCHANGED <<session, received, incoming, orphaned>>
        \/ /\ p.type = "publish" /\ p.qos = 2
           /\ delivered' = IF p.pid \in received THEN delivered ELSE Append(delivered, p.m)
           /\ received' = received \cup {p.pid}
           /\ Answer(Packet("pubrec", p.pid))
           /\ UNCHANGED <<session, incoming, orphaned>>
        \/ /\ p.type = "pubrel"
           /\ received' = received \ {p.pid}
           /\ Answer(Packet("pubcomp", p.pid))
           /\ UNCHANGED <<session, delivered, incoming, orphaned>>
        \/ /\ p.type = "forked"
           /\ Answer(Packet("puback", p.pid))
           /\ UNCHANGED <<session, received, delivered, incoming, orphaned>>
        \/ /\ p.type = "subscribe"
           /\ Answer(Packet("suback", p.pid))
           /\ UNCHANGED <<session, received, delivered, incoming, orphaned>>
        \/ /\ p.type \in {"puback", "pubcomp"}
           /\ Moves(p.pid, "settled")
           /\ UNCHANGED <<down, session, received, delivered, orphaned>>
        \/ /\ p.type = "pubrec"
           /\ Moves(p.pid, "released")
           /\ Answer(Packet("pubrel", p.pid))
           /\ UNCHANGED <<session, received, delivered, orphaned>>
    /\ UNCHANGED <<forkVars, inVars, endpointVars, link, made, dropped, subs, breaks>>

(* The connection breaks: what the broker has not read is lost, and some   *)
(* of what it sent still arrives.                                          *)
Break ==
    /\ link /\ breaks < MaxBreaks
    /\ breaks' = breaks + 1
    /\ link' = FALSE /\ up' = <<>>
    /\ forks' = [n \in DOMAIN forks |-> {}]
    /\ \E n \in 0..Len(down) : down' = SubSeq(down, 1, n)
    /\ UNCHANGED <<mixed, endpointVars, inVars, brokerVars, made, dropped, orphaned, subs>>

(* Without a connection the broker may discard the session. *)
BrokerForgets ==
    /\ session /\ ~link
    /\ session' = FALSE /\ Discards
    /\ UNCHANGED <<forkVars, inVars, endpointVars, link, up, down, delivered, made, dropped, subs, breaks>>

Next ==
    \/ \E qos \in Qos : DoPublish(qos) \/ BrokerPublishes(qos)
    \/ Forks \/ \E n \in DOMAIN forks : ForkPublishes(n)
    \/ DoSubscribe \/ Connect \/ HandleError \/ ProcessPacket
    \/ BrokerReads \/ Break \/ BrokerForgets

Spec == Init /\ [][Next]_vars

(* The event loop, the broker and the network go on, and the user          *)
(* reconnects.                                                             *)
FairSpec == Spec /\ WF_vars(Connect) /\ WF_vars(HandleError)
                 /\ WF_vars(ProcessPacket) /\ WF_vars(BrokerReads)

----------------------------------------------------------------------------
Packets ==
    [type : {"publish"}, pid : Ids, qos : {1, 2}, m : 1..(MaxMsgs + MaxIncoming)]
    \cup [type : {"pubrel", "puback", "pubrec", "pubcomp", "subscribe", "suback",
             "forked"}, pid : Ids]
    \cup [type : {"connect"}, clean : BOOLEAN] \cup [type : {"connack"}, present : BOOLEAN]

Entries == [pid : Ids, expect : {"puback", "pubrec", "pubcomp"}, packet : Packets]

TypeOK ==
    /\ conn \in {"off", "opening", "on"} /\ link \in BOOLEAN /\ session \in BOOLEAN
    /\ free \subseteq Ids /\ inflight \subseteq Ids /\ received \subseteq Ids
    /\ store \in Seq(Entries) /\ up \in Seq(Packets) /\ down \in Seq(Packets)
    /\ delivered \in Seq(1..MaxMsgs) /\ made \in Seq([qos : {1, 2}, pid : Ids])
    /\ incoming \in Seq([pid : Ids, qos : {1, 2},
                         state : {"sent", "released", "settled", "discarded"}])
    /\ handledIds \subseteq Ids /\ handled \subseteq DOMAIN incoming
    /\ forks \in Seq(SUBSET Ids) /\ mixed \subseteq Ids
    /\ dropped \subseteq 1..MaxMsgs /\ orphaned \subseteq 1..MaxMsgs
    /\ subs \in 0..MaxSubs /\ breaks \in 0..MaxBreaks

(* endpoint.hpp:4248 and packet_id_manager.hpp:24, "Acquire the new unique *)
(* packet id": no two exchanges under way share a packet id, and none of   *)
(* their ids can be handed out again.  Exchanges are the stored publishes  *)
(* and the subscriptions on this connection the broker has yet to answer,  *)
(* or whose answer is on its way.  An id that a fork used meanwhile is lost *)
(* to this: see ForksShareNoIds.                                           *)
Subscribing ==
    {up[n].pid : n \in {k \in DOMAIN up : up[k].type = "subscribe"}}
    \cup {down[n].pid : n \in {k \in DOMAIN down : down[k].type = "suback"}}

IdsAreUnique ==
    /\ \A m, n \in DOMAIN store : m # n => store[m].pid # store[n].pid \/ store[m].pid \in mixed
    /\ LET stored == {store[n].pid : n \in DOMAIN store} IN
        /\ stored \cap Subscribing \subseteq mixed
        /\ (stored \cup Subscribing) \cap free \subseteq mixed

(* endpoint.hpp:935, "the library will store this publish internally until *)
(* the broker has confirmed delivery, which may involve resends": a        *)
(* publish is stored until the broker has it, however often the connection *)
(* breaks, unless the session it belongs to is discarded, or its packet id *)
(* is one that a fork used, too.                                           *)
NothingForgotten ==
    \A m \in Msgs : \/ m \in Range(delivered) \cup dropped \cup StoredMessages
                    \/ made[m].pid \in mixed

(* endpoint.hpp:7587, the PUBREL replaces the publish: a QoS 2 publish     *)
(* reaches the broker's subscribers once, although it may be sent on       *)
(* several connections, unless the broker lost its session while the       *)
(* publish was stored: a lost CONNACK then hides that from the client,     *)
(* which sends the publish to the next session again.                      *)
DeliveredOnce ==
    \A i, j \in DOMAIN delivered :
        i # j /\ delivered[i] = delivered[j]
            => \/ made[delivered[i]].qos = 1 \/ delivered[i] \in orphaned
               \/ made[delivered[i]].pid \in mixed

(* endpoint.hpp:9492, resending along the sequence index: messages are     *)
(* first delivered in the order they were published, also across           *)
(* reconnections and with ids that were used before; for an id that a fork *)
(* used meanwhile the broker may take a message for one it has.            *)
DeliveredInOrder ==
    \A i, j \in DOMAIN delivered :
        i < j /\ delivered[j] < delivered[i]
            => \/ \E k \in 1..(i - 1) : delivered[k] = delivered[j]
               \/ made[delivered[j]].pid \in mixed

(* endpoint.hpp:7289 and 7314, acknowledge after handling, and 7315, what  *)
(* is known of handled ids outlives the session they belong to: a message  *)
(* that the broker will not send again has been handled, also when its id  *)
(* is one that an earlier session used and never released.                 *)
NothingMissed ==
    \A m \in DOMAIN incoming : incoming[m].state \in {"released", "settled"} => m \in handled

(* endpoint.hpp:7445 and 7931: every id comes back.  Once connections      *)
(* hold, each publish is settled, in both directions, and no packet id     *)
(* stays in use.                                                           *)
IdsComeBack == <>[](free = Ids /\ store = <<>> /\ \A m \in DOMAIN incoming : ~IsOpen(m))

(* What the code's comments promise and the agent does not keep: the id a  *)
(* publish acquires is unique among those under way on its connection.     *)
(* endpoint.hpp:4248, packet_id_manager.hpp:24.                            *)
ForksShareNoIds == mixed = {}
=============================================================================
