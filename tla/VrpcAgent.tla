----------------------------- MODULE VrpcAgent -----------------------------
(***************************************************************************)
(* The VRPC agent of src/vrpc/src/start_vrpc_agent.cpp: one R process that *)
(* serves remote procedure calls arriving over MQTT.  The parent process   *)
(* runs the event loop and its connack and publish handlers; every call of *)
(* an R function is evaluated in a detached fork (vrpc_call of Adapter.R), *)
(* which sends its reply itself, on the socket it shares with the parent,  *)
(* from the copy of the parent's memory it was forked with.                *)
(*                                                                         *)
(* A handler is one action.  The packets it writes are appended to "up",   *)
(* the shared socket's stream to the broker, in the order of the writes.   *)
(* What R computes is abstracted to which function ran in which session.   *)
(* Requests are well-formed JSON objects with a reply topic; their         *)
(* arguments may be unusable (BadArg).                                     *)
(***************************************************************************)
EXTENDS Integers, Sequences, FiniteSets

CONSTANTS
    Clients,    \* VRPC clients; a client is also the reply topic j["s"] it owns
    Instances,  \* names that clients give to Session instances
    Functions,  \* options.functions, the R functions the agent announces
    RFunctions, \* every R function a call may name
    Fatal,      \* those whose evaluation may end the fork before it replies
    Endless,    \* those whose evaluation never returns
    Menu,       \* the requests (without number and sender) clients may issue
    MaxCalls    \* bound: how many requests are issued altogether

Static == "__static__"
BadArg == "unusable argument"
NoArg  == "no argument"
Null   == [null |-> TRUE]     \* what operator[] of a map yields for no entry

CallIds == 1..MaxCalls

(* What a request topic .../Session/<inst>/<f> and its argument can be. *)
Shapes ==
    [inst : {Static}, f : {"__createShared__", "__delete__"},
        a : Instances \cup {BadArg}]
    \cup [inst : Instances \cup {Static}, f : {"call"},
        a : RFunctions \cup {BadArg}]
    \cup [inst : {Static}, f : {Functions[n] : n \in DOMAIN Functions}, a : {NoArg}]
    \cup [inst : Instances, f : RFunctions, a : {NoArg}]

ASSUME BoundAssumption == MaxCalls \in Nat
ASSUME FunctionsAssumption ==
    /\ Functions \in Seq(RFunctions)
    /\ Fatal \subseteq RFunctions
    /\ Endless \subseteq RFunctions
    /\ RFunctions \cap {"call", "__createShared__", "__delete__", "+", BadArg} = {}
ASSUME InstancesAssumption ==
    Instances \cap {Static, BadArg, "Session"} = {}
ASSUME MenuAssumption == Menu \subseteq Shapes

VARIABLES
    phase,      \* the parent: "connecting", "serving" or "refused"
    instances,  \* std::vector<std::string> instances
    callId,     \* int call_id
    awaited,    \* awaited_callbacks of the parent
    children,   \* the forks, by the call_id they were made for
    up,         \* packets on the shared socket, written and not yet read
    down,       \* requests the broker has sent to the agent
    subs,       \* the broker's subscriptions of the agent's session
    retained,   \* the broker's retained agentInfo and classInfo
    inbox,      \* replies on their way to each client
    calls,      \* every request issued so far; its index is its number i
    got         \* every reply a client has received, in order

agentVars  == <<phase, instances, callId, awaited>>
brokerVars == <<subs, retained, inbox>>
clientVars == <<calls, got>>
vars == <<agentVars, children, up, down, brokerVars, clientVars>>

----------------------------------------------------------------------------
(* Packets the agent writes. *)

InstanceFilter(x) == <<x, "+">>
StaticFilter(f)   == <<Static, f>>
Filters == ({Static} \cup Instances)
             \X (RFunctions \cup {"call", "__createShared__", "__delete__", "+"})

Subscribe(filter)   == [type |-> "subscribe", filter |-> filter]
Unsubscribe(filter) == [type |-> "unsubscribe", filter |-> filter]
AgentInfo           == [type |-> "agentInfo", status |-> "online"]
ClassInfo(list)     == [type |-> "classInfo", instances |-> list]

(* What a reply reports: a result (j["r"]) or an error (j["e"]) of running *)
(* fn in, or on, session inst.                                             *)
Outcome(tag, fn, inst) == [tag |-> tag, fn |-> fn, inst |-> inst]

(* The json that is sent back: the request's i and s, with c and f set. *)
Context(q) == [i |-> q.i, s |-> q.s, f |-> q.f,
               c |-> IF q.inst = Static THEN "Session" ELSE q.inst]
Reply(j, out) == [type |-> "reply", i |-> j.i, s |-> j.s, c |-> j.c,
                  f |-> j.f, out |-> out]

(* awaited_callbacks once the request with context j is call number id. *)
Registered(id, j) == [awaited EXCEPT ![id] = j]

----------------------------------------------------------------------------
Init ==
    /\ phase = "connecting"
    /\ instances = <<>>
    /\ callId = 0
    /\ awaited = [id \in CallIds |-> Null]
    /\ children = [id \in CallIds |-> Null]
    /\ up = <<>>
    /\ down = <<>>
    /\ subs = {}
    /\ retained = [agentInfo |-> "none", instances |-> <<>>]
    /\ inbox = [c \in Clients |-> <<>>]
    /\ calls = <<>>
    /\ got = <<>>

(* The connack handler announces the agent, subscribes to the static       *)
(* functions and announces the class, or does nothing if refused.          *)
ConnackPackets ==
    <<AgentInfo, Subscribe(StaticFilter("__createShared__")),
      Subscribe(StaticFilter("__delete__")), Subscribe(StaticFilter("call"))>>
    \o [n \in DOMAIN Functions |-> Subscribe(StaticFilter(Functions[n]))]
    \o <<ClassInfo(instances)>>

HandleConnack ==
    /\ phase = "connecting"
    /\ \/ /\ phase' = "serving"
          /\ up' = up \o ConnackPackets
       \/ /\ phase' = "refused"
          /\ up' = up
    /\ UNCHANGED <<instances, callId, awaited, children, down, brokerVars, clientVars>>

(* Slip: the reply is published before the subscription is made. *)
CreatePacketsReplyFirst(x, j) ==
    <<Reply(j, Outcome("created", "__createShared__", x)),
      Subscribe(InstanceFilter(x)), ClassInfo(Append(instances, x))>>

(* __createShared__: no check whether the instance exists already. *)
CreatePackets(x, j) ==
    <<Subscribe(InstanceFilter(x)), ClassInfo(Append(instances, x)),
      Reply(j, Outcome("created", "__createShared__", x))>>

CreateShared(q, j) ==
    /\ q.inst = Static /\ q.f = "__createShared__" /\ q.a # BadArg
    /\ instances' = Append(instances, q.a)
    /\ up' = up \o CreatePackets(q.a, j)
    /\ UNCHANGED children

(* __delete__: std::find and erase take the first entry of that name, the  *)
(* subscription is cancelled whether or not there is one.                  *)
Listed(x) == \E n \in DOMAIN instances : instances[n] = x

(* Slip: the name is found but never erased. *)
WithoutNone(x) == instances

WithoutFirst(x) ==
    LET k == CHOOSE n \in DOMAIN instances :
                /\ instances[n] = x
                /\ \A m \in 1..(n - 1) : instances[m] # x
    IN  SubSeq(instances, 1, k - 1) \o SubSeq(instances, k + 1, Len(instances))

DeleteAnswer(x, j) ==
    IF Listed(x) THEN <<ClassInfo(WithoutFirst(x)),
                        Reply(j, Outcome("deleted", "__delete__", x))>>
                 ELSE <<Reply(j, Outcome("unknown", "__delete__", x))>>

(* Slips: the subscription is kept; it is cancelled after the reply; the   *)
(* shorter list is not announced.                                          *)
DeletePacketsKeepListening(x, j) == DeleteAnswer(x, j)
DeletePacketsReplyFirst(x, j) ==
    DeleteAnswer(x, j) \o <<Unsubscribe(InstanceFilter(x))>>
DeletePacketsUnannounced(x, j) ==
    <<Unsubscribe(InstanceFilter(x)), Reply(j, Outcome("deleted", "__delete__", x))>>

DeletePackets(x, j) == <<Unsubscribe(InstanceFilter(x))>> \o DeleteAnswer(x, j)

Delete(q, j) ==
    /\ q.inst = Static /\ q.f = "__delete__" /\ q.a # BadArg
    /\ instances' = IF Listed(q.a) THEN WithoutFirst(q.a) ELSE instances
    /\ up' = up \o DeletePackets(q.a, j)
    /\ UNCHANGED children

(* The R function a request runs: "call" names it in its first argument. *)
Evaluates(q) == q.f \notin {"__createShared__", "__delete__"} /\ q.a # BadArg

(* Slip: the first argument of "call" is ignored. *)
TargetIsTopic(q) == q.f

Target(q) == IF q.f = "call" THEN q.a ELSE q.f

(* vrpc_call(...): fork a child for call id.  The child owns a copy of     *)
(* awaited_callbacks.  A member call is not checked against instances.     *)
Fork(id, q, table) ==
    [fn |-> Target(q), inst |-> q.inst, table |-> table, st |-> "evaluating"]

VrpcCall(q, id, j) ==
    /\ Evaluates(q)
    /\ children' = [children EXCEPT ![id] = Fork(id, q, Registered(id, j))]
    /\ UNCHANGED <<instances, up>>

(* Slip: vrpc_call fails when the fork runs already. *)
CatchAfterFork(q, j) ==
    /\ q.a = BadArg \/ Evaluates(q)
    /\ up' = Append(up, Reply(j, Outcome("error", Target(q), q.inst)))
    /\ children' = IF Evaluates(q)
                   THEN [children EXCEPT ![callId + 1] =
                            Fork(callId + 1, q, Registered(callId + 1, j))]
                   ELSE children
    /\ UNCHANGED instances

(* An exception inside the handler: an argument of the wrong type, or      *)
(* vrpc_call failing to make the session directory or the fork.            *)
Catch(q, j) ==
    /\ q.a = BadArg \/ Evaluates(q)
    /\ up' = Append(up, Reply(j, Outcome("error", Target(q), q.inst)))
    /\ UNCHANGED <<instances, children>>

(* The event loop can run the publish handler: a request has arrived. *)
(* Slip: only while no fork evaluates.                                *)
RequestWaitingAndIdle ==
    /\ phase = "serving"
    /\ down # <<>>
    /\ \A id \in CallIds : children[id] # Null => children[id].st # "evaluating"

RequestWaiting ==
    /\ phase = "serving"
    /\ down # <<>>

(* The publish handler: every request becomes an awaited callback. *)
HandlePublish ==
    /\ RequestWaiting
    /\ down' = Tail(down)
    /\ callId' = callId + 1
    /\ LET q == Head(down)
           j == Context(q)
       IN  /\ awaited' = Registered(callId', j)
           /\ \/ CreateShared(q, j)
              \/ Delete(q, j)
              \/ VrpcCall(q, callId', j)
              \/ Catch(q, j)
    /\ UNCHANGED <<phase, brokerVars, clientVars>>

----------------------------------------------------------------------------
(* The forked children. *)

Evaluating(id) == children[id] # Null /\ children[id].st = "evaluating"

(* The context on_execution_done finds in the child's own table. *)
(* Slip: under the number of the call before.                    *)
AwaitedOfPrevious(id) == children[id].table[IF id > 1 THEN id - 1 ELSE id]

AwaitedOf(id) == children[id].table[id]

(* json_call ends and on_execution_done publishes the value or the error   *)
(* under that context, which is erased in the child's table only.          *)
ExecutionDone(id) ==
    /\ Evaluating(id)
    /\ children[id].fn \notin Endless
    /\ AwaitedOf(id) # Null
    /\ \E tag \in {"value", "error"} :
          up' = Append(up, Reply(AwaitedOf(id),
                                 Outcome(tag, children[id].fn, children[id].inst)))
    /\ children' = [children EXCEPT ![id].st = "sleeping", ![id].table[id] = Null]
    /\ UNCHANGED <<agentVars, down, brokerVars, clientVars>>

(* The child ends without a reply: an R error outside evaluate(), or the   *)
(* evaluated function ending the process.                                  *)
ChildDies(id) ==
    /\ Evaluating(id)
    /\ children[id].fn \in Fatal
    /\ children' = [children EXCEPT ![id].st = "gone"]
    /\ UNCHANGED <<agentVars, up, down, brokerVars, clientVars>>

(* Sys.sleep(8) is over: quit(save = "no"). *)
ChildQuits(id) ==
    /\ children[id] # Null
    /\ children[id].st = "sleeping"
    /\ children' = [children EXCEPT ![id].st = "gone"]
    /\ UNCHANGED <<agentVars, up, down, brokerVars, clientVars>>

----------------------------------------------------------------------------
(* The broker (external): one ordered session with the agent, reliable     *)
(* while the connection lives.                                             *)
BrokerReads ==
    /\ up # <<>>
    /\ up' = Tail(up)
    /\ LET p == Head(up) IN
        \/ /\ p.type = "subscribe"
           /\ subs' = subs \cup {p.filter}
           /\ UNCHANGED <<retained, inbox>>
        \/ /\ p.type = "unsubscribe"
           /\ subs' = subs \ {p.filter}
           /\ UNCHANGED <<retained, inbox>>
        \/ /\ p.type = "agentInfo"
           /\ retained' = [retained EXCEPT !.agentInfo = p.status]
           /\ UNCHANGED <<subs, inbox>>
        \/ /\ p.type = "classInfo"
           /\ retained' = [retained EXCEPT !.instances = p.instances]
           /\ UNCHANGED <<subs, inbox>>
        \/ /\ p.type = "reply"
           /\ inbox' = [inbox EXCEPT ![p.s] = Append(@, p)]
           /\ UNCHANGED <<subs, retained>>
    /\ UNCHANGED <<agentVars, children, down, clientVars>>

Subscribed(inst, f) == {<<inst, f>>, <<inst, "+">>} \cap subs # {}

(* The clients (external).  A request is issued when the broker takes it:  *)
(* it goes to the agent if a subscription matches, else to nobody.  "after" *)
(* records which requests had been answered by then.                       *)
Answered == {got[n].i : n \in DOMAIN got}

ClientCalls(c) ==
    /\ Len(calls) < MaxCalls
    /\ \E m \in Menu :
        LET q == [i |-> Len(calls) + 1, s |-> c, inst |-> m.inst, f |-> m.f,
                  a |-> m.a, after |-> Answered,
                  routed |-> Subscribed(m.inst, m.f)]
        IN  /\ calls' = Append(calls, q)
            /\ down' = IF q.routed THEN Append(down, q) ELSE down
    /\ UNCHANGED <<agentVars, children, up, brokerVars, got>>

ClientReceives(c) ==
    /\ inbox[c] # <<>>
    /\ got' = Append(got, Head(inbox[c]))
    /\ inbox' = [inbox EXCEPT ![c] = Tail(@)]
    /\ UNCHANGED <<agentVars, children, up, down, subs, retained, calls>>

----------------------------------------------------------------------------
Next ==
    \/ HandleConnack
    \/ HandlePublish
    \/ \E id \in CallIds : ExecutionDone(id) \/ ChildDies(id) \/ ChildQuits(id)
    \/ BrokerReads
    \/ \E c \in Clients : ClientCalls(c) \/ ClientReceives(c)

Spec == Init /\ [][Next]_vars

(* The event loop, every fork whose function returns, the broker and the   *)
(* clients' receivers keep running; nobody is obliged to issue a request.  *)
Fairness ==
    /\ WF_vars(HandleConnack)
    /\ WF_vars(HandlePublish)
    /\ \A id \in CallIds : WF_vars(ExecutionDone(id))
    /\ WF_vars(BrokerReads)
    /\ \A c \in Clients : WF_vars(ClientReceives(c))

FairSpec == Spec /\ Fairness

----------------------------------------------------------------------------
(* Type correctness. *)
Requests == [i : CallIds, s : Clients, inst : Instances \cup {Static},
             f : RFunctions \cup {"call", "__createShared__", "__delete__"},
             a : RFunctions \cup Instances \cup {BadArg, NoArg},
             after : SUBSET CallIds, routed : BOOLEAN]
Contexts == [i : CallIds, s : Clients, c : Instances \cup {"Session"},
             f : RFunctions \cup {"call", "__createShared__", "__delete__"}]
Outcomes == [tag : {"created", "deleted", "unknown", "value", "error"},
             fn : RFunctions \cup {"__createShared__", "__delete__", BadArg},
             inst : Instances \cup {Static}]
Replies  == [type : {"reply"}, i : CallIds, s : Clients,
             c : Instances \cup {"Session"},
             f : RFunctions \cup {"call", "__createShared__", "__delete__"},
             out : Outcomes]
Packets  == Replies
            \cup [type : {"subscribe", "unsubscribe"}, filter : Filters]
            \cup [type : {"agentInfo"}, status : {"online"}]
            \cup [type : {"classInfo"}, instances : Seq(Instances)]
Tables   == [CallIds -> Contexts \cup {Null}]
Children == [fn : RFunctions, inst : Instances \cup {Static}, table : Tables,
             st : {"evaluating", "sleeping", "gone"}]

TypeOK ==
    /\ phase \in {"connecting", "serving", "refused"}
    /\ instances \in Seq(Instances)
    /\ callId \in 0..MaxCalls
    /\ awaited \in Tables
    /\ children \in [CallIds -> Children \cup {Null}]
    /\ up \in Seq(Packets)
    /\ down \in Seq(Requests)
    /\ subs \subseteq Filters
    /\ retained \in [agentInfo : {"none", "online"}, instances : Seq(Instances)]
    /\ inbox \in [Clients -> Seq(Replies)]
    /\ calls \in Seq(Requests)
    /\ got \in Seq(Replies)

----------------------------------------------------------------------------
(* Replies: which call each answers, and how many each call gets. *)

RepliesIn(s) == {s[n] : n \in {m \in DOMAIN s : s[m].type = "reply"}}
AllReplies == RepliesIn(up) \cup RepliesIn(got)
              \cup UNION {RepliesIn(inbox[c]) : c \in Clients}

(* What a correct answer to request q says it did, and where. *)
Administers(q) == q.f \in {"__createShared__", "__delete__"} /\ q.a # BadArg
Answers(p, q) ==
    /\ p.s = q.s
    /\ p.f = q.f
    /\ p.c = (IF q.inst = Static THEN "Session" ELSE q.inst)
    /\ p.out.inst = (IF Administers(q) THEN q.a ELSE q.inst)
    /\ p.out.fn = (IF q.f = "call" THEN q.a ELSE q.f)
    /\ p.out.tag \in (IF ~Administers(q) THEN {"value", "error"}
                      ELSE IF q.f = "__createShared__" THEN {"created"}
                      ELSE {"deleted", "unknown"})

(* However calls, forks and their endings interleave, every reply goes to  *)
(* the client that made the call it names, carries that call's function    *)
(* and class or instance, and reports running that call's function in that *)
(* call's session: awaited_callbacks, the call_id handed to vrpc_call and  *)
(* the copy in the fork belong together.                                   *)
RepliesAnswerTheirCalls ==
    \A p \in AllReplies : p.i \in DOMAIN calls /\ Answers(p, calls[p.i])

RepliesTo(i, s) == {n \in DOMAIN s : s[n].type = "reply" /\ s[n].i = i}

(* No call is answered twice, by the parent and a fork or by two forks.    *)
OneReplyPerCall ==
    \A i \in DOMAIN calls :
        Cardinality(RepliesTo(i, up)) + Cardinality(RepliesTo(i, got))
        + Cardinality(RepliesTo(i, inbox[calls[i].s])) <= 1

----------------------------------------------------------------------------
(* The directory of instances, as agent, broker and clients see it. *)

(* The agent is, or with the packets under way will be, subscribed to x.   *)
Listening(x) ==
    \/ \E n \in DOMAIN up :
          /\ up[n] = Subscribe(InstanceFilter(x))
          /\ \A m \in DOMAIN up : m > n => up[m] # Unsubscribe(InstanceFilter(x))
    \/ /\ InstanceFilter(x) \in subs
       /\ \A m \in DOMAIN up : up[m] # Unsubscribe(InstanceFilter(x))

(* An instance the agent takes calls for is in its list: no order of       *)
(* creations and deletions by several clients leaves a session that is     *)
(* reachable but that nobody can discover.                                 *)
ReachableIsListed == \A x \in Instances : Listening(x) => Listed(x)

ClassInfos == {n \in DOMAIN up : up[n].type = "classInfo"}

(* The list a discovering client sees, once what is under way arrived, is  *)
(* the agent's own: every change of instances is followed by an            *)
(* announcement of the changed list.                                       *)
DirectoryFollowsAgent ==
    IF ClassInfos = {} THEN retained.instances = instances
    ELSE \E n \in ClassInfos : /\ \A m \in ClassInfos : m <= n
                              /\ up[n].instances = instances

Issued(f, x) == {i \in DOMAIN calls : calls[i].f = f /\ calls[i].a = x}
ReceivedFor(f, x) == {n \in DOMAIN got : got[n].out.fn = f /\ got[n].out.inst = x}

(* When a client is told that x was created, x can be discovered and       *)
(* called, unless a deletion of x was issued that had not been answered    *)
(* when that creation was issued: the reply overtakes neither the          *)
(* subscription nor the announcement.                                      *)
CreatedIsUsable ==
    \A x \in Instances : \A n \in ReceivedFor("__createShared__", x) :
        Issued("__delete__", x) \subseteq calls[got[n].i].after
        => /\ Subscribed(x, "call")
           /\ \E k \in DOMAIN retained.instances : retained.instances[k] = x

(* When a client was told the outcome of deleting x, no call of x reaches  *)
(* the agent any more, until a creation of x that the deletion had not     *)
(* seen answered.                                                          *)
DeletedIsUnreachable ==
    \A x \in Instances : \A n \in ReceivedFor("__delete__", x) :
        Issued("__createShared__", x) \subseteq calls[got[n].i].after
        => ~Subscribed(x, "call")

Tagged(tag, x) == {n \in DOMAIN got : got[n].out.tag = tag /\ got[n].out.inst = x}

(* Clients that race to delete an instance: no more of them are told TRUE  *)
(* than creations of it were issued.                                       *)
OneDeletionPerCreation ==
    \A x \in Instances :
        Cardinality(Tagged("deleted", x)) <= Cardinality(Issued("__createShared__", x))

----------------------------------------------------------------------------
(* What the code's comments promise and the code does not do. *)

(* start_vrpc_agent.cpp:32, "availabe VRPC instances": what is listed can  *)
(* be called.                                                              *)
ListedIsReachable == \A x \in Instances : Listed(x) => Listening(x)

----------------------------------------------------------------------------
(* Every request that reached the agent is answered if its function        *)
(* returns and does not end the fork, whatever the other forks do: calls   *)
(* that never return hold up nobody.                                       *)
CallsAreAnswered ==
    \A i \in CallIds :
        (/\ phase = "serving"
         /\ i \in DOMAIN calls
         /\ calls[i].routed
         /\ Target(calls[i]) \notin Fatal \cup Endless)
        ~> (i \in Answered)
=============================================================================
