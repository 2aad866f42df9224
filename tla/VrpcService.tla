---------------------------- MODULE VrpcService ----------------------------
(***************************************************************************)
(* The agent and its sessions together: VrpcAgent, whose forks run the     *)
(* json_call of RSession.  The publish handler that calls vrpc_call starts *)
(* a call of a session; a fork replies when its session is saved, with     *)
(* what it evaluated, and ends without a reply when json_call stops.       *)
(* Clients ask once the agent takes requests, and call a session again     *)
(* when every earlier call of it that was routed to the agent is answered  *)
(* or, its fork being gone, given up; else they wait for nothing.  A fork  *)
(* that has replied is left asleep: VrpcAgent!ChildQuits changes nothing   *)
(* for anybody else.                                                       *)
(***************************************************************************)
EXTENDS VrpcAgent

CONSTANTS
    Slots, Ops,  \* see RSession
    OpOf,        \* what each R function does to its session
    MaxOpen,     \* bound: requests routed to the agent and not answered
    MaxStatic    \* bound: calls of static functions

ASSUME CompositionAssumption ==
    /\ Endless = {} /\ Fatal = RFunctions \* forks end as their sessions let them
    /\ OpOf \in [RFunctions -> Ops]
    /\ MaxOpen \in Nat /\ MaxStatic \in Nat

VARIABLES
    file, fork,  \* the sessions, see RSession
    reported     \* what the reply to each request says

Sessions == INSTANCE RSession WITH Sequential <- FALSE

serviceVars == <<vars, file, fork, reported>>

Unreported == Sessions!NoOutput
Done    == [done |-> TRUE]
Refused == [refused |-> TRUE]

ServiceInit ==
    /\ Init /\ Sessions!Init
    /\ reported = [i \in CallIds |-> Unreported]

(* The forks are the calls of RSession, in the order they were made. *)
ForkOf(id) == Cardinality({k \in 1..id : children[k] # Null})

----------------------------------------------------------------------------
(* The publish handler, with the call of the session it makes. *)
Reports(i, what) == reported' = [reported EXCEPT ![i] = what]

HandleRequest ==
    /\ HandlePublish
    /\ LET q == Head(down)
           made == children'[callId']
       IN  \/ /\ made # Null
              /\ Sessions!VrpcCall(ForkOf(callId) + 1, made.inst, OpOf[made.fn])
              /\ UNCHANGED reported
           \/ /\ made = Null
              /\ Reports(q.i, IF Administers(q) THEN Done ELSE Refused)
              /\ UNCHANGED <<file, fork>>

(* A fork goes on with json_call, or is stopped outside evaluate. *)
SessionStep(p) ==
    \/ Sessions!AttachStatic(p) \/ Sessions!Attach(p) \/ Sessions!Evaluate(p)
    \/ Sessions!SaveBegins(p) \/ Sessions!SaveEnds(p) \/ Sessions!ReplyFails(p)

ForkRuns(id) ==
    /\ Evaluating(id)
    /\ SessionStep(ForkOf(id))
    /\ IF fork'[ForkOf(id)].pc \in {"unreadable", "unresolved", "unsent"}
       THEN ChildDies(id) ELSE UNCHANGED vars
    /\ UNCHANGED reported

ForkReplies(id) ==
    /\ ExecutionDone(id) /\ Sessions!ExecutionDone(ForkOf(id))
    /\ LET out == fork[ForkOf(id)].out IN
        /\ up'[Len(up')].out.tag = (IF out.ok THEN "value" ELSE "error")
        /\ Reports(AwaitedOf(id).i, out)

StaticTopics == {"call", "__createShared__", "__delete__"} \cup {Functions[n] : n \in DOMAIN Functions}

(* Clients wait for a session's answers, but not for those of a fork that  *)
(* has ended.                                                              *)
Open    == {i \in DOMAIN calls : calls[i].routed /\ i \notin Answered}
Ended   == {id \in CallIds : children[id] # Null /\ children[id].st = "gone"}
GivenUp == {awaited[id].i : id \in Ended}
Waiting == Open \ GivenUp

StaticCalls(cs) == {i \in DOMAIN cs : cs[i].inst = Static /\ ~Administers(cs[i])}

ClientAsks(c) ==
    /\ \A f \in StaticTopics : StaticFilter(f) \in subs
    /\ Cardinality(Open) < MaxOpen
    /\ ClientCalls(c)
    /\ Cardinality(StaticCalls(calls')) <= MaxStatic
    /\ LET q == calls'[Len(calls')] IN
        q.inst # Static => \A i \in Waiting : calls[i].inst # q.inst

(* What does not touch the sessions: the agent, the broker, the clients. *)
Elsewhere == UNCHANGED <<file, fork, reported>>
Connacks    == HandleConnack /\ Elsewhere
Reads       == BrokerReads /\ Elsewhere
Issues(c)   == ClientAsks(c) /\ Elsewhere
Receives(c) == ClientReceives(c) /\ Elsewhere

ServiceNext ==
    \/ HandleRequest \/ Connacks \/ Reads
    \/ \E id \in CallIds : ForkRuns(id) \/ ForkReplies(id)
    \/ \E c \in Clients : Issues(c) \/ Receives(c)

ServiceSpec == ServiceInit /\ [][ServiceNext]_serviceVars

(* As in VrpcAgent and RSession: the event loop, the forks, the broker and *)
(* the clients' receivers go on.                                           *)
FairService ==
    /\ ServiceSpec
    /\ WF_serviceVars(Connacks) /\ WF_serviceVars(HandleRequest) /\ WF_serviceVars(Reads)
    /\ \A id \in CallIds : WF_serviceVars(ForkRuns(id) \/ ForkReplies(id))
    /\ \A c \in Clients : WF_serviceVars(Receives(c))

----------------------------------------------------------------------------
(* What clients are promised, and where it takes effect: a creation or a   *)
(* deletion when the broker has read its packet, a call when its session   *)
(* is saved.                                                               *)
Question(q) ==
    [target |-> IF q.inst = Static THEN q.f ELSE q.inst,
     inst   |-> IF Administers(q) THEN q.a ELSE q.inst,
     does   |-> IF q.f = "__createShared__" THEN "create"
                ELSE IF q.f = "__delete__" THEN "delete" ELSE Target(q)]

IdsFor(i) == {id \in 1..callId : awaited[id].i = i}

(* RSession numbers the forks, clients their requests. *)
RequestOf(p) ==
    IF p = Sessions!Unset THEN p
    ELSE awaited[CHOOSE id \in CallIds : children[id] # Null /\ ForkOf(id) = p].i
OfRequests(env) == [s \in Slots |-> RequestOf(env[s])]
OutOfRequest(out) ==
    [ok |-> out.ok, saw |-> RequestOf(out.saw), by |-> RequestOf(out.by)]

(* The packet by which request i opens or closes a session is not read. *)
IsFilterOf(n, x) == up[n] \in {Subscribe(InstanceFilter(x)), Unsubscribe(InstanceFilter(x))}
RepliesFrom(n) == {m \in n..Len(up) : up[m].type = "reply"}
Unread(i) ==
    \E n \in DOMAIN up : \E x \in Instances :
        /\ IsFilterOf(n, x)
        /\ \E m \in RepliesFrom(n) : up[m].i = i /\ \A k \in RepliesFrom(n) : m <= k

CallResult(id) ==
    IF children[id] = Null THEN Refused
    ELSE IF fork[ForkOf(id)].pc \in {"saved", "replied", "unsent"} THEN OutOfRequest(fork[ForkOf(id)].out)
    ELSE Unreported

Result(i) ==
    IF IdsFor(i) = {} \/ Unread(i) THEN Unreported
    ELSE IF Administers(calls[i]) THEN Done
    ELSE CallResult(CHOOSE id \in IdsFor(i) : TRUE)

Told(i) ==
    IF i \notin Answered THEN Unreported
    ELSE IF reported[i] \in {Done, Refused} THEN reported[i]
    ELSE OutOfRequest(reported[i])

AcceptsFn(env, fn)     == Sessions!Resolves(env, OpOf[fn])
EffectOfFn(env, fn, i) == Sessions!Evaluated(env, OpOf[fn], i)
OutputOfFn(env, fn, i) == Sessions!Returned(env, OpOf[fn], i)

Service == INSTANCE RpcService WITH
    Asks <- CallIds, StaticFunctions <- StaticTopics,
    Questions <- {Question([inst |-> m.inst, f |-> m.f, a |-> m.a]) : m \in Menu},
    Fresh <- Sessions!Fresh, Nothing <- Unreported,
    Accepts <- AcceptsFn, Effect <- EffectOfFn, Output <- OutputOfFn,
    open   <- {x \in Instances : InstanceFilter(x) \in subs}
              \cup {f \in StaticTopics : StaticFilter(f) \in subs},
    state  <- [x \in Instances |-> OfRequests(Sessions!SavedState(x))],
    question <- [i \in CallIds |->
                    IF i \in DOMAIN calls
                    THEN [asked |-> Question(calls[i]), heard |-> calls[i].routed]
                    ELSE Unreported],
    result <- [i \in CallIds |-> Result(i)],
    answer <- [i \in CallIds |-> Told(i)]

(* Agent, forks, session directories and the shared connection together    *)
(* keep the promise of RpcService to clients that wait for the answers of  *)
(* a session before they call it again, whatever else they and others ask  *)
(* meanwhile, of this session's creation and deletion, too.                *)
ImplementsRpc == Service!Spec

(* To such clients every request that reaches the agent is answered, or    *)
(* its fork has ended, which it does only if the request refers to an      *)
(* object or its reply is frail: as requests are bounded, again and again  *)
(* no other is open.                                                       *)
ServiceAnswers ==
    []<>(\A i \in Open : /\ ~Administers(calls[i]) /\ i \in GivenUp
                        /\ \/ OpOf[Target(calls[i])].ref # Sessions!NoSlot
                           \/ OpOf[Target(calls[i])].frail)
=============================================================================
