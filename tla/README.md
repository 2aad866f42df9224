# A verification of the VRPC R agent

This directory models the program in `src/`: an agent that makes the functions
of an R session callable over MQTT. The TLA+ modules describe its components,
TLC checks them on small instances, and TLAPS proves theorems about them for
every value of their constants. All line numbers refer to the files in `src/`.

Contents: 1 the system, 2 the modules and how they map to the code, 3 the runs,
4 bounds and fairness, 5 what is proved, 6 what the code does not keep, 7 what
is not modelled, 8 the plan.

## 1. The system

    VRPC clients  <-->  MQTT broker  <-->  one TCP connection
                                              |
                              agent process (parent): event loop
                                start_vrpc_agent.cpp, mqtt/*.hpp
                                              | fork per call (mcparallel)
                              forks: json_call in Adapter.R
                                load .RData, evaluate, save .RData,
                                publish the reply on the same connection

| component | source | state | operations |
|---|---|---|---|
| agent core | `vrpc/src/start_vrpc_agent.cpp` | `instances` (33), `call_id` (41), `awaited_callbacks` (42), the connection's `client` (38), whether the process lives | connack handler (263), publish handler (286), `on_execution_done` (212), shutdown handler (389) |
| R adapter | `vrpc/R/Adapter.R` | one directory per session with `.RData`; the environment of each fork | `vrpc_call` (1), `json_call` (38), `attach_session` (119), `save_session` (129) |
| packet-id allocator | `vrpc/src/mqtt/value_allocator.hpp` | set of intervals of free values | allocate, deallocate, use, clear |
| packet ids | `vrpc/src/mqtt/packet_id_manager.hpp` | an allocator of 1..65535 | acquire, register, release, clear |
| MQTT endpoint | `vrpc/src/mqtt/endpoint.hpp` | store of unacknowledged publishes, ids of subscriptions in flight, handled QoS 2 ids, connection state | publish, subscribe, unsubscribe, process_puback ..., errors |
| MQTT client | `vrpc/src/mqtt/client.hpp` | close and ping timers, will | connect, disconnect, force_disconnect |
| vendored remainder | `vrpc/src/mqtt/*`, `vrpc/src/json.hpp` | - | packet encoding, server, other transports, JSON |

How they interact. The event loop calls the publish handler for each request.
The handler stamps it with the next `call_id`, files it in `awaited_callbacks`
and either answers it itself (`__createShared__`, `__delete__`, errors) or calls
the R function `vrpc_call`, which forks. The fork inherits copies of the table,
of the packet ids and of the socket: it looks its request up in *its copy* of
the table and writes the reply to the *shared* connection. The parent never
hears from it again. Forks of one session share nothing but the session's files.

What is hard here: several processes write to one connection; forks of one
session overlap and have no lock; a reply is matched by a number in a table that
has as many copies as there are forks; announcements, subscriptions and replies
must leave in the right order; calls may fail, kill their fork or never return;
all state lives in memory or in files that are overwritten in place.
`PROJECT.json` lists each hazard at its line with the properties that cover it.

What makes each component correct:

* agent core: a reply belongs to the call it answers; a call gets one; the
  announced instances, the subscriptions and the answers clients have received
  agree; calls that return are answered whatever the other calls do.
* R adapter: a session behaves as a state on which calls take effect one at a
  time (for clients that wait); sessions are separate (always); state is lost
  only where calls overlapped; errors reach the client.
* packet ids: no id is handed out twice and none is lost.
* endpoint: an id stays in use until its handshake ends; a stored publish
  is sent again after reconnection; an incoming one is handled before it is settled.
* life cycle: an agent that is interrupted or loses its connection ends; clients learn
  that it is gone, and how it left.
* the whole: a request that is heard takes effect once, whole, between the question and
  the answer, on the state of the session it addresses.

## 2. The modules

### VrpcAgent (agent core)

| variable | in the code |
|---|---|
| `phase` | connection not yet / accepted (connack handler) |
| `instances` | `instances`, a vector: names may repeat |
| `callId`, `awaited` | `call_id`, the parent's `awaited_callbacks` |
| `children` | the forks: their copy of the entry, what they evaluate, where |
| `up`, `down` | packets sent to and received from the broker, in TCP order |
| `subs`, `retained` | what the broker knows: subscriptions, retained info |
| `inbox`, `calls`, `got` | environment: replies under way to clients, calls made, replies held |

`HandleConnack` and `HandlePublish` are the two handlers, whole. `HandlePublish`
has one disjunct per way through the code: `CreateShared`, `Delete`, `VrpcCall`
(four branches that differ in where the function's name comes from) and `Catch`.
A handler is one step because the event loop has one thread and the packets it
sends are queued on one connection; forks, on the other hand, interleave with it
and with each other between any two steps. `ExecutionDone` is
`on_execution_done` in a fork, `ChildDies` a fork that ends without a reply,
`ChildQuits` the end of a fork after its sleep. `BrokerReads`, `ClientCalls` and
`ClientReceives` are the environment: a broker that applies the packets of a
connection in order and delivers each publish at QoS 1 without loss, and clients
that choose requests from `Menu`.

### RSession and SessionService (R adapter)

`RSession` has the session's file (`.RData`: absent, torn while it is being
written, readable, or corrupt) and the forks' program counters and environments.
An environment maps slots (the variables of the session and the `.<function>`
results that `"$..."` arguments refer to) to the call that last assigned them,
so that "whose state do I see" can be asked of every call. `Attach`, `Evaluate`,
`SaveBegins`, `SaveEnds` and `ExecutionDone` are the steps of `json_call`, one
per access to the file. Three places outside `evaluate` stop the fork without a reply: a
file that cannot be loaded (`Attach`), a reference that does not resolve (`Evaluate`), and,
when the session is saved already, a reply that cannot be made (`ReplyFails`): `prepare_output`
and `extract_graphics` draw a plot in place of a value that is NULL or has no JSON form, and that may stop
(Adapter.R:201, 204), as may the conversion to text (start_vrpc_agent.cpp:225). Calls for which it may
happen are `frail`. `save()` truncates the file when it begins; saves that
overlap leave one of the environments written, or an unreadable file, and a load
during them finds what a finished one wrote or fails. `Sequential` says whether
clients wait for a reply before they call the same session again.

`SessionService` is what a client is promised: calls take effect once, whole and
one after the other on the state of the instance they name, and return what that
state gives. Under `Sequential`, `RSession` implements it; a call takes
effect when its save is closed.

### ValueAllocator and IdPool (packet ids)

`ValueAllocator` is the interval set, with the container's own behaviour where the
code relies on it: an element is equal to another if neither lies below it,
`emplace` refuses such an element and `modify` erases it. Releasing a free value
is allowed, because users of the allocator do it (`clean_sub_unsub_inflight`
releases ids that may have been released before, endpoint.hpp:10226). `IdPool` is a
set of free values of which the least is handed out.

### MqttEndpoint (packet ids and store of the MQTT endpoint)

| variable | in the code |
|---|---|
| `conn` | `connected_`, `mqtt_connected_`: "off", "opening" after CONNECT, "on" after CONNACK |
| `free` | `pid_man_`, as the set of free values that `ValueAllocator` implements |
| `store` | `store_` along its sequence index: id, awaited packet, packet to resend |
| `inflight` | `sub_unsub_inflight_` |
| `link`, `up`, `down` | the TCP connection and what is under way on it |
| `handledIds`, `handled` | `qos2_publish_handled_`; the incoming publishes the handler was called with |
| `session`, `received`, `delivered` | the broker: its session, QoS 2 ids not yet released, messages passed on |
| `incoming` | the broker: its publishes to the client, each sent, released, settled or discarded |
| `made`, `dropped`, `orphaned`, `subs`, `breaks` | history and bounds |

One action per API call or packet handler, each whole: `DoPublish` acquires,
stores and writes; `ProcessPubrec` erases the publish, stores the PUBREL and writes
it; `ProcessConnack` resends or clears everything. `HandleError` is what the next read
finds after `Break`; between the two, writes are lost without notice, as in
`do_sync_write`. `Connect` may ask for a clean session (the agent does) or not.
Publishing and subscribing without a connection is possible and modelled;
`WaitsForConnack` says whether users wait for the CONNACK.

`BrokerPublishes` is a publish to the client; on each new connection of its session the broker
sends again what is not settled. `ProcessPublish` calls the handler and then acknowledges,
`ProcessPubrel` forgets the id and completes. The ids of handled QoS 2 publishes are kept and
never looked at, so that a publish whose PUBREC is lost is handled again. `NothingMissed`
says what holds: nothing is settled unhandled. Its mutant looks at them, and loses
messages, since the ids outlive their session.

`forks` are the agent's forks as the endpoint sees them: each is the set of ids that were
free when it was made (its copy of `pid_man_`). `ForkPublishes` is its one publish: it
takes the least of *its* free ids and writes to the shared connection, if that has not
broken since. Its acknowledgement goes to the parent, whose `ProcessPuback` erases and releases
as if the id were its own. `mixed` records the ids that were in use by a fork and by another at
the same time, which the code cannot know and the properties have to except: the acknowledgement
of the one erases, releases or completes the other, and the broker may take a QoS 2 publish for one
that it has. `DeliveredInOrder` excepts such messages, too: what the broker took for an
earlier message and skipped is first delivered when it is sent again, behind later ones.

### AgentLifecycle (how the agent lives and ends)

| variable | in the code |
|---|---|
| `run` | the agent is started again by its operator; each run has a connection of its own |
| `proc` | the parent: running, inside a publish with `store_mtx_` held, stuck, ended (`ioc.run` returned), died |
| `conn`, `timer` | `connected_` / `mqtt_connected_`; `tim_close_`, and its posted `force_disconnect` |
| `forks` | each fork's run, the kind of request it evaluates, and how far it is |
| `out` | the writes each process has yet to do |
| `pending`, `signals` | SIGINTs sent and not yet delivered |
| `up`, `broker`, `down` | what was written to each connection, what the broker thinks of it, what it sent |
| `lost` | connections that went silent |
| `retained` | the retained `__agentInfo__`, as a client understands it |

Here a handler is *not* one step. A handler or a fork decides what it will send (`out`), each
write of a packet is a step (`Write`), and writes of all processes interleave on the one
connection. A large reply takes two writes; the broker closes the connection when something
else comes between them (`IsTorn`). A signal handler runs to its end before what it
interrupted goes on: its writes come first. One that interrupts a publish holding
`store_mtx_`, a `std::mutex` (endpoint.hpp:9075, client.hpp:36), waits for itself for ever
(`Sticks`); a handler enters that state once, at its first publish, which stands for each of
its publishes. A Ctrl-C reaches the whole process group, so that each fork runs the
same handler on its copy of the client. The handlers of the publish callback end the process
when they throw (`Terminates`): the callback is `noexcept`. A fork keeps the socket open: the broker
sees the end of a connection only when parent and all forks of that run are gone (`Held`).

Assumed: the socket's send buffer takes every write; the broker has read the CONNECT of an
earlier run when the agent is started again; a fork does not touch the files of the parent's R
session when it quits.

### VrpcService and RpcService (agent and sessions together)

`VrpcService` composes `VrpcAgent` and `RSession`. `HandleRequest` is the publish handler
together with the call of the session that `vrpc_call` starts, `ForkRuns` a step of `json_call`
in that call's fork (which dies if the step stops it, before or after the save: `ChildDies`), `ForkReplies` the end
of `json_call` and `on_execution_done` in one: what is written is what the session's call
returned. `ForkOf` relates the numbering of calls in the agent to that of forks.

`RpcService` is the promise to clients of both together: what can be called is `open`; a
request is heard if what it addresses is open when it is asked; what is heard takes effect once (opening or
closing a session, transforming a session's state) or is refused without effect; the answer
is the request's own result. In the refinement a creation or deletion takes effect when the
broker has read its (un)subscription, and a call when its session is saved. The state of a
session outlives its deletion, as its directory does (Adapter.R:32).
Clients wait for the answers of a session before they call it again (what happens if they
do not is the business of `session_overlap` and `session_maintained`), or until the fork that would give the
answer has ended without one (`GivenUp`), and for nothing else: a
session may be deleted, and created again, while a call of it is queued or at work.

Operators named as a "Slip" above a definition are plausible mistakes in that
definition. They are used by no specification: each is the evidence that a
property can fail (`PROJECT.json`, "mutants").

## 3. The runs

| run | module | what it asks |
|---|---|---|
| `agent_calls` | MCVrpcAgent | three overlapping calls of every shape, with forks that die and forks that never return: `TypeOK`, `OneReplyPerCall`, `CallsAreAnswered` |
| `agent_directory` | MCVrpcAgent | four create, delete and call requests on one name by two clients: `RepliesAnswerTheirCalls`, `ReachableIsListed`, `DirectoryFollowsAgent`, `CreatedIsUsable`, `DeletedIsUnreachable`, `OneDeletionPerCreation` |
| `agent_listed` | MCVrpcAgent | violation: `ListedIsReachable` |
| `session_sequential` | MCRSession | `ImplementsService` and `CallsAreAnswered` with clients that wait; two sessions and static calls |
| `session_overlap` | MCRSession | `LostOnlyToOverlap`, `UnreadableOnlyByOverlap`, `SessionsSeparate`: three calls on two sessions and none, in every overlap |
| `session_maintained` | MCRSession | violation: `StateMaintained` |
| `service` | MCVrpcService | `ImplementsRpc` and `ServiceAnswers`: agent and sessions together, with sessions created, deleted and created again, and calls stopped before or after their effect |
| `allocator` | ValueAllocator | `Separated`, `ImplementsPool` |
| `endpoint_ids` | MqttEndpoint | `IdsAreUnique`, `NothingForgotten`, `DeliveredOnce`, `DeliveredInOrder`, `IdsComeBack` over broken connections and ended sessions, at QoS 1 and 2, with a fork; `NothingMissed` for publishes from the broker |
| `endpoint_forked` | MqttEndpoint | violation: `ForksShareNoIds` |
| `lifecycle` | AgentLifecycle | `LeavesOffline`, `NewRunSpeaks`, `InterruptedEnds`, `InterruptedIsTold`, `LossEndsAgent`, `GoneIsNoticed`: two runs, a request of any kind, an interrupt, broken connections, a killed parent |
| `lifecycle_will` | AgentLifecycle | violation: `WillSaysOffline` |

`TypeOK` is checked once per module. The runs of the agent and of the sessions
stop when all calls are made, those of the endpoint when all messages are, an agent ends when it is told to, so deadlock is not
checked there; the allocator never stops and is checked for deadlock.

## 4. Bounds and fairness

* `agent_calls`: `MaxCalls = 3`, one client, one instance, three R functions of which
  one may kill its fork and one never returns. Three calls are what it takes for an entry of the table
  to have a neighbour on both sides while forks finish in another order; the menu
  has a request for each branch of the handler and the malformed ones. Which client asks makes a
  difference to `RepliesAnswerTheirCalls` only, which `agent_directory` checks with two (and
  `RepliesCorrect` proves for any number).
* `agent_directory`: `MaxCalls = 4`: the shortest histories that break the
  directory (create, create, delete; create, delete, create) and one call to
  observe the outcome. A second instance name would not interact with the first:
  the handler's branches touch only the name they are given.
* `service`: `MaxCalls = 5` allows to create a session, set a variable, delete and
  create the session again and look; `MaxOpen = 2` requests under way at a time let a deletion or
  creation race with a call; those given up count, so that one leaves room for more. Clients ask when the static functions are subscribed. The session sets
  and draws: the reference of a drawing call resolves after a call that set, and its reply is made or not,
  after which the session is called again. One static call (`MaxStatic`), whose reference does not resolve, is
  stopped beside them; static calls leave nothing that another could meet.
* sessions: three calls on two sessions allow two overlapping savers and a later call
  on one session, or a call on another; the operations set, look, use a result, fail after
  setting, and draw (`frail`); three slots are the fewest in which a variable, a
  function's result and another's differ. Two sessions suffice to pass state from one to
  another.
* allocator: seven values allow four intervals, one more than any operation
  touches, with gaps at both ends of the range.
* endpoint: three messages with two ids make ids run out and be reused; two broken
  connections allow a message to be sent three times, a CONNACK to be lost, and an id
  released by one error to be in use at the next. One fork suffices to use an id at the same
  time as the parent; what it does to the parent does not depend on where the second id comes from. The subscription of `endpoint_ids` is made
  after the last break (`SubscribesFrom`), so that at most one error follows it, that of a break
  not noticed before: the second error of section 6 is not exercised. Its users subscribe when connected, as the agent does, and
  publish at any time but between CONNECT and CONNACK. Two incoming publishes let the second have the
  id the first had in a session that ended; histories that have any are bounded by
  `MaxTraffic = 3` publishes, subscriptions and forks together, since the two directions share
  the connection but no id. Section 6 says what happens otherwise.
* `lifecycle`: two runs let the leftovers of one meet the next; one request makes one fork, whose
  writes meet those of the parent; one interrupt reaches parent and fork at different moments.
  All kinds of requests, silent connections and a killed parent are included.

Fairness. `VrpcAgent!Fairness` is weak fairness of each process on its own: the
event loop handles what it received, the broker and TCP move packets on, and a
fork whose function returns replies. A fork of an `Endless` function has no step
that replies, one of a `Fatal` function may end at any moment without a reply, and
`CallsAreAnswered` speaks of the other calls only. Nothing assumes that clients
make calls. `RSession!FairSpec` is weak fairness of each fork's steps: a started
process is scheduled by the operating system and the functions of that run return.
Weak fairness is enough, since no step of a fork can be disabled by another process.
`MqttEndpoint!FairSpec` is weak fairness of connecting, of noticing a broken connection, of
the event loop's handling of packets and of the broker; connections break at most
`MaxBreaks` times, so that one of them holds. Reconnecting is left to users of the endpoint
(the agent itself never does it).
`VrpcService!FairService` is the same fairness of the same processes: event loop, forks, broker,
receivers. `AgentLifecycle!FairSpec` is weak fairness of the parent, of each fork and
of the broker on each connection: processes that can run do, timers expire, what arrives is
read. A fork that evaluates an endless function has no step until it is interrupted. TCP need not give up
on a silent connection, operators need not start or interrupt anything, and clients need not call.

## 5. What is proved

Every invariant of every passing run is a theorem, for all values of the constants, and so are the
refinements of the allocator and of the sessions.

| theorem | module | statement |
|---|---|---|
| `TypeCorrect` | VrpcAgentProofs | `Spec => []TypeOK` |
| `RepliesCorrect` | VrpcAgentProofs | `Spec => []RepliesAnswerTheirCalls` |
| `AnsweredAtMostOnce` | VrpcReplyProofs | `Spec => []OneReplyPerCall` |
| `ReachableListed` | VrpcDirectoryProofs | `Spec => []ReachableIsListed` |
| `DirectoryCurrent` | VrpcDirectoryProofs | `Spec => []DirectoryFollowsAgent` |
| `CreatedUsable` | VrpcDirectoryProofs | `Spec => []CreatedIsUsable` |
| `DeletedUnreachable` | VrpcDirectoryProofs | `Spec => []DeletedIsUnreachable` |
| `DeletedAtMostOnce` | VrpcDirectoryProofs | `Spec => []OneDeletionPerCreation` |
| `TypeCorrect` | RSessionProofs | `Spec => []TypeOK` |
| `SessionsAreSeparate` | RSessionProofs | `Spec => []SessionsSeparate` |
| `UnreadableOnlyToOverlapping` | RSessionOverlapProofs | `Spec => []UnreadableOnlyByOverlap` |
| `NothingIsLostAlone` | RSessionOverlapProofs | `Spec => []LostOnlyToOverlap` |
| `SequentialImplements` | RSessionOverlapProofs | `Sequential => (Spec => ImplementsService)` |
| `StaysSeparated` | ValueAllocatorProofs | `Spec => []Separated` |
| `TypeCorrect` | ValueAllocatorProofs | `Spec => []TypeOK` |
| `RefinesPool` | ValueAllocatorProofs | `Spec => ImplementsPool` |
| `TypeCorrect` | AgentLifecycleProofs | `Spec => []TypeOK` |
| `LeavesToldOffline` | AgentLifecycleProofs | `Spec => LeavesOffline` |
| `OnlyTheNewRunSpeaks` | AgentLifecycleProofs | `Spec => NewRunSpeaks` |
| `TypeCorrect` | MqttEndpointProofs | `Spec => []TypeOK` |
| `HandledBeforeSettled` | MqttEndpointProofs | `Spec => []NothingMissed` |
| `PacketIdsAreUnique` | MqttEndpointProofs | `UsersWait => (Spec => []IdsAreUnique)` |
| `NothingIsForgotten` | MqttEndpointProofs | `UsersWait => (Spec => []NothingForgotten)` |
| `QosTwoIsDeliveredOnce` | MqttEndpointProofs | `UsersWait => (Spec => []DeliveredOnce)` |
| `FirstDeliveriesInOrder` | MqttEndpointProofs | `UsersWait => (Spec => []DeliveredInOrder)` |

The assumptions are those named in the modules: which values the constants may be, no more. Two
hypotheses are stated in theorems. `Sequential`: clients wait for an answer before they call
the session again (`session_maintained` shows what happens otherwise). `UsersWait`: users of the
endpoint do not publish between CONNECT and CONNACK and subscribe only after the CONNACK, and at most one error
follows a subscription. The agent is such a user: it publishes and subscribes from its
connack handler on (start_vrpc_agent.cpp:263) and does not connect again. Without it two of
the properties fail, as section 6 says, on histories of other users.

*Replies.* That every reply under way is right is not inductive: a reply depends
on what its fork holds, which depends on the request the parent handled. The
invariant of VrpcAgentProofs follows a request through these places. `CallsNumbered`: the
calls made are numbered from 1, and each is one a client may make. `QueueKnown`: what
waits for the agent was issued, and there are fewer `call_id`s used than calls
issued. `ForksMatch`: a fork at work evaluates the function of a call whose
context its own copy of the table holds under the fork's own `call_id`. From these,
whatever a fork or the handler sends fits the call it names. For `OneReplyPerCall`, `ReplyInv` adds
that a call's number occurs once in each of these places (`OncePerPlace`) and in one of
them (`OnePlace`): the agent's queue, a fork, the socket, an inbox, its client.

*Directory.* What the broker holds and what the agent keeps differ by the packets on their
way, so the invariant speaks of the stream of packets: once all of it is read, an instance is
subscribed only if it is in the list (`ReachableIsListed`), and what was announced last is the
list (`DirectoryFollowsAgent`). What a client is told is about a point of that stream: where the reply to a creation stands,
and from there on, the instance is subscribed and announced (`CreatedOf`), provided that all
deletions asked for had their answers when the creation was asked for; and likewise for deletions
(`DeletedOf`). The steps need that a subscription under way has its reply behind it
(`Followed`). For `OneDeletionPerCreation`, `DeletionInv` counts: confirmed deletions, entries of the list and
creations that wait for the agent are together no more than the creations asked for.

*Sessions.* Separation alone is not inductive, since the
file that overlapping saves leave is that of any fork that wrote it. The
invariant adds that a session's file is written by calls on that session only
and that static calls do not save. `OverlapInv` adds the history: which calls had ended when
one was made, and which saves a file is left from. What a call set that none
overlapped is then in the file, and in every environment loaded since (`Survival`). If clients wait, no
two calls of a session overlap and what a call has loaded is still the file when it saves
(`SequentialInv`), so that each step of `RSession` is a step of `SessionService` or none.

*Allocator.* Separation of the intervals is inductive, but each operation needs the
position of the value relative to its neighbours; `LeftNeighbour` and
`RightNeighbour` state it once. The four ways the set changes (a value added
alone, joined to one side, to both, an interval split) are one lemma each, saying
that the pool stays separated *and* how the free values change. The refinement
then is one step per operation.

*Life cycle.* `LeavesOffline` is about the moment the broker reads a DISCONNECT; its invariant (`LeaveAt`)
follows the packets from the writes a process still has to do, through the connection,
to what is retained: a DISCONNECT has an "offline" before it and no "online" between. A fork writes no
"online", and is born after its parent has written its own (`ForkInv`): this is what makes
any interleaving of the writes harmless. At most one connection is open and only the current
run opens one (`OneOpen`, `Ahead`, `Behind`).

*Endpoint.* Six invariants, each on top of the ones before. `Basic`: entries of the store and packets fit
the publishes they are of. `ExchangeInv`, for `NothingMissed`: of each exchange the broker has begun at most
one packet is under way, in one direction, and it fits what the broker has recorded. `SessionInv`: while a
connection is opened nothing but its CONNECT or CONNACK is under way, and at most one error follows subscriptions in
flight. `IdsInv`: of each id that no fork has used with another, if it is free, nothing is
stored or under way; if not, there is at most one entry and one packet, and they agree; ids
of subscriptions in flight are reserved as long as an error can release them. `DeliveryInv`: what is acknowledged
is delivered, what the broker has received and not released is stored, and what is delivered
and waits for its PUBREC is known to the broker or orphaned. `OrderInv`: publishes
are stored, and sent on each connection, in the order made; what is not delivered is later than
all that is, and on its way on every open connection.

A step disturbs these for one id only. Each conjunct is therefore stated of a
single id or packet, and there is one lemma per group of actions and invariant.

Not in reach of the prover, and left to TLC: liveness and fairness
(`CallsAreAnswered`, `ServiceAnswers`, `IdsComeBack` and the `~>` properties of
AgentLifecycle). Not proved yet, only checked: `ImplementsRpc`, the composition of agent and sessions.
It needs the invariants of both modules on the composed state, and that `ForkOf` numbers the forks of
the sessions as the agent makes them, which is a counting argument of its own.

## 6. What the code does not keep

Four runs show a statement of the repository that the program does not keep; each is
quoted in `PROJECT.json`, "findings".

* `agent_listed`: after creating an instance twice and deleting it once it is
  announced but no longer subscribed to (start_vrpc_agent.cpp:336, 344, 349).
* `session_maintained`: calls made without waiting for the earlier reply, as in
  the second example, do not see its effect (Adapter.R:124, 133).
* `endpoint_forked`: a fork publishes with an id from its own copy of the free ids, which the parent
  hands out, too (endpoint.hpp:4255).
* `lifecycle_will`: the will that is set is no JSON object, so that clients of an agent that died
  find no status in it (start_vrpc_agent.cpp:257).

Five more are visible in what the properties of passing runs have to except:

* A `$` argument without such a result, or an unreadable `.RData`, ends the fork before its
  session is saved and without a reply (Adapter.R:84, 124), although README.md:112 promises "forwarding
  of R errors as regular exceptions".
* So does, after the session is saved, a reply that cannot be made: `extract_graphics` and `prepare_output` run outside
  `evaluate` (Adapter.R:106) and stop when a plot cannot be drawn ("Failed to print plot", 201, and 204), and
  `j.dump()` throws on text that is not UTF-8 (start_vrpc_agent.cpp:225). The call has taken effect and its
  client is told neither the value nor the error. `RSession!CallsAreAnswered` excepts calls that do
  not resolve or find no readable file and calls that are `frail`; under `ServiceAnswers` a call
  that has a reference or is `frail` may go unanswered, but only if its fork has ended.
* `InterruptedEnds` excepts an agent that is interrupted while it waits for the CONNACK or
  while a publish holds `store_mtx_`: the first goes on, as `disconnect` does nothing yet
  (client.hpp:749), the second waits for its own lock, although
  start_vrpc_agent.cpp:388 says "Disconnect (Ctrl-C)".
* With `SubscribesFrom = 0` TLC finds `IdsAreUnique` violated: ids of subscriptions stay in
  `sub_unsub_inflight_` and are released again by every later error, in use or not
  (endpoint.hpp:10229). Only users of the endpoint that reconnect meet it; the agent does not.
* With `WaitsForConnack = FALSE` TLC finds `NothingForgotten` violated: a publish between
  CONNECT and a CONNACK without a session is dropped from the store and its id handed
  out again; its PUBACK then erases another publish (endpoint.hpp:7092). The agent waits.

## 7. What is not modelled

* In VrpcAgent and VrpcService the connection lives: its end is in AgentLifecycle, which
  in turn abstracts what requests and replies say.
* In MqttEndpoint: user-managed packet ids and `store_pubrel`, incoming publishes at QoS 0, and
  publish handlers that return false (the agent's never do): such a publish is not
  acknowledged, and nothing more is read from the connection. A subscription made
  without a connection keeps its id until a later error; the users of `endpoint_ids` make none.
* In the MQTT client: the ping timer (the agent sets no keep-alive), reconnecting, and the
  asynchronous variants.
* A fork that the evaluated function itself ends (`quit()` in R) is in VrpcAgent, not in
  VrpcService.
* The size of `awaited_callbacks`: neither the code nor the model ever erases an entry of the
  parent's table (start_vrpc_agent.cpp:214 erases from a fork's copy), so it grows with every
  call.
* What the conversions of values, plots and errors to JSON (Adapter.R:158-214) write: only that they
  may fail is modelled, by `frail`.
* A save that does not end. `save()` writes `.RData` in place: if it fails half way, or the fork is
  killed in it, the file is left torn although no call overlapped, and later calls of the session die
  of it. The model assumes that each save begun is closed, that `setwd`, `dir.create` and the writes of the
  files nobody reads back succeed, and that nothing but the stops named in section 2 ends a fork of `RSession`.
  `UnreadableOnlyByOverlap`, `CallsAreAnswered` and `ServiceAnswers` rest on it.
* Start-up parsing of arguments: it is over before there is any state.
* Topic aliases, MQTT 5, server, asynchronous client, WebSocket and TLS: part of
  the vendored MQTT library that the agent does not use. JSON: third party.
* The generated glue of Rcpp: passes arguments on.

## 8. The plan

Done:

1. `VrpcAgent` with `MCVrpcAgent`; `VrpcAgentProofs`, `VrpcReplyProofs`, `VrpcDirectoryProofs`.
2. `SessionService`, `RSession`, `MCRSession`; `RSessionProofs`, `RSessionOverlapProofs`.
3. `IdPool`, `ValueAllocator`; `ValueAllocatorProofs`.
4. `MqttEndpoint`: both directions, and forked copies of the packet ids; `MqttEndpointProofs`.
5. `AgentLifecycle`; `AgentLifecycleProofs`.
6. `RpcService`, `VrpcService`, `MCVrpcService`.

Left, in this order:

7. Proof of `ImplementsRpc`, from the invariants of `VrpcAgent` and `RSession`.
8. `MqttEndpoint`: `store_pubrel` and user-managed ids.
