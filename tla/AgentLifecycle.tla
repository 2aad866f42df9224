--------------------------- MODULE AgentLifecycle ---------------------------
(***************************************************************************)
(* How the agent of src/vrpc/src/start_vrpc_agent.cpp lives and ends, and  *)
(* what the broker learns of it: connecting, announcing, Ctrl-C in the     *)
(* parent and in its forks, the close timer of client.hpp, a parent that   *)
(* terminates, forks that keep the shared socket open, and an operator     *)
(* who starts the agent again.                                             *)
(*                                                                         *)
(* Process 0 is the parent of the current run, process n the fork made for *)
(* request n.  What a handler sends is the list "out" of writes it has yet *)
(* to do; each write is one step, so that the writes of all processes of a *)
(* run interleave on its one connection.  A signal handler runs to its end *)
(* before the code it interrupted goes on.  The broker is external; there  *)
(* is no keep-alive, as the client sets none.                              *)
(***************************************************************************)
EXTENDS Integers, Sequences

CONSTANTS
    MaxRuns,      \* bound: times the agent is started
    MaxRequests,  \* bound: requests that reach it, and so forks it makes
    MaxSignals,   \* bound: interrupts sent
    MayBreak,     \* TRUE when connections may fail and processes may be killed
    Menu          \* the kinds of requests that clients send

Kinds == {"finite",     \* instances are created or deleted, or a function is
                        \* called that returns or stops its fork
          "endless",    \* a function is called that does not return
          "unparsable", \* the payload is not JSON
          "anonymous"}  \* any of these without a reply topic j["s"]

ASSUME ConstantsAssumption ==
    /\ MaxRuns \in Nat /\ MaxRequests \in Nat /\ MaxSignals \in Nat
    /\ MayBreak \in BOOLEAN
    /\ Menu \subseteq Kinds

VARIABLES
    run,       \* number of the current run of the agent and of its connection
    proc,      \* its parent: "running", "locked" (inside a publish, holding
               \* store_mtx_), "stuck", or not there: "none", "ended", "died"
    conn,      \* the parent's connected_, mqtt_connected_: "off", "opening", "on"
    timer,     \* tim_close_: "off", "armed", "posted" (force_disconnect queued)
    forks,     \* the fork of each request: its run, request and state
    out,       \* the writes each process has yet to do
    pending,   \* processes a SIGINT was sent to that they did not see yet
    signals,   \* interrupts sent
    asked,     \* requests made
    up,        \* of each connection: what the broker has yet to read
    down,      \* packets for the current parent
    broker,    \* of each connection, at the broker: "none" (no CONNECT read),
               \* "open", "routing" (subscribed), "left" (after DISCONNECT), "cut"
    lost,      \* connections over which nothing arrives any more
    retained   \* the retained __agentInfo__, as a client understands it

agentVars  == <<run, proc, conn, timer, forks, out>>
signalVars == <<pending, signals>>
netVars    == <<asked, up, down, broker, lost, retained>>
vars == <<agentVars, signalVars, netVars>>

Runs  == 1..MaxRuns
Forks == 1..MaxRequests
Procs == 0..MaxRequests
RunOf(p) == IF p = 0 THEN run ELSE forks[p].run

Packet(what) == [what |-> what, by |-> 0]
Half(what, p) == [what |-> what, by |-> p]

Unborn == [run |-> 0, kind |-> "none", st |-> "gone"]

Init ==
    /\ run = 0 /\ proc = "none" /\ conn = "off" /\ timer = "off"
    /\ forks = [n \in Forks |-> Unborn]
    /\ out = [p \in Procs |-> <<>>]
    /\ pending = {} /\ signals = 0
    /\ asked = 0 /\ up = [r \in Runs |-> <<>>] /\ down = <<>>
    /\ broker = [r \in Runs |-> "none"] /\ lost = {}
    /\ retained = "none"

----------------------------------------------------------------------------
(* The parent. *)

ParentAlive == proc \in {"running", "locked", "stuck"}
HasEnded(n) == forks[n].st = "gone"

(* Who keeps connection r open: closing a socket ends the connection only  *)
(* when every process that inherited it has closed it.                     *)
Holds(p, r) == IF p = 0 THEN run = r /\ ParentAlive /\ conn # "off"
               ELSE forks[p].run = r /\ ~HasEnded(p)
Held(r) == \E p \in Procs : Holds(p, r)

(* The event loop picks its next handler: no other is half done. *)
Ready == proc = "running" /\ out[0] = <<>>

(* start_vrpc_agent: connect, then wait in ioc.run.  The broker has seen   *)
(* the CONNECT of the run before by then.                                  *)
Start ==
    /\ run < MaxRuns /\ ~ParentAlive
    /\ \A r \in 1..run : \A k \in DOMAIN up[r] : up[r][k].what # "connect"
    /\ run' = run + 1
    /\ proc' = "running" /\ conn' = "opening" /\ timer' = "off"
    /\ out' = [out EXCEPT ![0] = <<Packet("connect")>>]
    /\ pending' = pending \ {0}
    /\ down' = <<>>
    /\ UNCHANGED <<forks, signals, asked, up, broker, lost, retained>>

(* A handler publishes: its first publish enters with store_mtx_ held.     *)
Publishes(packets) ==
    /\ proc' = "locked"
    /\ out' = [out EXCEPT ![0] = packets]

Receives(what) == Ready /\ conn # "off" /\ down # <<>> /\ Head(down) = what

(* The connack handler. mqtt_connected_ is set whatever the answer was. *)
HandleConnack ==
    /\ \/ Receives("accepted") /\ Publishes(<<Packet("online"), Packet("subscribe")>>)
       \/ Receives("refused") /\ UNCHANGED <<proc, out>>
    /\ conn' = "on" /\ down' = Tail(down)
    /\ UNCHANGED <<run, timer, forks, signalVars, asked, up, broker, lost, retained>>

(* The publish handler.  A call makes a fork, which inherits the socket.   *)
ForksFor(kind) ==
    /\ kind \in {"finite", "endless", "anonymous"}
    /\ \E n \in Forks :
        /\ forks[n] = Unborn /\ \A m \in 1..(n - 1) : forks[m] # Unborn
        /\ forks' = [forks EXCEPT ![n] = [run |-> run, kind |-> kind, st |-> "working"]]
    /\ UNCHANGED <<proc, out>>

(* Instances are created and deleted, and errors answered, by the parent.  *)
Answers(kind) ==
    /\ kind = "finite"
    /\ Publishes(<<Packet("reply")>>)
    /\ UNCHANGED forks

(* An exception leaves the handler, called from a noexcept function: from  *)
(* parse, or from j["s"] in the catch branch.                              *)
Terminates(kind) ==
    /\ kind \in {"unparsable", "anonymous"}
    /\ proc' = "died"
    /\ UNCHANGED <<forks, out>>

HandlePublish ==
    /\ conn = "on"
    /\ \E kind \in Menu :
        /\ Receives(kind)
        /\ (ForksFor(kind) \/ Answers(kind) \/ Terminates(kind))
    /\ down' = Tail(down)
    /\ UNCHANGED <<run, conn, timer, signalVars, asked, up, broker, lost, retained>>

(* The publish has stored its packet and releases store_mtx_. *)
Unlock ==
    /\ proc = "locked" /\ proc' = "running"
    /\ UNCHANGED <<run, conn, timer, forks, out, signalVars, netVars>>

(* Slip: only an end that was asked for is noticed. *)
ClosedAsAsked == broker[run] = "left"

ClosedByBroker == broker[run] \in {"left", "cut"}

(* handle_close_or_error closes the socket; the agent's handlers of both   *)
(* cases only print.                                                       *)
ConnectionEnds ==
    /\ conn # "off" /\ conn' = "off" /\ down' = <<>>
    /\ UNCHANGED <<run, proc, timer, forks, out, signalVars, asked, up, broker, lost, retained>>

HandleError == Ready /\ ClosedByBroker /\ run \notin lost /\ down = <<>> /\ ConnectionEnds

(* tim_close_ expires and posts force_disconnect, which closes the socket. *)
CloseTimer ==
    /\ Ready /\ timer = "armed" /\ timer' = "posted"
    /\ UNCHANGED <<run, proc, conn, forks, out, signalVars, netVars>>

ForceDisconnect ==
    /\ Ready /\ timer = "posted" /\ timer' = "off"
    /\ conn' = "off" /\ down' = <<>>
    /\ UNCHANGED <<run, proc, forks, out, signalVars, asked, up, broker, lost, retained>>

(* ioc.run returns when no read and no timer is outstanding. *)
RunReturns ==
    /\ Ready /\ conn = "off" /\ timer = "off"
    /\ proc' = "ended"
    /\ UNCHANGED <<run, conn, timer, forks, out, signalVars, netVars>>

----------------------------------------------------------------------------
(* The forks. *)

Becomes(n, st) == forks' = [forks EXCEPT ![n].st = st]

(* Slip: the fork waits for more work instead of quitting. *)
NeverQuits(n) == FALSE

(* Sys.sleep(8) is over: quit. *)
Quits(n) ==
    /\ forks[n].st = "sleeping" /\ out[n] = <<>>
    /\ Becomes(n, "gone") /\ UNCHANGED out

(* on_execution_done publishes the reply, which takes two writes if it is  *)
(* large, or the fork stops: an error outside evaluate, or no reply topic. *)
ExecutionDone(n) ==
    /\ forks[n].st = "working" /\ forks[n].kind # "endless" /\ out[n] = <<>>
    /\ \/ /\ forks[n].kind = "finite" /\ Becomes(n, "locked")
          /\ out' = [out EXCEPT ![n] = <<Half("first", n), Half("last", n)>>]
       \/ Becomes(n, "gone") /\ UNCHANGED out

(* Its publish releases the fork's copy of store_mtx_. *)
ForkUnlocks(n) == forks[n].st = "locked" /\ Becomes(n, "sleeping") /\ UNCHANGED out

ForkStep(n) ==
    /\ (Quits(n) \/ ExecutionDone(n) \/ ForkUnlocks(n))
    /\ UNCHANGED <<run, proc, conn, timer, signalVars, netVars>>

----------------------------------------------------------------------------
(* Writing, by any process. *)

Locked(p) == IF p = 0 THEN proc = "locked" ELSE forks[p].st = "locked"
Lives(p)  == IF p = 0 THEN proc \in {"running", "locked"}
             ELSE forks[p].st \in {"working", "locked", "sleeping"}

Reaches(r) == broker[r] \in {"none", "open", "routing"} /\ r \notin lost

(* do_sync_write: errors are ignored. *)
Write(p) ==
    /\ Lives(p) /\ ~Locked(p) /\ out[p] # <<>>
    /\ out' = [out EXCEPT ![p] = Tail(@)]
    /\ up' = IF Reaches(RunOf(p)) THEN [up EXCEPT ![RunOf(p)] = Append(@, Head(out[p]))]
             ELSE up
    /\ UNCHANGED <<run, proc, conn, timer, forks, signalVars, asked, down, broker, lost, retained>>

----------------------------------------------------------------------------
(* Ctrl-C. *)

(* Slips: disconnect first; close the socket without a DISCONNECT; the     *)
(* payload is the will's; the close timer is left alone.                   *)
FarewellTurned == <<Packet("disconnect"), Packet("offline")>>
FarewellSilent == <<Packet("offline")>>
FarewellOfWill == <<Packet("unreadable"), Packet("disconnect")>>
TimerLeft == timer

(* shutdown_handler: publish, then disconnect(3s), which does nothing      *)
(* before the CONNACK and otherwise arms tim_close_ and sends DISCONNECT.  *)
Farewell == <<Packet("offline"), Packet("disconnect")>>
TimerArmed == "armed"

ParentInterrupted ==
    \/ /\ conn = "on"
       /\ out' = [out EXCEPT ![0] = Farewell \o @] /\ timer' = TimerArmed
    \/ /\ conn = "opening"
       /\ out' = [out EXCEPT ![0] = <<Packet("offline")>> \o @] /\ UNCHANGED timer
    \/ /\ conn = "off" /\ UNCHANGED <<out, timer>>

(* A fork runs the handler it inherited, on its copy of the client; its    *)
(* timer is never waited for.                                              *)
ForkInterrupted(n) == out' = [out EXCEPT ![n] = Farewell \o @] /\ UNCHANGED timer

(* A handler that interrupts a publish waits for store_mtx_ for ever.      *)
Sticks(p) ==
    /\ Locked(p)
    /\ IF p = 0 THEN proc' = "stuck" /\ UNCHANGED forks
                ELSE Becomes(p, "stuck") /\ UNCHANGED proc
    /\ UNCHANGED <<timer, out>>

HandleSignal(p) ==
    /\ p \in pending /\ Lives(p)
    /\ pending' = pending \ {p}
    /\ \/ Sticks(p)
       \/ /\ ~Locked(p) /\ UNCHANGED <<proc, forks>>
          /\ IF p = 0 THEN ParentInterrupted ELSE ForkInterrupted(p)
    /\ UNCHANGED <<run, conn, signals, netVars>>

(* A SIGINT for the parent alone (kill) or for all its process group       *)
(* (Ctrl-C), once shutdown_handler is installed.                           *)
Interrupt ==
    /\ signals < MaxSignals /\ proc \in {"running", "locked"}
    /\ out[0] # <<Packet("connect")>>
    /\ signals' = signals + 1
    /\ \E group \in {{0}, {0} \cup {n \in Forks : forks[n].run = run /\ ~HasEnded(n)}} :
          pending' = pending \cup group
    /\ UNCHANGED <<agentVars, netVars>>

----------------------------------------------------------------------------
(* The broker, the network and the clients (external). *)

(* Slip: the client id differs from run to run. *)
NobodysConnection(r, b) == FALSE

(* generate_client_id: the id is that of every run, so that the broker     *)
(* drops an older connection when the client connects again.               *)
TakenOver(r, b) == b # r /\ broker[b] \in {"open", "routing"}

(* The will: its payload is a JSON array, in which clients find no status. *)
Will == "unreadable"

Closed(r) ==
    /\ broker' = [broker EXCEPT ![r] = "cut"]
    /\ up' = [up EXCEPT ![r] = <<>>]
    /\ retained' = IF broker[r] = "none" THEN retained ELSE Will

(* CONNECT: older connections are dropped, with their wills. *)
Accepts(r) ==
    LET older == {b \in Runs : TakenOver(r, b)} IN
    /\ broker' = [b \in Runs |-> IF b \in older THEN "cut" ELSE IF b = r THEN "open" ELSE broker[b]]
    /\ up' = [b \in Runs |-> IF b \in older THEN <<>> ELSE IF b = r THEN Tail(up[b]) ELSE up[b]]
    /\ retained' = IF older = {} THEN retained ELSE Will
    /\ down' = IF run = r THEN Append(down, "accepted") ELSE down

Refuses(r) ==
    /\ broker' = [broker EXCEPT ![r] = "cut"]
    /\ up' = [up EXCEPT ![r] = <<>>]
    /\ down' = IF run = r THEN Append(down, "refused") ELSE down
    /\ UNCHANGED retained

IsNext(r, what) == up[r] # <<>> /\ Head(up[r]).what = what
IsTorn(r) == up[r][2] # Half("last", up[r][1].by)

ReadsStatus(r) ==
    \E status \in {"online", "offline"} :
        /\ IsNext(r, status) /\ retained' = status
        /\ up' = [up EXCEPT ![r] = Tail(@)] /\ UNCHANGED broker

ReadsOther(r) ==
    /\ \/ IsNext(r, "subscribe") /\ broker' = [broker EXCEPT ![r] = "routing"]
       \/ IsNext(r, "reply") /\ UNCHANGED broker
    /\ up' = [up EXCEPT ![r] = Tail(@)] /\ UNCHANGED retained

ReadsDisconnect(r) ==
    /\ IsNext(r, "disconnect")
    /\ broker' = [broker EXCEPT ![r] = "left"] /\ up' = [up EXCEPT ![r] = <<>>]
    /\ UNCHANGED retained

(* A packet written in two parts, with or without something in between. *)
ReadsLarge(r) ==
    /\ IsNext(r, "first") /\ Len(up[r]) > 1
    /\ \/ IsTorn(r) /\ Closed(r)
       \/ ~IsTorn(r) /\ up' = [up EXCEPT ![r] = Tail(Tail(@))] /\ UNCHANGED <<broker, retained>>

BrokerReads(r) ==
    \/ broker[r] = "none" /\ IsNext(r, "connect") /\ (Accepts(r) \/ Refuses(r))
    \/ /\ broker[r] \in {"open", "routing"} /\ UNCHANGED down
       /\ (ReadsStatus(r) \/ ReadsOther(r) \/ ReadsDisconnect(r) \/ ReadsLarge(r))

(* All have closed the socket, and what they wrote is read. *)
BrokerSeesEnd(r) ==
    /\ r <= run /\ broker[r] \in {"open", "routing"} /\ ~Held(r)
    /\ \A k \in DOMAIN up[r] : k = 1 /\ up[r][k].what = "first"
    /\ Closed(r) /\ UNCHANGED down

BrokerStep(r) ==
    /\ r \notin lost
    /\ (BrokerReads(r) \/ BrokerSeesEnd(r))
    /\ UNCHANGED <<agentVars, signalVars, asked, lost>>

(* A client calls: the broker routes the request to the connection.        *)
Request ==
    /\ run > 0 /\ broker[run] = "routing" /\ run \notin lost
    /\ asked < MaxRequests /\ asked' = asked + 1
    /\ \E kind \in Menu : down' = Append(down, kind)
    /\ UNCHANGED <<agentVars, signalVars, up, broker, lost, retained>>

(* A connection goes dead without a word; neither side need ever notice.   *)
Lose(r) ==
    /\ MayBreak /\ r <= run /\ Reaches(r)
    /\ lost' = lost \cup {r}
    /\ up' = [up EXCEPT ![r] = <<>>]
    /\ down' = IF r = run THEN <<>> ELSE down
    /\ UNCHANGED <<agentVars, signalVars, asked, broker, retained>>

(* TCP gives up on a dead connection, on either side, if something was     *)
(* sent on it.                                                             *)
GivesUp(r) ==
    /\ r \in lost
    /\ \/ run = r /\ Ready /\ ConnectionEnds
       \/ /\ broker[r] \in {"open", "routing"} /\ Closed(r)
          /\ UNCHANGED <<agentVars, signalVars, asked, down, lost>>

(* kill -9, or the machine's out-of-memory killer. *)
Killed ==
    /\ MayBreak /\ ParentAlive
    /\ proc' = "died" /\ out' = [out EXCEPT ![0] = <<>>]
    /\ UNCHANGED <<run, conn, timer, forks, signalVars, netVars>>

----------------------------------------------------------------------------
ParentStep ==
    \/ HandleConnack \/ HandlePublish \/ Unlock \/ HandleError
    \/ CloseTimer \/ ForceDisconnect \/ RunReturns
    \/ Write(0) \/ HandleSignal(0)

ForkProcess(n) == ForkStep(n) \/ Write(n) \/ HandleSignal(n)

Next ==
    \/ Start \/ ParentStep \/ Interrupt \/ Request \/ Killed
    \/ \E n \in Forks : ForkProcess(n)
    \/ \E r \in Runs : BrokerStep(r) \/ Lose(r) \/ GivesUp(r)

Spec == Init /\ [][Next]_vars

(* Each process runs when it can, timers expire, the broker reads what     *)
(* arrives.  Nobody need start the agent, call it, or interrupt it, and    *)
(* TCP need not give up.                                                   *)
FairSpec ==
    /\ Spec /\ WF_vars(ParentStep)
    /\ \A n \in Forks : WF_vars(ForkProcess(n))
    /\ \A r \in Runs : WF_vars(BrokerStep(r))

----------------------------------------------------------------------------
Packets ==
    [what : {"connect", "online", "offline", "subscribe", "reply", "disconnect"}, by : {0}]
    \cup [what : {"first", "last"}, by : Forks]

TypeOK ==
    /\ run \in 0..MaxRuns
    /\ proc \in {"none", "running", "locked", "stuck", "ended", "died"}
    /\ conn \in {"off", "opening", "on"} /\ timer \in {"off", "armed", "posted"}
    /\ forks \in [Forks -> [run : 0..MaxRuns, kind : Kinds \cup {"none"},
                            st : {"working", "locked", "stuck", "sleeping", "gone"}]]
    /\ out \in [Procs -> Seq(Packets)] /\ up \in [Runs -> Seq(Packets)]
    /\ pending \subseteq Procs /\ signals \in 0..MaxSignals /\ asked \in 0..MaxRequests
    /\ down \in Seq(Menu \cup {"accepted", "refused"})
    /\ broker \in [Runs -> {"none", "open", "routing", "left", "cut"}] /\ lost \subseteq Runs
    /\ retained \in {"none", "online", "offline", Will}

(* start_vrpc_agent.cpp:389, offline is published before the connection is *)
(* closed: when the broker takes leave of an agent, clients are told it is *)
(* offline, although parent and forks all write their own farewell to the  *)
(* one connection, and the signal may have interrupted the announcement    *)
(* that it is online.                                                      *)
LeavesOffline ==
    [][\A r \in Runs : broker'[r] = "left" /\ broker[r] # "left" => retained = "offline"]_vars

(* start_vrpc_agent.cpp:156, the client id depends on domain and agent     *)
(* only: what an earlier run left behind, forks that still hold its        *)
(* connection included, does not overwrite what the next one announces.    *)
NewRunSpeaks ==
    [][run > 0 /\ broker[run] \in {"open", "routing"} /\ retained' # retained
         => \A r \in 1..(run - 1) : broker'[r] = broker[r] /\ up'[r] = up[r]]_vars

Present(r) == run = r /\ proc \in {"running", "locked"}

(* start_vrpc_agent.cpp:396, disconnect(3s): an agent that is connected    *)
(* when it is interrupted comes to an end, even if the broker has gone     *)
(* silent, but for one interrupted while it holds the lock.                *)
InterruptedEnds ==
    \A r \in Runs : (0 \in pending /\ Present(r) /\ conn = "on") ~> ~Present(r)

(* And the broker learns of it at once, by the DISCONNECT, although forks  *)
(* that never return hold the connection open.                             *)
InterruptedIsTold ==
    \A r \in Runs :
        (0 \in pending /\ Present(r) /\ conn = "on")
        ~> (broker[r] \in {"left", "cut"} \/ r \in lost \/ run # r \/ proc \in {"stuck", "died"})

(* start_vrpc_agent.cpp:281 and 402: the agent does not reconnect; when    *)
(* its connection is gone, also because torn packets made the broker close *)
(* it, the process ends.                                                   *)
LossEndsAgent ==
    \A r \in Runs :
        (Present(r) /\ broker[r] \in {"left", "cut"} /\ r \notin lost) ~> ~Present(r)

(* Adapter.R:113, forks quit: when the parent is gone, however it ended    *)
(* (a request that terminates it included), and no fork is left that never *)
(* returns, the broker learns that the agent is gone.                      *)
Lingers(n) == ~HasEnded(n) /\ (forks[n].kind = "endless" \/ forks[n].st = "stuck")
GoneIsNoticed ==
    \A r \in Runs :
        (/\ broker[r] \in {"open", "routing"} /\ ~(run = r /\ ParentAlive)
         /\ \A n \in Forks : forks[n].run = r => ~Lingers(n))
        ~> \/ broker[r] \in {"left", "cut"}
           \/ r \in lost
           \/ \E n \in Forks : forks[n].run = r /\ Lingers(n)

----------------------------------------------------------------------------
(* What the code says and does not do. *)

(* start_vrpc_agent.cpp:202, create_will_message: {"status", "offline"}.   *)
(* Once the agent has announced itself, clients read its status.           *)
WillSaysOffline == retained # Will
=============================================================================
