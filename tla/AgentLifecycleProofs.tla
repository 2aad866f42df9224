------------------------ MODULE AgentLifecycleProofs ------------------------
(* Proofs about AgentLifecycle: an agent of which the broker takes leave   *)
(* has told its clients that it is offline, and nothing that an earlier    *)
(* run left behind speaks for a later one.                                 *)
EXTENDS AgentLifecycle, TLAPS

(* Whether clients know that the agent is offline when the broker has read *)
(* what comes before position k of the packets s, and they knew w before.  *)
SaysAt(s, k, w) ==
    \/ \E j \in 1..(k - 1) :
          s[j].what = "offline" /\ \A l \in (j + 1)..(k - 1) : s[l].what # "online"
    \/ w = "offline" /\ \A l \in 1..(k - 1) : s[l].what # "online"

SaysOffline(s, w) == SaysAt(s, Len(s) + 1, w)
Word(s, w) == IF SaysOffline(s, w) THEN "offline" ELSE "other"

(* Whenever a DISCONNECT in s is read, they know it. *)
TakesLeave(s, w) == \A k \in DOMAIN s : s[k].what = "disconnect" => SaysAt(s, k, w)

Open(r) == broker[r] \in {"open", "routing"}

(* What the broker has retained when it reads the next packet of r. *)
Known(r) == IF Open(r) THEN retained ELSE "other"

(* A DISCONNECT written or yet to write comes after the news that the agent *)
(* is offline, whichever process wrote either.                             *)
LeaveAt(r) ==
    Reaches(r) =>
        /\ TakesLeave(up[r], Known(r))
        /\ \A p \in Procs : RunOf(p) = r => TakesLeave(out[p], Word(up[r], Known(r)))

LeaveInv == \A r \in Runs : LeaveAt(r)

Without(s, what) == \A k \in DOMAIN s : s[k].what # what

(* No other connection is open while one is; CONNECT is written by the     *)
(* current run only; forks of a run are born after its parent has written  *)
(* that the agent is online, and write no such thing themselves.           *)
OneOpen == \A a, b \in Runs : Open(a) /\ Open(b) => a = b

Ahead  == \A r \in Runs : r > run => up[r] = <<>> /\ broker[r] = "none"
Behind == \A r \in Runs : r < run => Without(up[r], "connect")

IsConnack(x) == x \in {"accepted", "refused"}
NoConnack    == \A k \in DOMAIN down : ~IsConnack(down[k])
Asked        == run \in Runs /\ broker[run] # "none"
Acknowledged == Asked /\ NoConnack

ConnackInv ==
    /\ conn # "off" => run \in Runs
    /\ conn = "on" => Acknowledged
    /\ Asked \/ NoConnack
    /\ \A j, k \in DOMAIN down : IsConnack(down[j]) /\ IsConnack(down[k]) => j = k

ForkInv ==
    \A n \in Forks :
        /\ forks[n].run <= run
        /\ forks[n].kind = "none" => forks[n].st = "gone" /\ out[n] = <<>>
        /\ Without(out[n], "connect") /\ Without(out[n], "online")
        /\ forks[n].kind # "none" /\ forks[n].run = run
             => Acknowledged /\ Without(out[0], "online")

LifeInv == TypeOK /\ OneOpen /\ Ahead /\ Behind /\ ConnackInv /\ ForkInv /\ LeaveInv

----------------------------------------------------------------------------
(* Types. *)
LEMMA RunsAndForks ==
    /\ Runs \subseteq Nat \ {0} /\ Forks \subseteq Nat \ {0} /\ Procs \subseteq Nat
    /\ Forks \subseteq Procs /\ 0 \in Procs
    /\ \A p \in Procs : p = 0 \/ p \in Forks
    /\ \A r \in 0..MaxRuns : r = 0 \/ r \in Runs
  BY ConstantsAssumption DEF Runs, Forks, Procs

LEMMA PacketsTyped ==
    /\ \A what \in {"connect", "online", "offline", "subscribe", "reply", "disconnect"} :
          Packet(what) \in Packets /\ Packet(what).what = what
    /\ \A n \in Forks : /\ Half("first", n) \in Packets /\ Half("last", n) \in Packets
                        /\ Half("first", n).what = "first" /\ Half("last", n).what = "last"
    /\ Farewell \in Seq(Packets) /\ <<Packet("offline")>> \in Seq(Packets)
  BY DEF Packet, Half, Packets, Farewell

LEMMA TailTyped ==
    ASSUME NEW S, NEW s \in Seq(S), s # <<>>
    PROVE  /\ Tail(s) \in Seq(S) /\ Head(s) \in S /\ Head(s) = s[1] /\ 1 \in DOMAIN s
           /\ Len(Tail(s)) = Len(s) - 1 /\ (Len(s) > 1 => Tail(s) # <<>>)
           /\ DOMAIN s = 1..Len(s) /\ Len(s) \in Nat \ {0} /\ DOMAIN Tail(s) = 1..(Len(s) - 1)
           /\ \A k \in DOMAIN Tail(s) : k + 1 \in DOMAIN s /\ Tail(s)[k] = s[k + 1]
           /\ \A k \in DOMAIN s : k # 1 => k - 1 \in DOMAIN Tail(s) /\ Tail(s)[k - 1] = s[k]
  OBVIOUS

LEMMA ForkBecomes ==
    ASSUME TypeOK, NEW n \in Forks, NEW st \in {"working", "locked", "stuck", "sleeping", "gone"},
           Becomes(n, st)
    PROVE  forks' \in [Forks -> [run : 0..MaxRuns, kind : Kinds \cup {"none"},
                                 st : {"working", "locked", "stuck", "sleeping", "gone"}]]
  BY DEF TypeOK, Becomes

LEMMA TypeInit == ASSUME Init PROVE TypeOK
  BY ConstantsAssumption DEF Init, TypeOK, Unborn

LEMMA TypeStart == ASSUME TypeOK, Start PROVE TypeOK'
  BY ConstantsAssumption, PacketsTyped, RunsAndForks DEF TypeOK, Start

LEMMA ReceivedTyped ==
    ASSUME TypeOK, down # <<>>, down' = Tail(down)
    PROVE  (down \in Seq(Menu \cup {"accepted", "refused"}))'
  BY TailTyped DEF TypeOK

LEMMA PublishesTyped ==
    ASSUME TypeOK, NEW packets \in Seq(Packets), Publishes(packets)
    PROVE  proc' = "locked" /\ out' \in [Procs -> Seq(Packets)]
  BY DEF TypeOK, Publishes

LEMMA TypeConnack == ASSUME TypeOK, HandleConnack PROVE TypeOK'
  <1>1. <<Packet("online"), Packet("subscribe")>> \in Seq(Packets)
    BY PacketsTyped
  <1>2. (proc' = "locked" \/ proc' = proc) /\ out' \in [Procs -> Seq(Packets)]
    BY <1>1, PublishesTyped DEF HandleConnack, TypeOK
  <1>3. (down \in Seq(Menu \cup {"accepted", "refused"}))'
    BY ReceivedTyped DEF HandleConnack, Receives
  <1> QED
    BY <1>2, <1>3 DEF TypeOK, HandleConnack, signalVars

LEMMA TypePublish == ASSUME TypeOK, HandlePublish PROVE TypeOK'
  <1>1. <<Packet("reply")>> \in Seq(Packets)
    BY PacketsTyped
  <1>2. proc' \in {"locked", "died", proc} /\ out' \in [Procs -> Seq(Packets)]
    <2> SUFFICES ASSUME NEW kind, ForksFor(kind) \/ Answers(kind) \/ Terminates(kind)
                 PROVE  proc' \in {"locked", "died", proc} /\ out' \in [Procs -> Seq(Packets)]
      BY DEF HandlePublish
    <2> QED
      BY <1>1, PublishesTyped DEF ForksFor, Answers, Terminates, TypeOK
  <1>3. (down \in Seq(Menu \cup {"accepted", "refused"}))'
    BY ReceivedTyped DEF HandlePublish, Receives
  <1>4. forks' \in [Forks -> [run : 0..MaxRuns, kind : Kinds \cup {"none"},
                              st : {"working", "locked", "stuck", "sleeping", "gone"}]]
    BY DEF HandlePublish, ForksFor, Answers, Terminates, TypeOK, Kinds
  <1> QED
    BY <1>2, <1>3, <1>4 DEF TypeOK, HandlePublish, signalVars

LEMMA TypeParent ==
    ASSUME TypeOK, Unlock \/ HandleError \/ CloseTimer \/ ForceDisconnect \/ RunReturns \/ Killed
    PROVE  TypeOK'
  <1>1. CASE Unlock \/ CloseTimer \/ RunReturns
    BY <1>1 DEF TypeOK, Unlock, CloseTimer, RunReturns, signalVars, netVars
  <1>2. CASE HandleError \/ ForceDisconnect
    <2>1. <<>> \in Seq(Menu \cup {"accepted", "refused"})
      OBVIOUS
    <2> QED
      BY <1>2, <2>1 DEF TypeOK, HandleError, ConnectionEnds, ForceDisconnect, signalVars
  <1>3. CASE Killed
    <2>1. <<>> \in Seq(Packets)
      OBVIOUS
    <2>2. out' \in [Procs -> Seq(Packets)]
      BY <1>3, <2>1 DEF Killed, TypeOK
    <2> QED
      BY <1>3, <2>2 DEF Killed, TypeOK, signalVars, netVars
  <1> QED
    BY <1>1, <1>2, <1>3

LEMMA TypeFork ==
    ASSUME TypeOK, NEW n \in Forks, ForkStep(n)
    PROVE  TypeOK'
  <1>1. forks' \in [Forks -> [run : 0..MaxRuns, kind : Kinds \cup {"none"},
                              st : {"working", "locked", "stuck", "sleeping", "gone"}]]
    BY ForkBecomes DEF ForkStep, Quits, ExecutionDone, ForkUnlocks
  <1>2. out' \in [Procs -> Seq(Packets)]
    <2>1. <<Half("first", n), Half("last", n)>> \in Seq(Packets)
      BY PacketsTyped
    <2>2. \/ out' = out
          \/ out' = [out EXCEPT ![n] = <<Half("first", n), Half("last", n)>>]
      BY DEF ForkStep, Quits, ExecutionDone, ForkUnlocks
    <2> QED
      BY <2>1, <2>2 DEF TypeOK
  <1> QED
    BY <1>1, <1>2 DEF TypeOK, ForkStep, signalVars, netVars

LEMMA TypeWrite ==
    ASSUME TypeOK, NEW p \in Procs, Write(p)
    PROVE  TypeOK'
  <1>1. Head(out[p]) \in Packets /\ Tail(out[p]) \in Seq(Packets)
    BY DEF TypeOK, Write
  <1>2. out' \in [Procs -> Seq(Packets)]
    BY <1>1 DEF TypeOK, Write
  <1>3. up' \in [Runs -> Seq(Packets)]
    <2>1. CASE RunOf(p) \in Runs
      <3>1. Append(up[RunOf(p)], Head(out[p])) \in Seq(Packets)
        BY <1>1, <2>1 DEF TypeOK
      <3> QED
        BY <2>1, <3>1 DEF TypeOK, Write
    <2>2. CASE RunOf(p) \notin Runs
      BY <2>2 DEF TypeOK, Write
    <2> QED
      BY <2>1, <2>2
  <1> QED
    BY <1>2, <1>3 DEF TypeOK, Write, signalVars

LEMMA TypeSignal ==
    ASSUME TypeOK, NEW p \in Procs, HandleSignal(p)
    PROVE  TypeOK'
  <1>1. forks' \in [Forks -> [run : 0..MaxRuns, kind : Kinds \cup {"none"},
                              st : {"working", "locked", "stuck", "sleeping", "gone"}]]
    BY ForkBecomes, RunsAndForks DEF HandleSignal, Sticks, TypeOK
  <1>2. out' \in [Procs -> Seq(Packets)]
    <2>1. /\ Farewell \o out[p] \in Seq(Packets)
          /\ <<Packet("offline")>> \o out[p] \in Seq(Packets)
      BY PacketsTyped DEF TypeOK
    <2> QED
      BY <2>1 DEF HandleSignal, Sticks, ParentInterrupted, ForkInterrupted, TypeOK
  <1>3. proc' \in {"none", "running", "locked", "stuck", "ended", "died"}
    BY DEF HandleSignal, Sticks, TypeOK
  <1>4. timer' \in {"off", "armed", "posted"}
    BY DEF HandleSignal, Sticks, ParentInterrupted, ForkInterrupted, TimerArmed, TypeOK
  <1> QED
    BY <1>1, <1>2, <1>3, <1>4 DEF TypeOK, HandleSignal, netVars

LEMMA TypeInterrupt == ASSUME TypeOK, Interrupt PROVE TypeOK'
  BY RunsAndForks, ConstantsAssumption DEF TypeOK, Interrupt, agentVars, netVars

LEMMA TypeClosed ==
    ASSUME TypeOK, NEW r \in Runs, Closed(r), UNCHANGED <<agentVars, signalVars, asked>>,
           down' = down, lost' = lost
    PROVE  TypeOK'
  BY DEF TypeOK, Closed, agentVars, signalVars

LEMMA TypeBroker ==
    ASSUME TypeOK, NEW r \in Runs, BrokerStep(r)
    PROVE  TypeOK'
  <1> USE DEF TypeOK, BrokerStep, agentVars, signalVars
  <1>1. CASE BrokerReads(r) /\ IsNext(r, "connect") /\ Accepts(r)
    BY <1>1 DEF Accepts, IsNext, Will
  <1>2. CASE BrokerReads(r) /\ IsNext(r, "connect") /\ Refuses(r)
    BY <1>2 DEF Refuses
  <1>3. CASE UNCHANGED down /\ (ReadsStatus(r) \/ ReadsOther(r) \/ ReadsDisconnect(r))
    <2>1. up[r] # <<>> /\ up[r] \in Seq(Packets)
      BY <1>3 DEF ReadsStatus, ReadsOther, ReadsDisconnect, IsNext
    <2>2. Tail(up[r]) \in Seq(Packets) /\ <<>> \in Seq(Packets)
      BY <2>1, TailTyped
    <2>3. up' \in [Runs -> Seq(Packets)]
      BY <1>3, <2>2 DEF ReadsStatus, ReadsOther, ReadsDisconnect
    <2>4. broker' \in [Runs -> {"none", "open", "routing", "left", "cut"}]
      BY <1>3 DEF ReadsStatus, ReadsOther, ReadsDisconnect
    <2>5. retained' \in {"none", "online", "offline", Will}
      BY <1>3 DEF ReadsStatus, ReadsOther, ReadsDisconnect
    <2> QED
      BY <1>3, <2>3, <2>4, <2>5
  <1>4. CASE UNCHANGED down /\ ReadsLarge(r)
    <2>1. CASE Closed(r)
      BY <1>4, <2>1, TypeClosed
    <2>2. CASE up' = [up EXCEPT ![r] = Tail(Tail(@))] /\ UNCHANGED <<broker, retained>>
      <3>1. Tail(Tail(up[r])) \in Seq(Packets)
        <4>1. up[r] \in Seq(Packets) /\ up[r] # <<>> /\ Len(up[r]) > 1
          BY <1>4 DEF ReadsLarge, IsNext
        <4>2. Tail(up[r]) \in Seq(Packets)
          BY <4>1, TailTyped
        <4>3. Tail(up[r]) # <<>>
          BY <4>1, TailTyped
        <4> QED
          BY <4>2, <4>3, TailTyped
      <3> QED
        BY <1>4, <2>2, <3>1
    <2> QED
      BY <1>4, <2>1, <2>2 DEF ReadsLarge
  <1>5. CASE BrokerSeesEnd(r)
    BY <1>5, TypeClosed DEF BrokerSeesEnd
  <1> QED
    BY <1>1, <1>2, <1>3, <1>4, <1>5 DEF BrokerReads

LEMMA TypeNetwork ==
    ASSUME TypeOK, NEW r \in Runs, Lose(r) \/ GivesUp(r)
    PROVE  TypeOK'
  <1>1. CASE Lose(r)
    BY <1>1 DEF TypeOK, Lose, agentVars, signalVars
  <1>2. CASE GivesUp(r) /\ ConnectionEnds
    BY <1>2 DEF TypeOK, ConnectionEnds, signalVars
  <1>3. CASE GivesUp(r) /\ Closed(r) /\ UNCHANGED <<agentVars, signalVars, asked, down, lost>>
    BY <1>3, TypeClosed
  <1> QED
    BY <1>1, <1>2, <1>3 DEF GivesUp

LEMMA TypeRequest == ASSUME TypeOK, Request PROVE TypeOK'
  BY ConstantsAssumption DEF TypeOK, Request, agentVars, signalVars

LEMMA TypeStep == ASSUME TypeOK, [Next]_vars PROVE TypeOK'
  <1>1. CASE UNCHANGED vars
    BY <1>1 DEF TypeOK, vars, agentVars, signalVars, netVars
  <1>2. CASE ParentStep
    BY <1>2, TypeConnack, TypePublish, TypeParent, TypeWrite, TypeSignal, RunsAndForks
       DEF ParentStep
  <1>3. ASSUME NEW n \in Forks, ForkProcess(n)
        PROVE  TypeOK'
    BY <1>3, TypeFork, TypeWrite, TypeSignal, RunsAndForks DEF ForkProcess
  <1> QED
    BY <1>1, <1>2, <1>3, TypeStart, TypeInterrupt, TypeRequest, TypeParent, TypeBroker, TypeNetwork
       DEF Next

(* Each variable of the parent, its forks, the connections and the broker  *)
(* keeps its type, whatever is started, asked, interrupted or broken.      *)
THEOREM TypeCorrect == Spec => []TypeOK
  BY TypeInit, TypeStep, PTL DEF Spec

----------------------------------------------------------------------------
(* What is said in a queue. *)
After(x, w) == IF x.what = "offline" THEN "offline" ELSE IF x.what = "online" THEN "other" ELSE w

LEMMA SaysMore ==
    ASSUME NEW s, NEW w, NEW v, w = "offline" => v = "offline"
    PROVE  /\ \A k : SaysAt(s, k, w) => SaysAt(s, k, v)
           /\ SaysOffline(s, w) => SaysOffline(s, v)
           /\ TakesLeave(s, w) => TakesLeave(s, v)
  BY DEF SaysAt, SaysOffline, TakesLeave

LEMMA EmptySays ==
    ASSUME NEW w
    PROVE  TakesLeave(<<>>, w) /\ (SaysOffline(<<>>, w) <=> w = "offline")
  BY DEF TakesLeave, SaysOffline, SaysAt

LEMMA TailSays ==
    ASSUME NEW s \in Seq(Packets), s # <<>>, NEW w, NEW k \in 2..(Len(s) + 1)
    PROVE  SaysAt(s, k, w) <=> SaysAt(Tail(s), k - 1, After(Head(s), w))
  <1> DEFINE t == Tail(s)
  <1> DEFINE x == Head(s)
  <1>1. /\ x = s[1] /\ Len(s) \in Nat \ {0}
        /\ \A j \in 1..(Len(s) - 1) : t[j] = s[j + 1]
        /\ \A j \in 1..Len(s) : j # 1 => t[j - 1] = s[j]
    BY TailTyped
  <1> HIDE DEF t, x
  <1>2. ASSUME SaysAt(s, k, w)
        PROVE  SaysAt(t, k - 1, After(x, w))
    <2>1. CASE \E j \in 1..(k - 1) :
                  s[j].what = "offline" /\ \A l \in (j + 1)..(k - 1) : s[l].what # "online"
      <3>1. PICK j \in 1..(k - 1) :
                  s[j].what = "offline" /\ \A l \in (j + 1)..(k - 1) : s[l].what # "online"
        BY <2>1
      <3>2. \A l \in j..(k - 2) : l \in 1..(Len(s) - 1) /\ l + 1 \in (j + 1)..(k - 1)
        BY <1>1
      <3>3. \A l \in j..(k - 2) : t[l].what # "online"
        BY <1>1, <3>1, <3>2
      <3>4. CASE j = 1
        <4>1. After(x, w) = "offline"
          BY <1>1, <3>1, <3>4 DEF After
        <4> QED
          BY <3>3, <3>4, <4>1 DEF SaysAt
      <3>5. CASE j # 1
        <4>1. j - 1 \in 1..(k - 2) /\ t[j - 1].what = "offline"
          BY <1>1, <3>1, <3>5
        <4>2. \A l \in ((j - 1) + 1)..((k - 1) - 1) : t[l].what # "online"
          BY <3>3
        <4> QED
          BY <4>1, <4>2 DEF SaysAt
      <3> QED
        BY <3>4, <3>5
    <2>2. CASE w = "offline" /\ \A l \in 1..(k - 1) : s[l].what # "online"
      <3>1. x.what # "online" /\ After(x, w) = "offline"
        BY <1>1, <2>2 DEF After
      <3>2. \A l \in 1..(k - 2) : l \in 1..(Len(s) - 1) /\ l + 1 \in 1..(k - 1)
        BY <1>1
      <3>3. \A l \in 1..((k - 1) - 1) : t[l].what # "online"
        BY <1>1, <2>2, <3>2
      <3> QED
        BY <3>1, <3>3 DEF SaysAt
    <2> QED
      BY <1>2, <2>1, <2>2 DEF SaysAt
  <1>3. ASSUME SaysAt(t, k - 1, After(x, w))
        PROVE  SaysAt(s, k, w)
    <2>1. CASE \E j \in 1..(k - 2) :
                  t[j].what = "offline" /\ \A l \in (j + 1)..(k - 2) : t[l].what # "online"
      <3>1. PICK j \in 1..(k - 2) :
                  t[j].what = "offline" /\ \A l \in (j + 1)..(k - 2) : t[l].what # "online"
        BY <2>1
      <3>2. j + 1 \in 1..(k - 1) /\ s[j + 1].what = "offline"
        BY <1>1, <3>1
      <3>3. \A l \in ((j + 1) + 1)..(k - 1) :
               l - 1 \in (j + 1)..(k - 2) /\ l \in 1..Len(s) /\ l # 1
        BY <1>1, <3>1
      <3>4. \A l \in ((j + 1) + 1)..(k - 1) : s[l].what # "online"
        BY <1>1, <3>1, <3>3
      <3> QED
        BY <3>2, <3>4 DEF SaysAt
    <2>2. CASE After(x, w) = "offline" /\ \A l \in 1..(k - 2) : t[l].what # "online"
      <3>1. \A l \in 2..(k - 1) : l - 1 \in 1..(k - 2) /\ l \in 1..Len(s) /\ l # 1
        BY <1>1
      <3>2. \A l \in (1 + 1)..(k - 1) : s[l].what # "online"
        BY <1>1, <2>2, <3>1
      <3>3. CASE x.what = "offline"
        <4>1. 1 \in 1..(k - 1) /\ s[1].what = "offline"
          BY <1>1, <3>3
        <4> QED
          BY <3>2, <4>1 DEF SaysAt
      <3>4. CASE x.what # "offline"
        <4>1. w = "offline" /\ s[1].what # "online"
          BY <1>1, <2>2, <3>4 DEF After
        <4>2. \A l \in 1..(k - 1) : s[l].what # "online"
          BY <3>2, <4>1
        <4> QED
          BY <4>1, <4>2 DEF SaysAt
      <3> QED
        BY <3>3, <3>4
    <2>3. (k - 1) - 1 = k - 2
      OBVIOUS
    <2> QED
      BY <1>3, <2>1, <2>2, <2>3 DEF SaysAt
  <1> QED
    BY <1>2, <1>3 DEF t, x

LEMMA ReadOne ==
    ASSUME NEW s \in Seq(Packets), s # <<>>, NEW w
    PROVE  /\ SaysOffline(s, w) <=> SaysOffline(Tail(s), After(Head(s), w))
           /\ TakesLeave(s, w) <=> /\ Head(s).what = "disconnect" => w = "offline"
                                   /\ TakesLeave(Tail(s), After(Head(s), w))
  <1>1. /\ Len(s) \in Nat \ {0} /\ Len(Tail(s)) = Len(s) - 1 /\ Head(s) = s[1]
        /\ DOMAIN s = 1..Len(s) /\ DOMAIN Tail(s) = 1..(Len(s) - 1)
        /\ \A k \in DOMAIN Tail(s) : k + 1 \in DOMAIN s /\ Tail(s)[k] = s[k + 1]
        /\ \A k \in DOMAIN s : k # 1 => k - 1 \in DOMAIN Tail(s) /\ Tail(s)[k - 1] = s[k]
    BY TailTyped
  <1>2. SaysOffline(s, w) <=> SaysOffline(Tail(s), After(Head(s), w))
    <2>1. Len(s) + 1 \in 2..(Len(s) + 1) /\ (Len(s) + 1) - 1 = Len(Tail(s)) + 1
      BY <1>1
    <2> QED
      BY <2>1, TailSays DEF SaysOffline
  <1>3. SaysAt(s, 1, w) <=> w = "offline"
    BY DEF SaysAt
  <1>4. \A k \in DOMAIN s : k # 1 => k \in 2..(Len(s) + 1)
    BY <1>1
  <1>5. \A k \in DOMAIN Tail(s) : k + 1 \in 2..(Len(s) + 1) /\ (k + 1) - 1 = k
    BY <1>1
  <1>6. ASSUME TakesLeave(s, w)
        PROVE  /\ Head(s).what = "disconnect" => w = "offline"
               /\ TakesLeave(Tail(s), After(Head(s), w))
    <2>1. Head(s).what = "disconnect" => w = "offline"
      BY <1>1, <1>3, <1>6 DEF TakesLeave
    <2>2. SUFFICES ASSUME NEW k \in DOMAIN Tail(s), Tail(s)[k].what = "disconnect"
                   PROVE  SaysAt(Tail(s), k, After(Head(s), w))
      BY <2>1 DEF TakesLeave
    <2>3. SaysAt(s, k + 1, w)
      BY <1>1, <1>6, <2>2 DEF TakesLeave
    <2> QED
      BY <1>5, <2>3, TailSays
  <1>7. ASSUME Head(s).what = "disconnect" => w = "offline", TakesLeave(Tail(s), After(Head(s), w))
        PROVE  TakesLeave(s, w)
    <2> SUFFICES ASSUME NEW k \in DOMAIN s, s[k].what = "disconnect"
                 PROVE  SaysAt(s, k, w)
      BY DEF TakesLeave
    <2>1. CASE k = 1
      BY <1>1, <1>3, <1>7, <2>1
    <2>2. CASE k # 1
      <3>1. SaysAt(Tail(s), k - 1, After(Head(s), w))
        BY <1>1, <1>7, <2>2 DEF TakesLeave
      <3> QED
        BY <1>4, <2>2, <3>1, TailSays
    <2> QED
      BY <2>1, <2>2
  <1> QED
    BY <1>2, <1>6, <1>7

LEMMA WriteOne ==
    ASSUME NEW s \in Seq(Packets), NEW x \in Packets, NEW w
    PROVE  /\ SaysOffline(Append(s, x), w) <=>
                 x.what = "offline" \/ (x.what # "online" /\ SaysOffline(s, w))
           /\ TakesLeave(Append(s, x), w) <=>
                 TakesLeave(s, w) /\ (x.what = "disconnect" => SaysOffline(s, w))
  <1> DEFINE t == Append(s, x)
  <1>1. /\ Len(s) \in Nat /\ Len(t) = Len(s) + 1 /\ DOMAIN s = 1..Len(s) /\ DOMAIN t = 1..(Len(s) + 1)
        /\ \A k \in 1..Len(s) : t[k] = s[k]
        /\ t[Len(s) + 1] = x
    OBVIOUS
  <1> HIDE DEF t
  <1>2. ASSUME NEW k \in 1..(Len(s) + 1)
        PROVE  SaysAt(t, k, w) <=> SaysAt(s, k, w)
    <2>1. \A l \in 1..(k - 1) : l \in 1..Len(s)
      BY <1>1
    <2>2. \A j \in 1..(k - 1) : \A l \in (j + 1)..(k - 1) : l \in 1..(k - 1)
      OBVIOUS
    <2> QED
      BY <1>1, <2>1, <2>2 DEF SaysAt
  <1>3. SaysOffline(t, w) <=> x.what = "offline" \/ (x.what # "online" /\ SaysOffline(s, w))
    <2>1. SaysOffline(t, w) <=> SaysAt(t, Len(s) + 2, w)
      BY <1>1 DEF SaysOffline
    <2>2. SaysOffline(s, w) <=> SaysAt(t, Len(s) + 1, w)
      BY <1>1, <1>2 DEF SaysOffline
    <2>3. ASSUME SaysAt(t, Len(s) + 2, w), x.what # "offline"
          PROVE  x.what # "online" /\ SaysAt(t, Len(s) + 1, w)
      <3>1. (Len(s) + 2) - 1 = Len(s) + 1 /\ (Len(s) + 1) - 1 = Len(s)
        BY <1>1
      <3>2. CASE \E j \in 1..(Len(s) + 1) :
                    t[j].what = "offline" /\ \A l \in (j + 1)..(Len(s) + 1) : t[l].what # "online"
        <4>1. PICK j \in 1..(Len(s) + 1) :
                    t[j].what = "offline" /\ \A l \in (j + 1)..(Len(s) + 1) : t[l].what # "online"
          BY <3>2
        <4>2. j \in 1..Len(s)
          BY <1>1, <2>3, <4>1
        <4>3. Len(s) + 1 \in (j + 1)..(Len(s) + 1) /\ \A l \in (j + 1)..Len(s) : l \in (j + 1)..(Len(s) + 1)
          BY <1>1, <4>2
        <4> QED
          BY <1>1, <3>1, <4>1, <4>2, <4>3 DEF SaysAt
      <3>3. CASE w = "offline" /\ \A l \in 1..(Len(s) + 1) : t[l].what # "online"
        BY <1>1, <3>1, <3>3 DEF SaysAt
      <3> QED
        BY <2>3, <3>1, <3>2, <3>3 DEF SaysAt
    <2>4. ASSUME x.what = "offline"
          PROVE  SaysAt(t, Len(s) + 2, w)
      <3>1. (Len(s) + 2) - 1 = Len(s) + 1 /\ Len(s) + 1 \in 1..(Len(s) + 1)
        BY <1>1
      <3>2. \A l \in ((Len(s) + 1) + 1)..(Len(s) + 1) : FALSE
        BY <1>1
      <3> QED
        BY <1>1, <2>4, <3>1, <3>2 DEF SaysAt
    <2>5. ASSUME x.what # "online", SaysAt(t, Len(s) + 1, w)
          PROVE  SaysAt(t, Len(s) + 2, w)
      <3>1. (Len(s) + 2) - 1 = Len(s) + 1 /\ (Len(s) + 1) - 1 = Len(s)
        BY <1>1
      <3>2. \A j \in 1..(Len(s) + 1), l \in 1..(Len(s) + 1) :
               l \in j..(Len(s) + 1) => l \in j..Len(s) \/ l = Len(s) + 1
        BY <1>1
      <3>3. CASE \E j \in 1..Len(s) :
                    t[j].what = "offline" /\ \A l \in (j + 1)..Len(s) : t[l].what # "online"
        <4>1. PICK j \in 1..Len(s) :
                    t[j].what = "offline" /\ \A l \in (j + 1)..Len(s) : t[l].what # "online"
          BY <3>3
        <4>2. j \in 1..(Len(s) + 1)
          BY <1>1
        <4>3. \A l \in (j + 1)..(Len(s) + 1) : t[l].what # "online"
          BY <1>1, <2>5, <4>1
        <4> QED
          BY <3>1, <4>1, <4>2, <4>3 DEF SaysAt
      <3>4. CASE w = "offline" /\ \A l \in 1..Len(s) : t[l].what # "online"
        BY <1>1, <2>5, <3>1, <3>4 DEF SaysAt
      <3> QED
        BY <2>5, <3>1, <3>3, <3>4 DEF SaysAt
    <2> QED
      BY <2>1, <2>2, <2>3, <2>4, <2>5
  <1>4. TakesLeave(t, w) <=> TakesLeave(s, w) /\ (x.what = "disconnect" => SaysOffline(s, w))
    <2>1. SaysOffline(s, w) <=> SaysAt(t, Len(s) + 1, w)
      BY <1>1, <1>2 DEF SaysOffline
    <2>2. \A k \in DOMAIN t : k \in DOMAIN s \/ k = Len(s) + 1
      BY <1>1
    <2>3. \A k \in DOMAIN s : k \in DOMAIN t /\ k \in 1..(Len(s) + 1) /\ t[k] = s[k]
      BY <1>1
    <2>4. Len(s) + 1 \in DOMAIN t
      BY <1>1
    <2> QED
      BY <1>1, <1>2, <2>1, <2>2, <2>3, <2>4 DEF TakesLeave
  <1> QED
    BY <1>3, <1>4 DEF t

----------------------------------------------------------------------------
(* Steps of the agent's side: nothing is written or read. *)
LEMMA FarewellSays ==
    ASSUME NEW s \in Seq(Packets)
    PROVE  /\ \A w : TakesLeave(s, w) => TakesLeave(Farewell \o s, w)
           /\ \A w : TakesLeave(s, w) => TakesLeave(<<Packet("offline")>> \o s, w)
           /\ \A what : what \notin {"offline", "disconnect"} /\ Without(s, what)
                          => Without(Farewell \o s, what) /\ Without(<<Packet("offline")>> \o s, what)
  <1> DEFINE t == <<Packet("disconnect")>> \o s
  <1> DEFINE u == Farewell \o s
  <1> DEFINE v == <<Packet("offline")>> \o s
  <1>1. Packet("offline") \in Packets /\ Packet("disconnect") \in Packets
    BY PacketsTyped
  <1>2. t \in Seq(Packets) /\ t # <<>> /\ Head(t) = Packet("disconnect") /\ Tail(t) = s
    BY <1>1
  <1>3. u \in Seq(Packets) /\ u # <<>> /\ Head(u) = Packet("offline") /\ Tail(u) = t
    BY <1>1 DEF Farewell
  <1>4. v \in Seq(Packets) /\ v # <<>> /\ Head(v) = Packet("offline") /\ Tail(v) = s
    BY <1>1
  <1> HIDE DEF t, u, v
  <1>5. ASSUME NEW w, TakesLeave(s, w)
        PROVE  TakesLeave(u, w) /\ TakesLeave(v, w)
    <2>1. TakesLeave(s, "offline")
      BY <1>5, SaysMore
    <2>2. TakesLeave(t, "offline")
      <3>1. After(Packet("disconnect"), "offline") = "offline"
        BY PacketsTyped DEF After
      <3> QED
        BY <1>2, <2>1, <3>1, ReadOne
    <2>3. After(Packet("offline"), w) = "offline" /\ Packet("offline").what # "disconnect"
      BY PacketsTyped DEF After
    <2>4. TakesLeave(u, w)
      BY <1>3, <2>2, <2>3, ReadOne
    <2>5. TakesLeave(v, w)
      BY <1>4, <2>1, <2>3, ReadOne
    <2> QED
      BY <2>4, <2>5
  <1>6. ASSUME NEW what, what \notin {"offline", "disconnect"}, Without(s, what)
        PROVE  Without(u, what) /\ Without(v, what)
    <2>1. Without(t, what)
      <3> SUFFICES ASSUME NEW k \in DOMAIN t
                   PROVE  t[k].what # what
        BY DEF Without
      <3>1. t[1].what = "disconnect" /\ (k # 1 => k - 1 \in DOMAIN s /\ s[k - 1] = t[k])
        BY <1>2, TailTyped, PacketsTyped
      <3> QED
        BY <1>6, <3>1 DEF Without
    <2>2. Without(u, what)
      <3> SUFFICES ASSUME NEW k \in DOMAIN u
                   PROVE  u[k].what # what
        BY DEF Without
      <3>1. u[1].what = "offline" /\ (k # 1 => k - 1 \in DOMAIN t /\ t[k - 1] = u[k])
        BY <1>3, TailTyped, PacketsTyped
      <3> QED
        BY <1>6, <2>1, <3>1 DEF Without
    <2>3. Without(v, what)
      <3> SUFFICES ASSUME NEW k \in DOMAIN v
                   PROVE  v[k].what # what
        BY DEF Without
      <3>1. v[1].what = "offline" /\ (k # 1 => k - 1 \in DOMAIN s /\ s[k - 1] = v[k])
        BY <1>4, TailTyped, PacketsTyped
      <3> QED
        BY <1>6, <3>1 DEF Without
    <2> QED
      BY <2>2, <2>3
  <1> QED
    BY <1>5, <1>6 DEF u, v

(* What is queued may only take leave as it did, a fork may be born with   *)
(* nothing to write, and the CONNACK may be handled or dropped.            *)
Born(n) == /\ forks[n].kind = "none" /\ forks[n]'.kind # "none" /\ forks[n]'.run = run
           /\ Acknowledged' /\ Without(out[0], "online")'
Same(n) == /\ forks[n]'.run = forks[n].run /\ forks[n]'.kind = forks[n].kind
           /\ forks[n].kind = "none" => forks[n]'.st = "gone" /\ out'[n] = <<>>

LEMMA AgentSide ==
    ASSUME LifeInv, TypeOK', UNCHANGED <<run, up, broker, lost, retained>>,
           \A n \in Forks : Same(n) \/ Born(n),
           \A p \in Procs : \A w : TakesLeave(out[p], w) => TakesLeave(out'[p], w),
           \A n \in Forks : /\ forks[n].kind = "none" => out'[n] = <<>>
                            /\ Without(out'[n], "connect") /\ Without(out'[n], "online"),
           Acknowledged => (Without(out[0], "online") => Without(out'[0], "online")),
           conn' # "off" => conn # "off",
           conn' = "on" => Acknowledged',
           NoConnack => NoConnack',
           \A j, k \in DOMAIN down' : IsConnack(down'[j]) /\ IsConnack(down'[k]) => j = k
    PROVE  LifeInv'
  <1>1. (OneOpen /\ Ahead /\ Behind)'
    BY DEF LifeInv, OneOpen, Open, Ahead, Behind
  <1>2. Acknowledged => Acknowledged'
    BY DEF Acknowledged, Asked
  <1>3. ConnackInv'
    BY DEF LifeInv, ConnackInv, Acknowledged, Asked
  <1>4. ForkInv'
    <2> SUFFICES ASSUME NEW n \in Forks
                 PROVE  /\ forks'[n].run <= run'
                        /\ forks'[n].kind = "none" => forks'[n].st = "gone" /\ out'[n] = <<>>
                        /\ Without(out'[n], "connect") /\ Without(out'[n], "online")
                        /\ forks'[n].kind # "none" /\ forks'[n].run = run'
                             => Acknowledged' /\ Without(out'[0], "online")
      BY DEF ForkInv
    <2>1. CASE Same(n)
      BY <1>2, <2>1 DEF LifeInv, ForkInv, Same
    <2>2. CASE Born(n)
      BY <2>2 DEF LifeInv, TypeOK, Born
    <2> QED
      BY <2>1, <2>2
  <1>5. LeaveInv'
    <2> SUFFICES ASSUME NEW r \in Runs, Reaches(r)'
                 PROVE  /\ TakesLeave(up'[r], Known(r)')
                        /\ \A p \in Procs :
                              RunOf(p)' = r => TakesLeave(out'[p], Word(up'[r], Known(r)'))
      BY DEF LeaveInv, LeaveAt
    <2>1. /\ TakesLeave(up[r], Known(r))
          /\ \A p \in Procs : RunOf(p) = r => TakesLeave(out[p], Word(up[r], Known(r)))
      BY DEF LifeInv, LeaveInv, LeaveAt, Reaches
    <2>2. up' = up /\ Known(r)' = Known(r)
      BY DEF Known, Open
    <2> SUFFICES ASSUME NEW p \in Procs, RunOf(p)' = r
                 PROVE  TakesLeave(out'[p], Word(up[r], Known(r)))
      BY <2>1, <2>2
    <2>3. CASE p = 0 \/ (p \in Forks /\ Same(p))
      <3>1. RunOf(p) = r
        BY <2>3 DEF RunOf, Same
      <3> QED
        BY <2>1, <3>1
    <2>4. CASE p \in Forks /\ Born(p)
      BY <2>4, EmptySays DEF Born
    <2> QED
      BY <2>3, <2>4, RunsAndForks
  <1> QED
    BY <1>1, <1>3, <1>4, <1>5 DEF LifeInv

LEMMA SameForks == ASSUME ForkInv, forks' = forks, out' = out PROVE \A n \in Forks : Same(n)
  BY DEF ForkInv, Same

(* Nothing but clocks, states and signals changes. *)
LEMMA LifeQuiet ==
    ASSUME LifeInv, TypeOK', UNCHANGED <<run, conn, out, down, up, broker, lost, retained>>,
           \A n \in Forks : Same(n)
    PROVE  LifeInv'
  <1>1. /\ Acknowledged' <=> Acknowledged
        /\ NoConnack' <=> NoConnack
    BY DEF Acknowledged, Asked, NoConnack
  <1> QED
    BY <1>1, AgentSide DEF LifeInv, ConnackInv, ForkInv

(* The connection is closed at the agent's end. *)
LEMMA LifeClosed ==
    ASSUME LifeInv, TypeOK', UNCHANGED <<run, forks, out, up, broker, lost, retained>>,
           conn' = "off", down' = <<>>
    PROVE  LifeInv'
  <1>1. NoConnack' /\ (Acknowledged => Acknowledged')
    BY DEF Acknowledged, Asked, NoConnack
  <1>2. \A n \in Forks : Same(n)
    BY SameForks DEF LifeInv
  <1> QED
    BY <1>1, <1>2, AgentSide DEF LifeInv, ForkInv

LEMMA BecomesSame ==
    ASSUME LifeInv, NEW n \in Forks, NEW st, Becomes(n, st), forks[n].st # "gone",
           \A m \in Forks : m # n => out'[m] = out[m]
    PROVE  \A m \in Forks : Same(m)
  <1>1. forks[n].kind # "none"
    BY DEF LifeInv, ForkInv
  <1>2. forks \in [Forks -> [run : 0..MaxRuns, kind : Kinds \cup {"none"},
                            st : {"working", "locked", "stuck", "sleeping", "gone"}]]
    BY DEF LifeInv, TypeOK
  <1>3. forks'[n].kind = forks[n].kind /\ forks'[n].run = forks[n].run
    BY <1>2 DEF Becomes
  <1>4. \A m \in Forks : m # n => forks'[m] = forks[m]
    BY <1>2 DEF Becomes
  <1> QED
    BY <1>1, <1>3, <1>4 DEF Same, LifeInv, ForkInv

(* Packets are received from the front of the queue. *)
LEMMA Received ==
    ASSUME LifeInv, down # <<>>, down' = Tail(down)
    PROVE  /\ NoConnack => NoConnack'
           /\ \A j, k \in DOMAIN down' : IsConnack(down'[j]) /\ IsConnack(down'[k]) => j = k
           /\ IsConnack(Head(down)) => NoConnack'
  <1>1. down \in Seq(Menu \cup {"accepted", "refused"})
    BY DEF LifeInv, TypeOK
  <1>2. /\ Head(down) = down[1] /\ 1 \in DOMAIN down
        /\ \A k \in DOMAIN Tail(down) : k + 1 \in DOMAIN down /\ Tail(down)[k] = down[k + 1]
        /\ DOMAIN down' \subseteq Nat \ {0}
    BY <1>1, TailTyped
  <1>3. \A j, k \in DOMAIN down : IsConnack(down[j]) /\ IsConnack(down[k]) => j = k
    BY DEF LifeInv, ConnackInv
  <1>4. NoConnack => NoConnack'
    BY <1>2 DEF NoConnack
  <1>5. \A j, k \in DOMAIN down' : IsConnack(down'[j]) /\ IsConnack(down'[k]) => j = k
    <2> SUFFICES ASSUME NEW j \in DOMAIN down', NEW k \in DOMAIN down',
                        IsConnack(down'[j]), IsConnack(down'[k])
                 PROVE  j = k
      OBVIOUS
    <2>1. j + 1 = k + 1
      BY <1>2, <1>3
    <2> QED
      BY <1>2, <2>1
  <1>6. ASSUME IsConnack(Head(down))
        PROVE  NoConnack'
    <2> SUFFICES ASSUME NEW k \in DOMAIN down', IsConnack(down'[k])
                 PROVE  FALSE
      BY DEF NoConnack
    <2>1. k + 1 = 1
      BY <1>2, <1>3, <1>6
    <2> QED
      BY <1>2, <2>1
  <1> QED
    BY <1>4, <1>5, <1>6

LEMMA LifeInit == ASSUME Init PROVE LifeInv
  <1>1. OneOpen /\ Ahead /\ Behind
    BY RunsAndForks DEF Init, OneOpen, Open, Ahead, Behind, Without
  <1>2. ConnackInv /\ ForkInv
    BY DEF Init, ConnackInv, Asked, NoConnack, ForkInv, Unborn, Without, Procs, Forks
  <1>3. LeaveInv
    <2>1. \A r \in Runs : up[r] = <<>>
      BY DEF Init
    <2>2. \A p \in Procs : out[p] = <<>>
      BY DEF Init
    <2> QED
      BY <2>1, <2>2, EmptySays DEF LeaveInv, LeaveAt
  <1> QED
    BY <1>1, <1>2, <1>3, TypeInit DEF LifeInv

LEMMA SilentSays ==
    ASSUME NEW s, Without(s, "disconnect")
    PROVE  \A w : TakesLeave(s, w)
  BY DEF Without, TakesLeave

LEMMA LifeStart == ASSUME LifeInv, Start PROVE LifeInv'
  <1>1. TypeOK' /\ TypeOK
    BY TypeStart DEF LifeInv
  <1>2. run \in Nat /\ run' = run + 1 /\ run' \in Runs
    BY <1>1, ConstantsAssumption DEF Start, TypeOK, Runs
  <1>3. OneOpen' /\ Ahead'
    BY <1>2, RunsAndForks DEF LifeInv, Start, OneOpen, Open, Ahead
  <1>4. Behind'
    <2> SUFFICES ASSUME NEW r \in Runs, r < run'
                 PROVE  Without(up[r], "connect")
      BY DEF Behind, Start
    <2>1. r \in 1..run
      BY <1>2, RunsAndForks
    <2> QED
      BY <2>1 DEF Start, Without
  <1>5. ConnackInv'
    BY <1>2 DEF Start, ConnackInv, Asked, NoConnack
  <1>6. out'[0] = <<Packet("connect")>> /\ \A n \in Forks : out'[n] = out[n]
    BY <1>1, RunsAndForks DEF Start, TypeOK
  <1>7. \A n \in Forks : forks[n].run < run'
    BY <1>1, <1>2 DEF LifeInv, ForkInv, TypeOK
  <1>8. ForkInv'
    <2>1. forks' = forks /\ \A n \in Forks : forks[n].run <= run' /\ forks[n].run # run'
      BY <1>1, <1>2, <1>7 DEF Start, TypeOK
    <2>2. \A n \in Forks : /\ forks[n].kind = "none" => forks[n].st = "gone" /\ out[n] = <<>>
                           /\ Without(out[n], "connect") /\ Without(out[n], "online")
      BY DEF LifeInv, ForkInv
    <2> QED
      BY <1>6, <2>1, <2>2 DEF ForkInv
  <1>9. LeaveInv'
    <2> SUFFICES ASSUME NEW r \in Runs, Reaches(r)'
                 PROVE  /\ TakesLeave(up'[r], Known(r)')
                        /\ \A p \in Procs :
                              RunOf(p)' = r => TakesLeave(out'[p], Word(up'[r], Known(r)'))
      BY DEF LeaveInv, LeaveAt
    <2>1. up' = up /\ Known(r)' = Known(r)
      BY DEF Start, Known, Open
    <2>2. /\ TakesLeave(up[r], Known(r))
          /\ \A p \in Procs : RunOf(p) = r => TakesLeave(out[p], Word(up[r], Known(r)))
      BY DEF LifeInv, LeaveInv, LeaveAt, Reaches, Start
    <2>3. Without(out'[0], "disconnect")
      BY <1>6, PacketsTyped DEF Without
    <2>4. \A n \in Forks : RunOf(n)' = RunOf(n)
      BY RunsAndForks DEF RunOf, Start
    <2> QED
      BY <1>6, <2>1, <2>2, <2>3, <2>4, SilentSays, RunsAndForks
  <1> QED
    BY <1>1, <1>3, <1>4, <1>5, <1>8, <1>9 DEF LifeInv

LEMMA ConnackIsNotMenu == \A kind \in Menu : ~IsConnack(kind)
  BY ConstantsAssumption DEF Kinds, IsConnack

LEMMA LifeConnack == ASSUME LifeInv, HandleConnack PROVE LifeInv'
  <1>1. TypeOK' /\ TypeOK
    BY TypeConnack DEF LifeInv
  <1>2. /\ down # <<>> /\ down' = Tail(down) /\ IsConnack(Head(down)) /\ conn # "off"
        /\ conn' = "on" /\ out[0] = <<>>
        /\ UNCHANGED <<run, forks, up, broker, lost, retained>>
    BY DEF HandleConnack, Receives, Ready, IsConnack
  <1>3. NoConnack' /\ \A j, k \in DOMAIN down' : IsConnack(down'[j]) /\ IsConnack(down'[k]) => j = k
    BY <1>2, Received
  <1>4. ~NoConnack
    <2>1. down \in Seq(Menu \cup {"accepted", "refused"})
      BY <1>1 DEF TypeOK
    <2> QED
      BY <1>2, <2>1, TailTyped DEF NoConnack
  <1>5. Acknowledged' /\ ~Acknowledged
    BY <1>2, <1>3, <1>4 DEF LifeInv, ConnackInv, Acknowledged, Asked
  <1>6. /\ \A n \in Forks : out'[n] = out[n]
        /\ out'[0] = out[0] \/ out'[0] = <<Packet("online"), Packet("subscribe")>>
    BY <1>1, RunsAndForks DEF HandleConnack, Publishes, TypeOK
  <1>7. \A n \in Forks : Same(n)
    BY <1>2, <1>6 DEF Same, LifeInv, ForkInv
  <1>8. \A p \in Procs : \A w : TakesLeave(out[p], w) => TakesLeave(out'[p], w)
    <2>1. Without(<<Packet("online"), Packet("subscribe")>>, "disconnect")
      BY PacketsTyped DEF Without
    <2> QED
      BY <1>6, <2>1, SilentSays, RunsAndForks
  <1>9. \A n \in Forks : /\ forks[n].kind = "none" => out'[n] = <<>>
                         /\ Without(out'[n], "connect") /\ Without(out'[n], "online")
    BY <1>6 DEF LifeInv, ForkInv
  <1> QED
    BY <1>1, <1>2, <1>3, <1>5, <1>7, <1>8, <1>9, AgentSide

LEMMA LifePublish == ASSUME LifeInv, HandlePublish PROVE LifeInv'
  <1>1. TypeOK' /\ TypeOK
    BY TypePublish DEF LifeInv
  <1>2. /\ down # <<>> /\ down' = Tail(down) /\ conn = "on" /\ conn' = "on" /\ out[0] = <<>>
        /\ UNCHANGED <<run, up, broker, lost, retained>>
    BY DEF HandlePublish, Receives, Ready
  <1>3. Acknowledged /\ Asked' = Asked
    BY <1>2 DEF LifeInv, ConnackInv, Asked
  <1>4. /\ NoConnack => NoConnack'
        /\ \A j, k \in DOMAIN down' : IsConnack(down'[j]) /\ IsConnack(down'[k]) => j = k
    BY <1>2, Received
  <1>5. Acknowledged'
    BY <1>2, <1>3, <1>4 DEF Acknowledged, Asked
  <1>6. /\ \A n \in Forks : out'[n] = out[n]
        /\ out'[0] = out[0] \/ out'[0] = <<Packet("reply")>>
    <2>1. out' = out \/ out' = [out EXCEPT ![0] = <<Packet("reply")>>]
      BY DEF HandlePublish, ForksFor, Answers, Terminates, Publishes
    <2> QED
      BY <1>1, <2>1, RunsAndForks DEF TypeOK
  <1>7. Without(<<Packet("reply")>>, "disconnect") /\ Without(<<Packet("reply")>>, "online")
    BY PacketsTyped DEF Without
  <1>8. \A p \in Procs : \A w : TakesLeave(out[p], w) => TakesLeave(out'[p], w)
    BY <1>6, <1>7, SilentSays, RunsAndForks
  <1>9. Without(out'[0], "online")
    BY <1>2, <1>6, <1>7 DEF Without
  <1>10. \A n \in Forks : /\ forks[n].kind = "none" => out'[n] = <<>>
                          /\ Without(out'[n], "connect") /\ Without(out'[n], "online")
    BY <1>6 DEF LifeInv, ForkInv
  <1>11. \A n \in Forks : Same(n) \/ Born(n)
    <2>1. CASE forks' = forks
      BY <1>6, <2>1 DEF Same, LifeInv, ForkInv
    <2>2. CASE forks' # forks
      <3>1. PICK kind \in Menu : ForksFor(kind)
        BY <2>2 DEF HandlePublish, Answers, Terminates
      <3>2. PICK n \in Forks :
               /\ forks[n] = Unborn
               /\ forks' = [forks EXCEPT ![n] = [run |-> run, kind |-> kind, st |-> "working"]]
        BY <3>1 DEF ForksFor
      <3>3. forks'[n] = [run |-> run, kind |-> kind, st |-> "working"] /\ kind # "none"
        BY <1>1, <3>1, <3>2 DEF TypeOK, ForksFor
      <3>4. \A m \in Forks : m # n => forks'[m] = forks[m]
        BY <1>1, <3>2 DEF TypeOK
      <3>5. Born(n)
        BY <1>2, <1>5, <1>9, <3>2, <3>3 DEF Born, Unborn
      <3>6. \A m \in Forks : m # n => Same(m)
        BY <1>6, <3>4 DEF Same, LifeInv, ForkInv
      <3> QED
        BY <3>5, <3>6
    <2> QED
      BY <2>1, <2>2
  <1> QED
    BY <1>1, <1>2, <1>4, <1>5, <1>8, <1>9, <1>10, <1>11, AgentSide

LEMMA LifeFork ==
    ASSUME LifeInv, NEW n \in Forks, ForkStep(n)
    PROVE  LifeInv'
  <1>1. TypeOK' /\ TypeOK
    BY TypeFork DEF LifeInv
  <1>2. /\ UNCHANGED <<run, conn, up, broker, lost, retained, down>>
        /\ \E st : Becomes(n, st)
        /\ forks[n].st # "gone"
    BY DEF ForkStep, Quits, ExecutionDone, ForkUnlocks, netVars
  <1>3. /\ \A p \in Procs : p # n => out'[p] = out[p]
        /\ \/ out'[n] = out[n]
           \/ out'[n] = <<Half("first", n), Half("last", n)>>
    <2>1. out' = out \/ out' = [out EXCEPT ![n] = <<Half("first", n), Half("last", n)>>]
      BY DEF ForkStep, Quits, ExecutionDone, ForkUnlocks
    <2> QED
      BY <1>1, <2>1, RunsAndForks DEF TypeOK
  <1>4. \A m \in Forks : Same(m)
    BY <1>2, <1>3, BecomesSame, RunsAndForks
  <1>5. /\ Without(<<Half("first", n), Half("last", n)>>, "disconnect")
        /\ Without(<<Half("first", n), Half("last", n)>>, "connect")
        /\ Without(<<Half("first", n), Half("last", n)>>, "online")
    BY PacketsTyped DEF Without
  <1>6. \A p \in Procs : \A w : TakesLeave(out[p], w) => TakesLeave(out'[p], w)
    BY <1>3, <1>5, SilentSays
  <1>7. \A m \in Forks : /\ forks[m].kind = "none" => out'[m] = <<>>
                         /\ Without(out'[m], "connect") /\ Without(out'[m], "online")
    <2>1. \A m \in Forks : forks[m].kind = "none" => out'[m] = <<>>
      BY <1>2, <1>3, RunsAndForks DEF LifeInv, ForkInv
    <2>2. \A m \in Forks : Without(out'[m], "connect") /\ Without(out'[m], "online")
      BY <1>3, <1>5, RunsAndForks DEF LifeInv, ForkInv
    <2> QED
      BY <2>1, <2>2
  <1>8. out'[0] = out[0]
    BY <1>3, RunsAndForks
  <1>9. (NoConnack => NoConnack') /\ (Acknowledged => Acknowledged')
    BY <1>2 DEF NoConnack, Acknowledged, Asked
  <1> QED
    BY <1>1, <1>2, <1>4, <1>6, <1>7, <1>8, <1>9, AgentSide DEF LifeInv, ConnackInv

LEMMA LifeParent ==
    ASSUME LifeInv, Unlock \/ HandleError \/ CloseTimer \/ ForceDisconnect \/ RunReturns \/ Interrupt
    PROVE  LifeInv'
  <1>1. TypeOK'
    BY TypeParent, TypeInterrupt DEF LifeInv
  <1>2. CASE Unlock \/ CloseTimer \/ RunReturns \/ Interrupt
    <2>1. UNCHANGED <<run, conn, forks, out, down, up, broker, lost, retained>>
      BY <1>2 DEF Unlock, CloseTimer, RunReturns, Interrupt, netVars, agentVars
    <2> QED
      BY <1>1, <2>1, LifeQuiet, SameForks DEF LifeInv
  <1>3. CASE HandleError \/ ForceDisconnect
    <2>1. UNCHANGED <<run, forks, out, up, broker, lost, retained>> /\ conn' = "off" /\ down' = <<>>
      BY <1>3 DEF HandleError, ConnectionEnds, ForceDisconnect
    <2> QED
      BY <1>1, <2>1, LifeClosed
  <1> QED
    BY <1>2, <1>3

LEMMA LifeKilled == ASSUME LifeInv, Killed PROVE LifeInv'
  <1>1. TypeOK' /\ TypeOK
    BY TypeParent DEF LifeInv
  <1>2. UNCHANGED <<run, conn, forks, down, up, broker, lost, retained>>
    BY DEF Killed, netVars
  <1>3. out'[0] = <<>> /\ \A n \in Forks : out'[n] = out[n]
    BY <1>1, RunsAndForks DEF Killed, TypeOK
  <1>4. \A n \in Forks : Same(n)
    BY <1>2, <1>3 DEF Same, LifeInv, ForkInv
  <1>5. \A p \in Procs : \A w : TakesLeave(out[p], w) => TakesLeave(out'[p], w)
    BY <1>3, EmptySays, RunsAndForks
  <1>6. Without(out'[0], "online")
    BY <1>3 DEF Without
  <1>7. (NoConnack => NoConnack') /\ (Acknowledged => Acknowledged')
    BY <1>2 DEF NoConnack, Acknowledged, Asked
  <1> QED
    BY <1>1, <1>2, <1>3, <1>4, <1>5, <1>6, <1>7, AgentSide DEF LifeInv, ConnackInv, ForkInv

LEMMA LifeSignal ==
    ASSUME LifeInv, NEW p \in Procs, HandleSignal(p)
    PROVE  LifeInv'
  <1>1. TypeOK' /\ TypeOK
    BY TypeSignal DEF LifeInv
  <1>2. UNCHANGED <<run, conn, down, up, broker, lost, retained>>
    BY DEF HandleSignal, netVars
  <1>3. (NoConnack => NoConnack') /\ (Acknowledged => Acknowledged')
    BY <1>2 DEF NoConnack, Acknowledged, Asked
  <1>4. CASE Sticks(p)
    <2>1. out' = out
      BY <1>4 DEF Sticks
    <2>2. \A n \in Forks : Same(n)
      <3>1. CASE p = 0
        BY <1>4, <2>1, <3>1, SameForks DEF Sticks, LifeInv
      <3>2. CASE p # 0
        BY <1>4, <2>1, <3>2, BecomesSame, RunsAndForks DEF Sticks, Locked
      <3> QED
        BY <3>1, <3>2
    <2> QED
      BY <1>1, <1>2, <2>1, <2>2, LifeQuiet
  <1>5. CASE ~Sticks(p)
    <2>1. forks' = forks
      BY <1>5 DEF HandleSignal
    <2>2. out[p] \in Seq(Packets)
      BY <1>1 DEF TypeOK
    <2>3. /\ \A q \in Procs : q # p => out'[q] = out[q]
          /\ \/ out'[p] = out[p]
             \/ out'[p] = Farewell \o out[p]
             \/ out'[p] = <<Packet("offline")>> \o out[p]
      BY <1>1, <1>5 DEF HandleSignal, ParentInterrupted, ForkInterrupted, TypeOK
    <2>4. \A q \in Procs : \A w : TakesLeave(out[q], w) => TakesLeave(out'[q], w)
      BY <2>2, <2>3, FarewellSays
    <2>5. \A q \in Procs : /\ Without(out[q], "connect") => Without(out'[q], "connect")
                           /\ Without(out[q], "online") => Without(out'[q], "online")
      BY <2>2, <2>3, FarewellSays
    <2>6. \A n \in Forks : forks[n].kind = "none" => out'[n] = <<>>
      <3> SUFFICES ASSUME NEW n \in Forks, forks[n].kind = "none"
                   PROVE  out'[n] = <<>>
        OBVIOUS
      <3>1. forks[n].st = "gone" /\ out[n] = <<>>
        BY DEF LifeInv, ForkInv
      <3>2. n # p
        BY <3>1, RunsAndForks DEF HandleSignal, Lives
      <3> QED
        BY <2>3, <3>1, <3>2, RunsAndForks
    <2>7. \A n \in Forks : Same(n)
      BY <2>1, <2>6 DEF Same, LifeInv, ForkInv
    <2> QED
      BY <1>1, <1>2, <1>3, <2>4, <2>5, <2>6, <2>7, AgentSide, RunsAndForks DEF LifeInv, ConnackInv, ForkInv
  <1> QED
    BY <1>4, <1>5

LEMMA LifeRequest == ASSUME LifeInv, Request PROVE LifeInv'
  <1>1. TypeOK' /\ TypeOK
    BY TypeRequest DEF LifeInv
  <1>2. UNCHANGED <<run, conn, forks, out, up, broker, lost, retained>>
    BY DEF Request, agentVars
  <1>3. PICK kind \in Menu : down' = Append(down, kind)
    BY DEF Request
  <1>4. \A k \in DOMAIN down' : IsConnack(down'[k]) => k \in DOMAIN down /\ down'[k] = down[k]
    BY <1>1, <1>3, ConnackIsNotMenu DEF TypeOK
  <1>5. /\ NoConnack => NoConnack'
        /\ \A j, k \in DOMAIN down' : IsConnack(down'[j]) /\ IsConnack(down'[k]) => j = k
    BY <1>4 DEF NoConnack, LifeInv, ConnackInv
  <1>6. Acknowledged => Acknowledged'
    BY <1>2, <1>5 DEF Acknowledged, Asked
  <1>7. \A n \in Forks : Same(n)
    BY <1>2, SameForks DEF LifeInv
  <1> QED
    BY <1>1, <1>2, <1>5, <1>6, <1>7, AgentSide DEF LifeInv, ConnackInv, ForkInv

----------------------------------------------------------------------------
(* Writing. *)
LEMMA TailWithout ==
    ASSUME NEW s \in Seq(Packets), s # <<>>, NEW what, Without(s, what)
    PROVE  Without(Tail(s), what) /\ Head(s).what # what
  BY TailTyped DEF Without

LEMMA AppendWithout ==
    ASSUME NEW s \in Seq(Packets), NEW x \in Packets, NEW what, Without(s, what), x.what # what
    PROVE  Without(Append(s, x), what)
  <1>1. \A k \in DOMAIN Append(s, x) : (k \in DOMAIN s /\ Append(s, x)[k] = s[k]) \/ Append(s, x)[k] = x
    OBVIOUS
  <1> QED
    BY <1>1 DEF Without

(* What is said in a connection, and then by each process, may only become *)
(* better known.                                                           *)
LEMMA LeaveFrame ==
    ASSUME NEW r \in Runs, LeaveAt(r), Reaches(r)' => Reaches(r),
           TakesLeave(up[r], Known(r)) => TakesLeave(up'[r], Known(r)'),
           SaysOffline(up[r], Known(r)) => SaysOffline(up'[r], Known(r)'),
           UNCHANGED <<run, forks, out>>
    PROVE  LeaveAt(r)'
  <1> SUFFICES ASSUME Reaches(r)'
               PROVE  /\ TakesLeave(up'[r], Known(r)')
                      /\ \A p \in Procs :
                            RunOf(p)' = r => TakesLeave(out'[p], Word(up'[r], Known(r)'))
    BY DEF LeaveAt
  <1>1. /\ TakesLeave(up[r], Known(r))
        /\ \A p \in Procs : RunOf(p) = r => TakesLeave(out[p], Word(up[r], Known(r)))
    BY DEF LeaveAt
  <1>2. Word(up[r], Known(r)) = "offline" => Word(up'[r], Known(r)') = "offline"
    BY DEF Word
  <1>3. \A p \in Procs : RunOf(p)' = RunOf(p) /\ out'[p] = out[p]
    BY DEF RunOf
  <1>4. TakesLeave(up'[r], Known(r)')
    BY <1>1
  <1>5. ASSUME NEW p \in Procs, RunOf(p)' = r
        PROVE  TakesLeave(out'[p], Word(up'[r], Known(r)'))
    <2>1. TakesLeave(out[p], Word(up[r], Known(r)))
      BY <1>1, <1>3, <1>5
    <2> QED
      BY <1>2, <1>3, <2>1, SaysMore
  <1> QED
    BY <1>4, <1>5

LEMMA LifeWrite ==
    ASSUME LifeInv, NEW p \in Procs, Write(p)
    PROVE  LifeInv'
  <1>1. TypeOK' /\ TypeOK
    BY TypeWrite DEF LifeInv
  <1>2. UNCHANGED <<run, conn, forks, down, broker, lost, retained>>
    BY DEF Write
  <1>3. out[p] \in Seq(Packets) /\ out[p] # <<>>
    BY <1>1 DEF TypeOK, Write
  <1>4. PICK x : x = Head(out[p])
    OBVIOUS
  <1>5. PICK b : b = RunOf(p)
    OBVIOUS
  <1>6. x \in Packets /\ Tail(out[p]) \in Seq(Packets)
    BY <1>3, <1>4, TailTyped
  <1>7. out'[p] = Tail(out[p]) /\ \A q \in Procs : q # p => out'[q] = out[q]
    BY <1>1 DEF Write, TypeOK
  <1>8. \A r \in Runs : up'[r] = up[r] \/ (r = b /\ Reaches(r) /\ up'[r] = Append(up[r], x))
    BY <1>1, <1>4, <1>5 DEF Write, TypeOK
  <1>9. \A r \in Runs : Reaches(r) /\ r = b => up'[r] = Append(up[r], x)
    BY <1>1, <1>4, <1>5 DEF Write, TypeOK
  <1>10. \A r \in Runs : up[r] \in Seq(Packets)
    BY <1>1 DEF TypeOK
  <1>11. p \in Forks => forks[p].kind # "none"
    BY RunsAndForks DEF Write, Lives, LifeInv, ForkInv
  <1>12. p \in Forks => x.what # "connect" /\ x.what # "online"
    BY <1>3, <1>4, TailWithout DEF LifeInv, ForkInv
  <1>13. b <= run /\ (p = 0 => b = run) /\ (p \in Forks => b = forks[p].run)
    BY <1>1, <1>5, RunsAndForks DEF RunOf, LifeInv, ForkInv, TypeOK
  <1>14. OneOpen' /\ ConnackInv'
    BY <1>2 DEF LifeInv, OneOpen, Open, ConnackInv, Acknowledged, Asked, NoConnack
  <1>15. Ahead'
    <2> SUFFICES ASSUME NEW r \in Runs, r > run
                 PROVE  up'[r] = <<>> /\ broker[r] = "none"
      BY <1>2 DEF Ahead
    <2>1. r # b
      BY <1>1, <1>13, RunsAndForks DEF TypeOK, RunOf
    <2> QED
      BY <1>8, <2>1 DEF LifeInv, Ahead
  <1>16. Behind'
    <2> SUFFICES ASSUME NEW r \in Runs, r < run
                 PROVE  Without(up'[r], "connect")
      BY <1>2 DEF Behind
    <2>1. Without(up[r], "connect")
      BY DEF LifeInv, Behind
    <2>2. r = b => p \in Forks
      BY <1>1, <1>13, RunsAndForks DEF TypeOK
    <2> QED
      <3>1. CASE r # b
        BY <1>8, <2>1, <3>1
      <3>2. CASE r = b
        <4>1. x.what # "connect"
          BY <1>12, <2>2, <3>2
        <4>2. Without(Append(up[r], x), "connect")
          BY <1>6, <1>10, <2>1, <4>1, AppendWithout
        <4> QED
          BY <1>8, <2>1, <4>2
      <3> QED
        BY <3>1, <3>2
  <1>17. \A q \in Procs : \A what : Without(out[q], what) => Without(out'[q], what)
    BY <1>3, <1>7, TailWithout
  <1>18. ForkInv'
    <2> SUFFICES ASSUME NEW n \in Forks
                 PROVE  /\ forks[n].run <= run
                        /\ forks[n].kind = "none" => forks[n].st = "gone" /\ out'[n] = <<>>
                        /\ Without(out'[n], "connect") /\ Without(out'[n], "online")
                        /\ forks[n].kind # "none" /\ forks[n].run = run
                             => Acknowledged' /\ Without(out'[0], "online")
      BY <1>2 DEF ForkInv
    <2>1. Acknowledged => Acknowledged'
      BY <1>2 DEF Acknowledged, Asked, NoConnack
    <2>2. forks[n].kind = "none" => out'[n] = <<>>
      BY <1>7, <1>11, RunsAndForks DEF LifeInv, ForkInv
    <2> QED
      BY <1>17, <2>1, <2>2, RunsAndForks DEF LifeInv, ForkInv
  <1>19. LeaveInv'
    <2> SUFFICES ASSUME NEW r \in Runs, Reaches(r)'
                 PROVE  /\ TakesLeave(up'[r], Known(r)')
                        /\ \A q \in Procs :
                              RunOf(q)' = r => TakesLeave(out'[q], Word(up'[r], Known(r)'))
      BY DEF LeaveInv, LeaveAt
    <2>1. Reaches(r) /\ Known(r)' = Known(r) /\ \A q \in Procs : RunOf(q)' = RunOf(q)
      BY <1>2 DEF Reaches, Known, Open, RunOf
    <2>2. /\ TakesLeave(up[r], Known(r))
          /\ \A q \in Procs : RunOf(q) = r => TakesLeave(out[q], Word(up[r], Known(r)))
      BY <2>1 DEF LifeInv, LeaveInv, LeaveAt
    <2>3. CASE r # b
      BY <1>5, <1>7, <1>8, <2>1, <2>2, <2>3
    <2>4. CASE r = b
      <3> DEFINE w == Word(up[r], Known(r))
      <3>1. up'[r] = Append(up[r], x)
        BY <1>9, <2>1, <2>4
      <3>2. /\ x.what = "disconnect" => w = "offline"
            /\ TakesLeave(Tail(out[p]), After(x, w))
        BY <1>3, <1>4, <1>5, <2>2, <2>4, ReadOne
      <3>3. TakesLeave(up'[r], Known(r))
        BY <1>6, <1>10, <2>2, <3>1, <3>2, WriteOne DEF Word
      <3>4. Word(up'[r], Known(r)) = "offline" <=> After(x, w) = "offline"
        BY <1>6, <1>10, <3>1, WriteOne DEF Word, After
      <3>5. TakesLeave(out'[p], Word(up'[r], Known(r)))
        BY <1>7, <3>2, <3>4, SaysMore
      <3>6. ASSUME NEW q \in Procs, q # p, RunOf(q) = r
            PROVE  TakesLeave(out'[q], Word(up'[r], Known(r)))
        <4>1. TakesLeave(out[q], w) /\ out'[q] = out[q]
          BY <1>7, <2>2, <3>6
        <4>2. CASE x.what # "online"
          <5>1. w = "offline" => After(x, w) = "offline"
            BY <4>2 DEF After
          <5> QED
            BY <3>4, <4>1, <5>1, SaysMore
        <4>3. CASE x.what = "online"
          <5>1. p = 0 /\ q \in Forks /\ r = run /\ forks[q].run = run
            BY <1>12, <1>13, <2>4, <3>6, <4>3, RunsAndForks DEF RunOf
          <5>2. ~Without(out[0], "online")
            BY <1>3, <1>4, <4>3, <5>1, TailWithout
          <5>3. forks[q].kind = "none"
            BY <5>1, <5>2 DEF LifeInv, ForkInv
          <5>4. out[q] = <<>>
            BY <5>1, <5>3 DEF LifeInv, ForkInv
          <5> QED
            BY <4>1, <5>4, EmptySays
        <4> QED
          BY <4>2, <4>3
      <3> QED
        BY <2>1, <3>3, <3>5, <3>6
    <2> QED
      BY <2>3, <2>4
  <1> QED
    BY <1>1, <1>14, <1>15, <1>16, <1>18, <1>19 DEF LifeInv

----------------------------------------------------------------------------
(* The broker and the network. *)

(* What the broker does leaves the processes alone; its answer to CONNECT  *)
(* is the only CONNACK.                                                    *)
Answer(b) == /\ b = run /\ broker[b] = "none"
             /\ \E x \in {"accepted", "refused"} : down' = Append(down, x)

LEMMA BrokerSide ==
    ASSUME LifeInv, TypeOK', NEW b \in Runs, b <= run, UNCHANGED <<run, conn, forks, out>>,
           down' = down \/ down' = <<>> \/ Answer(b),
           broker'[b] # "none", \A r \in Runs : broker[r] # "none" => broker'[r] # "none",
           \A r \in Runs : r > run => up'[r] = up[r] /\ broker'[r] = broker[r],
           \A r \in Runs : Without(up[r], "connect") => Without(up'[r], "connect"),
           OneOpen', LeaveInv'
    PROVE  LifeInv'
  <1>1. TypeOK
    BY DEF LifeInv
  <1>2. Ahead' /\ Behind'
    BY DEF LifeInv, Ahead, Behind
  <1>3. Asked => Asked'
    BY DEF Asked
  <1>4. CASE down' = down \/ down' = <<>>
    <2>1. (NoConnack => NoConnack') /\ (Acknowledged => Acknowledged')
      BY <1>3, <1>4 DEF NoConnack, Acknowledged
    <2>2. ConnackInv'
      BY <1>3, <1>4, <2>1 DEF LifeInv, ConnackInv, NoConnack
    <2>3. ForkInv'
      BY <2>1 DEF LifeInv, ForkInv
    <2> QED
      BY <1>2, <2>2, <2>3 DEF LifeInv
  <1>5. CASE Answer(b)
    <2>1. ~Asked /\ ~Acknowledged /\ NoConnack /\ Asked'
      BY <1>5 DEF Answer, Asked, Acknowledged, LifeInv, ConnackInv
    <2>2. \A k \in DOMAIN down' : IsConnack(down'[k]) => k = Len(down) + 1
      <3>1. down \in Seq(Menu \cup {"accepted", "refused"})
        BY <1>1 DEF TypeOK
      <3>2. PICK x \in {"accepted", "refused"} : down' = Append(down, x)
        BY <1>5 DEF Answer
      <3>3. \A k \in DOMAIN down' : k # Len(down) + 1 => k \in DOMAIN down /\ down'[k] = down[k]
        BY <3>1, <3>2
      <3> QED
        BY <2>1, <3>3 DEF NoConnack
    <2>3. ConnackInv'
      BY <2>1, <2>2 DEF LifeInv, ConnackInv
    <2>4. ForkInv'
      BY <2>1 DEF LifeInv, ForkInv
    <2> QED
      BY <1>2, <2>3, <2>4 DEF LifeInv
  <1> QED
    BY <1>4, <1>5

(* A connection of which nothing is heard any more has nothing to keep. *)
LEMMA SilentLeave ==
    ASSUME NEW r \in Runs, ~Reaches(r)'
    PROVE  LeaveAt(r)'
  BY DEF LeaveAt

(* A connection that no step touches. *)
LEMMA OtherLeave ==
    ASSUME LifeInv, NEW r \in Runs, UNCHANGED <<run, forks, out>>, up'[r] = up[r],
           Reaches(r)' => Reaches(r), Known(r) = "offline" => Known(r)' = "offline"
    PROVE  LeaveAt(r)'
  <1>1. LeaveAt(r)
    BY DEF LifeInv, LeaveInv
  <1> QED
    BY <1>1, SaysMore, LeaveFrame

(* The broker reads a packet. *)
LEMMA ReadLeave ==
    ASSUME LifeInv, NEW r \in Runs, UNCHANGED <<run, forks, out>>, up[r] # <<>>,
           up'[r] = Tail(up[r]), Reaches(r),
           After(Head(up[r]), Known(r)) = "offline" => Known(r)' = "offline"
    PROVE  LeaveAt(r)'
  <1>1. LeaveAt(r) /\ up[r] \in Seq(Packets)
    BY DEF LifeInv, LeaveInv, TypeOK
  <1>2. TakesLeave(up[r], Known(r)) => TakesLeave(up'[r], Known(r)')
    <2>1. TakesLeave(up[r], Known(r)) => TakesLeave(Tail(up[r]), After(Head(up[r]), Known(r)))
      BY <1>1, ReadOne
    <2>2. TakesLeave(Tail(up[r]), After(Head(up[r]), Known(r))) => TakesLeave(Tail(up[r]), Known(r)')
      BY SaysMore
    <2> QED
      BY <2>1, <2>2
  <1>3. SaysOffline(up[r], Known(r)) => SaysOffline(up'[r], Known(r)')
    BY <1>1, ReadOne, SaysMore
  <1> QED
    BY <1>1, <1>2, <1>3, LeaveFrame

LEMMA LifeClosedByBroker ==
    ASSUME LifeInv, TypeOK', NEW b \in Runs, b <= run, Open(b), Closed(b),
           UNCHANGED <<agentVars, down, lost>>
    PROVE  LifeInv'
  <1>1. TypeOK /\ UNCHANGED <<run, conn, forks, out>>
    BY DEF LifeInv, agentVars
  <1>2. /\ broker'[b] = "cut" /\ \A r \in Runs : r # b => broker'[r] = broker[r]
        /\ up'[b] = <<>> /\ \A r \in Runs : r # b => up'[r] = up[r]
    BY <1>1 DEF Closed, TypeOK
  <1>3. OneOpen'
    BY <1>2 DEF LifeInv, OneOpen, Open
  <1>4. LeaveInv'
    <2> SUFFICES ASSUME NEW r \in Runs
                 PROVE  LeaveAt(r)'
      BY DEF LeaveInv
    <2>1. CASE r = b
      BY <1>2, <2>1, SilentLeave DEF Reaches
    <2>2. CASE r # b
      <3>1. Known(r) = "other" /\ (Reaches(r)' => Reaches(r))
        BY <1>2, <2>2 DEF Known, Open, LifeInv, OneOpen, Reaches
      <3> QED
        BY <1>1, <1>2, <2>2, <3>1, OtherLeave
    <2> QED
      BY <2>1, <2>2
  <1>5. \A r \in Runs : Without(up[r], "connect") => Without(up'[r], "connect")
    BY <1>2 DEF Without
  <1>6. \A r \in Runs : r > run => r # b
    BY <1>1, RunsAndForks DEF TypeOK
  <1> QED
    BY <1>1, <1>2, <1>3, <1>4, <1>5, <1>6, BrokerSide

LEMMA LifeAccepts ==
    ASSUME LifeInv, NEW b \in Runs, b \notin lost, broker[b] = "none", IsNext(b, "connect"),
           Accepts(b), UNCHANGED <<agentVars, signalVars, asked, lost>>
    PROVE  LifeInv'
  <1>1. TypeOK /\ TypeOK' /\ UNCHANGED <<run, conn, forks, out>>
    BY TypeBroker DEF LifeInv, agentVars, BrokerStep, BrokerReads
  <1>2. b = run
    <2>1. ~(b < run)
      <3>1. up[b] \in Seq(Packets)
        BY <1>1 DEF TypeOK
      <3> QED
        BY <3>1, TailTyped DEF LifeInv, Behind, Without, IsNext
    <2>2. ~(b > run)
      BY DEF LifeInv, Ahead, IsNext
    <2> QED
      BY <1>1, <2>1, <2>2, RunsAndForks DEF TypeOK
  <1>3. /\ broker'[b] = "open" /\ up'[b] = Tail(up[b])
        /\ \A r \in Runs : r # b /\ Open(r) => broker'[r] = "cut" /\ up'[r] = <<>>
        /\ \A r \in Runs : r # b /\ ~Open(r) => broker'[r] = broker[r] /\ up'[r] = up[r]
    BY <1>1 DEF Accepts, TakenOver, Open, TypeOK
  <1>4. OneOpen'
    BY <1>3 DEF OneOpen, Open
  <1>5. up[b] \in Seq(Packets) /\ up[b] # <<>> /\ Head(up[b]).what = "connect"
    BY <1>1 DEF TypeOK, IsNext
  <1>6. LeaveInv'
    <2> SUFFICES ASSUME NEW r \in Runs
                 PROVE  LeaveAt(r)'
      BY DEF LeaveInv
    <2>1. CASE r = b
      <3>1. After(Head(up[b]), Known(b)) = "other" /\ Reaches(b)
        BY <1>5 DEF After, Known, Open, Reaches
      <3> QED
        BY <1>1, <1>3, <1>5, <2>1, <3>1, ReadLeave
    <2>2. CASE r # b /\ Open(r)
      BY <1>3, <2>2, SilentLeave DEF Reaches
    <2>3. CASE r # b /\ ~Open(r)
      <3>1. Known(r) = "other" /\ (Reaches(r)' => Reaches(r))
        BY <1>3, <2>3 DEF Known, Reaches
      <3> QED
        BY <1>1, <1>3, <2>3, <3>1, OtherLeave
    <2> QED
      BY <2>1, <2>2, <2>3
  <1>7. \A r \in Runs : Without(up[r], "connect") => Without(up'[r], "connect")
    <2>1. \A r \in Runs : up'[r] = up[r] \/ up'[r] = <<>> \/ (r = b /\ up'[r] = Tail(up[r]))
      BY <1>3
    <2>2. Without(<<>>, "connect")
      BY DEF Without
    <2> QED
      BY <1>5, <2>1, <2>2, TailWithout
  <1>8. Answer(b)
    BY <1>2 DEF Accepts, Answer
  <1>9. \A r \in Runs : r > run => up'[r] = up[r] /\ broker'[r] = broker[r]
    BY <1>1, <1>2, <1>3, RunsAndForks DEF LifeInv, Ahead, Open, TypeOK
  <1>10. \A r \in Runs : broker[r] # "none" => broker'[r] # "none"
    BY <1>3
  <1>11. b <= run /\ broker'[b] # "none"
    BY <1>2, <1>3, RunsAndForks
  <1> QED
    BY <1>1, <1>4, <1>6, <1>7, <1>8, <1>9, <1>10, <1>11, BrokerSide

(* A packet is read that changes no other connection. *)
LEMMA LifeReads ==
    ASSUME LifeInv, NEW b \in Runs, BrokerStep(b),
           \/ broker[b] = "none" /\ IsNext(b, "connect") /\ Refuses(b)
           \/ Open(b) /\ UNCHANGED down /\ (ReadsStatus(b) \/ ReadsOther(b) \/ ReadsDisconnect(b))
           \/ /\ Open(b) /\ UNCHANGED <<down, broker, retained>>
              /\ IsNext(b, "first") /\ Len(up[b]) > 1 /\ ~IsTorn(b)
              /\ up' = [up EXCEPT ![b] = Tail(Tail(@))]
    PROVE  LifeInv'
  <1>1. TypeOK /\ TypeOK' /\ UNCHANGED <<run, conn, forks, out, lost>> /\ b \notin lost
    BY TypeBroker DEF LifeInv, agentVars, BrokerStep
  <1>2. up[b] \in Seq(Packets) /\ up[b] # <<>>
    BY <1>1 DEF TypeOK, IsNext, ReadsStatus, ReadsOther, ReadsDisconnect
  <1>3. b <= run
    BY <1>1, <1>2, RunsAndForks DEF LifeInv, Ahead, TypeOK
  <1>4. b = run \/ broker[b] # "none"
    <2>1. ~(b < run /\ IsNext(b, "connect"))
      BY <1>2, TailTyped DEF LifeInv, Behind, Without, IsNext
    <2> QED
      BY <1>1, <1>3, <2>1, RunsAndForks DEF TypeOK, Open
  <1>5. /\ \A r \in Runs : r # b => broker'[r] = broker[r] /\ up'[r] = up[r]
        /\ broker'[b] # "none" /\ (Open(b)' => Open(b))
    BY <1>1 DEF Refuses, ReadsStatus, ReadsOther, ReadsDisconnect, Open, TypeOK
  <1>6. OneOpen'
    BY <1>5 DEF LifeInv, OneOpen, Open
  <1>7. \/ up'[b] \in {<<>>, Tail(up[b])}
        \/ Len(up[b]) > 1 /\ up'[b] = Tail(Tail(up[b]))
    BY <1>1 DEF Refuses, ReadsStatus, ReadsOther, ReadsDisconnect, TypeOK
  <1>8. Tail(up[b]) \in Seq(Packets) /\ (Len(up[b]) > 1 => Tail(up[b]) # <<>>)
    BY <1>2, TailTyped
  <1>9. Without(up[b], "connect") => Without(up'[b], "connect")
    <2> SUFFICES ASSUME Without(up[b], "connect")
                 PROVE  Without(up'[b], "connect")
      OBVIOUS
    <2>1. Without(<<>>, "connect")
      BY DEF Without
    <2>2. Without(Tail(up[b]), "connect")
      BY <1>2, TailWithout
    <2>3. Len(up[b]) > 1 => Without(Tail(Tail(up[b])), "connect")
      BY <1>8, <2>2, TailWithout
    <2> QED
      BY <1>7, <2>1, <2>2, <2>3
  <1>10. \A r \in Runs : Without(up[r], "connect") => Without(up'[r], "connect")
    BY <1>5, <1>9
  <1>11. down' = down \/ Answer(b)
    BY <1>4 DEF Refuses, Answer, Open
  <1>12. LeaveAt(b)'
    <2>1. CASE Refuses(b) \/ ReadsDisconnect(b)
      <3>1. broker'[b] \in {"cut", "left"}
        BY <1>1, <2>1 DEF Refuses, ReadsDisconnect, TypeOK
      <3> QED
        BY <3>1, SilentLeave DEF Reaches
    <2>2. CASE Open(b) /\ ReadsStatus(b)
      <3>1. After(Head(up[b]), Known(b)) = "offline" => retained' = "offline"
        BY <2>2 DEF ReadsStatus, IsNext, After
      <3>2. Known(b)' = retained' /\ Reaches(b) /\ up'[b] = Tail(up[b])
        BY <1>1, <2>2 DEF ReadsStatus, Known, Open, Reaches, TypeOK
      <3> QED
        BY <1>1, <1>2, <3>1, <3>2, ReadLeave
    <2>3. CASE Open(b) /\ ReadsOther(b)
      <3>1. After(Head(up[b]), Known(b)) = Known(b)
        BY <2>3 DEF ReadsOther, IsNext, After
      <3>2. Known(b)' = Known(b) /\ Reaches(b) /\ up'[b] = Tail(up[b])
        BY <1>1, <2>3 DEF ReadsOther, Known, Open, Reaches, TypeOK
      <3> QED
        BY <1>1, <1>2, <3>1, <3>2, ReadLeave
    <2>4. CASE /\ Open(b) /\ UNCHANGED <<down, broker, retained>>
               /\ IsNext(b, "first") /\ Len(up[b]) > 1 /\ ~IsTorn(b)
               /\ up' = [up EXCEPT ![b] = Tail(Tail(@))]
      <3>1. LeaveAt(b) /\ Reaches(b)' = Reaches(b) /\ Known(b)' = Known(b)
        BY <1>1, <2>4 DEF LifeInv, LeaveInv, Reaches, Known, Open
      <3>2. After(Head(up[b]), Known(b)) = Known(b)
        BY <2>4 DEF IsNext, After
      <3>3. /\ Tail(up[b]) \in Seq(Packets) /\ Tail(up[b]) # <<>>
            /\ Head(Tail(up[b])) = up[b][2]
        <4>1. /\ Tail(up[b]) \in Seq(Packets) /\ Tail(up[b]) # <<>> /\ Len(up[b]) \in Nat \ {0}
              /\ DOMAIN Tail(up[b]) = 1..(Len(up[b]) - 1)
              /\ \A k \in DOMAIN Tail(up[b]) : Tail(up[b])[k] = up[b][k + 1]
          BY <1>2, <2>4, TailTyped
        <4>2. Head(Tail(up[b])) = Tail(up[b])[1]
          BY <4>1, TailTyped
        <4>3. 1 \in DOMAIN Tail(up[b])
          BY <2>4, <4>1
        <4> QED
          BY <4>1, <4>2, <4>3
      <3>4. After(Head(Tail(up[b])), Known(b)) = Known(b)
        BY <2>4, <3>3 DEF IsTorn, Half, After
      <3>5. up'[b] = Tail(Tail(up[b]))
        BY <1>1, <2>4 DEF TypeOK
      <3>6. /\ TakesLeave(up[b], Known(b)) => TakesLeave(Tail(up[b]), Known(b))
            /\ SaysOffline(up[b], Known(b)) => SaysOffline(Tail(up[b]), Known(b))
        BY <1>2, <3>2, ReadOne
      <3>7. /\ TakesLeave(Tail(up[b]), Known(b)) => TakesLeave(Tail(Tail(up[b])), Known(b))
            /\ SaysOffline(Tail(up[b]), Known(b)) => SaysOffline(Tail(Tail(up[b])), Known(b))
        BY <3>3, <3>4, ReadOne
      <3> QED
        BY <1>1, <3>1, <3>5, <3>6, <3>7, LeaveFrame
    <2> QED
      BY <2>1, <2>2, <2>3, <2>4
  <1>13. LeaveInv'
    <2> SUFFICES ASSUME NEW r \in Runs, r # b
                 PROVE  LeaveAt(r)'
      BY <1>12 DEF LeaveInv
    <2>1. Reaches(r)' => Reaches(r)
      BY <1>1, <1>5 DEF Reaches
    <2>2. Known(r) = "offline" => Known(r)' = "offline"
      <3>1. CASE Open(r)
        <4>1. ~Open(b)
          BY <3>1 DEF LifeInv, OneOpen
        <4>2. retained' = retained
          BY <4>1 DEF Refuses
        <4> QED
          BY <1>5, <4>2 DEF Known, Open
      <3>2. CASE ~Open(r)
        BY <3>2 DEF Known
      <3> QED
        BY <3>1, <3>2
    <2> QED
      BY <1>1, <1>5, <2>1, <2>2, OtherLeave
  <1>14. \A r \in Runs : r > run => r # b
    BY <1>1, <1>3, RunsAndForks DEF TypeOK
  <1> QED
    BY <1>1, <1>3, <1>5, <1>6, <1>10, <1>11, <1>13, <1>14, BrokerSide

LEMMA LifeBroker ==
    ASSUME LifeInv, NEW b \in Runs, BrokerStep(b)
    PROVE  LifeInv'
  <1>1. TypeOK /\ TypeOK' /\ UNCHANGED <<agentVars, lost, signalVars, asked>> /\ b \notin lost
    BY TypeBroker DEF LifeInv, BrokerStep
  <1>2. CASE BrokerSeesEnd(b) \/ (Open(b) /\ UNCHANGED down /\ ReadsLarge(b) /\ Closed(b))
    <2>1. Open(b) /\ Closed(b) /\ down' = down
      BY <1>2 DEF BrokerSeesEnd, Open
    <2>2. b <= run
      BY <1>1, <2>1, RunsAndForks DEF Open, LifeInv, Ahead, TypeOK
    <2> QED
      BY <1>1, <2>1, <2>2, LifeClosedByBroker
  <1>3. CASE broker[b] = "none" /\ IsNext(b, "connect") /\ Accepts(b)
    BY <1>1, <1>3, LifeAccepts
  <1>4. CASE \/ broker[b] = "none" /\ IsNext(b, "connect") /\ Refuses(b)
             \/ Open(b) /\ UNCHANGED down /\ (ReadsStatus(b) \/ ReadsOther(b) \/ ReadsDisconnect(b))
             \/ /\ Open(b) /\ UNCHANGED <<down, broker, retained>>
                /\ IsNext(b, "first") /\ Len(up[b]) > 1 /\ ~IsTorn(b)
                /\ up' = [up EXCEPT ![b] = Tail(Tail(@))]
    BY <1>4, LifeReads
  <1> QED
    BY <1>2, <1>3, <1>4 DEF BrokerStep, BrokerReads, ReadsLarge, Open

LEMMA LifeNetwork ==
    ASSUME LifeInv, NEW b \in Runs, Lose(b) \/ GivesUp(b)
    PROVE  LifeInv'
  <1>1. TypeOK /\ TypeOK'
    BY TypeNetwork DEF LifeInv
  <1>2. CASE Lose(b)
    <2>1. /\ UNCHANGED <<run, conn, forks, out, broker, retained>> /\ b <= run
          /\ down' = down \/ down' = <<>>
          /\ b \in lost' /\ lost \subseteq lost'
      BY <1>2 DEF Lose, agentVars
    <2>2. up'[b] = <<>> /\ \A r \in Runs : r # b => up'[r] = up[r]
      BY <1>1, <1>2 DEF Lose, TypeOK
    <2>3. (OneOpen /\ Ahead /\ Behind)'
      BY <2>1, <2>2 DEF LifeInv, OneOpen, Open, Ahead, Behind, Without
    <2>4. (NoConnack => NoConnack') /\ (Acknowledged => Acknowledged') /\ Asked' = Asked
      BY <2>1 DEF NoConnack, Acknowledged, Asked
    <2>5. ConnackInv' /\ ForkInv'
      <3>1. \A j, k \in DOMAIN down' : IsConnack(down'[j]) /\ IsConnack(down'[k]) => j = k
        BY <2>1 DEF LifeInv, ConnackInv
      <3>2. ConnackInv'
        BY <2>1, <2>4, <3>1 DEF LifeInv, ConnackInv
      <3>3. ForkInv'
        BY <2>1, <2>4 DEF LifeInv, ForkInv
      <3> QED
        BY <3>2, <3>3
    <2>6. LeaveInv'
      <3> SUFFICES ASSUME NEW r \in Runs
                   PROVE  LeaveAt(r)'
        BY DEF LeaveInv
      <3>1. CASE r = b
        BY <2>1, <3>1, SilentLeave DEF Reaches
      <3>2. CASE r # b
        <4>1. (Reaches(r)' => Reaches(r)) /\ Known(r)' = Known(r)
          BY <2>1 DEF Reaches, Known, Open
        <4> QED
          BY <2>1, <2>2, <3>2, <4>1, OtherLeave
      <3> QED
        BY <3>1, <3>2
    <2> QED
      BY <1>1, <2>3, <2>5, <2>6 DEF LifeInv
  <1>3. CASE GivesUp(b) /\ ConnectionEnds
    <2>1. UNCHANGED <<run, forks, out, up, broker, lost, retained>> /\ conn' = "off" /\ down' = <<>>
      BY <1>3 DEF ConnectionEnds
    <2> QED
      BY <1>1, <2>1, LifeClosed
  <1>4. CASE Open(b) /\ Closed(b) /\ UNCHANGED <<agentVars, signalVars, asked, down, lost>>
    <2>1. b <= run
      BY <1>1, <1>4, RunsAndForks DEF Open, LifeInv, Ahead, TypeOK
    <2> QED
      BY <1>1, <1>4, <2>1, LifeClosedByBroker
  <1> QED
    BY <1>2, <1>3, <1>4 DEF GivesUp, Open

LEMMA LifeStep == ASSUME LifeInv, [Next]_vars PROVE LifeInv'
  <1>1. CASE UNCHANGED vars
    <2>1. TypeOK' /\ UNCHANGED <<run, conn, forks, out, down, up, broker, lost, retained>>
      BY <1>1, TypeStep DEF LifeInv, vars, agentVars, netVars
    <2> QED
      BY <2>1, LifeQuiet, SameForks DEF LifeInv
  <1>2. CASE ParentStep
    BY <1>2, LifeConnack, LifePublish, LifeParent, LifeWrite, LifeSignal, RunsAndForks DEF ParentStep
  <1>3. ASSUME NEW n \in Forks, ForkProcess(n)
        PROVE  LifeInv'
    BY <1>3, LifeFork, LifeWrite, LifeSignal, RunsAndForks DEF ForkProcess
  <1> QED
    BY <1>1, <1>2, <1>3, LifeStart, LifeParent, LifeRequest, LifeKilled, LifeBroker, LifeNetwork
       DEF Next

LEMMA LifeAlways == Spec => []LifeInv
  BY LifeInit, LifeStep, PTL DEF Spec

----------------------------------------------------------------------------
(* Only a step of the broker reads or forgets what was written.            *)
LEMMA AgentIsNotBroker ==
    ASSUME TypeOK, ~(UNCHANGED <<broker, retained>>), Next
    PROVE  \E r \in Runs : BrokerStep(r) \/ (GivesUp(r) /\ Open(r) /\ Closed(r) /\ UNCHANGED run)
  <1>1. CASE ParentStep
    BY <1>1 DEF ParentStep, HandleConnack, HandlePublish, Unlock, HandleError, ConnectionEnds, CloseTimer,
                ForceDisconnect, RunReturns, Write, HandleSignal, netVars
  <1>2. ASSUME NEW n \in Forks, ForkProcess(n)
        PROVE  FALSE
    BY <1>2 DEF ForkProcess, ForkStep, Write, HandleSignal, netVars
  <1>3. CASE Start \/ Interrupt \/ Request \/ Killed
    BY <1>3 DEF Start, Interrupt, Request, Killed, netVars
  <1> QED
    BY <1>1, <1>2, <1>3 DEF Next, Lose, GivesUp, ConnectionEnds, Open, agentVars

LEMMA LeavesStep ==
    ASSUME LifeInv, [Next]_vars, NEW r \in Runs, broker'[r] = "left", broker[r] # "left"
    PROVE  retained = "offline"
  <1>1. TypeOK /\ ~(UNCHANGED <<broker, retained>>) /\ Next
    BY DEF LifeInv, vars, netVars
  <1>2. PICK b \in Runs : BrokerStep(b) \/ (GivesUp(b) /\ Open(b) /\ Closed(b) /\ UNCHANGED run)
    BY <1>1, AgentIsNotBroker
  <1>3. ~Closed(b)
    BY <1>1 DEF Closed, TypeOK
  <1>4. ~Accepts(b) /\ ~Refuses(b) /\ ~ReadsStatus(b) /\ ~ReadsOther(b)
    BY <1>1 DEF Accepts, Refuses, ReadsStatus, ReadsOther, TypeOK
  <1>5. Open(b) /\ ReadsDisconnect(b) /\ b \notin lost
    BY <1>2, <1>3, <1>4 DEF BrokerStep, BrokerReads, BrokerSeesEnd, ReadsLarge, Open
  <1>6. TakesLeave(up[b], retained)
    BY <1>5 DEF LifeInv, LeaveInv, LeaveAt, Reaches, Known, Open
  <1>7. up[b] \in Seq(Packets) /\ up[b] # <<>> /\ Head(up[b]).what = "disconnect"
    BY <1>1, <1>5 DEF ReadsDisconnect, IsNext, TypeOK
  <1> QED
    BY <1>6, <1>7, ReadOne

(* When the broker takes leave of an agent, clients have been told that it *)
(* is offline: for any number of runs, forks and interrupts, in whatever   *)
(* order the writes of the parent's and the forks' signal handlers and of  *)
(* the handlers they interrupted reach the one connection.                 *)
THEOREM LeavesToldOffline == Spec => LeavesOffline
  <1>1. LifeInv /\ [Next]_vars
          => (\A r \in Runs : broker'[r] = "left" /\ broker[r] # "left" => retained = "offline")
    BY LeavesStep
  <1>2. LifeInv /\ [Next]_vars
          => [\A r \in Runs : broker'[r] = "left" /\ broker[r] # "left" => retained = "offline"]_vars
    BY <1>1
  <1> QED
    BY <1>2, LifeAlways, PTL DEF Spec, LeavesOffline

LEMMA SpeaksStep ==
    ASSUME LifeInv, Next, run > 0, broker[run] \in {"open", "routing"}, retained' # retained,
           NEW r \in 1..(run - 1)
    PROVE  broker'[r] = broker[r] /\ up'[r] = up[r]
  <1>1. TypeOK /\ run \in Runs /\ r \in Runs /\ r # run
    BY ConstantsAssumption DEF LifeInv, TypeOK, Runs
  <1>2. PICK b \in Runs : BrokerStep(b) \/ (GivesUp(b) /\ Open(b) /\ Closed(b) /\ UNCHANGED run)
    BY <1>1, AgentIsNotBroker
  <1>3. ~Accepts(b) \/ ~IsNext(b, "connect") \/ broker[b] # "none"
    <2> SUFFICES ASSUME IsNext(b, "connect"), broker[b] = "none"
                 PROVE  FALSE
      OBVIOUS
    <2>1. up[b] \in Seq(Packets) /\ up[b] # <<>> /\ Head(up[b]).what = "connect"
      BY <1>1 DEF IsNext, TypeOK
    <2>2. ~(b < run)
      BY <2>1, TailTyped DEF LifeInv, Behind, Without
    <2>3. ~(b > run)
      BY <2>1 DEF LifeInv, Ahead
    <2>4. b = run
      BY <1>1, <2>2, <2>3, RunsAndForks
    <2> QED
      BY <2>4
  <1>4. Open(b) \/ (broker[b] = "none" /\ IsNext(b, "connect") /\ Refuses(b))
    BY <1>2, <1>3 DEF BrokerStep, BrokerReads, BrokerSeesEnd, Open
  <1>5. Open(b)
    BY <1>4 DEF Refuses
  <1>6. b = run
    BY <1>1, <1>5 DEF LifeInv, OneOpen, Open
  <1>7. \A q \in Runs : q # b => broker'[q] = broker[q] /\ up'[q] = up[q]
    BY <1>1, <1>2, <1>5 DEF BrokerStep, BrokerReads, BrokerSeesEnd, Closed, ReadsStatus, ReadsOther,
       ReadsDisconnect, ReadsLarge, Open, TypeOK
  <1> QED
    BY <1>1, <1>6, <1>7

(* While the connection of the current run is open, what clients are told  *)
(* changes by its packets or its end alone: nothing that is left of an     *)
(* earlier run, no packet on its connection and no will, interferes.       *)
THEOREM OnlyTheNewRunSpeaks == Spec => NewRunSpeaks
  <1>1. LifeInv /\ [Next]_vars =>
          [run > 0 /\ broker[run] \in {"open", "routing"} /\ retained' # retained
             => \A r \in 1..(run - 1) : broker'[r] = broker[r] /\ up'[r] = up[r]]_vars
    BY SpeaksStep
  <1> QED
    BY <1>1, LifeAlways, PTL DEF Spec, NewRunSpeaks
=============================================================================
