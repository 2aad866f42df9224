----------------------- MODULE RSessionOverlapProofs -----------------------
(* Proofs about RSession that need the history of the calls of a session:  *)
(* what overlapping calls lose, and that calls which do not overlap        *)
(* implement SessionService.  For every number of calls, instances,        *)
(* variables and operations.                                               *)
EXTENDS RSessionProofs

(* Fork p closed its save.                                                 *)
HasSaved(p) == fork[p].pc \in {"saved", "replied", "unsent"}

(* The calls that had ended when one forked are ended, and of two calls    *)
(* at most one had ended when the other forked.                            *)
History ==
    /\ \A q \in Begun : fork[q].before \subseteq Ended
    /\ \A p, q \in Begun : p \in fork[q].before => q \notin fork[p].before

(* A session's file is torn while calls of the session save, and those     *)
(* whose environments it may hold overlap.                                 *)
FileHistory(x) ==
    /\ file[x].writers = {p \in CallsOn(x) : fork[p].pc = "saving"}
    /\ file[x].st = "torn" <=> file[x].writers # {}
    /\ file[x].writers = {} => file[x].mixed = {}
    /\ file[x].writers \subseteq file[x].mixed
    /\ \A p \in file[x].mixed : fork[p].pc \in {"saving", "saved", "replied", "unsent"}
    /\ \A p, q \in file[x].mixed : p # q => Overlap(p, q)
    /\ file[x].st = "corrupt" => \E p, r \in CallsOn(x) : Overlap(p, r)
    /\ file[x].st = "none" =>
          /\ file[x].env = Fresh
          /\ \A p \in CallsOn(x) : fork[p].pc \notin {"saving", "saved", "replied", "unsent"}

FilesHistory == \A x \in Instances : FileHistory(x)

(* What a fork has and returns follows from what it loaded.                *)
Progress(p) ==
    /\ fork[p].pc = "forked" \/ fork[p].inst = Static => fork[p].loaded = Fresh
    /\ fork[p].pc \in {"forked", "attached"} =>
          fork[p].env = fork[p].loaded /\ fork[p].out = NoOutput
    /\ fork[p].pc \in {"evaluated", "saving", "saved", "replied", "unsent"} =>
          /\ Resolves(fork[p].loaded, fork[p].op)
          /\ fork[p].env = Evaluated(fork[p].loaded, fork[p].op, p)
          /\ fork[p].out = Returned(fork[p].loaded, fork[p].op, p)
    /\ fork[p].pc \in {"unreadable", "unresolved"} => fork[p].out = NoOutput

ForksProgress == \A p \in Begun : Progress(p)

OverlapInv == Inv /\ History /\ FilesHistory /\ ForksProgress

----------------------------------------------------------------------------
(* An environment holds what p set, or what was set since.                 *)
Keeps(p, env) == env[fork[p].op.writes] \notin fork[p].before \cup {Unset}

(* What p set, and no call of its session overlapped, is in the file and   *)
(* in whatever later calls have loaded.                                    *)
Survives(p) ==
    /\ file[fork[p].inst].st = "ok" => Keeps(p, file[fork[p].inst].env)
    /\ file[fork[p].inst].st = "torn" =>
          \A m \in file[fork[p].inst].mixed : Keeps(p, fork[m].env)
    /\ \A r \in CallsOn(fork[p].inst) :
          p \in fork[r].before /\ fork[r].pc \notin {"forked", "unreadable"}
              => Keeps(p, fork[r].loaded) /\ Keeps(p, fork[r].env)

Alone(p) == \A r \in Begun : ~Overlap(p, r)

Survival ==
    \A p \in Begun :
        HasSaved(p) /\ fork[p].inst # Static /\ fork[p].op.writes # NoSlot /\ Alone(p)
            => Survives(p)

(* A call that could not read the file of its session overlapped another,  *)
(* or others overlapped before.                                            *)
UnreadableHistory ==
    \A q \in Begun : fork[q].pc = "unreadable" =>
        fork[q].inst # Static /\ \E p, r \in CallsOn(fork[q].inst) : Overlap(p, r)

----------------------------------------------------------------------------
(* With clients that wait, no calls overlap, and what a call of a session  *)
(* that has yet to close its save loaded is the state of its session.      *)
NoOverlap == Sequential => \A p, q \in Begun : ~Overlap(p, q)

LoadedIsState ==
    Sequential =>
        \A p \in Begun :
            fork[p].inst # Static /\ fork[p].pc \in {"attached", "evaluated", "saving"}
                => fork[p].loaded = file[fork[p].inst].env
----------------------------------------------------------------------------
(* What the actions do, field by field. *)

(* Fork p takes a step: other forks, its session, operation and the calls  *)
(* that had ended stay.                                                    *)
Steps(p) ==
    /\ p \in Begun /\ p \notin Ended
    /\ \A q \in Calls \ {p} : fork'[q] = fork[q]
    /\ fork'[p].inst = fork[p].inst /\ fork'[p].op = fork[p].op
    /\ fork'[p].before = fork[p].before
    /\ fork'[p].pc # "idle"

LEMMA MoveEffect ==
    ASSUME TypeOK, NEW p \in Begun, p \notin Ended, NEW pc, pc # "idle", Move(p, pc)
    PROVE  /\ Steps(p) /\ fork'[p].pc = pc
           /\ fork'[p].loaded = fork[p].loaded /\ fork'[p].env = fork[p].env
           /\ fork'[p].out = fork[p].out
  <1>1. p \in Calls /\ fork \in [Calls -> Forks]
    BY DEF Begun, TypeOK
  <1>2. fork[p] \in Forks
    BY <1>1
  <1>3. fork' = [fork EXCEPT ![p] = [fork[p] EXCEPT !.pc = pc]]
    BY <1>1 DEF Move
  <1>4. fork'[p] = [fork[p] EXCEPT !.pc = pc] /\ \A q \in Calls \ {p} : fork'[q] = fork[q]
    BY <1>1, <1>3
  <1> QED
    BY <1>2, <1>4 DEF Steps, Forks

LEMMA LoadedEffect ==
    ASSUME TypeOK, NEW p \in Begun, p \notin Ended, NEW env, Loaded(p, env)
    PROVE  /\ Steps(p) /\ fork'[p].pc = "attached"
           /\ fork'[p].loaded = env /\ fork'[p].env = env
           /\ fork'[p].out = fork[p].out
  <1> DEFINE g1 == [fork[p] EXCEPT !.pc = "attached"]
             g2 == [g1 EXCEPT !.loaded = env]
             g3 == [g2 EXCEPT !.env = env]
  <1>1. p \in Calls /\ fork \in [Calls -> Forks] /\ fork[p] \in Forks
    BY DEF Begun, TypeOK
  <1>2. fork' = [fork EXCEPT ![p] = g3]
    BY <1>1 DEF Loaded
  <1>3. fork'[p] = g3 /\ \A q \in Calls \ {p} : fork'[q] = fork[q]
    BY <1>1, <1>2
  <1>4. g1 = [pc |-> "attached", inst |-> fork[p].inst, op |-> fork[p].op, loaded |-> fork[p].loaded,
              env |-> fork[p].env, out |-> fork[p].out, before |-> fork[p].before]
    BY <1>1 DEF Forks
  <1> HIDE DEF g1
  <1>5. g2 = [pc |-> "attached", inst |-> fork[p].inst, op |-> fork[p].op, loaded |-> env,
              env |-> fork[p].env, out |-> fork[p].out, before |-> fork[p].before]
    BY <1>4
  <1> HIDE DEF g2
  <1>6. g3 = [pc |-> "attached", inst |-> fork[p].inst, op |-> fork[p].op, loaded |-> env,
              env |-> env, out |-> fork[p].out, before |-> fork[p].before]
    BY <1>5
  <1> HIDE DEF g3
  <1> QED
    BY <1>3, <1>6 DEF Steps

LEMMA EvaluateEffect ==
    ASSUME TypeOK, NEW p \in Calls, Evaluate(p)
    PROVE  /\ Steps(p) /\ p \in Begun /\ fork[p].pc = "attached"
           /\ fork'[p].loaded = fork[p].loaded
           /\ \/ /\ ~Resolves(fork[p].env, fork[p].op) /\ fork'[p].pc = "unresolved"
                 /\ fork'[p].env = fork[p].env /\ fork'[p].out = fork[p].out
              \/ /\ Resolves(fork[p].env, fork[p].op)
                 /\ fork'[p].pc = (IF fork[p].inst = Static THEN "saved" ELSE "evaluated")
                 /\ fork'[p].env = Evaluated(fork[p].env, fork[p].op, p)
                 /\ fork'[p].out = Returned(fork[p].env, fork[p].op, p)
  <1> DEFINE e == fork[p].env
             o == fork[p].op
             next == IF fork[p].inst = Static THEN "saved" ELSE "evaluated"
             g1 == [fork[p] EXCEPT !.pc = next]
             g2 == [g1 EXCEPT !.env = Evaluated(e, o, p)]
             g3 == [g2 EXCEPT !.out = Returned(e, o, p)]
  <1>1. p \in Begun /\ p \notin Ended /\ fork \in [Calls -> Forks] /\ fork[p] \in Forks
        /\ fork[p].pc = "attached"
    BY DEF Begun, Ended, Evaluate, TypeOK
  <1>2. CASE Resolves(e, o)
    <2>1. fork' = [fork EXCEPT ![p] = g3]
      BY <1>1, <1>2 DEF Evaluate
    <2>2. fork'[p] = g3 /\ \A q \in Calls \ {p} : fork'[q] = fork[q]
      BY <1>1, <2>1
    <2>3. g1 = [pc |-> next, inst |-> fork[p].inst, op |-> o, loaded |-> fork[p].loaded,
                env |-> e, out |-> fork[p].out, before |-> fork[p].before]
      BY <1>1 DEF Forks
    <2> HIDE DEF g1
    <2>4. g2 = [pc |-> next, inst |-> fork[p].inst, op |-> o, loaded |-> fork[p].loaded,
                env |-> Evaluated(e, o, p), out |-> fork[p].out, before |-> fork[p].before]
      BY <2>3
    <2> HIDE DEF g2
    <2>5. g3 = [pc |-> next, inst |-> fork[p].inst, op |-> o, loaded |-> fork[p].loaded,
                env |-> Evaluated(e, o, p), out |-> Returned(e, o, p), before |-> fork[p].before]
      BY <2>4
    <2> HIDE DEF g3
    <2> QED
      BY <1>1, <1>2, <2>2, <2>5 DEF Steps
  <1>3. CASE ~Resolves(e, o)
    <2>1. Move(p, "unresolved")
      BY <1>3 DEF Evaluate
    <2> QED
      BY <1>1, <1>3, <2>1, MoveEffect
  <1> QED
    BY <1>2, <1>3

LEMMA CallEffect ==
    ASSUME TypeOK, NEW p \in Calls, NEW x, NEW op, VrpcCall(p, x, op)
    PROVE  /\ p \notin Begun /\ file' = file
           /\ fork'[p] = [pc |-> "forked", inst |-> x, op |-> op, loaded |-> Fresh,
                          env |-> Fresh, out |-> NoOutput, before |-> Ended]
           /\ \A q \in Calls \ {p} : fork'[q] = fork[q]
  <1> DEFINE some == CHOOSE o \in Ops : TRUE
  <1>1. Idle = [pc |-> "idle", inst |-> Static, op |-> some, loaded |-> Fresh,
                env |-> Fresh, out |-> NoOutput, before |-> {}]
    BY DEF Idle
  <1> DEFINE i1 == [Idle EXCEPT !.pc = "forked"]
             i2 == [i1 EXCEPT !.inst = x]
             i3 == [i2 EXCEPT !.op = op]
             i4 == [i3 EXCEPT !.before = Ended]
  <1> HIDE DEF some
  <1>2. i1 = [pc |-> "forked", inst |-> Static, op |-> some, loaded |-> Fresh,
              env |-> Fresh, out |-> NoOutput, before |-> {}]
    BY <1>1
  <1> HIDE DEF i1
  <1>3. i2 = [pc |-> "forked", inst |-> x, op |-> some, loaded |-> Fresh,
              env |-> Fresh, out |-> NoOutput, before |-> {}]
    BY <1>2
  <1> HIDE DEF i2
  <1>4. i3 = [pc |-> "forked", inst |-> x, op |-> op, loaded |-> Fresh,
              env |-> Fresh, out |-> NoOutput, before |-> {}]
    BY <1>3
  <1> HIDE DEF i3
  <1>5. i4 = [pc |-> "forked", inst |-> x, op |-> op, loaded |-> Fresh,
              env |-> Fresh, out |-> NoOutput, before |-> Ended]
    BY <1>4
  <1>6. fork' = [fork EXCEPT ![p] = i4]
    BY DEF VrpcCall, i1, i2, i3
  <1>7. fork \in [Calls -> Forks] /\ fork[p].pc = "idle"
    BY DEF VrpcCall, TypeOK
  <1> HIDE DEF i4
  <1> QED
    BY <1>5, <1>6, <1>7 DEF VrpcCall, Begun

----------------------------------------------------------------------------
(* What a step of a fork leaves as it was. *)
LEMMA StepFrame ==
    ASSUME TypeOK, NEW p, Steps(p)
    PROVE  /\ Begun' = Begun /\ p \in Calls
           /\ Ended \subseteq Ended' /\ Ended' \subseteq Ended \cup {p}
           /\ \A q \in Begun : fork'[q].inst = fork[q].inst /\ fork'[q].op = fork[q].op
                              /\ fork'[q].before = fork[q].before
           /\ \A x : CallsOn(x)' = CallsOn(x)
           /\ \A a, b : Overlap(a, b)' <=> Overlap(a, b)
           /\ \A a : Alone(a)' <=> Alone(a)
  <1>1. p \in Calls /\ Begun' = Begun
    BY DEF Steps, Begun
  <1>2. Ended \subseteq Ended' /\ Ended' \subseteq Ended \cup {p}
    BY DEF Steps, Ended
  <1>3. \A q \in Begun : fork'[q].inst = fork[q].inst /\ fork'[q].op = fork[q].op
                         /\ fork'[q].before = fork[q].before
    BY DEF Steps, Begun
  <1>4. \A x : CallsOn(x)' = CallsOn(x)
    BY <1>1, <1>3 DEF CallsOn
  <1>5. \A a, b : Overlap(a, b)' <=> Overlap(a, b)
    BY <1>1, <1>3 DEF Overlap
  <1> QED
    BY <1>1, <1>2, <1>3, <1>4, <1>5 DEF Alone

(* A new call: what is known of the others stays. *)
LEMMA CallFrame ==
    ASSUME TypeOK, NEW p \in Calls, NEW x, NEW op, VrpcCall(p, x, op)
    PROVE  /\ Begun' = Begun \cup {p} /\ p \notin Begun /\ Ended' = Ended /\ Ended \subseteq Begun
           /\ \A q \in Begun : fork'[q] = fork[q]
           /\ \A y : CallsOn(y)' = CallsOn(y) \cup (IF y = x THEN {p} ELSE {})
           /\ \A a, b : Overlap(a, b) => Overlap(a, b)'
           /\ \A a, b \in Begun : Overlap(a, b)' <=> Overlap(a, b)
  <1>1. /\ p \notin Begun
        /\ fork'[p] = [pc |-> "forked", inst |-> x, op |-> op, loaded |-> Fresh,
                       env |-> Fresh, out |-> NoOutput, before |-> Ended]
        /\ \A q \in Calls \ {p} : fork'[q] = fork[q]
    BY CallEffect
  <1>2. fork'[p].pc = "forked" /\ fork'[p].inst = x
    BY <1>1
  <1>3. Begun' = Begun \cup {p} /\ Ended \subseteq Begun /\ \A q \in Begun : fork'[q] = fork[q]
    BY <1>1, <1>2 DEF Begun, Ended
  <1>4. Ended' = Ended
    BY <1>1, <1>2, <1>3 DEF Ended, Begun
  <1>5. \A y : CallsOn(y)' = CallsOn(y) \cup (IF y = x THEN {p} ELSE {})
    BY <1>1, <1>2, <1>3 DEF CallsOn
  <1>6. \A a, b \in Begun : Overlap(a, b)' <=> Overlap(a, b)
    BY <1>3 DEF Overlap
  <1>7. \A a, b : Overlap(a, b) => a \in Begun /\ b \in Begun
    BY DEF Overlap
  <1> QED
    BY <1>1, <1>3, <1>4, <1>5, <1>6, <1>7

(* Two calls of a session that have yet to end overlap. *)
LEMMA ActiveOverlap ==
    ASSUME History, NEW a \in Begun, NEW b \in Begun, a # b, a \notin Ended, b \notin Ended,
           fork[a].inst = fork[b].inst, fork[a].inst # Static
    PROVE  Overlap(a, b)
  BY DEF History, Overlap

LEMMA OverlapIsMutual ==
    ASSUME NEW a, NEW b, Overlap(a, b)
    PROVE  /\ Overlap(b, a) /\ a \in Begun /\ b \in Begun /\ a # b
           /\ a \in CallsOn(fork[a].inst) /\ b \in CallsOn(fork[a].inst)
  BY DEF Overlap, CallsOn

----------------------------------------------------------------------------
(* What the actions do to the files. *)
LEMMA AttachEffect ==
    ASSUME Inv, NEW p \in Calls, Attach(p)
    PROVE  /\ Steps(p) /\ file' = file /\ fork[p].inst \in Instances
           /\ fork[p].pc = "forked" /\ fork'[p].out = fork[p].out
           /\ LET f == file[fork[p].inst] IN
              \/ /\ f.st = "none" /\ fork'[p].pc = "attached"
                 /\ fork'[p].loaded = fork[p].loaded /\ fork'[p].env = fork[p].env
              \/ /\ f.st = "ok" /\ fork'[p].pc = "attached"
                 /\ fork'[p].loaded = f.env /\ fork'[p].env = f.env
              \/ /\ f.st = "torn" /\ fork'[p].pc = "attached"
                 /\ \E q \in f.mixed : fork'[p].loaded = fork[q].env /\ fork'[p].env = fork[q].env
              \/ /\ f.st \in {"torn", "corrupt"} /\ fork'[p].pc = "unreadable"
  <1> DEFINE x == fork[p].inst
             f == file[x]
  <1>1. /\ p \in Begun /\ p \notin Ended /\ file' = file /\ fork[p].pc = "forked" /\ x # Static
        /\ TypeOK /\ fork \in [Calls -> Forks]
    BY DEF Attach, Begun, Ended, Inv, TypeOK
  <1>2. x \in Instances
    BY <1>1 DEF Forks
  <1>3. ASSUME NEW env, Loaded(p, env)
        PROVE  /\ Steps(p) /\ fork'[p].pc = "attached" /\ fork'[p].out = fork[p].out
               /\ fork'[p].loaded = env /\ fork'[p].env = env
    BY <1>1, <1>3, LoadedEffect
  <1>4. ASSUME NEW pc \in {"attached", "unreadable"}, Move(p, pc)
        PROVE  /\ Steps(p) /\ fork'[p].pc = pc /\ fork'[p].out = fork[p].out
               /\ fork'[p].loaded = fork[p].loaded /\ fork'[p].env = fork[p].env
    BY <1>1, <1>4, MoveEffect
  <1>5. CASE f.st = "none" /\ Move(p, "attached")
    BY <1>1, <1>2, <1>4, <1>5
  <1>6. CASE f.st = "ok" /\ Loaded(p, f.env)
    BY <1>1, <1>2, <1>3, <1>6
  <1>7. ASSUME f.st = "torn", NEW q \in f.mixed, Loaded(p, fork[q].env)
        PROVE  /\ Steps(p) /\ fork'[p].pc = "attached" /\ fork'[p].out = fork[p].out
               /\ fork'[p].loaded = fork[q].env /\ fork'[p].env = fork[q].env
    BY <1>3, <1>7
  <1>8. CASE f.st \in {"torn", "corrupt"} /\ Move(p, "unreadable")
    BY <1>1, <1>2, <1>4, <1>8
  <1>9. \/ f.st = "none" /\ Move(p, "attached")
        \/ f.st = "ok" /\ Loaded(p, f.env)
        \/ f.st = "torn" /\ \E q \in f.mixed \ f.writers : Loaded(p, fork[q].env)
        \/ f.st \in {"torn", "corrupt"} /\ Move(p, "unreadable")
    BY DEF Attach, SessionDir
  <1> QED
    BY <1>1, <1>2, <1>5, <1>6, <1>7, <1>8, <1>9

LEMMA SaveBeginsEffect ==
    ASSUME Inv, NEW p \in Calls, SaveBegins(p)
    PROVE  /\ Steps(p) /\ fork[p].inst \in Instances
           /\ fork[p].pc = "evaluated" /\ fork'[p].pc = "saving"
           /\ fork'[p].loaded = fork[p].loaded /\ fork'[p].env = fork[p].env
           /\ fork'[p].out = fork[p].out
           /\ file'[fork[p].inst].st = "torn" /\ file'[fork[p].inst].env = file[fork[p].inst].env
           /\ file'[fork[p].inst].writers = file[fork[p].inst].writers \cup {p}
           /\ file'[fork[p].inst].mixed = file[fork[p].inst].writers \cup {p}
           /\ \A y \in Instances \ {fork[p].inst} : file'[y] = file[y]
  <1> DEFINE x == fork[p].inst
             W == file[x].writers \cup {p}
             f1 == [file[x] EXCEPT !.st = "torn"]
             f2 == [f1 EXCEPT !.writers = W]
             f3 == [f2 EXCEPT !.mixed = W]
  <1>1. /\ p \in Begun /\ p \notin Ended /\ Move(p, "saving") /\ x # Static /\ TypeOK
        /\ fork[p].pc = "evaluated"
    BY DEF SaveBegins, Begun, Ended, Inv, SaversHaveSession
  <1>2. x \in Instances /\ file[x] \in Files /\ file \in [Instances -> Files]
    BY <1>1 DEF TypeOK, Forks
  <1>3. file' = [file EXCEPT ![x] = f3]
    BY <1>2 DEF SaveBegins, SessionDir
  <1>4. file'[x] = f3 /\ \A y \in Instances \ {x} : file'[y] = file[y]
    BY <1>2, <1>3
  <1> HIDE DEF W
  <1>5. f1 = [st |-> "torn", env |-> file[x].env, writers |-> file[x].writers,
              mixed |-> file[x].mixed]
    BY <1>2 DEF Files
  <1> HIDE DEF f1
  <1>6. f2 = [st |-> "torn", env |-> file[x].env, writers |-> W, mixed |-> file[x].mixed]
    BY <1>5
  <1> HIDE DEF f2
  <1>7. f3 = [st |-> "torn", env |-> file[x].env, writers |-> W, mixed |-> W]
    BY <1>6
  <1> HIDE DEF f3
  <1>8. /\ file'[x].st = "torn" /\ file'[x].env = file[x].env
        /\ file'[x].writers = W /\ file'[x].mixed = W
    BY <1>4, <1>7
  <1>9. /\ Steps(p) /\ fork'[p].pc = "saving" /\ fork'[p].loaded = fork[p].loaded
        /\ fork'[p].env = fork[p].env /\ fork'[p].out = fork[p].out
    BY <1>1, MoveEffect
  <1> QED
    BY <1>1, <1>2, <1>4, <1>8, <1>9 DEF W

LEMMA SaveEndsEffect ==
    ASSUME Inv, NEW p \in Calls, SaveEnds(p)
    PROVE  /\ Steps(p) /\ fork[p].inst \in Instances
           /\ fork[p].pc = "saving" /\ fork'[p].pc = "saved"
           /\ fork'[p].loaded = fork[p].loaded /\ fork'[p].env = fork[p].env
           /\ fork'[p].out = fork[p].out
           /\ \A y \in Instances \ {fork[p].inst} : file'[y] = file[y]
           /\ LET f == file[fork[p].inst]
                  g == file'[fork[p].inst]
              IN  \/ /\ f.writers \ {p} # {}
                     /\ g.st = f.st /\ g.env = f.env /\ g.mixed = f.mixed
                     /\ g.writers = f.writers \ {p}
                  \/ /\ f.writers \ {p} = {} /\ g.writers = {} /\ g.mixed = {}
                     /\ \/ g.st = "ok" /\ \E q \in f.mixed : g.env = fork[q].env
                        \/ g.st = "corrupt" /\ f.mixed # {p} /\ g.env = f.env
  <1> DEFINE x == fork[p].inst
             f == file[x]
             left == f.writers \ {p}
             Closed(st, env) == [st |-> st, env |-> env, writers |-> {}, mixed |-> {}]
  <1>1. /\ p \in Begun /\ p \notin Ended /\ Move(p, "saved") /\ x # Static /\ TypeOK
        /\ fork[p].pc = "saving"
    BY DEF SaveEnds, Begun, Ended, Inv, SaversHaveSession
  <1>2. x \in Instances /\ f \in Files /\ file \in [Instances -> Files]
    BY <1>1 DEF TypeOK, Forks
  <1>3. \/ left # {} /\ file' = [file EXCEPT ![x] = [f EXCEPT !.writers = left]]
        \/ left = {} /\ \E q \in f.mixed : file' = [file EXCEPT ![x] = Closed("ok", fork[q].env)]
        \/ left = {} /\ f.mixed # {p} /\ file' = [file EXCEPT ![x] = Closed("corrupt", f.env)]
    BY <1>2 DEF SaveEnds, SessionDir
  <1>4. ASSUME NEW g, file' = [file EXCEPT ![x] = g]
        PROVE  file'[x] = g /\ \A y \in Instances \ {x} : file'[y] = file[y]
    BY <1>2, <1>4
  <1>5. /\ Steps(p) /\ fork'[p].pc = "saved" /\ fork'[p].loaded = fork[p].loaded
        /\ fork'[p].env = fork[p].env /\ fork'[p].out = fork[p].out
    BY <1>1, MoveEffect
  <1>6. CASE left # {} /\ file' = [file EXCEPT ![x] = [f EXCEPT !.writers = left]]
    <2> DEFINE g == [f EXCEPT !.writers = left]
    <2>1. g = [st |-> f.st, env |-> f.env, writers |-> left, mixed |-> f.mixed]
      BY <1>2 DEF Files
    <2>2. file'[x] = g /\ \A y \in Instances \ {x} : file'[y] = file[y]
      BY <1>4, <1>6
    <2> QED
      BY <1>1, <1>2, <1>5, <1>6, <2>1, <2>2
  <1>7. ASSUME left = {}, NEW q \in f.mixed, file' = [file EXCEPT ![x] = Closed("ok", fork[q].env)]
        PROVE  /\ file'[x].writers = {} /\ file'[x].mixed = {} /\ file'[x].st = "ok"
               /\ file'[x].env = fork[q].env
               /\ \A y \in Instances \ {x} : file'[y] = file[y]
    BY <1>4, <1>7
  <1>8. CASE left = {} /\ f.mixed # {p} /\ file' = [file EXCEPT ![x] = Closed("corrupt", f.env)]
    <2>1. file'[x] = Closed("corrupt", f.env) /\ \A y \in Instances \ {x} : file'[y] = file[y]
      BY <1>4, <1>8
    <2> QED
      BY <1>1, <1>2, <1>5, <1>8, <2>1
  <1> QED
    BY <1>1, <1>2, <1>3, <1>5, <1>6, <1>7, <1>8

----------------------------------------------------------------------------
(* History and FilesHistory are kept. *)
LEMMA StepHistory ==
    ASSUME TypeOK, History, NEW p, Steps(p)
    PROVE  History'
  <1>1. /\ Begun' = Begun /\ Ended \subseteq Ended'
        /\ \A q \in Begun : fork'[q].before = fork[q].before
    BY StepFrame
  <1> QED
    BY <1>1 DEF History

LEMMA CallHistory ==
    ASSUME TypeOK, History, NEW p \in Calls, NEW x, NEW op, VrpcCall(p, x, op)
    PROVE  History'
  <1>1. /\ Begun' = Begun \cup {p} /\ p \notin Begun /\ Ended' = Ended /\ Ended \subseteq Begun
        /\ \A q \in Begun : fork'[q] = fork[q]
    BY CallFrame
  <1>2. fork'[p].before = Ended
    <2>1. fork'[p] = [pc |-> "forked", inst |-> x, op |-> op, loaded |-> Fresh,
                      env |-> Fresh, out |-> NoOutput, before |-> Ended]
      BY CallEffect
    <2> QED
      BY <2>1
  <1>3. \A q \in Begun : fork'[q].before = fork[q].before
    BY <1>1
  <1>4. \A q \in Begun' : fork'[q].before \subseteq Ended'
    BY <1>1, <1>2, <1>3 DEF History
  <1>5. \A a, b \in Begun' : a \in fork'[b].before => b \notin fork'[a].before
    BY <1>1, <1>2, <1>3 DEF History
  <1> QED
    BY <1>4, <1>5 DEF History

(* A step that leaves a file alone, of a fork that neither starts nor      *)
(* closes a save on it.                                                    *)
LEMMA QuietFile ==
    ASSUME Inv, NEW p, Steps(p), NEW x \in Instances, FileHistory(x), file'[x] = file[x],
           fork[p].inst = x =>
               \/ {fork[p].pc, fork'[p].pc} \cap {"saving", "saved", "replied", "unsent"} = {}
               \/ {fork[p].pc, fork'[p].pc} \subseteq {"saved", "replied", "unsent"}
    PROVE  FileHistory(x)'
  <1>1. /\ CallsOn(x)' = CallsOn(x)
        /\ \A a, b : Overlap(a, b)' <=> Overlap(a, b)
    BY StepFrame DEF Inv
  <1>2. \A q \in CallsOn(x) :
            \/ fork'[q] = fork[q]
            \/ {fork[q].pc, fork'[q].pc} \cap {"saving", "saved", "replied", "unsent"} = {}
            \/ {fork[q].pc, fork'[q].pc} \subseteq {"saved", "replied", "unsent"}
    BY DEF Steps, CallsOn, Begun
  <1>3. {q \in CallsOn(x) : fork'[q].pc = "saving"} = {q \in CallsOn(x) : fork[q].pc = "saving"}
    BY <1>2
  <1>4. file[x].mixed \subseteq CallsOn(x)
    BY DEF Inv, WritersBelong
  <1>5. /\ file'[x].writers = {q \in CallsOn(x)' : fork'[q].pc = "saving"}
        /\ \A q \in file'[x].mixed : fork'[q].pc \in {"saving", "saved", "replied", "unsent"}
        /\ file'[x].st = "none" =>
              /\ file'[x].env = Fresh
              /\ \A q \in CallsOn(x)' : fork'[q].pc \notin {"saving", "saved", "replied", "unsent"}
    BY <1>1, <1>2, <1>3, <1>4 DEF FileHistory
  <1>6. /\ \A a, b \in file'[x].mixed : a # b => Overlap(a, b)'
        /\ file'[x].st = "corrupt" => \E a, r \in CallsOn(x)' : Overlap(a, r)'
    BY <1>1 DEF FileHistory
  <1> QED
    BY <1>5, <1>6 DEF FileHistory

LEMMA QuietFiles ==
    ASSUME Inv, FilesHistory, NEW p, Steps(p), file' = file,
           \/ fork[p].inst = Static
           \/ {fork[p].pc, fork'[p].pc} \cap {"saving", "saved", "replied", "unsent"} = {}
           \/ {fork[p].pc, fork'[p].pc} \subseteq {"saved", "replied", "unsent"}
    PROVE  FilesHistory'
  <1>1. \A x \in Instances : FileHistory(x)'
    BY QuietFile, ConstantsAssumption DEF FilesHistory
  <1> QED
    BY <1>1 DEF FilesHistory

(* The saves of a session that are under way overlap. *)
LEMMA SaveBeginsFiles ==
    ASSUME Inv, History, FilesHistory, NEW p \in Calls, SaveBegins(p)
    PROVE  FilesHistory'
  <1>0. PICK x : x = fork[p].inst
    OBVIOUS
  <1> DEFINE W == file[x].writers \cup {p}
  <1>1. /\ Steps(p) /\ x \in Instances /\ fork[p].pc = "evaluated" /\ fork'[p].pc = "saving"
        /\ file'[x].st = "torn" /\ file'[x].writers = W /\ file'[x].mixed = W
        /\ \A y \in Instances \ {x} : file'[y] = file[y]
    BY <1>0, SaveBeginsEffect
  <1>2. /\ CallsOn(x)' = CallsOn(x) /\ p \in CallsOn(x) /\ p \in Begun /\ p \notin Ended
        /\ \A a, b : Overlap(a, b)' <=> Overlap(a, b)
    BY <1>0, <1>1, StepFrame DEF Inv, Steps, CallsOn
  <1>3. \A y \in Instances \ {x} : FileHistory(y)'
    BY <1>0, <1>1, QuietFile DEF FilesHistory
  <1>4. file[x].writers = {q \in CallsOn(x) : fork[q].pc = "saving"}
    BY <1>1 DEF FilesHistory, FileHistory
  <1>5. \A q \in CallsOn(x) : q # p => fork'[q] = fork[q]
    BY <1>1 DEF Steps, CallsOn, Begun
  <1>6. W = {q \in CallsOn(x) : fork'[q].pc = "saving"}
    BY <1>1, <1>2, <1>4, <1>5
  <1>7. \A a, b \in W : a # b => Overlap(a, b)
    <2>1. \A a \in W : a \in Begun /\ a \notin Ended /\ fork[a].inst = x
      BY <1>1, <1>2, <1>4 DEF CallsOn, Ended
    <2>2. x # Static
      BY <1>1, ConstantsAssumption
    <2> QED
      BY <1>0, <2>1, <2>2, ActiveOverlap
  <1>8. FileHistory(x)'
    <2>1. \A q \in file'[x].mixed : fork'[q].pc = "saving"
      BY <1>1, <1>6
    <2>2. p \in W
      OBVIOUS
    <2> HIDE DEF W
    <2> QED
      BY <1>1, <1>2, <1>6, <1>7, <2>1, <2>2 DEF FileHistory
  <1> QED
    BY <1>3, <1>8 DEF FilesHistory

LEMMA SaveEndsFiles ==
    ASSUME Inv, History, FilesHistory, NEW p \in Calls, SaveEnds(p)
    PROVE  FilesHistory'
  <1>0. PICK x : x = fork[p].inst
    OBVIOUS
  <1> DEFINE f == file[x]
             g == file'[x]
             left == f.writers \ {p}
  <1>1. /\ Steps(p) /\ x \in Instances /\ fork[p].pc = "saving" /\ fork'[p].pc = "saved"
        /\ \A y \in Instances \ {x} : file'[y] = file[y]
        /\ \/ left # {} /\ g.st = f.st /\ g.env = f.env /\ g.mixed = f.mixed /\ g.writers = left
           \/ /\ left = {} /\ g.writers = {} /\ g.mixed = {}
              /\ g.st = "ok" \/ (g.st = "corrupt" /\ f.mixed # {p})
    BY <1>0, SaveEndsEffect
  <1>2. /\ CallsOn(x)' = CallsOn(x) /\ p \in CallsOn(x) /\ p \in Begun /\ p \notin Ended
        /\ \A a, b : Overlap(a, b)' <=> Overlap(a, b)
    BY <1>0, <1>1, StepFrame DEF Inv, Steps, CallsOn
  <1>3. \A y \in Instances \ {x} : FileHistory(y)'
    BY <1>0, <1>1, QuietFile DEF FilesHistory
  <1>4. /\ f.writers = {q \in CallsOn(x) : fork[q].pc = "saving"}
        /\ f.st = "torn" <=> f.writers # {}
        /\ f.writers \subseteq f.mixed /\ f.mixed \subseteq CallsOn(x)
        /\ \A a \in f.mixed : fork[a].pc \in {"saving", "saved", "replied", "unsent"}
        /\ \A a, b \in f.mixed : a # b => Overlap(a, b)
    BY <1>1 DEF FilesHistory, FileHistory, Inv, WritersBelong
  <1>5. \A q \in CallsOn(x) : q # p => fork'[q] = fork[q]
    BY <1>1 DEF Steps, CallsOn, Begun
  <1>6. left = {q \in CallsOn(x) : fork'[q].pc = "saving"}
    BY <1>1, <1>2, <1>4, <1>5
  <1>7. p \in f.writers /\ p \in f.mixed
    BY <1>1, <1>2, <1>4
  <1>8. \A a \in f.mixed : fork'[a].pc \in {"saving", "saved", "replied", "unsent"}
    BY <1>1, <1>4, <1>5
  <1>9. CASE left # {} /\ g.st = f.st /\ g.env = f.env /\ g.mixed = f.mixed /\ g.writers = left
    <2>1. FileHistory(x)'
      <3>1. f.st = "torn" /\ left \subseteq f.mixed
        BY <1>4, <1>7
      <3> HIDE DEF left, f
      <3> QED
        BY <1>2, <1>4, <1>6, <1>8, <1>9, <3>1 DEF FileHistory, g
    <2> QED
      BY <1>3, <2>1 DEF FilesHistory
  <1>10. CASE /\ left = {} /\ g.writers = {} /\ g.mixed = {}
              /\ g.st = "ok" \/ (g.st = "corrupt" /\ f.mixed # {p})
    <2>1. g.st = "corrupt" => \E a, b \in CallsOn(x) : Overlap(a, b)
      BY <1>4, <1>7, <1>10
    <2>2. FileHistory(x)'
      <3> HIDE DEF left, f
      <3> QED
        BY <1>2, <1>6, <1>10, <2>1 DEF FileHistory, g
    <2> QED
      BY <1>3, <2>2 DEF FilesHistory
  <1> QED
    BY <1>1, <1>9, <1>10

LEMMA CallFiles ==
    ASSUME Inv, FilesHistory, NEW p \in Calls, NEW x, NEW op, VrpcCall(p, x, op)
    PROVE  FilesHistory'
  <1>1. /\ Begun' = Begun \cup {p} /\ p \notin Begun
        /\ \A q \in Begun : fork'[q] = fork[q]
        /\ \A y : CallsOn(y)' = CallsOn(y) \cup (IF y = x THEN {p} ELSE {})
        /\ \A a, b : Overlap(a, b) => Overlap(a, b)'
    BY CallFrame DEF Inv
  <1>2. file' = file /\ fork'[p].pc = "forked"
    <2>1. fork'[p] = [pc |-> "forked", inst |-> x, op |-> op, loaded |-> Fresh,
                      env |-> Fresh, out |-> NoOutput, before |-> Ended]
      BY CallEffect DEF Inv
    <2> QED
      BY <2>1 DEF VrpcCall
  <1>3. ASSUME NEW y \in Instances
        PROVE  FileHistory(y)'
    <2>1. CallsOn(y) \subseteq CallsOn(y)' /\ \A q \in CallsOn(y) : q \in Begun /\ fork'[q] = fork[q]
      BY <1>1 DEF CallsOn
    <2>2. \A q \in CallsOn(y)' : q \in CallsOn(y) \/ fork'[q].pc = "forked"
      BY <1>1, <1>2
    <2>3. {q \in CallsOn(y)' : fork'[q].pc = "saving"} = {q \in CallsOn(y) : fork[q].pc = "saving"}
      BY <2>1, <2>2
    <2>4. FileHistory(y) /\ file[y].mixed \subseteq CallsOn(y)
      BY DEF FilesHistory, Inv, WritersBelong
    <2>5. /\ file'[y].writers = {q \in CallsOn(y)' : fork'[q].pc = "saving"}
          /\ \A q \in file'[y].mixed : fork'[q].pc \in {"saving", "saved", "replied", "unsent"}
          /\ file'[y].st = "none" =>
                /\ file'[y].env = Fresh
                /\ \A q \in CallsOn(y)' : fork'[q].pc \notin {"saving", "saved", "replied", "unsent"}
      BY <1>2, <2>1, <2>2, <2>3, <2>4 DEF FileHistory
    <2>6. /\ \A a, b \in file'[y].mixed : a # b => Overlap(a, b)'
          /\ file'[y].st = "corrupt" => \E a, r \in CallsOn(y)' : Overlap(a, r)'
      BY <1>1, <1>2, <2>1, <2>4 DEF FileHistory
    <2>7. /\ file'[y].st = "torn" <=> file'[y].writers # {}
          /\ file'[y].writers = {} => file'[y].mixed = {}
          /\ file'[y].writers \subseteq file'[y].mixed
      BY <1>2, <2>4 DEF FileHistory
    <2> QED
      BY <2>5, <2>6, <2>7 DEF FileHistory
  <1> QED
    BY <1>3 DEF FilesHistory

----------------------------------------------------------------------------
(* ForksProgress is kept. *)
LEMMA StepProgress ==
    ASSUME TypeOK, ForksProgress, NEW p, Steps(p), Progress(p)'
    PROVE  ForksProgress'
  <1>1. Begun' = Begun /\ \A q \in Begun \ {p} : fork'[q] = fork[q]
    BY StepFrame DEF Steps, Begun
  <1>2. \A q \in Begun \ {p} : Progress(q)'
    BY <1>1 DEF ForksProgress, Progress
  <1> QED
    BY <1>1, <1>2 DEF ForksProgress

LEMMA CallProgress ==
    ASSUME TypeOK, ForksProgress, NEW p \in Calls, NEW x, NEW op, VrpcCall(p, x, op)
    PROVE  ForksProgress'
  <1>1. Begun' = Begun \cup {p} /\ \A q \in Begun : fork'[q] = fork[q]
    BY CallFrame
  <1>2. fork'[p] = [pc |-> "forked", inst |-> x, op |-> op, loaded |-> Fresh,
                    env |-> Fresh, out |-> NoOutput, before |-> Ended]
    BY CallEffect
  <1>3. fork'[p].pc = "forked" /\ fork'[p].loaded = Fresh /\ fork'[p].env = Fresh
        /\ fork'[p].out = NoOutput
    BY <1>2
  <1>4. Progress(p)'
    BY <1>3 DEF Progress
  <1>5. \A q \in Begun : Progress(q)'
    BY <1>1 DEF ForksProgress, Progress
  <1> QED
    BY <1>1, <1>4, <1>5 DEF ForksProgress

(* What the steps that neither load, evaluate nor change a file do.        *)
LEMMA PlainEffect ==
    ASSUME TypeOK, NEW p \in Calls, AttachStatic(p) \/ ExecutionDone(p) \/ ReplyFails(p)
    PROVE  /\ Steps(p) /\ file' = file
           /\ \/ fork[p].pc = "forked" /\ fork[p].inst = Static /\ fork'[p].pc = "attached"
              \/ fork[p].pc = "saved" /\ fork'[p].pc \in {"replied", "unsent"}
           /\ fork'[p].loaded = fork[p].loaded /\ fork'[p].env = fork[p].env
           /\ fork'[p].out = fork[p].out
  <1>1. p \in Begun /\ p \notin Ended /\ file' = file
    BY DEF AttachStatic, ExecutionDone, ReplyFails, Saved, Begun, Ended
  <1>2. CASE AttachStatic(p)
    <2>1. Move(p, "attached")
      BY <1>2 DEF AttachStatic
    <2>2. /\ Steps(p) /\ fork'[p].pc = "attached" /\ fork'[p].loaded = fork[p].loaded
          /\ fork'[p].env = fork[p].env /\ fork'[p].out = fork[p].out
      BY <1>1, <2>1, MoveEffect
    <2> QED
      BY <1>1, <1>2, <2>2 DEF AttachStatic
  <1>3. CASE ExecutionDone(p)
    <2>1. Move(p, "replied")
      BY <1>3 DEF ExecutionDone
    <2>2. /\ Steps(p) /\ fork'[p].pc = "replied" /\ fork'[p].loaded = fork[p].loaded
          /\ fork'[p].env = fork[p].env /\ fork'[p].out = fork[p].out
      BY <1>1, <2>1, MoveEffect
    <2> QED
      BY <1>1, <1>3, <2>2 DEF ExecutionDone, Saved
  <1>4. CASE ReplyFails(p)
    <2>1. Move(p, "unsent")
      BY <1>4 DEF ReplyFails
    <2>2. /\ Steps(p) /\ fork'[p].pc = "unsent" /\ fork'[p].loaded = fork[p].loaded
          /\ fork'[p].env = fork[p].env /\ fork'[p].out = fork[p].out
      BY <1>1, <2>1, MoveEffect
    <2> QED
      BY <1>1, <1>4, <2>2 DEF ReplyFails, Saved
  <1> QED
    BY <1>2, <1>3, <1>4

(* A fork's steps, and what each does to its own progress. *)
LEMMA OwnProgress ==
    ASSUME Inv, ForksProgress, NEW p \in Calls, Step(p)
    PROVE  Steps(p) /\ Progress(p)'
  <1>1. Steps(p) => p \in Begun /\ Progress(p) /\ fork'[p].inst = fork[p].inst
                    /\ fork'[p].op = fork[p].op
    BY DEF Steps, ForksProgress
  <1>2. CASE AttachStatic(p) \/ ExecutionDone(p) \/ ReplyFails(p)
    BY <1>1, <1>2, PlainEffect DEF Inv, Progress
  <1>3. CASE Attach(p)
    <2>1. /\ Steps(p) /\ fork[p].inst \in Instances /\ fork[p].pc = "forked"
          /\ fork'[p].out = fork[p].out
          /\ \/ fork'[p].pc = "attached" /\ fork'[p].loaded = fork'[p].env
             \/ /\ fork'[p].pc = "attached"
                /\ fork'[p].loaded = fork[p].loaded /\ fork'[p].env = fork[p].env
             \/ fork'[p].pc = "unreadable"
      BY <1>3, AttachEffect
    <2>2. fork[p].inst # Static
      BY <2>1, ConstantsAssumption
    <2> QED
      BY <1>1, <2>1, <2>2 DEF Progress
  <1>4. CASE Evaluate(p)
    <2>1. Steps(p) /\ fork[p].pc = "attached" /\ fork'[p].loaded = fork[p].loaded
          /\ \/ fork'[p].pc = "unresolved" /\ fork'[p].out = fork[p].out
             \/ /\ Resolves(fork[p].env, fork[p].op)
                /\ fork'[p].pc \in {"saved", "evaluated"}
                /\ fork'[p].env = Evaluated(fork[p].env, fork[p].op, p)
                /\ fork'[p].out = Returned(fork[p].env, fork[p].op, p)
      BY <1>4, EvaluateEffect DEF Inv
    <2> QED
      BY <1>1, <2>1 DEF Progress
  <1>5. CASE SaveBegins(p)
    BY <1>1, <1>5, SaveBeginsEffect DEF Progress
  <1>6. CASE SaveEnds(p)
    <2>1. /\ Steps(p) /\ fork[p].pc = "saving" /\ fork'[p].pc = "saved"
          /\ fork'[p].loaded = fork[p].loaded /\ fork'[p].env = fork[p].env
          /\ fork'[p].out = fork[p].out
      BY <1>6, SaveEndsEffect
    <2> QED
      BY <1>1, <2>1 DEF Progress
  <1> QED
    BY <1>2, <1>3, <1>4, <1>5, <1>6 DEF Step

----------------------------------------------------------------------------
LEMMA StepFiles ==
    ASSUME Inv, History, FilesHistory, NEW p \in Calls, Step(p)
    PROVE  FilesHistory'
  <1>1. CASE AttachStatic(p) \/ ExecutionDone(p) \/ ReplyFails(p)
    BY <1>1, PlainEffect, QuietFiles DEF Inv
  <1>2. CASE Attach(p)
    <2>1. /\ Steps(p) /\ file' = file /\ fork[p].pc = "forked"
          /\ fork'[p].pc \in {"attached", "unreadable"}
      BY <1>2, AttachEffect
    <2> QED
      BY <2>1, QuietFiles
  <1>3. CASE Evaluate(p)
    <2>1. /\ Steps(p) /\ file' = file /\ fork[p].pc = "attached"
          /\ fork[p].inst = Static \/ fork'[p].pc \in {"evaluated", "unresolved"}
      BY <1>3, EvaluateEffect DEF Inv, Evaluate
    <2> QED
      BY <2>1, QuietFiles
  <1> QED
    BY <1>1, <1>2, <1>3, SaveBeginsFiles, SaveEndsFiles DEF Step

LEMMA OverlapInvInit ==
    ASSUME Init
    PROVE  OverlapInv
  <1>1. Inv
    BY InitInv
  <1>2. Begun = {}
    BY DEF Init, Begun, Idle
  <1>3. History /\ ForksProgress
    BY <1>2 DEF History, ForksProgress
  <1>4. \A x \in Instances :
            file[x] = [st |-> "none", env |-> Fresh, writers |-> {}, mixed |-> {}]
    BY DEF Init
  <1>5. \A x : CallsOn(x) = {}
    BY <1>2 DEF CallsOn
  <1>6. FilesHistory
    BY <1>4, <1>5 DEF FilesHistory, FileHistory
  <1> QED
    BY <1>1, <1>3, <1>6 DEF OverlapInv

LEMMA OverlapInvNext ==
    ASSUME OverlapInv, [Next]_vars
    PROVE  OverlapInv'
  <1>1. Inv /\ TypeOK /\ History /\ FilesHistory /\ ForksProgress
    BY DEF OverlapInv, Inv
  <1>2. Inv'
    BY <1>1, NextInv
  <1>3. ASSUME NEW p \in Calls, Step(p)
        PROVE  OverlapInv'
    <2>1. Steps(p) /\ Progress(p)'
      BY <1>1, <1>3, OwnProgress
    <2> QED
      BY <1>1, <1>2, <1>3, <2>1, StepHistory, StepFiles, StepProgress DEF OverlapInv
  <1>4. ASSUME NEW p \in Calls, NEW x \in Instances \cup {Static}, NEW op \in Ops,
               VrpcCall(p, x, op)
        PROVE  OverlapInv'
    BY <1>1, <1>2, <1>4, CallHistory, CallFiles, CallProgress DEF OverlapInv
  <1>5. CASE UNCHANGED vars
    <2>1. file' = file /\ fork' = fork
      BY <1>5 DEF vars
    <2>2. Begun' = Begun /\ Ended' = Ended /\ (\A x : CallsOn(x)' = CallsOn(x))
          /\ \A a, b : Overlap(a, b)' <=> Overlap(a, b)
      BY <2>1 DEF Begun, Ended, CallsOn, Overlap
    <2>3. History' /\ ForksProgress'
      BY <1>1, <2>1, <2>2 DEF History, ForksProgress, Progress
    <2>4. FilesHistory'
      BY <1>1, <2>1, <2>2 DEF FilesHistory, FileHistory
    <2> QED
      BY <1>2, <2>3, <2>4 DEF OverlapInv
  <1> QED
    BY <1>3, <1>4, <1>5 DEF Next

----------------------------------------------------------------------------
(* Survival is kept. *)

(* What survives needs only to survive where the step put something.       *)
LEMMA SurvivesLater ==
    ASSUME TypeOK, NEW a \in Begun, NEW p, Steps(p), NEW x, x = fork[a].inst,
           file'[x].st = "ok" => Keeps(a, file'[x].env),
           file'[x].st = "torn" => \A m \in file'[x].mixed : Keeps(a, fork'[m].env),
           \A r \in CallsOn(x) :
               a \in fork[r].before /\ fork'[r].pc \notin {"forked", "unreadable"}
                   => Keeps(a, fork'[r].loaded) /\ Keeps(a, fork'[r].env)
    PROVE  Survives(a)'
  <1>1. /\ CallsOn(x)' = CallsOn(x)
        /\ \A q \in Begun : fork'[q].inst = fork[q].inst /\ fork'[q].op = fork[q].op
                           /\ fork'[q].before = fork[q].before
    BY StepFrame
  <1>2. fork'[a].inst = x /\ fork'[a].op = fork[a].op /\ fork'[a].before = fork[a].before
    BY <1>1
  <1>3. \A r \in CallsOn(x) : fork'[r].before = fork[r].before
    BY <1>1 DEF CallsOn
  <1> QED
    BY <1>1, <1>2, <1>3 DEF Survives, Keeps

(* A call of the session that has yet to end started after a lone call     *)
(* that had saved.                                                         *)
LEMMA LoneBefore ==
    ASSUME History, NEW a \in Begun, Alone(a), fork[a].inst # Static,
           NEW r \in CallsOn(fork[a].inst), r # a, r \notin Ended
    PROVE  a \in fork[r].before
  <1>1. r \in Begun /\ fork[r].inst = fork[a].inst
    BY DEF CallsOn
  <1>2. r \notin fork[a].before
    BY <1>1 DEF History
  <1> QED
    BY <1>1, <1>2 DEF Alone, Overlap

LEMMA LoneFacts ==
    ASSUME OverlapInv, NEW a \in Begun, HasSaved(a), fork[a].inst # Static,
           NEW x, x = fork[a].inst
    PROVE  /\ TypeOK /\ Inv /\ History /\ x \in Instances /\ FileHistory(x)
           /\ file[x].mixed \subseteq CallsOn(x) /\ file[x].st # "none"
           /\ a \in CallsOn(x) /\ CallsOn(x) \subseteq Begun
  <1>1. TypeOK /\ Inv /\ History
    BY DEF OverlapInv, Inv
  <1>2. x \in Instances
    BY <1>1 DEF TypeOK, Forks, Begun
  <1>3. FileHistory(x) /\ file[x].mixed \subseteq CallsOn(x)
    BY <1>2 DEF OverlapInv, Inv, FilesHistory, WritersBelong
  <1>4. a \in CallsOn(x) /\ CallsOn(x) \subseteq Begun
    BY DEF CallsOn
  <1> QED
    BY <1>1, <1>2, <1>3, <1>4 DEF FileHistory, HasSaved

LEMMA AttachSurvives ==
    ASSUME OverlapInv, NEW a \in Begun, HasSaved(a), fork[a].inst # Static,
           fork[a].op.writes # NoSlot, Alone(a), Survives(a),
           NEW p \in Calls, Attach(p)
    PROVE  Survives(a)'
  <1>0. PICK x : x = fork[a].inst
    OBVIOUS
  <1> DEFINE f == file[x]
  <1>1. /\ TypeOK /\ Inv /\ FileHistory(x) /\ f.mixed \subseteq CallsOn(x) /\ f.st # "none"
        /\ CallsOn(x) \subseteq Begun
    BY <1>0, LoneFacts
  <1>2. /\ Steps(p) /\ file' = file /\ fork[p].pc = "forked"
        /\ fork[p].inst = x =>
              \/ fork'[p].loaded = f.env /\ fork'[p].env = f.env /\ f.st = "ok"
              \/ /\ f.st = "torn"
                 /\ \E q \in f.mixed : fork'[p].loaded = fork[q].env /\ fork'[p].env = fork[q].env
              \/ fork'[p].pc = "unreadable"
    BY <1>1, AttachEffect
  <1>3. \A r \in Begun \ {p} : fork'[r] = fork[r]
    BY <1>2 DEF Steps, Begun
  <1>4. p \notin f.mixed
    BY <1>1, <1>2 DEF FileHistory
  <1>5. /\ f.st = "ok" => Keeps(a, f.env)
        /\ f.st = "torn" => \A m \in f.mixed : Keeps(a, fork[m].env)
        /\ \A r \in CallsOn(x) :
               a \in fork[r].before /\ fork[r].pc \notin {"forked", "unreadable"}
                   => Keeps(a, fork[r].loaded) /\ Keeps(a, fork[r].env)
    BY <1>0 DEF Survives
  <1>6. f.st = "torn" => \A m \in f.mixed : Keeps(a, fork'[m].env)
    <2>1. \A m \in f.mixed : fork'[m] = fork[m]
      BY <1>1, <1>3, <1>4
    <2> QED
      BY <1>5, <2>1
  <1>7. ASSUME NEW r \in CallsOn(x), a \in fork[r].before, fork'[r].pc \notin {"forked", "unreadable"}
        PROVE  Keeps(a, fork'[r].loaded) /\ Keeps(a, fork'[r].env)
    <2>1. CASE r = p
      <3>1. fork[p].inst = x
        BY <2>1 DEF CallsOn
      <3> QED
        BY <1>2, <1>5, <1>7, <2>1, <3>1
    <2>2. CASE r # p
      BY <1>1, <1>3, <1>5, <1>7, <2>2
    <2> QED
      BY <2>1, <2>2
  <1>8. file'[x].st = "ok" => Keeps(a, file'[x].env)
    BY <1>2, <1>5
  <1>9. file'[x].st = "torn" => \A m \in file'[x].mixed : Keeps(a, fork'[m].env)
    BY <1>2, <1>6
  <1> QED
    BY <1>0, <1>1, <1>2, <1>7, <1>8, <1>9, SurvivesLater

(* A later call overwrites a variable with what is later still. *)
LEMMA EvaluateSurvives ==
    ASSUME OverlapInv, NEW a \in Begun, HasSaved(a), fork[a].inst # Static,
           fork[a].op.writes # NoSlot, Alone(a), Survives(a),
           NEW p \in Calls, Evaluate(p)
    PROVE  Survives(a)'
  <1>0. PICK x : x = fork[a].inst
    OBVIOUS
  <1> DEFINE f == file[x]
  <1>1. /\ TypeOK /\ Inv /\ History /\ FileHistory(x) /\ f.mixed \subseteq CallsOn(x)
        /\ CallsOn(x) \subseteq Begun
    BY <1>0, LoneFacts
  <1>2. /\ Steps(p) /\ file' = file /\ fork[p].pc = "attached" /\ p \in Begun
        /\ fork'[p].loaded = fork[p].loaded
        /\ \/ fork'[p].env = fork[p].env
           \/ fork'[p].env = Evaluated(fork[p].env, fork[p].op, p)
    BY <1>1, EvaluateEffect DEF Evaluate
  <1>3. \A r \in Begun \ {p} : fork'[r] = fork[r]
    BY <1>2 DEF Steps, Begun
  <1>4. p \notin f.mixed
    BY <1>1, <1>2 DEF FileHistory
  <1>5. /\ f.st = "ok" => Keeps(a, f.env)
        /\ f.st = "torn" => \A m \in f.mixed : Keeps(a, fork[m].env)
        /\ \A r \in CallsOn(x) :
               a \in fork[r].before /\ fork[r].pc \notin {"forked", "unreadable"}
                   => Keeps(a, fork[r].loaded) /\ Keeps(a, fork[r].env)
    BY <1>0 DEF Survives
  <1>6. f.st = "torn" => \A m \in f.mixed : Keeps(a, fork'[m].env)
    <2>1. \A m \in f.mixed : fork'[m] = fork[m]
      BY <1>1, <1>3, <1>4
    <2> QED
      BY <1>5, <2>1
  <1>7. ASSUME p \in CallsOn(x), a \in fork[p].before
        PROVE  Keeps(a, fork'[p].loaded) /\ Keeps(a, fork'[p].env)
    <2>1. Keeps(a, fork[p].loaded) /\ Keeps(a, fork[p].env)
      BY <1>2, <1>5, <1>7
    <2>2. fork[a].op.writes \in Slots
      BY <1>1, ConstantsAssumption DEF TypeOK, Forks, OpType, Begun
    <2>3. Evaluated(fork[p].env, fork[p].op, p)[fork[a].op.writes]
              \in {p, fork[p].env[fork[a].op.writes]}
      BY <2>2 DEF Evaluated
    <2>4. p \notin fork[a].before /\ p # Unset
      BY <1>1, <1>2, <1>7 DEF History, Unset, Calls
    <2> QED
      BY <1>2, <2>1, <2>3, <2>4 DEF Keeps
  <1>8. ASSUME NEW r \in CallsOn(x), a \in fork[r].before, fork'[r].pc \notin {"forked", "unreadable"}
        PROVE  Keeps(a, fork'[r].loaded) /\ Keeps(a, fork'[r].env)
    BY <1>1, <1>3, <1>5, <1>7, <1>8
  <1>9. file'[x].st = "ok" => Keeps(a, file'[x].env)
    BY <1>2, <1>5
  <1>10. file'[x].st = "torn" => \A m \in file'[x].mixed : Keeps(a, fork'[m].env)
    BY <1>2, <1>6
  <1> QED
    BY <1>0, <1>1, <1>2, <1>8, <1>9, <1>10, SurvivesLater

(* A fork that moves on, its environments and the file's as they were.     *)
LEMMA MoveSurvives ==
    ASSUME OverlapInv, NEW a \in Begun, HasSaved(a), fork[a].inst # Static,
           fork[a].op.writes # NoSlot, Alone(a), Survives(a),
           NEW p, Steps(p), fork'[p].loaded = fork[p].loaded, fork'[p].env = fork[p].env,
           fork[p].pc = "forked" => fork[p].inst = Static, fork[p].pc # "unreadable",
           NEW x, x = fork[a].inst,
           file'[x].st = "ok" => file[x].st = "ok" /\ file'[x].env = file[x].env,
           file'[x].st = "torn" =>
               \A m \in file'[x].mixed : \/ file[x].st = "torn" /\ m \in file[x].mixed
                                         \/ m \in CallsOn(x) /\ m \notin Ended /\ m # a
                                            /\ fork[m].pc # "forked"
    PROVE  Survives(a)'
  <1>1. /\ TypeOK /\ Inv /\ History /\ FileHistory(x) /\ file[x].mixed \subseteq CallsOn(x)
        /\ CallsOn(x) \subseteq Begun
    BY LoneFacts
  <1>2. \A r \in Begun : fork'[r].loaded = fork[r].loaded /\ fork'[r].env = fork[r].env
    BY DEF Steps, Begun
  <1>3. /\ file[x].st = "ok" => Keeps(a, file[x].env)
        /\ file[x].st = "torn" => \A m \in file[x].mixed : Keeps(a, fork[m].env)
        /\ \A r \in CallsOn(x) :
               a \in fork[r].before /\ fork[r].pc \notin {"forked", "unreadable"}
                   => Keeps(a, fork[r].loaded) /\ Keeps(a, fork[r].env)
    BY DEF Survives
  <1>4. ASSUME NEW r \in CallsOn(x), a \in fork[r].before, fork'[r].pc \notin {"forked", "unreadable"}
        PROVE  Keeps(a, fork'[r].loaded) /\ Keeps(a, fork'[r].env)
    <2>1. fork[r].pc \notin {"forked", "unreadable"}
      BY <1>1, <1>4 DEF Steps, CallsOn, Begun
    <2> QED
      BY <1>1, <1>2, <1>3, <1>4, <2>1
  <1>5. file'[x].st = "ok" => Keeps(a, file'[x].env)
    BY <1>3
  <1>6. ASSUME file'[x].st = "torn", NEW m \in file'[x].mixed
        PROVE  Keeps(a, fork'[m].env)
    <2>1. CASE file[x].st = "torn" /\ m \in file[x].mixed
      BY <1>1, <1>2, <1>3, <2>1
    <2>2. CASE m \in CallsOn(x) /\ m \notin Ended /\ m # a /\ fork[m].pc # "forked"
      <3>1. a \in fork[m].before
        BY <1>1, <2>2, LoneBefore
      <3>2. fork[m].pc \notin {"forked", "unreadable"}
        BY <1>1, <2>2 DEF Ended, Begun
      <3> QED
        BY <1>1, <1>2, <1>3, <2>2, <3>1, <3>2
    <2> QED
      BY <1>6, <2>1, <2>2
  <1> QED
    BY <1>1, <1>4, <1>5, <1>6, SurvivesLater

LEMMA SaveBeginsSurvives ==
    ASSUME OverlapInv, NEW a \in Begun, HasSaved(a), fork[a].inst # Static,
           fork[a].op.writes # NoSlot, Alone(a), Survives(a),
           NEW p \in Calls, SaveBegins(p)
    PROVE  Survives(a)'
  <1>0. PICK x : x = fork[a].inst
    OBVIOUS
  <1>1. /\ Inv /\ FileHistory(x) /\ x \in Instances /\ CallsOn(x) \subseteq Begun
    BY <1>0, LoneFacts
  <1>2. /\ Steps(p) /\ fork[p].pc = "evaluated"
        /\ fork'[p].loaded = fork[p].loaded /\ fork'[p].env = fork[p].env
        /\ IF fork[p].inst = x
           THEN file'[x].st = "torn" /\ file'[x].mixed = file[x].writers \cup {p}
           ELSE file'[x] = file[x]
    BY <1>1, SaveBeginsEffect
  <1>3. \A m \in file[x].writers : file[x].st = "torn" /\ m \in file[x].mixed
    BY <1>1 DEF FileHistory
  <1>4. fork[p].inst = x => p \in CallsOn(x) /\ p \notin Ended /\ p # a
    BY <1>2 DEF Steps, CallsOn, HasSaved
  <1> QED
    BY <1>0, <1>2, <1>3, <1>4, MoveSurvives

LEMMA PlainSurvives ==
    ASSUME OverlapInv, NEW a \in Begun, HasSaved(a), fork[a].inst # Static,
           fork[a].op.writes # NoSlot, Alone(a), Survives(a),
           NEW p \in Calls, AttachStatic(p) \/ ExecutionDone(p) \/ ReplyFails(p)
    PROVE  Survives(a)'
  <1>1. TypeOK
    BY DEF OverlapInv, Inv
  <1> QED
    BY <1>1, PlainEffect, MoveSurvives

(* What a save that closes leaves was written by calls that found it.      *)
LEMMA SaveEndsSurvives ==
    ASSUME OverlapInv, NEW a \in Begun, HasSaved(a), fork[a].inst # Static,
           fork[a].op.writes # NoSlot, Alone(a), Survives(a),
           NEW p \in Calls, SaveEnds(p)
    PROVE  Survives(a)'
  <1>0. PICK x : x = fork[a].inst
    OBVIOUS
  <1>1. /\ TypeOK /\ Inv /\ FileHistory(x) /\ x \in Instances /\ CallsOn(x) \subseteq Begun
    BY <1>0, LoneFacts
  <1>2. /\ Steps(p) /\ fork[p].pc = "saving"
        /\ fork'[p].loaded = fork[p].loaded /\ fork'[p].env = fork[p].env
    BY <1>1, SaveEndsEffect
  <1>3. CASE fork[p].inst # x
    <2>1. file'[x] = file[x]
      BY <1>1, <1>3, SaveEndsEffect
    <2> QED
      BY <1>0, <1>2, <2>1, MoveSurvives
  <1>4. CASE fork[p].inst = x
    <2> DEFINE f == file[x]
               g == file'[x]
    <2>1. \/ g.st = f.st /\ g.env = f.env /\ g.mixed = f.mixed
          \/ g.st = "ok" /\ \E q \in f.mixed : g.env = fork[q].env
          \/ g.st = "corrupt"
      BY <1>1, <1>4, SaveEndsEffect
    <2>2. p \in f.writers /\ f.st = "torn"
      BY <1>1, <1>2, <1>4 DEF FileHistory, CallsOn, Steps
    <2>3. CASE (g.st = f.st /\ g.env = f.env /\ g.mixed = f.mixed) \/ g.st = "corrupt"
      BY <1>0, <1>2, <2>2, <2>3, MoveSurvives
    <2>4. ASSUME g.st = "ok", NEW q \in f.mixed, g.env = fork[q].env
          PROVE  Survives(a)'
      <3>1. Keeps(a, g.env)
        BY <1>0, <2>2, <2>4 DEF Survives
      <3>2. \A r \in Begun : fork'[r].loaded = fork[r].loaded /\ fork'[r].env = fork[r].env
        BY <1>2 DEF Steps, Begun
      <3>3. ASSUME NEW r \in CallsOn(x), a \in fork[r].before,
                   fork'[r].pc \notin {"forked", "unreadable"}
            PROVE  Keeps(a, fork'[r].loaded) /\ Keeps(a, fork'[r].env)
        <4>1. fork[r].pc \notin {"forked", "unreadable"}
          BY <1>1, <1>2, <3>3 DEF Steps, CallsOn, Begun
        <4> QED
          BY <1>0, <1>1, <3>2, <3>3, <4>1 DEF Survives
      <3> QED
        BY <1>0, <1>1, <1>2, <2>4, <3>1, <3>3, SurvivesLater
    <2> QED
      BY <2>1, <2>3, <2>4
  <1> QED
    BY <1>3, <1>4

(* A lone call's save leaves its own environment.                          *)
LEMMA SaveEndsAlone ==
    ASSUME OverlapInv, NEW p \in Calls, SaveEnds(p), fork[p].op.writes # NoSlot, Alone(p)
    PROVE  Survives(p)'
  <1>0. PICK x : x = fork[p].inst
    OBVIOUS
  <1> DEFINE f == file[x]
             g == file'[x]
  <1>1. /\ TypeOK /\ Inv /\ History /\ FilesHistory /\ ForksProgress
    BY DEF OverlapInv, Inv
  <1>2. /\ Steps(p) /\ fork[p].pc = "saving" /\ x \in Instances
        /\ fork'[p].loaded = fork[p].loaded /\ fork'[p].env = fork[p].env
        /\ \/ f.writers \ {p} # {}
           \/ g.st = "ok" /\ \E q \in f.mixed : g.env = fork[q].env
           \/ f.mixed # {p}
    BY <1>0, <1>1, SaveEndsEffect
  <1>3. p \in Begun /\ p \notin Ended /\ p \in CallsOn(x) /\ CallsOn(x) \subseteq Begun
    BY <1>0, <1>2 DEF Steps, CallsOn
  <1>4. f.writers \subseteq f.mixed /\ p \in f.writers /\ \A q \in f.mixed : q # p => Overlap(p, q)
    BY <1>1, <1>2, <1>3 DEF FilesHistory, FileHistory
  <1>5. f.mixed = {p}
    BY <1>4 DEF Alone, Overlap
  <1>6. g.st = "ok" /\ g.env = fork[p].env
    BY <1>2, <1>4, <1>5
  <1>7. Keeps(p, fork[p].env)
    <2>1. fork[p].env = Evaluated(fork[p].loaded, fork[p].op, p)
      BY <1>1, <1>2, <1>3 DEF ForksProgress, Progress
    <2>2. fork[p].op.writes \in Slots
      BY <1>1, <1>3, ConstantsAssumption DEF TypeOK, Forks, OpType, Begun
    <2>3. fork[p].env[fork[p].op.writes] = p
      BY <2>1, <2>2 DEF Evaluated
    <2>4. p \notin fork[p].before /\ p # Unset
      BY <1>1, <1>3 DEF History, Unset, Calls
    <2> QED
      BY <2>3, <2>4 DEF Keeps
  <1>8. \A r \in CallsOn(x) : p \notin fork[r].before
    BY <1>1, <1>3 DEF History
  <1> QED
    BY <1>0, <1>1, <1>2, <1>3, <1>6, <1>7, <1>8, SurvivesLater

LEMMA StepSurvival ==
    ASSUME OverlapInv, Survival, NEW p \in Calls, Step(p)
    PROVE  Survival'
  <1>1. TypeOK /\ Inv /\ Steps(p)
    BY OwnProgress DEF OverlapInv, Inv
  <1>2. /\ Begun' = Begun
        /\ \A q \in Begun : fork'[q].inst = fork[q].inst /\ fork'[q].op = fork[q].op
        /\ \A q : Alone(q)' <=> Alone(q)
    BY <1>1, StepFrame
  <1>3. ASSUME NEW a \in Begun, HasSaved(a)', fork[a].inst # Static,
               fork[a].op.writes # NoSlot, Alone(a)
        PROVE  Survives(a)'
    <2>1. CASE HasSaved(a)
      <3>1. Survives(a)
        BY <1>3, <2>1 DEF Survival
      <3> QED
        BY <1>3, <2>1, <3>1, AttachSurvives, EvaluateSurvives, SaveBeginsSurvives,
           SaveEndsSurvives, PlainSurvives DEF Step
    <2>2. CASE ~HasSaved(a)
      <3>1. /\ a = p /\ fork'[p].pc \in {"saved", "replied", "unsent"}
            /\ fork[p].pc \notin {"saved", "replied", "unsent"}
        BY <1>1, <1>3, <2>2 DEF HasSaved, Steps, Begun
      <3>2. CASE AttachStatic(p) \/ ExecutionDone(p) \/ ReplyFails(p)
        BY <1>1, <3>1, <3>2, PlainEffect
      <3>3. CASE Attach(p)
        BY <1>1, <3>1, <3>3, AttachEffect
      <3>4. CASE Evaluate(p)
        BY <1>1, <1>3, <3>1, <3>4, EvaluateEffect
      <3>5. CASE SaveBegins(p)
        BY <1>1, <3>1, <3>5, SaveBeginsEffect
      <3>6. CASE SaveEnds(p)
        BY <1>3, <3>1, <3>6, SaveEndsAlone
      <3> QED
        BY <3>2, <3>3, <3>4, <3>5, <3>6 DEF Step
    <2> QED
      BY <2>1, <2>2
  <1> QED
    BY <1>2, <1>3 DEF Survival

LEMMA CallSurvival ==
    ASSUME OverlapInv, Survival, NEW p \in Calls, NEW x, NEW op, VrpcCall(p, x, op)
    PROVE  Survival'
  <1>1. TypeOK
    BY DEF OverlapInv, Inv
  <1>2. /\ Begun' = Begun \cup {p} /\ \A q \in Begun : fork'[q] = fork[q]
        /\ \A y : CallsOn(y)' = CallsOn(y) \cup (IF y = x THEN {p} ELSE {})
        /\ \A a, b : Overlap(a, b) => Overlap(a, b)'
    BY <1>1, CallFrame
  <1>3. file' = file /\ fork'[p].pc = "forked"
    <2>1. fork'[p] = [pc |-> "forked", inst |-> x, op |-> op, loaded |-> Fresh,
                      env |-> Fresh, out |-> NoOutput, before |-> Ended]
      BY <1>1, CallEffect
    <2> QED
      BY <2>1 DEF VrpcCall
  <1>4. ASSUME NEW a \in Begun', HasSaved(a)', fork'[a].inst # Static,
               fork'[a].op.writes # NoSlot, Alone(a)'
        PROVE  Survives(a)'
    <2>1. a \in Begun /\ fork'[a] = fork[a]
      BY <1>2, <1>3, <1>4 DEF HasSaved
    <2>2. Alone(a)
      BY <1>2, <1>4 DEF Alone
    <2>3. Survives(a)
      BY <1>4, <2>1, <2>2 DEF Survival, HasSaved
    <2>4. PICK y : y = fork[a].inst
      OBVIOUS
    <2>5. /\ FileHistory(y) /\ file[y].mixed \subseteq Begun
      BY <1>4, <2>1, <2>4, LoneFacts DEF HasSaved
    <2>6. \A r \in CallsOn(y)' : r \in CallsOn(y) \/ fork'[r].pc = "forked"
      BY <1>2, <1>3
    <2>7. \A r \in CallsOn(y) : r \in Begun /\ fork'[r] = fork[r]
      BY <1>2 DEF CallsOn
    <2>8. \A r \in CallsOn(y)' :
              a \in fork'[r].before /\ fork'[r].pc \notin {"forked", "unreadable"}
                  => Keeps(a, fork'[r].loaded) /\ Keeps(a, fork'[r].env)
      BY <2>3, <2>4, <2>6, <2>7 DEF Survives
    <2>9. \A m \in file[y].mixed : fork'[m] = fork[m]
      BY <1>2, <2>5
    <2>10. file'[y].st = "ok" => Keeps(a, file'[y].env)
      BY <1>3, <2>3, <2>4 DEF Survives
    <2>11. file'[y].st = "torn" => \A m \in file'[y].mixed : Keeps(a, fork'[m].env)
      BY <1>3, <2>3, <2>4, <2>9 DEF Survives
    <2> QED
      BY <2>1, <2>4, <2>8, <2>10, <2>11 DEF Survives, Keeps
  <1> QED
    BY <1>4 DEF Survival

LEMMA StepUnreadable ==
    ASSUME OverlapInv, UnreadableHistory, NEW p \in Calls, Step(p)
    PROVE  UnreadableHistory'
  <1>1. TypeOK /\ Inv /\ History /\ FilesHistory /\ Steps(p)
    BY OwnProgress DEF OverlapInv, Inv
  <1>2. /\ Begun' = Begun /\ \A q \in Begun : fork'[q].inst = fork[q].inst
        /\ \A x : CallsOn(x)' = CallsOn(x)
        /\ \A a, b : Overlap(a, b)' <=> Overlap(a, b)
    BY <1>1, StepFrame
  <1>3. ASSUME fork'[p].pc = "unreadable", fork[p].pc # "unreadable"
        PROVE  fork[p].inst # Static /\ \E a, r \in CallsOn(fork[p].inst) : Overlap(a, r)
    <2>1. Attach(p)
      <3>1. CASE AttachStatic(p) \/ ExecutionDone(p) \/ ReplyFails(p)
        BY <1>1, <1>3, <3>1, PlainEffect
      <3>2. CASE Evaluate(p)
        BY <1>1, <1>3, <3>2, EvaluateEffect
      <3>3. CASE SaveBegins(p)
        BY <1>1, <1>3, <3>3, SaveBeginsEffect
      <3>4. CASE SaveEnds(p)
        BY <1>1, <1>3, <3>4, SaveEndsEffect
      <3> QED
        BY <3>1, <3>2, <3>3, <3>4 DEF Step
    <2>2. fork[p].inst \in Instances /\ file[fork[p].inst].st \in {"torn", "corrupt"}
          /\ fork[p].pc = "forked"
      BY <1>1, <1>3, <2>1, AttachEffect
    <2>3. FileHistory(fork[p].inst) /\ fork[p].inst # Static
      BY <1>1, <2>2, ConstantsAssumption DEF FilesHistory
    <2>4. CASE file[fork[p].inst].st = "torn"
      <3>1. PICK w \in CallsOn(fork[p].inst) : fork[w].pc = "saving"
        BY <2>3, <2>4 DEF FileHistory
      <3>2. w \in Begun /\ w \notin Ended /\ fork[w].inst = fork[p].inst /\ w # p
        BY <2>2, <3>1 DEF CallsOn, Ended
      <3>3. p \in CallsOn(fork[p].inst) /\ p \in Begun /\ p \notin Ended
        BY <1>1 DEF Steps, CallsOn
      <3> QED
        BY <1>1, <2>3, <3>1, <3>2, <3>3, ActiveOverlap
    <2>5. CASE file[fork[p].inst].st = "corrupt"
      BY <2>3, <2>5 DEF FileHistory
    <2> QED
      BY <2>2, <2>4, <2>5
  <1>4. \A q \in Begun : fork'[q].pc = "unreadable" =>
            fork[q].inst # Static /\ \E a, r \in CallsOn(fork[q].inst) : Overlap(a, r)
    BY <1>1, <1>3 DEF UnreadableHistory, Steps, Begun
  <1> QED
    BY <1>2, <1>4 DEF UnreadableHistory

LEMMA CallUnreadable ==
    ASSUME OverlapInv, UnreadableHistory, NEW p \in Calls, NEW x, NEW op, VrpcCall(p, x, op)
    PROVE  UnreadableHistory'
  <1>1. TypeOK
    BY DEF OverlapInv, Inv
  <1>2. /\ Begun' = Begun \cup {p} /\ \A q \in Begun : fork'[q] = fork[q]
        /\ \A y : CallsOn(y) \subseteq CallsOn(y)'
        /\ \A a, b : Overlap(a, b) => Overlap(a, b)'
    BY <1>1, CallFrame
  <1>3. fork'[p].pc = "forked"
    <2>1. fork'[p] = [pc |-> "forked", inst |-> x, op |-> op, loaded |-> Fresh,
                      env |-> Fresh, out |-> NoOutput, before |-> Ended]
      BY <1>1, CallEffect
    <2> QED
      BY <2>1
  <1> QED
    BY <1>2, <1>3 DEF UnreadableHistory

----------------------------------------------------------------------------
HistoryInv == OverlapInv /\ Survival /\ UnreadableHistory

LEMMA HistoryInvInit ==
    ASSUME Init
    PROVE  HistoryInv
  <1>1. Begun = {}
    BY DEF Init, Begun, Idle
  <1> QED
    BY <1>1, OverlapInvInit DEF HistoryInv, Survival, UnreadableHistory

LEMMA HistoryInvNext ==
    ASSUME HistoryInv, [Next]_vars
    PROVE  HistoryInv'
  <1>1. OverlapInv'
    BY OverlapInvNext DEF HistoryInv
  <1>2. ASSUME NEW p \in Calls, Step(p)
        PROVE  HistoryInv'
    BY <1>1, <1>2, StepSurvival, StepUnreadable DEF HistoryInv
  <1>3. ASSUME NEW p \in Calls, NEW x \in Instances \cup {Static}, NEW op \in Ops,
               VrpcCall(p, x, op)
        PROVE  HistoryInv'
    BY <1>1, <1>3, CallSurvival, CallUnreadable DEF HistoryInv
  <1>4. CASE UNCHANGED vars
    <2>1. file' = file /\ fork' = fork
      BY <1>4 DEF vars
    <2>2. Begun' = Begun /\ (\A x : CallsOn(x)' = CallsOn(x))
          /\ \A a, b : Overlap(a, b)' <=> Overlap(a, b)
      BY <2>1 DEF Begun, CallsOn, Overlap
    <2>3. \A a : (Alone(a)' <=> Alone(a)) /\ (Survives(a)' <=> Survives(a))
                 /\ (HasSaved(a)' <=> HasSaved(a))
      BY <2>1, <2>2 DEF Alone, Survives, Keeps, HasSaved
    <2> QED
      BY <1>1, <2>1, <2>2, <2>3 DEF HistoryInv, Survival, UnreadableHistory
  <1> QED
    BY <1>2, <1>3, <1>4 DEF Next

(* A call dies on an unreadable .RData only if calls of its session        *)
(* overlapped: forks that run one after the other always leave a file      *)
(* that load() reads.                                                      *)
THEOREM UnreadableOnlyToOverlapping == Spec => []UnreadableOnlyByOverlap
  <1>1. HistoryInv => UnreadableOnlyByOverlap
    BY DEF HistoryInv, UnreadableHistory, UnreadableOnlyByOverlap
  <1> QED
    BY <1>1, HistoryInvInit, HistoryInvNext, PTL DEF Spec

(* What a call set is found by the calls made after its reply, or after    *)
(* its reply failed, or was set again since, unless a call of its session  *)
(* overlapped it: save() before the reply makes the state durable, and     *)
(* only a fork that loaded an older file can put older state back.         *)
THEOREM NothingIsLostAlone == Spec => []LostOnlyToOverlap
  <1>1. HistoryInv => LostOnlyToOverlap
    <2> SUFFICES ASSUME HistoryInv, NEW p \in Begun, NEW q \in Begun,
                        fork[p].pc \in {"replied", "unsent"}, p \in fork[q].before,
                        fork[p].inst = fork[q].inst, fork[p].inst # Static,
                        fork[q].pc \notin {"forked", "unreadable"},
                        fork[p].op.writes # NoSlot,
                        fork[q].loaded[fork[p].op.writes] \in fork[p].before \cup {Unset},
                        Alone(p)
                 PROVE  FALSE
      BY DEF LostOnlyToOverlap, Alone
    <2>1. Survives(p)
      BY DEF HistoryInv, Survival, HasSaved
    <2>2. q \in CallsOn(fork[p].inst)
      BY DEF CallsOn
    <2> QED
      BY <2>1, <2>2 DEF Survives, Keeps
  <1> QED
    BY <1>1, HistoryInvInit, HistoryInvNext, PTL DEF Spec

----------------------------------------------------------------------------
(* With clients that wait: one call of a session at a time. *)
SequentialInv == OverlapInv /\ NoOverlap /\ LoadedIsState

LEMMA StepSequential ==
    ASSUME SequentialInv, Sequential, NEW p \in Calls, Step(p)
    PROVE  NoOverlap' /\ LoadedIsState'
  <1>1. /\ TypeOK /\ Inv /\ History /\ FilesHistory /\ ForksProgress /\ Steps(p)
        /\ \A a, b \in Begun : ~Overlap(a, b)
        /\ \A q \in Begun :
              fork[q].inst # Static /\ fork[q].pc \in {"attached", "evaluated", "saving"}
                  => fork[q].loaded = file[fork[q].inst].env
    BY OwnProgress DEF SequentialInv, OverlapInv, Inv, NoOverlap, LoadedIsState
  <1>2. /\ Begun' = Begun /\ \A q \in Begun : fork'[q].inst = fork[q].inst
        /\ \A a, b : Overlap(a, b)' <=> Overlap(a, b)
    BY <1>1, StepFrame
  <1>3. NoOverlap'
    BY <1>1, <1>2 DEF NoOverlap
  <1>4. \A q \in Begun \ {p} : fork'[q] = fork[q]
    BY <1>1 DEF Steps, Begun
  <1>5. \A q \in Begun \ {p} : fork[q].inst = fork[p].inst /\ fork[p].inst # Static => q \in Ended
    BY <1>1, ActiveOverlap DEF Steps
  <1>6. \A q \in Begun : fork[q].inst # Static => fork[q].inst \in Instances
    BY <1>1 DEF TypeOK, Forks, Begun
  <1>7. fork[p].inst # Static => file[fork[p].inst].st # "torn" \/ fork[p].pc = "saving"
    <2>1. SUFFICES ASSUME fork[p].inst # Static, file[fork[p].inst].st = "torn"
                   PROVE  fork[p].pc = "saving"
      OBVIOUS
    <2>2. PICK w \in CallsOn(fork[p].inst) : fork[w].pc = "saving"
      BY <1>1, <1>6, <2>1 DEF FilesHistory, FileHistory, Steps
    <2> QED
      BY <1>5, <2>1, <2>2 DEF CallsOn, Ended
  <1>8. fork[p].inst # Static => file[fork[p].inst].st # "corrupt"
    BY <1>1, <1>6 DEF FilesHistory, FileHistory, Steps, CallsOn
  <1>9. ASSUME NEW q \in Begun, fork[q].inst # Static,
               fork'[q].pc \in {"attached", "evaluated", "saving"}
        PROVE  fork'[q].loaded = file'[fork[q].inst].env
    <2>1. CASE q # p
      <3>1. q \notin Ended /\ fork[q].loaded = file[fork[q].inst].env
        BY <1>1, <1>4, <1>9, <2>1 DEF Ended
      <3>2. fork[q].inst # fork[p].inst
        BY <1>5, <1>9, <2>1, <3>1
      <3>3. file'[fork[q].inst].env = file[fork[q].inst].env
        <4>1. CASE \/ AttachStatic(p) \/ Attach(p) \/ Evaluate(p)
                  \/ ExecutionDone(p) \/ ReplyFails(p)
          BY <4>1 DEF AttachStatic, Attach, Evaluate, ExecutionDone, ReplyFails
        <4>2. CASE SaveBegins(p) \/ SaveEnds(p)
          <5>1. \A y \in Instances \ {fork[p].inst} : file'[y] = file[y]
            BY <1>1, <4>2, SaveBeginsEffect, SaveEndsEffect
          <5> QED
            BY <1>6, <1>9, <3>2, <5>1
        <4> QED
          BY <4>1, <4>2 DEF Step
      <3> QED
        BY <1>4, <2>1, <3>1, <3>3
    <2>2. CASE q = p
      <3>1. CASE AttachStatic(p) \/ ExecutionDone(p) \/ ReplyFails(p)
        BY <1>1, <1>9, <2>2, <3>1, PlainEffect
      <3>2. CASE Attach(p)
        <4>1. /\ file' = file /\ fork[p].pc = "forked"
              /\ LET f == file[fork[p].inst] IN
                 \/ f.st = "none" /\ fork'[p].loaded = fork[p].loaded
                 \/ f.st = "ok" /\ fork'[p].loaded = f.env
                 \/ f.st = "torn"
                 \/ fork'[p].pc = "unreadable"
          BY <1>1, <3>2, AttachEffect
        <4>2. fork[p].loaded = Fresh
          BY <1>1, <1>9, <2>2, <4>1 DEF ForksProgress, Progress
        <4>3. file[fork[p].inst].st = "none" => file[fork[p].inst].env = Fresh
          BY <1>1, <1>6, <1>9, <2>2 DEF FilesHistory, FileHistory
        <4> QED
          BY <1>7, <1>9, <2>2, <4>1, <4>2, <4>3
      <3>3. CASE Evaluate(p)
        <4>1. /\ file' = file /\ fork[p].pc = "attached" /\ fork'[p].loaded = fork[p].loaded
          BY <1>1, <3>3, EvaluateEffect DEF Evaluate
        <4> QED
          BY <1>1, <1>9, <2>2, <4>1
      <3>4. CASE SaveBegins(p)
        BY <1>1, <1>9, <2>2, <3>4, SaveBeginsEffect
      <3>5. CASE SaveEnds(p)
        BY <1>1, <1>9, <2>2, <3>5, SaveEndsEffect
      <3> QED
        BY <3>1, <3>2, <3>3, <3>4, <3>5 DEF Step
    <2> QED
      BY <2>1, <2>2
  <1>10. LoadedIsState'
    BY <1>2, <1>9 DEF LoadedIsState
  <1> QED
    BY <1>3, <1>10

LEMMA CallSequential ==
    ASSUME SequentialInv, Sequential, NEW p \in Calls, NEW x, NEW op, VrpcCall(p, x, op)
    PROVE  NoOverlap' /\ LoadedIsState'
  <1>1. TypeOK /\ \A a, b \in Begun : ~Overlap(a, b)
    BY DEF SequentialInv, OverlapInv, Inv, NoOverlap
  <1>2. /\ Begun' = Begun \cup {p} /\ \A q \in Begun : fork'[q] = fork[q]
        /\ \A a, b \in Begun : Overlap(a, b)' <=> Overlap(a, b)
    BY <1>1, CallFrame
  <1>3. fork'[p].pc = "forked" /\ fork'[p].inst = x /\ fork'[p].before = Ended /\ file' = file
    <2>1. fork'[p] = [pc |-> "forked", inst |-> x, op |-> op, loaded |-> Fresh,
                      env |-> Fresh, out |-> NoOutput, before |-> Ended] /\ file' = file
      BY <1>1, CallEffect
    <2> QED
      BY <2>1
  <1>4. \A q \in Begun : fork[q].inst = x /\ x # Static => q \in Ended
    BY DEF VrpcCall
  <1>5. NoOverlap'
    BY <1>1, <1>2, <1>3, <1>4 DEF NoOverlap, Overlap
  <1>6. LoadedIsState'
    BY <1>2, <1>3 DEF SequentialInv, LoadedIsState
  <1> QED
    BY <1>5, <1>6

LEMMA SequentialInvInit ==
    ASSUME Init
    PROVE  SequentialInv
  <1>1. Begun = {}
    BY DEF Init, Begun, Idle
  <1> QED
    BY <1>1, OverlapInvInit DEF SequentialInv, NoOverlap, LoadedIsState

LEMMA SequentialInvNext ==
    ASSUME SequentialInv, [Next]_vars
    PROVE  SequentialInv'
  <1>1. OverlapInv'
    BY OverlapInvNext DEF SequentialInv
  <1>2. CASE ~Sequential
    BY <1>1, <1>2 DEF SequentialInv, NoOverlap, LoadedIsState
  <1>3. CASE Sequential
    <2>1. ASSUME NEW p \in Calls, Step(p)
          PROVE  SequentialInv'
      BY <1>1, <1>3, <2>1, StepSequential DEF SequentialInv
    <2>2. ASSUME NEW p \in Calls, NEW x \in Instances \cup {Static}, NEW op \in Ops,
                 VrpcCall(p, x, op)
          PROVE  SequentialInv'
      BY <1>1, <1>3, <2>2, CallSequential DEF SequentialInv
    <2>3. CASE UNCHANGED vars
      <3>1. file' = file /\ fork' = fork
        BY <2>3 DEF vars
      <3> QED
        BY <1>1, <3>1 DEF SequentialInv, NoOverlap, LoadedIsState, Begun, Overlap
    <2> QED
      BY <2>1, <2>2, <2>3 DEF Next
  <1> QED
    BY <1>2, <1>3

----------------------------------------------------------------------------
(* The state of a session is in its file, whether or not a save is under   *)
(* way: a fork's loaded environment is what its save will replace.         *)
LEMMA StateIsInFile ==
    ASSUME SequentialInv, Sequential, NEW x \in Instances
    PROVE  SavedState(x) = file[x].env
  <1>1. /\ TypeOK /\ FileHistory(x) /\ x # Static
        /\ \A a, b \in Begun : ~Overlap(a, b)
    BY ConstantsAssumption DEF SequentialInv, OverlapInv, Inv, NoOverlap, FilesHistory
  <1>2. CASE file[x].st \in {"none", "ok"}
    BY <1>2 DEF SavedState
  <1>3. CASE file[x].st \notin {"none", "ok"}
    <2> DEFINE w == CHOOSE p \in file[x].writers : TRUE
    <2>1. file[x].st = "torn"
      BY <1>1, <1>3 DEF FileHistory, TypeOK, Files, CallsOn
    <2>2. w \in file[x].writers
      BY <1>1, <2>1 DEF FileHistory
    <2>3. w \in Begun /\ fork[w].inst = x /\ fork[w].pc = "saving"
      BY <1>1, <2>2 DEF FileHistory, CallsOn
    <2>4. SavedState(x) = fork[w].loaded
      BY <1>3 DEF SavedState
    <2> HIDE DEF w
    <2> QED
      BY <1>1, <2>3, <2>4 DEF SequentialInv, LoadedIsState
  <1> QED
    BY <1>2, <1>3

LEMMA ServiceInit ==
    ASSUME Init
    PROVE  Service!Init
  <1>1. \A x \in Instances : SavedState(x) = Fresh
    BY DEF Init, SavedState
  <1>2. \A p \in Calls : fork[p].pc = "idle"
    BY DEF Init, Idle
  <1> QED
    BY <1>1, <1>2 DEF Service!Init

(* The variables of the service, as the refinement mapping sees them. *)
State   == [x \in Instances |-> SavedState(x)]
Asked   == [p \in Calls |-> IF fork[p].pc = "idle" THEN NoOutput
                            ELSE [inst |-> fork[p].inst, op |-> fork[p].op]]
Results == [p \in Calls |-> IF fork[p].pc \in {"saved", "replied", "unsent"} THEN fork[p].out
                            ELSE NoOutput]

LEMMA ServiceStutters ==
    ASSUME State' = State, Asked' = Asked, Results' = Results
    PROVE  UNCHANGED Service!vars
  BY DEF Service!vars, State, Asked, Results

(* A step of a fork that does not change the files changes its result      *)
(* only.                                                                   *)
LEMMA ForkOnlyService ==
    ASSUME TypeOK, NEW p, Steps(p)
    PROVE  /\ Asked' = Asked
           /\ p \in Calls /\ Asked[p] = [inst |-> fork[p].inst, op |-> fork[p].op]
           /\ Results' = [Results EXCEPT ![p] =
                  IF fork'[p].pc \in {"saved", "replied", "unsent"} THEN fork'[p].out ELSE NoOutput]
           /\ Results[p] = IF fork[p].pc \in {"saved", "replied", "unsent"} THEN fork[p].out ELSE NoOutput
  <1>1. /\ p \in Calls /\ fork[p].pc # "idle" /\ fork'[p].pc # "idle"
        /\ \A q \in Calls \ {p} : fork'[q] = fork[q]
        /\ fork'[p].inst = fork[p].inst /\ fork'[p].op = fork[p].op
    BY DEF Steps, Begun
  <1>2. Asked' = Asked
    BY <1>1 DEF Asked
  <1>3. Asked[p] = [inst |-> fork[p].inst, op |-> fork[p].op]
    BY <1>1 DEF Asked
  <1>4. \A q \in Calls : Results'[q] = IF q = p THEN IF fork'[p].pc \in {"saved", "replied", "unsent"}
                                                     THEN fork'[p].out ELSE NoOutput
                                       ELSE Results[q]
    BY <1>1 DEF Results
  <1>5. Results' = [Results EXCEPT ![p] =
                  IF fork'[p].pc \in {"saved", "replied", "unsent"} THEN fork'[p].out ELSE NoOutput]
    BY <1>1, <1>4 DEF Results
  <1> QED
    BY <1>1, <1>2, <1>3, <1>5 DEF Results

LEMMA StateIsFiles == Sequential /\ SequentialInv => State = [x \in Instances |-> file[x].env]
  BY StateIsInFile DEF State

LEMMA StateLater ==
    Sequential' /\ SequentialInv' => State' = [x \in Instances |-> file'[x].env]
  <1>1. (Sequential /\ SequentialInv => State = [x \in Instances |-> file[x].env])'
    BY StateIsFiles, PTL
  <1> QED
    BY <1>1

(* Answers tell who made them, so a call that returned has a result. *)
LEMMA ReturnedIsResult ==
    ASSUME NEW env, NEW op, NEW p \in Calls
    PROVE  Returned(env, op, p) # NoOutput
  <1>1. Returned(env, op, p).by = p /\ NoOutput.by = Unset /\ p # Unset
    BY DEF Returned, NoOutput, Unset, Calls
  <1> QED
    BY <1>1

LEMMA AskedIsRequest ==
    ASSUME NEW x, NEW op
    PROVE  [inst |-> x, op |-> op] # NoOutput
  <1>1. DOMAIN [inst |-> x, op |-> op] = {"inst", "op"} /\ DOMAIN NoOutput = {"ok", "saw", "by"}
    BY DEF NoOutput
  <1>2. "ok" \in DOMAIN NoOutput /\ "ok" \notin DOMAIN [inst |-> x, op |-> op]
    BY <1>1
  <1> QED
    BY <1>2

LEMMA ServiceCall ==
    ASSUME TypeOK, NEW p \in Calls, NEW x \in Instances \cup {Static}, NEW op \in Ops,
           VrpcCall(p, x, op), State' = State
    PROVE  Service!Request(p, x, op)
  <1>1. /\ fork[p].pc = "idle" /\ fork'[p].pc = "forked" /\ fork'[p].inst = x /\ fork'[p].op = op
        /\ \A q \in Calls \ {p} : fork'[q] = fork[q]
    <2>1. fork'[p] = [pc |-> "forked", inst |-> x, op |-> op, loaded |-> Fresh,
                      env |-> Fresh, out |-> NoOutput, before |-> Ended]
          /\ \A q \in Calls \ {p} : fork'[q] = fork[q]
      BY CallEffect
    <2> QED
      BY <2>1 DEF VrpcCall
  <1>2. Asked[p] = NoOutput /\ Asked' = [Asked EXCEPT ![p] = [inst |-> x, op |-> op]]
    <2>1. \A q \in Calls : Asked'[q] = IF q = p THEN [inst |-> x, op |-> op] ELSE Asked[q]
      BY <1>1 DEF Asked
    <2> QED
      BY <1>1, <2>1 DEF Asked
  <1>3. Results' = Results
    BY <1>1 DEF Results
  <1> QED
    BY <1>2, <1>3 DEF Service!Request, State, Asked, Results

LEMMA PerformStep ==
    ASSUME NEW p \in Calls, NEW from, NEW x \in Instances \cup {Static}, NEW op,
           Asked' = Asked, Asked[p] = [inst |-> x, op |-> op], Results[p] = NoOutput,
           Resolves(from, op), Results' = [Results EXCEPT ![p] = Returned(from, op, p)],
           \/ x = Static /\ from = Fresh /\ State' = State
           \/ /\ x # Static /\ from = State[x]
              /\ State' = [State EXCEPT ![x] = Evaluated(State[x], op, p)]
    PROVE  Service!Perform(p)
  <1>1. Asked[p].inst = x /\ Asked[p].op = op /\ Asked[p] # NoOutput
    BY AskedIsRequest
  <1>2. CASE x = Static
    BY <1>1, <1>2 DEF Service!Perform, Service!Returns, State, Asked, Results
  <1>3. CASE x # Static
    BY <1>1, <1>3 DEF Service!Perform, Service!Returns, State, Asked, Results
  <1> QED
    BY <1>2, <1>3

(* A static call takes effect when it is evaluated. *)
LEMMA EvaluateService ==
    ASSUME OverlapInv, NEW p \in Calls, Evaluate(p), State' = State
    PROVE  Service!Perform(p) \/ UNCHANGED Service!vars
  <1> DEFINE x == fork[p].inst
             op == fork[p].op
  <1>1. /\ TypeOK /\ Inv /\ ForksProgress
    BY DEF OverlapInv, Inv
  <1>2. /\ Steps(p) /\ fork[p].pc = "attached"
        /\ \/ fork'[p].pc = "unresolved"
           \/ x # Static /\ fork'[p].pc = "evaluated"
           \/ /\ x = Static /\ fork'[p].pc = "saved" /\ Resolves(fork[p].env, op)
              /\ fork'[p].out = Returned(fork[p].env, op, p)
    BY <1>1, EvaluateEffect DEF Evaluate
  <1>3. /\ Asked' = Asked /\ Asked[p] = [inst |-> x, op |-> op] /\ Results[p] = NoOutput
        /\ Results' = [Results EXCEPT ![p] =
                IF fork'[p].pc \in {"saved", "replied", "unsent"} THEN fork'[p].out ELSE NoOutput]
    <2>1. fork[p].pc \notin {"saved", "replied", "unsent"}
      BY <1>2
    <2> QED
      BY <1>1, <1>2, <2>1, ForkOnlyService
  <1>4. CASE fork'[p].pc \notin {"saved", "replied", "unsent"}
    <2>1. Results' = Results
      BY <1>3, <1>4 DEF Results
    <2> QED
      BY <1>3, <2>1, ServiceStutters
  <1>5. CASE /\ x = Static /\ fork'[p].pc = "saved" /\ Resolves(fork[p].env, op)
             /\ fork'[p].out = Returned(fork[p].env, op, p)
    <2>1. fork[p].env = Fresh
      BY <1>1, <1>2, <1>5 DEF ForksProgress, Progress, Steps
    <2>2. Results' = [Results EXCEPT ![p] = Returned(Fresh, op, p)]
      BY <1>3, <1>5, <2>1
    <2> HIDE DEF x, op
    <2>3. x \in Instances \cup {Static}
      BY <1>5
    <2> QED
      BY <1>3, <1>5, <2>1, <2>2, <2>3, PerformStep
  <1> QED
    BY <1>2, <1>4, <1>5

(* A call of a session takes effect when its save is closed. *)
LEMMA SaveEndsService ==
    ASSUME SequentialInv, SequentialInv', Sequential, NEW p \in Calls, SaveEnds(p)
    PROVE  Service!Perform(p)
  <1>0. PICK x : x = fork[p].inst
    OBVIOUS
  <1> DEFINE op == fork[p].op
             f == file[x]
             g == file'[x]
  <1>1. /\ TypeOK /\ Inv /\ ForksProgress /\ FilesHistory /\ \A a, b \in Begun : ~Overlap(a, b)
    BY DEF SequentialInv, OverlapInv, Inv, NoOverlap
  <1>2. /\ Steps(p) /\ x \in Instances /\ fork[p].pc = "saving" /\ fork'[p].pc = "saved"
        /\ fork'[p].out = fork[p].out
        /\ \A y \in Instances \ {x} : file'[y] = file[y]
        /\ \/ f.writers \ {p} # {}
           \/ g.st = "ok" /\ \E q \in f.mixed : g.env = fork[q].env
           \/ f.mixed # {p}
    BY <1>0, <1>1, SaveEndsEffect
  <1>3. p \in CallsOn(x) /\ p \in Begun /\ x # Static
    BY <1>0, <1>2, ConstantsAssumption DEF Steps, CallsOn
  <1>4. f.mixed = {p} /\ f.writers \subseteq {p}
    <2>1. p \in f.writers /\ f.writers \subseteq f.mixed /\ \A q \in f.mixed : q # p => Overlap(p, q)
      BY <1>1, <1>2, <1>3 DEF FilesHistory, FileHistory
    <2> QED
      BY <1>1, <2>1 DEF Overlap
  <1>5. g.env = fork[p].env
    BY <1>2, <1>4
  <1>6. /\ Resolves(fork[p].loaded, op) /\ fork[p].env = Evaluated(fork[p].loaded, op, p)
        /\ fork[p].out = Returned(fork[p].loaded, op, p)
    BY <1>1, <1>2, <1>3 DEF ForksProgress, Progress
  <1>7. fork[p].loaded = f.env
    BY <1>0, <1>2, <1>3 DEF SequentialInv, LoadedIsState
  <1>8. State = [y \in Instances |-> file[y].env] /\ State' = [y \in Instances |-> file'[y].env]
    BY StateIsFiles, StateLater
  <1>9. State[x] = fork[p].loaded /\ State' = [State EXCEPT ![x] = Evaluated(State[x], op, p)]
    <2>1. State[x] = fork[p].loaded
      BY <1>2, <1>7, <1>8
    <2>2. \A y \in Instances : State'[y] = IF y = x THEN Evaluated(State[x], op, p) ELSE State[y]
      BY <1>2, <1>5, <1>6, <1>8, <2>1
    <2> HIDE DEF op
    <2> QED
      BY <1>8, <2>1, <2>2
  <1>10. /\ Asked' = Asked /\ Asked[p] = [inst |-> x, op |-> op] /\ Results[p] = NoOutput
         /\ Results' = [Results EXCEPT ![p] = Returned(fork[p].loaded, op, p)]
    <2>1. /\ fork[p].pc \notin {"saved", "replied", "unsent"}
          /\ fork'[p].pc \in {"saved", "replied", "unsent"}
          /\ fork'[p].out = Returned(fork[p].loaded, op, p)
      BY <1>2, <1>6
    <2> QED
      BY <1>0, <1>1, <1>2, <2>1, ForkOnlyService
  <1> HIDE DEF op
  <1> QED
    BY <1>2, <1>3, <1>6, <1>9, <1>10, PerformStep

LEMMA ServiceStep ==
    ASSUME SequentialInv, SequentialInv', Sequential, NEW p \in Calls, Step(p)
    PROVE  Service!Perform(p) \/ UNCHANGED Service!vars
  <1>1. TypeOK /\ Inv /\ OverlapInv
    BY DEF SequentialInv, OverlapInv, Inv
  <1>2. State = [y \in Instances |-> file[y].env] /\ State' = [y \in Instances |-> file'[y].env]
    BY StateIsFiles, StateLater
  <1>3. ASSUME Steps(p), State' = State,
               \/ /\ fork[p].pc \in {"saved", "replied", "unsent"}
                  /\ fork'[p].pc \in {"saved", "replied", "unsent"}
                  /\ fork'[p].out = fork[p].out
               \/ /\ fork[p].pc \notin {"saved", "replied", "unsent"}
                  /\ fork'[p].pc \notin {"saved", "replied", "unsent"}
        PROVE  UNCHANGED Service!vars
    <2>1. Asked' = Asked /\ Results' = [Results EXCEPT ![p] = Results[p]]
      BY <1>1, <1>3, ForkOnlyService
    <2>2. Results' = Results
      BY <2>1 DEF Results
    <2> QED
      BY <1>3, <2>1, <2>2, ServiceStutters
  <1>4. CASE AttachStatic(p) \/ ExecutionDone(p) \/ ReplyFails(p)
    BY <1>1, <1>2, <1>3, <1>4, PlainEffect
  <1>5. CASE Attach(p)
    <2>1. /\ Steps(p) /\ file' = file /\ fork[p].pc = "forked"
          /\ fork'[p].pc \in {"attached", "unreadable"}
      BY <1>1, <1>5, AttachEffect
    <2> QED
      BY <1>2, <1>3, <2>1
  <1>6. CASE Evaluate(p)
    <2>1. State' = State
      BY <1>2, <1>6 DEF Evaluate
    <2> QED
      BY <1>1, <1>6, <2>1, EvaluateService
  <1>7. CASE SaveBegins(p)
    <2>1. /\ Steps(p) /\ fork[p].pc = "evaluated" /\ fork'[p].pc = "saving"
          /\ file'[fork[p].inst].env = file[fork[p].inst].env
          /\ \A y \in Instances \ {fork[p].inst} : file'[y] = file[y]
      BY <1>1, <1>7, SaveBeginsEffect
    <2>2. State' = State
      BY <1>2, <2>1
    <2> QED
      BY <1>3, <2>1, <2>2
  <1>8. CASE SaveEnds(p)
    BY <1>8, SaveEndsService
  <1> QED
    BY <1>4, <1>5, <1>6, <1>7, <1>8 DEF Step

(* With clients that wait for a reply before they call again, the forks,   *)
(* the directories and the in-place loads and saves implement sessions     *)
(* that take their calls one at a time, whole, and once each, however      *)
(* many calls, instances and variables there are.                          *)
THEOREM SequentialImplements == Sequential => (Spec => ImplementsService)
  <1> SUFFICES ASSUME Sequential
               PROVE  Spec => ImplementsService
    OBVIOUS
  <1>1. Init => SequentialInv /\ Service!Init
    BY SequentialInvInit, ServiceInit
  <1>2. SequentialInv /\ [Next]_vars => SequentialInv'
    BY SequentialInvNext
  <1>3. SequentialInv /\ SequentialInv' /\ [Next]_vars => [Service!Next]_(Service!vars)
    <2> SUFFICES ASSUME SequentialInv, SequentialInv', [Next]_vars
                 PROVE  Service!Next \/ UNCHANGED Service!vars
      OBVIOUS
    <2>1. State = [y \in Instances |-> file[y].env] /\ State' = [y \in Instances |-> file'[y].env]
      BY StateIsFiles, StateLater
    <2>2. ASSUME NEW p \in Calls, NEW x \in Instances \cup {Static}, NEW op \in Ops,
                 VrpcCall(p, x, op)
          PROVE  Service!Next
      <3>1. TypeOK /\ State' = State
        BY <2>1, <2>2 DEF SequentialInv, OverlapInv, Inv, VrpcCall
      <3>2. Service!Request(p, x, op)
        BY <2>2, <3>1, ServiceCall
      <3> QED
        BY <3>2 DEF Service!Next
    <2>3. ASSUME NEW p \in Calls, Step(p)
          PROVE  Service!Next \/ UNCHANGED Service!vars
      <3>1. Service!Perform(p) \/ UNCHANGED Service!vars
        BY <2>3, ServiceStep
      <3> QED
        BY <3>1 DEF Service!Next
    <2>4. CASE UNCHANGED vars
      <3>1. file' = file /\ fork' = fork
        BY <2>4 DEF vars
      <3>2. State' = State /\ Asked' = Asked /\ Results' = Results
        BY <2>1, <3>1 DEF Asked, Results
      <3> QED
        BY <3>2, ServiceStutters
    <2> QED
      BY <2>2, <2>3, <2>4 DEF Next
  <1> QED
    BY <1>1, <1>2, <1>3, PTL DEF Spec, ImplementsService, Service!Spec
=============================================================================
