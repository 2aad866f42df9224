--------------------------- MODULE RSessionProofs ---------------------------
(* Proofs about RSession for every number of calls, instances, variables   *)
(* and operations, whether or not clients wait for their replies.          *)
EXTENDS RSession, TLAPS

(* Only calls on a session write its file.                                 *)
WritersBelong ==
    \A x \in Instances : file[x].writers \subseteq CallsOn(x) /\ file[x].mixed \subseteq CallsOn(x)

(* Calls of static functions do not save.                                  *)
SaversHaveSession ==
    \A p \in Begun : fork[p].pc \in {"evaluated", "saving"} => fork[p].inst # Static

(* Separation alone is not inductive: the file left by overlapping saves   *)
(* is that of any of its writers.                                          *)
Inv == TypeOK /\ SessionsSeparate /\ WritersBelong /\ SaversHaveSession

(* Where what call p finds, returns or leaves may come from.               *)
Origins(p) ==
    {Unset, p} \cup (IF fork[p].inst = Static THEN {} ELSE CallsOn(fork[p].inst))

LEMMA InvFacts ==
    ASSUME Inv
    PROVE  /\ \A p \in Begun, s \in Slots : fork[p].env[s] \in Origins(p)
           /\ \A p \in Begun : fork[p].out.saw \in Origins(p)
           /\ \A x \in Instances, s \in Slots : file[x].env[s] \in CallsOn(x) \cup {Unset}
           /\ Begun \subseteq Calls
           /\ \A x : CallsOn(x) \subseteq Begun
  <1>1. Slots # {}
    <2>1. PICK op \in Ops : op \in OpType
      BY ConstantsAssumption
    <2> QED
      BY <2>1 DEF OpType
  <1> QED
    BY <1>1 DEF Inv, SessionsSeparate, Origins, CallsOn, Begun

(* An invariant of a later state, from what its environments hold.         *)
LEMMA InvLater ==
    ASSUME TypeOK', WritersBelong', SaversHaveSession',
           \A p \in Begun', s \in Slots :
                fork'[p].env[s] \in Origins(p)' /\ fork'[p].out.saw \in Origins(p)',
           \A x \in Instances, s \in Slots : file'[x].env[s] \in CallsOn(x)' \cup {Unset}
    PROVE  Inv'
  BY DEF Inv, SessionsSeparate, Origins

(* A step of a fork leaves it on its session.                              *)
LEMMA SameCalls ==
    ASSUME TypeOK, NEW p \in Begun, NEW f \in Forks, fork' = [fork EXCEPT ![p] = f],
           f.inst = fork[p].inst, f.pc # "idle"
    PROVE  /\ Begun' = Begun
           /\ \A x : CallsOn(x)' = CallsOn(x)
           /\ \A q : q \in Begun => Origins(q)' = Origins(q)
           /\ fork'[p] = f /\ \A q \in Begun \ {p} : fork'[q] = fork[q]
           /\ fork' \in [Calls -> Forks]
  <1>1. p \in Calls /\ fork[p].pc # "idle" /\ fork \in [Calls -> Forks]
    BY DEF Begun, TypeOK
  <1>2. fork'[p] = f /\ (\A q \in Calls \ {p} : fork'[q] = fork[q]) /\ fork' \in [Calls -> Forks]
    BY <1>1
  <1>3. Begun' = Begun
    BY <1>1, <1>2 DEF Begun
  <1>4. \A q \in Begun : fork'[q].inst = fork[q].inst
    BY <1>1, <1>2 DEF Begun
  <1>5. \A x : CallsOn(x)' = CallsOn(x)
    BY <1>3, <1>4 DEF CallsOn
  <1> QED
    BY <1>2, <1>3, <1>4, <1>5 DEF Origins, Begun

(* A step of a fork whose file stays, or takes an environment of its       *)
(* writers, and whose environment and output are of its session.           *)
LEMMA ForkStep ==
    ASSUME Inv, NEW p \in Begun, NEW f \in Forks, fork' = [fork EXCEPT ![p] = f],
           f.inst = fork[p].inst, f.pc # "idle",
           f.pc \in {"evaluated", "saving"} => f.inst # Static,
           \A s \in Slots : f.env[s] \in Origins(p), f.out.saw \in Origins(p),
           file' \in [Instances -> Files],
           \A x \in Instances : file'[x].writers \subseteq CallsOn(x) /\ file'[x].mixed \subseteq CallsOn(x),
           \A x \in Instances, s \in Slots : file'[x].env[s] \in CallsOn(x) \cup {Unset}
    PROVE  Inv'
  <1>1. TypeOK
    BY DEF Inv
  <1>2. /\ Begun' = Begun
        /\ \A x : CallsOn(x)' = CallsOn(x)
        /\ \A q : q \in Begun => Origins(q)' = Origins(q)
        /\ fork'[p] = f /\ \A q \in Begun \ {p} : fork'[q] = fork[q]
        /\ fork' \in [Calls -> Forks]
    BY <1>1, SameCalls
  <1>3. TypeOK'
    BY <1>2 DEF TypeOK
  <1>4. WritersBelong'
    BY <1>2 DEF WritersBelong
  <1>6. SaversHaveSession'
    BY <1>2 DEF SaversHaveSession, Inv
  <1>5. \A q \in Begun', s \in Slots :
            fork'[q].env[s] \in Origins(q)' /\ fork'[q].out.saw \in Origins(q)'
    BY <1>2, InvFacts
  <1> QED
    BY <1>2, <1>3, <1>4, <1>5, <1>6, InvLater

(* The same when the file is left alone.                                   *)
LEMMA ForkOnlyStep ==
    ASSUME Inv, NEW p \in Begun, NEW f \in Forks, fork' = [fork EXCEPT ![p] = f],
           f.inst = fork[p].inst, f.pc # "idle",
           f.pc \in {"evaluated", "saving"} => f.inst # Static,
           \A s \in Slots : f.env[s] \in Origins(p), f.out.saw \in Origins(p),
           file' = file
    PROVE  Inv'
  BY InvFacts, ForkStep DEF Inv, TypeOK, WritersBelong

----------------------------------------------------------------------------
LEMMA MoveStep ==
    ASSUME Inv, NEW p \in Begun, NEW pc, Move(p, pc),
           pc \in {"attached", "evaluated", "saving", "saved", "replied", "unsent", "unreadable", "unresolved"}
    PROVE  \E f \in Forks : /\ fork' = [fork EXCEPT ![p] = f]
                            /\ f.inst = fork[p].inst /\ f.pc = pc
                            /\ f.env = fork[p].env /\ f.out = fork[p].out
  <1> DEFINE f == [fork[p] EXCEPT !.pc = pc]
  <1>1. fork \in [Calls -> Forks] /\ p \in Calls
    BY DEF Inv, TypeOK, Begun
  <1>2. f \in Forks /\ f.inst = fork[p].inst /\ f.pc = pc /\ f.env = fork[p].env /\ f.out = fork[p].out
    BY <1>1 DEF Forks
  <1>3. fork' = [fork EXCEPT ![p] = f]
    BY <1>1 DEF Move
  <1> QED
    BY <1>2, <1>3

(* A fork that only moves on. *)
LEMMA MoveOnly ==
    ASSUME Inv, NEW p \in Begun, NEW pc, Move(p, pc), file' = file,
           pc \in {"attached", "replied", "unsent", "unreadable", "unresolved"}
    PROVE  Inv'
  <1>1. PICK f \in Forks : /\ fork' = [fork EXCEPT ![p] = f]
                           /\ f.inst = fork[p].inst /\ f.pc = pc
                           /\ f.env = fork[p].env /\ f.out = fork[p].out
    BY MoveStep
  <1>2. f.pc # "idle" /\ \A s \in Slots : f.env[s] \in Origins(p)
    BY <1>1, InvFacts
  <1>3. f.out.saw \in Origins(p)
    BY <1>1, InvFacts
  <1> QED
    BY <1>1, <1>2, <1>3, ForkOnlyStep

----------------------------------------------------------------------------
(* A fork loads an environment made by calls on its session.               *)
LEMMA LoadedStep ==
    ASSUME Inv, NEW p \in Begun, NEW env \in Envs, fork[p].inst # Static,
           \A s \in Slots : env[s] \in CallsOn(fork[p].inst) \cup {Unset},
           Loaded(p, env), file' = file
    PROVE  Inv'
  <1> DEFINE g1 == [fork[p] EXCEPT !.pc = "attached"]
             g2 == [g1 EXCEPT !.loaded = env]
             g3 == [g2 EXCEPT !.env = env]
  <1>1. fork \in [Calls -> Forks] /\ p \in Calls /\ fork[p] \in Forks
    BY DEF Begun, Inv, TypeOK
  <1>2. fork' = [fork EXCEPT ![p] = g3]
    BY <1>1 DEF Loaded
  <1>3. g1 \in Forks /\ g1.inst = fork[p].inst /\ g1.pc = "attached" /\ g1.out = fork[p].out
    BY <1>1 DEF Forks
  <1> HIDE DEF g1
  <1>4. g2 \in Forks /\ g2.inst = fork[p].inst /\ g2.pc = "attached" /\ g2.out = fork[p].out
    BY <1>3 DEF Forks
  <1> HIDE DEF g2
  <1>5. /\ g3 \in Forks /\ g3.inst = fork[p].inst /\ g3.pc = "attached"
        /\ g3.env = env /\ g3.out = fork[p].out
    BY <1>4 DEF Forks
  <1> HIDE DEF g3
  <1>6. g3.out.saw \in Origins(p) /\ \A s \in Slots : g3.env[s] \in Origins(p)
    BY <1>5, InvFacts DEF Origins
  <1> QED
    BY <1>2, <1>5, <1>6, ForkOnlyStep

LEMMA AttachStep ==
    ASSUME Inv, NEW p \in Calls, Attach(p)
    PROVE  Inv'
  <1> DEFINE x == fork[p].inst
             f == file[x]
  <1>1. p \in Begun /\ file' = file /\ fork \in [Calls -> Forks] /\ x # Static
    BY DEF Attach, Begun, Inv, TypeOK
  <1>2. x \in Instances /\ f \in Files
    BY <1>1 DEF Inv, TypeOK, Forks
  <1>3. CASE Move(p, "attached") \/ Move(p, "unreadable")
    BY <1>1, <1>3, MoveOnly
  <1>4. CASE Loaded(p, f.env)
    <2>1. f.env \in Envs /\ \A s \in Slots : f.env[s] \in CallsOn(x) \cup {Unset}
      BY <1>2, InvFacts DEF Files
    <2> QED
      BY <1>1, <1>4, <2>1, LoadedStep
  <1>5. ASSUME NEW q \in f.mixed, Loaded(p, fork[q].env)
        PROVE  Inv'
    <2>1. q \in CallsOn(x) /\ q \in Begun /\ q \in Calls
      BY <1>2, InvFacts DEF Inv, WritersBelong
    <2>2. fork[q].env \in Envs /\ \A s \in Slots : fork[q].env[s] \in CallsOn(x) \cup {Unset}
      BY <1>1, <2>1, InvFacts DEF Origins, CallsOn, Forks
    <2> QED
      BY <1>1, <1>5, <2>2, LoadedStep
  <1> QED
    BY <1>3, <1>4, <1>5 DEF Attach, SessionDir

LEMMA EvaluateStep ==
    ASSUME Inv, NEW p \in Calls, Evaluate(p)
    PROVE  Inv'
  <1> DEFINE e == fork[p].env
             o == fork[p].op
             next == IF fork[p].inst = Static THEN "saved" ELSE "evaluated"
             g == [fork[p] EXCEPT !.pc = next, !.env = Evaluated(e, o, p), !.out = Returned(e, o, p)]
  <1>1. p \in Begun /\ file' = file /\ fork \in [Calls -> Forks]
    BY DEF Evaluate, Begun, Inv, TypeOK
  <1>2. e \in Envs /\ o \in OpType
    BY <1>1, ConstantsAssumption DEF Forks
  <1>3. CASE Resolves(e, o)
    <2>1. \A s \in Slots : Evaluated(e, o, p)[s] \in {p, e[s]}
      BY DEF Evaluated
    <2>2. Evaluated(e, o, p) \in Envs
      BY <1>2 DEF Evaluated, Envs
    <2>3. Returned(e, o, p) \in Outputs /\ Returned(e, o, p).saw = e[o.reads] /\ o.reads \in Slots
      BY <1>2 DEF Returned, Outputs, Envs, OpType
    <2>4. /\ g \in Forks /\ g.inst = fork[p].inst /\ g.pc = next
          /\ g.env = Evaluated(e, o, p) /\ g.out = Returned(e, o, p)
      <3> DEFINE g1 == [fork[p] EXCEPT !.pc = next]
                 g2 == [g1 EXCEPT !.env = Evaluated(e, o, p)]
                 g3 == [g2 EXCEPT !.out = Returned(e, o, p)]
      <3>1. fork[p] \in Forks /\ next \in {"saved", "evaluated"}
        BY <1>1
      <3>2. g1 \in Forks /\ g1.inst = fork[p].inst /\ g1.pc = next
        BY <3>1 DEF Forks
      <3> HIDE DEF g1
      <3>3. g2 \in Forks /\ g2.inst = fork[p].inst /\ g2.pc = next /\ g2.env = Evaluated(e, o, p)
        BY <2>2, <3>2 DEF Forks
      <3> HIDE DEF g2
      <3>4. /\ g3 \in Forks /\ g3.inst = fork[p].inst /\ g3.pc = next
            /\ g3.env = Evaluated(e, o, p) /\ g3.out = Returned(e, o, p)
        BY <2>3, <3>3 DEF Forks
      <3>5. g = g3
        BY DEF g1, g2
      <3> QED
        BY <3>4, <3>5
    <2>5. fork' = [fork EXCEPT ![p] = g]
      BY <1>1, <1>3 DEF Evaluate
    <2>6. \A s \in Slots : g.env[s] \in Origins(p)
      BY <1>1, <2>1, <2>4, InvFacts DEF Origins
    <2>7. g.out.saw \in Origins(p)
      BY <1>1, <2>3, <2>4, InvFacts
    <2>8. g.pc # "idle"
      BY <2>4
    <2> HIDE DEF g
    <2> QED
      BY <1>1, <2>4, <2>5, <2>6, <2>7, <2>8, ForkOnlyStep
  <1>4. CASE ~Resolves(e, o)
    <2>1. Move(p, "unresolved")
      BY <1>4 DEF Evaluate
    <2> QED
      BY <1>1, <2>1, MoveOnly
  <1> QED
    BY <1>3, <1>4

(* A fork that moves on while it changes its session's file.               *)
LEMMA SaveStep ==
    ASSUME Inv, NEW p \in Begun, NEW pc \in {"saving", "saved"}, Move(p, pc), fork[p].inst # Static,
           NEW x \in Instances, NEW f \in Files, file' = [file EXCEPT ![x] = f],
           f.writers \subseteq CallsOn(x), f.mixed \subseteq CallsOn(x),
           \A s \in Slots : f.env[s] \in CallsOn(x) \cup {Unset}
    PROVE  Inv'
  <1>1. PICK g \in Forks : /\ fork' = [fork EXCEPT ![p] = g]
                           /\ g.inst = fork[p].inst /\ g.pc = pc
                           /\ g.env = fork[p].env /\ g.out = fork[p].out
    BY MoveStep
  <1>2. g.pc # "idle" /\ g.out.saw \in Origins(p) /\ \A s \in Slots : g.env[s] \in Origins(p)
    BY <1>1, InvFacts
  <1>3. file \in [Instances -> Files]
    BY DEF Inv, TypeOK
  <1>4. file' \in [Instances -> Files] /\ \A y \in Instances : file'[y] = IF y = x THEN f ELSE file[y]
    BY <1>3
  <1>5. /\ \A y \in Instances : file'[y].writers \subseteq CallsOn(y) /\ file'[y].mixed \subseteq CallsOn(y)
        /\ \A y \in Instances, s \in Slots : file'[y].env[s] \in CallsOn(y) \cup {Unset}
    BY <1>4, InvFacts DEF Inv, WritersBelong
  <1> QED
    BY <1>1, <1>2, <1>4, <1>5, ForkStep

LEMMA SaveBeginsStep ==
    ASSUME Inv, NEW p \in Calls, SaveBegins(p)
    PROVE  Inv'
  <1> DEFINE x == fork[p].inst
             W == file[x].writers \cup {p}
             f1 == [file[x] EXCEPT !.st = "torn"]
             f2 == [f1 EXCEPT !.writers = W]
             f3 == [f2 EXCEPT !.mixed = W]
  <1>1. p \in Begun /\ Move(p, "saving") /\ fork[p].inst # Static
    BY DEF SaveBegins, Begun, Inv, SaversHaveSession
  <1>2. x \in Instances /\ file[x] \in Files /\ file \in [Instances -> Files]
    BY <1>1 DEF Inv, TypeOK, Forks, Begun
  <1>3. file' = [file EXCEPT ![x] = f3]
    BY <1>2 DEF SaveBegins, SessionDir
  <1>4. W \in SUBSET Calls /\ W \subseteq CallsOn(x)
    BY <1>1, <1>2, InvFacts DEF Inv, WritersBelong, CallsOn
  <1>5. file[x].env \in Envs
    BY <1>2 DEF Files
  <1> HIDE DEF W, x
  <1>6. f1 \in Files /\ f1.env = file[x].env
    BY <1>2, <1>4, <1>5 DEF Files
  <1> HIDE DEF f1
  <1>7. f2 \in Files /\ f2.env = file[x].env /\ f2.writers = W
    BY <1>4, <1>5, <1>6 DEF Files
  <1> HIDE DEF f2
  <1>8. f3 \in Files /\ f3.env = file[x].env /\ f3.writers = W /\ f3.mixed = W
    BY <1>4, <1>5, <1>7 DEF Files
  <1> HIDE DEF f3
  <1>9. \A s \in Slots : f3.env[s] \in CallsOn(x) \cup {Unset}
    BY <1>2, <1>8, InvFacts
  <1> QED
    BY <1>1, <1>2, <1>3, <1>4, <1>8, <1>9, SaveStep

LEMMA SaveEndsStep ==
    ASSUME Inv, NEW p \in Calls, SaveEnds(p)
    PROVE  Inv'
  <1> DEFINE x == fork[p].inst
             f == file[x]
             left == f.writers \ {p}
             Closed(st, env) == [st |-> st, env |-> env, writers |-> {}, mixed |-> {}]
  <1>1. p \in Begun /\ Move(p, "saved") /\ fork[p].inst # Static
    BY DEF SaveEnds, Begun, Inv, SaversHaveSession
  <1>2. /\ x \in Instances /\ f \in Files /\ file \in [Instances -> Files]
        /\ fork \in [Calls -> Forks]
    BY <1>1 DEF Inv, TypeOK, Forks
  <1>3. f.env \in Envs /\ f.writers \subseteq CallsOn(x) /\ f.mixed \subseteq CallsOn(x)
        /\ CallsOn(x) \subseteq Begun /\ Begun \subseteq Calls
    BY <1>2, InvFacts DEF Files, Inv, WritersBelong
  <1>4. \A s \in Slots : f.env[s] \in CallsOn(x) \cup {Unset}
    BY <1>2, InvFacts
  <1>5. /\ \A env \in Envs, st \in {"ok", "corrupt"} : Closed(st, env) \in Files
        /\ \A env, st : Closed(st, env).writers = {} /\ Closed(st, env).mixed = {} /\ Closed(st, env).env = env
    BY DEF Files
  <1>6. CASE left # {} /\ file' = [file EXCEPT ![x].writers = left]
    <2> DEFINE g == [f EXCEPT !.writers = left]
    <2>1. file' = [file EXCEPT ![x] = g]
      BY <1>2, <1>6
    <2>2. left \in SUBSET Calls /\ left \subseteq CallsOn(x)
      BY <1>3
    <2> HIDE DEF left
    <2>3. g \in Files /\ g.env = f.env /\ g.writers = left /\ g.mixed = f.mixed
      BY <1>2, <1>3, <2>2 DEF Files
    <2> HIDE DEF g, f, x
    <2> QED
      BY <1>1, <1>2, <1>3, <1>4, <2>1, <2>2, <2>3, SaveStep
  <1>7. ASSUME NEW q \in f.mixed, file' = [file EXCEPT ![x] = Closed("ok", fork[q].env)]
        PROVE  Inv'
    <2> DEFINE g == Closed("ok", fork[q].env)
    <2>1. q \in CallsOn(x) /\ q \in Begun /\ q \in Calls
      BY <1>3
    <2>2. fork[q].env \in Envs
      BY <1>2, <2>1 DEF Forks
    <2>3. g \in Files /\ g.writers = {} /\ g.mixed = {} /\ g.env = fork[q].env
      BY <1>5, <2>2
    <2>4. \A s \in Slots : fork[q].env[s] \in CallsOn(x) \cup {Unset}
      BY <2>1, InvFacts DEF Origins, CallsOn
    <2>5. file' = [file EXCEPT ![x] = g]
      BY <1>7
    <2> HIDE DEF g, f, x
    <2> QED
      BY <1>1, <1>2, <2>3, <2>4, <2>5, SaveStep
  <1>8. CASE file' = [file EXCEPT ![x] = Closed("corrupt", f.env)]
    <2> DEFINE g == Closed("corrupt", f.env)
    <2>1. g \in Files /\ g.writers = {} /\ g.mixed = {} /\ g.env = f.env
      BY <1>3, <1>5
    <2>2. file' = [file EXCEPT ![x] = g]
      BY <1>8
    <2> HIDE DEF g, f, x
    <2> QED
      BY <1>1, <1>2, <1>4, <2>1, <2>2, SaveStep
  <1> QED
    BY <1>6, <1>7, <1>8 DEF SaveEnds, SessionDir

(* vrpc_call starts a fork in a fresh environment.                         *)
LEMMA VrpcCallStep ==
    ASSUME Inv, NEW p \in Calls, NEW x \in Instances \cup {Static}, NEW op \in Ops,
           VrpcCall(p, x, op)
    PROVE  Inv'
  <1> DEFINE f == [pc |-> "forked", inst |-> x, op |-> op, loaded |-> Fresh, env |-> Fresh,
                   out |-> NoOutput, before |-> Ended]
  <1>1. /\ p \notin Begun /\ file' = file
        /\ fork \in [Calls -> Forks] /\ file \in [Instances -> Files]
    BY DEF VrpcCall, Begun, Inv, TypeOK
  <1>2. fork' = [fork EXCEPT ![p] = f]
    <2> DEFINE some == CHOOSE o \in Ops : TRUE
    <2>1. Idle = [pc |-> "idle", inst |-> Static, op |-> some, loaded |-> Fresh,
                  env |-> Fresh, out |-> NoOutput, before |-> {}]
      BY DEF Idle
    <2> DEFINE i1 == [Idle EXCEPT !.pc = "forked"]
               i2 == [i1 EXCEPT !.inst = x]
               i3 == [i2 EXCEPT !.op = op]
               i4 == [i3 EXCEPT !.before = Ended]
    <2> HIDE DEF some
    <2>2. i1 = [pc |-> "forked", inst |-> Static, op |-> some, loaded |-> Fresh,
                env |-> Fresh, out |-> NoOutput, before |-> {}]
      BY <2>1
    <2> HIDE DEF i1
    <2>3. i2 = [pc |-> "forked", inst |-> x, op |-> some, loaded |-> Fresh,
                env |-> Fresh, out |-> NoOutput, before |-> {}]
      BY <2>2
    <2> HIDE DEF i2
    <2>4. i3 = [pc |-> "forked", inst |-> x, op |-> op, loaded |-> Fresh,
                env |-> Fresh, out |-> NoOutput, before |-> {}]
      BY <2>3
    <2> HIDE DEF i3
    <2>5. i4 = f
      BY <2>4
    <2>6. [Idle EXCEPT !.pc = "forked", !.inst = x, !.op = op, !.before = Ended] = f
      BY <2>5 DEF i1, i2, i3
    <2> QED
      BY <2>6 DEF VrpcCall
  <1>3. f \in Forks /\ f.pc = "forked" /\ f.inst = x /\ f.env = Fresh /\ f.out.saw = Unset
    BY DEF Forks, Envs, Fresh, Outputs, NoOutput, Ended
  <1> HIDE DEF f
  <1>4. /\ fork' \in [Calls -> Forks] /\ fork'[p] = f
        /\ \A q \in Calls \ {p} : fork'[q] = fork[q]
    BY <1>1, <1>2, <1>3
  <1>5. Begun' = Begun \cup {p}
    BY <1>1, <1>3, <1>4 DEF Begun
  <1>6. \A q \in Begun : q \in Calls \ {p} /\ fork'[q] = fork[q]
    BY <1>1, <1>4 DEF Begun
  <1>7. \A y : CallsOn(y) \subseteq CallsOn(y)'
    BY <1>5, <1>6 DEF CallsOn
  <1>8. \A q \in Begun : Origins(q) \subseteq Origins(q)'
    BY <1>6, <1>7 DEF Origins
  <1>9. TypeOK' /\ WritersBelong' /\ SaversHaveSession'
    BY <1>1, <1>3, <1>4, <1>5, <1>6, <1>7 DEF TypeOK, WritersBelong, SaversHaveSession, Inv
  <1>10. \A q \in Begun', s \in Slots :
            fork'[q].env[s] \in Origins(q)' /\ fork'[q].out.saw \in Origins(q)'
    <2>1. \A s \in Slots : f.env[s] = Unset
      BY <1>3 DEF Fresh
    <2>2. Unset \in Origins(p)'
      BY DEF Origins
    <2> QED
      BY <1>3, <1>4, <1>5, <1>6, <1>8, <2>1, <2>2, InvFacts
  <1>11. \A y \in Instances, s \in Slots : file'[y].env[s] \in CallsOn(y)' \cup {Unset}
    BY <1>1, <1>7, InvFacts
  <1> QED
    BY <1>9, <1>10, <1>11, InvLater

LEMMA InitInv ==
    ASSUME Init
    PROVE  Inv
  <1>1. PICK op \in Ops : Idle.op = op
    BY ConstantsAssumption DEF Idle
  <1>2. Fresh \in Envs /\ NoOutput \in Outputs
    BY DEF Envs, Fresh, Outputs, NoOutput
  <1>3. Idle \in Forks /\ Idle.pc = "idle"
    BY <1>1, <1>2 DEF Idle, Forks
  <1>4. TypeOK
    <2>1. [st |-> "none", env |-> Fresh, writers |-> {}, mixed |-> {}] \in Files
      BY <1>2 DEF Files
    <2> QED
      BY <1>3, <2>1 DEF Init, TypeOK
  <1>5. Begun = {}
    BY <1>3 DEF Init, Begun
  <1>6. SessionsSeparate
    BY <1>5 DEF Init, SessionsSeparate, Fresh
  <1>7. WritersBelong /\ SaversHaveSession
    BY <1>5 DEF Init, WritersBelong, SaversHaveSession
  <1> QED
    BY <1>4, <1>6, <1>7 DEF Inv

LEMMA NextInv ==
    ASSUME Inv, [Next]_vars
    PROVE  Inv'
  <1>1. ASSUME NEW p \in Calls, Step(p)
        PROVE  Inv'
    <2>1. CASE AttachStatic(p)
      <3>1. p \in Begun /\ Move(p, "attached") /\ file' = file
        BY <2>1 DEF AttachStatic, Begun
      <3> QED
        BY <3>1, MoveOnly
    <2>2. CASE Attach(p)
      BY <2>2, AttachStep
    <2>3. CASE Evaluate(p)
      BY <2>3, EvaluateStep
    <2>4. CASE SaveBegins(p)
      BY <2>4, SaveBeginsStep
    <2>5. CASE SaveEnds(p)
      BY <2>5, SaveEndsStep
    <2>6. CASE ExecutionDone(p)
      <3>1. p \in Begun /\ Move(p, "replied") /\ file' = file
        BY <2>6 DEF ExecutionDone, Saved, Begun
      <3> QED
        BY <3>1, MoveOnly
    <2>7. CASE ReplyFails(p)
      <3>1. p \in Begun /\ Move(p, "unsent") /\ file' = file
        BY <2>7 DEF ReplyFails, Saved, Begun
      <3> QED
        BY <3>1, MoveOnly
    <2> QED
      BY <1>1, <2>1, <2>2, <2>3, <2>4, <2>5, <2>6, <2>7 DEF Step
  <1>2. CASE UNCHANGED vars
    <2>1. file' = file /\ fork' = fork
      BY <1>2 DEF vars
    <2> QED
      BY <2>1 DEF Inv, TypeOK, SessionsSeparate, WritersBelong, SaversHaveSession, CallsOn, Begun
  <1> QED
    BY <1>1, <1>2, VrpcCallStep DEF Next

----------------------------------------------------------------------------
(* Every variable keeps its type, for all constants.                       *)
THEOREM TypeCorrect == Spec => []TypeOK
  <1>1. Inv => TypeOK
    BY DEF Inv
  <1> QED
    BY <1>1, InitInv, NextInv, PTL DEF Spec

(* What a call finds in its session, returns, or leaves in the session's   *)
(* file was put there by calls on that session, however many calls of      *)
(* however many sessions overlap: json_call's working directories keep     *)
(* them apart without any lock.                                            *)
THEOREM SessionsAreSeparate == Spec => []SessionsSeparate
  <1>1. Inv => SessionsSeparate
    BY DEF Inv
  <1> QED
    BY <1>1, InitInv, NextInv, PTL DEF Spec
=============================================================================
