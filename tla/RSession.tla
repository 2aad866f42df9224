------------------------------ MODULE RSession ------------------------------
(***************************************************************************)
(* The R side of a call, src/vrpc/R/Adapter.R: vrpc_call forks, and the    *)
(* fork runs json_call, which loads the session's .RData from the session  *)
(* directory, evaluates, saves .RData again and then sends its reply.      *)
(* Forks of one session share nothing but that file.  load and save read   *)
(* and write it in place: between the truncation and the close of a save   *)
(* the file cannot be loaded.                                              *)
(*                                                                         *)
(* An environment maps slots, the global variables and the ".<function>"   *)
(* results kept for "$" references, to the call that last assigned them.   *)
(***************************************************************************)
EXTENDS Integers, FiniteSets

CONSTANTS
    MaxCalls,    \* bound: how many calls are made
    Instances,   \* session instances
    Slots,       \* variables a session may hold
    Ops,         \* what calls do, see OpType
    Sequential   \* TRUE when clients await each reply before calling again

Static == "__static__"
NoSlot == "no slot"
Unset  == 0
Calls  == 1..MaxCalls

(* A call assigns its value to slot "fn" unless it fails, passes on the    *)
(* object in slot "ref" ("$<ref>"), reads one slot and sets another.       *)
(* The reply of a frail call may fail to be made: a plot stands in for a   *)
(* value that is NULL or has no JSON form, and cannot be drawn, or its     *)
(* text is not UTF-8.                                                      *)
OpType == [fn : Slots, ref : Slots \cup {NoSlot}, reads : Slots,
           writes : Slots \cup {NoSlot}, fails : BOOLEAN, frail : BOOLEAN]

ASSUME ConstantsAssumption ==
    /\ MaxCalls \in Nat
    /\ Ops \subseteq OpType /\ Ops # {}
    /\ Sequential \in BOOLEAN
    /\ Static \notin Instances
    /\ NoSlot \notin Slots

VARIABLES
    file,   \* .RData in each session directory
    fork    \* the call's detached fork

vars == <<file, fork>>

Envs  == [Slots -> Calls \cup {Unset}]
Fresh == [s \in Slots |-> Unset]

NoOutput == [ok |-> FALSE, saw |-> Unset, by |-> Unset]
Outputs  == [ok : BOOLEAN, saw : Calls \cup {Unset}, by : Calls \cup {Unset}]

(* pc: "idle", then "forked", "attached", "evaluated", "saving", "saved",  *)
(* "replied"; or "unreadable", "unresolved" or "unsent" when load, get or  *)
(* making the reply stops the fork.  "before" records the calls that had   *)
(* ended when this one forked.                                             *)
Idle == [pc |-> "idle", inst |-> Static, op |-> CHOOSE op \in Ops : TRUE,
         loaded |-> Fresh, env |-> Fresh, out |-> NoOutput, before |-> {}]

Init ==
    /\ file = [x \in Instances |->
                 [st |-> "none", env |-> Fresh, writers |-> {}, mixed |-> {}]]
    /\ fork = [p \in Calls |-> Idle]

Move(p, pc) == fork' = [fork EXCEPT ![p].pc = pc]

Ended == {p \in Calls : fork[p].pc \in {"replied", "unsent", "unreadable", "unresolved"}}
Begun == {p \in Calls : fork[p].pc # "idle"}

----------------------------------------------------------------------------
(* vrpc_call, in the parent.  The calls are made in the order 1, 2, ...    *)
VrpcCall(p, x, op) ==
    /\ fork[p].pc = "idle"
    /\ 1..(p - 1) \subseteq Begun
    /\ Sequential /\ x # Static => \A q \in Begun : fork[q].inst = x => q \in Ended
    /\ fork' = [fork EXCEPT ![p] = [Idle EXCEPT !.pc = "forked", !.inst = x,
                                                !.op = op, !.before = Ended]]
    /\ UNCHANGED file

(* Slip: one directory for all instances. *)
OneDir(x) == CHOOSE y \in Instances : TRUE

(* create_session_dir: the directory is named after the instance; it is    *)
(* kept when the instance is deleted.                                      *)
SessionDir(x) == x

(* attach_session: a new environment, or globalenv() with .RData loaded    *)
(* into it if there is one.  While several forks save, what one of them    *)
(* wrote and closed may be read before the others write over it.           *)
AttachStatic(p) ==
    /\ fork[p].pc = "forked" /\ fork[p].inst = Static
    /\ Move(p, "attached")
    /\ UNCHANGED file

Loaded(p, env) ==
    fork' = [fork EXCEPT ![p].pc = "attached", ![p].loaded = env, ![p].env = env]

Attach(p) ==
    /\ fork[p].pc = "forked" /\ fork[p].inst # Static
    /\ LET f == file[SessionDir(fork[p].inst)] IN
        \/ f.st = "none" /\ Move(p, "attached")
        \/ f.st = "ok" /\ Loaded(p, f.env)
        \/ f.st = "torn" /\ \E q \in f.mixed \ f.writers : Loaded(p, fork[q].env)
        \/ f.st \in {"torn", "corrupt"} /\ Move(p, "unreadable")
    /\ UNCHANGED file

(* The arguments and the evaluation.  get() of a "$" reference that does   *)
(* not exist stops json_call, outside evaluate.                            *)
Resolves(env, op) == op.ref = NoSlot \/ env[op.ref] # Unset

(* Slip: a name that is no session variable is assigned, too. *)
EvaluatedAnyName(env, op, p) ==
    [s \in Slots \cup {op.writes} |->
        IF s = op.writes \/ (s = op.fn /\ ~op.fails) THEN p ELSE env[s]]

(* What was assigned before an error stays assigned. *)
Evaluated(env, op, p) ==
    [s \in Slots |-> IF s = op.writes \/ (s = op.fn /\ ~op.fails) THEN p ELSE env[s]]

Returned(env, op, p) == [ok |-> ~op.fails, saw |-> env[op.reads], by |-> p]

Evaluate(p) ==
    /\ fork[p].pc = "attached"
    /\ LET me == fork[p] IN
        IF Resolves(me.env, me.op)
        THEN fork' = [fork EXCEPT
                        ![p].pc = IF me.inst = Static THEN "saved" ELSE "evaluated",
                        ![p].env = Evaluated(me.env, me.op, p),
                        ![p].out = Returned(me.env, me.op, p)]
        ELSE Move(p, "unresolved")
    /\ UNCHANGED file

(* save_session: save() opens, and so truncates, .RData ... *)
SaveBegins(p) ==
    /\ fork[p].pc = "evaluated"
    /\ Move(p, "saving")
    /\ LET x       == SessionDir(fork[p].inst)
           writing == file[x].writers \cup {p}
       IN  file' = [file EXCEPT ![x] =
                    [@ EXCEPT !.st = "torn", !.writers = writing, !.mixed = writing]]

(* ... and closes it.  Saves that overlap write the same file: what is     *)
(* left is one of the environments written, or no readable file.           *)
SaveEnds(p) ==
    /\ fork[p].pc = "saving"
    /\ Move(p, "saved")
    /\ LET x    == SessionDir(fork[p].inst)
           f    == file[x]
           left == f.writers \ {p}
           Closed(st, env) == [st |-> st, env |-> env, writers |-> {}, mixed |-> {}]
       IN  \/ /\ left # {}
              /\ file' = [file EXCEPT ![x].writers = left]
           \/ /\ left = {}
              /\ \E q \in f.mixed : file' = [file EXCEPT ![x] = Closed("ok", fork[q].env)]
           \/ /\ left = {} /\ f.mixed # {p}
              /\ file' = [file EXCEPT ![x] = Closed("corrupt", f.env)]

(* Slips: the reply is sent instead of saving the session, or during it. *)
EvaluatedOrSaved(p) == fork[p].pc \in {"evaluated", "saved"}
SavingOrSaved(p)    == fork[p].pc \in {"saving", "saved"}
(* Slip: only calls that evaluated without an error reply. *)
SavedWithoutError(p) == fork[p].pc = "saved" /\ fork[p].out.ok

Saved(p) == fork[p].pc = "saved"

(* on_execution_done: the reply, with the value or the error. *)
ExecutionDone(p) ==
    /\ Saved(p)
    /\ Move(p, "replied")
    /\ UNCHANGED file

(* extract_graphics and prepare_output run outside evaluate, after the     *)
(* save, and only for a value that needs the plot: svglite, base64encode   *)
(* or try_print_plot may stop json_call; so may j.dump() of what is no     *)
(* UTF-8.  The session is saved, the client is told nothing.               *)
ReplyFails(p) ==
    /\ Saved(p) /\ fork[p].op.frail
    /\ Move(p, "unsent")
    /\ UNCHANGED file

Step(p) == \/ AttachStatic(p) \/ Attach(p) \/ Evaluate(p)
           \/ SaveBegins(p) \/ SaveEnds(p) \/ ExecutionDone(p) \/ ReplyFails(p)

Next == \E p \in Calls :
            \/ \E x \in Instances \cup {Static}, op \in Ops : VrpcCall(p, x, op)
            \/ Step(p)

Spec == Init /\ [][Next]_vars

(* A fork that was started runs on: the functions called return. *)
FairSpec == Spec /\ \A p \in Calls : WF_vars(Step(p))

----------------------------------------------------------------------------
Forks == [pc : {"idle", "forked", "attached", "evaluated", "saving", "saved",
                "replied", "unsent", "unreadable", "unresolved"},
          inst : Instances \cup {Static}, op : Ops, loaded : Envs, env : Envs,
          out : Outputs, before : SUBSET Calls]
Files == [st : {"none", "torn", "ok", "corrupt"}, env : Envs,
          writers : SUBSET Calls, mixed : SUBSET Calls]

TypeOK ==
    /\ file \in [Instances -> Files]
    /\ fork \in [Calls -> Forks]

CallsOn(x) == {p \in Begun : fork[p].inst = x}

(* Instances are cleanly separated, whatever overlaps: all that a call     *)
(* finds in its session, returns or leaves in the session's file was put   *)
(* there by calls on that session, and by itself alone if it is static.    *)
SessionsSeparate ==
    /\ \A x \in Instances : \A s \in Slots : file[x].env[s] \in CallsOn(x) \cup {Unset}
    /\ \A p \in Begun : \A s \in Slots :
          {fork[p].env[s], fork[p].out.saw} \subseteq
              {Unset, p} \cup (IF fork[p].inst = Static THEN {} ELSE CallsOn(fork[p].inst))

(* p and q ran on the same session and neither had ended when the other    *)
(* began.                                                                  *)
Overlap(p, q) ==
    /\ p # q /\ {p, q} \subseteq Begun
    /\ fork[p].inst = fork[q].inst /\ fork[p].inst # Static
    /\ p \notin fork[q].before /\ q \notin fork[p].before

(* What a call set is there for the calls made after its reply, or after   *)
(* its reply failed to be made, unless some call overlapped it: its state  *)
(* is saved first, and only a fork that loaded the older file can put the  *)
(* older state back.                                                       *)
LostOnlyToOverlap ==
    \A p, q \in Begun :
        (/\ fork[p].pc \in {"replied", "unsent"} /\ p \in fork[q].before
         /\ fork[p].inst = fork[q].inst /\ fork[p].inst # Static
         /\ fork[q].pc \notin {"forked", "unreadable"}
         /\ fork[p].op.writes # NoSlot
         /\ fork[q].loaded[fork[p].op.writes] \in fork[p].before \cup {Unset})
        => \E r \in Begun : Overlap(p, r)

(* A call dies on an unreadable .RData only if calls overlapped.           *)
UnreadableOnlyByOverlap ==
    \A q \in Begun : fork[q].pc = "unreadable"
        => \E p, r \in CallsOn(fork[q].inst) : Overlap(p, r)

(* With clients that wait for their replies, the session directory, the    *)
(* loads and the saves implement sessions that take calls one at a time,   *)
(* once each, as they were asked.                                          *)
(* A call takes effect when its save is closed.                            *)
SavedState(x) ==
    IF file[x].st \in {"none", "ok"} THEN file[x].env
    ELSE fork[CHOOSE p \in file[x].writers : TRUE].loaded

Service == INSTANCE SessionService WITH
    NoRequest <- NoOutput, NoResult <- NoOutput,
    Accepts <- Resolves, Effect <- Evaluated, Output <- Returned,
    state  <- [x \in Instances |-> SavedState(x)],
    request <- [p \in Calls |-> IF fork[p].pc = "idle" THEN NoOutput
                                ELSE [inst |-> fork[p].inst, op |-> fork[p].op]],
    result <- [p \in Calls |-> IF fork[p].pc \in {"saved", "replied", "unsent"} THEN fork[p].out
                               ELSE NoOutput]

ImplementsService == Service!Spec

(* With such clients every call is answered whose references exist and     *)
(* whose reply is not frail, though earlier ones of its session were not.  *)
CallsAreAnswered ==
    \A p \in Calls :
        (/\ ~fork[p].op.frail
         /\ \/ fork[p].pc = "forked" /\ fork[p].op.ref = NoSlot
            \/ fork[p].pc = "attached" /\ Resolves(fork[p].env, fork[p].op))
        ~> fork[p].pc = "replied"

----------------------------------------------------------------------------
(* What the documentation promises and the code does not do. *)

(* examples/02-stateful/README.md:71, "Within a `Session` instance all     *)
(* state is maintained", with the client of its index.js, which does not   *)
(* wait between setting a variable and using it: a call finds what an      *)
(* earlier call set, or what was set since.                                *)
StateMaintained ==
    \A p, q \in Begun :
        (/\ p < q /\ fork[p].inst = fork[q].inst /\ fork[p].inst # Static
         /\ fork[q].pc \notin {"forked", "unreadable"}
         /\ fork[p].op.writes # NoSlot)
        => fork[q].loaded[fork[p].op.writes] >= p
=============================================================================
