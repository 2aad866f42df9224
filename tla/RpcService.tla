----------------------------- MODULE RpcService -----------------------------
(* What clients are promised of the whole agent.  A request is heard if    *)
(* what it addresses, a session or a static function, is open when it is   *)
(* asked.  What is heard takes effect once, whole, at a moment between the *)
(* question and the answer, or is refused without effect: a creation or a  *)
(* deletion opens or closes a session, a call transforms the state of the  *)
(* session it addresses.  The state of a session outlives its deletion.    *)
(* The answer to a request is its own result.                              *)
CONSTANTS
    Asks,               \* identities of requests
    Instances, Static,  \* sessions, and the address of calls without one
    StaticFunctions,    \* what can be open besides sessions
    Questions,          \* what can be asked: [target, inst, does], where
                        \* does is "create", "delete" or a function
    Fresh,              \* the state of a session nobody has called yet
    Nothing,            \* no question, result or answer yet
    Done, Refused,
    Accepts(_, _), Effect(_, _, _), Output(_, _, _)   \* see SessionService

VARIABLES
    open,      \* the sessions and static functions that can be called
    state,     \* the state of each session
    question,  \* what was asked, and whether it was heard
    result,    \* what came of it
    answer     \* what the client was told

vars == <<open, state, question, result, answer>>

Init ==
    /\ open = {}
    /\ state = [x \in Instances |-> Fresh]
    /\ question = [i \in Asks |-> Nothing]
    /\ result = [i \in Asks |-> Nothing]
    /\ answer = [i \in Asks |-> Nothing]

Appears(f) == open' = open \cup {f} /\ UNCHANGED <<state, question, result, answer>>

Ask(i, q) ==
    /\ question[i] = Nothing
    /\ question' = [question EXCEPT ![i] = [asked |-> q, heard |-> q.target \in open]]
    /\ UNCHANGED <<open, state, result, answer>>

Pending(i) == question[i] # Nothing /\ question[i].heard /\ result[i] = Nothing
Gives(i, r) == result' = [result EXCEPT ![i] = r]

Create(i, x) == open' = open \cup {x} /\ Gives(i, Done) /\ UNCHANGED state
Delete(i, x) == open' = open \ {x} /\ Gives(i, Done) /\ UNCHANGED state

CallStatic(i, fn) ==
    Accepts(Fresh, fn) /\ Gives(i, Output(Fresh, fn, i)) /\ UNCHANGED <<open, state>>
CallSession(i, x, fn) ==
    /\ Accepts(state[x], fn)
    /\ Gives(i, Output(state[x], fn, i))
    /\ state' = [state EXCEPT ![x] = Effect(@, fn, i)]
    /\ UNCHANGED open

Perform(i) ==
    /\ Pending(i)
    /\ LET q == question[i].asked IN
        \/ q.does = "create" /\ Create(i, q.inst)
        \/ q.does = "delete" /\ Delete(i, q.inst)
        \/ /\ q.does \notin {"create", "delete"}
           /\ \/ q.inst = Static /\ CallStatic(i, q.does)
              \/ q.inst # Static /\ CallSession(i, q.inst, q.does)
    /\ UNCHANGED <<question, answer>>

Refuse(i) ==
    /\ Pending(i) /\ question[i].asked.does \notin {"create", "delete"}
    /\ Gives(i, Refused)
    /\ UNCHANGED <<open, state, question, answer>>

Answer(i) ==
    /\ result[i] # Nothing /\ answer[i] = Nothing
    /\ answer' = [answer EXCEPT ![i] = result[i]]
    /\ UNCHANGED <<open, state, question, result>>

Next ==
    \/ \E f \in StaticFunctions : Appears(f)
    \/ \E i \in Asks :
        \/ \E q \in Questions : Ask(i, q)
        \/ Perform(i) \/ Refuse(i) \/ Answer(i)

Spec == Init /\ [][Next]_vars
=============================================================================
