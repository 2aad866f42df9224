--------------------------- MODULE SessionService ---------------------------
(* What a client is promised of Session instances: each instance has a     *)
(* state of its own, calls of an instance take effect on it one at a time, *)
(* whole, and a call's result is computed from the state it takes effect   *)
(* on.  A static call starts from a fresh state and leaves none behind.    *)
CONSTANTS
    Calls,              \* identities of calls
    Instances, Static,  \* session instances, and what stands for none
    Ops,                \* what a call can be asked to do
    Fresh,              \* the state of a session nobody has called yet
    NoRequest, NoResult,
    Accepts(_, _),      \* Accepts(state, op): op finds the objects it refers to
    Effect(_, _, _),    \* Effect(state, op, call): the state op leaves
    Output(_, _, _)     \* Output(state, op, call): what op returns

VARIABLES
    state,    \* the state of each instance
    request,  \* the instance and the operation each call asked for
    result    \* what each call returned

vars == <<state, request, result>>

Init ==
    /\ state = [x \in Instances |-> Fresh]
    /\ request = [p \in Calls |-> NoRequest]
    /\ result = [p \in Calls |-> NoResult]

Request(p, x, op) ==
    /\ request[p] = NoRequest
    /\ request' = [request EXCEPT ![p] = [inst |-> x, op |-> op]]
    /\ UNCHANGED <<state, result>>

Returns(p, from) ==
    /\ Accepts(from, request[p].op)
    /\ result' = [result EXCEPT ![p] = Output(from, request[p].op, p)]

(* Once, at some moment between the request and the result. *)
Perform(p) ==
    /\ request[p] # NoRequest /\ result[p] = NoResult
    /\ LET x == request[p].inst IN
        \/ x = Static /\ Returns(p, Fresh) /\ state' = state
        \/ /\ x # Static /\ Returns(p, state[x])
           /\ state' = [state EXCEPT ![x] = Effect(@, request[p].op, p)]
    /\ UNCHANGED request

Next == \E p \in Calls :
            Perform(p) \/ \E x \in Instances \cup {Static}, op \in Ops : Request(p, x, op)

Spec == Init /\ [][Next]_vars
=============================================================================
