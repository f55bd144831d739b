--------------------------- MODULE AtomicRegister ----------------------------
(***************************************************************************)
(* What the atomic instance variables promise: every call changes the      *)
(* variable at one instant between its start and its return, and what it   *)
(* returns belongs to that instant.                                        *)
(***************************************************************************)
CONSTANTS
  Thread,
  Value,
  Request,          \* what a call can ask for
  Effects(_, _),    \* Effects(r, v): the values a request may leave in place of v
  Result(_, _, _)   \* Result(r, v, w): what it returns when it turns v into w

VARIABLES
  value,   \* the variable
  call     \* the call each thread is in

vars == <<value, call>>

Idle            == [at |-> "idle"]
Pending(r)      == [at |-> "pending", request |-> r]
Answered(r, x)  == [at |-> "answered", request |-> r, result |-> x]

Invoke(t) ==
  /\ call[t] = Idle
  /\ \E r \in Request : call' = [call EXCEPT ![t] = Pending(r)]
  /\ UNCHANGED value

TakeEffect(t) ==
  \E r \in Request :
    /\ call[t] = Pending(r)
    /\ value' \in Effects(r, value)
    /\ call' = [call EXCEPT ![t] = Answered(r, Result(r, value, value'))]

Return(t) ==
  /\ call[t].at = "answered"
  /\ call' = [call EXCEPT ![t] = Idle]
  /\ UNCHANGED value

Init == value \in Value /\ call = [t \in Thread |-> Idle]

Next == \E t \in Thread : Invoke(t) \/ TakeEffect(t) \/ Return(t)

Spec == Init /\ [][Next]_vars
=============================================================================
