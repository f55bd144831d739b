----------------------------- MODULE GuardedLock -----------------------------
(***************************************************************************)
(* What an NSConditionLock promises its clients: a lock that carries a     *)
(* value, is granted to one thread at a time, and to a thread that asked   *)
(* for a value only while the lock has it.                                 *)
(***************************************************************************)
CONSTANTS
  Thread,    (* the threads that share the lock                            *)
  Value,     (* the values of the condition                                *)
  NoThread   (* nobody holds the lock                                      *)

VARIABLES
  asked,     (* asked[t]: the values with which t wants the lock           *)
  holder,    (* the thread between a successful lock and its unlock        *)
  condition  (* -[NSConditionLock condition]                               *)

gvars == <<asked, holder, condition>>

Init ==
  /\ asked = [t \in Thread |-> Value]
  /\ holder = NoThread
  /\ condition \in Value

(* A thread without the lock calls for it.                                 *)
Ask(t, S) ==
  /\ holder # t
  /\ asked' = [asked EXCEPT ![t] = S]
  /\ UNCHANGED <<holder, condition>>

(* Its call returns with the lock.                                         *)
Grant(t) ==
  /\ holder = NoThread /\ condition \in asked[t]
  /\ holder' = t
  /\ UNCHANGED <<asked, condition>>

(* Only the holder changes the value.                                      *)
Change(t, v) ==
  /\ holder = t
  /\ condition' = v
  /\ UNCHANGED <<asked, holder>>

(* The holder unlocks, or gives up the lock in -wait, which takes it again *)
(* with any value.                                                         *)
Release(t) ==
  /\ holder = t
  /\ holder' = NoThread
  /\ asked' \in {asked, [asked EXCEPT ![t] = Value]}
  /\ UNCHANGED condition

Next ==
  \E t \in Thread :
    \/ \E S \in SUBSET Value : Ask(t, S)
    \/ Grant(t)
    \/ \E v \in Value : Change(t, v)
    \/ Release(t)

Spec == Init /\ [][Next]_gvars

==============================================================================
