----------------------------- MODULE AtomicNames -----------------------------
(***************************************************************************)
(* The name of an NSThread: a string that threads replace by a single      *)
(* compare and swap and read without a lock (-mulleSetNameUTF8String:,     *)
(* -mulleNameUTF8String).  A replaced string is retired, and freed when    *)
(* every thread has checked in.  A thread that pops a pool or asks a       *)
(* thread whether it is cancelled checks in, and no longer uses a name it  *)
(* has read.                                                               *)
(***************************************************************************)
EXTENDS FiniteSets

CONSTANTS
  Thread,
  String,    \* addresses of strings
  NULL

VARIABLES
  name,      \* _nameUTF8String
  allocated, \* the strings that are in memory
  retired,   \* retired[s]: threads that have to check in before s is freed
  using,     \* the name that each thread has read
  setter     \* the call of -mulleSetNameUTF8String: each thread is in

vars == <<name, allocated, retired, using, setter>>

Idle == [at |-> "idle"]

Init ==
  /\ name = NULL
  /\ allocated = {}
  /\ retired = [s \in {} |-> {}]
  /\ using = [t \in Thread |-> NULL]
  /\ setter = [t \in Thread |-> Idle]

mulleNameUTF8String(t) ==
  /\ setter[t] = Idle
  /\ using' = [using EXCEPT ![t] = name]
  /\ UNCHANGED <<name, allocated, retired, setter>>

\* The old name is read before the new one is duplicated.
ReadOldName(t) ==
  /\ setter[t] = Idle
  /\ \E new \in {NULL} \cup (String \ allocated) :
       /\ setter' = [setter EXCEPT ![t] = [at |-> "cas", old |-> name, new |-> new]]
       /\ allocated' = allocated \cup ({new} \ {NULL})
  /\ UNCHANGED <<name, retired, using>>

Abafree(s) ==
  retired' = [x \in DOMAIN retired \cup ({s} \ {NULL}) |->
                IF x = s THEN Thread ELSE retired[x]]

FreesOldName(t) ==
  /\ setter[t].at = "cas"
  /\ LET s == setter[t] IN
     IF name = s.old
     THEN /\ name' = s.new
          /\ allocated' = allocated \ {s.old}
     ELSE /\ allocated' = allocated \ {s.new}
          /\ UNCHANGED name
  /\ setter' = [setter EXCEPT ![t] = Idle]
  /\ UNCHANGED <<using, retired>>

\* The winner retires the old name, a loser drops its own new one.
mulleSetNameUTF8String(t) ==
  /\ setter[t].at = "cas"
  /\ LET s == setter[t] IN
     IF name = s.old
     THEN name' = s.new /\ Abafree(s.old) /\ UNCHANGED allocated
     ELSE allocated' = allocated \ {s.new} /\ UNCHANGED <<name, retired>>
  /\ setter' = [setter EXCEPT ![t] = Idle]
  /\ UNCHANGED using

\* mulle_aba_checkin() by -isCancelled or at the end of a pool.
CheckIn(t) ==
  /\ setter[t] = Idle
  /\ LET waiting == [s \in DOMAIN retired |-> retired[s] \ {t}]
         freed   == {s \in DOMAIN retired : waiting[s] = {}}
     IN /\ retired' = [s \in DOMAIN retired \ freed |-> waiting[s]]
        /\ allocated' = allocated \ freed
  /\ using' = [using EXCEPT ![t] = NULL]
  /\ UNCHANGED <<name, setter>>

Next ==
  \E t \in Thread :
    \/ mulleNameUTF8String(t)
    \/ ReadOldName(t)
    \/ mulleSetNameUTF8String(t)
    \/ CheckIn(t)

Spec == Init /\ [][Next]_vars

-----------------------------------------------------------------------------
New(t) == IF setter[t] = Idle THEN NULL ELSE setter[t].new

(* A name that a thread has read is not freed while it uses it, although   *)
(* other threads replace it; and every string has one owner (the thread    *)
(* object, a setter in progress, the list of retired strings), so that no  *)
(* lost race frees a string twice or leaves one behind.                    *)
NamesAreSafe ==
  /\ \A t \in Thread : using[t] # NULL => using[t] \in allocated
  /\ allocated = ({name} \cup DOMAIN retired \cup {New(t) : t \in Thread}) \ {NULL}
  /\ name \notin DOMAIN retired
  /\ \A t, u \in Thread :
       New(t) # NULL => /\ New(t) # name /\ New(t) \notin DOMAIN retired
                        /\ t # u => New(t) # New(u)
=============================================================================
