------------------------- MODULE SharedVariablesProofs -------------------------
(***************************************************************************)
(* Proofs about what threads share without a lock, as MCSharedVariables    *)
(* names it, for any number of threads, strings and objects.               *)
(***************************************************************************)
EXTENDS MCSharedVariables, SumLemmas

-----------------------------------------------------------------------------
(* Atomic integers (AtomicIntegers).                                       *)

IntegerFrame ==
  [at : {"idle"}]
  \cup [at : {"read"}, request : Request]
  \cup [at : {"cas"}, request : Request, old : Word]
  \cup [at : {"return"}, request : Request, result : Word]

IntegerTyped == word \in Word /\ frame \in [Thread -> IntegerFrame]

(* What an update computes is a word again.                                *)
LEMMA NewValueType ==
  ASSUME NEW r \in Request, NEW old \in Word
  PROVE  NewValue(r, old) \in Word
  BY DEF NewValue, Request, Word, NSUIntegerAtomicGet, NSUIntegerAtomicUpdate,
     NSIntegerAtomicUpdate, NSUIntegerAtomicMaskedOr, NSUIntegerAtomicOr

(* The variable stays a word and each thread in a well-formed call of one  *)
(* of the inline functions.                                                *)
THEOREM IntegersTyped == Spec => []IntegerTyped
<1>1. Init => IntegerTyped
  BY DEF Init, IntegerTyped, IntegerFrame, Idle
<1>2. IntegerTyped /\ [Next]_vars => IntegerTyped'
  <2> SUFFICES ASSUME IntegerTyped, [Next]_vars PROVE IntegerTyped'
    OBVIOUS
  <2>1. CASE UNCHANGED vars
    BY <2>1 DEF IntegerTyped, vars
  <2>2. ASSUME NEW t \in Thread, NEW r \in Request, Call(t, r) PROVE IntegerTyped'
    BY <2>2 DEF IntegerTyped, IntegerFrame, Call, Reading
  <2>3. ASSUME NEW t \in Thread, NEW r \in Request, ReadPointer(t, r) PROVE IntegerTyped'
    BY <2>3 DEF IntegerTyped, IntegerFrame, ReadPointer, Returning, Swapping
  <2>4. ASSUME NEW t \in Thread, NEW r \in Request, NEW old \in Word,
               CompareAndSwap(t, r, old)
        PROVE  IntegerTyped'
    BY <2>4, NewValueType DEF IntegerTyped, IntegerFrame, CompareAndSwap, Returning, Reading
  <2>5. ASSUME NEW t \in Thread, Return(t) PROVE IntegerTyped'
    BY <2>5 DEF IntegerTyped, IntegerFrame, Return, Idle
  <2> QED
    BY <2>1, <2>2, <2>3, <2>4, <2>5 DEF Next
<1> QED
  BY <1>1, <1>2, PTL DEF Spec

AbstractIntegers == [t \in Thread |-> AbstractCall(frame[t])]

(* Whatever the interleaving of NSUIntegerAtomicUpdate(), -Or(),           *)
(* -MaskedOr() and -Get(), each takes effect at one instant: no update is  *)
(* lost, and what is returned is what the update replaced.                 *)
THEOREM IntegersRefineRegister == Spec => IntegersAreAtomic
<1>1. Init => Register!Init
  BY DEF Init, Register!Init, Register!Idle, Idle, AbstractCall
<1>2. IntegerTyped /\ [Next]_vars => [Register!Next]_(Register!vars)
  <2> SUFFICES ASSUME IntegerTyped, [Next]_vars PROVE [Register!Next]_(Register!vars)
    OBVIOUS
  <2>1. CASE UNCHANGED vars
    BY <2>1 DEF vars, Register!vars
  <2>2. ASSUME NEW t \in Thread, NEW r \in Request, Call(t, r)
        PROVE  Register!Invoke(t)
    <3>1. AbstractIntegers' = [AbstractIntegers EXCEPT ![t] = Register!Pending(r)]
      BY <2>2 DEF Call, Reading, AbstractIntegers, AbstractCall, Register!Pending, IntegerTyped
    <3>2. AbstractIntegers[t] = Register!Idle
      BY <2>2 DEF Call, Idle, AbstractIntegers, AbstractCall, Register!Idle
    <3> QED
      BY <2>2, <3>1, <3>2 DEF Register!Invoke, Call, AbstractIntegers
  <2>3. ASSUME NEW t \in Thread, NEW r \in Request, ReadPointer(t, r)
        PROVE  Register!TakeEffect(t) \/ UNCHANGED Register!vars
    <3>1. AbstractIntegers[t] = Register!Pending(r)
      BY <2>3 DEF ReadPointer, Reading, AbstractIntegers, AbstractCall, Register!Pending
    <3>2. CASE NewValue(r, word) = word
      <4>1. AbstractIntegers' = [AbstractIntegers EXCEPT ![t] = Register!Answered(r, word)]
        BY <2>3, <3>2 DEF ReadPointer, Returning, AbstractIntegers, AbstractCall,
           Register!Answered, IntegerTyped
      <4> QED
        BY <2>3, <3>1, <3>2, <4>1
        DEF Register!TakeEffect, ReadPointer, AbstractIntegers, Effects, Result
    <3>3. CASE NewValue(r, word) # word
      <4>1. frame' = [frame EXCEPT ![t] = Swapping(r, word)] /\ word' = word
        BY <2>3, <3>3 DEF ReadPointer
      <4>2. AbstractCall(frame'[t]) = AbstractCall(frame[t])
        BY <2>3, <4>1 DEF ReadPointer, AbstractCall, Swapping, Reading, IntegerTyped
      <4>3. AbstractIntegers' = AbstractIntegers
        BY <4>1, <4>2 DEF AbstractIntegers, IntegerTyped
      <4> QED
        BY <4>1, <4>3 DEF Register!vars, AbstractIntegers
    <3> QED
      BY <3>2, <3>3
  <2>4. ASSUME NEW t \in Thread, NEW r \in Request, NEW old \in Word,
               CompareAndSwap(t, r, old)
        PROVE  Register!TakeEffect(t) \/ UNCHANGED Register!vars
    <3>1. AbstractIntegers[t] = Register!Pending(r)
      BY <2>4 DEF CompareAndSwap, Swapping, AbstractIntegers, AbstractCall, Register!Pending
    <3>2. CASE word = old
      <4>0. frame' = [frame EXCEPT ![t] = Returning(r, word)]
        BY <2>4, <3>2 DEF CompareAndSwap
      <4>1. AbstractIntegers' = [AbstractIntegers EXCEPT ![t] = Register!Answered(r, word)]
        BY <4>0 DEF Returning, AbstractIntegers, AbstractCall, Register!Answered, IntegerTyped
      <4> QED
        BY <2>4, <3>1, <3>2, <4>1
        DEF Register!TakeEffect, CompareAndSwap, AbstractIntegers, Effects, Result
    <3>3. CASE word # old
      <4>1. frame' = [frame EXCEPT ![t] = Reading(r)] /\ word' = word
        BY <2>4, <3>3 DEF CompareAndSwap
      <4>2. AbstractCall(frame'[t]) = AbstractCall(frame[t])
        BY <2>4, <4>1 DEF CompareAndSwap, AbstractCall, Swapping, Reading, IntegerTyped
      <4>3. AbstractIntegers' = AbstractIntegers
        BY <4>1, <4>2 DEF AbstractIntegers, IntegerTyped
      <4> QED
        BY <4>1, <4>3 DEF Register!vars, AbstractIntegers
    <3> QED
      BY <3>2, <3>3
  <2>5. ASSUME NEW t \in Thread, Return(t)
        PROVE  Register!Return(t)
    <3>1. AbstractIntegers[t].at = "answered"
      BY <2>5 DEF Return, AbstractIntegers, AbstractCall
    <3>2. AbstractIntegers' = [AbstractIntegers EXCEPT ![t] = Register!Idle]
      BY <2>5 DEF Return, Idle, AbstractIntegers, AbstractCall, Register!Idle, IntegerTyped
    <3> QED
      BY <2>5, <3>1, <3>2 DEF Register!Return, Return, AbstractIntegers
  <2> QED
    BY <2>1, <2>2, <2>3, <2>4, <2>5 DEF Next, Register!Next
<1> QED
  BY <1>1, <1>2, IntegersTyped, PTL DEF Spec, IntegersAreAtomic, Register!Spec

-----------------------------------------------------------------------------
(* The name of a thread (AtomicNames).                                     *)

NameTyped ==
  /\ name \in String \cup {NULL}
  /\ allocated \subseteq String
  /\ DOMAIN retired \subseteq String
  /\ retired \in [DOMAIN retired -> SUBSET Thread]
  /\ using \in [Thread -> String \cup {NULL}]
  /\ setter \in [Thread -> {Names!Idle}
                             \cup [at : {"cas"}, old : String \cup {NULL}, new : String \cup {NULL}]]

(* Whoever uses a name that is replaced has not checked in since.          *)
UsersCheckIn ==
  \A t \in Thread :
    using[t] # NULL =>
      \/ using[t] = name
      \/ using[t] \in DOMAIN retired /\ t \in retired[using[t]]

NameInv == NameTyped /\ UsersCheckIn /\ NamesAreSafe

(* Nobody has a name.                                                      *)
LEMMA NameInvInit == Names!Init => NameInv
BY SharingAssumption
DEF Names!Init, NameInv, NameTyped, UsersCheckIn, NamesAreSafe, Names!NamesAreSafe, Names!New, Names!Idle

(* -mulleNameUTF8String reads the name that is there.                      *)
LEMMA GetNameKeepsInv ==
  ASSUME NameInv, NEW t \in Thread, Names!mulleNameUTF8String(t)
  PROVE  NameInv'
<1>1. /\ using' = [using EXCEPT ![t] = name]
      /\ UNCHANGED <<name, allocated, retired, setter>>
  BY DEF Names!mulleNameUTF8String
<1>2. NameTyped'
  BY <1>1 DEF NameInv, NameTyped
<1>3. UsersCheckIn'
  BY <1>1 DEF NameInv, NameTyped, UsersCheckIn
<1>4. \A u \in Thread : Names!New(u)' = Names!New(u)
  BY <1>1 DEF Names!New
<1>5. name # NULL => name \in allocated
  BY DEF NameInv, NamesAreSafe, Names!NamesAreSafe
<1>6. \A u \in Thread : using'[u] = IF u = t THEN name ELSE using[u]
  BY <1>1 DEF NameInv, NameTyped
<1>7. {Names!New(u) : u \in Thread}' = {Names!New(u) : u \in Thread}
  BY <1>4
<1>8. NamesAreSafe'
  BY <1>1, <1>4, <1>5, <1>6, <1>7 DEF NameInv, NamesAreSafe, Names!NamesAreSafe
<1> QED
  BY <1>2, <1>3, <1>8 DEF NameInv

(* A setter duplicates the new name.                                       *)
LEMMA ReadOldNameKeepsInv ==
  ASSUME NameInv, NEW t \in Thread, Names!ReadOldName(t)
  PROVE  NameInv'
<1>1. PICK new \in {NULL} \cup (String \ allocated) :
        /\ setter' = [setter EXCEPT ![t] = [at |-> "cas", old |-> name, new |-> new]]
        /\ allocated' = allocated \cup ({new} \ {NULL})
  BY DEF Names!ReadOldName
<1>2. setter[t] = Names!Idle /\ UNCHANGED <<name, retired, using>>
  BY DEF Names!ReadOldName
<1>3. NameTyped'
  BY <1>1, <1>2 DEF NameInv, NameTyped
<1>4. UsersCheckIn'
  BY <1>2 DEF NameInv, UsersCheckIn
<1>5. \A u \in Thread : Names!New(u)' = IF u = t THEN new ELSE Names!New(u)
  BY <1>1 DEF NameInv, NameTyped, Names!New, Names!Idle
<1>6. Names!New(t) = NULL
  BY <1>2 DEF Names!New
<1>7. {Names!New(u)' : u \in Thread} \ {NULL}
        = ({Names!New(u) : u \in Thread} \ {NULL}) \cup ({new} \ {NULL})
  BY <1>5, <1>6
<1>8. new # NULL => /\ new \notin allocated
  BY <1>1
<1>9. NamesAreSafe'
  BY <1>1, <1>2, <1>5, <1>6, <1>7, <1>8 DEF NameInv, NamesAreSafe, Names!NamesAreSafe
<1> QED
  BY <1>3, <1>4, <1>9 DEF NameInv

(* It replaces the name, and retires the old one, or drops the new one.    *)
LEMMA SetNameKeepsInv ==
  ASSUME NameInv, NEW t \in Thread, Names!mulleSetNameUTF8String(t)
  PROVE  NameInv'
<1>1. PICK s \in [at : {"cas"}, old : String \cup {NULL}, new : String \cup {NULL}] :
        setter[t] = s /\ s.new = Names!New(t)
  BY DEF NameInv, NameTyped, Names!mulleSetNameUTF8String, Names!New, Names!Idle
<1>2. setter' = [setter EXCEPT ![t] = Names!Idle] /\ UNCHANGED using
  BY DEF Names!mulleSetNameUTF8String
<1>3. s.new # NULL => /\ s.new \in String /\ s.new \in allocated
                      /\ s.new # name /\ s.new \notin DOMAIN retired
                      /\ \A u \in Thread \ {t} : Names!New(u) # s.new
  BY <1>1 DEF NameInv, NamesAreSafe, Names!NamesAreSafe
<1>4. \A u \in Thread : Names!New(u)' = IF u = t THEN NULL ELSE Names!New(u)
  BY <1>2 DEF NameInv, NameTyped, Names!New
<1>5. {Names!New(u) : u \in Thread} \ {NULL}
        = ({Names!New(u)' : u \in Thread} \ {NULL}) \cup ({s.new} \ {NULL})
  BY <1>1, <1>4
<1>6. s.new # NULL => s.new \notin {Names!New(u)' : u \in Thread}
  BY <1>3, <1>4
<1>7. CASE name = s.old
  <2>1. name' = s.new /\ UNCHANGED allocated
    BY <1>1, <1>7 DEF Names!mulleSetNameUTF8String
  <2>2. retired' = [x \in DOMAIN retired \cup ({name} \ {NULL}) |->
                      IF x = name THEN Thread ELSE retired[x]]
    BY <1>1, <1>7 DEF Names!mulleSetNameUTF8String, Names!Abafree
  <2>3. /\ DOMAIN retired' = DOMAIN retired \cup ({name} \ {NULL})
        /\ \A x \in DOMAIN retired' : retired'[x] = IF x = name THEN Thread ELSE retired[x]
    BY <2>2
  <2>4. retired' \in [DOMAIN retired' -> SUBSET Thread]
    BY <2>2 DEF NameInv, NameTyped
  <2>5. NameTyped'
    BY <1>1, <1>2, <2>1, <2>3, <2>4 DEF NameInv, NameTyped
  <2>6. UsersCheckIn'
    BY <1>2, <2>1, <2>3 DEF NameInv, UsersCheckIn
  <2>7. NamesAreSafe'
    <3>1. \A u \in Thread : using'[u] # NULL => using'[u] \in allocated'
      BY <1>2, <2>1 DEF NameInv, NamesAreSafe, Names!NamesAreSafe
    <3>2. allocated' = ({name'} \cup DOMAIN retired' \cup {Names!New(u)' : u \in Thread}) \ {NULL}
      BY <1>5, <2>1, <2>3 DEF NameInv, NamesAreSafe, Names!NamesAreSafe
    <3>3. name' \notin DOMAIN retired'
      BY <1>3, <2>1, <2>3, SharingAssumption DEF NameInv, NameTyped
    <3>4. \A u, v \in Thread :
            Names!New(u)' # NULL => /\ Names!New(u)' # name' /\ Names!New(u)' \notin DOMAIN retired'
                                    /\ u # v => Names!New(u)' # Names!New(v)'
      BY <1>3, <1>4, <2>1, <2>3 DEF NameInv, NamesAreSafe, Names!NamesAreSafe
    <3> QED
      BY <3>1, <3>2, <3>3, <3>4 DEF NamesAreSafe, Names!NamesAreSafe
  <2> QED
    BY <2>5, <2>6, <2>7 DEF NameInv
<1>8. CASE name # s.old
  <2>1. allocated' = allocated \ {s.new} /\ UNCHANGED <<name, retired>>
    BY <1>1, <1>8 DEF Names!mulleSetNameUTF8String
  <2>2. NameTyped'
    BY <1>2, <2>1 DEF NameInv, NameTyped
  <2>3. UsersCheckIn'
    BY <1>2, <2>1 DEF NameInv, UsersCheckIn
  <2>4. NamesAreSafe'
    <3>1. \A u \in Thread : using'[u] # NULL => using'[u] \in allocated'
      BY <1>2, <1>3, <2>1 DEF NameInv, NamesAreSafe, Names!NamesAreSafe, UsersCheckIn
    <3>2. allocated' = ({name'} \cup DOMAIN retired' \cup {Names!New(u)' : u \in Thread}) \ {NULL}
      BY <1>3, <1>5, <1>6, <2>1 DEF NameInv, NamesAreSafe, Names!NamesAreSafe
    <3>3. \A u, v \in Thread :
            Names!New(u)' # NULL => /\ Names!New(u)' # name' /\ Names!New(u)' \notin DOMAIN retired'
                                    /\ u # v => Names!New(u)' # Names!New(v)'
      BY <1>4, <2>1 DEF NameInv, NamesAreSafe, Names!NamesAreSafe
    <3> QED
      BY <2>1, <3>1, <3>2, <3>3 DEF NameInv, NamesAreSafe, Names!NamesAreSafe
  <2> QED
    BY <2>2, <2>3, <2>4 DEF NameInv
<1> QED
  BY <1>7, <1>8

(* A thread checks in; what all threads have checked in for is freed.      *)
LEMMA CheckInKeepsInv ==
  ASSUME NameInv, NEW t \in Thread, Names!CheckIn(t)
  PROVE  NameInv'
<1>1. PICK freed \in SUBSET DOMAIN retired :
        /\ freed = {s \in DOMAIN retired : retired[s] \ {t} = {}}
        /\ retired' = [s \in DOMAIN retired \ freed |-> retired[s] \ {t}]
        /\ allocated' = allocated \ freed
  <2> DEFINE waiting == [s \in DOMAIN retired |-> retired[s] \ {t}]
             freed   == {s \in DOMAIN retired : waiting[s] = {}}
  <2>1. freed = {s \in DOMAIN retired : retired[s] \ {t} = {}}
    OBVIOUS
  <2>2. retired' = [s \in DOMAIN retired \ freed |-> waiting[s]] /\ allocated' = allocated \ freed
    BY DEF Names!CheckIn
  <2>3. [s \in DOMAIN retired \ freed |-> waiting[s]]
          = [s \in DOMAIN retired \ freed |-> retired[s] \ {t}]
    OBVIOUS
  <2> HIDE DEF freed
  <2> QED
    BY <2>1, <2>2, <2>3
<1>2. using' = [using EXCEPT ![t] = NULL] /\ UNCHANGED <<name, setter>>
  BY DEF Names!CheckIn
<1>3. /\ DOMAIN retired' = DOMAIN retired \ freed
      /\ \A s \in DOMAIN retired' : retired'[s] = retired[s] \ {t}
  BY <1>1
<1>4. \A u \in Thread : using'[u] = IF u = t THEN NULL ELSE using[u]
  BY <1>2 DEF NameInv, NameTyped
<1>5. NameTyped'
  <2>1. retired' \in [DOMAIN retired' -> SUBSET Thread]
    BY <1>1 DEF NameInv, NameTyped
  <2> QED
    BY <1>1, <1>2, <1>3, <2>1 DEF NameInv, NameTyped
<1>6. ASSUME NEW u \in Thread, using'[u] # NULL
      PROVE  /\ \/ using'[u] = name'
                \/ using'[u] \in DOMAIN retired' /\ u \in retired'[using'[u]]
             /\ using'[u] \in allocated'
  <2>1. u # t /\ using'[u] = using[u]
    BY <1>4, <1>6
  <2>2. CASE using[u] = name
    BY <1>1, <1>2, <1>6, <2>1, <2>2 DEF NameInv, NamesAreSafe, Names!NamesAreSafe
  <2>3. CASE using[u] \in DOMAIN retired /\ u \in retired[using[u]]
    <3>1. using[u] \notin freed
      BY <1>1, <2>1, <2>3
    <3> QED
      BY <1>1, <1>3, <1>6, <2>1, <2>3, <3>1 DEF NameInv, NamesAreSafe, Names!NamesAreSafe
  <2> QED
    BY <1>6, <2>1, <2>2, <2>3 DEF NameInv, UsersCheckIn
<1>7. \A u \in Thread : Names!New(u)' = Names!New(u)
  BY <1>2 DEF Names!New
<1>8. {Names!New(u)' : u \in Thread} = {Names!New(u) : u \in Thread}
  BY <1>7
<1>9. NamesAreSafe'
  <2>1. \A u \in Thread : Names!New(u) # NULL => Names!New(u) \notin freed
    BY <1>1 DEF NameInv, NamesAreSafe, Names!NamesAreSafe
  <2>2. name \notin freed
    BY <1>1 DEF NameInv, NamesAreSafe, Names!NamesAreSafe
  <2>3. allocated' = ({name'} \cup DOMAIN retired' \cup {Names!New(u)' : u \in Thread}) \ {NULL}
    BY <1>1, <1>2, <1>3, <1>8, <2>1, <2>2 DEF NameInv, NamesAreSafe, Names!NamesAreSafe
  <2> QED
    BY <1>2, <1>3, <1>6, <1>7, <2>3 DEF NameInv, NamesAreSafe, Names!NamesAreSafe
<1> QED
  BY <1>5, <1>6, <1>9 DEF NameInv, UsersCheckIn

(* A step that changes nothing.                                            *)
LEMMA NameStutter ==
  ASSUME NameInv, UNCHANGED Names!vars
  PROVE  NameInv'
<1>1. UNCHANGED <<name, allocated, retired, using, setter>>
  BY DEF Names!vars
<1>2. \A u \in Thread : Names!New(u)' = Names!New(u)
  BY <1>1 DEF Names!New
<1> QED
  BY <1>1, <1>2 DEF NameInv, NameTyped, UsersCheckIn, NamesAreSafe, Names!NamesAreSafe

(* A name that a thread has read is not freed while it uses it, and no     *)
(* string is freed twice or left behind (-mulleSetNameUTF8String:).        *)
THEOREM NameSafety == Names!Spec => []NamesAreSafe
<1>1. NameInv /\ [Names!Next]_Names!vars => NameInv'
  <2> SUFFICES ASSUME NameInv, [Names!Next]_Names!vars PROVE NameInv'
    OBVIOUS
  <2>1. CASE UNCHANGED Names!vars
    BY <2>1, NameStutter
  <2>2. ASSUME NEW t \in Thread, Names!mulleNameUTF8String(t) PROVE NameInv'
    BY <2>2, GetNameKeepsInv
  <2>3. ASSUME NEW t \in Thread, Names!ReadOldName(t) PROVE NameInv'
    BY <2>3, ReadOldNameKeepsInv
  <2>4. ASSUME NEW t \in Thread, Names!mulleSetNameUTF8String(t) PROVE NameInv'
    BY <2>4, SetNameKeepsInv
  <2>5. ASSUME NEW t \in Thread, Names!CheckIn(t) PROVE NameInv'
    BY <2>5, CheckInKeepsInv
  <2> QED
    BY <2>1, <2>2, <2>3, <2>4, <2>5 DEF Names!Next
<1>2. NameInv => NamesAreSafe
  BY DEF NameInv
<1> QED
  BY NameInvInit, <1>1, <1>2, PTL DEF Names!Spec

-----------------------------------------------------------------------------
(* Atomic instance variables (AtomicIds).                                  *)

PlainRequest  == [op : {"get", "release", "lazy"}]
UpdateRequest == [op : Ids!Updates, value : Ids!Value]
LazyRequest   == [op |-> "lazy"]

(* What an update makes of its argument: itself, or a copy.                *)
NewFits(r, new) ==
  IF r.op = "update" \/ r.value = nil THEN new = r.value ELSE new \in Obj

UpdateFrames ==
  [at : {"update"}, request : UpdateRequest, new : Ids!Value]
  \cup [at : {"cas"}, request : UpdateRequest, old : Ids!Value, new : Ids!Value]

OtherFrames ==
  {Ids!Idle}
  \cup [at : {"read"}, request : PlainRequest]
  \cup [at : {"load"}, request : {LazyRequest}]
  \cup [at : {"load nil"}, request : {LazyRequest}, result : {nil}]
  \cup [at : {"cas"}, request : {[op |-> "release"]}, old : Obj, new : {nil}]
  \cup [at : {"cas"}, request : {LazyRequest}, old : {nil}, new : Obj]
  \cup [at : {"return"}, request : PlainRequest \cup UpdateRequest, result : Ids!Value]

FrameFits(f) ==
  /\ f \in UpdateFrames \cup OtherFrames
  /\ f \in UpdateFrames => NewFits(f.request, f.new)
  /\ f.at \in {"read", "cas"} /\ f.request.op = "release" => Ids!Keeps

IdTyped ==
  /\ ivarType \in {"assign", "retain", "copy"}
  /\ ivar \in Ids!Value
  /\ rc \in [Obj -> Int]
  /\ owned \in [Thread -> [Obj -> Nat]]
  /\ pool \in [Thread -> [Obj -> Nat]]
  /\ lost \in [Obj -> Nat]
  /\ \A t \in Thread : FrameFits(ivarFrame[t])
  /\ ivarFrame = [t \in Thread |-> ivarFrame[t]]

(* A call goes on.                                                         *)
LEMMA GotoFits ==
  ASSUME IdTyped, NEW t \in Thread, NEW f, Ids!Goto(t, f), UNCHANGED ivarType, FrameFits(f)
  PROVE  /\ \A u \in Thread : FrameFits(ivarFrame[u])'
         /\ \A u \in Thread : ivarFrame'[u] = IF u = t THEN f ELSE ivarFrame[u]
         /\ ivarFrame' = [u \in Thread |-> ivarFrame'[u]]
<1>1. ivarFrame' = [ivarFrame EXCEPT ![t] = f]
  BY DEF Ids!Goto
<1>2. \A u \in Thread : ivarFrame'[u] = IF u = t THEN f ELSE ivarFrame[u]
  BY <1>1 DEF IdTyped
<1>3. ivarFrame' = [u \in Thread |-> ivarFrame'[u]]
  BY <1>1 DEF IdTyped
<1>4. Ids!Keeps' = Ids!Keeps
  BY DEF Ids!Keeps
<1>5. ASSUME NEW u \in Thread PROVE FrameFits(ivarFrame[u])'
  BY <1>2, <1>4 DEF IdTyped, FrameFits
<1> QED
  BY <1>2, <1>3, <1>5

(* What the frames of calls are.                                           *)
LEMMA FrameKinds ==
  ASSUME NEW f, FrameFits(f)
  PROVE  /\ f.at = "update" => /\ f.request \in UpdateRequest /\ f.new \in Ids!Value
                               /\ NewFits(f.request, f.new)
         /\ f.at = "cas" /\ f.request.op \in Ids!Updates =>
              /\ f.request \in UpdateRequest /\ f.old \in Ids!Value /\ f.new \in Ids!Value
              /\ NewFits(f.request, f.new)
         /\ f.at = "cas" /\ f.request.op = "release" =>
              f.request = [op |-> "release"] /\ f.old \in Obj /\ f.new = nil /\ Ids!Keeps
         /\ f.at = "cas" /\ f.request.op = "lazy" =>
              f.request = LazyRequest /\ f.old = nil /\ f.new \in Obj
         /\ f.at = "cas" => f.request.op \in Ids!Updates \cup {"release", "lazy"}
         /\ f.at = "return" => f.request \in PlainRequest \cup UpdateRequest /\ f.result \in Ids!Value
         /\ f = Ids!Reading([op |-> "release"]) => Ids!Keeps
<1>1. CASE f \in UpdateFrames
  <2>1. f.at \in {"update", "cas"} /\ f.request \in UpdateRequest /\ f.new \in Ids!Value
    BY <1>1 DEF UpdateFrames
  <2>2. f.at = "cas" => f.old \in Ids!Value
    BY <1>1 DEF UpdateFrames
  <2>3. f.request.op \in Ids!Updates
    BY <2>1 DEF UpdateRequest
  <2>4. f # Ids!Reading([op |-> "release"])
    BY <2>1 DEF Ids!Reading
  <2> QED
    BY <1>1, <2>1, <2>2, <2>3, <2>4 DEF FrameFits, Ids!Updates
<1>2. CASE f \in OtherFrames
  <2>1. CASE f = Ids!Idle
    <3>1. f.at = "idle"
      BY <2>1 DEF Ids!Idle
    <3> QED
      BY <3>1 DEF Ids!Reading
  <2>2. CASE f \in [at : {"read"}, request : PlainRequest]
    <3>1. f.at = "read"
      BY <2>2
    <3>2. f = Ids!Reading([op |-> "release"]) => f.request.op = "release"
      BY DEF Ids!Reading
    <3> QED
      BY <3>1, <3>2 DEF FrameFits
  <2>3. CASE \/ f \in [at : {"load"}, request : {LazyRequest}]
             \/ f \in [at : {"load nil"}, request : {LazyRequest}, result : {nil}]
    <3>1. f.at = "load" \/ f.at = "load nil"
      BY <2>3
    <3>2. Ids!Reading([op |-> "release"]).at = "read"
      BY DEF Ids!Reading
    <3>3. f # Ids!Reading([op |-> "release"])
      BY <3>1, <3>2
    <3> QED
      BY <3>1, <3>3
  <2>4. CASE f \in [at : {"cas"}, request : {[op |-> "release"]}, old : Obj, new : {nil}]
    <3>1. f.at = "cas" /\ f.request = [op |-> "release"] /\ f.old \in Obj /\ f.new = nil
      BY <2>4
    <3>2. f.request.op = "release"
      BY <3>1
    <3> QED
      BY <3>1, <3>2 DEF FrameFits, Ids!Updates, Ids!Reading
  <2>5. CASE f \in [at : {"cas"}, request : {LazyRequest}, old : {nil}, new : Obj]
    <3>1. f.at = "cas" /\ f.request = LazyRequest /\ f.old = nil /\ f.new \in Obj
      BY <2>5
    <3>2. f.request.op = "lazy"
      BY <3>1 DEF LazyRequest
    <3> QED
      BY <3>1, <3>2 DEF Ids!Updates, Ids!Reading
  <2>6. CASE f \in [at : {"return"}, request : PlainRequest \cup UpdateRequest, result : Ids!Value]
    <3>1. f.at = "return" /\ f.request \in PlainRequest \cup UpdateRequest /\ f.result \in Ids!Value
      BY <2>6
    <3> QED
      BY <3>1 DEF Ids!Reading
  <2> QED
    BY <1>2, <2>1, <2>2, <2>3, <2>4, <2>5, <2>6 DEF OtherFrames
<1> QED
  BY <1>1, <1>2 DEF FrameFits

(* The frames that the steps of a call make.                               *)
LEMMA FramesFit ==
  /\ FrameFits(Ids!Idle)
  /\ \A r \in PlainRequest : (r.op = "release" => Ids!Keeps) => FrameFits(Ids!Reading(r))
  /\ FrameFits(Ids!Loading(LazyRequest)) /\ FrameFits(Ids!LoadingNil(LazyRequest))
  /\ \A r \in PlainRequest \cup UpdateRequest, x \in Ids!Value : FrameFits(Ids!Returning(r, x))
  /\ \A r \in UpdateRequest, new \in Ids!Value :
       NewFits(r, new) =>
         /\ FrameFits([at |-> "update", request |-> r, new |-> new])
         /\ \A old \in Ids!Value : FrameFits(Ids!Swapping(r, old, new))
  /\ Ids!Keeps => \A old \in Obj : FrameFits(Ids!Swapping([op |-> "release"], old, nil))
  /\ \A new \in Obj : FrameFits(Ids!Swapping(LazyRequest, nil, new))
<1> USE DEF FrameFits
<1>1. FrameFits(Ids!Idle)
  BY DEF OtherFrames, UpdateFrames, Ids!Idle
<1>2. ASSUME NEW r \in PlainRequest, r.op = "release" => Ids!Keeps
      PROVE  FrameFits(Ids!Reading(r))
  BY <1>2 DEF OtherFrames, UpdateFrames, Ids!Reading
<1>3. FrameFits(Ids!Loading(LazyRequest)) /\ FrameFits(Ids!LoadingNil(LazyRequest))
  BY DEF OtherFrames, UpdateFrames, Ids!Loading, Ids!LoadingNil
<1>4. ASSUME NEW r \in PlainRequest \cup UpdateRequest, NEW x \in Ids!Value
      PROVE  FrameFits(Ids!Returning(r, x))
  BY DEF OtherFrames, UpdateFrames, Ids!Returning
<1>5. ASSUME NEW r \in UpdateRequest, NEW new \in Ids!Value, NewFits(r, new)
      PROVE  FrameFits([at |-> "update", request |-> r, new |-> new])
  BY <1>5 DEF UpdateFrames
<1>6. ASSUME NEW r \in UpdateRequest, NEW new \in Ids!Value, NewFits(r, new), NEW old \in Ids!Value
      PROVE  FrameFits(Ids!Swapping(r, old, new))
  BY <1>6 DEF UpdateFrames, UpdateRequest, Ids!Updates, Ids!Swapping
<1>7. ASSUME Ids!Keeps, NEW old \in Obj PROVE FrameFits(Ids!Swapping([op |-> "release"], old, nil))
  BY <1>7 DEF OtherFrames, UpdateFrames, UpdateRequest, Ids!Updates, Ids!Swapping
<1>8. ASSUME NEW new \in Obj PROVE FrameFits(Ids!Swapping(LazyRequest, nil, new))
  BY DEF OtherFrames, UpdateFrames, UpdateRequest, Ids!Updates, Ids!Swapping, LazyRequest
<1> HIDE DEF FrameFits
<1> QED
  BY <1>1, <1>2, <1>3, <1>4, <1>5, <1>6, <1>7, <1>8

(* A step of a call that changes no count.                                 *)
LEMMA IdTypedAfter ==
  ASSUME IdTyped, NEW t \in Thread, NEW f, FrameFits(f), Ids!Goto(t, f), UNCHANGED ivarType,
         ivar' \in Ids!Value, rc' \in [Obj -> Int], owned' \in [Thread -> [Obj -> Nat]],
         pool' \in [Thread -> [Obj -> Nat]], lost' \in [Obj -> Nat]
  PROVE  IdTyped'
BY GotoFits DEF IdTyped

(* References are added one object at a time.                              *)
LEMMA PlusType ==
  ASSUME NEW o \in Ids!Value
  PROVE  /\ \A c \in [Obj -> Int], n \in Int :
              /\ Ids!Plus(c, o, n) \in [Obj -> Int]
              /\ \A x \in Obj : Ids!Plus(c, o, n)[x] = IF x = o THEN c[x] + n ELSE c[x]
         /\ \A c \in [Obj -> Nat], n \in Nat : Ids!Plus(c, o, n) \in [Obj -> Nat]
         /\ IdTyped => \A t \in Thread :
              /\ Ids!Autoreleased(t, o) \in [Thread -> [Obj -> Nat]]
              /\ \A u \in Thread, x \in Obj :
                   Ids!Autoreleased(t, o)[u][x] = IF u = t /\ x = o THEN pool[u][x] + 1 ELSE pool[u][x]
BY SharingAssumption DEF Ids!Plus, Ids!Autoreleased, Ids!Value, IdTyped

(* What a call is to its caller.                                           *)
Abstract == [t \in Thread |-> Ids!AbstractCall(ivarFrame[t])]

(* What each frame of a call is to the atomic register.                    *)
LEMMA AbstractFrames ==
  /\ Ids!AbstractCall(Ids!Idle) = Ids!Register!Idle
  /\ \A r : /\ Ids!AbstractCall(Ids!Reading(r)) = Ids!Register!Pending(r)
            /\ Ids!AbstractCall(Ids!Loading(r)) = Ids!Register!Pending(r)
            /\ Ids!AbstractCall(Ids!LoadingNil(r)) = Ids!Register!Answered(r, nil)
            /\ \A x : Ids!AbstractCall(Ids!Returning(r, x)) = Ids!Register!Answered(r, x)
            /\ \A old, new : Ids!AbstractCall(Ids!Swapping(r, old, new)) = Ids!Register!Pending(r)
            /\ \A new : Ids!AbstractCall([at |-> "update", request |-> r, new |-> new])
                         = Ids!Register!Pending(r)
BY DEF Ids!AbstractCall, Ids!Idle, Ids!Reading, Ids!Loading, Ids!LoadingNil, Ids!Returning,
       Ids!Swapping, Ids!Register!Idle, Ids!Register!Pending, Ids!Register!Answered

(* A frame that changes is one pending call that changes.                  *)
LEMMA AbstractGoto ==
  ASSUME IdTyped, NEW t \in Thread, NEW f, Ids!Goto(t, f)
  PROVE  /\ Abstract' = [Abstract EXCEPT ![t] = Ids!AbstractCall(f)]
         /\ Abstract[t] = Ids!AbstractCall(ivarFrame[t])
BY DEF IdTyped, Ids!Goto, Abstract, Ids!AbstractCall

(* A call takes effect, or is nearer to that.                              *)
LEMMA AbstractSteps ==
  ASSUME IdTyped, NEW t \in Thread, NEW f, Ids!Goto(t, f)
  PROVE  /\ \A r \in Ids!Request, v \in Ids!Value :
              Ids!AbstractCall(ivarFrame[t]) = Ids!Register!Pending(r)
              /\ f = Ids!Returning(r, v) /\ ivar' \in Ids!Effects(r, ivar)
              /\ v = Ids!Result(r, ivar, ivar')
                => Ids!Register!TakeEffect(t)
         /\ Ids!AbstractCall(f) = Ids!AbstractCall(ivarFrame[t]) /\ ivar' = ivar
              => UNCHANGED Ids!Register!vars
<1>1. /\ Abstract' = [Abstract EXCEPT ![t] = Ids!AbstractCall(f)]
      /\ Abstract[t] = Ids!AbstractCall(ivarFrame[t])
  BY AbstractGoto
<1>2. ASSUME NEW r \in Ids!Request, NEW v \in Ids!Value,
             Ids!AbstractCall(ivarFrame[t]) = Ids!Register!Pending(r),
             f = Ids!Returning(r, v), ivar' \in Ids!Effects(r, ivar), v = Ids!Result(r, ivar, ivar')
      PROVE  Ids!Register!TakeEffect(t)
  <2>1. Ids!AbstractCall(f) = Ids!Register!Answered(r, Ids!Result(r, ivar, ivar'))
    BY <1>2, AbstractFrames
  <2>2. /\ Abstract[t] = Ids!Register!Pending(r)
        /\ Abstract' = [Abstract EXCEPT ![t] = Ids!Register!Answered(r, Ids!Result(r, ivar, ivar'))]
    BY <1>1, <1>2, <2>1
  <2>3. PICK result : result = Ids!Register!Answered(r, Ids!Result(r, ivar, ivar'))
    OBVIOUS
  <2> QED
    BY <1>2, <2>2, <2>3 DEF Ids!Register!TakeEffect, Abstract
<1>3. ASSUME Ids!AbstractCall(f) = Ids!AbstractCall(ivarFrame[t]), ivar' = ivar
      PROVE  UNCHANGED Ids!Register!vars
  <2>1. Abstract' = Abstract
    BY <1>1, <1>3 DEF Abstract
  <2> QED
    BY <1>3, <2>1 DEF Ids!Register!vars, Abstract
<1> QED
  BY <1>2, <1>3

-----------------------------------------------------------------------------
(* Each step is one of the register, or none.                              *)

RegisterStep == [Ids!Register!Next]_Ids!Register!vars

(* The requests with an update and those without.                          *)
LEMMA RequestKinds ==
  /\ Ids!Request = PlainRequest \cup UpdateRequest
  /\ LazyRequest \in PlainRequest /\ [op |-> "release"] \in PlainRequest
  /\ [op |-> "get"] \in PlainRequest
  /\ \A r \in PlainRequest : r.op \notin Ids!Updates
  /\ \A r \in UpdateRequest : r.op \in Ids!Updates /\ r.value \in Ids!Value
BY DEF Ids!Request, PlainRequest, UpdateRequest, LazyRequest, Ids!Updates

(* A step inside a call is no step of the register.                        *)
LEMMA NoEffect ==
  ASSUME IdTyped, NEW t \in Thread, NEW f, Ids!Goto(t, f), ivar' = ivar,
         Ids!AbstractCall(f) = Ids!AbstractCall(ivarFrame[t])
  PROVE  RegisterStep
BY AbstractSteps DEF RegisterStep

(* The step at which a call takes effect is one step of the register.      *)
LEMMA TakesEffect ==
  ASSUME IdTyped, NEW t \in Thread, NEW r \in Ids!Request, NEW v \in Ids!Value,
         Ids!Goto(t, Ids!Returning(r, v)),
         Ids!AbstractCall(ivarFrame[t]) = Ids!Register!Pending(r),
         ivar' \in Ids!Effects(r, ivar), v = Ids!Result(r, ivar, ivar')
  PROVE  RegisterStep
BY AbstractSteps DEF RegisterStep, Ids!Register!Next

(* Client code and pools do not touch the variable.                        *)
LEMMA AllocSteps ==
  ASSUME IdTyped, NEW t \in Thread,
         Ids!Alloc(t) \/ Ids!Release(t) \/ Ids!DrainPool(t)
  PROVE  IdTyped' /\ RegisterStep
<1>1. UNCHANGED <<ivarType, ivar, lost, ivarFrame>>
  BY DEF Ids!Alloc, Ids!Release, Ids!DrainPool
<1>2. Abstract' = Abstract
  BY <1>1 DEF Abstract, Ids!AbstractCall
<1>3. RegisterStep
  BY <1>1, <1>2 DEF RegisterStep, Ids!Register!vars, Abstract
<1>4. \A u \in Thread : FrameFits(ivarFrame[u])'
  BY <1>1 DEF IdTyped, FrameFits, Ids!Keeps
<1>5. /\ rc' \in [Obj -> Int] /\ owned' \in [Thread -> [Obj -> Nat]]
      /\ pool' \in [Thread -> [Obj -> Nat]]
  <2>1. CASE Ids!Alloc(t)
    BY <2>1 DEF IdTyped, Ids!Alloc
  <2>2. CASE Ids!Release(t)
    <3>1. PICK o \in Obj : /\ owned[t][o] > 0 /\ rc' = [rc EXCEPT ![o] = @ - 1]
                           /\ owned' = [owned EXCEPT ![t][o] = @ - 1]
      BY <2>2 DEF Ids!Release
    <3>2. owned[t][o] - 1 \in Nat
      BY <3>1 DEF IdTyped
    <3> QED
      BY <2>2, <3>1, <3>2 DEF IdTyped, Ids!Release
  <2>3. CASE Ids!DrainPool(t)
    BY <2>3 DEF IdTyped, Ids!DrainPool, Ids!None
  <2> QED
    BY <2>1, <2>2, <2>3
<1> QED
  BY <1>1, <1>3, <1>4, <1>5 DEF IdTyped

(* A call starts; an update has made what it wants to set.                 *)
LEMMA CallSteps ==
  ASSUME IdTyped, NEW t \in Thread, NEW r \in Ids!Request, Ids!Call(t, r)
  PROVE  IdTyped' /\ RegisterStep
<1>1. /\ ivarFrame[t] = Ids!Idle /\ Ids!MayAsk(t, r)
      /\ UNCHANGED <<ivarType, ivar, owned, pool, lost>>
  BY DEF Ids!Call
<1>2. CASE r.op \in Ids!Updates
  <2>1. r \in UpdateRequest /\ r.value \in Ids!Value
    BY <1>2, RequestKinds
  <2>2. PICK new \in Ids!Value :
          /\ Ids!Goto(t, [at |-> "update", request |-> r, new |-> new])
          /\ NewFits(r, new)
          /\ rc' \in [Obj -> Int]
    <3>1. Ids!UpdateStarts(t, r)
      BY <1>2 DEF Ids!Call
    <3>2. CASE ~Ids!Keeps \/ r.value = nil
      <4>1. r.value = nil \/ r.op = "update"
        BY <1>1, <1>2, <3>2 DEF Ids!MayAsk, Ids!Keeps, Ids!Updates
      <4> QED
        BY <2>1, <3>1, <3>2, <4>1 DEF Ids!UpdateStarts, NewFits, IdTyped
    <3>3. CASE ~(~Ids!Keeps \/ r.value = nil)
      <4>1. PICK new \in {r.value} \cup (IF ivarType = "copy" THEN Obj ELSE {}) :
              /\ rc' = [rc EXCEPT ![new] = @ + 1]
              /\ Ids!Goto(t, [at |-> "update", request |-> r, new |-> new])
        BY <3>1, <3>3 DEF Ids!UpdateStarts
      <4>2. new \in Obj
        BY <2>1, <3>3, <4>1 DEF Ids!Value
      <4>3. r.op = "update" => ivarType # "copy"
        <5>1. (r.op = "copy update") = (ivarType = "copy")
          BY <1>1, <1>2 DEF Ids!MayAsk
        <5>2. r.op = "update" => r.op # "copy update"
          OBVIOUS
        <5> QED
          BY <5>1, <5>2
      <4>4. r.op = "update" => new = r.value
        BY <4>1, <4>3
      <4>5. NewFits(r, new)
        BY <3>3, <4>2, <4>4 DEF NewFits
      <4> QED
        BY <4>1, <4>2, <4>5 DEF Ids!Value, IdTyped
    <3> QED
      BY <3>2, <3>3
  <2>3. IdTyped'
    BY <1>1, <2>1, <2>2, FramesFit, IdTypedAfter DEF IdTyped
  <2>4. Ids!Register!Invoke(t)
    BY <1>1, <2>2, AbstractGoto, AbstractFrames DEF Ids!Register!Invoke, Abstract
  <2> QED
    BY <2>3, <2>4 DEF RegisterStep, Ids!Register!Next
<1>3. CASE r.op \notin Ids!Updates
  <2>1. r \in PlainRequest /\ (r.op = "release" => Ids!Keeps)
    BY <1>1, <1>3, RequestKinds DEF Ids!MayAsk
  <2>2. Ids!Goto(t, Ids!Reading(r)) /\ UNCHANGED rc
    BY <1>3 DEF Ids!Call
  <2>3. IdTyped'
    BY <1>1, <2>1, <2>2, FramesFit, IdTypedAfter DEF IdTyped
  <2>4. Ids!Register!Invoke(t)
    BY <1>1, <2>2, AbstractGoto, AbstractFrames DEF Ids!Register!Invoke, Abstract
  <2> QED
    BY <2>3, <2>4 DEF RegisterStep, Ids!Register!Next
<1> QED
  BY <1>2, <1>3

(* A call returns what it has answered.                                    *)
LEMMA ReturnSteps ==
  ASSUME IdTyped, NEW t \in Thread, Ids!Return(t)
  PROVE  IdTyped' /\ RegisterStep
<1>1. /\ ivarFrame[t].at = "return" /\ Ids!Goto(t, Ids!Idle)
      /\ UNCHANGED <<ivarType, ivar, rc, owned, pool, lost>>
  BY DEF Ids!Return
<1>2. IdTyped'
  BY <1>1, FramesFit, IdTypedAfter DEF IdTyped
<1>3. Abstract[t].at = "answered" /\ Abstract' = [Abstract EXCEPT ![t] = Ids!Register!Idle]
  <2>1. /\ Abstract' = [Abstract EXCEPT ![t] = Ids!AbstractCall(Ids!Idle)]
        /\ Abstract[t] = Ids!AbstractCall(ivarFrame[t])
    BY <1>1, AbstractGoto
  <2>2. Ids!AbstractCall(ivarFrame[t]).at = "answered"
    BY <1>1 DEF Ids!AbstractCall
  <2> QED
    BY <2>1, <2>2, AbstractFrames
<1>4. Ids!Register!Return(t)
  BY <1>1, <1>3 DEF Ids!Register!Return, Abstract
<1> QED
  BY <1>2, <1>4 DEF RegisterStep, Ids!Register!Next

(* An update: the new value is there already, or is about to be tried.     *)
LEMMA UpdateReadsSteps ==
  ASSUME IdTyped, NEW t \in Thread, Ids!UpdateReads(t)
  PROVE  IdTyped' /\ RegisterStep
<1>1. PICK f : f = ivarFrame[t]
  OBVIOUS
<1>2. /\ f.at = "update" /\ f.request \in UpdateRequest /\ f.new \in Ids!Value
      /\ NewFits(f.request, f.new)
  BY <1>1, FrameKinds DEF IdTyped, Ids!UpdateReads
<1>3. UNCHANGED <<ivarType, ivar, rc, owned, pool>>
  BY DEF Ids!UpdateReads
<1>4. Ids!AbstractCall(f) = Ids!Register!Pending(f.request)
  BY <1>2 DEF Ids!AbstractCall, Ids!Register!Pending
<1>5. CASE ivar = f.new
  <2>1. /\ Ids!Goto(t, Ids!Returning(f.request, ivar))
        /\ lost' = IF Ids!Keeps THEN Ids!Plus(lost, f.new, 1) ELSE lost
    BY <1>1, <1>5 DEF Ids!UpdateReads
  <2>2. lost' \in [Obj -> Nat]
    BY <1>2, <2>1, PlusType DEF IdTyped
  <2>3. IdTyped'
    BY <1>2, <1>3, <2>1, <2>2, FramesFit, IdTypedAfter DEF IdTyped
  <2>4. ivar' \in Ids!Effects(f.request, ivar)
    BY <1>2, <1>3, <1>5 DEF Ids!Effects, NewFits, UpdateRequest, Ids!Updates
  <2>5. ivar = Ids!Result(f.request, ivar, ivar')
    BY <1>2, <1>3 DEF Ids!Result
  <2>6. RegisterStep
    BY <1>1, <1>2, <1>4, <2>1, <2>4, <2>5, RequestKinds, TakesEffect DEF IdTyped
  <2> QED
    BY <2>3, <2>6
<1>6. CASE ivar # f.new
  <2>1. Ids!Goto(t, Ids!Swapping(f.request, ivar, f.new)) /\ UNCHANGED lost
    BY <1>1, <1>6 DEF Ids!UpdateReads
  <2>2. IdTyped'
    BY <1>2, <1>3, <2>1, FramesFit, IdTypedAfter DEF IdTyped
  <2>3. RegisterStep
    BY <1>1, <1>3, <1>4, <2>1, AbstractFrames, NoEffect
  <2> QED
    BY <2>2, <2>3
<1> QED
  BY <1>5, <1>6

(* The swap of a setter.                                                   *)
LEMMA UpdateSteps ==
  ASSUME IdTyped, NEW t \in Thread, Ids!_mulle_atomic_id_update(t)
  PROVE  IdTyped' /\ RegisterStep
<1>1. PICK f : f = ivarFrame[t]
  OBVIOUS
<1>2. /\ f.at = "cas" /\ f.request \in UpdateRequest /\ f.old \in Ids!Value /\ f.new \in Ids!Value
      /\ NewFits(f.request, f.new)
  BY <1>1, FrameKinds DEF IdTyped, Ids!_mulle_atomic_id_update
<1>3. UNCHANGED <<ivarType, rc, owned, lost>>
  BY DEF Ids!_mulle_atomic_id_update
<1>4. Ids!AbstractCall(f) = Ids!Register!Pending(f.request)
  BY <1>2 DEF Ids!AbstractCall, Ids!Register!Pending
<1>5. CASE ivar = f.old
  <2>1. /\ ivar' = f.new /\ Ids!Goto(t, Ids!Returning(f.request, f.old))
        /\ pool' = IF Ids!Keeps THEN Ids!Autoreleased(t, f.old) ELSE pool
    BY <1>1, <1>5 DEF Ids!_mulle_atomic_id_update
  <2>2. pool' \in [Thread -> [Obj -> Nat]]
    BY <1>2, <2>1, PlusType DEF IdTyped
  <2>3. IdTyped'
    BY <1>2, <1>3, <2>1, <2>2, FramesFit, IdTypedAfter DEF IdTyped
  <2>4. ivar' \in Ids!Effects(f.request, ivar)
    BY <1>2, <2>1 DEF Ids!Effects, NewFits, UpdateRequest, Ids!Updates
  <2>5. f.old = Ids!Result(f.request, ivar, ivar')
    BY <1>2, <1>5 DEF Ids!Result, UpdateRequest, Ids!Updates
  <2>6. RegisterStep
    BY <1>1, <1>2, <1>4, <2>1, <2>4, <2>5, RequestKinds, TakesEffect
  <2> QED
    BY <2>3, <2>6
<1>6. CASE ivar # f.old
  <2>1. /\ Ids!Goto(t, [at |-> "update", request |-> f.request, new |-> f.new])
        /\ UNCHANGED <<ivar, pool>>
    BY <1>1, <1>6 DEF Ids!_mulle_atomic_id_update
  <2>2. IdTyped'
    BY <1>2, <1>3, <2>1, FramesFit, IdTypedAfter DEF IdTyped
  <2>3. RegisterStep
    BY <1>1, <1>4, <2>1, AbstractFrames, NoEffect
  <2> QED
    BY <2>2, <2>3
<1> QED
  BY <1>5, <1>6

(* The getter.                                                             *)
LEMMA GetSteps ==
  ASSUME IdTyped, NEW t \in Thread, Ids!_mulle_atomic_id_get(t)
  PROVE  IdTyped' /\ RegisterStep
<1>1. PICK r \in PlainRequest : r = [op |-> "get"]
  BY RequestKinds
<1>2. /\ ivarFrame[t] = Ids!Reading(r) /\ Ids!Goto(t, Ids!Returning(r, ivar))
      /\ UNCHANGED <<ivarType, ivar, rc, owned, pool, lost>>
  BY <1>1 DEF Ids!_mulle_atomic_id_get
<1>3. IdTyped'
  BY <1>2, FramesFit, IdTypedAfter DEF IdTyped
<1>4. ivar' \in Ids!Effects(r, ivar) /\ ivar = Ids!Result(r, ivar, ivar')
  BY <1>1, <1>2 DEF Ids!Effects, Ids!Result
<1> QED
  BY <1>2, <1>3, <1>4, AbstractFrames, RequestKinds, TakesEffect DEF IdTyped

(* -release of what the variable has: nothing, or the object is tried.     *)
LEMMA ReleaseReadsSteps ==
  ASSUME IdTyped, NEW t \in Thread, Ids!ReleaseReads(t)
  PROVE  IdTyped' /\ RegisterStep
<1>1. PICK r \in PlainRequest : r = [op |-> "release"]
  BY RequestKinds
<1>2. /\ ivarFrame[t] = Ids!Reading(r)
      /\ Ids!Goto(t, IF ivar = nil THEN Ids!Returning(r, nil) ELSE Ids!Swapping(r, ivar, nil))
      /\ UNCHANGED <<ivarType, ivar, rc, owned, pool, lost>>
  BY <1>1 DEF Ids!ReleaseReads
<1>3. Ids!Keeps
  BY <1>1, <1>2, FrameKinds DEF IdTyped
<1>4. nil \in Ids!Value
  BY DEF Ids!Value
<1>5. CASE ivar = nil
  <2>1. IdTyped'
    BY <1>2, <1>4, <1>5, FramesFit, IdTypedAfter DEF IdTyped
  <2>2. ivar' \in Ids!Effects(r, ivar) /\ nil = Ids!Result(r, ivar, ivar')
    BY <1>1, <1>2, <1>5 DEF Ids!Effects, Ids!Result
  <2> QED
    BY <1>2, <1>4, <1>5, <2>1, <2>2, AbstractFrames, RequestKinds, TakesEffect
<1>6. CASE ivar # nil
  <2>1. ivar \in Obj
    BY <1>6 DEF IdTyped, Ids!Value
  <2>2. IdTyped'
    BY <1>1, <1>2, <1>3, <1>6, <2>1, FramesFit, IdTypedAfter DEF IdTyped
  <2>3. RegisterStep
    BY <1>2, <1>6, AbstractFrames, NoEffect
  <2> QED
    BY <2>2, <2>3
<1> QED
  BY <1>5, <1>6

(* The swap of a release.                                                  *)
LEMMA ReleaseSteps ==
  ASSUME IdTyped, NEW t \in Thread, Ids!_mulle_atomic_id_release(t)
  PROVE  IdTyped' /\ RegisterStep
<1>1. PICK f : f = ivarFrame[t]
  OBVIOUS
<1>2. PICK r \in PlainRequest : r = [op |-> "release"]
  BY RequestKinds
<1>3. f.at = "cas" /\ f.request = r /\ f.old \in Obj /\ Ids!Keeps
  BY <1>1, <1>2, FrameKinds DEF IdTyped, Ids!_mulle_atomic_id_release
<1>4. UNCHANGED <<ivarType, owned, pool, lost>>
  BY DEF Ids!_mulle_atomic_id_release
<1>5. Ids!AbstractCall(f) = Ids!Register!Pending(r)
  BY <1>3 DEF Ids!AbstractCall, Ids!Register!Pending
<1>6. f.old \in Ids!Value /\ nil \in Ids!Value
  BY <1>3 DEF Ids!Value
<1>7. CASE ivar = f.old
  <2>1. /\ ivar' = nil /\ rc' = [rc EXCEPT ![f.old] = @ - 1]
        /\ Ids!Goto(t, Ids!Returning(r, f.old))
    BY <1>1, <1>3, <1>7 DEF Ids!_mulle_atomic_id_release
  <2>2. rc' \in [Obj -> Int]
    BY <1>3, <2>1 DEF IdTyped
  <2>3. IdTyped'
    BY <1>4, <1>6, <2>1, <2>2, FramesFit, IdTypedAfter DEF IdTyped
  <2>4. ivar' \in Ids!Effects(r, ivar) /\ f.old = Ids!Result(r, ivar, ivar')
    BY <1>2, <1>7, <2>1 DEF Ids!Effects, Ids!Result
  <2> QED
    BY <1>1, <1>5, <1>6, <2>1, <2>3, <2>4, RequestKinds, TakesEffect
<1>8. CASE ivar # f.old
  <2>1. Ids!Goto(t, Ids!Reading(r)) /\ UNCHANGED <<ivar, rc>>
    BY <1>1, <1>3, <1>8 DEF Ids!_mulle_atomic_id_release
  <2>2. IdTyped'
    BY <1>3, <1>4, <2>1, FramesFit, IdTypedAfter DEF IdTyped
  <2>3. RegisterStep
    BY <1>1, <1>5, <2>1, AbstractFrames, NoEffect
  <2> QED
    BY <2>2, <2>3
<1> QED
  BY <1>7, <1>8

(* The lazy getter: it finds an object, or its loader returns nil or one.  *)
LEMMA LazyReadsSteps ==
  ASSUME IdTyped, NEW t \in Thread, Ids!LazyReads(t)
  PROVE  IdTyped' /\ RegisterStep
<1>1. PICK r \in PlainRequest : r = LazyRequest
  BY RequestKinds
<1>2. /\ ivarFrame[t] = Ids!Reading(r)
      /\ \/ ivar # nil /\ Ids!Goto(t, Ids!Returning(r, ivar))
         \/ ivar = nil /\ Ids!Goto(t, Ids!Loading(r))
         \/ ivar = nil /\ Ids!Goto(t, Ids!LoadingNil(r))
      /\ UNCHANGED <<ivarType, ivar, rc, owned, pool, lost>>
  BY <1>1 DEF Ids!LazyReads, LazyRequest
<1>3. r.op = "lazy"
  BY <1>1 DEF LazyRequest
<1>4. CASE ivar # nil
  <2>1. Ids!Goto(t, Ids!Returning(r, ivar))
    BY <1>2, <1>4
  <2>2. IdTyped'
    BY <1>2, <2>1, FramesFit, IdTypedAfter DEF IdTyped
  <2>3. ivar' \in Ids!Effects(r, ivar) /\ ivar = Ids!Result(r, ivar, ivar')
    BY <1>2, <1>3, <1>4 DEF Ids!Effects, Ids!Result
  <2> QED
    BY <1>2, <2>1, <2>2, <2>3, AbstractFrames, RequestKinds, TakesEffect DEF IdTyped
<1>5. CASE Ids!Goto(t, Ids!Loading(r))
  <2>1. IdTyped'
    BY <1>1, <1>2, <1>5, FramesFit, IdTypedAfter DEF IdTyped
  <2> QED
    BY <1>2, <1>5, <2>1, AbstractFrames, NoEffect
<1>6. CASE ivar = nil /\ Ids!Goto(t, Ids!LoadingNil(r))
  <2>1. IdTyped'
    BY <1>1, <1>2, <1>6, FramesFit, IdTypedAfter DEF IdTyped
  <2>2. ivar' \in Ids!Effects(r, ivar) /\ nil = Ids!Result(r, ivar, ivar')
    BY <1>2, <1>3, <1>6 DEF Ids!Effects, Ids!Result, Ids!Value
  <2>3. /\ Abstract[t] = Ids!Register!Pending(r)
        /\ Abstract' = [Abstract EXCEPT ![t] = Ids!Register!Answered(r, Ids!Result(r, ivar, ivar'))]
    BY <1>2, <1>6, <2>2, AbstractGoto, AbstractFrames
  <2>4. PICK result : result = Ids!Register!Answered(r, Ids!Result(r, ivar, ivar'))
    OBVIOUS
  <2>5. Ids!Register!TakeEffect(t)
    BY <2>2, <2>3, <2>4, RequestKinds DEF Ids!Register!TakeEffect, Abstract
  <2> QED
    BY <2>1, <2>5 DEF RegisterStep, Ids!Register!Next
<1> QED
  BY <1>2, <1>4, <1>5, <1>6

(* The loader of a lazy variable returns an object, or nil.                *)
LEMMA LoaderSteps ==
  ASSUME IdTyped, NEW t \in Thread, Ids!LoaderReturnsNil(t) \/ Ids!LoaderReturns(t)
  PROVE  IdTyped' /\ RegisterStep
<1>1. LazyRequest \in PlainRequest /\ nil \in Ids!Value
  BY RequestKinds DEF Ids!Value
<1>2. CASE Ids!LoaderReturnsNil(t)
  <2>1. /\ ivarFrame[t] = Ids!LoadingNil(LazyRequest) /\ Ids!Goto(t, Ids!Returning(LazyRequest, nil))
        /\ UNCHANGED <<ivarType, ivar, rc, owned, pool, lost>>
    BY <1>2 DEF Ids!LoaderReturnsNil, LazyRequest
  <2>2. IdTyped'
    BY <1>1, <2>1, FramesFit, IdTypedAfter DEF IdTyped
  <2> QED
    BY <2>1, <2>2, AbstractFrames, NoEffect
<1>3. CASE Ids!LoaderReturns(t)
  <2>1. PICK o \in Obj, new \in Obj, made \in {0, 1}, keep \in {0, 1} :
          /\ rc' = Ids!Plus(Ids!Plus(rc, o, made), new, keep)
          /\ pool' = (IF rc[o] = 0 /\ lost[o] = 0 THEN Ids!Autoreleased(t, o) ELSE pool)
          /\ Ids!Goto(t, Ids!Swapping(LazyRequest, nil, new))
    BY <1>3, Zenon DEF Ids!LoaderReturns, LazyRequest
  <2>2. ivarFrame[t] = Ids!Loading(LazyRequest) /\ UNCHANGED <<ivarType, ivar, owned, lost>>
    BY <1>3 DEF Ids!LoaderReturns, LazyRequest
  <2>3. o \in Ids!Value /\ new \in Ids!Value
    BY DEF Ids!Value
  <2>4. rc' \in [Obj -> Int]
    <3>1. made \in Int /\ keep \in Int
      BY <2>1
    <3>2. PICK once \in [Obj -> Int] : once = Ids!Plus(rc, o, made)
      BY <2>3, <3>1, PlusType DEF IdTyped
    <3>3. Ids!Plus(once, new, keep) \in [Obj -> Int]
      BY <2>3, <3>1, <3>2, PlusType
    <3> QED
      BY <2>1, <3>2, <3>3
  <2>5. pool' \in [Thread -> [Obj -> Nat]]
    BY <2>1, <2>3, PlusType DEF IdTyped
  <2>6. IdTyped'
    BY <2>1, <2>2, <2>4, <2>5, FramesFit, IdTypedAfter DEF IdTyped
  <2> QED
    BY <2>1, <2>2, <2>6, AbstractFrames, NoEffect
<1> QED
  BY <1>2, <1>3

(* The swap that stores what the loader returned.                          *)
LEMMA LazySteps ==
  ASSUME IdTyped, NEW t \in Thread, Ids!_MulleObjCAtomicIdGetLazy(t)
  PROVE  IdTyped' /\ RegisterStep
<1>1. PICK f : f = ivarFrame[t]
  OBVIOUS
<1>2. f.at = "cas" /\ f.request = LazyRequest /\ f.old = nil /\ f.new \in Obj
  BY <1>1, FrameKinds DEF IdTyped, Ids!_MulleObjCAtomicIdGetLazy
<1>3. UNCHANGED <<ivarType, owned, pool, lost>>
  BY DEF Ids!_MulleObjCAtomicIdGetLazy
<1>4. Ids!AbstractCall(f) = Ids!Register!Pending(LazyRequest)
  BY <1>2 DEF Ids!AbstractCall, Ids!Register!Pending
<1>5. f.new \in Ids!Value /\ LazyRequest \in PlainRequest /\ LazyRequest.op = "lazy"
  BY <1>2, RequestKinds DEF Ids!Value, LazyRequest
<1>6. CASE ivar = nil
  <2>1. ivar' = f.new /\ Ids!Goto(t, Ids!Returning(LazyRequest, f.new)) /\ UNCHANGED rc
    BY <1>1, <1>2, <1>6 DEF Ids!_MulleObjCAtomicIdGetLazy
  <2>2. IdTyped'
    BY <1>3, <1>5, <2>1, FramesFit, IdTypedAfter DEF IdTyped
  <2>3. ivar' \in Ids!Effects(LazyRequest, ivar) /\ f.new = Ids!Result(LazyRequest, ivar, ivar')
    BY <1>5, <1>6, <2>1 DEF Ids!Effects, Ids!Result
  <2> QED
    BY <1>1, <1>4, <1>5, <2>1, <2>2, <2>3, RequestKinds, TakesEffect
<1>7. CASE ivar # nil
  <2>1. /\ rc' = IF Ids!Keeps THEN Ids!Plus(rc, f.new, -1) ELSE rc
        /\ Ids!Goto(t, Ids!Reading(LazyRequest)) /\ UNCHANGED ivar
    BY <1>1, <1>2, <1>7 DEF Ids!_MulleObjCAtomicIdGetLazy
  <2>2. PICK n \in Int : n = -1
    OBVIOUS
  <2>3. Ids!Plus(rc, f.new, n) \in [Obj -> Int]
    BY <1>5, PlusType DEF IdTyped
  <2>4. rc' \in [Obj -> Int]
    BY <2>1, <2>2, <2>3 DEF IdTyped
  <2>5. IdTyped'
    BY <1>3, <1>5, <2>1, <2>4, FramesFit, IdTypedAfter DEF IdTyped
  <2> QED
    BY <1>1, <1>4, <2>1, <2>5, AbstractFrames, NoEffect
<1> QED
  BY <1>6, <1>7

-----------------------------------------------------------------------------
(* The variable starts as nil, in no call.                                 *)
LEMMA IdInit == Ids!Init => IdTyped /\ Ids!Register!Init
<1> SUFFICES ASSUME Ids!Init PROVE IdTyped /\ Ids!Register!Init
  OBVIOUS
<1>1. ivarFrame = [t \in Thread |-> Ids!Idle] /\ ivar \in Ids!Value
  BY DEF Ids!Init, Ids!Value
<1>2. IdTyped
  <2>1. rc \in [Obj -> Int] /\ lost \in [Obj -> Nat]
    BY DEF Ids!Init, Ids!None
  <2>2. owned \in [Thread -> [Obj -> Nat]] /\ pool \in [Thread -> [Obj -> Nat]]
    BY DEF Ids!Init, Ids!None
  <2>3. \A t \in Thread : FrameFits(ivarFrame[t])
    BY <1>1, FramesFit
  <2>4. ivarFrame = [t \in Thread |-> ivarFrame[t]] /\ ivarType \in {"assign", "retain", "copy"}
    BY <1>1 DEF Ids!Init
  <2> QED
    BY <1>1, <2>1, <2>2, <2>3, <2>4 DEF IdTyped
<1>3. Abstract = [t \in Thread |-> Ids!Register!Idle]
  BY <1>1, AbstractFrames DEF Abstract
<1> QED
  BY <1>1, <1>2, <1>3 DEF Ids!Register!Init, Abstract

(* Every step keeps the types and is one of the register, or none.         *)
LEMMA IdStep ==
  ASSUME IdTyped, [Ids!Next]_Ids!vars
  PROVE  IdTyped' /\ RegisterStep
<1>1. CASE UNCHANGED Ids!vars
  <2>1. UNCHANGED <<ivarType, ivar, rc, owned, pool, lost, ivarFrame>>
    BY <1>1 DEF Ids!vars
  <2>2. IdTyped'
    BY <2>1 DEF IdTyped, FrameFits, Ids!Keeps
  <2>3. Abstract' = Abstract
    BY <2>1 DEF Abstract, Ids!AbstractCall
  <2> QED
    BY <2>1, <2>2, <2>3 DEF RegisterStep, Ids!Register!vars, Abstract
<1>2. ASSUME NEW t \in Thread, Ids!Alloc(t) \/ Ids!Release(t) \/ Ids!DrainPool(t)
      PROVE  IdTyped' /\ RegisterStep
  BY <1>2, AllocSteps
<1>3. ASSUME NEW t \in Thread, NEW r \in Ids!Request, Ids!Call(t, r)
      PROVE  IdTyped' /\ RegisterStep
  BY <1>3, CallSteps
<1>4. ASSUME NEW t \in Thread, Ids!UpdateReads(t) \/ Ids!_mulle_atomic_id_update(t)
      PROVE  IdTyped' /\ RegisterStep
  BY <1>4, UpdateReadsSteps, UpdateSteps
<1>5. ASSUME NEW t \in Thread,
             \/ Ids!_mulle_atomic_id_get(t)
             \/ Ids!ReleaseReads(t) \/ Ids!_mulle_atomic_id_release(t)
      PROVE  IdTyped' /\ RegisterStep
  BY <1>5, GetSteps, ReleaseReadsSteps, ReleaseSteps
<1>6. ASSUME NEW t \in Thread,
             \/ Ids!LazyReads(t) \/ Ids!LoaderReturnsNil(t) \/ Ids!LoaderReturns(t)
             \/ Ids!_MulleObjCAtomicIdGetLazy(t)
      PROVE  IdTyped' /\ RegisterStep
  BY <1>6, LazyReadsSteps, LoaderSteps, LazySteps
<1>7. ASSUME NEW t \in Thread, Ids!Return(t) PROVE IdTyped' /\ RegisterStep
  BY <1>7, ReturnSteps
<1> QED
  BY <1>1, <1>2, <1>3, <1>4, <1>5, <1>6, <1>7 DEF Ids!Next

(* Getter, setter, -release and lazy getter of an atomic instance variable *)
(* each take effect at one instant: the value that one of them takes out   *)
(* no other one takes, and all threads get the same lazy value.            *)
THEOREM IdsRefineRegister == Ids!Spec => IdsAreAtomic
<1>1. IdTyped /\ [Ids!Next]_Ids!vars => IdTyped' /\ [Ids!Register!Next]_Ids!Register!vars
  BY IdStep DEF RegisterStep
<1> QED
  BY IdInit, <1>1, PTL DEF Ids!Spec, IdsAreAtomic, Ids!IdsAreAtomic, Ids!Register!Spec

-----------------------------------------------------------------------------
(* The references of an atomic instance variable: each is held by client   *)
(* code, a pool, the variable or a call, or is lost, and none is held      *)
(* twice.  The balance is inductive, given the types of all calls.         *)

Total(f, o) == SumFunction([t \in Thread |-> f[t][o]])

KeptBy(x, o) == IF Ids!Keeps /\ x = o THEN 1 ELSE 0

CarriedBy(f, o) == IF Ids!Keeps /\ f.at \in {"update", "cas"} /\ f.new = o THEN 1 ELSE 0

Carriers(o) == {t \in Thread : Ids!Carries(t, o)}

BalancedAt(o) ==
  /\ lost[o] > 0 => Ids!Keeps
  /\ rc[o] = Total(owned, o) + Total(pool, o) + lost[o] + KeptBy(ivar, o) + Cardinality(Carriers(o))

Balanced == \A o \in Obj : BalancedAt(o)

(* The sums of this module are those of AtomicIds.                         *)
LEMMA BalancedMeans == Balanced <=> IvarReferencesBalance
<1>1. \A f : Ids!SumFunction(f) = SumFunction(f)
  BY DEF Ids!SumFunction, SumFunction, Ids!SumFunctionOnSet, SumFunctionOnSet,
         Ids!FoldFunctionOnSet, FoldFunctionOnSet, Ids!MapThenFoldSet, MapThenFoldSet
<1>2. \A S : Ids!Cardinality(S) = Cardinality(S)
  BY DEF Ids!Cardinality, Cardinality
<1> QED
  BY <1>1, <1>2 DEF Balanced, BalancedAt, Total, KeptBy, Carriers,
                    IvarReferencesBalance, Ids!IvarReferencesBalance

(* What one thread owns, or its pool will release, changes.                *)
LEMMA TotalChange ==
  ASSUME NEW f \in [Thread -> [Obj -> Nat]], NEW g \in [Thread -> [Obj -> Nat]],
         NEW t \in Thread, NEW o \in Obj, \A u \in Thread \ {t} : f[u][o] = g[u][o]
  PROVE  /\ Total(f, o) \in Nat /\ f[t][o] <= Total(f, o)
         /\ Total(g, o) \in Nat
         /\ Total(g, o) = Total(f, o) + g[t][o] - f[t][o]
<1>1. PICK F : F = [u \in Thread |-> f[u][o]]
  OBVIOUS
<1>2. PICK G : G = [u \in Thread |-> g[u][o]]
  OBVIOUS
<1>3. F \in [Thread -> Nat] /\ G \in [Thread -> Nat]
  BY <1>1, <1>2
<1>4. F \in [Thread -> Int] /\ G \in [Thread -> Int]
  BY <1>3
<1>5. SumFunction(F) \in Nat /\ F[t] <= SumFunction(F) /\ SumFunction(G) \in Nat
  BY <1>3, SumNat, SharingAssumption
<1>6. SumFunction(G) = SumFunction(F) + G[t] - F[t]
  <2>1. \A u \in Thread \ {t} : F[u] = G[u]
    BY <1>1, <1>2
  <2>2. IsFiniteSet(Thread)
    BY SharingAssumption
  <2> QED
    BY <1>4, <2>1, <2>2, SumChange
<1> QED
  BY <1>1, <1>2, <1>5, <1>6 DEF Total

(* The books are right after a step of one thread, if what it did to the   *)
(* retain count is what it did to the holders.                             *)
LEMMA BooksAfter ==
  ASSUME IdTyped, Balanced, IdTyped', NEW t \in Thread, UNCHANGED ivarType,
         \A u \in Thread \ {t} : /\ ivarFrame'[u] = ivarFrame[u]
                                 /\ owned'[u] = owned[u] /\ pool'[u] = pool[u],
         NEW o \in Obj, lost'[o] > 0 => Ids!Keeps,
         rc'[o] - rc[o] = owned'[t][o] - owned[t][o] + pool'[t][o] - pool[t][o]
                          + lost'[o] - lost[o] + KeptBy(ivar', o) - KeptBy(ivar, o)
                          + CarriedBy(ivarFrame'[t], o) - CarriedBy(ivarFrame[t], o)
  PROVE  BalancedAt(o)'
<1>1. Ids!Keeps' = Ids!Keeps
  BY DEF Ids!Keeps
<1>2. /\ Total(owned, o) \in Nat /\ Total(owned', o) \in Nat
      /\ Total(owned', o) = Total(owned, o) + owned'[t][o] - owned[t][o]
  BY TotalChange DEF IdTyped
<1>3. /\ Total(pool, o) \in Nat /\ Total(pool', o) \in Nat
      /\ Total(pool', o) = Total(pool, o) + pool'[t][o] - pool[t][o]
  BY TotalChange DEF IdTyped
<1>4. /\ Cardinality(Carriers(o)) \in Nat /\ Cardinality(Carriers(o)') \in Nat
      /\ Cardinality(Carriers(o)') = Cardinality(Carriers(o))
             + CarriedBy(ivarFrame'[t], o) - CarriedBy(ivarFrame[t], o)
  <2>1. Carriers(o) \in SUBSET Thread /\ Carriers(o)' \in SUBSET Thread
    BY DEF Carriers
  <2>2. \A u \in Thread \ {t} : u \in Carriers(o) <=> u \in Carriers(o)'
    BY <1>1 DEF Carriers, Ids!Carries
  <2>3. /\ CarriedBy(ivarFrame[t], o) = IF t \in Carriers(o) THEN 1 ELSE 0
        /\ CarriedBy(ivarFrame'[t], o) = IF t \in Carriers(o)' THEN 1 ELSE 0
    BY <1>1 DEF Carriers, Ids!Carries, CarriedBy
  <2>4. /\ Cardinality(Carriers(o)) \in Nat /\ Cardinality(Carriers(o)') \in Nat
        /\ Cardinality(Carriers(o)')
             = Cardinality(Carriers(o)) + (IF t \in Carriers(o)' THEN 1 ELSE 0)
                                        - (IF t \in Carriers(o) THEN 1 ELSE 0)
    BY <2>1, <2>2, CountChange, SharingAssumption
  <2> QED
    BY <2>3, <2>4
<1>5. /\ KeptBy(ivar, o) \in Int /\ KeptBy(ivar', o) \in Int
      /\ KeptBy(ivar, o)' = KeptBy(ivar', o)
      /\ CarriedBy(ivarFrame[t], o) \in Int /\ CarriedBy(ivarFrame'[t], o) \in Int
  BY <1>1 DEF KeptBy, CarriedBy
<1>6. /\ Total(owned, o)' = Total(owned', o) /\ Total(pool, o)' = Total(pool', o)
      /\ Cardinality(Carriers(o))' = Cardinality(Carriers(o)')
  BY DEF Total
<1>7. /\ rc[o] \in Int /\ rc'[o] \in Int /\ lost[o] \in Nat /\ lost'[o] \in Nat
      /\ owned[t][o] \in Nat /\ owned'[t][o] \in Nat /\ pool[t][o] \in Nat /\ pool'[t][o] \in Nat
  BY DEF IdTyped
<1>8. rc[o] = Total(owned, o) + Total(pool, o) + lost[o] + KeptBy(ivar, o) + Cardinality(Carriers(o))
  BY DEF Balanced, BalancedAt
<1>9. rc'[o] = Total(owned', o) + Total(pool', o) + lost'[o] + KeptBy(ivar', o) + Cardinality(Carriers(o)')
  BY <1>2, <1>3, <1>4, <1>5, <1>7, <1>8
<1> QED
  BY <1>1, <1>5, <1>6, <1>9 DEF BalancedAt

(* Only the call of one thread goes on.                                    *)
LEMMA OneCall ==
  ASSUME IdTyped, NEW t \in Thread, NEW f, Ids!Goto(t, f)
  PROVE  ivarFrame'[t] = f /\ \A u \in Thread \ {t} : ivarFrame'[u] = ivarFrame[u]
BY DEF IdTyped, Ids!Goto

(* A call holds no reference while it reads, loads or returns.             *)
LEMMA WhatCallsCarry ==
  ASSUME NEW o \in Obj
  PROVE  /\ CarriedBy(Ids!Idle, o) = 0
         /\ \A r : /\ CarriedBy(Ids!Reading(r), o) = 0
                   /\ CarriedBy(Ids!Loading(r), o) = 0
                   /\ CarriedBy(Ids!LoadingNil(r), o) = 0
                   /\ \A x : CarriedBy(Ids!Returning(r, x), o) = 0
                   /\ \A old, new : CarriedBy(Ids!Swapping(r, old, new), o) = KeptBy(new, o)
                   /\ \A new : CarriedBy([at |-> "update", request |-> r, new |-> new], o)
                               = KeptBy(new, o)
         /\ \A f : /\ f.at \notin {"update", "cas"} => CarriedBy(f, o) = 0
                   /\ f.at \in {"update", "cas"} => CarriedBy(f, o) = KeptBy(f.new, o)
         /\ KeptBy(nil, o) = 0
BY SharingAssumption DEF CarriedBy, KeptBy, Ids!Idle, Ids!Reading, Ids!Loading, Ids!LoadingNil,
                         Ids!Returning, Ids!Swapping

(* A call goes on without taking or giving a reference.                    *)
LEMMA QuietBooks ==
  ASSUME IdTyped, Balanced, IdTyped', NEW t \in Thread, NEW f, Ids!Goto(t, f),
         UNCHANGED <<ivarType, ivar, rc, owned, pool, lost>>,
         \A o \in Obj : CarriedBy(f, o) = CarriedBy(ivarFrame[t], o)
  PROVE  Balanced'
<1> SUFFICES ASSUME NEW o \in Obj PROVE BalancedAt(o)'
  BY DEF Balanced
<1>1. ivarFrame'[t] = f /\ \A u \in Thread \ {t} : ivarFrame'[u] = ivarFrame[u]
  BY OneCall
<1>2. lost'[o] > 0 => Ids!Keeps
  BY DEF Balanced, BalancedAt
<1>3. /\ rc[o] \in Int /\ lost[o] \in Int /\ owned[t][o] \in Int /\ pool[t][o] \in Int
      /\ KeptBy(ivar, o) \in Int /\ CarriedBy(f, o) \in Int
  BY DEF IdTyped, KeptBy, CarriedBy
<1>4. rc'[o] - rc[o] = owned'[t][o] - owned[t][o] + pool'[t][o] - pool[t][o]
                       + lost'[o] - lost[o] + KeptBy(ivar', o) - KeptBy(ivar, o)
                       + CarriedBy(ivarFrame'[t], o) - CarriedBy(ivarFrame[t], o)
  BY <1>1, <1>3
<1> QED
  BY <1>1, <1>2, <1>4, BooksAfter

(* Client code allocates and releases, a pool is drained.                  *)
LEMMA AllocBooks ==
  ASSUME IdTyped, Balanced, IdTyped', NEW t \in Thread, Ids!Alloc(t)
  PROVE  Balanced'
<1>1. PICK a \in Obj : /\ rc[a] = 0 /\ lost[a] = 0 /\ rc' = [rc EXCEPT ![a] = 1]
                       /\ owned' = [owned EXCEPT ![t][a] = 1]
  BY DEF Ids!Alloc
<1>2. UNCHANGED <<ivarType, ivar, pool, lost, ivarFrame>>
  BY DEF Ids!Alloc
<1>3. owned[t][a] = 0
  <2>1. rc[a] = Total(owned, a) + Total(pool, a) + lost[a] + KeptBy(ivar, a) + Cardinality(Carriers(a))
    BY DEF Balanced, BalancedAt
  <2>2. /\ Total(owned, a) \in Nat /\ owned[t][a] <= Total(owned, a)
        /\ Total(pool, a) \in Nat
    BY TotalChange DEF IdTyped
  <2>3. Cardinality(Carriers(a)) \in Nat
    <3>1. Carriers(a) \in SUBSET Thread
      BY DEF Carriers
    <3> QED
      BY <3>1, FS_Subset, FS_CardinalityType, SharingAssumption
  <2>4. KeptBy(ivar, a) \in Nat /\ owned[t][a] \in Nat
    BY DEF KeptBy, IdTyped
  <2>5. 0 = Total(owned, a) + Total(pool, a) + KeptBy(ivar, a) + Cardinality(Carriers(a))
    BY <1>1, <2>1, <2>2, <2>3, <2>4
  <2>6. \A v, w, x, y \in Nat : 0 = v + w + x + y => v = 0
    OBVIOUS
  <2>7. Total(owned, a) = 0
    BY <2>2, <2>3, <2>4, <2>5, <2>6
  <2> QED
    BY <2>2, <2>4, <2>7
<1>4. ASSUME NEW o \in Obj PROVE BalancedAt(o)'
  <2>1. lost'[o] > 0 => Ids!Keeps
    BY <1>2 DEF Balanced, BalancedAt
  <2>2. \A u \in Thread \ {t} : /\ ivarFrame'[u] = ivarFrame[u]
                                /\ owned'[u] = owned[u] /\ pool'[u] = pool[u]
    BY <1>1, <1>2 DEF IdTyped
  <2>3. rc'[o] - rc[o] = owned'[t][o] - owned[t][o]
    BY <1>1, <1>3 DEF IdTyped
  <2>4. /\ rc[o] \in Int /\ rc'[o] \in Int /\ lost[o] \in Int /\ pool[t][o] \in Int
        /\ owned[t][o] \in Int /\ owned'[t][o] \in Int
        /\ KeptBy(ivar, o) \in Int /\ CarriedBy(ivarFrame[t], o) \in Int
    BY DEF IdTyped, KeptBy, CarriedBy
  <2>5. rc'[o] - rc[o] = owned'[t][o] - owned[t][o] + pool'[t][o] - pool[t][o]
                         + lost'[o] - lost[o] + KeptBy(ivar', o) - KeptBy(ivar, o)
                         + CarriedBy(ivarFrame'[t], o) - CarriedBy(ivarFrame[t], o)
    BY <1>2, <2>3, <2>4
  <2> QED
    BY <1>2, <2>1, <2>2, <2>5, BooksAfter
<1> QED
  BY <1>4 DEF Balanced

(* Client code and pools release what they hold.                           *)
LEMMA ReleaseBooks ==
  ASSUME IdTyped, Balanced, IdTyped', NEW t \in Thread, Ids!Release(t) \/ Ids!DrainPool(t)
  PROVE  Balanced'
<1> SUFFICES ASSUME NEW o \in Obj PROVE BalancedAt(o)'
  BY DEF Balanced
<1>1. UNCHANGED <<ivarType, ivar, lost, ivarFrame>>
  BY DEF Ids!Release, Ids!DrainPool
<1>2. lost'[o] > 0 => Ids!Keeps
  BY <1>1 DEF Balanced, BalancedAt
<1>3. /\ rc[o] \in Int /\ rc'[o] \in Int /\ lost[o] \in Int
      /\ pool[t][o] \in Int /\ pool'[t][o] \in Int
      /\ owned[t][o] \in Int /\ owned'[t][o] \in Int
      /\ KeptBy(ivar, o) \in Int /\ CarriedBy(ivarFrame[t], o) \in Int
  BY DEF IdTyped, KeptBy, CarriedBy
<1>4. /\ \A u \in Thread \ {t} : owned'[u] = owned[u] /\ pool'[u] = pool[u]
      /\ rc'[o] - rc[o] = owned'[t][o] - owned[t][o] + pool'[t][o] - pool[t][o]
  <2>1. CASE Ids!Release(t)
    <3>1. PICK a \in Obj : /\ rc' = [rc EXCEPT ![a] = @ - 1]
                           /\ owned' = [owned EXCEPT ![t][a] = @ - 1]
      BY <2>1 DEF Ids!Release
    <3>2. pool' = pool
      BY <2>1 DEF Ids!Release
    <3>3. /\ rc'[o] = IF o = a THEN rc[o] - 1 ELSE rc[o]
          /\ owned'[t][o] = IF o = a THEN owned[t][o] - 1 ELSE owned[t][o]
          /\ \A u \in Thread \ {t} : owned'[u] = owned[u]
      BY <3>1 DEF IdTyped
    <3> QED
      BY <1>3, <3>2, <3>3
  <2>2. CASE Ids!DrainPool(t)
    <3>1. /\ rc' = [x \in Obj |-> rc[x] - pool[t][x]] /\ pool' = [pool EXCEPT ![t] = Ids!None]
          /\ owned' = owned
      BY <2>2 DEF Ids!DrainPool
    <3>2. /\ rc'[o] = rc[o] - pool[t][o] /\ pool'[t][o] = 0
          /\ \A u \in Thread \ {t} : pool'[u] = pool[u]
      BY <3>1 DEF IdTyped, Ids!None
    <3>3. rc'[o] - rc[o] = owned'[t][o] - owned[t][o] + pool'[t][o] - pool[t][o]
      <4>1. owned'[t][o] = owned[t][o]
        BY <3>1
      <4> QED
        BY <1>3, <3>2, <4>1
    <3> QED
      BY <3>1, <3>2, <3>3
  <2> QED
    BY <2>1, <2>2
<1>5. rc'[o] - rc[o] = owned'[t][o] - owned[t][o] + pool'[t][o] - pool[t][o]
                       + lost'[o] - lost[o] + KeptBy(ivar', o) - KeptBy(ivar, o)
                       + CarriedBy(ivarFrame'[t], o) - CarriedBy(ivarFrame[t], o)
  BY <1>1, <1>3, <1>4
<1> QED
  BY <1>1, <1>2, <1>4, <1>5, BooksAfter

(* An update takes a reference for the variable before it reads anything.  *)
LEMMA CallBooks ==
  ASSUME IdTyped, Balanced, IdTyped', NEW t \in Thread, NEW r \in Ids!Request, Ids!Call(t, r)
  PROVE  Balanced'
<1>1. ivarFrame[t] = Ids!Idle /\ UNCHANGED <<ivarType, ivar, owned, pool, lost>>
  BY DEF Ids!Call
<1>2. \A o \in Obj : CarriedBy(ivarFrame[t], o) = 0
  BY <1>1, WhatCallsCarry
<1>3. CASE r.op \in Ids!Updates /\ Ids!Keeps /\ r.value # nil
  <2>1. PICK new \in Obj :
          /\ rc' = [rc EXCEPT ![new] = @ + 1]
          /\ Ids!Goto(t, [at |-> "update", request |-> r, new |-> new])
    <3>1. r.value \in Obj
      BY <1>3, RequestKinds DEF Ids!Value
    <3> QED
      BY <1>3, <3>1 DEF Ids!Call, Ids!UpdateStarts
  <2>2. ASSUME NEW o \in Obj PROVE BalancedAt(o)'
    <3>1. /\ \A u \in Thread \ {t} : ivarFrame'[u] = ivarFrame[u]
          /\ CarriedBy(ivarFrame'[t], o) = IF o = new THEN 1 ELSE 0
      BY <1>3, <2>1, OneCall, WhatCallsCarry DEF KeptBy
    <3>2. rc'[o] = IF o = new THEN rc[o] + 1 ELSE rc[o]
      BY <2>1 DEF IdTyped
    <3>3. /\ rc[o] \in Int /\ lost[o] \in Int /\ pool[t][o] \in Int /\ owned[t][o] \in Int
          /\ KeptBy(ivar, o) \in Int
      BY DEF IdTyped, KeptBy
    <3>4. rc'[o] - rc[o] = owned'[t][o] - owned[t][o] + pool'[t][o] - pool[t][o]
                           + lost'[o] - lost[o] + KeptBy(ivar', o) - KeptBy(ivar, o)
                           + CarriedBy(ivarFrame'[t], o) - CarriedBy(ivarFrame[t], o)
      BY <1>1, <1>2, <3>1, <3>2, <3>3
    <3> QED
      BY <1>1, <1>3, <3>1, <3>4, BooksAfter
  <2> QED
    BY <2>2 DEF Balanced
<1>4. CASE r.op \in Ids!Updates /\ (~Ids!Keeps \/ r.value = nil)
  <2>1. /\ Ids!Goto(t, [at |-> "update", request |-> r, new |-> r.value]) /\ UNCHANGED rc
    BY <1>4 DEF Ids!Call, Ids!UpdateStarts
  <2>2. \A o \in Obj : KeptBy(r.value, o) = 0
    BY <1>4, WhatCallsCarry DEF KeptBy
  <2> QED
    BY <1>1, <1>2, <2>1, <2>2, WhatCallsCarry, QuietBooks
<1>5. CASE r.op \notin Ids!Updates
  <2>1. Ids!Goto(t, Ids!Reading(r)) /\ UNCHANGED rc
    BY <1>5 DEF Ids!Call
  <2> QED
    BY <1>1, <1>2, <2>1, WhatCallsCarry, QuietBooks
<1> QED
  BY <1>3, <1>4, <1>5

(* "can't cas with same value": the reference that the update took is      *)
(* nobody's from now on.                                                   *)
LEMMA UpdateReadsBooks ==
  ASSUME IdTyped, Balanced, IdTyped', NEW t \in Thread, Ids!UpdateReads(t)
  PROVE  Balanced'
<1>1. PICK f : f = ivarFrame[t]
  OBVIOUS
<1>2. f.at = "update" /\ f.new \in Ids!Value
  BY <1>1, FrameKinds DEF IdTyped, Ids!UpdateReads
<1>3. UNCHANGED <<ivarType, ivar, rc, owned, pool>>
  BY DEF Ids!UpdateReads
<1>4. \A o \in Obj : CarriedBy(f, o) = KeptBy(f.new, o)
  BY <1>2, WhatCallsCarry
<1>5. CASE ivar = f.new
  <2>1. /\ Ids!Goto(t, Ids!Returning(f.request, ivar))
        /\ lost' = IF Ids!Keeps THEN Ids!Plus(lost, f.new, 1) ELSE lost
    BY <1>1, <1>5 DEF Ids!UpdateReads
  <2>2. ASSUME NEW o \in Obj PROVE BalancedAt(o)'
    <3>1. /\ \A u \in Thread \ {t} : ivarFrame'[u] = ivarFrame[u]
          /\ CarriedBy(ivarFrame'[t], o) = 0
      <4>1. /\ ivarFrame'[t] = Ids!Returning(f.request, ivar)
            /\ \A u \in Thread \ {t} : ivarFrame'[u] = ivarFrame[u]
        BY <2>1, OneCall, Zenon
      <4>2. CarriedBy(Ids!Returning(f.request, ivar), o) = 0
        BY WhatCallsCarry, Zenon
      <4> QED
        BY <4>1, <4>2, Zenon
    <3>2. lost'[o] = lost[o] + KeptBy(f.new, o)
      <4>1. lost \in [Obj -> Int]
        BY DEF IdTyped
      <4>2. Ids!Plus(lost, f.new, 1)[o] = IF o = f.new THEN lost[o] + 1 ELSE lost[o]
        BY <1>2, <4>1, SharingAssumption DEF Ids!Plus, Ids!Value
      <4> QED
        BY <2>1, <4>1, <4>2 DEF KeptBy
    <3>3. /\ rc[o] \in Int /\ lost[o] \in Int /\ pool[t][o] \in Int /\ owned[t][o] \in Int
          /\ KeptBy(ivar, o) \in Int /\ KeptBy(f.new, o) \in Int
      BY DEF IdTyped, KeptBy
    <3>4. lost'[o] > 0 => Ids!Keeps
      <4>1. lost[o] > 0 => Ids!Keeps
        BY DEF Balanced, BalancedAt
      <4> QED
        BY <2>1, <4>1
    <3>5. rc'[o] - rc[o] = owned'[t][o] - owned[t][o] + pool'[t][o] - pool[t][o]
                           + lost'[o] - lost[o] + KeptBy(ivar', o) - KeptBy(ivar, o)
                           + CarriedBy(ivarFrame'[t], o) - CarriedBy(ivarFrame[t], o)
      BY <1>1, <1>3, <1>4, <3>1, <3>2, <3>3
    <3> QED
      BY <1>3, <3>1, <3>4, <3>5, BooksAfter
  <2> QED
    BY <2>2 DEF Balanced
<1>6. CASE ivar # f.new
  <2>1. Ids!Goto(t, Ids!Swapping(f.request, ivar, f.new)) /\ UNCHANGED lost
    BY <1>1, <1>6 DEF Ids!UpdateReads
  <2> QED
    BY <1>1, <1>3, <1>4, <2>1, WhatCallsCarry, QuietBooks
<1> QED
  BY <1>5, <1>6

(* An update hands its reference to the variable, and that of the variable *)
(* to the pool.                                                            *)
LEMMA UpdateBooks ==
  ASSUME IdTyped, Balanced, IdTyped', NEW t \in Thread, Ids!_mulle_atomic_id_update(t)
  PROVE  Balanced'
<1>1. PICK f : f = ivarFrame[t]
  OBVIOUS
<1>2. f.at = "cas" /\ f.old \in Ids!Value /\ f.new \in Ids!Value
  BY <1>1, FrameKinds DEF IdTyped, Ids!_mulle_atomic_id_update
<1>3. UNCHANGED <<ivarType, rc, owned, lost>>
  BY DEF Ids!_mulle_atomic_id_update
<1>4. \A o \in Obj : CarriedBy(f, o) = KeptBy(f.new, o)
  BY <1>2, WhatCallsCarry
<1>5. CASE ivar = f.old
  <2>1. /\ ivar' = f.new /\ Ids!Goto(t, Ids!Returning(f.request, f.old))
        /\ pool' = IF Ids!Keeps THEN Ids!Autoreleased(t, f.old) ELSE pool
    BY <1>1, <1>5 DEF Ids!_mulle_atomic_id_update
  <2>2. ASSUME NEW o \in Obj PROVE BalancedAt(o)'
    <3>1. /\ \A u \in Thread \ {t} : ivarFrame'[u] = ivarFrame[u]
          /\ CarriedBy(ivarFrame'[t], o) = 0
      <4>1. /\ ivarFrame'[t] = Ids!Returning(f.request, f.old)
            /\ \A u \in Thread \ {t} : ivarFrame'[u] = ivarFrame[u]
        BY <2>1, OneCall, Zenon
      <4>2. CarriedBy(Ids!Returning(f.request, f.old), o) = 0
        BY WhatCallsCarry, Zenon
      <4> QED
        BY <4>1, <4>2, Zenon
    <3>2. pool'[t][o] = pool[t][o] + KeptBy(ivar, o)
      <4>1. \A u \in Thread, x \in Obj :
              Ids!Autoreleased(t, f.old)[u][x]
                = IF u = t /\ x = f.old THEN pool[u][x] + 1 ELSE pool[u][x]
        BY <1>2, PlusType
      <4>2. pool[t][o] \in Nat
        BY DEF IdTyped
      <4> QED
        BY <1>5, <2>1, <4>1, <4>2 DEF KeptBy
    <3>3. \A u \in Thread \ {t} : pool'[u] = pool[u]
      <4>1. \A u \in Thread \ {t} : Ids!Autoreleased(t, f.old)[u] = pool[u]
        BY DEF Ids!Autoreleased, IdTyped
      <4> QED
        BY <2>1, <4>1
    <3>4. /\ rc[o] \in Int /\ lost[o] \in Int /\ pool[t][o] \in Int /\ owned[t][o] \in Int
          /\ KeptBy(ivar, o) \in Int /\ KeptBy(f.new, o) \in Int
      BY DEF IdTyped, KeptBy
    <3>5. lost'[o] > 0 => Ids!Keeps
      BY <1>3 DEF Balanced, BalancedAt
    <3>6. KeptBy(ivar', o) = KeptBy(f.new, o)
      BY <2>1
    <3>7. rc'[o] - rc[o] = owned'[t][o] - owned[t][o] + pool'[t][o] - pool[t][o]
                           + lost'[o] - lost[o] + KeptBy(ivar', o) - KeptBy(ivar, o)
                           + CarriedBy(ivarFrame'[t], o) - CarriedBy(ivarFrame[t], o)
      BY <1>1, <1>3, <1>4, <3>1, <3>2, <3>4, <3>6
    <3> QED
      BY <1>3, <3>1, <3>3, <3>5, <3>7, BooksAfter
  <2> QED
    BY <2>2 DEF Balanced
<1>6. CASE ivar # f.old
  <2>1. /\ Ids!Goto(t, [at |-> "update", request |-> f.request, new |-> f.new])
        /\ UNCHANGED <<ivar, pool>>
    BY <1>1, <1>6 DEF Ids!_mulle_atomic_id_update
  <2> QED
    BY <1>1, <1>3, <1>4, <2>1, WhatCallsCarry, QuietBooks
<1> QED
  BY <1>5, <1>6

(* -release of the variable takes its reference along.                     *)
LEMMA ReleaseIvarBooks ==
  ASSUME IdTyped, Balanced, IdTyped', NEW t \in Thread, Ids!_mulle_atomic_id_release(t)
  PROVE  Balanced'
<1>1. PICK f : f = ivarFrame[t]
  OBVIOUS
<1>2. f.at = "cas" /\ f.old \in Obj /\ f.new = nil /\ Ids!Keeps
  BY <1>1, FrameKinds DEF IdTyped, Ids!_mulle_atomic_id_release
<1>3. UNCHANGED <<ivarType, owned, pool, lost>>
  BY DEF Ids!_mulle_atomic_id_release
<1>4. \A o \in Obj : CarriedBy(f, o) = 0
  BY <1>2, WhatCallsCarry
<1>5. CASE ivar = f.old
  <2>1. /\ ivar' = nil /\ rc' = [rc EXCEPT ![f.old] = @ - 1]
        /\ Ids!Goto(t, Ids!Returning(f.request, f.old))
    BY <1>1, <1>5 DEF Ids!_mulle_atomic_id_release
  <2>2. ASSUME NEW o \in Obj PROVE BalancedAt(o)'
    <3>1. /\ \A u \in Thread \ {t} : ivarFrame'[u] = ivarFrame[u]
          /\ CarriedBy(ivarFrame'[t], o) = 0
      <4>1. /\ ivarFrame'[t] = Ids!Returning(f.request, f.old)
            /\ \A u \in Thread \ {t} : ivarFrame'[u] = ivarFrame[u]
        BY <2>1, OneCall, Zenon
      <4>2. CarriedBy(Ids!Returning(f.request, f.old), o) = 0
        BY WhatCallsCarry, Zenon
      <4> QED
        BY <4>1, <4>2, Zenon
    <3>2. rc'[o] = rc[o] - KeptBy(ivar, o)
      BY <1>2, <1>5, <2>1 DEF IdTyped, KeptBy
    <3>3. KeptBy(ivar', o) = 0
      BY <2>1, WhatCallsCarry
    <3>4. /\ rc[o] \in Int /\ lost[o] \in Int /\ pool[t][o] \in Int /\ owned[t][o] \in Int
          /\ KeptBy(ivar, o) \in Int
      BY DEF IdTyped, KeptBy
    <3>5. rc'[o] - rc[o] = owned'[t][o] - owned[t][o] + pool'[t][o] - pool[t][o]
                           + lost'[o] - lost[o] + KeptBy(ivar', o) - KeptBy(ivar, o)
                           + CarriedBy(ivarFrame'[t], o) - CarriedBy(ivarFrame[t], o)
      BY <1>1, <1>3, <1>4, <3>1, <3>2, <3>3, <3>4
    <3> QED
      BY <1>2, <1>3, <3>1, <3>5, BooksAfter
  <2> QED
    BY <2>2 DEF Balanced
<1>6. CASE ivar # f.old
  <2>1. Ids!Goto(t, Ids!Reading(f.request)) /\ UNCHANGED <<ivar, rc>>
    BY <1>1, <1>6 DEF Ids!_mulle_atomic_id_release
  <2> QED
    BY <1>1, <1>3, <1>4, <2>1, WhatCallsCarry, QuietBooks
<1> QED
  BY <1>5, <1>6

(* What the loader returns is autoreleased, if it is new; the call takes a *)
(* reference of its own for the variable.                                  *)
LEMMA LoaderBooks ==
  ASSUME IdTyped, Balanced, IdTyped', NEW t \in Thread, Ids!LoaderReturns(t)
  PROVE  Balanced'
<1>1. PICK x \in Obj, new \in Obj, made \in {0, 1}, keep \in {0, 1} :
        /\ rc' = Ids!Plus(Ids!Plus(rc, x, made), new, keep)
        /\ pool' = (IF made = 1 THEN Ids!Autoreleased(t, x) ELSE pool)
        /\ keep = (IF Ids!Keeps THEN 1 ELSE 0)
        /\ Ids!Goto(t, Ids!Swapping(LazyRequest, nil, new))
  <2>1. PICK x \in Obj, new \in Obj :
          /\ rc' = Ids!Plus(Ids!Plus(rc, x, IF rc[x] = 0 /\ lost[x] = 0 THEN 1 ELSE 0),
                            new, IF Ids!Keeps THEN 1 ELSE 0)
          /\ pool' = (IF rc[x] = 0 /\ lost[x] = 0 THEN Ids!Autoreleased(t, x) ELSE pool)
          /\ Ids!Goto(t, Ids!Swapping(LazyRequest, nil, new))
    BY Zenon DEF Ids!LoaderReturns, LazyRequest
  <2>2. PICK made \in {0, 1} : made = IF rc[x] = 0 /\ lost[x] = 0 THEN 1 ELSE 0
    OBVIOUS
  <2>3. PICK keep \in {0, 1} : keep = IF Ids!Keeps THEN 1 ELSE 0
    OBVIOUS
  <2>4. made = 1 <=> rc[x] = 0 /\ lost[x] = 0
    BY <2>2
  <2>5. rc' = Ids!Plus(Ids!Plus(rc, x, made), new, keep)
    BY <2>1, <2>2, <2>3
  <2>6. pool' = (IF made = 1 THEN Ids!Autoreleased(t, x) ELSE pool)
    BY <2>1, <2>4
  <2> QED
    BY <2>1, <2>3, <2>5, <2>6
<1>2. /\ ivarFrame[t] = Ids!Loading(LazyRequest)
      /\ UNCHANGED <<ivarType, ivar, owned, lost>>
  BY DEF Ids!LoaderReturns, LazyRequest
<1>3. ASSUME NEW o \in Obj PROVE BalancedAt(o)'
  <2>1. /\ \A u \in Thread \ {t} : ivarFrame'[u] = ivarFrame[u]
        /\ ivarFrame'[t] = Ids!Swapping(LazyRequest, nil, new)
    BY <1>1, OneCall, Zenon
  <2>2. CarriedBy(ivarFrame[t], o) = 0 /\ CarriedBy(ivarFrame'[t], o) = KeptBy(new, o)
    BY <1>2, <2>1, WhatCallsCarry
  <2>3. PICK once \in [Obj -> Int] : once = Ids!Plus(rc, x, made)
    <3>1. made \in Int /\ x \in Ids!Value
      BY DEF Ids!Value
    <3> QED
      BY <3>1, PlusType DEF IdTyped
  <2>4. once[o] = IF o = x THEN rc[o] + made ELSE rc[o]
    BY <2>3, SharingAssumption DEF Ids!Plus, IdTyped
  <2>5. rc'[o] = IF o = new THEN once[o] + keep ELSE once[o]
    <3>1. rc' = Ids!Plus(once, new, keep)
      BY <1>1, <2>3
    <3> QED
      BY <3>1, SharingAssumption DEF Ids!Plus
  <2>6. pool'[t][o] = IF o = x THEN pool[t][o] + made ELSE pool[t][o]
    <3>1. Ids!Autoreleased(t, x)[t][o] = IF o = x THEN pool[t][o] + 1 ELSE pool[t][o]
      BY SharingAssumption DEF Ids!Autoreleased, IdTyped
    <3>2. pool[t][o] \in Nat
      BY DEF IdTyped
    <3> QED
      BY <1>1, <3>1, <3>2
  <2>7. \A u \in Thread \ {t} : pool'[u] = pool[u]
    <3>1. \A u \in Thread \ {t} : Ids!Autoreleased(t, x)[u] = pool[u]
      BY DEF Ids!Autoreleased, IdTyped
    <3> QED
      BY <1>1, <3>1
  <2>8. KeptBy(new, o) = IF o = new THEN keep ELSE 0
    BY <1>1 DEF KeptBy
  <2>9. /\ rc[o] \in Int /\ lost[o] \in Int /\ pool[t][o] \in Int /\ owned[t][o] \in Int
        /\ KeptBy(ivar, o) \in Int /\ once[o] \in Int
    BY <2>3 DEF IdTyped, KeptBy
  <2>10. rc'[o] - rc[o] = pool'[t][o] - pool[t][o] + KeptBy(new, o)
    BY <2>4, <2>5, <2>6, <2>8, <2>9
  <2>11. pool'[t][o] \in Int /\ KeptBy(new, o) \in Int /\ rc'[o] \in Int
    BY <2>6, <2>9, <2>8, <2>5
  <2>12. rc'[o] - rc[o] = owned'[t][o] - owned[t][o] + pool'[t][o] - pool[t][o]
                          + lost'[o] - lost[o] + KeptBy(ivar', o) - KeptBy(ivar, o)
                          + CarriedBy(ivarFrame'[t], o) - CarriedBy(ivarFrame[t], o)
    BY <1>2, <2>2, <2>9, <2>10, <2>11
  <2>13. lost'[o] > 0 => Ids!Keeps
    BY <1>2 DEF Balanced, BalancedAt
  <2>14. owned' = owned
    BY <1>2
  <2> QED
    BY <1>2, <2>1, <2>7, <2>12, <2>13, <2>14, BooksAfter
<1> QED
  BY <1>3 DEF Balanced

(* The thread that comes first sets the variable; any other one releases   *)
(* what it has made.                                                       *)
LEMMA LazyBooks ==
  ASSUME IdTyped, Balanced, IdTyped', NEW t \in Thread, Ids!_MulleObjCAtomicIdGetLazy(t)
  PROVE  Balanced'
<1>1. PICK f : f = ivarFrame[t]
  OBVIOUS
<1>2. f.at = "cas" /\ f.new \in Obj
  BY <1>1, FrameKinds DEF IdTyped, Ids!_MulleObjCAtomicIdGetLazy
<1>3. UNCHANGED <<ivarType, owned, pool, lost>>
  BY DEF Ids!_MulleObjCAtomicIdGetLazy
<1>4. \A o \in Obj : CarriedBy(f, o) = KeptBy(f.new, o)
  BY <1>2, WhatCallsCarry
<1>5. PICK g : /\ Ids!Goto(t, g) /\ \A o \in Obj : CarriedBy(g, o) = 0
  <2>1. CASE ivar = nil
    <3>1. Ids!Goto(t, Ids!Returning(f.request, f.new))
      BY <1>1, <2>1 DEF Ids!_MulleObjCAtomicIdGetLazy
    <3>2. \A o \in Obj : CarriedBy(Ids!Returning(f.request, f.new), o) = 0
      BY WhatCallsCarry
    <3> QED
      BY <3>1, <3>2
  <2>2. CASE ivar # nil
    <3>1. Ids!Goto(t, Ids!Reading(f.request))
      BY <1>1, <2>2 DEF Ids!_MulleObjCAtomicIdGetLazy
    <3>2. \A o \in Obj : CarriedBy(Ids!Reading(f.request), o) = 0
      BY WhatCallsCarry
    <3> QED
      BY <3>1, <3>2
  <2> QED
    BY <2>1, <2>2
<1>6. ASSUME NEW o \in Obj PROVE BalancedAt(o)'
  <2>1. /\ \A u \in Thread \ {t} : ivarFrame'[u] = ivarFrame[u]
        /\ ivarFrame'[t] = g
    BY <1>5, OneCall, Zenon
  <2>2. /\ rc[o] \in Int /\ lost[o] \in Int /\ pool[t][o] \in Int /\ owned[t][o] \in Int
        /\ KeptBy(ivar, o) \in Int /\ KeptBy(f.new, o) \in Int /\ KeptBy(nil, o) = 0
    BY WhatCallsCarry DEF IdTyped, KeptBy
  <2>3. rc'[o] \in Int /\ KeptBy(ivar', o) \in Int
    BY DEF IdTyped, KeptBy
  <2>4. rc'[o] - rc[o] = KeptBy(ivar', o) - KeptBy(ivar, o) - KeptBy(f.new, o)
    <3>1. CASE ivar = nil
      <4>1. ivar' = f.new /\ rc' = rc
        BY <1>1, <3>1 DEF Ids!_MulleObjCAtomicIdGetLazy
      <4> QED
        BY <2>2, <3>1, <4>1
    <3>2. CASE ivar # nil
      <4>1. ivar' = ivar /\ rc' = IF Ids!Keeps THEN Ids!Plus(rc, f.new, -1) ELSE rc
        BY <1>1, <3>2 DEF Ids!_MulleObjCAtomicIdGetLazy
      <4>2. Ids!Plus(rc, f.new, -1)[o] = IF o = f.new THEN rc[o] - 1 ELSE rc[o]
        BY <1>2, <2>2, SharingAssumption DEF Ids!Plus, IdTyped
      <4>3. rc'[o] = rc[o] - KeptBy(f.new, o)
        BY <2>2, <4>1, <4>2 DEF KeptBy
      <4> QED
        BY <2>2, <4>1, <4>3
    <3> QED
      BY <3>1, <3>2
  <2>5. rc'[o] - rc[o] = owned'[t][o] - owned[t][o] + pool'[t][o] - pool[t][o]
                         + lost'[o] - lost[o] + KeptBy(ivar', o) - KeptBy(ivar, o)
                         + CarriedBy(ivarFrame'[t], o) - CarriedBy(ivarFrame[t], o)
    BY <1>1, <1>3, <1>4, <1>5, <2>1, <2>2, <2>3, <2>4
  <2>6. lost'[o] > 0 => Ids!Keeps
    BY <1>3 DEF Balanced, BalancedAt
  <2> QED
    BY <1>3, <2>1, <2>5, <2>6, BooksAfter
<1> QED
  BY <1>6 DEF Balanced

(* The other steps of calls.                                               *)
LEMMA QuietSteps ==
  ASSUME IdTyped, Balanced, IdTyped', NEW t \in Thread,
         \/ Ids!_mulle_atomic_id_get(t) \/ Ids!ReleaseReads(t) \/ Ids!LazyReads(t)
         \/ Ids!LoaderReturnsNil(t) \/ Ids!Return(t)
  PROVE  Balanced'
<1>1. UNCHANGED <<ivarType, ivar, rc, owned, pool, lost>>
  BY DEF Ids!_mulle_atomic_id_get, Ids!ReleaseReads, Ids!LazyReads, Ids!LoaderReturnsNil, Ids!Return
<1>2. PICK g : Ids!Goto(t, g) /\ \A o \in Obj : CarriedBy(g, o) = 0
  <2>1. CASE Ids!_mulle_atomic_id_get(t) \/ Ids!LoaderReturnsNil(t) \/ Ids!Return(t)
    BY <2>1, WhatCallsCarry DEF Ids!_mulle_atomic_id_get, Ids!LoaderReturnsNil, Ids!Return
  <2>2. CASE Ids!ReleaseReads(t)
    <3>1. CASE ivar = nil
      BY <2>2, <3>1, WhatCallsCarry DEF Ids!ReleaseReads
    <3>2. CASE ivar # nil
      BY <2>2, <3>2, WhatCallsCarry DEF Ids!ReleaseReads
    <3> QED
      BY <3>1, <3>2
  <2>3. CASE Ids!LazyReads(t)
    BY <2>3, WhatCallsCarry DEF Ids!LazyReads
  <2> QED
    BY <2>1, <2>2, <2>3
<1>3. \A o \in Obj : CarriedBy(ivarFrame[t], o) = 0
  <2>1. CASE Ids!Return(t)
    <3>1. ivarFrame[t].at \notin {"update", "cas"}
      BY <2>1 DEF Ids!Return
    <3> QED
      BY <3>1, WhatCallsCarry
  <2>2. CASE ~Ids!Return(t)
    BY <2>2, WhatCallsCarry DEF Ids!_mulle_atomic_id_get, Ids!ReleaseReads, Ids!LazyReads,
                                Ids!LoaderReturnsNil
  <2> QED
    BY <2>1, <2>2
<1> QED
  BY <1>1, <1>2, <1>3, QuietBooks

(* Nothing is held at first.                                               *)
LEMMA BooksInit == Ids!Init => Balanced
<1> SUFFICES ASSUME Ids!Init, NEW o \in Obj PROVE BalancedAt(o)
  BY DEF Balanced
<1>1. /\ rc[o] = 0 /\ lost[o] = 0 /\ ivar = nil
      /\ owned \in [Thread -> [Obj -> Nat]] /\ pool \in [Thread -> [Obj -> Nat]]
      /\ \A t \in Thread : owned[t][o] = 0 /\ pool[t][o] = 0
  BY DEF Ids!Init, Ids!None
<1>2. Total(owned, o) = 0 /\ Total(pool, o) = 0
  <2>1. PICK F : F = [t \in Thread |-> owned[t][o]]
    OBVIOUS
  <2>2. PICK G : G = [t \in Thread |-> pool[t][o]]
    OBVIOUS
  <2>3. F \in [Thread -> Int] /\ G \in [Thread -> Int]
        /\ \A t \in Thread : F[t] = 0 /\ G[t] = 0
    BY <1>1, <2>1, <2>2
  <2>4. SumFunction(F) = 0 /\ SumFunction(G) = 0
    BY <2>3, SumZero, SharingAssumption
  <2> QED
    BY <2>1, <2>2, <2>4 DEF Total
<1>3. Carriers(o) = {}
  BY DEF Ids!Init, Ids!Idle, Carriers, Ids!Carries
<1>4. KeptBy(ivar, o) = 0 /\ Cardinality(Carriers(o)) = 0
  BY <1>1, <1>3, WhatCallsCarry, FS_EmptySet
<1> QED
  BY <1>1, <1>2, <1>4 DEF BalancedAt

(* Every step keeps the books.                                             *)
LEMMA BooksStep ==
  ASSUME IdTyped, Balanced, IdTyped', [Ids!Next]_Ids!vars
  PROVE  Balanced'
<1>1. CASE UNCHANGED Ids!vars
  <2>1. UNCHANGED <<ivarType, ivar, rc, owned, pool, lost, ivarFrame>>
    BY <1>1 DEF Ids!vars
  <2> QED
    BY <2>1 DEF Balanced, BalancedAt, Total, KeptBy, Carriers, Ids!Carries, Ids!Keeps
<1>2. ASSUME NEW t \in Thread, Ids!Alloc(t) \/ Ids!Release(t) \/ Ids!DrainPool(t)
      PROVE  Balanced'
  BY <1>2, AllocBooks, ReleaseBooks
<1>3. ASSUME NEW t \in Thread, NEW r \in Ids!Request, Ids!Call(t, r) PROVE Balanced'
  BY <1>3, CallBooks
<1>4. ASSUME NEW t \in Thread, Ids!UpdateReads(t) \/ Ids!_mulle_atomic_id_update(t)
      PROVE  Balanced'
  BY <1>4, UpdateReadsBooks, UpdateBooks
<1>5. ASSUME NEW t \in Thread,
             \/ Ids!_mulle_atomic_id_get(t) \/ Ids!ReleaseReads(t)
             \/ Ids!_mulle_atomic_id_release(t)
      PROVE  Balanced'
  BY <1>5, QuietSteps, ReleaseIvarBooks
<1>6. ASSUME NEW t \in Thread,
             \/ Ids!LazyReads(t) \/ Ids!LoaderReturnsNil(t) \/ Ids!LoaderReturns(t)
             \/ Ids!_MulleObjCAtomicIdGetLazy(t)
      PROVE  Balanced'
  BY <1>6, QuietSteps, LoaderBooks, LazyBooks
<1>7. ASSUME NEW t \in Thread, Ids!Return(t) PROVE Balanced'
  BY <1>7, QuietSteps
<1> QED
  BY <1>1, <1>2, <1>3, <1>4, <1>5, <1>6, <1>7 DEF Ids!Next

(* Every reference to an object is accounted for, so that none is released *)
(* twice, or too early: retain counts are the sum of what callers own, of  *)
(* what pools will release, of what the variable and calls in progress     *)
(* hold, and of what setting the same object twice lost.                   *)
THEOREM IdReferences == Ids!Spec => []IvarReferencesBalance
<1>1. IdTyped /\ Balanced /\ [Ids!Next]_Ids!vars => (IdTyped /\ Balanced)'
  BY IdStep, BooksStep
<1>2. Ids!Init => IdTyped /\ Balanced
  BY IdInit, BooksInit
<1>3. Balanced => IvarReferencesBalance
  BY BalancedMeans
<1> QED
  BY <1>1, <1>2, <1>3, PTL DEF Ids!Spec

-----------------------------------------------------------------------------
(* The table of threads (ThreadRegistry), for any number of threads and of *)
(* lookups.                                                                *)

Places == {"c", "registering", "registered", "client", "finalized", "reset",
           "deregistered", "gone"}

Kept == {"_runLoop", "_userInfo", "_map"}

Ivars == [_osThreadId : Os, _runLoop : Obj \cup {nil}, _userInfo : Obj \cup {nil},
          _map : Obj \cup {nil}, finalized : BOOLEAN]

SetterCall == [at : {"idle", "cas"}, thr : Thr \cup {nil}, runLoop : Obj \cup {nil}]

RegistryTyped ==
  /\ threads \in [Os -> Thr \cup {nil}]
  /\ threadobject \in [Os -> Thr \cup {nil}]
  /\ self \in [Os -> Thr \cup {nil}]
  /\ mainthreadobject \in Thr \cup {nil}
  /\ place \in [Os -> Places]
  /\ threadIvars \in [Thr -> Ivars]
  /\ threadRc \in [Thr \cup Obj -> Int]
  /\ threadPool \in [Os -> [Thr \cup Obj -> Nat]]
  /\ runLoopSetter \in [Os -> SetterCall]

(* What the table and the thread itself know of its NSThread, at each      *)
(* place of its way in and out.                                            *)
PlaceAt(o) ==
  /\ self[o] = nil <=> place[o] \in {"c", "gone"}
  /\ threads[o] = IF place[o] \in {"registered", "client", "finalized", "reset"}
                  THEN self[o] ELSE nil
  /\ threadobject[o] = IF place[o] \in {"client", "finalized", "reset"} THEN self[o] ELSE nil
  /\ self[o] # nil =>
       /\ threadIvars[self[o]]._osThreadId = o
       /\ threadIvars[self[o]].finalized <=> place[o] \in {"finalized", "reset", "deregistered"}

MainAt ==
  /\ mainthreadobject = self[Main]
  /\ place[Main] \notin {"c", "registering", "registered"}

OneOwner == \A o, p \in Os : self[o] = self[p] /\ self[o] # nil => o = p

(* Only the NSThread of a thread that is not on its way out keeps anything. *)
EmptyAt(t) ==
  (\A o \in Os : self[o] = t => threadIvars[t].finalized) =>
    \A f \in Kept : threadIvars[t][f] = nil

(* A thread sets the run loop of an NSThread that is not finalized         *)
(* meanwhile, and later the one that it got is still there.                *)
SetterAt(o) ==
  IF runLoopSetter[o].thr = nil THEN runLoopSetter[o].at = "idle"
  ELSE /\ place[o] = "client" /\ runLoopSetter[o].thr \in {self[o], self[Main]}
       /\ runLoopSetter[o].runLoop # nil
       /\ ~threadIvars[runLoopSetter[o].thr].finalized
       /\ runLoopSetter[o].at = "idle" =>
            threadIvars[runLoopSetter[o].thr]._runLoop = runLoopSetter[o].runLoop

RegistryFits ==
  /\ RegistryTyped
  /\ MainAt /\ OneOwner
  /\ \A o \in Os : PlaceAt(o) /\ SetterAt(o)
  /\ \A t \in Thr : EmptyAt(t)

(* Who has a reference to x: pools, the thread that runs it, the NSThreads *)
(* that keep it, and calls that set it.                                    *)
Pending(x) == SumFunction([o \in Os |-> threadPool[o][x]])
Runners(x) == {o \in Os : self[o] = x}
Slots(x)   == {s \in Thr \X Kept : threadIvars[s[1]][s[2]] = x}
Setters(x) == {o \in Os : runLoopSetter[o].at = "cas" /\ runLoopSetter[o].runLoop = x}

ThreadBalancedAt(x) ==
  threadRc[x] = Pending(x) + Cardinality(Runners(x)) + Cardinality(Slots(x))
                + Cardinality(Setters(x))

RegistryInv == RegistryFits /\ \A x \in Thr \cup Obj : ThreadBalancedAt(x)

-----------------------------------------------------------------------------
(* Counting references.                                                    *)

Is(y, x)       == IF y = x THEN 1 ELSE 0
SlotsOf(v, x)  == Is(v._runLoop, x) + Is(v._userInfo, x) + Is(v._map, x)
SetsTo(c, x)   == IF c.at = "cas" /\ c.runLoop = x THEN 1 ELSE 0

(* An NSThread keeps finitely many things.                                 *)
LEMMA KeptFinite == IsFiniteSet(Kept)
<1>1. IsFiniteSet({"_runLoop"})
  BY FS_Singleton
<1>2. IsFiniteSet({"_runLoop"} \cup {"_userInfo"})
  BY <1>1, FS_AddElement
<1>3. IsFiniteSet(({"_runLoop"} \cup {"_userInfo"}) \cup {"_map"})
  BY <1>2, FS_AddElement
<1>4. Kept = ({"_runLoop"} \cup {"_userInfo"}) \cup {"_map"}
  BY DEF Kept
<1> QED
  BY <1>3, <1>4

(* The counts are natural numbers, and count this thread and NSThread.     *)
LEMMA CountTypes ==
  ASSUME RegistryTyped, NEW x \in Thr \cup Obj
  PROVE  /\ Pending(x) \in Nat /\ \A o \in Os : threadPool[o][x] <= Pending(x)
         /\ IsFiniteSet(Runners(x)) /\ Cardinality(Runners(x)) \in Nat
         /\ IsFiniteSet(Slots(x)) /\ Cardinality(Slots(x)) \in Nat
         /\ IsFiniteSet(Setters(x)) /\ Cardinality(Setters(x)) \in Nat
<1>1. Pending(x) \in Nat /\ \A o \in Os : threadPool[o][x] <= Pending(x)
  <2>1. PICK F : F = [o \in Os |-> threadPool[o][x]]
    OBVIOUS
  <2>2. F \in [Os -> Nat]
    BY <2>1 DEF RegistryTyped
  <2>3. SumFunction(F) \in Nat /\ \A o \in Os : F[o] <= SumFunction(F)
    BY <2>2, SumNat, SharingAssumption
  <2> QED
    BY <2>1, <2>3 DEF Pending
<1>2. Runners(x) \in SUBSET Os /\ Setters(x) \in SUBSET Os
  BY DEF Runners, Setters
<1>3. IsFiniteSet(Thr \X Kept)
  BY KeptFinite, FS_Product, SharingAssumption
<1>4. Slots(x) \in SUBSET (Thr \X Kept)
  BY DEF Slots
<1>5. IsFiniteSet(Runners(x)) /\ IsFiniteSet(Slots(x)) /\ IsFiniteSet(Setters(x))
  BY <1>2, <1>3, <1>4, FS_Subset, SharingAssumption
<1> QED
  BY <1>1, <1>5, FS_CardinalityType

(* What the pool of one thread will release changes.                       *)
LEMMA PendingChange ==
  ASSUME RegistryTyped, RegistryTyped', NEW x \in Thr \cup Obj, NEW o \in Os,
         \A p \in Os \ {o} : threadPool'[p][x] = threadPool[p][x]
  PROVE  Pending(x)' = Pending(x) + threadPool'[o][x] - threadPool[o][x]
<1>1. PICK F : F = [p \in Os |-> threadPool[p][x]]
  OBVIOUS
<1>2. PICK G : G = [p \in Os |-> threadPool'[p][x]]
  OBVIOUS
<1>3. F \in [Os -> Int] /\ G \in [Os -> Int]
  BY <1>1, <1>2 DEF RegistryTyped
<1>4. \A p \in Os \ {o} : F[p] = G[p]
  BY <1>1, <1>2
<1>5. IsFiniteSet(Os)
  BY SharingAssumption
<1>6. SumFunction(G) = SumFunction(F) + G[o] - F[o]
  BY <1>3, <1>4, <1>5, SumChange
<1>7. Pending(x) = SumFunction(F) /\ Pending(x)' = SumFunction(G)
  BY <1>1, <1>2 DEF Pending
<1> QED
  BY <1>1, <1>2, <1>6, <1>7

(* What one NSThread keeps changes.                                        *)
LEMMA SlotsChange ==
  ASSUME RegistryTyped, RegistryTyped', NEW x \in Thr \cup Obj, NEW t \in Thr,
         \A u \in Thr \ {t} : threadIvars'[u] = threadIvars[u]
  PROVE  Cardinality(Slots(x)') = Cardinality(Slots(x)) + SlotsOf(threadIvars'[t], x)
                                                        - SlotsOf(threadIvars[t], x)
<1>1. PICK A : A = Slots(x)
  OBVIOUS
<1>2. PICK D : D = Slots(x)'
  OBVIOUS
<1>3. PICK a : a = <<t, "_runLoop">>
  OBVIOUS
<1>4. PICK b : b = <<t, "_userInfo">>
  OBVIOUS
<1>5. PICK c : c = <<t, "_map">>
  OBVIOUS
<1>6. PICK S : S = Thr \X Kept
  OBVIOUS
<1>7. a \in S /\ b \in S /\ c \in S /\ a # b /\ a # c /\ b # c
  BY <1>3, <1>4, <1>5, <1>6 DEF Kept
<1>8. A \in SUBSET S /\ D \in SUBSET S
  BY <1>1, <1>2, <1>6 DEF Slots
<1>9. IsFiniteSet(S)
  BY <1>6, KeptFinite, FS_Product, SharingAssumption
<1>10. \A s \in S \ {a, b, c} : s \in A <=> s \in D
  <2> SUFFICES ASSUME NEW s \in S \ {a, b, c} PROVE s \in A <=> s \in D
    OBVIOUS
  <2>1. s \in Thr \X Kept /\ s[1] \in Thr \ {t}
    BY <1>3, <1>4, <1>5, <1>6 DEF Kept
  <2>2. threadIvars'[s[1]] = threadIvars[s[1]]
    BY <2>1
  <2> QED
    BY <1>1, <1>2, <2>1, <2>2 DEF Slots
<1>11. PICK B \in SUBSET S : B = {s \in S : IF s = a THEN s \in D ELSE s \in A}
  OBVIOUS
<1>12. PICK C \in SUBSET S : C = {s \in S : IF s \in {a, b} THEN s \in D ELSE s \in A}
  OBVIOUS
<1>13. \A s \in S \ {a} : s \in A <=> s \in B
  BY <1>11
<1>14. \A s \in S \ {b} : s \in B <=> s \in C
  BY <1>11, <1>12
<1>15. \A s \in S \ {c} : s \in C <=> s \in D
  BY <1>10, <1>12
<1>16. /\ Cardinality(A) \in Nat /\ Cardinality(B) \in Nat
       /\ Cardinality(B) = Cardinality(A) + (IF a \in B THEN 1 ELSE 0) - (IF a \in A THEN 1 ELSE 0)
  BY <1>7, <1>8, <1>9, <1>13, CountChange
<1>17. /\ Cardinality(C) \in Nat
       /\ Cardinality(C) = Cardinality(B) + (IF b \in C THEN 1 ELSE 0) - (IF b \in B THEN 1 ELSE 0)
  BY <1>7, <1>8, <1>9, <1>14, CountChange
<1>18. /\ Cardinality(D) \in Nat
       /\ Cardinality(D) = Cardinality(C) + (IF c \in D THEN 1 ELSE 0) - (IF c \in C THEN 1 ELSE 0)
  BY <1>7, <1>8, <1>9, <1>15, CountChange
<1>19. /\ (a \in B <=> a \in D) /\ (b \in C <=> b \in D)
       /\ (b \in B <=> b \in A) /\ (c \in C <=> c \in A)
  BY <1>7, <1>11, <1>12
<1>20. /\ a \in A <=> threadIvars[t]._runLoop = x
       /\ b \in A <=> threadIvars[t]._userInfo = x
       /\ c \in A <=> threadIvars[t]._map = x
  BY <1>1, <1>3, <1>4, <1>5 DEF Slots, Kept
<1>21. /\ a \in D <=> threadIvars'[t]._runLoop = x
       /\ b \in D <=> threadIvars'[t]._userInfo = x
       /\ c \in D <=> threadIvars'[t]._map = x
  BY <1>2, <1>3, <1>4, <1>5 DEF Slots, Kept
<1>22. SlotsOf(threadIvars[t], x) = (IF a \in A THEN 1 ELSE 0) + (IF b \in A THEN 1 ELSE 0)
                                    + (IF c \in A THEN 1 ELSE 0)
  BY <1>20 DEF SlotsOf, Is
<1>23. SlotsOf(threadIvars'[t], x) = (IF a \in D THEN 1 ELSE 0) + (IF b \in D THEN 1 ELSE 0)
                                     + (IF c \in D THEN 1 ELSE 0)
  BY <1>21 DEF SlotsOf, Is
<1>24. PICK i \in Int, j \in Int, k \in Int, l \in Int, m \in Int, n \in Int :
         /\ i = (IF a \in A THEN 1 ELSE 0) /\ j = (IF b \in A THEN 1 ELSE 0)
         /\ k = (IF c \in A THEN 1 ELSE 0) /\ l = (IF a \in D THEN 1 ELSE 0)
         /\ m = (IF b \in D THEN 1 ELSE 0) /\ n = (IF c \in D THEN 1 ELSE 0)
  OBVIOUS
<1>25. /\ Cardinality(B) = Cardinality(A) + l - i
       /\ Cardinality(C) = Cardinality(B) + m - j
       /\ Cardinality(D) = Cardinality(C) + n - k
  BY <1>16, <1>17, <1>18, <1>19, <1>24
<1>26. Cardinality(D) = Cardinality(A) + (l + m + n) - (i + j + k)
  BY <1>16, <1>17, <1>18, <1>25
<1> QED
  BY <1>1, <1>2, <1>22, <1>23, <1>24, <1>26

(* The counts are right after a step of one thread that is about one       *)
(* NSThread, if what it did to the retain count is what it did to the      *)
(* holders.                                                                *)
LEMMA BalancedAfter ==
  ASSUME RegistryTyped, RegistryTyped', NEW x \in Thr \cup Obj, ThreadBalancedAt(x),
         NEW o \in Os, NEW t \in Thr,
         \A p \in Os \ {o} : /\ threadPool'[p][x] = threadPool[p][x] /\ self'[p] = self[p]
                             /\ runLoopSetter'[p] = runLoopSetter[p],
         \A u \in Thr \ {t} : threadIvars'[u] = threadIvars[u],
         threadRc'[x] - threadRc[x] =
           threadPool'[o][x] - threadPool[o][x] + Is(self'[o], x) - Is(self[o], x)
           + SlotsOf(threadIvars'[t], x) - SlotsOf(threadIvars[t], x)
           + SetsTo(runLoopSetter'[o], x) - SetsTo(runLoopSetter[o], x)
  PROVE  ThreadBalancedAt(x)'
<1>1. Pending(x)' = Pending(x) + threadPool'[o][x] - threadPool[o][x]
  BY PendingChange
<1>2. Cardinality(Slots(x)') = Cardinality(Slots(x)) + SlotsOf(threadIvars'[t], x)
                                                     - SlotsOf(threadIvars[t], x)
  BY SlotsChange
<1>3. Cardinality(Runners(x)') = Cardinality(Runners(x)) + Is(self'[o], x) - Is(self[o], x)
  <2>1. Runners(x) \in SUBSET Os /\ Runners(x)' \in SUBSET Os
        /\ \A p \in Os \ {o} : p \in Runners(x) <=> p \in Runners(x)'
    BY DEF Runners
  <2>2. Cardinality(Runners(x)') = Cardinality(Runners(x))
          + (IF o \in Runners(x)' THEN 1 ELSE 0) - (IF o \in Runners(x) THEN 1 ELSE 0)
    BY <2>1, CountChange, SharingAssumption
  <2>3. /\ Is(self'[o], x) = IF o \in Runners(x)' THEN 1 ELSE 0
        /\ Is(self[o], x) = IF o \in Runners(x) THEN 1 ELSE 0
    BY DEF Runners, Is
  <2> QED
    BY <2>2, <2>3
<1>4. Cardinality(Setters(x)') = Cardinality(Setters(x)) + SetsTo(runLoopSetter'[o], x)
                                                         - SetsTo(runLoopSetter[o], x)
  <2>1. Setters(x) \in SUBSET Os /\ Setters(x)' \in SUBSET Os
        /\ \A p \in Os \ {o} : p \in Setters(x) <=> p \in Setters(x)'
    BY DEF Setters
  <2>2. Cardinality(Setters(x)') = Cardinality(Setters(x))
          + (IF o \in Setters(x)' THEN 1 ELSE 0) - (IF o \in Setters(x) THEN 1 ELSE 0)
    BY <2>1, CountChange, SharingAssumption
  <2>3. /\ SetsTo(runLoopSetter'[o], x) = IF o \in Setters(x)' THEN 1 ELSE 0
        /\ SetsTo(runLoopSetter[o], x) = IF o \in Setters(x) THEN 1 ELSE 0
    BY DEF Setters, SetsTo
  <2> QED
    BY <2>2, <2>3
<1>5. /\ Pending(x) \in Nat /\ Cardinality(Runners(x)) \in Nat /\ Cardinality(Slots(x)) \in Nat
      /\ Cardinality(Setters(x)) \in Nat
  BY CountTypes
<1>6. /\ threadRc[x] \in Int /\ threadRc'[x] \in Int
      /\ threadPool[o][x] \in Nat /\ threadPool'[o][x] \in Nat
  BY DEF RegistryTyped
<1>7. /\ \A y : Is(y, x) \in Int
      /\ \A v : SlotsOf(v, x) \in Int
      /\ \A c : SetsTo(c, x) \in Int
  BY DEF Is, SlotsOf, SetsTo
<1>8. threadRc[x] = Pending(x) + Cardinality(Runners(x)) + Cardinality(Slots(x))
                    + Cardinality(Setters(x))
  BY DEF ThreadBalancedAt
<1>9. threadRc'[x] = Pending(x)' + Cardinality(Runners(x)') + Cardinality(Slots(x)')
                     + Cardinality(Setters(x)')
  <2>1. PICK i \in Int, j \in Int, k \in Int, l \in Int, m \in Int, n \in Int :
          /\ i = Is(self'[o], x) /\ j = Is(self[o], x)
          /\ k = SlotsOf(threadIvars'[t], x) /\ l = SlotsOf(threadIvars[t], x)
          /\ m = SetsTo(runLoopSetter'[o], x) /\ n = SetsTo(runLoopSetter[o], x)
    BY <1>7
  <2>2. threadRc'[x] - threadRc[x] = threadPool'[o][x] - threadPool[o][x] + i - j + k - l + m - n
    BY <2>1
  <2>3. /\ Cardinality(Slots(x)') = Cardinality(Slots(x)) + k - l
        /\ Cardinality(Runners(x)') = Cardinality(Runners(x)) + i - j
        /\ Cardinality(Setters(x)') = Cardinality(Setters(x)) + m - n
    BY <1>2, <1>3, <1>4, <2>1
  <2>4. PICK a \in Nat, b \in Nat, c \in Nat, d \in Nat, e \in Nat, f \in Nat :
          /\ a = Pending(x) /\ b = Cardinality(Runners(x)) /\ c = Cardinality(Slots(x))
          /\ d = Cardinality(Setters(x)) /\ e = threadPool[o][x] /\ f = threadPool'[o][x]
    BY <1>5, <1>6
  <2>5. PICK g \in Int, h \in Int : g = threadRc[x] /\ h = threadRc'[x]
    BY <1>6
  <2>6. g = a + b + c + d /\ h - g = f - e + i - j + k - l + m - n
    BY <1>8, <2>2, <2>4, <2>5
  <2>7. h = (a + f - e) + (b + i - j) + (c + k - l) + (d + m - n)
    BY <2>6
  <2>8. /\ Pending(x)' = a + f - e /\ Cardinality(Runners(x)') = b + i - j
        /\ Cardinality(Slots(x)') = c + k - l /\ Cardinality(Setters(x)') = d + m - n
    BY <1>1, <2>3, <2>4
  <2> QED
    BY <2>5, <2>7, <2>8
<1> QED
  BY <1>9 DEF ThreadBalancedAt

-----------------------------------------------------------------------------
(* The steps.                                                              *)

(* Client code of an NSThread that is there.                               *)
LEMMA AtPlace ==
  ASSUME RegistryFits, NEW o \in Os
  PROVE  /\ place[o] \notin {"c", "gone"} => self[o] \in Thr /\ self[o] # nil
         /\ place[o] # "client" => runLoopSetter[o].thr = nil /\ runLoopSetter[o].at = "idle"
         /\ \A p \in Os \ {o} : self[p] = self[o] => self[p] = nil
         /\ place[o] = "client" => threadobject[o] = self[o] /\ ~threadIvars[self[o]].finalized
BY SharingAssumption DEF RegistryFits, RegistryTyped, PlaceAt, SetterAt, OneOwner

(* A thread goes in and out of the table.                                  *)
LEMMA TableSteps ==
  ASSUME RegistryInv, NEW o \in Os,
         \/ Registry!_MulleThreadRegisterInUniverse(o) \/ Registry!SetThreadObject(o)
         \/ place[o] = "reset" /\ Registry!_MulleThreadTakedownPoolAndRelease(o)
  PROVE  RegistryInv'
<1>1. UNCHANGED <<self, mainthreadobject, threadIvars, threadRc, threadPool, runLoopSetter>>
  BY DEF Registry!_MulleThreadRegisterInUniverse, Registry!SetThreadObject,
         Registry!_MulleThreadTakedownPoolAndRelease
<1>2. \/ /\ place[o] = "registering" /\ place' = [place EXCEPT ![o] = "registered"]
         /\ threads' = [threads EXCEPT ![o] = self[o]] /\ UNCHANGED threadobject
      \/ /\ place[o] = "registered" /\ place' = [place EXCEPT ![o] = "client"]
         /\ threadobject' = [threadobject EXCEPT ![o] = self[o]] /\ UNCHANGED threads
      \/ /\ place[o] = "reset" /\ place' = [place EXCEPT ![o] = "deregistered"]
         /\ threads' = [threads EXCEPT ![o] = nil]
         /\ threadobject' = [threadobject EXCEPT ![o] = nil]
  BY DEF Registry!_MulleThreadRegisterInUniverse, Registry!SetThreadObject,
         Registry!_MulleThreadTakedownPoolAndRelease, Registry!Goto, Registry!LeaveTable,
         Registry!_mulle_objc_universe_set_threadobject_for_thread_id,
         Registry!_mulle_objc_universe_remove_threadobject_for_thread_id
<1>3. \A x \in Thr \cup Obj : ThreadBalancedAt(x)'
  BY <1>1 DEF RegistryInv, ThreadBalancedAt, Pending, Runners, Slots, Setters
<1>4. RegistryTyped'
  BY <1>1, <1>2 DEF RegistryInv, RegistryFits, RegistryTyped, Places
<1>o. OneOwner'
  BY <1>1 DEF RegistryInv, RegistryFits, OneOwner
<1>5. MainAt'
  BY <1>1, <1>2, SharingAssumption DEF RegistryInv, RegistryFits, RegistryTyped, MainAt
<1>6. ASSUME NEW p \in Os PROVE PlaceAt(p)'
  BY <1>1, <1>2 DEF RegistryInv, RegistryFits, RegistryTyped, PlaceAt
<1>7. ASSUME NEW p \in Os PROVE SetterAt(p)'
  BY <1>1, <1>2, AtPlace DEF RegistryInv, RegistryFits, RegistryTyped, SetterAt
<1>8. ASSUME NEW t \in Thr PROVE EmptyAt(t)'
  BY <1>1 DEF RegistryInv, RegistryFits, EmptyAt
<1> QED
  BY <1>o, <1>3, <1>4, <1>5, <1>6, <1>7, <1>8 DEF RegistryInv, RegistryFits

(* A step that changes no record of an NSThread keeps the books if each    *)
(* change of a count is one of the thread's pool or of its own NSThread.   *)
LEMMA PoolBalance ==
  ASSUME RegistryInv, RegistryTyped', NEW o \in Os, NEW t \in Thr,
         UNCHANGED <<threadIvars, runLoopSetter>>,
         \A p \in Os \ {o} : threadPool'[p] = threadPool[p] /\ self'[p] = self[p],
         NEW x \in Thr \cup Obj,
         threadRc'[x] - threadRc[x] =
           threadPool'[o][x] - threadPool[o][x] + Is(self'[o], x) - Is(self[o], x)
  PROVE  ThreadBalancedAt(x)'
<1>1. PICK i \in Int, j \in Int :
        /\ i = SlotsOf(threadIvars[t], x) /\ i = SlotsOf(threadIvars'[t], x)
        /\ j = SetsTo(runLoopSetter[o], x) /\ j = SetsTo(runLoopSetter'[o], x)
  BY DEF SlotsOf, SetsTo, Is
<1>2. PICK d \in Int :
        /\ d = threadRc'[x] - threadRc[x]
        /\ d = threadPool'[o][x] - threadPool[o][x] + Is(self'[o], x) - Is(self[o], x)
  BY DEF RegistryInv, RegistryFits, RegistryTyped
<1>3. threadRc'[x] - threadRc[x] =
         threadPool'[o][x] - threadPool[o][x] + Is(self'[o], x) - Is(self[o], x)
         + SlotsOf(threadIvars'[t], x) - SlotsOf(threadIvars[t], x)
         + SetsTo(runLoopSetter'[o], x) - SetsTo(runLoopSetter[o], x)
  <2>1. d = d + i - i + j - j
    OBVIOUS
  <2> QED
    BY <1>1, <1>2, <2>1
<1>4. RegistryTyped /\ ThreadBalancedAt(x)
  BY DEF RegistryInv, RegistryFits
<1>5. /\ \A p \in Os \ {o} : /\ threadPool'[p][x] = threadPool[p][x] /\ self'[p] = self[p]
                             /\ runLoopSetter'[p] = runLoopSetter[p]
      /\ \A u \in Thr \ {t} : threadIvars'[u] = threadIvars[u]
  OBVIOUS
<1> QED
  BY <1>3, <1>4, <1>5, BalancedAfter

(* What the pool of o is to release changes with the counts.               *)
PoolOnly(o) ==
  /\ threadRc' \in [Thr \cup Obj -> Int] /\ threadPool' \in [Os -> [Thr \cup Obj -> Nat]]
  /\ \A p \in Os \ {o} : threadPool'[p] = threadPool[p]
  /\ \A x \in Thr \cup Obj :
       threadRc'[x] - threadRc[x] = threadPool'[o][x] - threadPool[o][x]

(* References that pools have.                                             *)
LEMMA PoolSteps ==
  ASSUME RegistryInv, NEW o \in Os,
         \/ \E id \in Os : Registry!Lookup(o, id)
         \/ \E v \in Obj : Registry!NewValue(o, v)
         \/ Registry!PopPool(o) \/ Registry!mulle_objc_thread_reset_poolconfiguration(o)
  PROVE  RegistryInv'
<1>1. /\ UNCHANGED <<self, mainthreadobject, threads, threadobject, threadIvars, runLoopSetter>>
      /\ \/ place[o] = "client" /\ UNCHANGED place
         \/ place[o] = "finalized" /\ place' = [place EXCEPT ![o] = "reset"]
  BY DEF Registry!Lookup, Registry!NewValue, Registry!PopPool,
         Registry!mulle_objc_thread_reset_poolconfiguration, Registry!Goto, Registry!Client,
         Registry!registry
<1>2. RegistryTyped
  BY DEF RegistryInv, RegistryFits
<1>3. PoolOnly(o)
  <2>1. ASSUME NEW id \in Os, Registry!Lookup(o, id), threads[id] = nil PROVE PoolOnly(o)
    BY <1>2, <2>1 DEF Registry!Lookup, RegistryTyped, PoolOnly,
       Registry!_mulle_objc_universe_lookup_threadobject_for_thread_id
  <2>2. ASSUME NEW id \in Os, Registry!Lookup(o, id), threads[id] # nil PROVE PoolOnly(o)
    <3>1. PICK t \in Thr : t = threads[id]
      BY <1>2, <2>2 DEF RegistryTyped, PoolOnly
    <3>2. /\ threadRc' = [threadRc EXCEPT ![t] = @ + 1]
          /\ threadPool' = [threadPool EXCEPT ![o][t] = @ + 1]
      BY <2>2, <3>1 DEF Registry!Lookup,
         Registry!_mulle_objc_universe_lookup_threadobject_for_thread_id
    <3> QED
      BY <1>2, <3>2 DEF RegistryTyped, PoolOnly
  <2>3. ASSUME NEW v \in Obj, Registry!NewValue(o, v) PROVE PoolOnly(o)
    <3>1. /\ threadRc[v] = 0 /\ threadRc' = [threadRc EXCEPT ![v] = 1]
          /\ threadPool' = [threadPool EXCEPT ![o][v] = 1]
      BY <2>3 DEF Registry!NewValue
    <3>2. threadPool[o][v] = 0
      <4>1. PICK a \in Nat, b \in Nat, c \in Nat, d \in Nat :
              a = Pending(v) /\ b = Cardinality(Runners(v)) /\ c = Cardinality(Slots(v))
              /\ d = Cardinality(Setters(v))
        BY <1>2, CountTypes
      <4>2. 0 = a + b + c + d
        BY <3>1, <4>1 DEF RegistryInv, ThreadBalancedAt
      <4>3. threadPool[o][v] \in Nat /\ threadPool[o][v] <= a
        BY <1>2, <4>1, CountTypes DEF RegistryTyped, PoolOnly
      <4> QED
        BY <4>2, <4>3
    <3> QED
      BY <1>2, <3>1, <3>2 DEF RegistryTyped, PoolOnly
  <2>4. ASSUME Registry!Drain(o) PROVE PoolOnly(o)
    <3>1. /\ threadRc' = [x \in Thr \cup Obj |-> threadRc[x] - threadPool[o][x]]
          /\ threadPool' = [threadPool EXCEPT ![o] = [x \in Thr \cup Obj |-> 0]]
      BY <2>4 DEF Registry!Drain, Registry!Object, Registry!Empty
    <3> QED
      BY <1>2, <3>1 DEF RegistryTyped, PoolOnly
  <2> QED
    BY <2>1, <2>2, <2>3, <2>4 DEF Registry!PopPool,
       Registry!mulle_objc_thread_reset_poolconfiguration
<1>4. RegistryTyped'
  BY <1>1, <1>2, <1>3 DEF RegistryTyped, Places, PoolOnly
<1>5. self[o] \in Thr
  BY <1>1, AtPlace DEF RegistryInv
<1>6. ASSUME NEW x \in Thr \cup Obj PROVE ThreadBalancedAt(x)'
  <2>1. Is(self[o], x) \in Int /\ self'[o] = self[o]
    BY <1>1 DEF Is
  <2>2. threadPool'[o][x] - threadPool[o][x] \in Int
    BY <1>2, <1>4 DEF RegistryTyped, PoolOnly
  <2>3. threadRc'[x] - threadRc[x] =
          threadPool'[o][x] - threadPool[o][x] + Is(self'[o], x) - Is(self[o], x)
    BY <1>3, <2>1, <2>2 DEF PoolOnly
  <2>4. \A p \in Os \ {o} : threadPool'[p] = threadPool[p] /\ self'[p] = self[p]
    BY <1>1, <1>3 DEF PoolOnly
  <2> QED
    BY <1>1, <1>4, <1>5, <2>3, <2>4, PoolBalance
<1>o. OneOwner'
  BY <1>1 DEF RegistryInv, RegistryFits, OneOwner
<1>7. MainAt'
  BY <1>1, SharingAssumption DEF RegistryInv, RegistryFits, RegistryTyped, MainAt
<1>8. ASSUME NEW p \in Os PROVE PlaceAt(p)'
  BY <1>1 DEF RegistryInv, RegistryFits, RegistryTyped, PlaceAt
<1>9. ASSUME NEW p \in Os PROVE SetterAt(p)'
  BY <1>1, AtPlace DEF RegistryInv, RegistryFits, RegistryTyped, SetterAt
<1>10. ASSUME NEW t \in Thr PROVE EmptyAt(t)'
  BY <1>1 DEF RegistryInv, RegistryFits, EmptyAt
<1> QED
  BY <1>o, <1>4, <1>6, <1>7, <1>8, <1>9, <1>10 DEF RegistryInv, RegistryFits

(* A C thread gets an NSThread, at an address that nobody uses.            *)
LEMMA CreateSteps ==
  ASSUME RegistryInv, NEW o \in Os,
         \/ Registry!MulleThreadGetOrCreateCurrentThread(o)
         \/ Registry!mulle_objc_thread_get_poolconfiguration(o)
  PROVE  RegistryInv'
<1>1. PICK t \in Thr :
        /\ threadRc[t] = 0 /\ threadRc' = [threadRc EXCEPT ![t] = 1]
        /\ threadIvars' = [threadIvars EXCEPT ![t] = Registry!NSThread(o)]
        /\ self' = [self EXCEPT ![o] = t] /\ place' = [place EXCEPT ![o] = "registering"]
        /\ place[o] = "c"
        /\ UNCHANGED <<threads, mainthreadobject, threadobject, threadPool, runLoopSetter>>
  BY DEF Registry!MulleThreadGetOrCreateCurrentThread, Registry!Goto,
     Registry!mulle_objc_thread_get_poolconfiguration,
     Registry!__MulleThreadCreateThreadObjectInUniverse
<1>2. PICK v : v = Registry!NSThread(o)
  OBVIOUS
<1>3. /\ v \in Ivars /\ v._osThreadId = o /\ ~v.finalized
      /\ v._runLoop = nil /\ v._userInfo = nil /\ v._map = nil
      /\ \A f \in Kept : v[f] = nil
  BY <1>2 DEF Registry!NSThread, Ivars, Kept
<1>4. RegistryTyped
  BY DEF RegistryInv, RegistryFits
<1>5. \A p \in Os : self[p] # t
  <2>1. PICK a \in Nat, b \in Nat, c \in Nat, d \in Nat :
          a = Pending(t) /\ b = Cardinality(Runners(t)) /\ c = Cardinality(Slots(t))
          /\ d = Cardinality(Setters(t))
    BY <1>4, CountTypes
  <2>2. 0 = a + b + c + d
    BY <1>1, <2>1 DEF RegistryInv, ThreadBalancedAt
  <2>3. b = 0
    BY <2>2
  <2>4. Runners(t) = {}
    BY <1>4, <2>1, <2>3, CountTypes, FS_EmptySet
  <2> QED
    BY <2>4 DEF Runners
<1>6. /\ threadIvars'[t] = v /\ \A u \in Thr \ {t} : threadIvars'[u] = threadIvars[u]
      /\ self'[o] = t /\ \A p \in Os \ {o} : self'[p] = self[p]
      /\ place'[o] = "registering" /\ \A p \in Os \ {o} : place'[p] = place[p]
  BY <1>1, <1>2, <1>4 DEF RegistryTyped
<1>7. RegistryTyped'
  BY <1>1, <1>2, <1>3, <1>4 DEF RegistryTyped, Places
<1>8. o # Main /\ self[o] = nil
  BY <1>1 DEF RegistryInv, RegistryFits, MainAt, PlaceAt
<1>9. MainAt' /\ OneOwner'
  BY <1>1, <1>5, <1>6, <1>8, SharingAssumption DEF RegistryInv, RegistryFits, MainAt, OneOwner
<1>10. ASSUME NEW p \in Os PROVE PlaceAt(p)'
  <2>1. CASE p = o
    <3>1. threads[o] = nil /\ threadobject[o] = nil
      BY <1>1 DEF RegistryInv, RegistryFits, PlaceAt
    <3> QED
      BY <1>1, <1>3, <1>6, <2>1, <3>1, SharingAssumption DEF PlaceAt
  <2>2. CASE p # o
    <3>1. self[p] # nil => self[p] \in Thr \ {t}
      BY <1>4, <1>5 DEF RegistryTyped
    <3> QED
      BY <1>1, <1>6, <2>2, <3>1 DEF RegistryInv, RegistryFits, PlaceAt
  <2> QED
    BY <2>1, <2>2
<1>11. ASSUME NEW p \in Os PROVE SetterAt(p)'
  <2>1. CASE runLoopSetter[p].thr = nil
    BY <1>1, <2>1 DEF RegistryInv, RegistryFits, SetterAt
  <2>2. CASE runLoopSetter[p].thr # nil
    <3>1. p # o /\ Main # o /\ Main \in Os
      BY <1>1, <1>8, <2>2, AtPlace, SharingAssumption DEF RegistryInv
    <3>2. runLoopSetter[p].thr \in Thr \ {t}
      BY <1>4, <1>5, <2>2, SharingAssumption DEF RegistryInv, RegistryFits, SetterAt, RegistryTyped, SetterCall
    <3> QED
      BY <1>1, <1>6, <2>2, <3>1, <3>2 DEF RegistryInv, RegistryFits, SetterAt
  <2> QED
    BY <2>1, <2>2
<1>12. ASSUME NEW u \in Thr PROVE EmptyAt(u)'
  <2>1. CASE u = t
    BY <1>3, <1>6, <2>1 DEF EmptyAt
  <2>2. CASE u # t
    BY <1>5, <1>6, <1>8, <2>2, SharingAssumption DEF RegistryInv, RegistryFits, EmptyAt
  <2> QED
    BY <2>1, <2>2
<1>13. ASSUME NEW x \in Thr \cup Obj PROVE ThreadBalancedAt(x)'
  <2>1. SlotsOf(threadIvars'[t], x) = 0
    BY <1>3, <1>6, SharingAssumption DEF SlotsOf, Is
  <2>2. SlotsOf(threadIvars[t], x) = 0
    <3>1. \A f \in Kept : threadIvars[t][f] = nil
      BY <1>5 DEF RegistryInv, RegistryFits, EmptyAt
    <3>2. threadIvars[t]._runLoop = nil /\ threadIvars[t]._userInfo = nil /\ threadIvars[t]._map = nil
      BY <3>1 DEF Kept
    <3> QED
      BY <3>2, SharingAssumption DEF SlotsOf, Is
  <2>3. Is(self[o], x) = 0 /\ Is(self'[o], x) = IF x = t THEN 1 ELSE 0
    BY <1>6, <1>8, SharingAssumption DEF Is
  <2>4. PICK j \in Int : j = SetsTo(runLoopSetter[o], x) /\ j = SetsTo(runLoopSetter'[o], x)
    BY <1>1 DEF SetsTo
  <2>5. threadRc[x] \in Int /\ threadRc'[x] = threadRc[x] + (IF x = t THEN 1 ELSE 0)
    BY <1>1, <1>4 DEF RegistryTyped
  <2>6. PICK a \in Int : a = threadPool[o][x] /\ a = threadPool'[o][x]
    BY <1>1, <1>4 DEF RegistryTyped
  <2>7. PICK i \in Int : i = IF x = t THEN 1 ELSE 0
    OBVIOUS
  <2>8. threadRc'[x] - threadRc[x] = a - a + i - 0 + 0 - 0 + j - j
    BY <2>5, <2>7
  <2>9. threadRc'[x] - threadRc[x] =
         threadPool'[o][x] - threadPool[o][x] + Is(self'[o], x) - Is(self[o], x)
         + SlotsOf(threadIvars'[t], x) - SlotsOf(threadIvars[t], x)
         + SetsTo(runLoopSetter'[o], x) - SetsTo(runLoopSetter[o], x)
    BY <2>1, <2>2, <2>3, <2>4, <2>6, <2>7, <2>8
  <2>10. \A p \in Os \ {o} : /\ threadPool'[p][x] = threadPool[p][x] /\ self'[p] = self[p]
                             /\ runLoopSetter'[p] = runLoopSetter[p]
    BY <1>1, <1>6
  <2>11. ThreadBalancedAt(x)
    BY DEF RegistryInv
  <2> QED
    BY <1>4, <1>6, <1>7, <2>9, <2>10, <2>11, BalancedAfter
<1> QED
  BY <1>7, <1>9, <1>10, <1>11, <1>12, <1>13 DEF RegistryInv, RegistryFits

(* A thread gives its NSThread up, which keeps nothing anymore.            *)
LEMMA GiveUpSteps ==
  ASSUME RegistryInv, NEW o \in Os, place[o] = "deregistered",
         Registry!_MulleThreadTakedownPoolAndRelease(o)
  PROVE  RegistryInv'
<1>1. PICK t \in Thr : t = self[o]
  BY AtPlace DEF RegistryInv
<1>2. /\ threadRc' = [threadRc EXCEPT ![t] = @ - 1]
      /\ self' = [self EXCEPT ![o] = nil]
      /\ mainthreadobject' = IF o = Main THEN nil ELSE mainthreadobject
      /\ place' = [place EXCEPT ![o] = IF o = Main THEN "gone" ELSE "c"]
      /\ UNCHANGED <<threads, threadobject, threadIvars, threadPool, runLoopSetter>>
  BY <1>1 DEF Registry!_MulleThreadTakedownPoolAndRelease, Registry!GiveUp, Registry!Goto
<1>3. RegistryTyped
  BY DEF RegistryInv, RegistryFits
<1>4. RegistryTyped'
  BY <1>2, <1>3 DEF RegistryTyped, Places
<1>5. /\ self'[o] = nil /\ \A p \in Os \ {o} : self'[p] = self[p]
      /\ place'[o] \in {"c", "gone"} /\ \A p \in Os \ {o} : place'[p] = place[p]
      /\ o = Main => place'[o] = "gone"
  BY <1>2, <1>3 DEF RegistryTyped
<1>6. t # nil /\ threadIvars[t].finalized /\ \A p \in Os \ {o} : self[p] # t
  BY <1>1, AtPlace, SharingAssumption DEF RegistryInv, RegistryFits, PlaceAt
<1>7. MainAt' /\ OneOwner'
  BY <1>2, <1>5, SharingAssumption DEF RegistryInv, RegistryFits, MainAt, OneOwner
<1>8. ASSUME NEW p \in Os PROVE PlaceAt(p)'
  <2>1. CASE p = o
    <3>1. threads[o] = nil /\ threadobject[o] = nil
      BY DEF RegistryInv, RegistryFits, PlaceAt
    <3> QED
      BY <1>2, <1>5, <2>1, <3>1 DEF PlaceAt
  <2>2. CASE p # o
    BY <1>2, <1>5, <2>2 DEF RegistryInv, RegistryFits, PlaceAt
  <2> QED
    BY <2>1, <2>2
<1>9. ASSUME NEW p \in Os PROVE SetterAt(p)'
  <2>1. CASE runLoopSetter[p].thr = nil
    BY <1>2, <2>1 DEF RegistryInv, RegistryFits, SetterAt
  <2>2. CASE runLoopSetter[p].thr # nil
    <3>1. p # o /\ runLoopSetter[p].thr # t
      BY <1>6, <2>2, AtPlace DEF RegistryInv, RegistryFits, SetterAt
    <3>2. self[p] = self'[p] /\ self'[Main] \in {self[Main], nil}
          /\ (self'[Main] # self[Main] => self[Main] = t)
      BY <1>1, <1>5, <3>1, SharingAssumption
    <3> QED
      BY <1>2, <1>5, <2>2, <3>1, <3>2 DEF RegistryInv, RegistryFits, SetterAt
  <2> QED
    BY <2>1, <2>2
<1>10. ASSUME NEW u \in Thr PROVE EmptyAt(u)'
  BY <1>1, <1>2, <1>5, <1>6 DEF RegistryInv, RegistryFits, EmptyAt
<1>11. ASSUME NEW x \in Thr \cup Obj PROVE ThreadBalancedAt(x)'
  <2>1. Is(self'[o], x) = 0 /\ Is(self[o], x) = IF x = t THEN 1 ELSE 0
    BY <1>1, <1>5, SharingAssumption DEF Is
  <2>2. PICK a \in Int : a = threadPool[o][x] /\ a = threadPool'[o][x]
    BY <1>2, <1>3 DEF RegistryTyped
  <2>3. threadRc[x] \in Int /\ threadRc'[x] = threadRc[x] - (IF x = t THEN 1 ELSE 0)
    BY <1>2, <1>3 DEF RegistryTyped
  <2>4. PICK i \in Int : i = IF x = t THEN 1 ELSE 0
    OBVIOUS
  <2>5. threadRc'[x] - threadRc[x] = a - a + 0 - i
    BY <2>3, <2>4
  <2>6. threadRc'[x] - threadRc[x] =
          threadPool'[o][x] - threadPool[o][x] + Is(self'[o], x) - Is(self[o], x)
    BY <2>1, <2>2, <2>4, <2>5
  <2>7. \A p \in Os \ {o} : threadPool'[p] = threadPool[p] /\ self'[p] = self[p]
    BY <1>2, <1>5
  <2> QED
    BY <1>2, <1>4, <2>6, <2>7, PoolBalance
<1> QED
  BY <1>4, <1>7, <1>8, <1>9, <1>10, <1>11 DEF RegistryInv, RegistryFits

(* A thread keeps its books if what its step adds to a count is what it    *)
(* adds to its pool, to what an NSThread keeps and to its own calls.       *)
LEMMA BooksKept ==
  ASSUME RegistryInv, RegistryTyped', NEW o \in Os, NEW t \in Thr, NEW x \in Thr \cup Obj,
         UNCHANGED self,
         \A p \in Os \ {o} : threadPool'[p] = threadPool[p] /\ runLoopSetter'[p] = runLoopSetter[p],
         \A u \in Thr \ {t} : threadIvars'[u] = threadIvars[u],
         NEW d \in Int, NEW e \in Int, NEW s \in Int, NEW c \in Int, d = e + s + c,
         threadRc'[x] = threadRc[x] + d, threadPool'[o][x] = threadPool[o][x] + e,
         SlotsOf(threadIvars'[t], x) = SlotsOf(threadIvars[t], x) + s,
         SetsTo(runLoopSetter'[o], x) = SetsTo(runLoopSetter[o], x) + c
  PROVE  ThreadBalancedAt(x)'
<1>1. RegistryTyped /\ ThreadBalancedAt(x)
  BY DEF RegistryInv, RegistryFits
<1>2. PICK i \in Int, j \in Int, k \in Int, l \in Int, m \in Int :
        /\ i = threadRc[x] /\ j = threadPool[o][x] /\ k = SlotsOf(threadIvars[t], x)
        /\ l = SetsTo(runLoopSetter[o], x) /\ m = Is(self[o], x)
  BY <1>1 DEF RegistryTyped, SlotsOf, SetsTo, Is
<1>3. Is(self'[o], x) = m
  BY <1>2
<1>4. (i + d) - i = (j + e) - j + m - m + (k + s) - k + (l + c) - l
  BY <1>2
<1>5. threadRc'[x] - threadRc[x] =
         threadPool'[o][x] - threadPool[o][x] + Is(self'[o], x) - Is(self[o], x)
         + SlotsOf(threadIvars'[t], x) - SlotsOf(threadIvars[t], x)
         + SetsTo(runLoopSetter'[o], x) - SetsTo(runLoopSetter[o], x)
  BY <1>2, <1>3, <1>4
<1>6. \A p \in Os \ {o} : /\ threadPool'[p][x] = threadPool[p][x] /\ self'[p] = self[p]
                          /\ runLoopSetter'[p] = runLoopSetter[p]
  OBVIOUS
<1> QED
  BY <1>1, <1>5, <1>6, BalancedAfter

(* The NSThread t of the thread p, that is not on its way out, keeps       *)
(* something else; a run loop that is set stays.                           *)
LEMMA RecordFits ==
  ASSUME RegistryFits, RegistryTyped', NEW p \in Os, NEW t \in Thr, self[p] = t,
         UNCHANGED <<threads, mainthreadobject, threadobject, place, self>>,
         \A u \in Thr \ {t} : threadIvars'[u] = threadIvars[u],
         threadIvars'[t]._osThreadId = threadIvars[t]._osThreadId,
         ~threadIvars[t].finalized, ~threadIvars'[t].finalized,
         threadIvars[t]._runLoop # nil => threadIvars'[t]._runLoop = threadIvars[t]._runLoop
  PROVE  /\ MainAt' /\ OneOwner'
         /\ \A o \in Os : PlaceAt(o)'
         /\ \A u \in Thr : EmptyAt(u)'
         /\ \A o \in Os : runLoopSetter'[o] = runLoopSetter[o] => SetterAt(o)'
<1>1. MainAt' /\ OneOwner'
  BY DEF RegistryFits, MainAt, OneOwner
<1>2. t # nil /\ RegistryTyped /\ Main \in Os
  BY SharingAssumption DEF RegistryFits
<1>3. ASSUME NEW o \in Os PROVE PlaceAt(o)'
  <2>1. CASE self[o] = t
    BY <1>2, <2>1 DEF RegistryFits, PlaceAt
  <2>2. CASE self[o] # t
    <3>1. self[o] # nil => self[o] \in Thr \ {t}
      BY <1>2, <2>2 DEF RegistryTyped
    <3> QED
      BY <3>1 DEF RegistryFits, PlaceAt
  <2> QED
    BY <2>1, <2>2
<1>4. ASSUME NEW u \in Thr PROVE EmptyAt(u)'
  <2>1. CASE u = t
    BY <2>1 DEF EmptyAt
  <2>2. CASE u # t
    BY <2>2 DEF RegistryFits, EmptyAt
  <2> QED
    BY <2>1, <2>2
<1>5. ASSUME NEW o \in Os, runLoopSetter'[o] = runLoopSetter[o] PROVE SetterAt(o)'
  <2>1. CASE runLoopSetter[o].thr = nil
    BY <1>5, <2>1 DEF RegistryFits, SetterAt
  <2>2. CASE runLoopSetter[o].thr = t
    BY <1>2, <1>5, <2>2 DEF RegistryFits, SetterAt
  <2>3. CASE runLoopSetter[o].thr \in Thr \ {t}
    <3>1. runLoopSetter[o].thr # nil
      BY <2>3, SharingAssumption
    <3>2. threadIvars'[runLoopSetter[o].thr] = threadIvars[runLoopSetter[o].thr]
      BY <2>3
    <3> QED
      BY <1>5, <3>1, <3>2 DEF RegistryFits, SetterAt
  <2>4. runLoopSetter[o].thr \in Thr \cup {nil}
    BY <1>2 DEF RegistryTyped, SetterCall
  <2> QED
    BY <2>1, <2>2, <2>3, <2>4
<1> QED
  BY <1>1, <1>3, <1>4, <1>5

(* The calls a thread makes find it at work.                               *)
LEMMA ClientIs ==
  ASSUME RegistryInv, NEW o \in Os, Registry!Client(o)
  PROVE  /\ RegistryTyped /\ place[o] = "client" /\ runLoopSetter[o].at = "idle"
         /\ self[o] \in Thr /\ self[o] # nil /\ threadobject[o] = self[o]
         /\ ~threadIvars[self[o]].finalized
BY AtPlace DEF RegistryInv, RegistryFits, Registry!Client

(* What an NSThread is given that is not on its way out.                   *)
LEMMA KeepSteps ==
  ASSUME RegistryInv, NEW o \in Os,
         \/ \E v \in Obj \cup {nil} : Registry!MulleThreadSetCurrentThreadUserInfo(o, v)
         \/ \E v \in Obj : Registry!MulleThreadSetObjectForKeyUTF8String(o, v)
  PROVE  RegistryInv'
<1>1. Registry!Client(o) /\ UNCHANGED <<threads, mainthreadobject, threadobject, place, self, runLoopSetter>>
  BY DEF Registry!MulleThreadSetCurrentThreadUserInfo, Registry!registry,
     Registry!MulleThreadSetObjectForKeyUTF8String
<1>2. PICK t \in Thr : t = self[o] /\ t = threadobject[o] /\ t # nil
  BY <1>1, ClientIs
<1>3. RegistryTyped /\ ~threadIvars[t].finalized
  BY <1>1, <1>2, ClientIs
<1>4. PICK r : r = threadIvars[t]
  OBVIOUS
<1>5. r \in Ivars
  BY <1>3, <1>4 DEF RegistryTyped
<1>6. PICK v \in Obj \cup {nil}, n \in Ivars :
        /\ threadIvars' = [threadIvars EXCEPT ![t] = n]
        /\ n._osThreadId = r._osThreadId /\ n.finalized = r.finalized /\ n._runLoop = r._runLoop
        /\ \/ /\ n._userInfo = v /\ n._map = r._map
              /\ threadRc' = [x \in Thr \cup Obj |-> IF x = v THEN threadRc[x] + 1 ELSE threadRc[x]]
              /\ threadPool' = [threadPool EXCEPT ![o] =
                   [x \in Thr \cup Obj |-> IF x = r._userInfo THEN threadPool[o][x] + 1
                                           ELSE threadPool[o][x]]]
           \/ /\ n._userInfo = r._userInfo /\ n._map = v /\ v # r._map
              /\ threadRc' = [x \in Thr \cup Obj |->
                   IF x = v THEN threadRc[x] + 1
                   ELSE IF x = r._map THEN threadRc[x] - 1 ELSE threadRc[x]]
              /\ threadPool' = threadPool
  <2>1. ASSUME NEW v \in Obj \cup {nil}, Registry!MulleThreadSetCurrentThreadUserInfo(o, v)
        PROVE  \E n \in Ivars :
        /\ threadIvars' = [threadIvars EXCEPT ![t] = n]
        /\ n._osThreadId = r._osThreadId /\ n.finalized = r.finalized /\ n._runLoop = r._runLoop
        /\ n._userInfo = v /\ n._map = r._map
        /\ threadRc' = [x \in Thr \cup Obj |-> IF x = v THEN threadRc[x] + 1 ELSE threadRc[x]]
        /\ threadPool' = [threadPool EXCEPT ![o] =
             [x \in Thr \cup Obj |-> IF x = r._userInfo THEN threadPool[o][x] + 1
                                     ELSE threadPool[o][x]]]
    <3>1. PICK n : n = [r EXCEPT !._userInfo = v]
      OBVIOUS
    <3>2. /\ n \in Ivars /\ n._osThreadId = r._osThreadId /\ n.finalized = r.finalized
          /\ n._runLoop = r._runLoop /\ n._userInfo = v /\ n._map = r._map
      BY <1>5, <3>1 DEF Ivars
    <3>3. threadIvars' = [threadIvars EXCEPT ![t]._userInfo = v]
      BY <1>2, <2>1 DEF Registry!MulleThreadSetCurrentThreadUserInfo,
         Registry!MulleThreadGetCurrentThread
    <3>4. threadIvars' = [threadIvars EXCEPT ![t] = n]
      BY <1>3, <1>4, <3>1, <3>3 DEF RegistryTyped
    <3>5. /\ threadRc' = [x \in Thr \cup Obj |-> IF x = v THEN threadRc[x] + 1 ELSE threadRc[x]]
          /\ threadPool' = [threadPool EXCEPT ![o] =
               [x \in Thr \cup Obj |-> IF x = r._userInfo THEN threadPool[o][x] + 1
                                       ELSE threadPool[o][x]]]
      BY <1>2, <1>3, <1>4, <2>1 DEF Registry!MulleThreadSetCurrentThreadUserInfo, Registry!Object,
         Registry!MulleThreadGetCurrentThread, Registry!MulleThreadGetCurrentThreadUserInfo,
         RegistryTyped
    <3> QED
      BY <3>2, <3>4, <3>5
  <2>2. ASSUME NEW v \in Obj, Registry!MulleThreadSetObjectForKeyUTF8String(o, v)
        PROVE  \E n \in Ivars :
        /\ threadIvars' = [threadIvars EXCEPT ![t] = n]
        /\ n._osThreadId = r._osThreadId /\ n.finalized = r.finalized /\ n._runLoop = r._runLoop
        /\ n._userInfo = r._userInfo /\ n._map = v /\ v # r._map
        /\ threadRc' = [x \in Thr \cup Obj |->
             IF x = v THEN threadRc[x] + 1
             ELSE IF x = r._map THEN threadRc[x] - 1 ELSE threadRc[x]]
        /\ threadPool' = threadPool
    <3>1. PICK n : n = [r EXCEPT !._map = v]
      OBVIOUS
    <3>2. /\ n \in Ivars /\ n._osThreadId = r._osThreadId /\ n.finalized = r.finalized
          /\ n._runLoop = r._runLoop /\ n._userInfo = r._userInfo /\ n._map = v
      BY <1>5, <3>1 DEF Ivars
    <3>3. threadIvars' = [threadIvars EXCEPT ![t]._map = v]
      BY <1>2, <2>2 DEF Registry!MulleThreadSetObjectForKeyUTF8String,
         Registry!MulleThreadGetCurrentThread
    <3>4. threadIvars' = [threadIvars EXCEPT ![t] = n]
      BY <1>3, <1>4, <3>1, <3>3 DEF RegistryTyped
    <3>5. /\ v # r._map
          /\ threadRc' = [x \in Thr \cup Obj |->
               IF x = v THEN threadRc[x] + 1
               ELSE IF x = r._map THEN threadRc[x] - 1 ELSE threadRc[x]]
          /\ threadPool' = threadPool
      BY <1>2, <1>4, <2>2 DEF Registry!MulleThreadSetObjectForKeyUTF8String, Registry!Object,
         Registry!MulleThreadGetCurrentThread, Registry!MulleThreadObjectForKeyUTF8String
    <3> QED
      BY <3>2, <3>4, <3>5
  <2>3. CASE \E v \in Obj \cup {nil} : Registry!MulleThreadSetCurrentThreadUserInfo(o, v)
    BY <2>1, <2>3
  <2>4. CASE \E v \in Obj : Registry!MulleThreadSetObjectForKeyUTF8String(o, v)
    BY <2>2, <2>4
  <2> QED
    BY <2>3, <2>4
<1>7. /\ threadIvars'[t] = n /\ \A u \in Thr \ {t} : threadIvars'[u] = threadIvars[u]
      /\ \A p \in Os \ {o} : threadPool'[p] = threadPool[p]
  BY <1>3, <1>6 DEF RegistryTyped
<1>8. RegistryTyped'
  <2>1. threadIvars' \in [Thr -> Ivars]
    BY <1>3, <1>6 DEF RegistryTyped
  <2>2. threadRc' \in [Thr \cup Obj -> Int]
    BY <1>3, <1>6 DEF RegistryTyped
  <2>3. threadPool' \in [Os -> [Thr \cup Obj -> Nat]]
    <3>1. PICK P : P = [x \in Thr \cup Obj |-> IF x = r._userInfo THEN threadPool[o][x] + 1
                                               ELSE threadPool[o][x]]
      OBVIOUS
    <3>2. P \in [Thr \cup Obj -> Nat]
      BY <1>3, <3>1 DEF RegistryTyped
    <3>3. threadPool' = [threadPool EXCEPT ![o] = P] \/ threadPool' = threadPool
      BY <1>6, <3>1
    <3> QED
      BY <1>3, <3>2, <3>3 DEF RegistryTyped
  <2> QED
    BY <1>1, <1>3, <2>1, <2>2, <2>3 DEF RegistryTyped
<1>9. /\ MainAt' /\ OneOwner' /\ \A p \in Os : PlaceAt(p)' /\ \A u \in Thr : EmptyAt(u)'
      /\ \A p \in Os : runLoopSetter'[p] = runLoopSetter[p] => SetterAt(p)'
  <2>1. /\ threadIvars'[t]._osThreadId = threadIvars[t]._osThreadId
        /\ ~threadIvars'[t].finalized
        /\ threadIvars[t]._runLoop # nil => threadIvars'[t]._runLoop = threadIvars[t]._runLoop
    BY <1>3, <1>4, <1>6, <1>7
  <2>2. self[o] = t /\ ~threadIvars[t].finalized
    BY <1>2, <1>3
  <2> QED
    BY <1>1, <1>7, <1>8, <2>1, <2>2, RecordFits DEF RegistryInv
<1>10. ASSUME NEW x \in Thr \cup Obj PROVE ThreadBalancedAt(x)'
  <2>1. PICK a \in Int, b \in Int, d \in Int :
          /\ a = Is(v, x) /\ b = Is(n._userInfo, x) - Is(r._userInfo, x)
          /\ d = Is(n._map, x) - Is(r._map, x)
    BY DEF Is
  <2>2. PICK e \in Int : e = threadPool'[o][x] - threadPool[o][x]
    BY <1>3, <1>8 DEF RegistryTyped
  <2>3. threadPool'[o][x] = threadPool[o][x] + e
    BY <1>3, <1>8, <2>2 DEF RegistryTyped
  <2>4. SlotsOf(n, x) = SlotsOf(r, x) + (b + d)
    BY <1>6, <2>1 DEF SlotsOf, Is
  <2>5. threadRc'[x] = threadRc[x] + (e + (b + d) + 0)
    <3>1. CASE /\ n._userInfo = v /\ n._map = r._map
               /\ threadRc' = [y \in Thr \cup Obj |-> IF y = v THEN threadRc[y] + 1 ELSE threadRc[y]]
               /\ threadPool' = [threadPool EXCEPT ![o] =
                    [y \in Thr \cup Obj |-> IF y = r._userInfo THEN threadPool[o][y] + 1
                                            ELSE threadPool[o][y]]]
      <4>1. e = IF x = r._userInfo THEN 1 ELSE 0
        BY <1>3, <2>2, <3>1 DEF RegistryTyped
      <4>2. b = a - e /\ d = 0
        BY <2>1, <3>1, <4>1 DEF Is
      <4>3. threadRc[x] \in Int /\ threadRc'[x] = threadRc[x] + a
        BY <1>3, <2>1, <3>1 DEF RegistryTyped, Is
      <4>4. a = e + (b + d) + 0
        BY <4>2
      <4> QED
        BY <4>3, <4>4
    <3>2. CASE /\ n._userInfo = r._userInfo /\ n._map = v /\ v # r._map
               /\ threadRc' = [y \in Thr \cup Obj |->
                    IF y = v THEN threadRc[y] + 1
                    ELSE IF y = r._map THEN threadRc[y] - 1 ELSE threadRc[y]]
               /\ threadPool' = threadPool
      <4>1. e = 0
        BY <1>3, <2>2, <3>2 DEF RegistryTyped
      <4>2. b = 0 /\ d = (IF x = v THEN 1 ELSE 0) - (IF x = r._map THEN 1 ELSE 0)
        BY <2>1, <3>2 DEF Is
      <4>3. threadRc[x] \in Int /\ threadRc'[x] = threadRc[x] + d
        BY <1>3, <3>2, <4>2 DEF RegistryTyped
      <4>4. d = e + (b + d) + 0
        BY <4>1, <4>2
      <4> QED
        BY <4>3, <4>4
    <3> QED
      BY <1>6, <3>1, <3>2
  <2>6. PICK z \in Int : z = 0 /\ SetsTo(runLoopSetter'[o], x) = SetsTo(runLoopSetter[o], x) + z
    BY <1>1 DEF SetsTo
  <2>7. PICK g \in Int, s \in Int : g = e + (b + d) + 0 /\ s = b + d /\ g = e + s + z
    BY <2>6
  <2>8. threadRc'[x] = threadRc[x] + g /\ SlotsOf(threadIvars'[t], x) = SlotsOf(threadIvars[t], x) + s
    BY <1>4, <1>7, <2>4, <2>5, <2>7
  <2>9. \A p \in Os \ {o} : threadPool'[p] = threadPool[p] /\ runLoopSetter'[p] = runLoopSetter[p]
    BY <1>1, <1>7
  <2>10. UNCHANGED self /\ \A u \in Thr \ {t} : threadIvars'[u] = threadIvars[u]
    BY <1>1, <1>7
  <2>11. g = e + s + z
    BY <2>7
  <2> QED
    BY <1>8, <2>3, <2>6, <2>8, <2>9, <2>10, <2>11, BooksKept
<1> QED
  BY <1>1, <1>8, <1>9, <1>10 DEF RegistryInv, RegistryFits

(* A run loop is retained for the own NSThread or that of the main thread. *)
LEMMA RetainRunLoopStep ==
  ASSUME RegistryInv, NEW o \in Os, NEW v \in Obj, NEW u \in Thr, Registry!RetainRunLoop(o, u, v)
  PROVE  RegistryInv'
<1>1. /\ Registry!Client(o) /\ v # nil /\ ~threadIvars[u].finalized
      /\ u \in {threadobject[o], mainthreadobject} /\ u # nil
      /\ threadRc' = [threadRc EXCEPT ![v] = @ + 1]
      /\ UNCHANGED <<threads, mainthreadobject, threadobject, place, self, threadIvars, threadPool>>
  BY DEF Registry!RetainRunLoop, Registry!registry, Registry!Usable,
     Registry!MulleThreadGetCurrentThread
<1>2. PICK c \in SetterCall : /\ c.at = "cas" /\ c.thr = u /\ c.runLoop = v
                              /\ runLoopSetter' = [runLoopSetter EXCEPT ![o] = c]
  <2>1. PICK c : c = [at |-> "cas", thr |-> u, runLoop |-> v]
    OBVIOUS
  <2>2. c \in SetterCall /\ c.at = "cas" /\ c.thr = u /\ c.runLoop = v
    BY <2>1 DEF SetterCall
  <2>3. runLoopSetter' = [runLoopSetter EXCEPT ![o] = c]
    BY <2>1 DEF Registry!RetainRunLoop
  <2> QED
    BY <2>2, <2>3
<1>3. /\ RegistryTyped /\ place[o] = "client" /\ runLoopSetter[o].at = "idle"
      /\ threadobject[o] = self[o]
  BY <1>1, ClientIs
<1>4. PICK p \in {o, Main} : p \in Os /\ self[p] = u
  BY <1>1, <1>3, SharingAssumption DEF RegistryInv, RegistryFits, MainAt
<1>5. RegistryTyped'
  BY <1>1, <1>2, <1>3 DEF RegistryTyped
<1>6. /\ runLoopSetter'[o] = c /\ \A q \in Os \ {o} : runLoopSetter'[q] = runLoopSetter[q]
  BY <1>2, <1>3 DEF RegistryTyped
<1>7. /\ MainAt' /\ OneOwner' /\ \A q \in Os : PlaceAt(q)' /\ \A t \in Thr : EmptyAt(t)'
      /\ \A q \in Os : runLoopSetter'[q] = runLoopSetter[q] => SetterAt(q)'
  <2>1. RegistryFits /\ p \in Os /\ self[p] = u
    BY <1>4 DEF RegistryInv
  <2>2. /\ \A t \in Thr \ {u} : threadIvars'[t] = threadIvars[t]
        /\ threadIvars'[u]._osThreadId = threadIvars[u]._osThreadId
        /\ ~threadIvars[u].finalized /\ ~threadIvars'[u].finalized
        /\ threadIvars[u]._runLoop # nil => threadIvars'[u]._runLoop = threadIvars[u]._runLoop
    BY <1>1
  <2> QED
    BY <1>1, <1>5, <2>1, <2>2, RecordFits
<1>8. SetterAt(o)'
  <2>1. self[o] = u \/ self[Main] = u
    BY <1>4
  <2> QED
    BY <1>1, <1>2, <1>3, <1>6, <2>1 DEF SetterAt
<1>9. ASSUME NEW q \in Os PROVE SetterAt(q)'
  BY <1>6, <1>7, <1>8
<1>10. ASSUME NEW x \in Thr \cup Obj PROVE ThreadBalancedAt(x)'
  <2>1. PICK d \in Int, z \in Int : z = 0 /\ d = (IF x = v THEN 1 ELSE 0) /\ d = z + z + d
    OBVIOUS
  <2>2. threadRc'[x] = threadRc[x] + d
    BY <1>1, <1>3, <2>1 DEF RegistryTyped
  <2>3. threadPool'[o][x] = threadPool[o][x] + z
    BY <1>1, <1>3, <2>1 DEF RegistryTyped
  <2>4. SlotsOf(threadIvars'[u], x) = SlotsOf(threadIvars[u], x) + z
    BY <1>1, <2>1 DEF SlotsOf, Is
  <2>5. SetsTo(runLoopSetter[o], x) = 0 /\ SetsTo(c, x) = d
    BY <1>2, <1>3, <2>1 DEF SetsTo
  <2>6. SetsTo(runLoopSetter'[o], x) = SetsTo(runLoopSetter[o], x) + d
    BY <1>6, <2>5
  <2>7. d = z + z + d
    BY <2>1
  <2>8. \A q \in Os \ {o} : threadPool'[q] = threadPool[q] /\ runLoopSetter'[q] = runLoopSetter[q]
    BY <1>1, <1>6
  <2>9. UNCHANGED self /\ \A t \in Thr \ {u} : threadIvars'[t] = threadIvars[t]
    BY <1>1
  <2> QED
    BY <1>5, <2>2, <2>3, <2>4, <2>6, <2>7, <2>8, <2>9, BooksKept
<1> QED
  BY <1>5, <1>7, <1>9, <1>10 DEF RegistryInv, RegistryFits

(* It is set, or another one was set before.                               *)
LEMMA SetRunLoopStep ==
  ASSUME RegistryInv, NEW o \in Os, Registry!mulleSetRunLoop(o)
  PROVE  RegistryInv'
<1>1. PICK s : s = runLoopSetter[o]
  OBVIOUS
<1>2. RegistryTyped /\ RegistryFits
  BY DEF RegistryInv, RegistryFits
<1>3. /\ s.at = "cas"
      /\ UNCHANGED <<threads, mainthreadobject, threadobject, place, self, threadRc>>
  BY <1>1 DEF Registry!mulleSetRunLoop, Registry!registry
<1>4. s \in SetterCall
  BY <1>1, <1>2 DEF RegistryTyped
<1>5. /\ s.thr # nil /\ place[o] = "client" /\ s.thr \in {self[o], self[Main]} /\ s.runLoop # nil
      /\ ~threadIvars[s.thr].finalized
  BY <1>1, <1>2, <1>3 DEF RegistryFits, SetterAt
<1>6. PICK t \in Thr, l \in Obj : t = s.thr /\ l = s.runLoop
  BY <1>4, <1>5 DEF SetterCall
<1>7. PICK p \in {o, Main} : p \in Os /\ self[p] = t
  BY <1>5, <1>6, SharingAssumption
<1>8. PICK r \in Ivars : r = threadIvars[t]
  BY <1>2 DEF RegistryTyped
<1>9. PICK n \in Ivars, f \in Nat :
        /\ threadIvars' = [threadIvars EXCEPT ![t] = n]
        /\ n._osThreadId = r._osThreadId /\ n.finalized = r.finalized
        /\ n._userInfo = r._userInfo /\ n._map = r._map
        /\ n._runLoop = IF r._runLoop = nil THEN l ELSE r._runLoop
        /\ threadPool' = [threadPool EXCEPT ![o][l] = @ + f]
        /\ f = IF r._runLoop = nil THEN 0 ELSE 1
  <2>1. CASE r._runLoop = nil
    <3>1. PICK n : n = [r EXCEPT !._runLoop = l]
      OBVIOUS
    <3>2. /\ n \in Ivars /\ n._osThreadId = r._osThreadId /\ n.finalized = r.finalized
          /\ n._userInfo = r._userInfo /\ n._map = r._map /\ n._runLoop = l
      BY <1>8, <3>1 DEF Ivars
    <3>3. threadIvars' = [threadIvars EXCEPT ![t]._runLoop = l] /\ threadPool' = threadPool
      BY <1>1, <1>6, <1>8, <2>1 DEF Registry!mulleSetRunLoop
    <3>4. threadIvars' = [threadIvars EXCEPT ![t] = n]
      BY <1>2, <1>8, <3>1, <3>3 DEF RegistryTyped
    <3>5. threadPool' = [threadPool EXCEPT ![o][l] = @ + 0]
      BY <1>2, <3>3 DEF RegistryTyped
    <3> QED
      BY <2>1, <3>2, <3>4, <3>5
  <2>2. CASE r._runLoop # nil
    <3>1. /\ threadPool' = [threadPool EXCEPT ![o][l] = @ + 1] /\ threadIvars' = threadIvars
      BY <1>1, <1>6, <1>8, <2>2 DEF Registry!mulleSetRunLoop
    <3>2. threadIvars' = [threadIvars EXCEPT ![t] = r]
      BY <1>2, <1>8, <3>1 DEF RegistryTyped
    <3> QED
      BY <1>8, <2>2, <3>1, <3>2
  <2> QED
    BY <2>1, <2>2
<1>10. PICK c \in SetterCall : /\ c.at = "idle" /\ c.thr = t /\ c.runLoop = n._runLoop
                               /\ runLoopSetter' = [runLoopSetter EXCEPT ![o] = c]
  <2>1. PICK c : c = [s EXCEPT !.at = "idle", !.runLoop = n._runLoop]
    OBVIOUS
  <2>2. n._runLoop \in Obj \cup {nil}
    BY DEF Ivars
  <2>3. c \in SetterCall /\ c.at = "idle" /\ c.thr = t /\ c.runLoop = n._runLoop
    BY <1>4, <1>6, <2>1, <2>2 DEF SetterCall
  <2>4. CASE r._runLoop = nil
    <3>1. runLoopSetter' = [runLoopSetter EXCEPT ![o] =
                              [s EXCEPT !.at = "idle", !.runLoop = s.runLoop]]
      BY <1>1, <1>2, <1>6, <1>8, <2>4 DEF Registry!mulleSetRunLoop, RegistryTyped
    <3>2. n._runLoop = s.runLoop
      BY <1>6, <1>9, <2>4
    <3> QED
      BY <2>1, <2>3, <3>1, <3>2
  <2>5. CASE r._runLoop # nil
    <3>1. runLoopSetter' = [runLoopSetter EXCEPT ![o] =
                              [@ EXCEPT !.at = "idle", !.runLoop = r._runLoop]]
      BY <1>1, <1>6, <1>8, <2>5 DEF Registry!mulleSetRunLoop
    <3>2. n._runLoop = r._runLoop
      BY <1>9, <2>5
    <3> QED
      BY <1>1, <1>2, <2>1, <2>3, <3>1, <3>2 DEF RegistryTyped
  <2> QED
    BY <2>4, <2>5
<1>11. /\ threadIvars'[t] = n /\ \A u \in Thr \ {t} : threadIvars'[u] = threadIvars[u]
       /\ runLoopSetter'[o] = c /\ \A q \in Os \ {o} : runLoopSetter'[q] = runLoopSetter[q]
       /\ \A q \in Os \ {o} : threadPool'[q] = threadPool[q]
       /\ \A x \in Thr \cup Obj :
            threadPool'[o][x] = threadPool[o][x] + (IF x = l THEN f ELSE 0)
  BY <1>2, <1>9, <1>10 DEF RegistryTyped
<1>12. RegistryTyped'
  <2>1. threadIvars' \in [Thr -> Ivars]
    BY <1>2, <1>9 DEF RegistryTyped
  <2>2. threadPool' \in [Os -> [Thr \cup Obj -> Nat]]
    BY <1>2, <1>9 DEF RegistryTyped
  <2>3. runLoopSetter' \in [Os -> SetterCall]
    BY <1>2, <1>10 DEF RegistryTyped
  <2> QED
    BY <1>2, <1>3, <2>1, <2>2, <2>3 DEF RegistryTyped
<1>13. /\ MainAt' /\ OneOwner' /\ \A q \in Os : PlaceAt(q)' /\ \A u \in Thr : EmptyAt(u)'
       /\ \A q \in Os : runLoopSetter'[q] = runLoopSetter[q] => SetterAt(q)'
  <2>1. /\ threadIvars'[t]._osThreadId = threadIvars[t]._osThreadId
        /\ ~threadIvars[t].finalized /\ ~threadIvars'[t].finalized
        /\ threadIvars[t]._runLoop # nil => threadIvars'[t]._runLoop = threadIvars[t]._runLoop
    BY <1>5, <1>6, <1>8, <1>9, <1>11
  <2>2. p \in Os /\ self[p] = t
    BY <1>7
  <2> QED
    BY <1>2, <1>3, <1>11, <1>12, <2>1, <2>2, RecordFits
<1>14. SetterAt(o)'
  <2>1. c.runLoop # nil /\ threadIvars'[t]._runLoop = c.runLoop /\ ~threadIvars'[t].finalized
    BY <1>5, <1>6, <1>8, <1>9, <1>10, <1>11
  <2>2. c.thr \in {self'[o], self'[Main]} /\ c.thr # nil /\ place'[o] = "client"
    BY <1>3, <1>5, <1>6, <1>10
  <2> QED
    BY <1>10, <1>11, <2>1, <2>2 DEF SetterAt
<1>15. ASSUME NEW q \in Os PROVE SetterAt(q)'
  BY <1>11, <1>13, <1>14
<1>16. ASSUME NEW x \in Thr \cup Obj PROVE ThreadBalancedAt(x)'
  <2>1. x # nil
    BY SharingAssumption
  <2>2. PICK d \in Int, e \in Int, g \in Int, k \in Int :
          /\ d = 0 /\ e = (IF x = l THEN f ELSE 0)
          /\ g = (IF x = l THEN 1 - f ELSE 0) /\ k = (IF x = l THEN 0-1 ELSE 0) /\ d = e + g + k
    OBVIOUS
  <2>3. threadRc'[x] = threadRc[x] + d
    BY <1>2, <1>3, <2>2 DEF RegistryTyped
  <2>4. threadPool'[o][x] = threadPool[o][x] + e
    BY <1>11, <2>2
  <2>5. SlotsOf(threadIvars'[t], x) = SlotsOf(threadIvars[t], x) + g
    <3>1. Is(n._runLoop, x) = Is(r._runLoop, x) + g
      BY <1>9, <2>1, <2>2 DEF Is
    <3>2. PICK i \in Int, j \in Int, m \in Int :
            i = Is(r._runLoop, x) /\ j = Is(r._userInfo, x) /\ m = Is(r._map, x)
      BY DEF Is
    <3>3. SlotsOf(n, x) = (i + g) + j + m /\ SlotsOf(r, x) = i + j + m
      BY <1>9, <3>1, <3>2 DEF SlotsOf
    <3> QED
      BY <1>8, <1>11, <3>3
  <2>6. SetsTo(s, x) = (IF x = l THEN 1 ELSE 0) /\ SetsTo(c, x) = 0
    BY <1>3, <1>6, <1>10 DEF SetsTo
  <2>7. SetsTo(runLoopSetter'[o], x) = SetsTo(runLoopSetter[o], x) + k
    BY <1>1, <1>11, <2>2, <2>6
  <2>8. d = e + g + k
    BY <2>2
  <2>9. \A q \in Os \ {o} : threadPool'[q] = threadPool[q] /\ runLoopSetter'[q] = runLoopSetter[q]
    BY <1>11
  <2>10. UNCHANGED self /\ \A u \in Thr \ {t} : threadIvars'[u] = threadIvars[u]
    BY <1>3, <1>11
  <2> QED
    BY <1>12, <2>3, <2>4, <2>5, <2>7, <2>8, <2>9, <2>10, BooksKept
<1> QED
  BY <1>12, <1>13, <1>15, <1>16 DEF RegistryInv, RegistryFits

(* How often an NSThread keeps x, its map aside.                           *)
LEMMA UsesCount ==
  ASSUME NEW r, NEW x
  PROVE  Registry!Cardinality({f \in {"_runLoop", "_userInfo"} : r[f] = x})
           = Is(r["_runLoop"], x) + Is(r["_userInfo"], x)
<1>1. \A S : Registry!Cardinality(S) = Cardinality(S)
  BY DEF Registry!Cardinality, Cardinality
<1>2. PICK U : U = {f \in {"_runLoop", "_userInfo"} : r[f] = x}
  OBVIOUS
<1>3. /\ Cardinality({}) = 0 /\ IsFiniteSet({})
  BY FS_EmptySet
<1>4. \A f : Cardinality({} \cup {f}) = 1 /\ IsFiniteSet({} \cup {f})
  <2> TAKE f
  <2>1. f \notin {}
    OBVIOUS
  <2>2. Cardinality({} \cup {f}) = Cardinality({}) + 1 /\ IsFiniteSet({} \cup {f})
    BY <1>3, <2>1, FS_AddElement
  <2> QED
    BY <1>3, <2>2
<1>5. Cardinality(({} \cup {"_runLoop"}) \cup {"_userInfo"}) = 2
  <2>1. "_userInfo" \notin {} \cup {"_runLoop"}
    OBVIOUS
  <2>2. Cardinality(({} \cup {"_runLoop"}) \cup {"_userInfo"}) = Cardinality({} \cup {"_runLoop"}) + 1
    BY <1>4, <2>1, FS_AddElement
  <2> QED
    BY <1>4, <2>2
<1> SUFFICES Cardinality(U) = Is(r["_runLoop"], x) + Is(r["_userInfo"], x)
  BY <1>1, <1>2
<1>6. CASE r["_runLoop"] = x /\ r["_userInfo"] = x
  <2>1. U = ({} \cup {"_runLoop"}) \cup {"_userInfo"}
    BY <1>2, <1>6
  <2>2. Cardinality(U) = 2
    BY <1>5, <2>1
  <2>3. Is(r["_runLoop"], x) = 1 /\ Is(r["_userInfo"], x) = 1
    BY <1>6 DEF Is
  <2> QED
    BY <2>2, <2>3
<1>7. CASE r["_runLoop"] = x /\ r["_userInfo"] # x
  <2>1. U = {} \cup {"_runLoop"}
    BY <1>2, <1>7
  <2>2. Cardinality(U) = 1
    BY <1>4, <2>1
  <2>3. Is(r["_runLoop"], x) = 1 /\ Is(r["_userInfo"], x) = 0
    BY <1>7 DEF Is
  <2> QED
    BY <2>2, <2>3
<1>8. CASE r["_runLoop"] # x /\ r["_userInfo"] = x
  <2>1. U = {} \cup {"_userInfo"}
    BY <1>2, <1>8
  <2>2. Cardinality(U) = 1
    BY <1>4, <2>1
  <2>3. Is(r["_runLoop"], x) = 0 /\ Is(r["_userInfo"], x) = 1
    BY <1>8 DEF Is
  <2> QED
    BY <2>2, <2>3
<1>9. CASE r["_runLoop"] # x /\ r["_userInfo"] # x
  <2>1. U = {}
    BY <1>2, <1>9
  <2>2. Cardinality(U) = 0
    BY <1>3, <2>1
  <2>3. Is(r["_runLoop"], x) = 0 /\ Is(r["_userInfo"], x) = 0
    BY <1>9 DEF Is
  <2> QED
    BY <2>2, <2>3
<1> QED
  BY <1>6, <1>7, <1>8, <1>9

(* What an NSThread keeps goes to the pool of its thread when it is        *)
(* finalized, but for the map, and a call of the thread for the run loop   *)
(* is over.                                                                *)
LEMMA FinalizeStep ==
  ASSUME RegistryInv, NEW o \in Os, Registry!Finalize(o)
  PROVE  RegistryInv'
<1>1. Registry!Client(o) /\ (o = Main => \A p \in Os \ {Main} : place[p] = "c")
  BY DEF Registry!Finalize, Registry!MayLeave
<1>2. PICK t \in Thr : t = self[o] /\ t # nil
  BY <1>1, ClientIs
<1>3. /\ RegistryTyped /\ RegistryFits /\ place[o] = "client" /\ runLoopSetter[o].at = "idle"
      /\ ~threadIvars[t].finalized
  BY <1>1, <1>2, ClientIs DEF RegistryInv
<1>4. PICK r \in Ivars : r = threadIvars[t]
  BY <1>3 DEF RegistryTyped
<1>5. /\ threadRc' = [x \in Thr \cup Obj |-> IF x = r._map THEN threadRc[x] - 1 ELSE threadRc[x]]
      /\ place' = [place EXCEPT ![o] = "finalized"]
      /\ UNCHANGED <<threads, mainthreadobject, threadobject, self>>
  BY <1>2, <1>4 DEF Registry!Finalize, Registry!Goto, Registry!Object
<1>6. PICK n \in Ivars : /\ n._osThreadId = o /\ n.finalized
                         /\ n._runLoop = nil /\ n._userInfo = nil /\ n._map = nil
                         /\ \A f \in Kept : n[f] = nil
                         /\ threadIvars' = [threadIvars EXCEPT ![t] = n]
  <2>1. PICK n : n = [Registry!NSThread(o) EXCEPT !.finalized = TRUE]
    OBVIOUS
  <2>2. /\ n \in Ivars /\ n._osThreadId = o /\ n.finalized
        /\ n._runLoop = nil /\ n._userInfo = nil /\ n._map = nil
    BY <2>1 DEF Registry!NSThread, Ivars
  <2>3. threadIvars' = [threadIvars EXCEPT ![t] = n]
    BY <1>2, <2>1 DEF Registry!Finalize
  <2> QED
    BY <2>2, <2>3 DEF Kept
<1>7. PICK c \in SetterCall : /\ c.at = "idle" /\ c.thr = nil
                              /\ runLoopSetter' = [runLoopSetter EXCEPT ![o] = c]
  <2>1. PICK c : c = Registry!NoCall
    OBVIOUS
  <2>2. c \in SetterCall /\ c.at = "idle" /\ c.thr = nil
    BY <2>1 DEF Registry!NoCall, SetterCall
  <2>3. runLoopSetter' = [runLoopSetter EXCEPT ![o] = c]
    BY <2>1 DEF Registry!Finalize
  <2> QED
    BY <2>2, <2>3
<1>8. PICK P \in [Thr \cup Obj -> Nat] :
        /\ threadPool' = [threadPool EXCEPT ![o] = P]
        /\ \A x \in Thr \cup Obj : P[x] = threadPool[o][x] + (Is(r._runLoop, x) + Is(r._userInfo, x))
  <2>1. PICK P : P =
          [x \in Thr \cup Obj |->
             IF x \in {y \in Obj : y \in {r._runLoop, r._userInfo}}
             THEN threadPool[o][x] + (Is(r._runLoop, x) + Is(r._userInfo, x))
             ELSE threadPool[o][x]]
    OBVIOUS
  <2>2. /\ \A x \in Thr \cup Obj : threadPool[o][x] \in Nat /\ x # nil
        /\ r._runLoop \in Obj \cup {nil} /\ r._userInfo \in Obj \cup {nil}
        /\ r["_runLoop"] = r._runLoop /\ r["_userInfo"] = r._userInfo
    BY <1>3, SharingAssumption DEF RegistryTyped, Ivars
  <2>3. ASSUME NEW x \in Thr \cup Obj
        PROVE  /\ P[x] = threadPool[o][x] + (Is(r._runLoop, x) + Is(r._userInfo, x))
               /\ P[x] \in Nat
    <3>1. CASE x \in {y \in Obj : y \in {r._runLoop, r._userInfo}}
      BY <2>1, <2>2, <3>1 DEF Is
    <3>2. CASE x \notin {y \in Obj : y \in {r._runLoop, r._userInfo}}
      <4>1. Is(r._runLoop, x) = 0 /\ Is(r._userInfo, x) = 0
        BY <2>2, <3>2 DEF Is
      <4> QED
        BY <2>1, <2>2, <3>2, <4>1
    <3> QED
      BY <3>1, <3>2
  <2>4. P \in [Thr \cup Obj -> Nat]
    BY <2>1, <2>3
  <2>5. \A x : Registry!Cardinality({f \in {"_runLoop", "_userInfo"} : r[f] = x})
                 = Is(r._runLoop, x) + Is(r._userInfo, x)
    BY <2>2, UsesCount
  <2>6. threadPool' = [threadPool EXCEPT ![o] =
          [x \in Thr \cup Obj |->
             IF x \in {y \in Obj : y \in {r._runLoop, r._userInfo}}
             THEN @[x] + Registry!Cardinality({f \in {"_runLoop", "_userInfo"} : r[f] = x})
             ELSE @[x]]]
    BY <1>2, <1>4 DEF Registry!Finalize, Registry!Object
  <2>7. threadPool' = [threadPool EXCEPT ![o] = P]
    BY <1>3, <2>1, <2>5, <2>6 DEF RegistryTyped
  <2> QED
    BY <2>3, <2>4, <2>7
<1>9. /\ threadIvars'[t] = n /\ \A u \in Thr \ {t} : threadIvars'[u] = threadIvars[u]
      /\ runLoopSetter'[o] = c /\ \A p \in Os \ {o} : runLoopSetter'[p] = runLoopSetter[p]
      /\ threadPool'[o] = P /\ \A p \in Os \ {o} : threadPool'[p] = threadPool[p]
      /\ place'[o] = "finalized" /\ \A p \in Os \ {o} : place'[p] = place[p]
  BY <1>3, <1>5, <1>6, <1>7, <1>8 DEF RegistryTyped
<1>10. RegistryTyped'
  <2>1. threadIvars' \in [Thr -> Ivars]
    BY <1>3, <1>6 DEF RegistryTyped
  <2>2. threadPool' \in [Os -> [Thr \cup Obj -> Nat]]
    BY <1>3, <1>8 DEF RegistryTyped
  <2>3. runLoopSetter' \in [Os -> SetterCall]
    BY <1>3, <1>7 DEF RegistryTyped
  <2>4. place' \in [Os -> Places]
    BY <1>3, <1>5 DEF RegistryTyped, Places
  <2>5. threadRc' \in [Thr \cup Obj -> Int]
    BY <1>3, <1>5 DEF RegistryTyped
  <2> QED
    BY <1>3, <1>5, <2>1, <2>2, <2>3, <2>4, <2>5 DEF RegistryTyped
<1>11. MainAt' /\ OneOwner'
  BY <1>3, <1>5, <1>9, SharingAssumption DEF RegistryFits, MainAt, OneOwner
<1>12. ASSUME NEW p \in Os PROVE PlaceAt(p)'
  <2>1. CASE p = o
    BY <1>2, <1>3, <1>5, <1>6, <1>9, <2>1 DEF RegistryFits, PlaceAt
  <2>2. CASE p # o
    <3>1. self[p] # nil => self[p] \in Thr \ {t}
      BY <1>2, <1>3, <2>2 DEF RegistryTyped, RegistryFits, OneOwner
    <3> QED
      BY <1>3, <1>5, <1>9, <2>2, <3>1 DEF RegistryFits, PlaceAt
  <2> QED
    BY <2>1, <2>2
<1>13. ASSUME NEW p \in Os PROVE SetterAt(p)'
  <2>1. CASE p = o
    BY <1>7, <1>9, <2>1 DEF SetterAt
  <2>2. CASE p # o /\ runLoopSetter[p].thr = nil
    BY <1>3, <1>9, <2>2 DEF RegistryFits, SetterAt
  <2>3. CASE p # o /\ runLoopSetter[p].thr # nil
    <3>1. /\ place[p] = "client" /\ runLoopSetter[p].thr \in {self[p], self[Main]}
      BY <1>3, <2>3 DEF RegistryFits, SetterAt
    <3>2. o # Main /\ Main \in Os
      BY <1>1, <2>3, <3>1, SharingAssumption
    <3>3. self[p] # t /\ self[Main] # t
      BY <1>2, <1>3, <2>3, <3>2 DEF RegistryFits, OneOwner
    <3>4. runLoopSetter[p].thr \in Thr \ {t}
      BY <1>3, <2>3, <3>1, <3>3, SharingAssumption DEF RegistryTyped, SetterCall
    <3>5. threadIvars'[runLoopSetter[p].thr] = threadIvars[runLoopSetter[p].thr]
      BY <1>9, <3>4
    <3> QED
      BY <1>3, <1>5, <1>9, <2>3, <3>5 DEF RegistryFits, SetterAt
  <2> QED
    BY <2>1, <2>2, <2>3
<1>14. ASSUME NEW u \in Thr PROVE EmptyAt(u)'
  <2>1. CASE u = t
    BY <1>6, <1>9, <2>1 DEF EmptyAt
  <2>2. CASE u # t
    BY <1>3, <1>5, <1>9, <2>2 DEF RegistryFits, EmptyAt
  <2> QED
    BY <2>1, <2>2
<1>15. ASSUME NEW x \in Thr \cup Obj PROVE ThreadBalancedAt(x)'
  <2>1. x # nil
    BY SharingAssumption
  <2>2. PICK i \in Int, j \in Int, m \in Int, z \in Int :
          i = Is(r._runLoop, x) /\ j = Is(r._userInfo, x) /\ m = Is(r._map, x) /\ z = 0
    BY DEF Is
  <2>3. PICK d \in Int, e \in Int, s \in Int : d = 0 - m /\ e = i + j /\ s = 0 - (i + j + m)
    OBVIOUS
  <2>4. threadRc'[x] = threadRc[x] + d
    BY <1>3, <1>5, <2>2, <2>3 DEF RegistryTyped, Is
  <2>5. threadPool'[o][x] = threadPool[o][x] + e
    BY <1>8, <1>9, <2>2, <2>3
  <2>6. SlotsOf(threadIvars'[t], x) = SlotsOf(threadIvars[t], x) + s
    <3>1. SlotsOf(n, x) = 0
      BY <1>6, <2>1 DEF SlotsOf, Is
    <3>2. SlotsOf(r, x) = i + j + m
      BY <2>2 DEF SlotsOf
    <3> QED
      BY <1>4, <1>9, <2>3, <3>1, <3>2
  <2>7. SetsTo(runLoopSetter'[o], x) = SetsTo(runLoopSetter[o], x) + z
    BY <1>3, <1>7, <1>9, <2>2 DEF SetsTo
  <2>8. d = e + s + z
    BY <2>2, <2>3
  <2>9. \A p \in Os \ {o} : threadPool'[p] = threadPool[p] /\ runLoopSetter'[p] = runLoopSetter[p]
    BY <1>9
  <2>10. UNCHANGED self /\ \A u \in Thr \ {t} : threadIvars'[u] = threadIvars[u]
    BY <1>5, <1>9
  <2> QED
    BY <1>10, <2>4, <2>5, <2>6, <2>7, <2>8, <2>9, <2>10, BooksKept
<1> QED
  BY <1>10, <1>11, <1>12, <1>13, <1>14, <1>15 DEF RegistryInv, RegistryFits

(* A program begins with a main thread that is registered.                 *)
LEMMA RegistryInit == Registry!Init => RegistryInv
<1> SUFFICES ASSUME Registry!Init PROVE RegistryInv
  OBVIOUS
<1>1. PICK t \in Thr :
        /\ threads = [o \in Os |-> IF o = Main THEN t ELSE nil]
        /\ mainthreadobject = t /\ threadobject = threads /\ self = threads
        /\ place = [o \in Os |-> IF o = Main THEN "client" ELSE "c"]
        /\ threadIvars = [u \in Thr |-> Registry!NSThread(Main)]
        /\ threadRc = [x \in Thr \cup Obj |-> IF x = t THEN 1 ELSE 0]
        /\ threadPool = [o \in Os |-> [x \in Thr \cup Obj |-> 0]]
        /\ runLoopSetter = [o \in Os |-> Registry!NoCall]
  BY DEF Registry!Init, Registry!Object, Registry!Empty
<1>2. PICK n \in Ivars : /\ n = Registry!NSThread(Main) /\ n._osThreadId = Main /\ ~n.finalized
                         /\ n._runLoop = nil /\ \A f \in Kept : n[f] = nil
  <2>1. PICK n : n = Registry!NSThread(Main)
    OBVIOUS
  <2>2. /\ n \in Ivars /\ n._osThreadId = Main /\ ~n.finalized
        /\ n._runLoop = nil /\ \A f \in Kept : n[f] = nil
    BY <2>1, SharingAssumption DEF Registry!NSThread, Ivars, Kept
  <2> QED
    BY <2>1, <2>2
<1>3. PICK c \in SetterCall : c = Registry!NoCall /\ c.at = "idle" /\ c.thr = nil
  <2>1. PICK c : c = Registry!NoCall
    OBVIOUS
  <2>2. c \in SetterCall /\ c.at = "idle" /\ c.thr = nil
    BY <2>1 DEF Registry!NoCall, SetterCall
  <2> QED
    BY <2>1, <2>2
<1>4. /\ \A u \in Thr : threadIvars[u] = n
      /\ \A o \in Os : runLoopSetter[o] = c
      /\ \A o \in Os : self[o] = IF o = Main THEN t ELSE nil
      /\ \A o \in Os : place[o] = IF o = Main THEN "client" ELSE "c"
      /\ t # nil /\ Main \in Os
  BY <1>1, <1>2, <1>3, SharingAssumption
<1>5. RegistryTyped
  <2>1. threads \in [Os -> Thr \cup {nil}] /\ place \in [Os -> Places]
    BY <1>1 DEF Places
  <2>2. threadIvars \in [Thr -> Ivars] /\ runLoopSetter \in [Os -> SetterCall]
    BY <1>1, <1>2, <1>3
  <2>3. threadRc \in [Thr \cup Obj -> Int] /\ threadPool \in [Os -> [Thr \cup Obj -> Nat]]
    BY <1>1
  <2> QED
    BY <1>1, <2>1, <2>2, <2>3 DEF RegistryTyped
<1>6. MainAt /\ OneOwner
  BY <1>1, <1>4 DEF MainAt, OneOwner
<1>7. ASSUME NEW o \in Os PROVE PlaceAt(o) /\ SetterAt(o)
  BY <1>1, <1>2, <1>3, <1>4 DEF PlaceAt, SetterAt
<1>8. ASSUME NEW u \in Thr PROVE EmptyAt(u)
  BY <1>2, <1>4 DEF EmptyAt
<1>9. ASSUME NEW x \in Thr \cup Obj PROVE ThreadBalancedAt(x)
  <2>1. Pending(x) = 0
    <3>1. PICK F : F = [o \in Os |-> threadPool[o][x]]
      OBVIOUS
    <3>2. F = [o \in Os |-> 0]
      BY <1>1, <3>1
    <3>3. SumFunction([o \in Os |-> 0]) = 0
      BY SumZero, SharingAssumption
    <3> QED
      BY <3>1, <3>2, <3>3 DEF Pending
  <2>2. x # nil
    BY SharingAssumption
  <2>3. Slots(x) = {} /\ Setters(x) = {}
    BY <1>2, <1>3, <1>4, <2>2 DEF Slots, Setters
  <2>4. Cardinality(Slots(x)) = 0 /\ Cardinality(Setters(x)) = 0
    BY <2>3, FS_EmptySet
  <2>5. Cardinality(Runners(x)) = threadRc[x]
    <3>1. CASE x = t
      <4>1. Runners(x) = {Main}
        BY <1>4, <3>1 DEF Runners
      <4> QED
        BY <1>1, <3>1, <4>1, FS_Singleton
    <3>2. CASE x # t
      <4>1. Runners(x) = {}
        BY <1>4, <2>2, <3>2 DEF Runners
      <4> QED
        BY <1>1, <3>2, <4>1, FS_EmptySet
    <3> QED
      BY <3>1, <3>2
  <2>6. threadRc[x] \in Int
    BY <1>5 DEF RegistryTyped
  <2> QED
    BY <2>1, <2>4, <2>5, <2>6 DEF ThreadBalancedAt
<1> QED
  BY <1>5, <1>6, <1>7, <1>8, <1>9 DEF RegistryInv, RegistryFits

(* An NSThread that a thread owns is referenced.                           *)
LEMMA OwnedIsCounted ==
  ASSUME RegistryInv, NEW x \in Thr \cup Obj
  PROVE  /\ threadRc[x] >= 0
         /\ threadRc[x] = 0 => Runners(x) = {}
         /\ \A o \in Os : self[o] = x => threadRc[x] > 0
<1>1. RegistryTyped /\ ThreadBalancedAt(x)
  BY DEF RegistryInv, RegistryFits
<1>2. PICK a \in Nat, b \in Nat, c \in Nat, d \in Nat :
        a = Pending(x) /\ b = Cardinality(Runners(x)) /\ c = Cardinality(Slots(x))
        /\ d = Cardinality(Setters(x))
  BY <1>1, CountTypes
<1>3. threadRc[x] = a + b + c + d
  BY <1>1, <1>2 DEF ThreadBalancedAt
<1>4. threadRc[x] >= 0 /\ (threadRc[x] = 0 => b = 0) /\ (threadRc[x] <= 0 => b = 0)
  BY <1>3
<1>5. b = 0 => Runners(x) = {}
  BY <1>1, <1>2, CountTypes, FS_EmptySet
<1>6. \A o \in Os : self[o] = x => o \in Runners(x)
  BY DEF Runners
<1>7. \A o \in Os : self[o] = x => b # 0
  BY <1>5, <1>6
<1>8. b # 0 => threadRc[x] > 0
  BY <1>3
<1> QED
  BY <1>4, <1>5, <1>7, <1>8

(* What the invariant means for those who look for an NSThread.            *)
LEMMA RegistryMeans == RegistryInv => ThreadsAreFound
<1> SUFFICES ASSUME RegistryInv PROVE ThreadsAreFound
  OBVIOUS
<1>1. RegistryTyped /\ RegistryFits
  BY DEF RegistryInv, RegistryFits
<1>2. Registry!ThreadsAreFound
  <2>1. ASSUME NEW o \in Os, threads[o] # nil
        PROVE  /\ threadRc[threads[o]] > 0 /\ threads[o] = self[o]
               /\ threadIvars[threads[o]]._osThreadId = o
    <3>1. threads[o] = self[o] /\ self[o] # nil /\ self[o] \in Thr
      BY <1>1, <2>1 DEF RegistryFits, PlaceAt, RegistryTyped
    <3> QED
      BY <1>1, <3>1, OwnedIsCounted DEF RegistryFits, PlaceAt
  <2>2. ASSUME NEW o \in Os, place[o] \in {"client", "finalized", "reset"}
        PROVE  threadobject[o] = threads[o] /\ threads[o] # nil
    BY <1>1, <2>2 DEF RegistryFits, PlaceAt
  <2>3. ASSUME NEW o \in Os, threadobject[o] # nil, threadobject[o] = mainthreadobject
        PROVE  o = Main
    <3>1. threadobject[o] = self[o]
      BY <1>1, <2>3 DEF RegistryFits, PlaceAt
    <3> QED
      BY <1>1, <2>3, <3>1, SharingAssumption DEF RegistryFits, MainAt, OneOwner
  <2>4. ASSUME NEW t \in Thr, t = mainthreadobject PROVE threadRc[t] > 0
    BY <1>1, <2>4, OwnedIsCounted, SharingAssumption DEF RegistryFits, MainAt
  <2> QED
    BY <2>1, <2>2, <2>3, <2>4 DEF Registry!ThreadsAreFound, Registry!mulleIsMainThread,
       Registry!MulleThreadGetCurrentThread, Registry!MulleThreadObjectGetOSThreadId
<1>3. Registry!ReferencesBalance
  <2>1. \A f : Registry!SumFunction(f) = SumFunction(f)
    BY DEF Registry!SumFunction, SumFunction, Registry!SumFunctionOnSet, SumFunctionOnSet,
           Registry!FoldFunctionOnSet, FoldFunctionOnSet, Registry!MapThenFoldSet, MapThenFoldSet
  <2>2. \A S : Registry!Cardinality(S) = Cardinality(S)
    BY DEF Registry!Cardinality, Cardinality
  <2>3. ASSUME NEW t \in Thr PROVE threadRc[t] = Pending(t) + Cardinality(Runners(t))
    <3>1. Slots(t) = {} /\ Setters(t) = {}
      <4>1. t \notin Obj /\ t # nil
        BY SharingAssumption
      <4>2. \A u \in Thr, f \in Kept : threadIvars[u][f] \in Obj \cup {nil}
        BY <1>1 DEF RegistryTyped, Ivars, Kept
      <4>3. \A o \in Os : runLoopSetter[o].runLoop \in Obj \cup {nil}
        BY <1>1 DEF RegistryTyped, SetterCall
      <4> QED
        BY <4>1, <4>2, <4>3 DEF Slots, Setters
    <3>2. Cardinality(Slots(t)) = 0 /\ Cardinality(Setters(t)) = 0
      BY <3>1, FS_EmptySet
    <3>3. PICK a \in Nat, b \in Nat : a = Pending(t) /\ b = Cardinality(Runners(t))
      BY <1>1, CountTypes
    <3>4. threadRc[t] = a + b + 0 + 0
      BY <3>2, <3>3 DEF RegistryInv, ThreadBalancedAt
    <3> QED
      BY <3>3, <3>4
  <2>4. ASSUME NEW v \in Obj
        PROVE  threadRc[v] = Pending(v) + Cardinality(Slots(v)) + Cardinality(Setters(v))
    <3>1. Runners(v) = {}
      BY <1>1, SharingAssumption DEF RegistryTyped, Runners
    <3>2. Cardinality(Runners(v)) = 0
      BY <3>1, FS_EmptySet
    <3>3. PICK a \in Nat, b \in Nat, c \in Nat :
            a = Pending(v) /\ b = Cardinality(Slots(v)) /\ c = Cardinality(Setters(v))
      BY <1>1, CountTypes
    <3>4. threadRc[v] = a + 0 + b + c
      BY <3>2, <3>3 DEF RegistryInv, ThreadBalancedAt
    <3> QED
      BY <3>3, <3>4
  <2>5. ASSUME NEW t \in Thr, threadRc[t] = 0 PROVE \A f \in Kept : threadIvars[t][f] = nil
    BY <1>1, <2>5, OwnedIsCounted DEF RegistryFits, EmptyAt, Runners
  <2> QED
    BY <2>1, <2>2, <2>3, <2>4, <2>5
       DEF Registry!ReferencesBalance, Pending, Runners, Slots, Setters, Kept
<1>4. Registry!OneRunLoop
  BY <1>1 DEF RegistryFits, SetterAt, Registry!OneRunLoop
<1> QED
  BY <1>2, <1>3, <1>4 DEF ThreadsAreFound

(* A step of a thread keeps the table, the thread and the books together.  *)
LEMMA RegistryStep == RegistryInv /\ [Registry!Next]_(Registry!vars) => RegistryInv'
<1> SUFFICES ASSUME RegistryInv, [Registry!Next]_(Registry!vars) PROVE RegistryInv'
  OBVIOUS
<1>1. CASE UNCHANGED Registry!vars
  <2>1. UNCHANGED <<threads, mainthreadobject, threadobject, place, self, threadIvars, threadRc,
                    threadPool, runLoopSetter>>
    BY <1>1 DEF Registry!vars, Registry!registry
  <2>2. RegistryTyped' /\ MainAt' /\ OneOwner'
    BY <2>1 DEF RegistryInv, RegistryFits, RegistryTyped, MainAt, OneOwner
  <2>3. ASSUME NEW o \in Os PROVE PlaceAt(o)' /\ SetterAt(o)'
    BY <2>1 DEF RegistryInv, RegistryFits, PlaceAt, SetterAt
  <2>4. ASSUME NEW t \in Thr PROVE EmptyAt(t)'
    BY <2>1 DEF RegistryInv, RegistryFits, EmptyAt
  <2>5. ASSUME NEW x \in Thr \cup Obj PROVE ThreadBalancedAt(x)'
    BY <2>1 DEF RegistryInv, ThreadBalancedAt, Pending, Runners, Slots, Setters
  <2> QED
    BY <2>2, <2>3, <2>4, <2>5 DEF RegistryInv, RegistryFits
<1>2. CASE Registry!Next
  <2>1. PICK o \in Os :
          \/ \/ Registry!MulleThreadGetOrCreateCurrentThread(o)
             \/ Registry!mulle_objc_thread_get_poolconfiguration(o)
          \/ Registry!_MulleThreadRegisterInUniverse(o) \/ Registry!SetThreadObject(o)
          \/ \/ \E id \in Os : Registry!Lookup(o, id)
             \/ \E v \in Obj : Registry!NewValue(o, v)
             \/ Registry!PopPool(o) \/ Registry!mulle_objc_thread_reset_poolconfiguration(o)
          \/ \/ \E v \in Obj \cup {nil} : Registry!MulleThreadSetCurrentThreadUserInfo(o, v)
             \/ \E v \in Obj : Registry!MulleThreadSetObjectForKeyUTF8String(o, v)
          \/ \E v \in Obj : \E t \in Thr : Registry!RetainRunLoop(o, t, v)
          \/ Registry!mulleSetRunLoop(o)
          \/ Registry!Finalize(o)
          \/ Registry!_MulleThreadTakedownPoolAndRelease(o)
    BY <1>2 DEF Registry!Next
  <2>2. Registry!_MulleThreadTakedownPoolAndRelease(o) => place[o] \in {"reset", "deregistered"}
    BY DEF Registry!_MulleThreadTakedownPoolAndRelease
  <2> QED
    BY <2>1, <2>2, CreateSteps, TableSteps, PoolSteps, KeepSteps, RetainRunLoopStep,
       SetRunLoopStep, FinalizeStep, GiveUpSteps
<1> QED
  BY <1>1, <1>2

-----------------------------------------------------------------------------

(* Whatever threads come and go, an NSThread that is found under a thread  *)
(* id is alive and is the one of the thread that has the id, no other      *)
(* thread takes itself for the main thread, everything that a thread has   *)
(* looked up or keeps is counted, an NSThread that is gone keeps nothing,  *)
(* and all who set the run loop of a thread get the same one.              *)
THEOREM RegistrySafety == Registry!Spec => []ThreadsAreFound
<1>1. Registry!Init => RegistryInv
  BY RegistryInit
<1>2. RegistryInv /\ [Registry!Next]_(Registry!vars) => RegistryInv'
  BY RegistryStep
<1>3. RegistryInv => ThreadsAreFound
  BY RegistryMeans
<1> QED
  BY <1>1, <1>2, <1>3, PTL DEF Registry!Spec


-----------------------------------------------------------------------------
(* The composition.                                                        *)

(* A behaviour of MCSharedVariables is one of each mechanism: it runs one  *)
(* of them, and leaves the others at rest.                                 *)
THEOREM Composition == MCSpec => Spec /\ Ids!Spec /\ Names!Spec /\ Registry!Spec
<1>1. MCInit => Init /\ Ids!Init /\ Names!Init /\ Registry!Init
  BY DEF MCInit
<1>2. [MCNext]_mcVars => [Next]_vars
  BY DEF MCNext, mcVars
<1>3. [MCNext]_mcVars => [Ids!Next]_(Ids!vars)
  BY DEF MCNext, mcVars, idVars, Ids!vars
<1>4. [MCNext]_mcVars => [Names!Next]_(Names!vars)
  BY DEF MCNext, mcVars, nameVars, Names!vars
<1>5. [MCNext]_mcVars => [Registry!Next]_(Registry!vars)
  BY DEF MCNext, mcVars, registryVars, Registry!vars, Registry!registry
<1> QED
  BY <1>1, <1>2, <1>3, <1>4, <1>5, PTL DEF MCSpec, Spec, Ids!Spec, Names!Spec, Registry!Spec
=============================================================================
