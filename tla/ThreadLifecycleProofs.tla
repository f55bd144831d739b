------------------------ MODULE ThreadLifecycleProofs ------------------------
(***************************************************************************)
(* Proofs about ThreadLifecycle, for any number of threads.                *)
(***************************************************************************)
EXTENDS ThreadLifecycle, FiniteSetTheorems, TLAPS

(* The conjunction that every step preserves.                              *)
Inv == PlacesFit /\ ReferencesHaveHolders

(* There are finitely many threads, so the sets of holders have a size.    *)
LEMMA HoldersFinite ==
  /\ IsFiniteSet(Own) /\ IsFiniteSet(Starting) /\ IsFiniteSet(Started) /\ IsFiniteSet(Counted)
  /\ Cardinality(Own) \in Nat /\ Cardinality(Starting) \in Nat
  /\ Cardinality(Started) \in Nat /\ Cardinality(Counted) \in Nat
<1>1. IsFiniteSet(Actor)
  BY ThreadAssumption, FS_AddElement DEF Actor
<1>2. Own \in SUBSET Actor /\ Starting \in SUBSET Actor /\ Started \in SUBSET Actor
      /\ Counted \in SUBSET Actor
  BY DEF Own, Starting, Started, Counted, Actor
<1>3. IsFiniteSet(Own) /\ IsFiniteSet(Starting) /\ IsFiniteSet(Started) /\ IsFiniteSet(Counted)
  BY <1>1, <1>2, FS_Subset
<1> QED
  BY <1>3, FS_CardinalityType

(* The places in which a thread holds a reference of its own.              *)
LEMMA Members ==
  /\ Inv => (pc[Main] # "ended" => Main \in Own)
  /\ \A a \in Actor : pc[a] \in MemberPlaces <=> a \in Own
BY DEF Inv, PlacesFit, Own, MemberPlaces, CallPlaces, Actor

(* A step that moves no thread in or out of the sets of holders, and       *)
(* leaves the counters alone, keeps the counts.                            *)
LEMMA NeutralStep ==
  ASSUME ReferencesHaveHolders,
         Own' = Own, Starting' = Starting, Started' = Started, Counted' = Counted,
         UNCHANGED <<retaincount, torn, n_threads>>
  PROVE  ReferencesHaveHolders'
BY DEF ReferencesHaveHolders

(* The steps of client code move no thread in or out of these sets.        *)
LEMMA ClientStepInv ==
  ASSUME Inv, NEW a \in Actor, ClientStep(a)
  PROVE  Inv'
<1>1. PICK t \in Thr : \/ New(a, t) \/ Retain(a, t) \/ Release(a, t)
                       \/ \E detach \in BOOLEAN : Start(a, t, detach)
                       \/ Join(a, t)
  BY DEF ClientStep
<1>2. UNCHANGED universe
  BY <1>1 DEF New, Retain, Release, Start, Join
<1>3. \/ pc' = pc
      \/ /\ pc[a] = "client"
         /\ \E place \in CallPlaces : pc' = [pc EXCEPT ![a] = place]
  BY <1>1 DEF New, Retain, Release, Start, Join, MayCall, Goto, CallPlaces
<1>4. \/ pc' = pc
      \/ /\ pc[a] = "client"
         /\ \E place \in {"goingMulti", "retaining", "joining"} : pc' = [pc EXCEPT ![a] = place]
  BY <1>1 DEF New, Retain, Release, Start, Join, MayCall, Goto
<1>5. PlacesFit'
  BY <1>2, <1>4, ThreadAssumption DEF Inv, PlacesFit, Place, MemberPlaces, CallPlaces, BouncePlaces, universe, Actor
<1>6. Own' = Own /\ Starting' = Starting /\ Started' = Started /\ Counted' = Counted
  BY <1>4 DEF Inv, PlacesFit, Own, Starting, Started, Counted, MemberPlaces, CallPlaces,
     BouncePlaces, Actor
<1> QED
  BY <1>2, <1>5, <1>6, NeutralStep DEF Inv, universe

(* The steps of a start call: the reference that StartRetains takes goes   *)
(* to the created thread, or back.                                         *)
LEMMA CallStepInv ==
  ASSUME Inv, NEW a \in Actor, CallStep(a)
  PROVE  Inv'
<1> USE DEF PlacesFit, Place, MemberPlaces, CallPlaces, BouncePlaces, Actor, Goto
<1>1. CASE IsGoingMultiThreaded(a) \/ StartRelinquishes(a) \/ StartSetsId(a)
           \/ StartDetaches(a) \/ JoinReturns(a)
  <2>1. UNCHANGED <<retaincount, torn, n_threads, aba>>
    BY <1>1 DEF IsGoingMultiThreaded, StartRelinquishes, StartSetsId, StartDetaches,
       JoinReturns, universe
  <2>2. \E from \in CallPlaces, to \in CallPlaces \cup {"client"} :
          /\ pc[a] = from /\ pc' = [pc EXCEPT ![a] = to]
          /\ from \in {"relinquishing", "creating"} <=> to \in {"relinquishing", "creating"}
    BY <1>1 DEF IsGoingMultiThreaded, StartRelinquishes, StartSetsId, StartDetaches, JoinReturns
  <2>3. PlacesFit'
    BY <2>1, <2>2 DEF Inv
  <2>4. Own' = Own /\ Starting' = Starting /\ Started' = Started /\ Counted' = Counted
    BY <2>2 DEF Inv, Own, Starting, Started, Counted
  <2> QED
    BY <2>1, <2>3, <2>4, NeutralStep DEF Inv
<1>2. CASE StartRetains(a)
  <2>1. PlacesFit'
    BY <1>2 DEF Inv, StartRetains
  <2>2. /\ Own' = Own /\ Started' = Started /\ Counted' = Counted
        /\ Starting' = Starting \cup {a} /\ a \notin Starting
    BY <1>2 DEF Inv, StartRetains, Own, Starting, Started, Counted
  <2>3. Cardinality(Starting') = Cardinality(Starting) + 1
    BY <2>2, HoldersFinite, FS_AddElement
  <2> QED
    BY <1>2, <2>1, <2>2, <2>3, HoldersFinite DEF Inv, ReferencesHaveHolders, StartRetains
<1>3. ASSUME NEW o \in Os, Create(a, o) PROVE Inv'
  <2>a. UNCHANGED <<retaincount, torn, n_threads, aba>>
    BY <1>3 DEF Create, universe
  <2>1. PlacesFit'
    BY <1>3, <2>a, ThreadAssumption DEF Inv, Create
  <2>2. /\ Own' = Own /\ Counted' = Counted
        /\ Started' = Started \cup {o} /\ o \notin Started
        /\ Starting' = Starting \ {a} /\ a \in Starting /\ a \in Own
    BY <1>3 DEF Inv, Create, Own, Starting, Started, Counted
  <2>3. /\ Cardinality(Starting') = Cardinality(Starting) - 1
        /\ Cardinality(Started') = Cardinality(Started) + 1
    BY <2>2, HoldersFinite, FS_AddElement, FS_RemoveElement
  <2> QED
    BY <2>a, <2>1, <2>2, <2>3, HoldersFinite DEF Inv, ReferencesHaveHolders
<1>4. CASE CreateFails(a)
  <2>1. /\ Own' = Own /\ Started' = Started /\ Counted' = Counted
        /\ Starting' = Starting \ {a} /\ a \in Starting /\ a \in Own
    BY <1>4 DEF Inv, CreateFails, Own, Starting, Started, Counted
  <2>2. Cardinality(Starting') = Cardinality(Starting) - 1
    BY <2>1, HoldersFinite, FS_RemoveElement
  <2>3. Cardinality(Own) # 0 /\ Cardinality(Starting) # 0
    BY <2>1, HoldersFinite, FS_EmptySet
  <2>4. retaincount # 1
    BY <2>3, HoldersFinite DEF Inv, ReferencesHaveHolders
  <2>5. UNCHANGED <<aba, n_threads>> /\ (torn' <=> torn) /\ retaincount' = retaincount - 1
    BY <1>4, <2>4 DEF CreateFails, ReleaseUniverse
  <2>6. PlacesFit'
    BY <1>4, <2>5 DEF Inv, CreateFails
  <2> QED
    BY <2>1, <2>2, <2>5, <2>6, HoldersFinite DEF Inv, ReferencesHaveHolders
<1> QED
  BY <1>1, <1>2, <1>3, <1>4 DEF CallStep

(* The steps of the new thread up to -main: it takes its own reference     *)
(* before it gives back the starter's.                                     *)
LEMMA BounceStepInv ==
  ASSUME Inv, NEW o \in Os, BounceStep(o)
  PROVE  Inv'
<1> USE DEF PlacesFit, Place, MemberPlaces, CallPlaces, BouncePlaces, Actor, Goto
<1>1. CASE BounceSetsId(o) \/ RegisterInUniverse(o) \/ BounceGains(o)
  <2>1. UNCHANGED <<retaincount, torn, n_threads, aba>>
    BY <1>1 DEF BounceSetsId, RegisterInUniverse, BounceGains, universe
  <2>2. \/ pc[o] = "bounce" /\ pc' = [pc EXCEPT ![o] = "abaRegister"]
        \/ pc[o] = "registering" /\ o \in Foreign /\ pc' = [pc EXCEPT ![o] = "client"]
        \/ pc[o] = "registering" /\ o \notin Foreign /\ pc' = [pc EXCEPT ![o] = "handover"]
        \/ pc[o] = "gaining" /\ pc' = [pc EXCEPT ![o] = "client"]
    BY <1>1 DEF BounceSetsId, RegisterInUniverse, BounceGains
  <2>3. PlacesFit'
    BY <2>1, <2>2, ThreadAssumption DEF Inv
  <2>4. Own' = Own /\ Starting' = Starting /\ Started' = Started /\ Counted' = Counted
    BY <2>2 DEF Inv, Own, Starting, Started, Counted
  <2> QED
    BY <2>1, <2>3, <2>4, NeutralStep DEF Inv
<1>2. ASSUME NEW t \in Thr, AbaRegister(o, t) PROVE Inv'
  <2>1. UNCHANGED <<retaincount, torn, n_threads>> /\ aba' = aba \cup {o}
    BY <1>2 DEF AbaRegister
  <2>2. /\ pc' = [pc EXCEPT ![o] = "becoming"]
        /\ \/ pc[o] = "abaRegister"
           \/ o \in Foreign /\ pc[o] = "none" /\ pc[Main] = "client"
    BY <1>2 DEF AbaRegister
  <2>3. PlacesFit'
    BY <2>1, <2>2, ThreadAssumption DEF Inv
  <2>4. Own' = Own /\ Starting' = Starting /\ Started' = Started /\ Counted' = Counted
    BY <2>2 DEF Inv, Own, Starting, Started, Counted
  <2> QED
    BY <2>1, <2>3, <2>4, NeutralStep DEF Inv
<1>3. CASE BecomeUniverseThread(o)
  <2>1. PlacesFit'
    BY <1>3, ThreadAssumption DEF Inv, BecomeUniverseThread
  <2>2. /\ Own' = Own \cup {o} /\ o \notin Own
        /\ Counted' = Counted \cup {o} /\ o \notin Counted
        /\ Starting' = Starting /\ Started' = Started
    BY <1>3 DEF Inv, BecomeUniverseThread, Own, Starting, Started, Counted
  <2>3. /\ Cardinality(Own') = Cardinality(Own) + 1
        /\ Cardinality(Counted') = Cardinality(Counted) + 1
    BY <2>2, HoldersFinite, FS_AddElement
  <2>4. o \in Started \/ Main \in Own
    BY <1>3, Members DEF Inv, BecomeUniverseThread, Started
  <2> QED
    BY <1>3, <2>1, <2>2, <2>3, <2>4, HoldersFinite
       DEF Inv, ReferencesHaveHolders, BecomeUniverseThread
<1>4. CASE BounceReleases(o)
  <2>1. /\ Own' = Own /\ Starting' = Starting /\ Counted' = Counted
        /\ Started' = Started \ {o} /\ o \in Started /\ o \in Own
    BY <1>4 DEF Inv, BounceReleases, Own, Starting, Started, Counted
  <2>2. Cardinality(Started') = Cardinality(Started) - 1
    BY <2>1, HoldersFinite, FS_RemoveElement
  <2>3. Cardinality(Own) # 0 /\ Cardinality(Started) # 0
    BY <2>1, HoldersFinite, FS_EmptySet
  <2>4. retaincount # 1
    BY <2>3, HoldersFinite DEF Inv, ReferencesHaveHolders
  <2>5. UNCHANGED <<aba, n_threads>> /\ (torn' <=> torn) /\ retaincount' = retaincount - 1
    BY <1>4, <2>4 DEF BounceReleases, ReleaseUniverse
  <2>6. PlacesFit'
    BY <1>4, <2>5, ThreadAssumption DEF Inv, BounceReleases
  <2> QED
    BY <2>1, <2>2, <2>5, <2>6, HoldersFinite DEF Inv, ReferencesHaveHolders
<1> QED
  BY <1>1, <1>2, <1>3, <1>4 DEF BounceStep

(* The last reference of a thread: if nobody else has one, the universe    *)
(* goes down with it.                                                      *)
LEMMA LastReference ==
  ASSUME Inv, NEW a \in Actor, a \in Own, a \notin Starting, a \notin Started,
         ReleaseUniverse(a),
         Own' = Own \ {a}, Starting' = Starting, Started' = Started, Counted' = Counted
  PROVE  ReferencesHaveHolders'
<1>1. Cardinality(Own') = Cardinality(Own) - 1
  BY HoldersFinite, FS_RemoveElement
<1>2. retaincount' = retaincount - 1 /\ n_threads' = n_threads
      /\ (torn' <=> torn \/ retaincount = 1)
  BY DEF ReleaseUniverse
<1>3. ~torn
  BY DEF Inv, ReferencesHaveHolders
<1>4. Starting \subseteq Own'
  BY DEF Starting, Own, MemberPlaces, CallPlaces
<1>5. IsFiniteSet(Own') /\ Cardinality(Own') \in Nat
  BY HoldersFinite, FS_RemoveElement, FS_CardinalityType
<1>6. Own' = {} => Starting = {}
  BY <1>4
<1>7. /\ Cardinality(Own') = 0 <=> Own' = {}
      /\ Cardinality(Starting) = 0 <=> Starting = {}
      /\ Cardinality(Started) = 0 <=> Started = {}
  BY <1>5, HoldersFinite, FS_EmptySet
<1>8. retaincount = 1 <=> Own' = {} /\ Started = {}
  <2> DEFINE x == Cardinality(Own')
             y == Cardinality(Starting)
             z == Cardinality(Started)
  <2>1. x \in Nat /\ y \in Nat /\ z \in Nat
    BY <1>5, HoldersFinite
  <2>2. retaincount = x + 1 + y + z
    BY <1>1, HoldersFinite DEF Inv, ReferencesHaveHolders
  <2>3. /\ x = 0 <=> Own' = {}
        /\ y = 0 <=> Starting = {}
        /\ z = 0 <=> Started = {}
    BY <1>7
  <2> HIDE DEF x, y, z
  <2>4. retaincount = 1 <=> x = 0 /\ y = 0 /\ z = 0
    BY <2>1, <2>2
  <2> QED
    BY <1>6, <2>3, <2>4
<1> QED
  BY <1>1, <1>2, <1>3, <1>8, HoldersFinite DEF Inv, ReferencesHaveHolders

(* The way out.                                                            *)
LEMMA ExitStepInv ==
  ASSUME Inv, NEW o \in Os, ExitStep(o)
  PROVE  Inv'
<1> USE DEF PlacesFit, Place, MemberPlaces, CallPlaces, BouncePlaces, Actor, Goto
<1>1. CASE Exit(o) \/ IsProbablyGoingSingleThreaded(o) \/ Finalize(o) \/ TakedownAndRelease(o)
  <2>1. UNCHANGED <<retaincount, torn, n_threads, aba>>
    BY <1>1 DEF Exit, IsProbablyGoingSingleThreaded, Finalize, TakedownAndRelease, universe
  <2>2. \E from \in {"client", "goingSingle", "finalizing", "takedown"},
           to \in {"goingSingle", "finalizing", "takedown", "resigning"} :
          pc[o] = from /\ pc' = [pc EXCEPT ![o] = to]
    BY <1>1 DEF Exit, IsProbablyGoingSingleThreaded, Finalize, TakedownAndRelease
  <2>3. PlacesFit'
    BY <2>1, <2>2, ThreadAssumption DEF Inv
  <2>4. Own' = Own /\ Starting' = Starting /\ Started' = Started /\ Counted' = Counted
    BY <2>2 DEF Inv, Own, Starting, Started, Counted
  <2> QED
    BY <2>1, <2>3, <2>4, NeutralStep DEF Inv
<1>2. CASE ResignAsUniverseThread(o)
  <2>1. PlacesFit'
    BY <1>2, ThreadAssumption DEF Inv, ResignAsUniverseThread
  <2>2. /\ Own' = Own /\ Starting' = Starting /\ Started' = Started
        /\ Counted' = Counted \ {o} /\ o \in Counted
    BY <1>2 DEF Inv, ResignAsUniverseThread, Own, Starting, Started, Counted
  <2>3. Cardinality(Counted') = Cardinality(Counted) - 1
    BY <2>2, HoldersFinite, FS_RemoveElement
  <2> QED
    BY <1>2, <2>1, <2>2, <2>3, HoldersFinite DEF Inv, ReferencesHaveHolders, ResignAsUniverseThread
<1>3. CASE AbaUnregister(o)
  <2>1. PlacesFit'
    BY <1>3, ThreadAssumption DEF Inv, AbaUnregister
  <2>2. Own' = Own /\ Starting' = Starting /\ Started' = Started /\ Counted' = Counted
    BY <1>3 DEF Inv, AbaUnregister, Own, Starting, Started, Counted
  <2> QED
    BY <1>3, <2>1, <2>2, NeutralStep DEF Inv, AbaUnregister
<1>4. CASE Leave(o)
  <2>1. /\ Own' = Own \ {o} /\ o \in Own /\ o \notin Starting /\ o \notin Started
        /\ Starting' = Starting /\ Started' = Started /\ Counted' = Counted
    BY <1>4 DEF Inv, Leave, Own, Starting, Started, Counted
  <2>2. o \notin aba /\ \A p \in Os : p \in aba' <=> p \in aba
    BY <1>4 DEF Inv, Leave, ReleaseUniverse
  <2>3. PlacesFit'
    BY <1>4, <2>2, ThreadAssumption DEF Inv, Leave
  <2> QED
    BY <1>4, <2>1, <2>3, LastReference DEF Inv, Leave
<1> QED
  BY <1>1, <1>2, <1>3, <1>4 DEF ExitStep

(* The end of the main thread.                                             *)
LEMMA MainReturnsInv ==
  ASSUME Inv, MainReturns
  PROVE  Inv'
<1> USE DEF PlacesFit, Place, MemberPlaces, CallPlaces, BouncePlaces, Actor, Goto
<1>1. /\ Own' = Own \ {Main} /\ Main \in Own /\ Main \notin Starting /\ Main \notin Started
      /\ Starting' = Starting /\ Started' = Started /\ Counted' = Counted
  BY ThreadAssumption DEF Inv, MainReturns, Own, Starting, Started, Counted
<1>2. \A p \in Os : p \in aba' <=> p \in aba
  BY ThreadAssumption DEF MainReturns, ReleaseUniverse
<1>3. PlacesFit'
  BY <1>2, ThreadAssumption DEF Inv, MainReturns
<1> QED
  BY <1>1, <1>3, LastReference DEF Inv, MainReturns

(* Inv is inductive.                                                       *)
LEMMA InvStep == Inv /\ [Next]_vars => Inv'
<1> SUFFICES ASSUME Inv, [Next]_vars PROVE Inv'
  OBVIOUS
<1>1. CASE UNCHANGED vars
  <2>1. UNCHANGED <<pc, retaincount, torn, n_threads, aba>>
    BY <1>1 DEF vars, universe
  <2> QED
    BY <2>1 DEF Inv, PlacesFit, ReferencesHaveHolders, Own, Starting, Started, Counted
<1> QED
  BY <1>1, ClientStepInv, CallStepInv, BounceStepInv, ExitStepInv, MainReturnsInv DEF Next

(* The main thread alone holds the universe at first.                      *)
LEMMA InvInit == Init => Inv
<1> SUFFICES ASSUME Init PROVE Inv
  OBVIOUS
<1>1. PlacesFit
  BY ThreadAssumption DEF Init, PlacesFit, Place, MemberPlaces, CallPlaces, BouncePlaces, Actor
<1>2. Own = {Main} /\ Starting = {} /\ Started = {} /\ Counted = {}
  BY ThreadAssumption DEF Init, Own, Starting, Started, Counted, MemberPlaces, CallPlaces,
     BouncePlaces, Actor
<1>3. Cardinality({Main}) = 1
  BY FS_Singleton
<1> QED
  BY <1>1, <1>2, <1>3, FS_EmptySet DEF Inv, ReferencesHaveHolders, Init

(* Every reference to the universe has a holder, for any number of threads. *)
THEOREM References == Spec => []ReferencesHaveHolders
<1>1. Inv => ReferencesHaveHolders
  BY DEF Inv
<1> QED
  BY <1>1, InvInit, InvStep, PTL DEF Spec

(* The universe outlives every thread, from its creation to its own        *)
(* release.                                                                *)
THEOREM UniverseSafety == Spec => []UniverseOutlivesThreads
<1>1. Inv => UniverseOutlivesThreads
  <2> SUFFICES ASSUME Inv, torn, NEW a \in Actor PROVE pc[a] \in {"none", "ended"}
    BY DEF UniverseOutlivesThreads
  <2>1. Own = {} /\ Started = {}
    BY DEF Inv, ReferencesHaveHolders
  <2>2. pc[a] \notin MemberPlaces /\ (a \in Os \ Foreign => pc[a] \notin BouncePlaces)
    BY <2>1 DEF Own, Started
  <2>3. a \in Foreign => pc[a] \notin {"bounce", "abaRegister", "becoming"}
    BY <2>1, Members DEF Inv, PlacesFit
  <2>4. a = Main => pc[a] = "ended"
    BY <2>1, Members DEF Inv
  <2> QED
    BY <2>2, <2>3, <2>4 DEF Inv, PlacesFit, Place, BouncePlaces, MemberPlaces, CallPlaces, Actor
<1> QED
  BY <1>1, InvInit, InvStep, PTL DEF Spec

(* The teardown finds no thread counted and none registered with mulle_aba. *)
THEOREM TeardownSafety == Spec => []TeardownIsQuiet
<1>1. Inv => TeardownIsQuiet
  <2> SUFFICES ASSUME Inv, torn PROVE n_threads = 0 /\ aba \cap Os = {}
    BY DEF TeardownIsQuiet
  <2>1. Own = {} /\ Started = {}
    BY DEF Inv, ReferencesHaveHolders
  <2>2. \A o \in Os : pc[o] \notin MemberPlaces \cup {"becoming"}
    BY <2>1, Members DEF Inv, PlacesFit, Own, Started, BouncePlaces, Actor
  <2>3. Counted = {} /\ aba \cap Os = {}
    BY <2>2 DEF Counted, Inv, PlacesFit
  <2> QED
    BY <2>3, FS_EmptySet DEF Inv, ReferencesHaveHolders
<1> QED
  BY <1>1, InvInit, InvStep, PTL DEF Spec

-----------------------------------------------------------------------------
(* References to NSThreads and the argument of a thread.                   *)

(* An OS thread that has a reference to its NSThread.                      *)
RunPlaces == (MemberPlaces \cup BouncePlaces) \ {"resigning", "abaUnregister", "leaving"}
Runs(o) ==
  pc[o] \in RunPlaces /\ (o \in Foreign => pc[o] \notin {"becoming", "registering"})

BeforeCreate == {"goingMulti", "retaining", "relinquishing", "creating"}
HasRetained  == {"relinquishing", "creating"}

Bit(b) == IF b THEN 1 ELSE 0

(* A reference is held by client code, by the OS thread that runs, or by a *)
(* call that has not created the OS thread yet.                            *)
RunBy(t)    == \E o \in Os : self[o] = t /\ Runs(o)
StartedBy(t) == \E a \in Actor : call[a].thr = t /\ pc[a] \in HasRetained

OwnersAt(t) == thr[t].rc = thr[t].held + Bit(RunBy(t)) + Bit(StartedBy(t))

(* An NSThread has one OS thread.  That of a C thread is nobody else's.    *)
SelfAt(o) ==
  /\ self[o] = None <=> pc[o] = "none"
  /\ o \notin Foreign /\ pc[o] # "none" => thr[self[o]].osThread = o
  /\ o \in Foreign /\ pc[o] # "none" =>
       /\ thr[self[o]].held = 0
       /\ \A p \in Os \ {o} : self[p] # self[o]
       /\ pc[o] \in {"becoming", "registering"} => thr[self[o]].rc = 0

(* A call is the only one on its NSThread, and its caller owns a reference. *)
CallAt(a) ==
  /\ call[a].thr = None <=> pc[a] \notin CallPlaces
  /\ \A t \in Thr : call[a].thr = t =>
       /\ thr[t].held > 0
       /\ \A b \in Actor \ {a} : call[b].thr # t
       /\ thr[t].osThread = None <=> pc[a] \in BeforeCreate
       /\ pc[a] \in BeforeCreate => thr[t].affinity \in {a, Limbo}
       /\ pc[a] = "creating" => InLimbo(t)

(* The argument is in limbo before the thread gains it and after it        *)
(* relinquished it, and with the thread in between.                        *)
ArgumentAt(o) ==
  o \in Os \ Foreign =>
    /\ pc[o] \in BouncePlaces \cup {"gaining"} => InLimbo(self[o])
    /\ pc[o] \in {"client", "goingSingle", "finalizing"} \cup CallPlaces =>
         thr[self[o]].affinity = o /\ thr[self[o]].didGain
    /\ pc[o] \in ExitedPlaces /\ thr[self[o]].argument => InLimbo(self[o])

(* A detached thread drops the argument.  Only a thread that was started   *)
(* gains it.                                                               *)
DetachedAt(t) ==
  /\ thr[t].isDetached /\ thr[t].argument =>
       \A o \in Os : self[o] = t => pc[o] \notin ExitedPlaces
  /\ thr[t].didGain => \E o \in Os \ Foreign : self[o] = t

(* The starter sets the thread id if the thread itself did not.            *)
IdAt(t) ==
  thr[t].osThread # None /\ thr[t].osThreadId = None =>
    \E a \in Actor : call[a].thr = t /\ pc[a] = "created"

Typed ==
  /\ thr \in [Thr -> NSThread]
  /\ self \in [Os -> Thr \cup {None}]
  /\ call \in [Actor -> [thr : Thr \cup {None}, detach : BOOLEAN]]
  /\ joined \subseteq Os
  /\ torn \in BOOLEAN
  /\ isMultiThreaded \in BOOLEAN
  /\ aba \subseteq Actor
  /\ threads \subseteq Actor

Held ==
  /\ \A t \in Thr : OwnersAt(t) /\ DetachedAt(t) /\ IdAt(t)
  /\ \A o \in Os : SelfAt(o) /\ ArgumentAt(o)
  /\ \A a \in Actor : CallAt(a)

ThreadInv == Inv /\ Typed /\ Held

USE DEF InLimbo, ExitedPlaces

(* Who calls and who runs is there.                                        *)
LEMMA UsesCount ==
  ASSUME ThreadInv, NEW t \in Thr
  PROVE  /\ thr[t].rc \in Nat /\ thr[t].held \in Nat /\ thr[t].rc >= thr[t].held
         /\ \A a \in Actor : call[a].thr = t => thr[t].held > 0
         /\ \A o \in Os : self[o] = t /\ Runs(o) =>
              thr[t].rc >= thr[t].held + 1
         /\ \A o, p \in Os : self[o] = t /\ self[p] = t => o = p
         /\ thr[t].held > 0 => \A o \in Foreign : self[o] # t
         /\ thr[t].osThread = None => \A o \in Os \ Foreign : self[o] # t
<1>1. thr[t] \in NSThread
  BY DEF ThreadInv, Typed
<1>2. thr[t].rc \in Nat /\ thr[t].held \in Nat
  BY <1>1 DEF NSThread
<1>3. PICK x \in Nat, y \in Nat :
        /\ thr[t].rc = thr[t].held + x + y
        /\ RunBy(t) => x = 1
  <2>1. thr[t].rc = thr[t].held + Bit(RunBy(t)) + Bit(StartedBy(t))
    BY DEF ThreadInv, Held, OwnersAt
  <2>2. /\ Bit(RunBy(t)) \in Nat /\ Bit(StartedBy(t)) \in Nat
        /\ RunBy(t) => Bit(RunBy(t)) = 1
    BY DEF Bit
  <2> QED
    BY <2>1, <2>2
<1>5. thr[t].rc >= thr[t].held
  BY <1>2, <1>3
<1>6. ASSUME NEW o \in Os, self[o] = t, Runs(o) PROVE thr[t].rc >= thr[t].held + 1
  <2>1. x = 1
    BY <1>3, <1>6 DEF RunBy
  <2> QED
    BY <1>2, <1>3, <2>1
<1>7. \A o \in Os : self[o] = t => pc[o] # "none"
  BY ThreadAssumption DEF ThreadInv, Held, SelfAt
<1>8. \A o, p \in Os : self[o] = t /\ self[p] = t => o = p
  BY <1>7 DEF ThreadInv, Held, SelfAt
<1>9. thr[t].held > 0 => \A o \in Foreign : self[o] # t
  BY <1>7, ThreadAssumption DEF ThreadInv, Held, SelfAt
<1>10. thr[t].osThread = None => \A o \in Os \ Foreign : self[o] # t
  BY <1>7, ThreadAssumption DEF ThreadInv, Held, SelfAt
<1>11. \A a \in Actor : call[a].thr = t => thr[t].held > 0
  BY DEF ThreadInv, Held, CallAt
<1> QED
  BY <1>2, <1>5, <1>6, <1>8, <1>9, <1>10, <1>11

(* A step that goes on to a place of the same kind and touches nothing     *)
(* else.                                                                   *)
LEMMA PlaceStep ==
  ASSUME ThreadInv, NEW a \in Actor, NEW from, NEW to, pc[a] = from, pc' = [pc EXCEPT ![a] = to],
         UNCHANGED <<thr, self, call>>,
         from # "none", to # "none",
         from \in RunPlaces <=> to \in RunPlaces,
         from \in CallPlaces <=> to \in CallPlaces,
         from \in BeforeCreate <=> to \in BeforeCreate,
         from \in HasRetained <=> to \in HasRetained,
         to \in {"creating"} => from = "creating", from # "created",
         from \in {"becoming", "registering"} <=> to \in {"becoming", "registering"},
         to \in BouncePlaces \cup {"gaining"} => from \in BouncePlaces \cup {"gaining"},
         to \in {"client", "goingSingle", "finalizing"} \cup CallPlaces =>
           from \in {"client", "goingSingle", "finalizing"} \cup CallPlaces,
         a \in Os /\ to \in ExitedPlaces => from \in ExitedPlaces
  PROVE  Held'
<1>1. \A b \in Actor : pc'[b] = IF b = a THEN to ELSE pc[b]
  BY DEF ThreadInv, Inv, PlacesFit
<1>2. Os \subseteq Actor
  BY DEF Actor
<1>3. \A o \in Os : Runs(o)' <=> Runs(o)
  BY <1>1, <1>2 DEF Runs
<1>4. \A b \in Actor : pc'[b] \in HasRetained <=> pc[b] \in HasRetained
  BY <1>1
<1>5. \A t \in Thr : OwnersAt(t)'
  <2> SUFFICES ASSUME NEW t \in Thr PROVE OwnersAt(t)'
    OBVIOUS
  <2>1. RunBy(t)' = RunBy(t)
    BY <1>3 DEF RunBy
  <2>2. StartedBy(t)' = StartedBy(t)
    BY <1>4 DEF StartedBy
  <2> QED
    BY <2>1, <2>2 DEF ThreadInv, Held, OwnersAt, Bit
<1>6. \A t \in Thr : DetachedAt(t)'
  BY <1>1, <1>2 DEF ThreadInv, Held, DetachedAt
<1>7. \A o \in Os : SelfAt(o)'
  BY <1>1, <1>2 DEF ThreadInv, Held, SelfAt
<1>8. \A o \in Os : ArgumentAt(o)'
  BY <1>1, <1>2 DEF ThreadInv, Held, ArgumentAt
<1>9. \A b \in Actor : CallAt(b)'
  BY <1>1 DEF ThreadInv, Held, CallAt
<1>10. \A t \in Thr : IdAt(t)'
  BY <1>1 DEF ThreadInv, Held, IdAt
<1> QED
  BY <1>5, <1>6, <1>7, <1>8, <1>9, <1>10 DEF Held

(* Whoever calls is counted among the callers.                             *)
LEMMA CallersCount ==
  ASSUME NEW t \in Thr
  PROVE  /\ Cardinality(Callers(t)) \in Nat
         /\ (\E a \in Actor : call[a].thr = t) => Cardinality(Callers(t)) >= 1
<1>1. IsFiniteSet(Actor)
  BY ThreadAssumption, FS_AddElement DEF Actor
<1>2. Callers(t) \in SUBSET Actor
  BY DEF Callers
<1>3. IsFiniteSet(Callers(t)) /\ Cardinality(Callers(t)) \in Nat
  BY <1>1, <1>2, FS_Subset, FS_CardinalityType
<1>4. Cardinality(Callers(t)) = 0 <=> Callers(t) = {}
  BY <1>3, FS_EmptySet
<1> QED
  BY <1>3, <1>4 DEF Callers

(* Who may call an NSThread knows that it is held.                         *)
LEMMA MayCallHeld ==
  ASSUME ThreadInv, NEW a \in Actor, NEW t \in Thr, MayCall(a, t)
  PROVE  thr[t].held > 0
<1>1. PICK n \in Nat : n = Cardinality(Callers(t))
  BY CallersCount
<1>2. thr[t].held \in Nat /\ thr[t].held > n
  BY <1>1, UsesCount DEF MayCall
<1> QED
  BY <1>2

(* What another holder does to the references keeps the count.             *)
LEMMA OwnersSame ==
  ASSUME ThreadInv, NEW t \in Thr, RunBy(t)' <=> RunBy(t), StartedBy(t)' <=> StartedBy(t),
         \/ thr'[t] = thr[t]
         \/ /\ thr'[t].rc \in Nat /\ thr'[t].held \in Nat
            /\ thr'[t].rc - thr'[t].held = thr[t].rc - thr[t].held
  PROVE  OwnersAt(t)'
<1>1. PICK x \in Nat : x = Bit(RunBy(t)) + Bit(StartedBy(t))
  BY DEF Bit
<1>2. /\ Bit(RunBy(t))' = Bit(RunBy(t)) /\ Bit(StartedBy(t))' = Bit(StartedBy(t))
      /\ Bit(RunBy(t)) \in Nat /\ Bit(StartedBy(t)) \in Nat
  BY DEF Bit
<1>3. thr[t].rc = thr[t].held + Bit(RunBy(t)) + Bit(StartedBy(t))
  BY DEF ThreadInv, Held, OwnersAt
<1>4. thr[t].rc \in Nat /\ thr[t].held \in Nat
  BY DEF ThreadInv, Typed, NSThread
<1> QED
  BY <1>2, <1>3, <1>4 DEF OwnersAt

(* Client code allocates an NSThread, at an address that nobody uses.      *)
LEMMA NewHeld ==
  ASSUME ThreadInv, NEW a \in Actor, NEW t \in Thr, New(a, t)
  PROVE  Typed' /\ Held'
<1>1. /\ thr' = [thr EXCEPT ![t] = [NoNSThread EXCEPT !.rc = 1, !.held = 1,
                                                  !.argument = TRUE, !.affinity = a]]
      /\ thr[t].rc = 0 /\ \A o \in Os : self[o] # t
      /\ UNCHANGED <<pc, self, call, joined, universe>>
  BY DEF New
<1>2. /\ thr'[t] \in NSThread /\ thr'[t].rc = 1 /\ thr'[t].held = 1 /\ thr'[t].osThread = None
      /\ thr'[t].isDetached = FALSE /\ thr'[t].didGain = FALSE
  BY <1>1 DEF ThreadInv, Typed, NoNSThread, NSThread
<1>3. thr' \in [Thr -> NSThread] /\ \A u \in Thr \ {t} : thr'[u] = thr[u]
  BY <1>1, <1>2 DEF ThreadInv, Typed
<1>4. \A b \in Actor : call[b].thr # t
  BY <1>1, UsesCount
<1>5. Typed'
  BY <1>1, <1>3 DEF ThreadInv, Typed, universe
<1>6. \A o \in Os : Runs(o)' <=> Runs(o)
  BY <1>1 DEF Runs
<1>7. \A u \in Thr : (RunBy(u)' <=> RunBy(u)) /\ (StartedBy(u)' <=> StartedBy(u))
  BY <1>1, <1>6 DEF RunBy, StartedBy
<1>8. \A u \in Thr : OwnersAt(u)'
  <2>1. ~RunBy(t)' /\ ~StartedBy(t)'
    BY <1>1, <1>4, <1>7 DEF RunBy, StartedBy
  <2>2. OwnersAt(t)'
    BY <1>2, <2>1 DEF OwnersAt, Bit
  <2>3. \A u \in Thr \ {t} : OwnersAt(u)'
    BY <1>3, <1>7, OwnersSame
  <2> QED
    BY <2>2, <2>3
<1>9. \A u \in Thr : DetachedAt(u)' /\ IdAt(u)'
  BY <1>1, <1>2, <1>3 DEF ThreadInv, Held, DetachedAt, IdAt
<1>10. \A o \in Os : SelfAt(o)' /\ ArgumentAt(o)'
  <2> SUFFICES ASSUME NEW o \in Os PROVE SelfAt(o)' /\ ArgumentAt(o)'
    OBVIOUS
  <2>1. pc[o] = "none" \/ (self[o] \in Thr /\ thr'[self[o]] = thr[self[o]])
    BY <1>1, <1>3 DEF ThreadInv, Typed, Held, SelfAt
  <2>2. SelfAt(o)'
    BY <1>1, <2>1 DEF ThreadInv, Held, SelfAt
  <2>3. ArgumentAt(o)'
    BY <1>1, <2>1 DEF ThreadInv, Held, ArgumentAt, BouncePlaces, CallPlaces
  <2> QED
    BY <2>2, <2>3
<1>11. \A b \in Actor : CallAt(b)'
  BY <1>1, <1>3, <1>4 DEF ThreadInv, Held, CallAt
<1> QED
  BY <1>5, <1>8, <1>9, <1>10, <1>11 DEF Held

(* To gain access changes who has the argument and gives back a retain.    *)
LEMMA GainedRecord ==
  ASSUME NEW r \in NSThread, NEW a \in Actor, r.didGain /\ r.argument => r.handed > 0
  PROVE  /\ Gained(r, a) \in NSThread
         /\ Gained(r, a).rc = r.rc /\ Gained(r, a).held = r.held
         /\ Gained(r, a).osThread = r.osThread /\ Gained(r, a).osThreadId = r.osThreadId
         /\ Gained(r, a).isDetached = r.isDetached /\ Gained(r, a).didGain = r.didGain
         /\ Gained(r, a).argument = r.argument
<1>1. CASE r.didGain /\ r.argument
  <2>1. r.handed - 1 \in Nat
    BY <1>1 DEF NSThread
  <2>2. PICK n \in Nat : n = r.handed - 1
    BY <2>1
  <2>3. PICK g : g = [r EXCEPT !.affinity = a, !.handed = n]
    OBVIOUS
  <2>4. Gained(r, a) = g
    BY <1>1, <2>2, <2>3 DEF Gained
  <2>5. /\ g \in NSThread /\ g.rc = r.rc /\ g.held = r.held /\ g.osThread = r.osThread
        /\ g.osThreadId = r.osThreadId /\ g.isDetached = r.isDetached /\ g.didGain = r.didGain
        /\ g.argument = r.argument
    BY <2>3 DEF NSThread
  <2> QED
    BY <2>4, <2>5
<1>2. CASE ~(r.didGain /\ r.argument)
  BY <1>2 DEF Gained
<1> QED
  BY <1>1, <1>2

(* The argument of an NSThread that only client code refers to waits in    *)
(* limbo, if the NSThread ever ran.                                        *)
LEMMA NotRunning ==
  ASSUME ThreadInv, NEW t \in Thr, thr[t].rc = thr[t].held
  PROVE  thr[t].didGain /\ thr[t].argument => thr[t].handed > 0
<1> SUFFICES ASSUME thr[t].didGain, thr[t].argument PROVE thr[t].handed > 0
  OBVIOUS
<1>1. PICK o \in Os \ Foreign : self[o] = t
  BY DEF ThreadInv, Held, DetachedAt
<1>2. ~Runs(o)
  <2>1. thr[t].rc \in Nat /\ thr[t].held \in Nat /\ (Runs(o) => thr[t].rc >= thr[t].held + 1)
    BY <1>1, UsesCount
  <2> QED
    BY <2>1
<1>3. pc[o] # "none" /\ pc[o] \in Place
  BY <1>1, ThreadAssumption DEF ThreadInv, Inv, PlacesFit, Held, SelfAt, Actor
<1>4. pc[o] \in ExitedPlaces
  BY <1>2, <1>3 DEF Runs, RunPlaces, Place
<1> QED
  BY <1>1, <1>4 DEF ThreadInv, Held, ArgumentAt

(* Client code retains and releases.  It keeps a reference for each call.  *)
LEMMA RetainHeld ==
  ASSUME ThreadInv, NEW a \in Actor, NEW t \in Thr, Retain(a, t) \/ Release(a, t)
  PROVE  Typed' /\ Held'
<1>1. UNCHANGED <<pc, self, call, joined, universe>>
  BY DEF Retain, Release
<1>2. /\ thr[t] \in NSThread /\ thr[t].rc \in Nat /\ thr[t].held \in Nat
      /\ thr[t].held > 0 /\ thr[t].rc >= thr[t].held
  <2>1. thr[t] \in NSThread /\ thr[t].rc \in Nat /\ thr[t].held \in Nat
    BY DEF ThreadInv, Typed, NSThread
  <2>2. CASE Retain(a, t)
    BY <2>1, <2>2, UsesCount DEF Retain
  <2>3. CASE Release(a, t)
    BY <2>1, <2>3, UsesCount, CallersCount DEF Release, MayCall
  <2> QED
    BY <2>1, <2>2, <2>3
<1>3. /\ thr'[t] \in NSThread /\ \A u \in Thr \ {t} : thr'[u] = thr[u]
      /\ thr' \in [Thr -> NSThread]
      /\ thr'[t].rc - thr'[t].held = thr[t].rc - thr[t].held
      /\ thr'[t].osThread = thr[t].osThread /\ thr'[t].isDetached = thr[t].isDetached
      /\ thr'[t].osThreadId = thr[t].osThreadId
      /\ thr'[t].argument => thr[t].argument
      /\ thr'[t].didGain = thr[t].didGain
      /\ (\E b \in Actor : call[b].thr = t) => thr'[t].held > 0
      /\ \/ thr'[t].affinity = thr[t].affinity /\ thr'[t].handed = thr[t].handed
         \/ thr'[t].rc = 0 /\ thr'[t].held = 0 /\ thr'[t].argument = FALSE
  <2>1. CASE Retain(a, t)
    <3>1. thr' = [thr EXCEPT ![t] = [thr[t] EXCEPT !.held = @ + 1, !.rc = @ + 1]]
      BY <2>1 DEF Retain, ThreadInv, Typed
    <3>2. PICK r : r = [thr[t] EXCEPT !.held = @ + 1, !.rc = @ + 1]
      OBVIOUS
    <3>3. /\ r \in NSThread /\ r.rc = thr[t].rc + 1 /\ r.held = thr[t].held + 1
          /\ r.osThread = thr[t].osThread /\ r.isDetached = thr[t].isDetached
          /\ r.osThreadId = thr[t].osThreadId
          /\ r.argument = thr[t].argument /\ r.affinity = thr[t].affinity
          /\ r.didGain = thr[t].didGain /\ r.handed = thr[t].handed
      <4>1. thr[t].held + 1 \in Nat /\ thr[t].rc + 1 \in Nat
        BY <1>2
      <4>2. r \in NSThread
        BY <1>2, <3>2, <4>1 DEF NSThread
      <4>3. r.rc = thr[t].rc + 1 /\ r.held = thr[t].held + 1
        BY <1>2, <3>2 DEF NSThread
      <4> QED
        BY <1>2, <3>2, <4>2, <4>3 DEF NSThread
    <3>4. thr' = [thr EXCEPT ![t] = r]
      BY <3>1, <3>2
    <3>5. thr'[t] = r /\ thr' \in [Thr -> NSThread] /\ \A u \in Thr \ {t} : thr'[u] = thr[u]
      BY <3>3, <3>4 DEF ThreadInv, Typed
    <3> QED
      BY <1>2, <3>3, <3>5
  <2>2. CASE Release(a, t)
    <3>1. PICK r : r = [Released(t, a) EXCEPT !.held = @ - 1]
      OBVIOUS
    <3>2. thr' = [thr EXCEPT ![t] = r]
      BY <2>2, <3>1 DEF Release
    <3>3. thr[t].held - 1 \in Nat /\ thr[t].rc - 1 \in Nat /\ thr[t].rc >= thr[t].held
      BY <1>2
    <3>4. thr[t].affinity \in Actor \cup {Limbo}
      BY <1>2 DEF NSThread
    <3>5. /\ r \in NSThread /\ r.rc = thr[t].rc - 1 /\ r.held = thr[t].held - 1
          /\ r.osThread = thr[t].osThread /\ r.isDetached = thr[t].isDetached
          /\ r.osThreadId = thr[t].osThreadId
          /\ r.argument => thr[t].argument
          /\ r.didGain = thr[t].didGain
          /\ \/ r.affinity = thr[t].affinity /\ r.handed = thr[t].handed
             \/ r.rc = 0 /\ r.held = 0 /\ r.argument = FALSE
      <4>1. CASE thr[t].rc > 1
        BY <1>2, <3>1, <3>3, <4>1 DEF NSThread, Released
      <4>2. CASE ~(thr[t].rc > 1)
        <5>1. thr[t].rc = 1 /\ thr[t].held = 1
          BY <1>2, <4>2
        <5>2. thr[t].didGain /\ thr[t].argument => thr[t].handed > 0
          BY <1>2, <5>1, NotRunning
        <5>3. PICK g : g = Gained(thr[t], a)
          OBVIOUS
        <5>4. /\ g \in NSThread /\ g.rc = thr[t].rc /\ g.held = thr[t].held
              /\ g.osThread = thr[t].osThread /\ g.isDetached = thr[t].isDetached
              /\ g.osThreadId = thr[t].osThreadId /\ g.didGain = thr[t].didGain
          BY <1>2, <5>2, <5>3, GainedRecord
        <5>5. r = [[g EXCEPT !.rc = 0, !.argument = FALSE] EXCEPT !.held = @ - 1]
          BY <3>1, <4>2, <5>3 DEF Released
        <5>6. r \in NSThread
          BY <3>3, <5>4, <5>5 DEF NSThread
        <5>7. r.rc = 0 /\ r.held = 0 /\ r.argument = FALSE /\ r.osThread = g.osThread
              /\ r.isDetached = g.isDetached /\ r.osThreadId = g.osThreadId /\ r.didGain = g.didGain
          BY <5>1, <5>4, <5>5 DEF NSThread
        <5> QED
          BY <1>2, <5>1, <5>4, <5>6, <5>7
      <4> QED
        BY <4>1, <4>2
    <3>6. thr'[t] = r /\ thr' \in [Thr -> NSThread] /\ \A u \in Thr \ {t} : thr'[u] = thr[u]
      BY <3>2, <3>5 DEF ThreadInv, Typed
    <3>7. (\E b \in Actor : call[b].thr = t) => r.held > 0
      BY <1>2, <2>2, <3>5, CallersCount DEF Release, MayCall
    <3> QED
      BY <1>2, <3>5, <3>6, <3>7
  <2> QED
    BY <2>1, <2>2
<1>4. Typed'
  BY <1>1, <1>3 DEF ThreadInv, Typed, universe
<1>5. \A o \in Os : Runs(o)' <=> Runs(o)
  BY <1>1 DEF Runs
<1>6. \A u \in Thr : (RunBy(u)' <=> RunBy(u)) /\ (StartedBy(u)' <=> StartedBy(u))
  BY <1>1, <1>5 DEF RunBy, StartedBy
<1>7. thr'[t].rc \in Nat /\ thr'[t].held \in Nat
  BY <1>3 DEF NSThread
<1>8. \A u \in Thr : OwnersAt(u)'
  BY <1>3, <1>6, <1>7, OwnersSame
<1>9. \A u \in Thr : DetachedAt(u)' /\ IdAt(u)'
  BY <1>1, <1>3 DEF ThreadInv, Held, DetachedAt, IdAt
<1>10. \A o \in Foreign : self[o] # t
  BY <1>2, UsesCount
<1>11. \A o \in Os : SelfAt(o)'
  <2> SUFFICES ASSUME NEW o \in Os PROVE SelfAt(o)'
    OBVIOUS
  <2>1. CASE self[o] = t
    BY <1>1, <1>3, <1>10, <2>1 DEF ThreadInv, Held, SelfAt
  <2>2. CASE self[o] # t
    <3>1. pc[o] = "none" \/ (self[o] \in Thr /\ thr'[self[o]] = thr[self[o]])
      BY <1>1, <1>3, <2>2 DEF ThreadInv, Typed, Held, SelfAt
    <3> QED
      BY <1>1, <3>1 DEF ThreadInv, Held, SelfAt
  <2> QED
    BY <2>1, <2>2
<1>12. \A o \in Os : ArgumentAt(o)'
  <2> SUFFICES ASSUME NEW o \in Os \ Foreign PROVE ArgumentAt(o)'
    BY DEF ArgumentAt
  <2>1. CASE self[o] = t /\ Runs(o)
    <3>1. thr[t].rc >= thr[t].held + 1
      BY <2>1, UsesCount
    <3>2. thr'[t].affinity = thr[t].affinity /\ thr'[t].handed = thr[t].handed
      BY <1>2, <1>3, <1>7, <3>1
    <3> QED
      BY <1>1, <1>3, <2>1, <3>2 DEF ThreadInv, Held, ArgumentAt
  <2>2. CASE self[o] = t /\ ~Runs(o)
    <3>1. pc[o] \notin BouncePlaces \cup {"gaining", "client", "goingSingle", "finalizing"} \cup CallPlaces
      BY <2>2 DEF Runs, RunPlaces, BouncePlaces, MemberPlaces, CallPlaces
    <3>2. /\ thr'[t].argument => thr[t].argument
          /\ thr'[t].argument => thr'[t].affinity = thr[t].affinity /\ thr'[t].handed = thr[t].handed
      BY <1>3
    <3> QED
      BY <1>1, <2>2, <3>1, <3>2 DEF ThreadInv, Held, ArgumentAt
  <2>3. CASE self[o] # t /\ pc[o] # "none"
    <3>1. self[o] \in Thr /\ thr'[self[o]] = thr[self[o]]
      BY <1>1, <1>3, <2>3 DEF ThreadInv, Typed, Held, SelfAt
    <3> QED
      BY <1>1, <3>1 DEF ThreadInv, Held, ArgumentAt
  <2>4. CASE pc[o] = "none"
    BY <1>1, <2>4 DEF ArgumentAt, BouncePlaces, CallPlaces
  <2> QED
    BY <2>1, <2>2, <2>3, <2>4
<1>13. ASSUME NEW b \in Actor PROVE CallAt(b)'
  <2>1. CASE call[b].thr # t
    BY <1>1, <1>3, <2>1 DEF ThreadInv, Held, CallAt
  <2>2. CASE call[b].thr = t
    <3>1. thr'[t].held > 0
      BY <1>3, <2>2
    <3>2. thr'[t].affinity = thr[t].affinity /\ thr'[t].handed = thr[t].handed
      BY <1>3, <3>1
    <3> QED
      BY <1>1, <1>3, <2>2, <3>1, <3>2 DEF ThreadInv, Held, CallAt
  <2> QED
    BY <2>1, <2>2
<1> QED
  BY <1>4, <1>8, <1>9, <1>11, <1>12, <1>13 DEF Held

(* The state of other NSThreads, threads and calls after a step of the     *)
(* threads A that is about the NSThread t.                                 *)
LEMMA Others ==
  ASSUME ThreadInv, NEW t \in Thr, NEW A \in SUBSET Actor,
         \A u \in Thr \ {t} : thr'[u] = thr[u],
         \A b \in Actor \ A : pc'[b] = pc[b] /\ call'[b] = call[b],
         \A o \in Os \ A : self'[o] = self[o],
         \A o \in Os : self'[o] \in Thr \cup {None},
         \A o \in A \cap Os :
           \/ self[o] \in {t, None} /\ self'[o] = t
           \/ self'[o] = self[o] /\ {pc[o], pc'[o]} \subseteq CallPlaces \cup {"client"},
         \A b \in A : {call[b].thr, call'[b].thr} \subseteq {t, None}
  PROVE  /\ \A u \in Thr \ {t} : OwnersAt(u)' /\ DetachedAt(u)' /\ IdAt(u)'
         /\ \A o \in Os : self'[o] # t => SelfAt(o)' /\ ArgumentAt(o)'
         /\ \A b \in Actor \ A : call[b].thr # t => CallAt(b)'
<1>1. Os \subseteq Actor /\ None \notin Thr
  BY ThreadAssumption DEF Actor
<1>2. ASSUME NEW o \in Os, self'[o] # t
      PROVE  /\ self'[o] = self[o] /\ (Runs(o)' <=> Runs(o))
             /\ \/ pc'[o] = pc[o]
                \/ {pc[o], pc'[o]} \subseteq CallPlaces \cup {"client"}
  <2>1. /\ self'[o] = self[o]
        /\ pc'[o] = pc[o] \/ {pc[o], pc'[o]} \subseteq CallPlaces \cup {"client"}
    BY <1>1, <1>2
  <2> QED
    BY <2>1 DEF Runs, RunPlaces, MemberPlaces, CallPlaces, BouncePlaces
<1>3. ASSUME NEW u \in Thr \ {t} PROVE OwnersAt(u)' /\ DetachedAt(u)' /\ IdAt(u)'
  <2>1. \A o \in Os : self'[o] = u <=> self[o] = u
    BY <1>1
  <2>2. RunBy(u)' <=> RunBy(u)
    BY <1>2, <2>1 DEF RunBy
  <2>3. StartedBy(u)' <=> StartedBy(u)
    BY <1>1 DEF StartedBy
  <2>4. OwnersAt(u)'
    BY <2>2, <2>3, OwnersSame
  <2>5. DetachedAt(u)'
    BY <1>2, <2>1 DEF ThreadInv, Held, DetachedAt, CallPlaces
  <2>6. IdAt(u)'
    BY <1>1 DEF ThreadInv, Held, IdAt
  <2> QED
    BY <2>4, <2>5, <2>6
<1>4. ASSUME NEW o \in Os, self'[o] # t PROVE SelfAt(o)' /\ ArgumentAt(o)'
  <2>1. /\ self'[o] = self[o]
        /\ pc'[o] = pc[o] \/ {pc[o], pc'[o]} \subseteq CallPlaces \cup {"client"}
    BY <1>2, <1>4
  <2>2. self[o] = None \/ (self[o] \in Thr /\ thr'[self[o]] = thr[self[o]])
    BY <1>4, <2>1
  <2>3. \A p \in Os : self'[p] = self[p] \/ self'[p] = t
    BY <1>1
  <2>4. SelfAt(o)'
    BY <1>4, <2>1, <2>2, <2>3 DEF ThreadInv, Held, SelfAt, CallPlaces
  <2>5. ArgumentAt(o)'
    <3>1. CASE self[o] = None
      <4>1. pc[o] = "none" /\ pc'[o] = "none"
        BY <2>1, <3>1 DEF ThreadInv, Held, SelfAt, CallPlaces
      <4> QED
        BY <4>1 DEF ArgumentAt, BouncePlaces, CallPlaces
    <3>2. CASE self[o] \in Thr /\ thr'[self[o]] = thr[self[o]]
      BY <2>1, <3>2 DEF ThreadInv, Held, ArgumentAt, BouncePlaces, CallPlaces
    <3> QED
      BY <2>2, <3>1, <3>2
  <2> QED
    BY <2>4, <2>5
<1>5. ASSUME NEW b \in Actor \ A, call[b].thr # t PROVE CallAt(b)'
  <2>1. \A c \in Actor : call'[c] = call[c] \/ call'[c].thr \in {t, None}
    OBVIOUS
  <2> QED
    BY <1>1, <1>5, <2>1 DEF ThreadInv, Held, CallAt
<1> QED
  BY <1>3, <1>4, <1>5

(* -mulleStart and -start, of an NSThread that never ran.                  *)
LEMMA StartHeld ==
  ASSUME ThreadInv, NEW a \in Actor, NEW t \in Thr, NEW detach \in BOOLEAN, Start(a, t, detach)
  PROVE  Typed' /\ Held'
<1>1. /\ pc[a] = "client" /\ thr[t].osThread = None /\ thr[t].held > 0
      /\ \A b \in Actor : call[b].thr # t
  <2>1. thr[t].held > 0
    BY MayCallHeld DEF Start
  <2>2. thr[t].osThreadId = None /\ \A b \in Actor : call[b].thr # t
    BY DEF Start, Callers
  <2>3. thr[t].osThread = None
    BY <2>2 DEF ThreadInv, Held, IdAt
  <2> QED
    BY <2>1, <2>2, <2>3 DEF Start, MayCall
<1>2. PICK to \in {"goingMulti", "retaining"} : pc' = [pc EXCEPT ![a] = to]
  BY DEF Start, Goto
<1>3. /\ call' = [call EXCEPT ![a] = [thr |-> t, detach |-> detach]]
      /\ UNCHANGED <<self, joined, universe>>
  BY DEF Start
<1>4. PICK r : r = [thr[t] EXCEPT !.isDetached = detach \/ @]
  OBVIOUS
<1>5. thr' = [thr EXCEPT ![t] = r]
  BY <1>4 DEF Start
<1>6. /\ r \in NSThread /\ r.rc = thr[t].rc /\ r.held = thr[t].held /\ r.osThread = None
      /\ r.affinity \in {a, Limbo} /\ r.didGain = thr[t].didGain
  <2>1. thr[t] \in NSThread /\ thr[t].affinity \in {a, Limbo}
    BY DEF ThreadInv, Typed, Start
  <2> QED
    BY <1>1, <1>4, <2>1 DEF NSThread
<1>7. thr' \in [Thr -> NSThread] /\ thr'[t] = r /\ \A u \in Thr \ {t} : thr'[u] = thr[u]
  BY <1>5, <1>6 DEF ThreadInv, Typed
<1>8. Typed'
  BY <1>3, <1>7 DEF ThreadInv, Typed, universe
<1>9. /\ \A b \in Actor : pc'[b] = IF b = a THEN to ELSE pc[b]
      /\ \A b \in Actor : call'[b] = IF b = a THEN [thr |-> t, detach |-> detach] ELSE call[b]
  BY <1>2, <1>3 DEF ThreadInv, Inv, PlacesFit, Typed
<1>10. call[a].thr = None
  BY <1>1 DEF ThreadInv, Held, CallAt, CallPlaces
<1>11. /\ \A u \in Thr \ {t} : OwnersAt(u)' /\ DetachedAt(u)' /\ IdAt(u)'
       /\ \A o \in Os : self'[o] # t => SelfAt(o)' /\ ArgumentAt(o)'
       /\ \A b \in Actor \ {a} : call[b].thr # t => CallAt(b)'
  <2>1. \A o \in {a} \cap Os : {pc[o], pc'[o]} \subseteq CallPlaces \cup {"client"}
    BY <1>1, <1>9 DEF CallPlaces, Actor
  <2>2. \A o \in Os : self'[o] = self[o] /\ self'[o] \in Thr \cup {None}
    BY <1>3 DEF ThreadInv, Typed
  <2>3. \A b \in {a} : {call[b].thr, call'[b].thr} \subseteq {t, None}
    BY <1>9, <1>10
  <2> QED
    <3>1. /\ \A b \in Actor \ {a} : pc'[b] = pc[b] /\ call'[b] = call[b]
          /\ \A u \in Thr \ {t} : thr'[u] = thr[u]
          /\ \A o \in Os \ {a} : self'[o] = self[o]
          /\ \A o \in Os : self'[o] \in Thr \cup {None}
      BY <1>7, <1>9, <2>2
    <3>2. \A o \in {a} \cap Os :
            \/ self[o] \in {t, None} /\ self'[o] = t
            \/ self'[o] = self[o] /\ {pc[o], pc'[o]} \subseteq CallPlaces \cup {"client"}
      BY <2>1, <2>2
    <3>3. {a} \in SUBSET Actor
      OBVIOUS
    <3> QED
      BY <2>3, <3>1, <3>2, <3>3, Others
<1>12. \A o \in Os : self[o] # t
  BY <1>1, UsesCount
<1>13. OwnersAt(t)'
  <2>1. ~RunBy(t) /\ ~RunBy(t)'
    BY <1>3, <1>12 DEF RunBy
  <2>2. ~StartedBy(t) /\ ~StartedBy(t)'
    BY <1>1, <1>2, <1>9 DEF StartedBy, HasRetained
  <2>3. thr[t].rc \in Nat /\ thr[t].held \in Nat
    BY UsesCount
  <2> QED
    BY <1>6, <1>7, <2>1, <2>2, <2>3, OwnersSame
<1>14. DetachedAt(t)' /\ IdAt(t)'
  BY <1>3, <1>6, <1>7, <1>12 DEF ThreadInv, Held, DetachedAt, IdAt
<1>15. CallAt(a)'
  BY <1>1, <1>2, <1>6, <1>7, <1>9, ThreadAssumption DEF CallAt, CallPlaces, BeforeCreate
<1> QED
  BY <1>1, <1>3, <1>8, <1>11, <1>12, <1>13, <1>14, <1>15 DEF Held

(* -mulleJoin.                                                             *)
LEMMA JoinHeld ==
  ASSUME ThreadInv, NEW a \in Actor, NEW t \in Thr, Join(a, t)
  PROVE  Typed' /\ Held'
<1>1. /\ a = Main /\ pc[a] = "client" /\ thr[t].osThread # None /\ thr[t].held > 0
      /\ \A b \in Actor : call[b].thr # t
  <2>1. thr[t].held > 0
    BY MayCallHeld DEF Join
  <2> QED
    BY <2>1 DEF Join, MayCall, Callers
<1>2. /\ pc' = [pc EXCEPT ![a] = "joining"] /\ call' = [call EXCEPT ![a].thr = t]
      /\ UNCHANGED <<thr, self, joined, universe>>
  BY DEF Join, Goto
<1>3. /\ \A b \in Actor : pc'[b] = IF b = a THEN "joining" ELSE pc[b]
      /\ \A b \in Actor \ {a} : call'[b] = call[b]
      /\ call'[a].thr = t /\ call' \in [Actor -> [thr : Thr \cup {None}, detach : BOOLEAN]]
  BY <1>2 DEF ThreadInv, Inv, PlacesFit, Typed
<1>4. Typed'
  BY <1>2, <1>3 DEF ThreadInv, Typed, universe
<1>5. call[a].thr = None /\ a \notin Os
  BY <1>1, ThreadAssumption DEF ThreadInv, Held, CallAt, CallPlaces
<1>6. /\ \A u \in Thr \ {t} : OwnersAt(u)' /\ DetachedAt(u)' /\ IdAt(u)'
      /\ \A o \in Os : self'[o] # t => SelfAt(o)' /\ ArgumentAt(o)'
      /\ \A b \in Actor \ {a} : call[b].thr # t => CallAt(b)'
  <2>1. \A o \in Os : self'[o] = self[o] /\ self'[o] \in Thr \cup {None}
    BY <1>2 DEF ThreadInv, Typed
  <2>2. \A b \in {a} : {call[b].thr, call'[b].thr} \subseteq {t, None}
    BY <1>3, <1>5
  <2>3. \A u \in Thr \ {t} : thr'[u] = thr[u]
    BY <1>2
  <2>4. {a} \cap Os = {}
    BY <1>5
  <2>5. {a} \in SUBSET Actor /\ \A b \in Actor \ {a} : pc'[b] = pc[b] /\ call'[b] = call[b]
    BY <1>3
  <2>6. \A o \in Os \ {a} : self'[o] = self[o]
    BY <2>1
  <2>7. {a} \cap Os = {} /\ \A o \in Os : self'[o] \in Thr \cup {None}
    BY <2>1, <2>4
  <2> QED
    BY <2>2, <2>3, <2>5, <2>6, <2>7, Others
<1>7. \A o \in Os : /\ self'[o] = self[o] /\ pc'[o] = pc[o] /\ (Runs(o)' <=> Runs(o))
  BY <1>2, <1>3, <1>5 DEF Runs, Actor
<1>8. OwnersAt(t)' /\ DetachedAt(t)' /\ IdAt(t)'
  <2>1. RunBy(t)' <=> RunBy(t)
    BY <1>7 DEF RunBy
  <2>2. ~StartedBy(t) /\ ~StartedBy(t)'
    BY <1>1, <1>3 DEF StartedBy, HasRetained
  <2>3. OwnersAt(t)'
    BY <1>2, <2>1, <2>2, OwnersSame
  <2>4. DetachedAt(t)'
    BY <1>2, <1>7 DEF ThreadInv, Held, DetachedAt
  <2>5. IdAt(t)'
    BY <1>1, <1>2 DEF ThreadInv, Held, IdAt
  <2> QED
    BY <2>3, <2>4, <2>5
<1>9. \A o \in Os : SelfAt(o)' /\ ArgumentAt(o)'
  BY <1>2, <1>7 DEF ThreadInv, Held, SelfAt, ArgumentAt
<1>10. CallAt(a)'
  BY <1>1, <1>2, <1>3, ThreadAssumption DEF CallAt, CallPlaces, BeforeCreate
<1> QED
  BY <1>1, <1>4, <1>6, <1>8, <1>9, <1>10 DEF Held

(* A step of a call on t.                                                  *)
LEMMA CallOthers ==
  ASSUME ThreadInv, NEW a \in Actor, NEW t \in Thr, NEW to,
         \A u \in Thr \ {t} : thr'[u] = thr[u],
         pc' = [pc EXCEPT ![a] = to], self' = self,
         \A b \in Actor \ {a} : call'[b] = call[b],
         {pc[a], to} \subseteq CallPlaces \cup {"client"},
         {call[a].thr, call'[a].thr} \subseteq {t, None}
  PROVE  /\ \A u \in Thr \ {t} : OwnersAt(u)' /\ DetachedAt(u)' /\ IdAt(u)'
         /\ \A o \in Os : self[o] # t => SelfAt(o)' /\ ArgumentAt(o)'
         /\ \A b \in Actor \ {a} : call[b].thr # t => CallAt(b)'
         /\ pc'[a] = to /\ \A b \in Actor \ {a} : pc'[b] = pc[b]
         /\ \A o \in Os : Runs(o)' <=> Runs(o)
<1>1. pc'[a] = to /\ \A b \in Actor \ {a} : pc'[b] = pc[b]
  BY DEF ThreadInv, Inv, PlacesFit
<1>2. {a} \in SUBSET Actor /\ \A o \in Os : self'[o] \in Thr \cup {None}
  BY DEF ThreadInv, Typed
<1>3. \A o \in {a} \cap Os :
        \/ self[o] \in {t, None} /\ self'[o] = t
        \/ self'[o] = self[o] /\ {pc[o], pc'[o]} \subseteq CallPlaces \cup {"client"}
  BY <1>1
<1>4. /\ \A b \in Actor \ {a} : pc'[b] = pc[b] /\ call'[b] = call[b]
      /\ \A o \in Os \ {a} : self'[o] = self[o]
      /\ \A b \in {a} : {call[b].thr, call'[b].thr} \subseteq {t, None}
  BY <1>1
<1>5. /\ \A u \in Thr \ {t} : OwnersAt(u)' /\ DetachedAt(u)' /\ IdAt(u)'
      /\ \A o \in Os : self'[o] # t => SelfAt(o)' /\ ArgumentAt(o)'
      /\ \A b \in Actor \ {a} : call[b].thr # t => CallAt(b)'
  BY <1>2, <1>3, <1>4, Others
<1>6. \A o \in Os : Runs(o)' <=> Runs(o)
  BY <1>1 DEF Runs, RunPlaces, MemberPlaces, CallPlaces, BouncePlaces, Actor
<1> QED
  BY <1>1, <1>5, <1>6

(* The NSThread that somebody calls, and what the call knows of it.        *)
LEMMA Called ==
  ASSUME ThreadInv, NEW a \in Actor, pc[a] \in CallPlaces
  PROVE  /\ call[a].thr \in Thr /\ call[a].thr # None
         /\ thr[call[a].thr] \in NSThread /\ thr[call[a].thr].held > 0
         /\ \A b \in Actor \ {a} : call[b].thr # call[a].thr
         /\ thr[call[a].thr].osThread = None <=> pc[a] \in BeforeCreate
         /\ pc[a] \in BeforeCreate => thr[call[a].thr].affinity \in {a, Limbo}
         /\ pc[a] = "creating" => InLimbo(call[a].thr)
         /\ \A o \in Foreign : self[o] # call[a].thr
         /\ pc[a] \in BeforeCreate => \A o \in Os : self[o] # call[a].thr
<1>1. call[a].thr \in Thr /\ call[a].thr # None
  BY DEF ThreadInv, Held, CallAt, Typed
<1>2. thr[call[a].thr] \in NSThread
  BY <1>1 DEF ThreadInv, Typed
<1>3. CallAt(a)
  BY DEF ThreadInv, Held
<1>4. /\ thr[call[a].thr].held > 0
      /\ \A b \in Actor \ {a} : call[b].thr # call[a].thr
      /\ thr[call[a].thr].osThread = None <=> pc[a] \in BeforeCreate
      /\ pc[a] \in BeforeCreate => thr[call[a].thr].affinity \in {a, Limbo}
      /\ pc[a] = "creating" => InLimbo(call[a].thr)
  BY <1>1, <1>3 DEF CallAt
<1> QED
  BY <1>1, <1>2, <1>4, UsesCount

(* To relinquish access puts the argument into limbo and adds a retain.    *)
LEMMA RelinquishedRecord ==
  ASSUME NEW r \in NSThread
  PROVE  /\ Relinquished(r) \in NSThread
         /\ Relinquished(r).affinity = Limbo /\ Relinquished(r).handed > 0
         /\ Relinquished(r).rc = r.rc /\ Relinquished(r).held = r.held
         /\ Relinquished(r).osThread = r.osThread /\ Relinquished(r).osThreadId = r.osThreadId
         /\ Relinquished(r).isDetached = r.isDetached /\ Relinquished(r).didGain = r.didGain
<1>1. PICK n \in Nat : n = r.handed + 1 /\ n > 0
  BY DEF NSThread
<1>2. PICK l : l = [r EXCEPT !.affinity = Limbo, !.handed = n]
  OBVIOUS
<1>3. Relinquished(r) = l
  BY <1>1, <1>2 DEF Relinquished
<1>4. /\ l \in NSThread /\ l.affinity = Limbo /\ l.handed = n /\ l.rc = r.rc /\ l.held = r.held
      /\ l.osThread = r.osThread /\ l.osThreadId = r.osThreadId
      /\ l.isDetached = r.isDetached /\ l.didGain = r.didGain
  BY <1>2 DEF NSThread
<1> QED
  BY <1>1, <1>3, <1>4

(* The start call retains the NSThread, and puts the argument into limbo.  *)
LEMMA StartRetainsHeld ==
  ASSUME ThreadInv, NEW a \in Actor, StartRetains(a) \/ StartRelinquishes(a)
  PROVE  Typed' /\ Held'
<1>1. pc[a] \in {"retaining", "relinquishing"}
  BY DEF StartRetains, StartRelinquishes
<1>2. pc[a] \in CallPlaces /\ pc[a] \in BeforeCreate
  BY <1>1 DEF CallPlaces, BeforeCreate
<1>3. PICK t \in Thr : t = call[a].thr
  BY <1>2, Called
<1>4. /\ t # None /\ thr[t] \in NSThread /\ thr[t].held > 0 /\ thr[t].osThread = None
      /\ \A b \in Actor \ {a} : call[b].thr # t
      /\ \A o \in Os : self[o] # t
      /\ thr[t].affinity \in {a, Limbo}
  BY <1>2, <1>3, Called
<1>5. /\ UNCHANGED <<self, call, joined, torn, isMultiThreaded, aba, threads>>
  BY DEF StartRetains, StartRelinquishes, universe
<1>6. PICK to \in {"relinquishing", "creating"}, r \in NSThread :
        /\ pc' = [pc EXCEPT ![a] = to] /\ thr' = [thr EXCEPT ![t] = r]
        /\ r.held = thr[t].held /\ r.osThread = None /\ r.didGain = thr[t].didGain
        /\ r.affinity \in {a, Limbo}
        /\ to = "creating" => /\ pc[a] = "relinquishing" /\ r.rc = thr[t].rc
                              /\ r.affinity = Limbo /\ r.handed > 0
        /\ to = "relinquishing" => pc[a] = "retaining" /\ r.rc = thr[t].rc + 1
  <2>1. CASE StartRetains(a)
    <3>1. PICK r : r = [thr[t] EXCEPT !.rc = @ + 1]
      OBVIOUS
    <3>2. thr' = [thr EXCEPT ![t] = r] /\ pc' = [pc EXCEPT ![a] = "relinquishing"]
      BY <1>3, <2>1, <3>1 DEF StartRetains, Goto
    <3>3. r \in NSThread /\ r.rc = thr[t].rc + 1 /\ r.held = thr[t].held /\ r.osThread = None
          /\ r.didGain = thr[t].didGain /\ r.affinity = thr[t].affinity
      BY <1>4, <3>1 DEF NSThread
    <3> QED
      BY <1>4, <2>1, <3>2, <3>3 DEF StartRetains
  <2>2. CASE StartRelinquishes(a)
    <3>1. PICK r : r = Relinquished(thr[t])
      OBVIOUS
    <3>2. thr' = [thr EXCEPT ![t] = r] /\ pc' = [pc EXCEPT ![a] = "creating"]
      BY <1>3, <2>2, <3>1 DEF StartRelinquishes, Goto, ThreadInv, Typed
    <3>3. r \in NSThread /\ r.rc = thr[t].rc /\ r.held = thr[t].held /\ r.osThread = None
          /\ r.affinity = Limbo /\ r.handed > 0 /\ r.didGain = thr[t].didGain
      BY <1>4, <3>1, RelinquishedRecord
    <3> QED
      BY <2>2, <3>2, <3>3 DEF StartRelinquishes
  <2> QED
    BY <2>1, <2>2
<1>7. thr' \in [Thr -> NSThread] /\ thr'[t] = r /\ \A u \in Thr \ {t} : thr'[u] = thr[u]
  BY <1>6 DEF ThreadInv, Typed
<1>8. Typed'
  BY <1>5, <1>7 DEF ThreadInv, Typed
<1>9. {pc[a], to} \subseteq CallPlaces \cup {"client"} /\ {call[a].thr, call'[a].thr} \subseteq {t, None}
  BY <1>1, <1>3, <1>5 DEF CallPlaces
<1>10. /\ \A u \in Thr \ {t} : OwnersAt(u)' /\ DetachedAt(u)' /\ IdAt(u)'
       /\ \A o \in Os : self[o] # t => SelfAt(o)' /\ ArgumentAt(o)'
       /\ \A b \in Actor \ {a} : call[b].thr # t => CallAt(b)'
       /\ pc'[a] = to /\ \A b \in Actor \ {a} : pc'[b] = pc[b]
       /\ \A o \in Os : Runs(o)' <=> Runs(o)
  BY <1>5, <1>6, <1>7, <1>9, CallOthers
<1>11. OwnersAt(t)'
  <2>1. ~RunBy(t) /\ ~RunBy(t)'
    BY <1>4, <1>5 DEF RunBy
  <2>2. StartedBy(t)'
    BY <1>3, <1>5, <1>10 DEF StartedBy, HasRetained
  <2>3. StartedBy(t) <=> pc[a] = "relinquishing"
    BY <1>1, <1>3, <1>4 DEF StartedBy, HasRetained
  <2>4. thr[t].rc \in Nat /\ thr[t].held \in Nat
    BY UsesCount
  <2>5. CASE to = "creating"
    BY <1>6, <1>7, <2>1, <2>2, <2>3, <2>4, <2>5, OwnersSame
  <2>6. CASE to = "relinquishing"
    <3>1. thr[t].rc = thr[t].held
      <4>1. thr[t].rc = thr[t].held + 0 + 0
        BY <1>6, <2>1, <2>3, <2>6 DEF ThreadInv, Held, OwnersAt, Bit
      <4> QED
        BY <2>4, <4>1
    <3>2. thr'[t].rc = thr'[t].held + 0 + 1
      BY <1>6, <1>7, <2>4, <2>6, <3>1
    <3> QED
      BY <2>1, <2>2, <3>2 DEF OwnersAt, Bit
  <2> QED
    BY <2>5, <2>6
<1>12. DetachedAt(t)' /\ IdAt(t)'
  BY <1>4, <1>5, <1>6, <1>7 DEF ThreadInv, Held, DetachedAt, IdAt
<1>13. CallAt(a)'
  BY <1>3, <1>4, <1>5, <1>6, <1>7, <1>10 DEF CallAt, CallPlaces, BeforeCreate
<1> QED
  BY <1>4, <1>5, <1>8, <1>10, <1>11, <1>12, <1>13 DEF Held

(* An OS thread is created, to which the reference of the call goes, ...   *)
LEMMA CreateHeld ==
  ASSUME ThreadInv, NEW a \in Actor, NEW o \in Os, Create(a, o)
  PROVE  Typed' /\ Held'
<1>1. /\ pc[a] = "creating" /\ o \notin Foreign /\ pc[o] = "none" /\ a # o
      /\ UNCHANGED <<call, joined, universe>>
  BY DEF Create
<1>2. pc[a] \in CallPlaces /\ pc[a] \in BeforeCreate
  BY <1>1 DEF CallPlaces, BeforeCreate
<1>3. PICK t \in Thr : t = call[a].thr
  BY <1>2, Called
<1>4. /\ t # None /\ thr[t] \in NSThread /\ thr[t].held > 0 /\ thr[t].osThread = None
      /\ InLimbo(t)
      /\ \A b \in Actor \ {a} : call[b].thr # t
      /\ \A p \in Os : self[p] # t
  BY <1>1, <1>2, <1>3, Called
<1>5. PICK r : r = [thr[t] EXCEPT !.osThread = o]
  OBVIOUS
<1>6. /\ self' = [self EXCEPT ![o] = t] /\ thr' = [thr EXCEPT ![t] = r]
      /\ pc' = [pc EXCEPT ![a] = "created", ![o] = "bounce"]
  BY <1>3, <1>5 DEF Create
<1>7. /\ r \in NSThread /\ r.rc = thr[t].rc /\ r.held = thr[t].held /\ r.osThread = o
      /\ r.affinity = Limbo /\ r.handed > 0 /\ r.didGain = thr[t].didGain
  BY <1>4, <1>5 DEF NSThread
<1>8. /\ thr' \in [Thr -> NSThread] /\ thr'[t] = r /\ \A u \in Thr \ {t} : thr'[u] = thr[u]
      /\ self' \in [Os -> Thr \cup {None}] /\ self'[o] = t /\ \A p \in Os \ {o} : self'[p] = self[p]
  BY <1>6, <1>7 DEF ThreadInv, Typed
<1>9. /\ pc'[a] = "created" /\ pc'[o] = "bounce" /\ \A b \in Actor \ {a, o} : pc'[b] = pc[b]
      /\ o \in Actor
  BY <1>1, <1>6 DEF ThreadInv, Inv, PlacesFit, Actor
<1>10. Typed'
  BY <1>1, <1>8 DEF ThreadInv, Typed, universe
<1>11. call[o].thr = None /\ self[o] = None
  BY <1>1, <1>9 DEF ThreadInv, Held, CallAt, SelfAt, CallPlaces
<1>12. /\ \A u \in Thr \ {t} : OwnersAt(u)' /\ DetachedAt(u)' /\ IdAt(u)'
       /\ \A p \in Os : self'[p] # t => SelfAt(p)' /\ ArgumentAt(p)'
       /\ \A b \in Actor \ {a, o} : call[b].thr # t => CallAt(b)'
  <2>1. {a, o} \in SUBSET Actor
    BY <1>9
  <2>2. /\ \A b \in Actor \ {a, o} : pc'[b] = pc[b] /\ call'[b] = call[b]
        /\ \A p \in Os \ {a, o} : self'[p] = self[p]
        /\ \A p \in Os : self'[p] \in Thr \cup {None}
    BY <1>1, <1>8, <1>9
  <2>3. \A p \in {a, o} \cap Os :
           \/ self[p] \in {t, None} /\ self'[p] = t
           \/ self'[p] = self[p] /\ {pc[p], pc'[p]} \subseteq CallPlaces \cup {"client"}
    BY <1>1, <1>8, <1>9, <1>11 DEF CallPlaces
  <2>4. \A b \in {a, o} : {call[b].thr, call'[b].thr} \subseteq {t, None}
    BY <1>1, <1>3, <1>11
  <2> QED
    BY <1>8, <2>1, <2>2, <2>3, <2>4, Others
<1>13. OwnersAt(t)'
  <2>1. ~RunBy(t) /\ StartedBy(t)
    BY <1>1, <1>3, <1>4 DEF RunBy, StartedBy, HasRetained
  <2>2. thr[t].rc = thr[t].held + 0 + 1
    BY <2>1 DEF ThreadInv, Held, OwnersAt, Bit
  <2>3. RunBy(t)'
    BY <1>1, <1>8, <1>9 DEF RunBy, Runs, RunPlaces, BouncePlaces
  <2>4. ~StartedBy(t)'
    BY <1>1, <1>4, <1>9 DEF StartedBy, HasRetained
  <2>5. thr[t].rc \in Nat /\ thr[t].held \in Nat
    BY UsesCount
  <2>6. thr'[t].rc = thr'[t].held + 1 + 0
    BY <1>7, <1>8, <2>2, <2>5
  <2> QED
    BY <2>3, <2>4, <2>6 DEF OwnersAt, Bit
<1>14. DetachedAt(t)' /\ IdAt(t)'
  <2>1. ~thr'[t].didGain
    BY <1>4, <1>7, <1>8 DEF ThreadInv, Held, DetachedAt
  <2> QED
    BY <1>1, <1>3, <1>4, <1>8, <1>9, <2>1 DEF DetachedAt, IdAt
<1>15. SelfAt(o)' /\ ArgumentAt(o)'
  BY <1>1, <1>4, <1>7, <1>8, <1>9 DEF SelfAt, ArgumentAt, CallPlaces
<1>16. CallAt(a)' /\ CallAt(o)'
  <2>1. CallAt(a)'
    BY <1>1, <1>3, <1>4, <1>7, <1>8, <1>9, ThreadAssumption DEF CallAt, CallPlaces, BeforeCreate
  <2>2. CallAt(o)'
    BY <1>1, <1>9, <1>11, ThreadAssumption DEF CallAt, CallPlaces
  <2> QED
    BY <2>1, <2>2
<1>17. \A p \in Os : SelfAt(p)' /\ ArgumentAt(p)'
  BY <1>4, <1>8, <1>12, <1>15
<1>18. \A b \in Actor : CallAt(b)'
  BY <1>4, <1>12, <1>16
<1> QED
  BY <1>10, <1>12, <1>13, <1>14, <1>17, <1>18 DEF Held

(* ... or is not: the call takes everything back.                          *)
LEMMA CreateFailsHeld ==
  ASSUME ThreadInv, NEW a \in Actor, CreateFails(a)
  PROVE  Typed' /\ Held'
<1>1. /\ pc[a] = "creating" /\ call' = [call EXCEPT ![a] = NoCall]
      /\ pc' = [pc EXCEPT ![a] = "client"] /\ ReleaseUniverse(a)
      /\ UNCHANGED <<self, joined>>
  BY DEF CreateFails, Goto
<1>2. pc[a] \in CallPlaces /\ pc[a] \in BeforeCreate
  BY <1>1 DEF CallPlaces, BeforeCreate
<1>3. PICK t \in Thr : t = call[a].thr
  BY <1>2, Called
<1>4. /\ t # None /\ thr[t] \in NSThread /\ thr[t].held > 0 /\ thr[t].osThread = None
      /\ \A b \in Actor \ {a} : call[b].thr # t
      /\ \A p \in Os : self[p] # t
  BY <1>1, <1>2, <1>3, Called
<1>5. thr[t].rc \in Nat /\ thr[t].held \in Nat
  BY UsesCount
<1>6. ~RunBy(t) /\ StartedBy(t)
  BY <1>1, <1>3, <1>4 DEF RunBy, StartedBy, HasRetained
<1>7. thr[t].rc = thr[t].held + 1
  <2>1. thr[t].rc = thr[t].held + 0 + 1
    BY <1>6 DEF ThreadInv, Held, OwnersAt, Bit
  <2> QED
    BY <1>5, <2>1
<1>8. thr[t].rc > 1 /\ thr[t].rc - 1 \in Nat /\ thr[t].rc - 1 = thr[t].held
  BY <1>4, <1>5, <1>7
<1>9. PICK r : r = [[thr[t] EXCEPT !.rc = @ - 1] EXCEPT !.isDetached = FALSE]
  OBVIOUS
<1>10. thr' = [thr EXCEPT ![t] = r]
  BY <1>3, <1>8, <1>9 DEF CreateFails, Released
<1>11. /\ r \in NSThread /\ r.rc = thr[t].held /\ r.held = thr[t].held /\ r.osThread = None
       /\ r.didGain = thr[t].didGain
  BY <1>4, <1>8, <1>9 DEF NSThread
<1>12. thr' \in [Thr -> NSThread] /\ thr'[t] = r /\ \A u \in Thr \ {t} : thr'[u] = thr[u]
  BY <1>10, <1>11 DEF ThreadInv, Typed
<1>13. /\ call' \in [Actor -> [thr : Thr \cup {None}, detach : BOOLEAN]]
       /\ call'[a].thr = None /\ \A b \in Actor \ {a} : call'[b] = call[b]
  BY <1>1 DEF ThreadInv, Typed, NoCall
<1>14. Typed'
  BY <1>1, <1>12, <1>13 DEF ThreadInv, Typed, ReleaseUniverse
<1>15. /\ \A u \in Thr \ {t} : OwnersAt(u)' /\ DetachedAt(u)' /\ IdAt(u)'
       /\ \A o \in Os : self[o] # t => SelfAt(o)' /\ ArgumentAt(o)'
       /\ \A b \in Actor \ {a} : call[b].thr # t => CallAt(b)'
       /\ pc'[a] = "client" /\ \A b \in Actor \ {a} : pc'[b] = pc[b]
  <2>1. PICK to : to = "client"
    OBVIOUS
  <2>2. {pc[a], to} \subseteq CallPlaces \cup {"client"}
    BY <1>2, <2>1
  <2>3. {call[a].thr, call'[a].thr} \subseteq {t, None}
    BY <1>3, <1>13
  <2>4. pc' = [pc EXCEPT ![a] = to] /\ self' = self
    BY <1>1, <2>1
  <2>5. /\ \A u \in Thr \ {t} : thr'[u] = thr[u]
        /\ \A b \in Actor \ {a} : call'[b] = call[b]
    BY <1>12, <1>13
  <2>6. /\ \A u \in Thr \ {t} : OwnersAt(u)' /\ DetachedAt(u)' /\ IdAt(u)'
        /\ \A o \in Os : self[o] # t => SelfAt(o)' /\ ArgumentAt(o)'
        /\ \A b \in Actor \ {a} : call[b].thr # t => CallAt(b)'
        /\ pc'[a] = to /\ \A b \in Actor \ {a} : pc'[b] = pc[b]
        /\ \A o \in Os : Runs(o)' <=> Runs(o)
    BY <2>2, <2>3, <2>4, <2>5, CallOthers
  <2> QED
    BY <2>1, <2>6
<1>16. OwnersAt(t)'
  <2>1. ~RunBy(t)' /\ ~StartedBy(t)'
    BY <1>1, <1>4, <1>13, <1>15 DEF RunBy, StartedBy
  <2>2. thr'[t].rc = thr'[t].held + 0 + 0
    BY <1>5, <1>11, <1>12
  <2> QED
    BY <2>1, <2>2 DEF OwnersAt, Bit
<1>17. DetachedAt(t)' /\ IdAt(t)'
  BY <1>1, <1>4, <1>11, <1>12 DEF ThreadInv, Held, DetachedAt, IdAt
<1>18. CallAt(a)'
  BY <1>13, <1>15, ThreadAssumption DEF CallAt, CallPlaces
<1> QED
  BY <1>1, <1>4, <1>14, <1>15, <1>16, <1>17, <1>18 DEF Held

(* The starter sets the thread id and detaches.                            *)
LEMMA StartSetsIdHeld ==
  ASSUME ThreadInv, NEW a \in Actor, StartSetsId(a) \/ StartDetaches(a)
  PROVE  Typed' /\ Held'
<1>1. /\ pc[a] \in {"created", "detaching"} /\ UNCHANGED <<self, universe>>
      /\ UNCHANGED joined \/ joined' = joined \cup {thr[call[a].thr].osThread}
  BY DEF StartSetsId, StartDetaches
<1>2. pc[a] \in CallPlaces /\ pc[a] \notin BeforeCreate
  BY <1>1 DEF CallPlaces, BeforeCreate
<1>3. PICK t \in Thr : t = call[a].thr
  BY <1>2, Called
<1>4. /\ t # None /\ thr[t] \in NSThread /\ thr[t].held > 0 /\ thr[t].osThread # None
      /\ \A b \in Actor \ {a} : call[b].thr # t
      /\ \A p \in Foreign : self[p] # t
  BY <1>1, <1>2, <1>3, Called
<1>5. thr[t].osThread \in Os
  BY <1>4 DEF NSThread
<1>6. PICK to \in {"client", "detaching"}, r \in NSThread :
        /\ pc' = [pc EXCEPT ![a] = to] /\ thr' = [thr EXCEPT ![t] = r]
        /\ r.rc = thr[t].rc /\ r.held = thr[t].held /\ r.osThread = thr[t].osThread
        /\ r.affinity = thr[t].affinity /\ r.isDetached = thr[t].isDetached
        /\ r.argument = thr[t].argument /\ r.didGain = thr[t].didGain
        /\ r.handed = thr[t].handed
        /\ r.osThreadId # None
        /\ to = "detaching" => call' = call
        /\ to = "client" => call' = [call EXCEPT ![a] = NoCall]
  <2>1. CASE StartSetsId(a)
    <3>1. PICK r : r = [thr[t] EXCEPT !.osThreadId = IF @ = None THEN thr[t].osThread ELSE @]
      OBVIOUS
    <3>2. thr' = [thr EXCEPT ![t] = r]
      BY <1>3, <2>1, <3>1 DEF StartSetsId, SetOSThreadId
    <3>3. r \in NSThread
      BY <1>4, <1>5, <3>1 DEF NSThread
    <3>4. /\ r.rc = thr[t].rc /\ r.held = thr[t].held /\ r.osThread = thr[t].osThread
          /\ r.affinity = thr[t].affinity /\ r.isDetached = thr[t].isDetached
          /\ r.argument = thr[t].argument /\ r.didGain = thr[t].didGain
          /\ r.handed = thr[t].handed
      BY <1>4, <3>1 DEF NSThread
    <3>5. r.osThreadId # None
      BY <1>4, <1>5, <3>1, ThreadAssumption DEF NSThread
    <3>6. \/ /\ pc' = [pc EXCEPT ![a] = "detaching"] /\ call' = call
          \/ /\ pc' = [pc EXCEPT ![a] = "client"] /\ call' = [call EXCEPT ![a] = NoCall]
      BY <2>1 DEF StartSetsId, Goto
    <3> QED
      BY <3>2, <3>3, <3>4, <3>5, <3>6
  <2>2. CASE StartDetaches(a)
    <3>1. thr' = [thr EXCEPT ![t] = thr[t]]
      BY <2>2 DEF StartDetaches, ThreadInv, Typed
    <3>2. thr[t].osThreadId # None
      <4>1. pc[a] = "detaching"
        BY <2>2 DEF StartDetaches
      <4>2. ~\E b \in Actor : call[b].thr = t /\ pc[b] = "created"
        BY <1>4, <4>1
      <4> QED
        BY <1>4, <4>2 DEF ThreadInv, Held, IdAt
    <3>3. pc' = [pc EXCEPT ![a] = "client"] /\ call' = [call EXCEPT ![a] = NoCall]
      BY <2>2 DEF StartDetaches, Goto
    <3> QED
      BY <1>4, <3>1, <3>2, <3>3
  <2> QED
    BY <2>1, <2>2
<1>7. thr' \in [Thr -> NSThread] /\ thr'[t] = r /\ \A u \in Thr \ {t} : thr'[u] = thr[u]
  BY <1>6 DEF ThreadInv, Typed
<1>8. /\ call' \in [Actor -> [thr : Thr \cup {None}, detach : BOOLEAN]]
      /\ \A b \in Actor \ {a} : call'[b] = call[b]
      /\ call'[a].thr = IF to = "client" THEN None ELSE t
  <2>1. CASE to = "client"
    <3>1. call' = [call EXCEPT ![a] = NoCall]
      BY <1>6, <2>1
    <3>2. NoCall \in [thr : Thr \cup {None}, detach : BOOLEAN] /\ NoCall.thr = None
      BY DEF NoCall
    <3>3. call \in [Actor -> [thr : Thr \cup {None}, detach : BOOLEAN]]
      BY DEF ThreadInv, Typed
    <3>4. /\ call' \in [Actor -> [thr : Thr \cup {None}, detach : BOOLEAN]]
          /\ \A b \in Actor \ {a} : call'[b] = call[b]
          /\ call'[a] = NoCall
      BY <3>1, <3>2, <3>3
    <3> QED
      BY <2>1, <3>2, <3>4
  <2>2. CASE to = "detaching"
    BY <1>3, <1>6, <2>2 DEF ThreadInv, Typed
  <2> QED
    BY <2>1, <2>2
<1>9. Typed'
  BY <1>1, <1>3, <1>5, <1>7, <1>8 DEF ThreadInv, Typed, universe
<1>10. /\ \A u \in Thr \ {t} : OwnersAt(u)' /\ DetachedAt(u)' /\ IdAt(u)'
       /\ \A o \in Os : self[o] # t => SelfAt(o)' /\ ArgumentAt(o)'
       /\ \A b \in Actor \ {a} : call[b].thr # t => CallAt(b)'
       /\ pc'[a] = to /\ \A b \in Actor \ {a} : pc'[b] = pc[b]
       /\ \A o \in Os : Runs(o)' <=> Runs(o)
  <2>1. {pc[a], to} \subseteq CallPlaces \cup {"client"}
    BY <1>2 DEF CallPlaces
  <2>2. {call[a].thr, call'[a].thr} \subseteq {t, None}
    BY <1>3, <1>8
  <2> QED
    BY <1>1, <1>6, <1>7, <1>8, <2>1, <2>2, CallOthers
<1>11. OwnersAt(t)'
  <2>1. RunBy(t)' <=> RunBy(t)
    BY <1>1, <1>10 DEF RunBy
  <2>2. ~StartedBy(t) /\ ~StartedBy(t)'
    BY <1>1, <1>4, <1>8, <1>10 DEF StartedBy, HasRetained
  <2>3. thr[t].rc \in Nat /\ thr[t].held \in Nat
    BY UsesCount
  <2> QED
    BY <1>6, <1>7, <2>1, <2>2, <2>3, OwnersSame
<1>12. DetachedAt(t)' /\ IdAt(t)'
  <2>1. \A o \in Os : self[o] = t /\ pc'[o] # pc[o] => pc'[o] \in {"client", "detaching"}
    BY <1>10 DEF Actor
  <2> QED
    BY <1>1, <1>6, <1>7, <2>1 DEF ThreadInv, Held, DetachedAt, IdAt
<1>13. \A o \in Os : self[o] = t => SelfAt(o)' /\ ArgumentAt(o)'
  <2> SUFFICES ASSUME NEW o \in Os, self[o] = t PROVE SelfAt(o)' /\ ArgumentAt(o)'
    OBVIOUS
  <2>1. /\ self'[o] = t /\ o \notin Foreign /\ o \in Actor
        /\ \/ pc'[o] = pc[o]
           \/ o = a
    BY <1>1, <1>4, <1>10 DEF Actor
  <2>2. SelfAt(o)'
    BY <1>1, <1>2, <1>4, <1>6, <1>7, <1>10, <2>1 DEF ThreadInv, Held, SelfAt
  <2>3. ArgumentAt(o)'
    BY <1>1, <1>2, <1>4, <1>6, <1>7, <1>10, <2>1 DEF ThreadInv, Held, ArgumentAt, BouncePlaces, CallPlaces
  <2> QED
    BY <2>2, <2>3
<1>14. CallAt(a)'
  BY <1>3, <1>4, <1>6, <1>7, <1>8, <1>10, ThreadAssumption DEF CallAt, CallPlaces, BeforeCreate
<1> QED
  BY <1>4, <1>9, <1>10, <1>11, <1>12, <1>13, <1>14 DEF Held

(* The join returns: the OS thread that ran the NSThread has ended.        *)
LEMMA JoinReturnsHeld ==
  ASSUME ThreadInv, NEW a \in Actor, JoinReturns(a)
  PROVE  Typed' /\ Held'
<1>1. pc[a] = "joining" /\ pc[a] \in CallPlaces /\ pc[a] \notin BeforeCreate
  BY DEF JoinReturns, CallPlaces, BeforeCreate
<1>2. PICK t \in Thr : t = call[a].thr
  BY <1>1, Called
<1>3. /\ t # None /\ thr[t] \in NSThread /\ thr[t].held > 0 /\ thr[t].osThread # None
      /\ \A b \in Actor \ {a} : call[b].thr # t
      /\ \A p \in Foreign : self[p] # t
  BY <1>1, <1>2, Called
<1>4. thr[t].osThread \in Os /\ thr[t].affinity \in Actor \cup {Limbo}
  BY <1>3 DEF NSThread
<1>5. /\ pc[thr[t].osThread] = "ended" /\ joined' = joined \cup {thr[t].osThread}
      /\ pc' = [pc EXCEPT ![a] = "client"] /\ call' = [call EXCEPT ![a] = NoCall]
      /\ UNCHANGED <<self, universe>>
  BY <1>2 DEF JoinReturns, Goto
<1>6. PICK r : r = [Gained(thr[t], a) EXCEPT !.argument = FALSE]
  OBVIOUS
<1>7. thr' = [thr EXCEPT ![t] = r]
  BY <1>2, <1>6 DEF JoinReturns, ThreadInv, Typed
<1>8. /\ r \in NSThread /\ r.rc = thr[t].rc /\ r.held = thr[t].held
      /\ r.osThread = thr[t].osThread /\ r.osThreadId = thr[t].osThreadId
      /\ r.argument = FALSE /\ r.didGain = thr[t].didGain
  <2>1. thr[t].didGain /\ thr[t].argument => thr[t].handed > 0
    <3>1. thr[t].didGain => \E o \in Os \ Foreign : self[o] = t
      BY DEF ThreadInv, Held, DetachedAt
    <3>2. \A o \in Os \ Foreign : self[o] = t => thr[t].osThread = o
      BY <1>3, ThreadAssumption DEF ThreadInv, Held, SelfAt
    <3> QED
      BY <1>5, <3>1, <3>2 DEF ThreadInv, Held, ArgumentAt
  <2>2. PICK g : g = Gained(thr[t], a)
    OBVIOUS
  <2>3. /\ g \in NSThread /\ g.rc = thr[t].rc /\ g.held = thr[t].held
        /\ g.osThread = thr[t].osThread /\ g.osThreadId = thr[t].osThreadId
        /\ g.didGain = thr[t].didGain
    BY <1>3, <2>1, <2>2, GainedRecord
  <2>4. r = [g EXCEPT !.argument = FALSE]
    BY <1>6, <2>2
  <2> QED
    BY <2>3, <2>4 DEF NSThread
<1>9. thr' \in [Thr -> NSThread] /\ thr'[t] = r /\ \A u \in Thr \ {t} : thr'[u] = thr[u]
  BY <1>7, <1>8 DEF ThreadInv, Typed
<1>10. /\ call' \in [Actor -> [thr : Thr \cup {None}, detach : BOOLEAN]]
       /\ call'[a].thr = None /\ \A b \in Actor \ {a} : call'[b] = call[b]
  BY <1>5 DEF ThreadInv, Typed, NoCall
<1>11. Typed'
  BY <1>4, <1>5, <1>9, <1>10 DEF ThreadInv, Typed, universe
<1>12. PICK to : to = "client"
  OBVIOUS
<1>13. /\ \A u \in Thr \ {t} : OwnersAt(u)' /\ DetachedAt(u)' /\ IdAt(u)'
       /\ \A o \in Os : self[o] # t => SelfAt(o)' /\ ArgumentAt(o)'
       /\ \A b \in Actor \ {a} : call[b].thr # t => CallAt(b)'
       /\ pc'[a] = to /\ \A b \in Actor \ {a} : pc'[b] = pc[b]
       /\ \A o \in Os : Runs(o)' <=> Runs(o)
  <2>1. {pc[a], to} \subseteq CallPlaces \cup {"client"}
    BY <1>1, <1>12
  <2>2. {call[a].thr, call'[a].thr} \subseteq {t, None}
    BY <1>2, <1>10
  <2>3. pc' = [pc EXCEPT ![a] = to] /\ self' = self
    BY <1>5, <1>12
  <2>4. /\ \A u \in Thr \ {t} : thr'[u] = thr[u]
        /\ \A b \in Actor \ {a} : call'[b] = call[b]
    BY <1>9, <1>10
  <2> QED
    BY <2>1, <2>2, <2>3, <2>4, CallOthers
<1>14. OwnersAt(t)'
  <2>1. RunBy(t)' <=> RunBy(t)
    BY <1>5, <1>13 DEF RunBy
  <2>2. ~StartedBy(t) /\ ~StartedBy(t)'
    BY <1>1, <1>3, <1>10, <1>12, <1>13 DEF StartedBy, HasRetained
  <2>3. thr[t].rc \in Nat /\ thr[t].held \in Nat
    BY UsesCount
  <2> QED
    BY <1>8, <1>9, <2>1, <2>2, <2>3, OwnersSame
<1>15. DetachedAt(t)' /\ IdAt(t)'
  <2>1. ~\E b \in Actor : call[b].thr = t /\ pc[b] = "created"
    BY <1>1, <1>3
  <2>2. thr[t].osThreadId # None
    BY <1>3, <2>1 DEF ThreadInv, Held, IdAt
  <2> QED
    BY <1>5, <1>8, <1>9, <2>2 DEF ThreadInv, Held, DetachedAt, IdAt
<1>16. \A o \in Os : self[o] = t => SelfAt(o)' /\ ArgumentAt(o)'
  <2> SUFFICES ASSUME NEW o \in Os, self[o] = t PROVE SelfAt(o)' /\ ArgumentAt(o)'
    OBVIOUS
  <2>1. o \notin Foreign /\ thr[t].osThread = o /\ pc[o] = "ended"
    BY <1>3, <1>5 DEF ThreadInv, Held, SelfAt
  <2>2. pc'[o] = "ended" /\ self'[o] = t
    BY <1>1, <1>5, <1>13, <2>1 DEF Actor
  <2> QED
    BY <1>3, <1>8, <1>9, <2>1, <2>2 DEF SelfAt, ArgumentAt, BouncePlaces, CallPlaces
<1>17. CallAt(a)'
  BY <1>10, <1>12, <1>13, ThreadAssumption DEF CallAt, CallPlaces
<1> QED
  BY <1>3, <1>11, <1>13, <1>14, <1>15, <1>16, <1>17 DEF Held

(* The steps that only go on to the next place, or also change the state   *)
(* of the universe.                                                        *)
LEMMA PlacesHeld ==
  ASSUME ThreadInv, NEW a \in Actor,
         \/ IsGoingMultiThreaded(a)
         \/ a \in Os /\ (\/ BecomeUniverseThread(a) \/ BounceReleases(a) \/ Exit(a)
                         \/ IsProbablyGoingSingleThreaded(a) \/ ResignAsUniverseThread(a)
                         \/ AbaUnregister(a) \/ Leave(a))
         \/ a = Main /\ MainReturns
  PROVE  Typed' /\ Held'
<1>1. UNCHANGED <<thr, self, call, joined>>
  BY DEF IsGoingMultiThreaded, BecomeUniverseThread, BounceReleases, Exit,
     IsProbablyGoingSingleThreaded, ResignAsUniverseThread, AbaUnregister, Leave, MainReturns
<1>2. torn' \in BOOLEAN /\ isMultiThreaded' \in BOOLEAN /\ aba' \subseteq Actor /\ threads' \subseteq Actor
  <2>1. torn \in BOOLEAN /\ isMultiThreaded \in BOOLEAN /\ aba \subseteq Actor /\ threads \subseteq Actor
    BY DEF ThreadInv, Typed
  <2>2. CASE UNCHANGED universe
    BY <2>1, <2>2 DEF universe
  <2>3. CASE ReleaseUniverse(a)
    <3>1. torn' \in BOOLEAN
      BY <2>3 DEF ReleaseUniverse
    <3>2. aba' \subseteq Actor /\ threads' \subseteq Actor /\ isMultiThreaded' = isMultiThreaded
      BY <2>1, <2>3 DEF ReleaseUniverse
    <3> QED
      BY <2>1, <3>1, <3>2
  <2>4. CASE \/ IsGoingMultiThreaded(a) \/ BecomeUniverseThread(a)
             \/ IsProbablyGoingSingleThreaded(a) \/ ResignAsUniverseThread(a) \/ AbaUnregister(a)
    BY <2>1, <2>4 DEF IsGoingMultiThreaded, BecomeUniverseThread,
       IsProbablyGoingSingleThreaded, ResignAsUniverseThread, AbaUnregister
  <2> QED
    BY <2>2, <2>3, <2>4 DEF BounceReleases, Exit, Leave, MainReturns
<1>3. Typed'
  BY <1>1, <1>2 DEF ThreadInv, Typed
<1>4. PICK from, to :
        /\ pc[a] = from /\ pc' = [pc EXCEPT ![a] = to]
        /\ \/ from = "goingMulti" /\ to = "retaining"
           \/ a \in Os /\ <<from, to>> \in
                {<<"becoming", "registering">>, <<"handover", "gaining">>,
                 <<"client", "goingSingle">>, <<"client", "finalizing">>,
                 <<"goingSingle", "finalizing">>, <<"resigning", "abaUnregister">>,
                 <<"abaUnregister", "leaving">>, <<"leaving", "ended">>}
           \/ a = Main /\ from = "client" /\ to = "ended"
  BY DEF IsGoingMultiThreaded, BecomeUniverseThread, BounceReleases, Exit,
     IsProbablyGoingSingleThreaded, ResignAsUniverseThread, AbaUnregister, Leave, MainReturns, Goto
<1>5. CASE a # Main \/ from # "client"
  <2> USE DEF RunPlaces, MemberPlaces, CallPlaces, BouncePlaces, BeforeCreate, HasRetained
  <2>1. from # "none" /\ to # "none" /\ from # "created"
    BY <1>4, <1>5
  <2>2. (from \in RunPlaces <=> to \in RunPlaces) /\ (from \in CallPlaces <=> to \in CallPlaces)
    BY <1>4, <1>5
  <2>3. /\ from \in BeforeCreate <=> to \in BeforeCreate
        /\ from \in HasRetained <=> to \in HasRetained
        /\ to \in {"creating"} => from = "creating"
    BY <1>4, <1>5
  <2>4. /\ from \in {"becoming", "registering"} <=> to \in {"becoming", "registering"}
        /\ to \in BouncePlaces \cup {"gaining"} => from \in BouncePlaces \cup {"gaining"}
    BY <1>4, <1>5
  <2>5. /\ to \in {"client", "goingSingle", "finalizing"} \cup CallPlaces =>
             from \in {"client", "goingSingle", "finalizing"} \cup CallPlaces
        /\ a \in Os /\ to \in ExitedPlaces => from \in ExitedPlaces
    BY <1>4, <1>5
  <2> QED
    BY <1>1, <1>3, <1>4, <2>1, <2>2, <2>3, <2>4, <2>5, PlaceStep
<1>6. CASE a = Main /\ from = "client"
  <2>1. Main \notin Os /\ to = "ended"
    BY <1>4, <1>6, ThreadAssumption
  <2>2. \A b \in Actor : pc'[b] = IF b = Main THEN "ended" ELSE pc[b]
    BY <1>4, <1>6, <2>1 DEF ThreadInv, Inv, PlacesFit
  <2>3. \A o \in Os : pc'[o] = pc[o] /\ (Runs(o)' <=> Runs(o))
    BY <2>1, <2>2 DEF Runs, Actor
  <2>4. \A t \in Thr : OwnersAt(t)'
    <3>1. \A t \in Thr : RunBy(t)' <=> RunBy(t)
      BY <1>1, <2>3 DEF RunBy
    <3>2. \A t \in Thr : StartedBy(t)' <=> StartedBy(t)
      BY <1>1, <1>4, <1>6, <2>2 DEF StartedBy, HasRetained
    <3> QED
      BY <1>1, <3>1, <3>2, OwnersSame
  <2>5. \A t \in Thr : DetachedAt(t)' /\ IdAt(t)'
    BY <1>1, <1>4, <1>6, <2>2, <2>3 DEF ThreadInv, Held, DetachedAt, IdAt
  <2>6. \A o \in Os : SelfAt(o)' /\ ArgumentAt(o)'
    BY <1>1, <2>3 DEF ThreadInv, Held, SelfAt, ArgumentAt
  <2>7. \A b \in Actor : CallAt(b)'
    BY <1>1, <1>4, <1>6, <2>2 DEF ThreadInv, Held, CallAt, CallPlaces, BeforeCreate
  <2> QED
    BY <1>3, <2>4, <2>5, <2>6, <2>7 DEF Held
<1> QED
  BY <1>5, <1>6

(* A step that an OS thread makes on its own NSThread.                     *)
LEMMA OwnStep ==
  ASSUME ThreadInv, NEW o \in Os, NEW t \in Thr, self[o] = t, NEW to, NEW r \in NSThread,
         pc[o] \notin CallPlaces, to \notin CallPlaces \cup {"none"},
         o \in Foreign => to \notin {"becoming", "registering"},
         pc' = [pc EXCEPT ![o] = to], thr' = [thr EXCEPT ![t] = r],
         UNCHANGED <<self, call>>,
         r.held = thr[t].held,
         \/ r.rc = thr[t].rc /\ (Runs(o)' <=> Runs(o))
         \/ r.rc = thr[t].rc - 1 /\ Runs(o) /\ ~Runs(o)'
         \/ r.rc = thr[t].rc + 1 /\ ~Runs(o) /\ Runs(o)',
         \/ /\ r.osThread = thr[t].osThread
            /\ r.osThreadId = thr[t].osThreadId \/ r.osThreadId # None
         \/ o \in Foreign /\ r.osThread = None,
         DetachedAt(t)', ArgumentAt(o)'
  PROVE  Held'
<1>1. t # None /\ pc[o] # "none" /\ o \in Actor
  BY ThreadAssumption DEF ThreadInv, Held, SelfAt, Actor
<1>2. thr'[t] = r /\ \A u \in Thr \ {t} : thr'[u] = thr[u]
  BY DEF ThreadInv, Typed
<1>3. pc'[o] = to /\ \A b \in Actor \ {o} : pc'[b] = pc[b]
  BY <1>1 DEF ThreadInv, Inv, PlacesFit
<1>4. call[o].thr = None
  BY <1>1 DEF ThreadInv, Held, CallAt
<1>5. \A p \in Os \ {o} : self[p] # t
  BY UsesCount
<1>6. /\ \A u \in Thr \ {t} : OwnersAt(u)' /\ DetachedAt(u)' /\ IdAt(u)'
      /\ \A p \in Os : self'[p] # t => SelfAt(p)' /\ ArgumentAt(p)'
      /\ \A b \in Actor \ {o} : call[b].thr # t => CallAt(b)'
  <2>1. {o} \in SUBSET Actor
    BY <1>1
  <2>2. /\ \A b \in Actor \ {o} : pc'[b] = pc[b] /\ call'[b] = call[b]
        /\ \A p \in Os \ {o} : self'[p] = self[p]
        /\ \A p \in Os : self'[p] \in Thr \cup {None}
    BY <1>3 DEF ThreadInv, Typed
  <2>3. \A p \in {o} \cap Os :
           \/ self[p] \in {t, None} /\ self'[p] = t
           \/ self'[p] = self[p] /\ {pc[p], pc'[p]} \subseteq CallPlaces \cup {"client"}
    OBVIOUS
  <2>4. \A b \in {o} : {call[b].thr, call'[b].thr} \subseteq {t, None}
    BY <1>4
  <2> QED
    BY <1>2, <2>1, <2>2, <2>3, <2>4, Others
<1>7. (RunBy(t) <=> Runs(o)) /\ (RunBy(t)' <=> Runs(o)')
  BY <1>5 DEF RunBy
<1>8. StartedBy(t)' <=> StartedBy(t)
  BY <1>1, <1>3, <1>4 DEF StartedBy
<1>9. OwnersAt(t)'
  <2>1. thr[t].rc \in Nat /\ thr[t].held \in Nat
    BY UsesCount
  <2>2. PICK y \in Nat : y = Bit(StartedBy(t)) /\ y = Bit(StartedBy(t))'
    BY <1>8 DEF Bit
  <2>3. PICK x \in Nat, z \in Nat :
          /\ x = Bit(RunBy(t)) /\ z = Bit(RunBy(t))'
          /\ Runs(o) => x = 1
          /\ ~Runs(o) => x = 0
          /\ Runs(o)' => z = 1
          /\ ~Runs(o)' => z = 0
    BY <1>7 DEF Bit
  <2>4. thr[t].rc = thr[t].held + x + y
    BY <2>2, <2>3 DEF ThreadInv, Held, OwnersAt
  <2>5. \/ r.rc = thr[t].rc /\ z = x
        \/ r.rc = thr[t].rc - 1 /\ x = 1 /\ z = 0
        \/ r.rc = thr[t].rc + 1 /\ x = 0 /\ z = 1
    BY <2>3
  <2>6. r.rc = r.held + z + y
    BY <2>1, <2>4, <2>5
  <2> QED
    BY <1>2, <2>2, <2>3, <2>6 DEF OwnersAt
<1>10. \A b \in Actor : call[b].thr = t => /\ b # o /\ pc[b] \notin BeforeCreate
                                           /\ o \notin Foreign
  <2> SUFFICES ASSUME NEW b \in Actor, call[b].thr = t
               PROVE  b # o /\ pc[b] \notin BeforeCreate /\ o \notin Foreign
    OBVIOUS
  <2>1. pc[b] \in CallPlaces
    BY <1>1 DEF ThreadInv, Held, CallAt
  <2> QED
    BY <1>1, <1>4, <2>1, Called
<1>11. IdAt(t)'
  BY <1>2, <1>3, <1>10 DEF ThreadInv, Held, IdAt
<1>12. SelfAt(o)'
  BY <1>1, <1>2, <1>3, <1>5 DEF ThreadInv, Held, SelfAt
<1>13. \A b \in Actor \ {o} : call[b].thr = t => CallAt(b)'
  BY <1>1, <1>2, <1>3, <1>4, <1>10 DEF ThreadInv, Held, CallAt, BeforeCreate
<1>14. CallAt(o)'
  BY <1>1, <1>3, <1>4, ThreadAssumption DEF CallAt
<1>15. \A p \in Os : SelfAt(p)' /\ ArgumentAt(p)'
  BY <1>5, <1>6, <1>12
<1>16. \A b \in Actor : CallAt(b)'
  BY <1>6, <1>13, <1>14
<1>17. \A u \in Thr : OwnersAt(u)' /\ DetachedAt(u)' /\ IdAt(u)'
  BY <1>6, <1>9, <1>11
<1> QED
  BY <1>15, <1>16, <1>17 DEF Held

(* The thread and its NSThread, before it makes a step on it.              *)
LEMMA Running ==
  ASSUME ThreadInv, NEW o \in Os, pc[o] # "none"
  PROVE  /\ self[o] \in Thr /\ thr[self[o]] \in NSThread
         /\ thr[self[o]].rc \in Nat /\ thr[self[o]].held \in Nat
         /\ thr[self[o]].affinity \in Actor \cup {Limbo}
         /\ Runs(o) => thr[self[o]].rc >= thr[self[o]].held + 1
         /\ o \in Actor
<1>1. self[o] \in Thr
  BY DEF ThreadInv, Typed, Held, SelfAt
<1>2. thr[self[o]] \in NSThread
  BY <1>1 DEF ThreadInv, Typed
<1>3. Runs(o) => thr[self[o]].rc >= thr[self[o]].held + 1
  BY <1>1, UsesCount
<1> QED
  BY <1>1, <1>2, <1>3 DEF NSThread, Actor

(* The steps of bouncyBounce() and of the exit on the thread's own         *)
(* NSThread: each goes to a place outside of a call and changes one record. *)
LEMMA OwnRecord ==
  ASSUME ThreadInv, NEW o \in Os,
         \/ BounceSetsId(o) \/ RegisterInUniverse(o) \/ BounceGains(o)
         \/ Finalize(o) \/ TakedownAndRelease(o)
  PROVE  \E r \in NSThread, to \in {"abaRegister", "client", "handover", "takedown", "resigning"} :
           /\ pc[o] \in {"bounce", "registering", "gaining", "finalizing", "takedown"}
           /\ pc' = [pc EXCEPT ![o] = to] /\ thr' = [thr EXCEPT ![self[o]] = r]
           /\ r.held = thr[self[o]].held
           /\ \/ r.rc = thr[self[o]].rc /\ (Runs(o)' <=> Runs(o))
              \/ r.rc = thr[self[o]].rc - 1 /\ Runs(o) /\ ~Runs(o)'
              \/ r.rc = thr[self[o]].rc + 1 /\ ~Runs(o) /\ Runs(o)'
           /\ \/ /\ r.osThread = thr[self[o]].osThread
                 /\ r.osThreadId = thr[self[o]].osThreadId \/ r.osThreadId # None
              \/ o \in Foreign /\ r.osThread = None
           /\ r.didGain => o \notin Foreign
           /\ to \in {"abaRegister", "handover"} =>
                /\ pc[o] \in {"bounce", "registering"}
                /\ r.affinity = thr[self[o]].affinity /\ r.handed = thr[self[o]].handed
           /\ to = "client" => o \in Foreign \/ (r.affinity = o /\ r.didGain)
           /\ to = "takedown" => /\ ~(r.isDetached /\ r.argument)
                                 /\ r.argument /\ o \notin Foreign => r.affinity = Limbo /\ r.handed > 0
           /\ to = "resigning" =>
                /\ pc[o] = "takedown" /\ r.isDetached = thr[self[o]].isDetached
                /\ r.argument => /\ thr[self[o]].argument /\ r.affinity = thr[self[o]].affinity
                                 /\ r.handed = thr[self[o]].handed
<1> DEFINE t == self[o]
<1>1. pc[o] # "none"
  BY DEF BounceSetsId, RegisterInUniverse, BounceGains, Finalize, TakedownAndRelease
<1>2. /\ t \in Thr /\ thr[t] \in NSThread /\ thr[t].rc \in Nat /\ thr[t].held \in Nat
      /\ thr[t].affinity \in Actor \cup {Limbo} /\ o \in Actor /\ o # None
      /\ Runs(o) => thr[t].rc >= thr[t].held + 1
  BY <1>1, Running, ThreadAssumption
<1> HIDE DEF t
<1>f. o \in Foreign => ~thr[t].didGain
  <2>1. \A p \in Os \ {o} : o \in Foreign => self[p] # t
    BY <1>1 DEF ThreadInv, Held, SelfAt, t
  <2> QED
    BY <1>2, <2>1 DEF ThreadInv, Held, DetachedAt
<1>p. \A to : pc' = [pc EXCEPT ![o] = to] => pc'[o] = to
  BY <1>2 DEF ThreadInv, Inv, PlacesFit
<1> USE DEF RunPlaces, MemberPlaces, BouncePlaces, CallPlaces
<1>3. CASE BounceSetsId(o)
  <2>1. /\ pc[o] = "bounce" /\ o \notin Foreign /\ pc' = [pc EXCEPT ![o] = "abaRegister"]
    BY <1>3 DEF BounceSetsId, Goto, ThreadInv, Inv, PlacesFit
  <2>2. Runs(o)' <=> Runs(o)
    BY <1>p, <2>1 DEF Runs
  <2>3. PICK r : r = [thr[t] EXCEPT !.osThreadId = IF @ = None THEN o ELSE @]
    OBVIOUS
  <2>4. thr' = [thr EXCEPT ![t] = r]
    BY <1>3, <2>3 DEF BounceSetsId, SetOSThreadId, t
  <2>5. r \in NSThread
    BY <1>2, <2>3 DEF NSThread
  <2>6. /\ r.held = thr[t].held /\ r.rc = thr[t].rc /\ r.osThread = thr[t].osThread
        /\ r.affinity = thr[t].affinity /\ r.handed = thr[t].handed
        /\ r.osThreadId # None
    BY <1>2, <2>3 DEF NSThread
  <2> QED
    BY <2>1, <2>2, <2>4, <2>5, <2>6 DEF t
<1>4. CASE RegisterInUniverse(o) /\ o \in Foreign
  <2>1. pc[o] = "registering" /\ pc' = [pc EXCEPT ![o] = "client"]
    BY <1>4 DEF RegisterInUniverse, Goto
  <2>2. ~Runs(o) /\ Runs(o)'
    BY <1>4, <1>p, <2>1 DEF Runs
  <2>3. PICK r : r = [NoNSThread EXCEPT !.rc = 1, !.osThreadId = o]
    OBVIOUS
  <2>4. thr' = [thr EXCEPT ![t] = r]
    BY <1>4, <2>3 DEF RegisterInUniverse, t
  <2>5. r \in NSThread /\ r.held = 0 /\ r.rc = 1 /\ r.osThread = None /\ ~r.didGain
    BY <2>3 DEF NSThread, NoNSThread, Actor
  <2>6. thr[t].held = 0 /\ thr[t].rc = 0
    BY <1>1, <1>4, <2>1 DEF ThreadInv, Held, SelfAt, t
  <2>7. r.held = thr[t].held /\ r.rc = thr[t].rc + 1
    BY <2>5, <2>6
  <2> QED
    BY <1>4, <2>1, <2>2, <2>4, <2>5, <2>7 DEF t
<1>5. CASE RegisterInUniverse(o) /\ o \notin Foreign
  <2>1. pc[o] = "registering" /\ pc' = [pc EXCEPT ![o] = "handover"]
    BY <1>5 DEF RegisterInUniverse, Goto
  <2>2. Runs(o)' <=> Runs(o)
    BY <1>5, <1>p, <2>1 DEF Runs
  <2>3. thr' = [thr EXCEPT ![t] = thr[t]]
    BY <1>2, <1>5 DEF RegisterInUniverse, ThreadInv, Typed
  <2> QED
    BY <1>2, <1>5, <2>1, <2>2, <2>3 DEF t
<1>6. CASE BounceGains(o)
  <2>1. pc[o] = "gaining" /\ pc' = [pc EXCEPT ![o] = "client"] /\ o \notin Foreign
    BY <1>6 DEF BounceGains, Goto, ThreadInv, Inv, PlacesFit
  <2>2. Runs(o)' <=> Runs(o)
    BY <1>p, <2>1 DEF Runs
  <2>3. PICK r : r = [thr[t] EXCEPT !.affinity = o, !.handed = @ - 1, !.didGain = TRUE]
    OBVIOUS
  <2>4. thr' = [thr EXCEPT ![t] = r]
    BY <1>2, <1>6, <2>3 DEF BounceGains, ThreadInv, Typed, t
  <2>a. thr[t].handed - 1 \in Nat
    <3>1. thr[t].handed > 0
      BY <2>1 DEF ThreadInv, Held, ArgumentAt, t
    <3> QED
      BY <1>2, <3>1 DEF NSThread
  <2>5. r \in NSThread
    BY <1>2, <2>3, <2>a DEF NSThread
  <2>6. /\ r.held = thr[t].held /\ r.rc = thr[t].rc /\ r.osThread = thr[t].osThread
        /\ r.osThreadId = thr[t].osThreadId /\ r.affinity = o /\ r.didGain
    BY <1>2, <2>3 DEF NSThread
  <2> QED
    BY <2>1, <2>2, <2>4, <2>5, <2>6 DEF t
<1>7. CASE Finalize(o)
  <2>1. pc[o] = "finalizing" /\ pc' = [pc EXCEPT ![o] = "takedown"]
    BY <1>7 DEF Finalize, Goto
  <2>2. Runs(o)' <=> Runs(o)
    BY <1>p, <2>1 DEF Runs
  <2>3. PICK r : r = IF thr[t].isDetached THEN [thr[t] EXCEPT !.argument = FALSE]
                     ELSE IF thr[t].didGain THEN Relinquished(thr[t]) ELSE thr[t]
    OBVIOUS
  <2>4. thr' = [thr EXCEPT ![t] = r]
    BY <1>2, <1>7, <2>3 DEF Finalize, ThreadInv, Typed, t
  <2>5. o \notin Foreign => thr[t].didGain
    BY <2>1 DEF ThreadInv, Held, ArgumentAt, t
  <2>6. /\ r \in NSThread /\ r.held = thr[t].held /\ r.rc = thr[t].rc
        /\ r.osThread = thr[t].osThread /\ r.osThreadId = thr[t].osThreadId
        /\ r.didGain = thr[t].didGain /\ ~(r.isDetached /\ r.argument)
        /\ r.argument /\ o \notin Foreign => r.affinity = Limbo /\ r.handed > 0
    <3>1. CASE thr[t].isDetached
      <4>1. r = [thr[t] EXCEPT !.argument = FALSE]
        BY <2>3, <3>1
      <4> QED
        BY <1>2, <4>1 DEF NSThread
    <3>2. CASE ~thr[t].isDetached /\ thr[t].didGain
      <4>1. r = Relinquished(thr[t])
        BY <2>3, <3>2
      <4> QED
        BY <1>2, <3>2, <4>1, RelinquishedRecord
    <3>3. CASE ~thr[t].isDetached /\ ~thr[t].didGain
      BY <1>2, <2>3, <2>5, <3>3
    <3> QED
      BY <3>1, <3>2, <3>3
  <2> QED
    BY <1>f, <2>1, <2>2, <2>4, <2>6 DEF t
<1>8. CASE TakedownAndRelease(o)
  <2>1. pc[o] = "takedown" /\ pc' = [pc EXCEPT ![o] = "resigning"]
    BY <1>8 DEF TakedownAndRelease, Goto
  <2>2. Runs(o) /\ ~Runs(o)'
    BY <1>p, <2>1 DEF Runs
  <2>3. PICK r : r = Released(t, o)
    OBVIOUS
  <2>4. thr' = [thr EXCEPT ![t] = r]
    BY <1>8, <2>3 DEF TakedownAndRelease, t
  <2>5. thr[t].rc >= 1 /\ thr[t].rc - 1 \in Nat
    BY <1>2, <2>2
  <2>6. /\ r \in NSThread /\ r.held = thr[t].held /\ r.rc = thr[t].rc - 1
        /\ r.osThread = thr[t].osThread /\ r.osThreadId = thr[t].osThreadId
        /\ r.isDetached = thr[t].isDetached /\ r.didGain = thr[t].didGain
        /\ r.argument => /\ thr[t].argument /\ r.affinity = thr[t].affinity
                         /\ r.handed = thr[t].handed
    <3>1. CASE thr[t].rc > 1
      <4>1. r = [thr[t] EXCEPT !.rc = @ - 1]
        BY <2>3, <3>1 DEF Released
      <4>2. r \in NSThread
        BY <1>2, <2>5, <4>1 DEF NSThread
      <4> QED
        BY <1>2, <4>1, <4>2 DEF NSThread
    <3>2. CASE ~(thr[t].rc > 1)
      <4>1. thr[t].rc = 1
        BY <1>2, <2>5, <3>2
      <4>2. thr[t].didGain /\ thr[t].argument => thr[t].handed > 0
        BY <1>2, <1>f, <2>1 DEF ThreadInv, Held, ArgumentAt, t
      <4>3. PICK g : g = Gained(thr[t], o)
        OBVIOUS
      <4>4. /\ g \in NSThread /\ g.held = thr[t].held /\ g.osThread = thr[t].osThread
            /\ g.osThreadId = thr[t].osThreadId /\ g.isDetached = thr[t].isDetached
            /\ g.didGain = thr[t].didGain
        BY <1>2, <4>2, <4>3, GainedRecord
      <4>5. r = [g EXCEPT !.rc = 0, !.argument = FALSE]
        BY <2>3, <3>2, <4>3 DEF Released
      <4>6. r \in NSThread
        BY <4>4, <4>5 DEF NSThread
      <4>7. r.rc = thr[t].rc - 1 /\ r.argument = FALSE
        BY <4>1, <4>4, <4>5 DEF NSThread
      <4> QED
        BY <4>4, <4>5, <4>6, <4>7 DEF NSThread
    <3> QED
      BY <3>1, <3>2
  <2> QED
    BY <1>f, <2>1, <2>2, <2>4, <2>6 DEF t
<1> QED
  BY <1>3, <1>4, <1>5, <1>6, <1>7, <1>8

(* What a thread does with its own NSThread keeps it held.                 *)
LEMMA OwnHeld ==
  ASSUME ThreadInv, NEW o \in Os,
         \/ BounceSetsId(o) \/ RegisterInUniverse(o) \/ BounceGains(o)
         \/ Finalize(o) \/ TakedownAndRelease(o)
  PROVE  Typed' /\ Held'
<1>1. PICK r \in NSThread, to \in {"abaRegister", "client", "handover", "takedown", "resigning"} :
        /\ pc[o] \in {"bounce", "registering", "gaining", "finalizing", "takedown"}
        /\ pc' = [pc EXCEPT ![o] = to] /\ thr' = [thr EXCEPT ![self[o]] = r]
        /\ r.held = thr[self[o]].held
        /\ \/ r.rc = thr[self[o]].rc /\ (Runs(o)' <=> Runs(o))
           \/ r.rc = thr[self[o]].rc - 1 /\ Runs(o) /\ ~Runs(o)'
           \/ r.rc = thr[self[o]].rc + 1 /\ ~Runs(o) /\ Runs(o)'
        /\ \/ /\ r.osThread = thr[self[o]].osThread
              /\ r.osThreadId = thr[self[o]].osThreadId \/ r.osThreadId # None
           \/ o \in Foreign /\ r.osThread = None
        /\ r.didGain => o \notin Foreign
        /\ to \in {"abaRegister", "handover"} =>
             /\ pc[o] \in {"bounce", "registering"}
             /\ r.affinity = thr[self[o]].affinity /\ r.handed = thr[self[o]].handed
        /\ to = "client" => o \in Foreign \/ (r.affinity = o /\ r.didGain)
        /\ to = "takedown" => /\ ~(r.isDetached /\ r.argument)
                              /\ r.argument /\ o \notin Foreign => r.affinity = Limbo /\ r.handed > 0
        /\ to = "resigning" =>
             /\ pc[o] = "takedown" /\ r.isDetached = thr[self[o]].isDetached
             /\ r.argument => /\ thr[self[o]].argument /\ r.affinity = thr[self[o]].affinity
                              /\ r.handed = thr[self[o]].handed
  BY OwnRecord
<1>2. PICK t \in Thr : t = self[o] /\ thr[t] \in NSThread /\ o \in Actor
  BY <1>1, Running
<1>3. UNCHANGED <<self, call, joined, torn, isMultiThreaded, aba>> /\ threads' \subseteq Actor
  BY <1>2 DEF BounceSetsId, RegisterInUniverse, BounceGains, Finalize, TakedownAndRelease,
     universe, ThreadInv, Typed
<1>4. thr' = [thr EXCEPT ![t] = r] /\ thr' \in [Thr -> NSThread] /\ thr'[t] = r
  BY <1>1, <1>2 DEF ThreadInv, Typed
<1>5. pc'[o] = to
  BY <1>1, <1>2 DEF ThreadInv, Inv, PlacesFit
<1>6. Typed'
  BY <1>3, <1>4 DEF ThreadInv, Typed
<1>7. \A p \in Os : self[p] = t => p = o
  BY <1>2, UsesCount
<1>8. DetachedAt(t)'
  <2>a. thr'[t].didGain => \E p \in Os \ Foreign : self'[p] = t
    BY <1>1, <1>2, <1>3, <1>4
  <2>1. CASE to \notin {"takedown", "resigning"}
    BY <1>1, <1>3, <1>5, <1>7, <2>1, <2>a DEF DetachedAt
  <2>2. CASE to = "takedown"
    BY <1>1, <1>4, <2>2, <2>a DEF DetachedAt
  <2>3. CASE to = "resigning"
    <3>1. ~(thr[t].isDetached /\ thr[t].argument)
      BY <1>1, <1>2, <2>3 DEF ThreadInv, Held, DetachedAt
    <3> QED
      BY <1>1, <1>2, <1>4, <2>3, <2>a, <3>1 DEF DetachedAt
  <2> QED
    BY <2>1, <2>2, <2>3
<1>9. ArgumentAt(o)'
  <2>1. CASE o \in Foreign
    BY <2>1 DEF ArgumentAt
  <2>4. CASE to \in {"takedown", "resigning"} /\ o \notin Foreign
    <3>1. r.argument => r.affinity = Limbo /\ r.handed > 0
      <4>1. CASE to = "takedown"
        BY <1>1, <2>4, <4>1
      <4>2. CASE to = "resigning"
        <5>1. thr[t].argument => InLimbo(t)
          BY <1>1, <1>2, <2>4, <4>2 DEF ThreadInv, Held, ArgumentAt
        <5> QED
          BY <1>1, <1>2, <4>2, <5>1
      <4> QED
        BY <2>4, <4>1, <4>2
    <3> QED
      BY <1>2, <1>3, <1>4, <1>5, <2>4, <3>1 DEF ArgumentAt, BouncePlaces, CallPlaces
  <2>2. CASE to = "client"
    BY <1>1, <1>2, <1>3, <1>4, <1>5, <2>2 DEF ArgumentAt, BouncePlaces, CallPlaces
  <2>3. CASE to \in {"abaRegister", "handover"} /\ o \notin Foreign
    <3>1. pc[o] \in BouncePlaces
      BY <1>1, <2>3 DEF BouncePlaces
    <3>2. InLimbo(t)
      BY <1>2, <2>3, <3>1 DEF ThreadInv, Held, ArgumentAt
    <3> QED
      BY <1>1, <1>2, <1>3, <1>4, <1>5, <2>3, <3>2 DEF ArgumentAt, BouncePlaces, CallPlaces
  <2> QED
    BY <2>1, <2>2, <2>3, <2>4
<1>10. /\ pc[o] \notin CallPlaces /\ to \notin CallPlaces \cup {"none"}
       /\ to \notin {"becoming", "registering"}
  BY <1>1 DEF CallPlaces
<1>11. /\ r.held = thr[t].held
       /\ \/ r.rc = thr[t].rc /\ (Runs(o)' <=> Runs(o))
          \/ r.rc = thr[t].rc - 1 /\ Runs(o) /\ ~Runs(o)'
          \/ r.rc = thr[t].rc + 1 /\ ~Runs(o) /\ Runs(o)'
       /\ \/ /\ r.osThread = thr[t].osThread
             /\ r.osThreadId = thr[t].osThreadId \/ r.osThreadId # None
          \/ o \in Foreign /\ r.osThread = None
  BY <1>1, <1>2
<1>12. self[o] = t /\ UNCHANGED <<self, call>> /\ pc' = [pc EXCEPT ![o] = to]
  BY <1>1, <1>2, <1>3
<1> QED
  BY <1>4, <1>6, <1>8, <1>9, <1>10, <1>11, <1>12, OwnStep

(* A thread registers with mulle_aba: a started one as it goes on, a C     *)
(* thread as it takes an address that no NSThread uses.                    *)
LEMMA AbaRegisterHeld ==
  ASSUME ThreadInv, NEW o \in Os, NEW t \in Thr, AbaRegister(o, t)
  PROVE  Typed' /\ Held'
<1>1. /\ self' = [self EXCEPT ![o] = t] /\ pc' = [pc EXCEPT ![o] = "becoming"]
      /\ aba' = aba \cup {o} /\ o \in Actor
      /\ UNCHANGED <<thr, call, joined, torn, isMultiThreaded, threads>>
  BY DEF AbaRegister, Goto, Actor
<1>2. /\ self' \in [Os -> Thr \cup {None}] /\ self'[o] = t /\ \A p \in Os \ {o} : self'[p] = self[p]
  BY <1>1 DEF ThreadInv, Typed
<1>3. /\ pc'[o] = "becoming" /\ \A b \in Actor \ {o} : pc'[b] = pc[b]
  BY <1>1 DEF ThreadInv, Inv, PlacesFit
<1>4. Typed'
  BY <1>1, <1>2 DEF ThreadInv, Typed
<1>5. CASE pc[o] = "abaRegister" /\ t = self[o]
  <2>1. o \notin Foreign
    BY <1>5 DEF ThreadInv, Inv, PlacesFit
  <2>2. PICK r \in NSThread : r = thr[t]
    BY DEF ThreadInv, Typed
  <2>3. UNCHANGED <<self, call>> /\ thr' = [thr EXCEPT ![t] = r]
    BY <1>1, <1>2, <1>5, <2>2 DEF ThreadInv, Typed
  <2>4. Runs(o)' <=> Runs(o)
    BY <1>3, <1>5, <2>1 DEF Runs, RunPlaces, BouncePlaces, MemberPlaces, CallPlaces
  <2>5. \A p \in Os : self[p] = t => p = o
    BY <1>5, UsesCount
  <2>6. DetachedAt(t)'
    BY <1>3, <2>2, <2>3, <2>5 DEF ThreadInv, Held, DetachedAt
  <2>7. ArgumentAt(o)'
    <3>1. InLimbo(t)
      BY <1>5, <2>1 DEF ThreadInv, Held, ArgumentAt, BouncePlaces
    <3> QED
      BY <1>1, <1>2, <1>3, <3>1 DEF ArgumentAt, CallPlaces
  <2>8. PICK to : to = "becoming"
    OBVIOUS
  <2>9. pc[o] \notin CallPlaces /\ to \notin CallPlaces \cup {"none"}
    BY <1>5, <2>8 DEF CallPlaces
  <2>10. pc' = [pc EXCEPT ![o] = to]
    BY <1>1, <2>8
  <2> QED
    BY <1>4, <1>5, <2>1, <2>2, <2>3, <2>4, <2>6, <2>7, <2>9, <2>10, OwnStep
<1>6. CASE o \in Foreign /\ pc[o] = "none" /\ thr[t].rc = 0 /\ \A p \in Os : self[p] # t
  <2>1. thr[t].held = 0 /\ \A b \in Actor : call[b].thr # t
    BY <1>6, UsesCount
  <2>2. self[o] = None /\ call[o].thr = None
    BY <1>1, <1>6 DEF ThreadInv, Held, SelfAt, CallAt, CallPlaces
  <2>3. /\ \A u \in Thr \ {t} : OwnersAt(u)' /\ DetachedAt(u)' /\ IdAt(u)'
        /\ \A p \in Os : self'[p] # t => SelfAt(p)' /\ ArgumentAt(p)'
        /\ \A b \in Actor \ {o} : call[b].thr # t => CallAt(b)'
    <3>1. {o} \in SUBSET Actor
      BY <1>1
    <3>2. /\ \A b \in Actor \ {o} : pc'[b] = pc[b] /\ call'[b] = call[b]
          /\ \A p \in Os \ {o} : self'[p] = self[p]
          /\ \A p \in Os : self'[p] \in Thr \cup {None}
          /\ \A u \in Thr \ {t} : thr'[u] = thr[u]
      BY <1>1, <1>2, <1>3
    <3>3. \A p \in {o} \cap Os :
             \/ self[p] \in {t, None} /\ self'[p] = t
             \/ self'[p] = self[p] /\ {pc[p], pc'[p]} \subseteq CallPlaces \cup {"client"}
      BY <1>2, <2>2
    <3>4. \A b \in {o} : {call[b].thr, call'[b].thr} \subseteq {t, None}
      BY <1>1, <2>2
    <3> QED
      BY <3>1, <3>2, <3>3, <3>4, Others
  <2>4. ~RunBy(t) /\ ~RunBy(t)'
    BY <1>2, <1>3, <1>6 DEF RunBy, Runs
  <2>5. ~StartedBy(t) /\ ~StartedBy(t)'
    BY <1>1, <2>1 DEF StartedBy
  <2>6. OwnersAt(t)'
    BY <1>1, <2>4, <2>5, OwnersSame
  <2>7. DetachedAt(t)'
    BY <1>1, <1>2, <1>3, <1>6 DEF ThreadInv, Held, DetachedAt
  <2>8. IdAt(t)'
    BY <1>1, <2>1 DEF ThreadInv, Held, IdAt
  <2>9. SelfAt(o)'
    BY <1>1, <1>2, <1>3, <1>6, <2>1, ThreadAssumption DEF SelfAt
  <2>10. ArgumentAt(o)'
    BY <1>6 DEF ArgumentAt
  <2>11. CallAt(o)'
    BY <1>1, <1>3, <2>2, ThreadAssumption DEF CallAt, CallPlaces
  <2>12. \A p \in Os : SelfAt(p)' /\ ArgumentAt(p)'
    BY <1>2, <1>6, <2>3, <2>9, <2>10
  <2>13. \A b \in Actor : CallAt(b)'
    BY <2>1, <2>3, <2>11
  <2> QED
    BY <1>4, <2>3, <2>6, <2>7, <2>8, <2>12, <2>13 DEF Held
<1> QED
  BY <1>5, <1>6 DEF AbaRegister

(* ThreadInv is inductive: each step is one of the above.                  *)
LEMMA ThreadStep == ThreadInv /\ [Next]_vars => ThreadInv'
<1> SUFFICES ASSUME ThreadInv, [Next]_vars PROVE ThreadInv'
  OBVIOUS
<1>1. Inv'
  BY InvStep DEF ThreadInv
<1>2. ASSUME NEW a \in Actor, ClientStep(a) PROVE Typed' /\ Held'
  BY <1>2, NewHeld, RetainHeld, StartHeld, JoinHeld DEF ClientStep
<1>3. ASSUME NEW a \in Actor, CallStep(a) PROVE Typed' /\ Held'
  <2>1. CASE IsGoingMultiThreaded(a)
    BY <2>1, PlacesHeld
  <2>2. CASE StartRetains(a) \/ StartRelinquishes(a)
    BY <2>2, StartRetainsHeld
  <2>3. CASE (\E o \in Os : Create(a, o)) \/ CreateFails(a)
    BY <2>3, CreateHeld, CreateFailsHeld
  <2>4. CASE StartSetsId(a) \/ StartDetaches(a) \/ JoinReturns(a)
    BY <2>4, StartSetsIdHeld, JoinReturnsHeld
  <2> QED
    BY <1>3, <2>1, <2>2, <2>3, <2>4 DEF CallStep
<1>4. ASSUME NEW o \in Os, BounceStep(o) PROVE Typed' /\ Held'
  <2>1. CASE BounceSetsId(o) \/ RegisterInUniverse(o) \/ BounceGains(o)
    BY <2>1, OwnHeld
  <2>2. CASE \E t \in Thr : AbaRegister(o, t)
    BY <2>2, AbaRegisterHeld
  <2>3. CASE BecomeUniverseThread(o) \/ BounceReleases(o)
    BY <2>3, PlacesHeld DEF Actor
  <2> QED
    BY <1>4, <2>1, <2>2, <2>3 DEF BounceStep
<1>5. ASSUME NEW o \in Os, ExitStep(o) PROVE Typed' /\ Held'
  <2>1. CASE Finalize(o) \/ TakedownAndRelease(o)
    BY <2>1, OwnHeld
  <2>2. CASE \/ Exit(o) \/ IsProbablyGoingSingleThreaded(o) \/ ResignAsUniverseThread(o)
             \/ AbaUnregister(o) \/ Leave(o)
    BY <2>2, PlacesHeld DEF Actor
  <2> QED
    BY <1>5, <2>1, <2>2 DEF ExitStep
<1>6. ASSUME MainReturns PROVE Typed' /\ Held'
  BY <1>6, PlacesHeld DEF Actor
<1>7. ASSUME UNCHANGED vars PROVE Typed' /\ Held'
  <2>1. UNCHANGED <<thr, pc, self, call, joined, torn, isMultiThreaded, aba, threads>>
    BY <1>7 DEF vars, universe
  <2>2. Typed'
    BY <2>1 DEF ThreadInv, Typed
  <2>3. \A t \in Thr : OwnersAt(t)' /\ DetachedAt(t)' /\ IdAt(t)'
    <3>1. \A t \in Thr : (RunBy(t)' <=> RunBy(t)) /\ (StartedBy(t)' <=> StartedBy(t))
      BY <2>1 DEF RunBy, StartedBy, Runs
    <3>2. \A t \in Thr : OwnersAt(t)'
      BY <2>1, <3>1, OwnersSame
    <3> QED
      BY <2>1, <3>2 DEF ThreadInv, Held, DetachedAt, IdAt
  <2>4. \A o \in Os : SelfAt(o)' /\ ArgumentAt(o)'
    BY <2>1 DEF ThreadInv, Held, SelfAt, ArgumentAt
  <2>5. \A a \in Actor : CallAt(a)'
    BY <2>1 DEF ThreadInv, Held, CallAt
  <2> QED
    BY <2>2, <2>3, <2>4, <2>5 DEF Held
<1>8. Typed' /\ Held'
  BY <1>2, <1>3, <1>4, <1>5, <1>6, <1>7 DEF Next
<1> QED
  BY <1>1, <1>8 DEF ThreadInv

(* No NSThread exists and nobody calls at first.                           *)
LEMMA ThreadInit == Init => ThreadInv
<1> SUFFICES ASSUME Init PROVE ThreadInv
  OBVIOUS
<1>1. Inv
  BY InvInit
<1>2. NoNSThread \in NSThread /\ NoCall \in [thr : Thr \cup {None}, detach : BOOLEAN]
  BY DEF NoNSThread, NSThread, NoCall, Actor
<1>3. Typed
  BY <1>2 DEF Init, Typed, Actor
<1>4. /\ \A t \in Thr : thr[t] = NoNSThread
      /\ \A o \in Os : pc[o] = "none" /\ self[o] = None
      /\ \A a \in Actor : call[a].thr = None /\ pc[a] \in {"none", "client"}
  BY ThreadAssumption DEF Init, NoCall, Actor
<1>5. \A t \in Thr : OwnersAt(t)
  <2> SUFFICES ASSUME NEW t \in Thr PROVE OwnersAt(t)
    OBVIOUS
  <2>1. ~RunBy(t) /\ ~StartedBy(t)
    BY <1>4 DEF RunBy, StartedBy, Runs, RunPlaces, MemberPlaces, BouncePlaces, CallPlaces,
       HasRetained
  <2>2. thr[t].rc = 0 /\ thr[t].held = 0
    BY <1>4 DEF NoNSThread
  <2> QED
    BY <2>1, <2>2 DEF OwnersAt, Bit
<1>6. \A t \in Thr : DetachedAt(t) /\ IdAt(t)
  BY <1>4 DEF DetachedAt, IdAt, NoNSThread
<1>7. \A o \in Os : SelfAt(o) /\ ArgumentAt(o)
  BY <1>4 DEF SelfAt, ArgumentAt, BouncePlaces, CallPlaces
<1>8. \A a \in Actor : CallAt(a)
  BY <1>4, ThreadAssumption DEF CallAt, CallPlaces
<1> QED
  BY <1>1, <1>3, <1>5, <1>6, <1>7, <1>8 DEF ThreadInv, Held

(* All of the state of threads and NSThreads has its type, the counters    *)
(* never go below zero, and every thread is at a place that its kind can   *)
(* be at.                                                                  *)
THEOREM TypeCorrect == Spec => []TypeOK
<1>1. ThreadInv => TypeOK
  <2> SUFFICES ASSUME ThreadInv PROVE TypeOK
    OBVIOUS
  <2>1. retaincount \in Nat /\ n_threads \in Nat
    BY HoldersFinite DEF ThreadInv, Inv, ReferencesHaveHolders
  <2> QED
    BY <2>1 DEF ThreadInv, Inv, Typed, TypeOK
<1> QED
  BY <1>1, ThreadInit, ThreadStep, PTL DEF Spec

(* An NSThread exists as long as its OS thread runs and as long as a start *)
(* or join call on it lasts, for any number of owners and threads.         *)
THEOREM NSThreadSafety == Spec => []NSThreadOutlivesUse
<1>1. ThreadInv => NSThreadOutlivesUse
  <2> SUFFICES ASSUME ThreadInv PROVE NSThreadOutlivesUse
    OBVIOUS
  <2>1. ASSUME NEW o \in Os,
               pc[o] \in (MemberPlaces \cup BouncePlaces)
                         \ {"becoming", "registering", "resigning", "abaUnregister", "leaving"}
        PROVE  thr[self[o]].rc > 0
    <3>1. Runs(o) /\ pc[o] # "none"
      BY <2>1 DEF Runs, RunPlaces, MemberPlaces, BouncePlaces, CallPlaces
    <3>2. /\ thr[self[o]].rc \in Nat /\ thr[self[o]].held \in Nat
          /\ thr[self[o]].rc >= thr[self[o]].held + 1
      BY <3>1, Running
    <3> QED
      BY <3>2
  <2>2. ASSUME NEW a \in Actor, call[a].thr # None PROVE thr[call[a].thr].rc > 0
    <3>1. PICK t \in Thr : t = call[a].thr
      BY <2>2 DEF ThreadInv, Typed
    <3>2. thr[t].rc \in Nat /\ thr[t].held \in Nat /\ thr[t].rc >= thr[t].held /\ thr[t].held > 0
      BY <3>1, UsesCount
    <3>3. thr[t].rc > 0
      BY <3>2
    <3> QED
      BY <3>1, <3>3
  <2> QED
    BY <2>1, <2>2 DEF NSThreadOutlivesUse
<1> QED
  BY <1>1, ThreadInit, ThreadStep, PTL DEF Spec

(* The argument of a thread goes from the starter through limbo to the     *)
(* thread and back through limbo to whoever joins or releases last, and a  *)
(* detached thread drops it itself.                                        *)
THEOREM ArgumentSafety == Spec => []ArgumentHandover
<1>1. ThreadInv => ArgumentHandover
  <2> SUFFICES ASSUME ThreadInv PROVE ArgumentHandover
    OBVIOUS
  <2>1. ASSUME NEW a \in Actor, pc[a] = "relinquishing"
        PROVE  thr[call[a].thr].affinity \in {a, Limbo}
    BY <2>1, Called DEF CallPlaces, BeforeCreate
  <2>2. \A o \in Os \ Foreign :
          /\ pc[o] \in BouncePlaces \cup {"gaining"} => InLimbo(self[o])
          /\ pc[o] \in {"client", "goingSingle", "finalizing"} \cup CallPlaces =>
               thr[self[o]].affinity = o
          /\ pc[o] \in ExitedPlaces /\ thr[self[o]].argument => InLimbo(self[o])
    BY DEF ThreadInv, Held, ArgumentAt
  <2>3. DetachedDropsArgument
    BY DEF ThreadInv, Held, DetachedAt, DetachedDropsArgument
  <2> QED
    BY <2>1, <2>2, <2>3 DEF ArgumentHandover, ArgumentIsReady
<1> QED
  BY <1>1, ThreadInit, ThreadStep, PTL DEF Spec
=============================================================================
