--------------------------- MODULE ThreadLifecycle ---------------------------
(***************************************************************************)
(* The life of NSThread objects and of the OS threads that run them: from  *)
(* -mulleStart through bouncyBounce() and +exit to the destructor of the   *)
(* thread local storage, with -mulleJoin, the reference counts of the      *)
(* universe and of the NSThread, the thread counter, the thread's argument *)
(* and the lock-free reclamation scheme (aba) that threads register with.  *)
(* C threads that are adopted by MulleThreadGetOrCreateCurrentThread()     *)
(* take the same way out.                                                  *)
(***************************************************************************)
EXTENDS Integers, FiniteSets

CONSTANTS
  Thr,         (* NSThread objects                                         *)
  Os,          (* OS threads, each created at most once                    *)
  Foreign,     (* those of them that C code creates                        *)
  Main,        (* the main thread                                          *)
  None,        (* no thread, no object                                     *)
  Limbo,       (* the thread id -1 of an object without a thread           *)
  MaxRefs,     (* bound: references of client code to one NSThread         *)
  MaxStarts    (* bound: retains that calls to start one NSThread leave    *)

ASSUME ThreadAssumption ==
  /\ Foreign \subseteq Os
  /\ IsFiniteSet(Os)
  /\ Main \notin Os
  /\ None \notin Thr \cup Os \cup {Main}
  /\ Limbo \notin Os \cup {Main}
  /\ MaxRefs \in Nat /\ MaxStarts \in Nat

Actor == Os \cup {Main}

VARIABLES
  thr,             (* the instance variables and references of NSThreads   *)
  pc,              (* where each OS thread is                              *)
  self,            (* the NSThread that an OS thread runs                  *)
  call,            (* the start or join call that an OS thread makes       *)
  joined,          (* OS threads that were joined or detached              *)
  retaincount,     (* references to the universe                           *)
  torn,            (* the universe is torn down, mulle_aba_done() called   *)
  n_threads,       (* info->thread.n_threads                               *)
  isMultiThreaded, (* ClassStatic._isMultiThreaded                         *)
  aba,             (* OS threads registered with mulle_aba                 *)
  threads          (* info->object.threads: OS threads with their NSThread *)

universe == <<retaincount, torn, n_threads, isMultiThreaded, aba, threads>>
vars == <<thr, pc, self, call, joined, universe>>

Goto(a, place) == pc' = [pc EXCEPT ![a] = place]

(* Places inside a call on an NSThread, whose caller holds a reference.    *)
NoCall      == [thr |-> None, detach |-> FALSE]
Callers(t)  == {a \in Actor : call[a].thr = t}
MayCall(a, t) == pc[a] = "client" /\ thr[t].held > Cardinality(Callers(t))

-----------------------------------------------------------------------------
NoNSThread ==
  [rc |-> 0, held |-> 0, osThread |-> None, osThreadId |-> None, isDetached |-> FALSE,
   didGain |-> FALSE, argument |-> FALSE, affinity |-> Main, handed |-> 0]

(* +load: the main thread is registered, its NSThread exists.              *)
Init ==
  /\ thr = [t \in Thr |-> NoNSThread]
  /\ pc = [a \in Actor |-> IF a = Main THEN "client" ELSE "none"]
  /\ self = [o \in Os |-> None]
  /\ call = [a \in Actor |-> NoCall]
  /\ joined = {}
  /\ retaincount = 1
  /\ torn = FALSE
  /\ n_threads = 0
  /\ isMultiThreaded = FALSE
  /\ aba = {Main}
  /\ threads = {Main}

(* _mulle_objc_universe_release() by a: the last reference drives the      *)
(* teardown on the releasing thread.  Its stages finalize and deregister   *)
(* the NSThread of that thread (a worker has none anymore), unregister the *)
(* thread from mulle_aba, and end with +unload, which ends mulle_aba.      *)
ReleaseUniverse(a) ==
  /\ retaincount' = retaincount - 1
  /\ torn' = (torn \/ retaincount = 1)
  /\ aba' = IF retaincount = 1 THEN aba \ {a} ELSE aba
  /\ threads' = IF retaincount = 1 THEN threads \ {a} ELSE threads
  /\ UNCHANGED <<n_threads, isMultiThreaded>>

(* -mulleRelinquishAccess retains the argument of the NSThread r and puts  *)
(* it into limbo.  -mulleGainAccess by a, if bouncyBounce() did once gain, *)
(* gives back that retain; without an argument it is sent to nil.          *)
Relinquished(r) == [r EXCEPT !.affinity = Limbo, !.handed = @ + 1]
Gained(r, a) ==
  IF r.didGain /\ r.argument THEN [r EXCEPT !.affinity = a, !.handed = @ - 1] ELSE r

(* [t release] by a; -dealloc gains access to the argument and drops it.   *)
Released(t, a) ==
  IF thr[t].rc > 1 THEN [thr[t] EXCEPT !.rc = @ - 1]
  ELSE [Gained(thr[t], a) EXCEPT !.rc = 0, !.argument = FALSE]

-----------------------------------------------------------------------------
(* Client code in the main thread, in -main of a thread, or in a C thread. *)

(* +alloc and an -init variant, with an argument of the calling thread.    *)
New(a, t) ==
  /\ pc[a] = "client" /\ thr[t].rc = 0
  /\ \A o \in Os : self[o] # t
  /\ thr' = [thr EXCEPT ![t] = [NoNSThread EXCEPT !.rc = 1, !.held = 1,
                                                  !.argument = TRUE, !.affinity = a]]
  /\ UNCHANGED <<pc, self, call, joined, universe>>

Retain(a, t) ==
  /\ pc[a] = "client" /\ thr[t].held \in 1 .. MaxRefs - 1
  /\ thr' = [thr EXCEPT ![t].held = @ + 1, ![t].rc = @ + 1]
  /\ UNCHANGED <<pc, self, call, joined, universe>>

Release(a, t) ==
  /\ MayCall(a, t)
  /\ thr' = [thr EXCEPT ![t] = [Released(t, a) EXCEPT !.held = @ - 1]]
  /\ UNCHANGED <<pc, self, call, joined, universe>>

(* -mulleStart, or -start which first sets _isDetached: the thread counter *)
(* is read.  With a thread id, or with an argument of another thread, the  *)
(* call raises, which ends the program.                                    *)
Start(a, t, detach) ==
  /\ MayCall(a, t) /\ thr[t].osThreadId = None
  /\ thr[t].affinity \in {a, Limbo}
  /\ Callers(t) = {} /\ thr[t].handed < MaxStarts
  /\ thr' = [thr EXCEPT ![t].isDetached = detach \/ @]
  /\ call' = [call EXCEPT ![a] = [thr |-> t, detach |-> detach]]
  /\ Goto(a, IF n_threads = 0 THEN "goingMulti" ELSE "retaining")
  /\ UNCHANGED <<self, joined, universe>>

(* -__isGoingMultiThreaded, under the lock.                                *)
IsGoingMultiThreaded(a) ==
  /\ pc[a] = "goingMulti"
  /\ isMultiThreaded' = TRUE
  /\ Goto(a, "retaining")
  /\ UNCHANGED <<thr, self, call, joined, retaincount, torn, n_threads, aba, threads>>

(* [self retain] and the universe's retain, for bouncyBounce().            *)
StartRetainsSelf(a) ==
  /\ pc[a] = "retaining"
  /\ thr' = [thr EXCEPT ![call[a].thr].rc = @ + 1]
  /\ Goto(a, "relinquishing")
  /\ UNCHANGED <<self, call, joined, universe>>

StartRetainsUniverse(a) ==
  /\ pc[a] = "retaining"
  /\ retaincount' = retaincount + 1
  /\ Goto(a, "relinquishing")
  /\ UNCHANGED <<thr, self, call, joined, torn, n_threads, isMultiThreaded, aba, threads>>

StartRetains(a) ==
  /\ pc[a] = "retaining"
  /\ thr' = [thr EXCEPT ![call[a].thr].rc = @ + 1]
  /\ retaincount' = retaincount + 1
  /\ Goto(a, "relinquishing")
  /\ UNCHANGED <<self, call, joined, torn, n_threads, isMultiThreaded, aba, threads>>

(* The starter relinquishes the argument.                                  *)
StartKeepsAccess(a) ==
  /\ pc[a] = "relinquishing"
  /\ Goto(a, "creating")
  /\ UNCHANGED <<thr, self, call, joined, universe>>

StartRelinquishes(a) ==
  /\ pc[a] = "relinquishing"
  /\ thr' = [thr EXCEPT ![call[a].thr] = Relinquished(@)]
  /\ Goto(a, "creating")
  /\ UNCHANGED <<self, call, joined, universe>>

(* mulle_thread_create() gives an OS thread that runs bouncyBounce(), ...  *)
Create(a, o) ==
  /\ pc[a] = "creating" /\ o \notin Foreign /\ pc[o] = "none"
  /\ self' = [self EXCEPT ![o] = call[a].thr]
  /\ thr' = [thr EXCEPT ![call[a].thr].osThread = o]
  /\ pc' = [pc EXCEPT ![a] = "created", ![o] = "bounce"]
  /\ UNCHANGED <<call, joined, universe>>

(* ... or fails: -mulleStart takes back the flag and both references, then *)
(* raises; under an exception table that throws, the starter goes on.  The *)
(* argument stays in limbo.                                                *)
CreateFails(a) ==
  /\ pc[a] = "creating"
  /\ thr' = [thr EXCEPT ![call[a].thr] = [Released(call[a].thr, a) EXCEPT !.isDetached = FALSE]]
  /\ call' = [call EXCEPT ![a] = NoCall]
  /\ Goto(a, "client")
  /\ ReleaseUniverse(a)
  /\ UNCHANGED <<self, joined>>

(* _NSThreadSetOSThreadId(): a compare and swap by starter and thread.     *)
SetOSThreadId(t, o) ==
  thr' = [thr EXCEPT ![t].osThreadId = IF @ = None THEN o ELSE @]

(* The starter sets the thread id; -mulleStart returns, -start detaches.   *)
StartSetsId(a) ==
  /\ pc[a] = "created"
  /\ SetOSThreadId(call[a].thr, thr[call[a].thr].osThread)
  /\ IF call[a].detach
     THEN Goto(a, "detaching") /\ UNCHANGED call
     ELSE Goto(a, "client") /\ call' = [call EXCEPT ![a] = NoCall]
  /\ UNCHANGED <<self, joined, universe>>

StartDetaches(a) ==
  /\ pc[a] = "detaching"
  /\ joined' = joined \cup {thr[call[a].thr].osThread}
  /\ call' = [call EXCEPT ![a] = NoCall]
  /\ Goto(a, "client")
  /\ UNCHANGED <<thr, self, universe>>

(* -mulleJoin; only the main thread joins, so that joins make no cycle.    *)
Join(a, t) ==
  /\ a = Main /\ MayCall(a, t) /\ Callers(t) = {}
  /\ thr[t].osThread # None /\ thr[t].osThread \notin joined /\ ~thr[t].isDetached
  /\ call' = [call EXCEPT ![a].thr = t]
  /\ Goto(a, "joining")
  /\ UNCHANGED <<thr, self, joined, universe>>

(* The OS thread has ended.  The joiner gets the argument.                 *)
JoinReturns(a) ==
  LET t == call[a].thr IN
  /\ pc[a] = "joining" /\ pc[thr[t].osThread] = "ended"
  /\ joined' = joined \cup {thr[t].osThread}
  /\ thr' = [thr EXCEPT ![t] = [Gained(@, a) EXCEPT !.argument = FALSE]]
  /\ call' = [call EXCEPT ![a] = NoCall]
  /\ Goto(a, "client")
  /\ UNCHANGED <<self, universe>>

(* The main thread ends and gives up its reference to the universe.  C     *)
(* code has no thread half adopted then.                                   *)
MainReturns ==
  /\ pc[Main] = "client"
  /\ \A o \in Foreign : pc[o] # "becoming"
  /\ Goto(Main, "ended")
  /\ ReleaseUniverse(Main)
  /\ UNCHANGED <<thr, self, call, joined>>

-----------------------------------------------------------------------------
(* The started thread: bouncyBounce().                                     *)

BounceSetsId(o) ==
  /\ pc[o] = "bounce"
  /\ SetOSThreadId(self[o], o)
  /\ Goto(o, "abaRegister")
  /\ UNCHANGED <<self, call, joined, universe>>

(* mulle_aba_register(); a C thread enters here.                           *)
AbaRegister(o, t) ==
  /\ \/ pc[o] = "abaRegister" /\ t = self[o]
     \/ o \in Foreign /\ pc[o] = "none" /\ pc[Main] = "client"
        /\ thr[t].rc = 0 /\ \A p \in Os : self[p] # t
  /\ aba' = aba \cup {o}
  /\ self' = [self EXCEPT ![o] = t]
  /\ Goto(o, "becoming")
  /\ UNCHANGED <<thr, call, joined, retaincount, torn, n_threads, isMultiThreaded, threads>>

(* _mulle_objc_thread_become_universethread().                             *)
BecomeUncounted(o) ==
  /\ pc[o] = "becoming"
  /\ retaincount' = retaincount + 1
  /\ Goto(o, "registering")
  /\ UNCHANGED <<thr, self, call, joined, torn, n_threads, isMultiThreaded, aba, threads>>

BecomeUniverseThread(o) ==
  /\ pc[o] = "becoming"
  /\ retaincount' = retaincount + 1
  /\ n_threads' = n_threads + 1
  /\ Goto(o, "registering")
  /\ UNCHANGED <<thr, self, call, joined, torn, isMultiThreaded, aba, threads>>

(* _MulleThreadRegisterInUniverse(); a C thread gets its NSThread, which   *)
(* the thread owns.                                                        *)
RegisterInUniverse(o) ==
  /\ pc[o] = "registering"
  /\ threads' = threads \cup {o}
  /\ thr' = IF o \in Foreign
            THEN [thr EXCEPT ![self[o]] = [NoNSThread EXCEPT !.rc = 1, !.osThreadId = o]]
            ELSE thr
  /\ Goto(o, IF o \in Foreign THEN "client" ELSE "handover")
  /\ UNCHANGED <<self, call, joined, retaincount, torn, n_threads, isMultiThreaded, aba>>

(* The reference that the starter took is given back.                      *)
BounceKeeps(o) ==
  /\ pc[o] = "handover"
  /\ Goto(o, "gaining")
  /\ UNCHANGED <<thr, self, call, joined, universe>>

BounceReleases(o) ==
  /\ pc[o] = "handover"
  /\ ReleaseUniverse(o)
  /\ Goto(o, "gaining")
  /\ UNCHANGED <<thr, self, call, joined>>

(* The thread gains access to its argument, and runs -main.                *)
BounceGains(o) ==
  LET t == self[o] IN
  /\ pc[o] = "gaining"
  /\ thr' = [thr EXCEPT ![t] = [thr[t] EXCEPT !.affinity = o, !.handed = @ - 1, !.didGain = TRUE]]
  /\ Goto(o, "client")
  /\ UNCHANGED <<self, call, joined, universe>>

(* +exit reads the thread counter.  A C thread just ends.                  *)
ExitWaits(o) ==
  /\ pc[o] = "client" /\ n_threads = 1
  /\ Goto(o, "finalizing")
  /\ UNCHANGED <<thr, self, call, joined, universe>>

Exit(o) ==
  /\ pc[o] = "client"
  /\ Goto(o, IF o \notin Foreign /\ n_threads = 1 THEN "goingSingle" ELSE "finalizing")
  /\ UNCHANGED <<thr, self, call, joined, universe>>

(* -__isProbablyGoingSingleThreaded, under the lock.                       *)
IsProbablyGoingSingleThreaded(o) ==
  /\ pc[o] = "goingSingle"
  /\ isMultiThreaded' = FALSE
  /\ Goto(o, "finalizing")
  /\ UNCHANGED <<thr, self, call, joined, retaincount, torn, n_threads, aba, threads>>

(* -finalize: a detached thread drops the argument, another one puts it    *)
(* into limbo for whoever joins.                                           *)
FinalizeKeepsAccess(o) ==
  LET t == self[o] IN
  /\ pc[o] = "finalizing"
  /\ thr' = [thr EXCEPT ![t].argument = @ /\ ~thr[t].isDetached]
  /\ Goto(o, "takedown")
  /\ UNCHANGED <<self, call, joined, universe>>

Finalize(o) ==
  LET t == self[o] IN
  /\ pc[o] = "finalizing"
  /\ thr' = [thr EXCEPT ![t] = IF thr[t].isDetached THEN [@ EXCEPT !.argument = FALSE]
                               ELSE IF thr[t].didGain THEN Relinquished(@) ELSE @]
  /\ Goto(o, "takedown")
  /\ UNCHANGED <<self, call, joined, universe>>

(* The destructor of the thread local storage:                             *)
(* _MulleThreadTakedownPoolAndRelease(), ...                               *)
TakedownAndRelease(o) ==
  /\ pc[o] = "takedown"
  /\ threads' = threads \ {o}
  /\ thr' = [thr EXCEPT ![self[o]] = Released(self[o], o)]
  /\ Goto(o, "resigning")
  /\ UNCHANGED <<self, call, joined, retaincount, torn, n_threads, isMultiThreaded, aba>>

(* ... _mulle_objc_thread_resignas_universethread(), ...                   *)
ResignAsUniverseThread(o) ==
  /\ pc[o] = "resigning"
  /\ n_threads' = n_threads - 1
  /\ Goto(o, "abaUnregister")
  /\ UNCHANGED <<thr, self, call, joined, retaincount, torn, isMultiThreaded, aba, threads>>

(* ... mulle_aba_unregister(), ...                                         *)
AbaStaysRegistered(o) ==
  /\ pc[o] = "abaUnregister"
  /\ Goto(o, "leaving")
  /\ UNCHANGED <<thr, self, call, joined, universe>>

AbaUnregister(o) ==
  /\ pc[o] = "abaUnregister"
  /\ aba' = aba \ {o}
  /\ Goto(o, "leaving")
  /\ UNCHANGED <<thr, self, call, joined, retaincount, torn, n_threads, isMultiThreaded, threads>>

(* ... and the release of the universe.                                    *)
Leave(o) ==
  /\ pc[o] = "leaving"
  /\ ReleaseUniverse(o)
  /\ Goto(o, "ended")
  /\ UNCHANGED <<thr, self, call, joined>>

-----------------------------------------------------------------------------
ClientStep(a) ==
  \E t \in Thr : \/ New(a, t) \/ Retain(a, t) \/ Release(a, t)
                 \/ \E detach \in BOOLEAN : Start(a, t, detach)
                 \/ Join(a, t)

CallStep(a) ==
  \/ IsGoingMultiThreaded(a) \/ StartRetains(a) \/ StartRelinquishes(a)
  \/ \E o \in Os : Create(a, o)
  \/ CreateFails(a) \/ StartSetsId(a) \/ StartDetaches(a) \/ JoinReturns(a)

BounceStep(o) ==
  \/ BounceSetsId(o) \/ (\E t \in Thr : AbaRegister(o, t)) \/ BecomeUniverseThread(o)
  \/ RegisterInUniverse(o) \/ BounceReleases(o) \/ BounceGains(o)

ExitStep(o) ==
  \/ Exit(o) \/ IsProbablyGoingSingleThreaded(o) \/ Finalize(o)
  \/ TakedownAndRelease(o) \/ ResignAsUniverseThread(o) \/ AbaUnregister(o) \/ Leave(o)

(* Everything has ended, the universe too.                                 *)
Ended == \A a \in Actor : pc[a] \in {"none", "ended"}

Next ==
  \/ \E a \in Actor : ClientStep(a) \/ CallStep(a)
  \/ \E o \in Os : BounceStep(o) \/ ExitStep(o)
  \/ MainReturns
  \/ Ended /\ UNCHANGED vars

Spec == Init /\ [][Next]_vars

(* The operating system runs every thread; -main of a thread and the C     *)
(* threads come to an end.                                                 *)
FairSpec ==
  /\ Spec
  /\ \A a \in Actor : WF_vars(CallStep(a))
  /\ \A o \in Os : /\ WF_vars(pc[o] # "none" /\ BounceStep(o))
                   /\ SF_vars(ExitStep(o))

-----------------------------------------------------------------------------
(* Properties.                                                             *)

NSThread ==
  [rc : Nat, held : Nat, osThread : Os \cup {None}, osThreadId : Os \cup {None},
   isDetached : BOOLEAN, didGain : BOOLEAN, argument : BOOLEAN,
   affinity : Actor \cup {Limbo}, handed : Nat]

CallPlaces == {"goingMulti", "retaining", "relinquishing", "creating", "created",
               "detaching", "joining"}

(* The places of a started or adopted thread between its retain of the     *)
(* universe and its release.                                               *)
MemberPlaces == {"registering", "handover", "gaining", "client", "goingSingle", "finalizing",
                 "takedown", "resigning", "abaUnregister", "leaving"} \cup CallPlaces

BouncePlaces == {"bounce", "abaRegister", "becoming", "registering", "handover"}

Place == {"none", "ended"} \cup MemberPlaces \cup BouncePlaces

(* The types of the NSThreads, of the OS threads' state and the universe.  *)
(* The places where the main thread and C threads can be, and where a      *)
(* thread is registered with mulle_aba.                                    *)
PlacesFit ==
  /\ pc \in [Actor -> Place]
  /\ pc[Main] \in {"client", "ended"} \cup CallPlaces
  /\ \A o \in Foreign : /\ pc[o] \notin {"bounce", "abaRegister", "handover", "gaining"}
                        /\ pc[o] = "becoming" => pc[Main] # "ended"
  /\ \A o \in Os : o \in aba <=> pc[o] \in ({"becoming"} \cup MemberPlaces) \ {"leaving"}

TypeOK ==
  /\ thr \in [Thr -> NSThread]
  /\ PlacesFit
  /\ self \in [Os -> Thr \cup {None}]
  /\ call \in [Actor -> [thr : Thr \cup {None}, detach : BOOLEAN]]
  /\ joined \subseteq Os
  /\ retaincount \in Nat
  /\ torn \in BOOLEAN
  /\ n_threads \in Nat
  /\ isMultiThreaded \in BOOLEAN
  /\ aba \subseteq Actor
  /\ threads \subseteq Actor

(* The universe is there for a thread from the moment it is created until  *)
(* it released the universe itself, and for a thread that starts another.  *)
(* The starter's reference bridges the time until the new thread has its   *)
(* own.                                                                    *)
UniverseOutlivesThreads == torn => \A a \in Actor : pc[a] \in {"none", "ended"}

(* The threads that hold a reference to the universe of their own, one for *)
(* the thread they are starting, and one that their starter took for them. *)
Own      == {a \in Actor : pc[a] \in MemberPlaces}
Starting == {a \in Actor : pc[a] \in {"relinquishing", "creating"}}
Started  == {o \in Os \ Foreign : pc[o] \in BouncePlaces}
Counted  == {o \in Os : pc[o] \in MemberPlaces \ {"abaUnregister", "leaving"}}

(* Every reference to the universe has a holder that will give it back, on *)
(* the failure path of -mulleStart too, and the thread counter counts the  *)
(* threads that run.                                                       *)
ReferencesHaveHolders ==
  /\ retaincount = Cardinality(Own) + Cardinality(Starting) + Cardinality(Started)
  /\ n_threads = Cardinality(Counted)
  /\ torn <=> Own = {} /\ Started = {}

(* Nobody needs mulle_aba or counts as a thread when the universe goes     *)
(* down, also if a thread's own exit is what drives it down.               *)
TeardownIsQuiet == torn => n_threads = 0 /\ aba \cap Os = {}

(* An NSThread exists as long as its OS thread runs up to its release, and *)
(* as long as somebody is inside a call on it, whatever other owners do.   *)
NSThreadOutlivesUse ==
  /\ \A o \in Os : pc[o] \in (MemberPlaces \cup BouncePlaces)
                            \ {"becoming", "registering", "resigning", "abaUnregister", "leaving"}
                 => thr[self[o]].rc > 0
  /\ \A a \in Actor : call[a].thr # None => thr[call[a].thr].rc > 0

(* The argument is with no thread, and whoever gains access to it gives    *)
(* back a retain that relinquished it.                                     *)
InLimbo(t) == thr[t].affinity = Limbo /\ thr[t].handed > 0

ExitedPlaces == {"takedown", "resigning", "abaUnregister", "leaving", "ended"}

(* The argument of a thread belongs to the starter, or still to nobody if a *)
(* start failed, then to no thread until the thread gains it, to the thread *)
(* while -main runs, and to no thread from -finalize until a joiner or the *)
(* last release gains it: relinquishing never finds another owner, and     *)
(* gaining finds neither an owner nor a retain missing.                    *)
ArgumentIsReady ==
  /\ \A a \in Actor : pc[a] = "relinquishing" => thr[call[a].thr].affinity \in {a, Limbo}
  /\ \A o \in Os \ Foreign :
       /\ pc[o] \in BouncePlaces \cup {"gaining"} => InLimbo(self[o])
       /\ pc[o] \in {"client", "goingSingle", "finalizing"} \cup CallPlaces =>
            thr[self[o]].affinity = o
       /\ pc[o] \in ExitedPlaces /\ thr[self[o]].argument => InLimbo(self[o])

(* A detached thread drops its argument itself: no object of a thread that *)
(* nobody joins stays in limbo.                                            *)
DetachedDropsArgument ==
  \A t \in Thr : thr[t].isDetached /\ thr[t].argument =>
    \A o \in Os : self[o] = t => pc[o] \notin ExitedPlaces

(* The argument passes from the starter to the thread and on to whoever    *)
(* joins it, or is dropped by the thread that nobody joins.                *)
ArgumentHandover == ArgumentIsReady /\ DetachedDropsArgument

(* Once the main thread has ended, the universe is torn down.              *)
TeardownComes == (pc[Main] = "ended") ~> torn

(* A join comes back.                                                      *)
JoinComesBack == (pc[Main] = "joining") ~> (pc[Main] = "client")

==============================================================================
