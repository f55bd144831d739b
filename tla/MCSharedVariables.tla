-------------------------- MODULE MCSharedVariables --------------------------
(***************************************************************************)
(* What threads share without a lock, or with one that is held only for a  *)
(* lookup: atomic integers, atomic instance variables, the name of a       *)
(* thread and the registry of threads.  They have no state in common: a    *)
(* behaviour exercises one of them, chosen by its initial state.           *)
(***************************************************************************)
EXTENDS AtomicIntegers, Naturals, FiniteSets, TLC

CONSTANTS Obj, nil, MaxRefs, String, NULL, Os, Main, Thr, MaxLookups

ASSUME SharingAssumption ==
  /\ NULL \notin String /\ {MaxRefs, MaxLookups} \subseteq Nat
  /\ nil \notin Obj \cup Thr /\ Thr \cap Obj = {}
  /\ Main \in Os /\ IsFiniteSet(Os) /\ IsFiniteSet(Thr) /\ IsFiniteSet(Thread)

VARIABLES
  mechanism,
  ivarType, ivar, rc, owned, pool, lost, ivarFrame,
  name, allocated, retired, using, setter,
  threads, mainthreadobject, threadobject, place, self,
  threadIvars, threadRc, threadPool, runLoopSetter

Ids   == INSTANCE AtomicIds WITH frame <- ivarFrame
Names == INSTANCE AtomicNames

Registry == INSTANCE ThreadRegistry
  WITH Value <- Obj, MaxRefs <- MaxLookups, ivars <- threadIvars,
       rc <- threadRc, pool <- threadPool, setter <- runLoopSetter

idVars   == <<ivarType, ivar, rc, owned, pool, lost, ivarFrame>>
nameVars == <<name, allocated, retired, using, setter>>
registryVars == <<threads, mainthreadobject, threadobject, place, self,
                  threadIvars, threadRc, threadPool, runLoopSetter>>
mcVars == <<mechanism, vars, idVars, nameVars, registryVars>>

\* Variables that a behaviour leaves alone keep one of their initial states.
MCInit ==
  /\ mechanism \in {"integer", "id", "name", "registry"}
  /\ Init /\ Ids!Init /\ Names!Init /\ Registry!Init
  /\ mechanism # "integer" => word = {}
  /\ mechanism # "id" => ivarType = "assign"

MCNext ==
  /\ UNCHANGED mechanism
  /\ \/ mechanism = "integer" /\ Next /\ UNCHANGED <<idVars, nameVars, registryVars>>
     \/ mechanism = "id" /\ Ids!Next /\ UNCHANGED <<vars, nameVars, registryVars>>
     \/ mechanism = "name" /\ Names!Next /\ UNCHANGED <<vars, idVars, registryVars>>
     \/ mechanism = "registry" /\ Registry!Next /\ UNCHANGED <<vars, idVars, nameVars>>

MCSpec == MCInit /\ [][MCNext]_mcVars

Symmetry ==
  Permutations(Thread) \cup Permutations(Obj) \cup Permutations(String) \cup Permutations(Thr)

(* Atomic instance variables: get, set, release and lazy get are atomic.   *)
IdsAreAtomic == Ids!IdsAreAtomic

(* Their references are all accounted for.                                 *)
IvarReferencesBalance == Ids!IvarReferencesBalance

(* A name that is read is not freed; each string has one owner.            *)
NamesAreSafe == Names!NamesAreSafe

(* A thread is found while it is there, alive and under its own id; what   *)
(* it keeps for others is balanced, and it has one run loop.               *)
ThreadsAreFound == Registry!ThreadsAreFound /\ Registry!ReferencesBalance /\ Registry!OneRunLoop
=============================================================================
