CONSTANTS
  Modulus = 16
  HashedBytes = 3
  MaxValid = 7
  ByteBits = 1
  Garbage = Garbage
  PointerBits = 6
  TagBits = 2
  NoClass = NoClass
  LongLongBits = 4
  UniverseId = {1, 2}
  DefaultUniverse = 1
  None = None
  Classes = {c1, c2}
  Objects = {1, 2}
  Caller = {t}
  Property = {p, q}
  Varied = {p}
  Value = {a, b, m}
  Mutable = {m}
  NULL = NULL
  MaxRefs = 2
  Cell = {a, b, m}
  Content = {1, 2}
  MaxEntries = 2
  Thread = {t1, t2}
  Instance = {a, b, c}
  MemoryBlock = {i, j}
  Allocator = {universal, mine}
  ClassAllocator = universal
  Invocation = {n1, n2}
  Argument = {a, b}
  Reusable = 1
  DefaultAllocator = standard
  FirstWord = calloc
  MaxOwners = 2
SYMMETRY Symmetry
SPECIFICATION Spec
INVARIANTS RangesHold BuffersFit MessagesArrive NumbersAreKept MethodsFound NamesParseBack ContentsAreHeld MemoryGoesHome
CHECK_DEADLOCK FALSE
