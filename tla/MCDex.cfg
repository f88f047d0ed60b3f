SPECIFICATION DexSpec
CONSTANTS
  o1 = o1
  o2 = o2
  o3 = o3
  Objects <- ThreeObjects
  Null = Null
  Slots <- OneSlot
  First = 1
  Registers <- TwoRegisters
  Results <- FrameResults
  Globals <- StaticFields
  Strings <- OneString
  Kinds <- PlainKinds
  YoungThreshold = 2
  MajorAt = 3
  Capacity = 3
  InternMax = 1
  MajorEvery = 4
  Refusals = 2
  Changes = 3
SYMMETRY Addresses
INVARIANTS NoDangling RefusedOnlyWhenFull
INVARIANT SurfaceDrawn
PROPERTIES IsHeap HostPointersKept AddedOnce
