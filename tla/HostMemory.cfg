CONSTANTS
    o1 = o1
    o2 = o2
    c1 = c1
    c2 = c2
    allocationSize = 8
    Word = 2
    Val = {0, 1}
    Garbage <- MCGarbage
    Written = {4, 6}
    Object = {o1, o2}
    InitiallyBound = {o1}
    Offset <- MCOffset
    Size <- MCSize
    Addressed = {o2}
    Cmdbuf = {c1, c2}
    Window <- MCWindow
    Touch <- MCTouch
    DescriptorMark = {4}
    AddressMark = {6}
    MaxMaps = 2
    MaxWrites = 2
    MaxTouches = 2
    MaxSubmits = 2
    MaxFlushes = 1
SYMMETRY CmdbufSymmetry
SPECIFICATION Spec
CHECK_DEADLOCK FALSE
INVARIANTS
  CloneSound
  MarkedAddressesTranslated
PROPERTIES
  SubmitCarriesHostWrites
