SPECIFICATION Spec
CONSTANTS
  Packers = {p1, p2}
  Sources <- ManySources
  BadNames = {"GET"}
  NoEffect = NoEffect
  MaxEdits = 2
  MaxPacks = 3
SYMMETRY PackerSymmetry
INVARIANTS LoadedFromOnePack LoadedEffectKnown QuietOutputLoads
CHECK_DEADLOCK FALSE
