SPECIFICATION ClipSpec
CONSTANTS
  CLIP_RING_MAX = 2
  CLIP_FAV_MAX = 2
  Texts = {a, b}
  Empty = Empty
  Absent = Absent
  MaxId = 4
SYMMETRY MCSymmetry
INVARIANTS
  ClipSafety
  LinksHold
PROPERTIES
  ClipsKept
