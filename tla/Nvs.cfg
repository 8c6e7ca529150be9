SPECIFICATION Spec
CONSTANTS
  Names = {a, b, c}
  Secrets = {p, q}
  MaxSaved = 2
  None = None
SYMMETRY Symmetry
INVARIANTS
  StoredWhole
  BlobClean
  LoadFindsSaved
PROPERTIES
  AddSurvivesCrash
