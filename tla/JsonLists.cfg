SPECIFICATION Spec
CONSTANTS
  Items = {i1, i2, i3, i4, i5}
  Names <- MCNames
  Lower <- MCLower
  NULL = NULL
SYMMETRY Symmetry
VIEW View
INVARIANTS TypeOK Linked NoLeak
PROPERTIES ImplementsForest
