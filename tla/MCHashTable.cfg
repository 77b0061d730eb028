\* Keys that share a bucket at sizes 3, 6 and 12, so that chains form, grow and move.
SPECIFICATION Spec
CONSTANTS
  Keys = {1, 2, 4, 7, 13}
  Data = {d1, d2}
  Null = Null
  MinSize = 3
  CountMod = 65536
SYMMETRY Symmetry
INVARIANTS
  TypeOK
  ListedIsFound
  LoadBounded
PROPERTY ImplementsLossyMap
