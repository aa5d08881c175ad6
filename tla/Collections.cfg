SPECIFICATION Spec
CONSTANTS
  Items = {a, b, c, d, e}
  PageSize = 2
  MaxStates = 4
SYMMETRY Symmetry
INVARIANTS LostOnlyByRemoval TwiceOnlyByInsertion
