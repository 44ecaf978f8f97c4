CONSTANTS
  Programs <- MCPrograms
  Accelerators = {1, 2}
SPECIFICATION Spec
INVARIANTS
  DecodedRight
  PropagationExact
