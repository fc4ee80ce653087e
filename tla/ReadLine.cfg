SPECIFICATION Spec
CONSTANTS
  Lines = 3
  Longest = 7
  Lengths = {4, 5, 7}
INVARIANTS Unbroken LinesIntact NothingHidden
PROPERTIES EveryLineReturned
