SPECIFICATION Spec
CONSTANTS
  Request = {r1, r2}
  Nobody = Nobody
  ByHand = ByHand
SYMMETRY Requests
INVARIANTS
  
  UnreachableCounts
