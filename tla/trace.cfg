SPECIFICATION Spec
CONSTANTS
  Workers = {w1, w2, w3}
  Clients = {c1, c2}
  Hand = {h1}
  NumStages = 2
  MaxRequests = 3
SYMMETRY Symmetry
CHECK_DEADLOCK FALSE
INVARIANTS EvidenceIsWhole NoTraceForgotten ServingIsOwned
