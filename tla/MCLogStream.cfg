SPECIFICATION Spec
CONSTANTS
  c1 = c1
  c2 = c2
  Clients <- MCClients
  None = None
  Capacity = 2
  ChunkBytes = 2
  PageBytes = 3
  MaxLength = 2
  MaxText = 9
INVARIANTS
  TypeOK
  SentHasNoGap
SYMMETRY Symmetry
