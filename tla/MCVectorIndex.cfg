SPECIFICATION Spec
CONSTANTS
  Ids = {n1, n2, n3, n4, n5}
  Vectors = {v1, v2}
  Invalid = invalid
  Stored <- MCStored
  MaxK = 2
PROPERTY ImplementsLiveIndex
