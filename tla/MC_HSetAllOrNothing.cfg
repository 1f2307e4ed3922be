\* Violation: HSetAllOrNothing
CONSTANTS
  k1 = k1
  k2 = k2
  f1 = f1
  f2 = f2
  v1 = v1
  ptr = ptr
  jsonDoc = jsonDoc
  badDoc = badDoc
  marshalFail = marshalFail
  noTag = noTag
  noVal = noVal
  Keys <- MCKeys
  Fields = {f1}
  Vals <- MCVals
  MinInt <- MCMinInt
  MaxInt = 1
  MaxTTL = 2
  NoVal <- noVal
  BadShapes <- MCBadShapes
  TTLs = {0, 1}
  Deltas = {1}
  Objs <- MCObjs
  Marshalled <- MCMarshalled
  MarshalFail <- marshalFail
  Objects <- MCObjects
  NoTag <- noTag
  Cluster = FALSE
  Slot <- MCSlot
  Outcomes = {"reply"}
  DstKinds = {"String", "Int", "Uint64", "Bool"}
SPECIFICATION Spec
PROPERTY HSetAllOrNothing
