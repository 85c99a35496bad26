SPECIFICATION FairSpec
CONSTANTS
  Workers = {w1, w2}
  MaxRows = 5
  Small = 1
  Medium = 3
  ChunkSize = 2
INVARIANTS TypeOK EveryRowOnce InFileOrder
PROPERTIES ParsingEnds
CHECK_DEADLOCK FALSE
