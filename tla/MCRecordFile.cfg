CONSTANTS
  p1 = p1
  p2 = p2
  Instances = {p1, p2}
  PlaceValues = {1, 3}
  MaxScore = 4
  DiskReadable = {TRUE, FALSE}
  DiskWritable = {TRUE, FALSE}
SPECIFICATION Spec
PROPERTIES
  ImplementsRecordBook
  OnlyStaleCopiesLower
