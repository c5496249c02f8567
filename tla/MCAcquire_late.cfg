SPECIFICATION FrontierSpec
CONSTANTS
  ec = ec
  ed = ed
  ee = ee
  ef = ef
  s1 = s1
  s2 = s2
  s3 = s3
  Users <- ThreeEdts
  Requests <- TwoSlots
  RequestOf <- TwoEdt
  Acquires <- LateWriters
  Sigs <- ThreeSigs
  Origins = {"local", "moved"}
INVARIANT
  SingleWriter
CHECK_DEADLOCK FALSE
