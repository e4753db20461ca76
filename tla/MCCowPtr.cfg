CONSTANTS
  Thread = {t1, t2}
  Handle = {h1, h2, h3}
  Body = {b1, b2, b3}
  Value = {v1, v2}
  Null = Null
SPECIFICATION FairSpec
INVARIANTS Inv NoDataRace
PROPERTIES ValueSemantics Progress
