SPECIFICATION Spec
CONSTANTS
  p1 = p1
  long1 = long1
  short1 = short1
  c1 = c1
  c2 = c2
  NotGiven = NotGiven
  NoClient = NoClient
  Positions <- OnePosition
  LegsOf <- TwoLegs
  Side <- Sides
  Qty <- Sizes
  Prices = {1, 2}
  Quantities = {0, 1}
  Clients = {c1, c2}
  MaxCloses = 3
  MaxFaults = 1
INVARIANT TypeOK
INVARIANT LotsConserved
INVARIANT StatusIsTrue
INVARIANT RealizedIsSumAlone
INVARIANT AuditIsTrue
CHECK_DEADLOCK FALSE
