SPECIFICATION BuilderSpec
CONSTANTS
  NoQty = NoQty
  NoMark = NoMark
  Nothing = Nothing
  Expiries <- TwoExpiries
  Marks <- TwoChains
  Sides = {"buy", "sell"}
  Rights = {"C", "P"}
  QtyOf <- Quantities
  MaxLegs = 1
INVARIANT LegsKeepTheirExpiry
CHECK_DEADLOCK FALSE
