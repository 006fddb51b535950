\* Small widths: a digit has four values, a number sixteen.  A description
\* that was refused, or converted twice, is at its end.
SPECIFICATION ConverterSpec
CONSTANTS
  Offer <- SomeOffers
  kUintModulus = 16
  kHexBase = 4
  MaxHops = 2
INVARIANTS
  Faithful
  Stable
CHECK_DEADLOCK FALSE
