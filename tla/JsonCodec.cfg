SPECIFICATION Spec
CONSTANTS
  Atoms <- MCAtoms
  Strings <- MCStrings
  Width <- MCWidth
  Units <- MCUnits
  NestingLimit = 2
  INT_MAX = 12
  MaxText = 4
  MaxDepth = 4
  MaxValue = 9
  MaxUnits = 2
\* A caller that has given all it may stops.
CHECK_DEADLOCK FALSE
INVARIANTS ParsesGrammar RoundTrip PrintFits DecodedFits StringsDecoded
