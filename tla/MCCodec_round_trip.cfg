SPECIFICATION ValuesSpec
CONSTANTS
  Cases <- MCCases
  Bits <- MCBits
  IsText <- MCIsText
  Alphabet = {0, 1, 2, 64, 127, 128, 195}
  MaxFeed = 3
  ValTypes <- MCTypes
  Vals <- MCVals
  Jsons <- MCJsons
  Depth <- MCDepth
  Chars = {0, 65, 66, 67}
  Held <- MCHeld
  Handles = {0, 17, 31}
  Entries <- MCEntries
  Width <- MCWidth
  Safe = 6
CHECK_DEADLOCK FALSE
INVARIANTS
  RoundTrip
  ReadIsWellTyped
  LoweredFits
  TypedBackArrives
