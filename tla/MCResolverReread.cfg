SPECIFICATION FairSpec
CONSTANTS
  Address <- MCAddress
  CatchAll <- MCCatchAll
  Contents <- MCContents
  Backend = {b1}
  Kinds = {"text"}
  Acting <- MCActing
  MaxEdits = 2
  MaxStarts = 2
PROPERTIES
  Reread
