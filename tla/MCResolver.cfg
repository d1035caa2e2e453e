SPECIFICATION FairSpec
CONSTANTS
  Address <- MCAddress
  CatchAll <- MCCatchAll
  Contents <- MCContents
  Backend = {b1}
  Kinds = {"text", "mysqlplain", "mysqlsimplepdns", "mysqlpdns", "postgresql", "oracle", "ldap"}
  Acting <- MCActing
  MaxEdits = 2
  MaxStarts = 2
INVARIANTS
  TypeOK
  CatchAllLast
  OnlyUnknownPurged
PROPERTIES
  BrokenKeepsOld
  ImplementsDirectory
  Reconnects
  RereadUnlessStuck
