SPECIFICATION FairSpec
CONSTANTS
  Addr <- MCAddr
  Me <- MCMe
  Uris <- MCUris
  Configs <- MCConfigs
  Records <- MCRecords
  Starts <- MCStarts
  Strays = {"alien"}
  MaxElections = 3
  MaxChanges = 3
  MaxTimeouts = 1
  NoSet = "none"
  Nobody = "nobody"
INVARIANTS TypeOK OnePrimary SetNameKnown SingleHasServer OneStreamPerNode ChosenHasNode NoSuspectReused
PROPERTIES NewestPrimary OnlyAnswersRemove Recovers
