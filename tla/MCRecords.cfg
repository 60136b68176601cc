SPECIFICATION Spec
CONSTANTS
  Lower <- MCLower
  Digits = {"1", "2", "3", "9"}
  ToLower <- MCToLower
  Other = {"$"}
  MaxRFC952 = 3
  MaxRFC1123 = 6
  Panic = Panic
  ParseIP <- MCParseIP
  States <- MCStates
  MasterLists <- MCMasterLists
  Sources <- MCSources
  Spelling <- MCSpelling
  Mangled <- MCMangled
  slaveIDTail <- MCslaveIDTail
  hostToIP4 <- MChostToIP4
  hashString <- MChash
  MasterN <- MCMasterN
  NoAddr = NoAddr
  NameChars = {"a", "1", "B", "_", "$"}
  MaxName = 6
  Names <- MCNames
  MaxLens = {1, 2, 3}
INVARIANTS TypeOK LabelsClean MastersNumbered 
INVARIANTS EnumerationExact OwnAddress 
CHECK_DEADLOCK FALSE
