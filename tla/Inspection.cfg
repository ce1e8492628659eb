CONSTANTS
  payload = payload
  other = other
  Resources <- MCResources
  Classes <- MCClasses
  MaxClasses = 3
  Ints = {5, 7}
  Words = 1
  Skip = 1
  MaxCode = 4
  MaxRun = 6
  Names <- MCNames
  Addresses <- MCAddresses
  Images <- MCImages
  Inventories <- MCInventories
  MaxInferred = 5
SPECIFICATION InspectionSpec
INVARIANTS
  NoRivalLoader
  GuessIsForced
  
  InferredStopsShort
  EachMappedOnce
  NothingLostSilently
