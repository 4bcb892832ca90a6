SPECIFICATION Spec
CONSTANTS
  Keys <- MCKeys
  House <- MCHouse
  ListPages <- MCListPages
  DetailPages <- MCDetailPages
INVARIANTS
  TypeOK
  OwnFactsOnly
  FlagTellsDetail
PROPERTIES
  StoredOnlyGrows
