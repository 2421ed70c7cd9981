SPECIFICATION FrontendSpec
CONSTANTS
  Dumps <- SmallDumps
  Listings <- SmallListings
INVARIANTS
  OneEntryPerFunction
  CallsStayInFunction
  MarksDelimitFunctions
  ListingComplete
  NeverPanics
  BlocksSound
  BlocksDisjoint
  OnlyOpenTailLost
  SuccessorsAreEntries
  FunctionsAreFound
PROPERTY BlocksAreFinal
