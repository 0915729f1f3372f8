SPECIFICATION Spec
CONSTANTS
  phones = phones
  laptops = laptops
  Names = {phones, laptops}
  Lists <- ListsOfCategories
  Days = {0, 8}
  Today = 0
  MaxRequests = 1
  Empty = Empty
INVARIANTS
  TypeOK
  TrapsOnlyIfShrunk
  
PROPERTY DoneKeepsSelection
CHECK_DEADLOCK FALSE
