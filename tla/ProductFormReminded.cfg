SPECIFICATION Spec
CONSTANTS
  phones = phones
  laptops = laptops
  Names = {phones, laptops}
  Lists <- ListsOfCategories
  Days = {0, 8}
  Today = 0
  MaxRequests = 1
  Empty = Empty
INVARIANTS
  RemindedInTime
CHECK_DEADLOCK FALSE
