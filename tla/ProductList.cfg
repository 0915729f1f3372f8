SPECIFICATION FairSpec
CONSTANTS
  phone = phone
  laptop = laptop
  desk = desk
  ana = ana
  bo = bo
  Documents = {phone, laptop, desk}
  Users = {ana, bo}
  Owner <- OwnerOf
  MaxCalls = 3
INVARIANTS
  TypeOK
  ShowsMine
PROPERTIES
  ListComes
CHECK_DEADLOCK FALSE
