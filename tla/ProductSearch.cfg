SPECIFICATION FairSpec
CONSTANTS
  phone = phone
  laptop = laptop
  phono = phono
  short = short
  long = long
  ana = ana
  bo = bo
  Products = {phone, laptop, phono}
  Texts = {short, long}
  Matches <- MatchesOf
  Users = {ana, bo}
  NoUser = NoUser
  Owner <- OwnerOf
  MaxAsked = 3
INVARIANTS
  TypeOK
  QuietShowsText
  RowsOfTheList
PROPERTIES
  TrapsOnlyUnanswered
  AnswersArrive
