SPECIFICATION FairSpec
CONSTANTS
  Presses = {p1}
  Forms = {f1}
  Images = {i1}
  Users = {ana, bo}
  NoImage = NoImage
  NoForm = NoForm
  NoUser = NoUser
  Absent = Absent
PROPERTIES
  EveryPressSettles
  PendingGoesOut
