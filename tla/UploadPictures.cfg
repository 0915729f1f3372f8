SPECIFICATION Spec
CONSTANTS
  Presses = {p1, p2}
  Forms = {f1, f2}
  Images = {i1}
  Users = {ana}
  NoImage = NoImage
  NoForm = NoForm
  NoUser = NoUser
  Absent = Absent
SYMMETRY Symmetry
INVARIANTS
  TypeOK
  ImagesMatchDocument
  PictureIsTheOneShown
  ToldOnlyIfSaved
