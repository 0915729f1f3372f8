SPECIFICATION Spec
CONSTANTS
  Presses = {p1, p2}
  Forms = {f1}
  Images = {i1}
  Users = {ana, bo}
  NoImage = NoImage
  NoForm = NoForm
  NoUser = NoUser
  Absent = Absent
SYMMETRY Symmetry
INVARIANTS
  OwnerIsPresser
  SentIsSaved
  WaitsInOnePlace
PROPERTIES
  ImplementsSaving
  ImplementsClient
  DocumentsStay
