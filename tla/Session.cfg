SPECIFICATION FairSpecInOrder
CONSTANTS
  Requests = {r1, r2}
  Users = {ana, bo}
  Names = {phones}
  NoRequest = NoRequest
  NoUser = NoUser
  Absent = Absent
  MaxWrites = 2
INVARIANTS
  TypeOK
  ProfileInOwnQueue
  FollowsAuth
  WindowFitsSession
  TrapsOnlyIfForced
  AccountHasProfile
  AnsweredOnce
  LastWriteWins
PROPERTIES
  TapSettles
