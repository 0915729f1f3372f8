SPECIFICATION Spec
CONSTANTS
  Controllers = {v1}
  Others = {o1}
  Names = {phones, sport}
  AppLaunch = AppLaunch
  NoController = NoController
  MaxEvents = 6
INVARIANTS
  RemovedIsGone
