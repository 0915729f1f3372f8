SPECIFICATION Spec
CONSTANTS
  Controllers = {v1, v2}
  Others = {o1}
  Names = {phones}
  AppLaunch = AppLaunch
  NoController = NoController
  MaxEvents = 6
INVARIANTS
  TypeOK
  NoDuplicates
  QuietMeansInStep
PROPERTIES
  TrapsOnlyWhenStale
VIEW WithoutHistory
