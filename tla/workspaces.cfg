CONSTANTS
  Slices = {"A", "B"}
  Role <- MCRole
  SidesOf <- MCSidesOf
  MaxSaves = 2
  MaxCommits = 2
  MaxCrashes = 1
SPECIFICATION Spec
CHECK_DEADLOCK FALSE
INVARIANTS
  CommittedIsKept
  SavedStepsAreCommitted
  NothingCutIsCommitted
