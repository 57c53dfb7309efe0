\* The store of an older firmware is migrated; no save fails.
CONSTANTS
  Default = d
  Configs = {d, c1, c2}
  Off = off
  Faults = {}
  MaxGeneration = 5
SPECIFICATION ConfigSpec
INVARIANT UpgradeKeepsSettings
