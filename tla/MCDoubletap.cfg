CONSTANTS
  Window = 2
  Interval = 1
  SampleLimit = 4
  JitterShare = 4
  Events = {"ak47", "awp", "knife", "other"}
  Consumed = {"ak47", "awp", "knife"}
  MaxDepth = 2
  Weapons = {"ak47", "awp"}
  Others = {"knife"}
SPECIFICATION Spec
INVARIANTS
  HandlesItsOwn
  PunishedOnSoundConnection
  VetoHasCause
