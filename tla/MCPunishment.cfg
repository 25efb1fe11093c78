CONSTANTS
  Slots = {s1, s2}
  Players = {p1, p2}
  NoPlayer = NoPlayer
  Detections = {nulls, invalidCvar, doubletap}
  KickOnly = {nulls}
  MayKickOnly = {invalidCvar}
  Vetoable = {doubletap}
SYMMETRY Symmetry
SPECIFICATION Spec
INVARIANTS
  LevelMatchesCommands
  EscalatesOnly
  NobodyInherits
PROPERTIES
  ForgottenOnlyWithCause
