\* Two requests about one task, overlapping in every way or never.
SPECIFICATION Spec
CONSTANTS
  Tasks    = {t1}
  Clients  = {c1, c2}
  Agents   = {ra}
  ORCH     = orch
  Absent   = Absent
  None     = None
SYMMETRY Symmetry
INVARIANTS
  NoStageSkipped
  AnnouncedBeforeHeld
  AssigneeWatches
PROPERTY ImplementsLifecycle
