\* Overlapping requests: the documented transition rule does not hold.
SPECIFICATION Spec
CONSTANTS
  Tasks    = {t1}
  Clients  = {c1, c2}
  Agents   = {ra}
  ORCH     = orch
  Absent   = Absent
  None     = None
PROPERTY LegalTransitions
