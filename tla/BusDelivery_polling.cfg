\* Three messages, to everyone or on a topic, a LIMIT that cuts an answer short,
\* a whole second inside the run, and fair polling.
SPECIFICATION FairSpec
CONSTANTS
  pm = pm
  ra = ra
  tp = tp
  Messages   = {m1, m2, m3}
  Recipients = {pm, ra, ALL}
  Agents     = {pm}
  Topics     = {tp}
  Addresses  <- Mixed
  ALL        = ALL
  None       = None
  Limit      = 2
  Second     = 3
  MaxClock   = 4
INVARIANTS
  HandledOnce
  HandledInOrder
  OnTimeNotLost
PROPERTY OnTimeHandled
