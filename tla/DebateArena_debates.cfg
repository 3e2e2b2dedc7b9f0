\* A task of any tier with its critics; one fault.
SPECIFICATION FairSpec
CONSTANTS
  Critics   <- CriticAgents
  Reviewers <- ReviewAgents
  Tiers     <- AllTiers
  MaxFaults = 1
INVARIANTS
  RoundsBounded
  WorkFitsState
  AcceptedIsFinal
PROPERTIES
  ImplementsLifecycle
  EventuallyClosed
\* A closed task and empty inboxes are where a debate should stop.
CHECK_DEADLOCK FALSE
