\* No faults: a late approval of an earlier draft accepts a draft nobody reviewed.
SPECIFICATION Spec
CONSTANTS
  Critics   <- CriticAgents
  Reviewers <- ReviewAgents
  Tiers     <- ResearchOnly
  MaxFaults = 0
PROPERTY ApprovedAsReviewed
CHECK_DEADLOCK FALSE
