\* The instances are in MCIntelligence
CONSTANTS
  person = person
  issue = issue

SPECIFICATION Spec
INVARIANTS
  InsightsFollowHistory
  PortfolioAgrees
  ChangesReported
  StatementsFaithful
PROPERTIES
  LifecycleFollowsHistory
  DecisionsSound
\* the mentions and the clock are bounded, and each service answers once
CHECK_DEADLOCK FALSE
