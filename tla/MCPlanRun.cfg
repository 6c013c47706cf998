SPECIFICATION RSpec
CONSTANTS
  Plans <- AnyPlans
  Manifests <- MCManifests
CHECK_DEADLOCK FALSE
INVARIANTS OrderInPass FinishedRun
PROPERTIES PassesAreOrders RunEnds
