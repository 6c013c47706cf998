SPECIFICATION PSpec
CONSTANTS
  MaxPlan = 3
  KernelManifest <- MCKernels
  Rulesets <- MCRulesets
  Wildcard <- MCWildcard
  Patterns <- MCPatterns
  Labels <- TwoWords
  PipelineNames <- TwoWords
  NoPlan = NoPlan
  NoPreference = NoPreference
  Plans <- NoPlans
  Manifests <- MCManifests
  Echo <- MCEcho
  Unclean <- MCUnclean
  ManifestFiles <- MCManifestFiles
CHECK_DEADLOCK FALSE
INVARIANTS PlanSound BarrierRespected SealedNeverStuck CheckVerdict ManifestsRead
