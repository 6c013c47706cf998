CONSTANTS
  FirstCap = 10
  MaxPatNodes = 11
  MaxChildren = 3
  FirstChar <- MCFirstChar
  Inputs <- MCInputs
  SemaCalls <- MCSemaCalls
  Meaning <- MCMeaning
  Envs <- MCEnvs
SPECIFICATION Spec
INVARIANTS GraphSound ResultSound ReportSound
PROPERTIES OeuphEnds
