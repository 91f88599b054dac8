SPECIFICATION Spec
CONSTANTS
  a1 = a1
  a2 = a2
  s1 = s1
  s2 = s2
  Addr = {a1, a2}
  Slot = {s1, s2}
  ArbosAccount = a1
  VersionSlot = s1
  NumTx = 3
  MaxAttempts = 2
  Modes <- MCModes
  Unproven <- MCUnproven
  Parents <- MCParents
  Posts <- MCPosts
  Outcomes <- MCOutcomes
  NitroOutcome <- MCNitroOutcome
CONSTRAINT MCFollowed
ACTION_CONSTRAINTS MCRecorded MCCompared
INVARIANTS
  VerdictSound
  NoFalseAlarm
  VectorSound
  FixtureAnswersReads
CHECK_DEADLOCK FALSE
