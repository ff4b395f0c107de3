SPECIFICATION Spec
CONSTANTS
  P = 769
  ELL = 4
  CHUNK = 2
  RMS_LIMB_W = 2
  Alpha = 700
  Beta = 5
  OpVec <- MCOpVec
  RopeCos <- MCRopeCos
  RopeSin <- MCRopeSin
  ExpEntry <- MCExpEntry
  Cases <- MCCases
  Open <- None
  Audited <- OneSilu
  AuditVec <- MCAuditVec
  RoundCoin <- MCRoundCoin
  Challenges <- MCChallenges
  Selected <- NoneSelected
CHECK_DEADLOCK FALSE
INVARIANTS
  AuditPinned
