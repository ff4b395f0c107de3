SPECIFICATION Spec
CONSTANTS
  P = 769
  ELL = 4
  CHUNK = 2
  RMS_LIMB_W = 2
  Alpha = 700
  Beta = 5
  OpVec <- MCOpVec
  RopeCos <- MCRopeCos
  RopeSin <- MCRopeSin
  ExpEntry <- MCExpEntry
  Cases <- UpCases
  Open <- None
  Audited <- None
  AuditVec <- MCAuditVec
  RoundCoin <- MCRoundCoin
  Challenges <- MCChallenges
  Selected <- NoUpSelected
CHECK_DEADLOCK FALSE
INVARIANTS
  Complete

