SPECIFICATION Spec
CONSTANTS
  m1 = m1
  m2 = m2
  None = None
  Jobs <- SmallJobs
  OldFiles <- SmallOldFiles
  RootPolicies <- AnyRoot
  StatementPolicies <- AnyStatement
  IdentityPolicies <- AnyIdentity
  Versions <- TwoVersions
INVARIANTS
  CoinsBindCommitments
  HonestIsAccepted
  AcceptedIsTrusted
CHECK_DEADLOCK FALSE
