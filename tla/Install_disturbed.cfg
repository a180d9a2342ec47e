SPECIFICATION Spec
CONSTANTS
  Order <- MCOrder
  Declarations <- MCAny
  Commit <- MCCommit
  Branched <- MCBranched
  RevCommit <- MCRevCommit
  Signer <- MCSigner
  None = None
  Unreadable = Unreadable
  RequireProvenance = FALSE
  AllowMissingGh = FALSE
  MaxDisturbances = 2
INVARIANTS TypeOK LockIsOneInstall LockedIsVerified
PROPERTIES LockedCommitsStand BuildReadsLocked
