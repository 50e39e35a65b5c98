SPECIFICATION FairSpec
CONSTANTS
  Launcher = {l1, l2}
  Role = {r1, r2}
  CampaignId = {c1, c2, c3}
  None = None
  MaxFailures = 1
INVARIANTS TypeOK OrphanNeverSpends LiveIsComplete TrustEarnedOnce NoDuplicates
PROPERTY EventuallyLive
