\* No fault at all: two uploads of one tender, and two deliveries of its job.
CONSTANTS
  r1 = r1
  r2 = r2
  t1 = t1
  Requests = {r1, r2}
  Tenders = {t1}
  Malformed = malformed
  Manifest <- MCManifest
  Healthy = {r2}
  ArchiveFaults = {}
  WorkerFaults = {}
  MaxDeliveries = 2
  MaxPairs = 1
  SavedTypes = {"DCE"}
  Nothing = nothing
SPECIFICATION FairSpec
PROPERTY AcceptedTendersComplete
CHECK_DEADLOCK FALSE
