\* r1 meets every fault, r2 uploads the same tender and meets none; two deliveries
\* of a job may overlap.  With SavedTypes = {"DCE"} no run gets past its read; here
\* each one may, and "db" and "parse" let each one fail as it does without a
\* MEMOIRE, so that the behaviours of the code are among those of this instance.
CONSTANTS
  r1 = r1
  r2 = r2
  t1 = t1
  Requests = {r1, r2}
  Tenders = {t1}
  Malformed = malformed
  Manifest <- MCManifest
  Healthy = {r2}
  ArchiveFaults = {"db", "doubt", "missing", "storage", "late", "broker", "cancel", "crash"}
  WorkerFaults = {"db", "doubt", "parse", "cancel", "crash"}
  MaxDeliveries = 2
  MaxPairs = 0
  SavedTypes = {"DCE", "MEMOIRE"}
  Nothing = nothing
SPECIFICATION FairSpec
INVARIANTS
  HealthyUploadsIngest
  BuriedJobsShowOutcome
PROPERTIES
  ImplementsIngestion
  TendersGetAnOutcome
CHECK_DEADLOCK FALSE
