\* Every fault, with two requests that race for both tenders.
CONSTANTS
  r1 = r1
  r2 = r2
  t1 = t1
  t2 = t2
  Requests = {r1, r2}
  Tenders = {t1, t2}
  Malformed = malformed
  Manifest <- MCManifest
  Faults = {"db", "doubt", "missing", "storage", "late", "broker", "cancel", "crash"}
SPECIFICATION FairSpec
INVARIANTS
  TypeOK
  AllOrNothing
  OneJobPerTender
  PublishedJobsAreReady
  DocumentsAreReadable
  NoOrphanObjects
PROPERTIES
  RequestsEnd
  CommittedJobsArePublished
CHECK_DEADLOCK FALSE
