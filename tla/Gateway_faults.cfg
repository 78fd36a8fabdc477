\* Three calls of any kind, which MinIO, Google, the disk and the client may fail.
SPECIFICATION FairSpec
CONSTANTS
  c1 = c1
  c2 = c2
  c3 = c3
  Calls <- MCCalls
  Files <- MCFiles
  BucketOf <- MCBucketOf
  Template = "template"
  Mercuriale = "mercuriale"
  Sources <- MCSources
  Workloads <- MCWorkloads
  Nothing = Nothing
  Faults = {"storage", "late", "cancel", "google", "lateGoogle", "disk"}
INVARIANTS
  TypeOK
  UploadsFailWithCause
  UploadsTakeEffectInOrder
  DocumentsUseCurrentTemplate
  ReturnedDocumentsAreReady
PROPERTY
  PricesAreAnswered
CHECK_DEADLOCK FALSE
