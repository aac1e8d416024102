SPECIFICATION LiveSpec
CONSTANTS
  Tasks = {t1, t2}
  Fingerprints = {f1}
  o1 = o1
  o2 = o2
  Objects = {o1, o2}
  Payloads <- MCPayloads
  Posix = TRUE
  ObjectBytes = 2
  ManifestBytes = 3
  EntryBytes = 1
  PointerBytes = 1
  MaxBytes = 11
  Unknown = Unknown
  NoPointer = NoPointer
  NoOp = NoOp
  MutableFile = MutableFile
  Stamps = {1}
  Revisions = {0, 1, 2}
  MaxOps = 2
  MaxCrashes = 1
INVARIANTS QuotaAccounted IndexClosed
PROPERTIES ImplementsLog OperationsEnd
CHECK_DEADLOCK FALSE
