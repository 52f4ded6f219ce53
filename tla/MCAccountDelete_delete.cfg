SPECIFICATION Spec
CONSTANTS
  a1 = a1
  a2 = a2
  h1 = h1
  Accounts <- AccountSet
  Hashes = {h1}
  Attached <- Attachments
  Recent <- Recent1
  Prefetched <- Stored2
  NoMarker = NoMarker
  MaxRequests = 3
  MaxCrashes = 1
  MaxFaults = 1
CHECK_DEADLOCK FALSE
INVARIANTS CascadeIsLast MarkerCoversDeletion NoOrphanBlob
PROPERTIES OrphansEnd DeletionFinishes
