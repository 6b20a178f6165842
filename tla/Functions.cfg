SPECIFICATION Spec
INVARIANTS  SentAsMeant  ArchiveIsSource OverlayConsistent
INVARIANTS HarnessDecides ViewHolds  
CHECK_DEADLOCK FALSE
