\* Every vault method against a user, failing saves and crashes.
SPECIFICATION Spec
CONSTANTS
  Creds = {c1, c2}
  MaxCount = 2
  Bypass = FALSE
  Reopens = FALSE
  None = None
SYMMETRY Symmetry
INVARIANTS TypeOK AssertionCountFresh RegisteredKept ExcludeHonoured ConsentBehindUse
PROPERTIES ImplementsLedger
