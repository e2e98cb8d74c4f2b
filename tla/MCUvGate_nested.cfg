\* Three dispatches that nest; every kind of webauthn.dll.
SPECIFICATION Spec
CONSTANTS
  Dispatches = {d1, d2, d3}
  Buffers = {b1, b2, b3}
  Null = Null
SYMMETRY Symmetry
INVARIANTS TypeOK ResponsesFreed OneDialog VerifiedUserNotRefused AcceptedOnlyVerified
