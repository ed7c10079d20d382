\* Every struct of every header: what the generator prints, and what poke does
\* with it for lists that are too short, right and too long.
CONSTANTS
  Headers <- MCHeaders
  Capacity = 500
  Committed <- Structs
SPECIFICATION Spec
INVARIANTS TypeOK OwnRows WellLaidOut InBounds RoundTrip UpToDate
\* The generator stops after the last struct of its header.
CHECK_DEADLOCK FALSE
