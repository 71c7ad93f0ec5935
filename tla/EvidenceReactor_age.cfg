\* Evidence whose age in time exceeds MaxAgeDuration = 1 ns (same bounds
\* as EvidenceReactor.cfg).
CONSTANTS
  NumEv = 2
  MaxHeight = 2
  MaxTime = 2
  MaxAgeNumBlocks = 0
  MaxAgeDuration = 1
  NoState = NoState
SPECIFICATION Spec
INVARIANT NeverSendsExpired
\* The routine returns once the peer or the reactor stops, and every
\* collaborator stops at its bound.
CHECK_DEADLOCK FALSE
