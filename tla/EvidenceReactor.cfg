\* One peer, two evidence items so the cursor has a successor to move to and
\* an earlier item to restart from, heights 1..2 so the peer can be behind
\* and then catch up, ages in blocks above 0 skipped.
CONSTANTS
  NumEv = 2
  MaxHeight = 2
  MaxTime = 2
  MaxAgeNumBlocks = 0
  MaxAgeDuration = 1
  NoState = NoState
SPECIFICATION Spec
INVARIANT TypeOK
INVARIANT NeverAheadOfPeer
PROPERTY EvidenceEventuallySent
\* The routine returns once the peer or the reactor stops, and every
\* collaborator stops at its bound.
CHECK_DEADLOCK FALSE
