\* NewRoundStep messages within one height, against the spec's rule that
\* only a new height moves the last commit (same bounds as PeerState.cfg).
CONSTANTS
  MaxHeight = 2
  MaxRound = 1
  Vals = {v1}
  Blocks = {b1, b2}
  Nil = Nil
  NoHash = NoHash
SPECIFICATION Spec
PROPERTY LastCommitOnlyOnNewHeight
