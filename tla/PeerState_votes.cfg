\* HasVote messages and SetHasVote calls for the mirror's current (height,
\* round), against the spec's rule that they set the vote's bit (same
\* bounds as PeerState.cfg).
CONSTANTS
  MaxHeight = 2
  MaxRound = 1
  Vals = {v1}
  Blocks = {b1, b2}
  Nil = Nil
  NoHash = NoHash
SPECIFICATION Spec
INVARIANT VotesRecorded
