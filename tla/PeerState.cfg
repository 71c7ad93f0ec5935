\* The mirror under every order of well-typed messages from an untrusted
\* peer: heights 0..2 so a height can advance by one and by two, rounds
\* -1..1 so a round can change within a height, two blocks so two
\* conflicting proposals can be offered for the same (height, round).
CONSTANTS
  MaxHeight = 2
  MaxRound = 1
  Vals = {v1}
  Blocks = {b1, b2}
  Nil = Nil
  NoHash = NoHash
SPECIFICATION Spec
INVARIANT TypeOK
INVARIANT MirrorIsMaxAnnounced
INVARIANT MirrorHoldsFirstProposal
