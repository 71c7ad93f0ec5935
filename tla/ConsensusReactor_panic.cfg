\* The reactor, its receive dispatcher and the gossip routine for one peer
\* that sends every kind of message.  Heights 1..2 let either side move to a
\* new height, the mirror change (height, round) between the gossip
\* routine's snapshot and its SetHasProposal, and the peer fall behind; a
\* single round per height keeps the run small (round changes within a
\* height are explored by PeerState).  NewHeight and Propose are the steps
\* that matter to the proposal gossip.
CONSTANTS
  MaxHeight = 2
  MaxRound = 0
  Vals = {v1}
  Blocks = {b1}
  Nil = Nil
  NoHash = NoHash
  StepSet = {1, 3}
  PeerSendsVotes = TRUE
SPECIFICATION Spec
\* The process stops at a panic, and every actor stops at its bounds.
CHECK_DEADLOCK FALSE
INVARIANT NoGossipPanic
