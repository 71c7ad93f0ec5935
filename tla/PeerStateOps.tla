------------------------------ MODULE PeerStateOps -----------------------------
(***************************************************************************)
(* The consensus reactor's mirror of one remote peer: PeerState and its    *)
(* PeerRoundState (consensus/reactor.go, here src/blockchain/headerchain.go *)
(* lines 731-869, and the NewRoundStep handler, lines 351-399).  Every      *)
(* public method takes ps.mtx for its whole body, so each is one atomic     *)
(* step here; the mutex and the threads that call these methods are        *)
(* modelled in ConsensusReactor.                                           *)
(*                                                                         *)
(* This module holds the constants, the types and the methods as operators *)
(* on a PeerRoundState; PeerState and ConsensusReactor use them.           *)
(***************************************************************************)
EXTENDS Integers

CONSTANTS
  MaxHeight,  \* greatest height a message can carry
  MaxRound,   \* greatest round a message can carry
  Vals,       \* validator indices of the vote bit arrays
  Blocks,     \* hashes of proposal block headers
  Nil,        \* a nil *BitArray, and "no proposal offered yet" for the ghost
  NoHash      \* the zero cmn.Hash{}

ASSUME ConstantsAssumption ==
  /\ MaxHeight \in Nat
  /\ MaxRound \in Nat
  /\ NoHash \notin Blocks

Heights == 0..MaxHeight
Rounds == -1..MaxRound

\* cstypes.RoundStepType: NewHeight = 1 ... Commit = 8; a fresh
\* PeerRoundState has the zero step 0.
RoundStepNewHeight == 1
RoundStepCommit == 8
Steps == RoundStepNewHeight..RoundStepCommit

\* types.VoteTypePrevote and types.VoteTypePrecommit; 3 stands for any
\* other byte a HasVote message may carry.
VoteTypePrevote == 1
VoteTypePrecommit == 2
VoteTypes == {VoteTypePrevote, VoteTypePrecommit, 3}
IsVoteTypeValid(t) == t \in {VoteTypePrevote, VoteTypePrecommit}

\* A *cmn.BitArray is nil or the set of indices whose bit is set.
BitArrays == {Nil} \cup SUBSET Vals

PeerRoundStates ==
  [Height: Heights, Round: Rounds, Step: 0..RoundStepCommit,
   Proposal: BOOLEAN, ProposalBlockHeader: Blocks \cup {NoHash},
   ProposalPOLRound: Rounds, ProposalPOL: BitArrays,
   Prevotes: BitArrays, Precommits: BitArrays,
   LastCommitRound: Rounds, LastCommit: BitArrays,
   CatchupCommitRound: Rounds, CatchupCommit: BitArrays]

NewRoundStepMessages ==
  [Height: Heights, Round: 0..MaxRound, Step: Steps, LastCommitRound: Rounds]

\* A *types.Proposal, as far as the mirror reads it.
Proposals ==
  [Height: Heights, Round: 0..MaxRound, POLRound: Rounds, Block: Blocks]

HasVoteMessages ==
  [Height: Heights, Round: 0..MaxRound, Type: VoteTypes, Index: Vals]

\* Nil is neither a bit array nor a proposal.
ASSUME NilAssumption ==
  /\ \A s \in SUBSET Vals : s # Nil
  /\ \A prop \in Proposals : prop # Nil

\* NewPeerState: heights and rounds start at 0 / -1, every pointer nil.
NewPeerState ==
  [Height |-> 0, Round |-> -1, Step |-> 0,
   Proposal |-> FALSE, ProposalBlockHeader |-> NoHash,
   ProposalPOLRound |-> -1, ProposalPOL |-> Nil,
   Prevotes |-> Nil, Precommits |-> Nil,
   LastCommitRound |-> -1, LastCommit |-> Nil,
   CatchupCommitRound |-> -1, CatchupCommit |-> Nil]

\* The <<height, round, step>> of a round state or a message, and the
\* lexicographic order of the spec (section 3) on such triples.
HRS(p) == <<p.Height, p.Round, p.Step>>
LexLess(a, b) ==
  \/ a[1] < b[1]
  \/ a[1] = b[1] /\ a[2] < b[2]
  \/ a[1] = b[1] /\ a[2] = b[2] /\ a[3] < b[3]

\* Two round states (or a round state and a message) at the same (H, R).
SameHR(p, q) == p.Height = q.Height /\ p.Round = q.Round

-----------------------------------------------------------------------------
(* Operations on a PeerRoundState p, each returning the new value.          *)

\* CompareHRS: the lexicographic order on (height, round, step).
CompareHRS(h1, r1, s1, h2, r2, s2) ==
  IF h1 # h2 THEN (IF h1 < h2 THEN -1 ELSE 1)
  ELSE IF r1 # r2 THEN (IF r1 < r2 THEN -1 ELSE 1)
  ELSE IF s1 # s2 THEN (IF s1 < s2 THEN -1 ELSE 1)
  ELSE 0

\* The handler without its early return (lines 354-357).
IsStaleRoundStepNoReturn(p, msg) == FALSE

\* Whether the handler returns early: the message is a duplicate or older.
IsStaleRoundStep(p, msg) ==
  CompareHRS(msg.Height, msg.Round, msg.Step, p.Height, p.Round, p.Step) <= 0

\* The first IF of the body (lines 371-379): a new (height, round) forgets
\* the proposal and the votes of the old one.
ClearRound(p, msg) ==
  LET moved == [p EXCEPT !.Height = msg.Height, !.Round = msg.Round,
                         !.Step = msg.Step]
  IN IF p.Height # msg.Height \/ p.Round # msg.Round
     THEN [moved EXCEPT !.Proposal = FALSE, !.ProposalBlockHeader = NoHash,
                        !.ProposalPOLRound = -1, !.ProposalPOL = Nil,
                        !.Prevotes = Nil, !.Precommits = Nil]
     ELSE moved

\* ApplyNewRoundStep recording the round before the last commit's.
ApplyNewRoundStepLcrOffByOne(p, msg) ==
  LET c == ClearRound(p, msg)
  IN [c EXCEPT !.LastCommitRound = msg.LastCommitRound - 1,
               !.LastCommit = Nil, !.CatchupCommitRound = -1,
               !.CatchupCommit = Nil]

\* ApplyNewRoundStep without the assignment of the new round.
ApplyNewRoundStepNoRound(p, msg) ==
  LET c == [ClearRound(p, msg) EXCEPT !.Round = p.Round]
  IN [c EXCEPT !.LastCommitRound = msg.LastCommitRound,
               !.LastCommit = Nil, !.CatchupCommitRound = -1,
               !.CatchupCommit = Nil]

\* The body of ReceiveNewRoundStep after the early return.  The second and
\* third IFs (lines 380 and 387) compare psHeight, a *cmn.BigInt of the
\* mirror, with `==` / `!=` against msg.Height, freshly decoded: two
\* distinct pointers.  So the catch-up restore never runs, and the
\* "height changed" branch runs on every message, reading Precommits after
\* the first IF may have cleared them.
ApplyNewRoundStep(p, msg) ==
  LET c == ClearRound(p, msg)
  IN [c EXCEPT
        !.LastCommitRound = msg.LastCommitRound,
        !.LastCommit = IF p.Height + 1 = msg.Height
                          /\ p.Round = msg.LastCommitRound
                       THEN c.Precommits ELSE Nil,
        !.CatchupCommitRound = -1, !.CatchupCommit = Nil]

\* SetHasProposal without the (height, round) check.
SetHasProposalNoHR(p, prop) ==
  IF p.Proposal
  THEN p
  ELSE [p EXCEPT !.Proposal = TRUE, !.ProposalBlockHeader = prop.Block,
                 !.ProposalPOLRound = prop.POLRound, !.ProposalPOL = Nil]

\* SetHasProposal without the "already has a proposal" early return.
SetHasProposalNoDup(p, prop) ==
  IF p.Height # prop.Height \/ p.Round # prop.Round
  THEN p
  ELSE [p EXCEPT !.Proposal = TRUE, !.ProposalBlockHeader = prop.Block,
                 !.ProposalPOLRound = prop.POLRound, !.ProposalPOL = Nil]

\* SetHasProposal: record the first proposal for the mirror's (H, R).
SetHasProposal(p, prop) ==
  IF p.Height # prop.Height \/ p.Round # prop.Round \/ p.Proposal
  THEN p
  ELSE [p EXCEPT !.Proposal = TRUE, !.ProposalBlockHeader = prop.Block,
                 !.ProposalPOLRound = prop.POLRound, !.ProposalPOL = Nil]

\* getVoteBitArray: the name of the field holding the bit array for votes
\* of type t at (h, r), or "none" where the code returns nil.  (The
\* CatchupCommit branch is commented out in the code.)
VoteBitArray(p, h, r, t) ==
  IF ~IsVoteTypeValid(t) THEN "none"
  ELSE IF p.Height = h /\ p.Round = r
       THEN IF t = VoteTypePrevote THEN "Prevotes" ELSE "Precommits"
  ELSE IF p.Height = h /\ p.ProposalPOLRound = r
       THEN IF t = VoteTypePrevote THEN "ProposalPOL" ELSE "none"
  ELSE IF p.Height = h + 1 /\ p.LastCommitRound = r
       THEN IF t = VoteTypePrecommit THEN "LastCommit" ELSE "none"
  ELSE "none"

\* setHasVote: set bit `index` of that bit array; a nil array is left nil.
SetHasVoteIn(p, h, r, t, index) ==
  LET f == VoteBitArray(p, h, r, t) IN
  IF f = "none" THEN p
  ELSE IF p[f] = Nil THEN p
  ELSE [p EXCEPT ![f] = @ \cup {index}]

\* ApplyHasVoteMessage: only a vote at the mirror's height is applied.
ApplyHasVote(p, msg) ==
  IF p.Height # msg.Height THEN p
  ELSE SetHasVoteIn(p, msg.Height, msg.Round, msg.Type, msg.Index)

=============================================================================
