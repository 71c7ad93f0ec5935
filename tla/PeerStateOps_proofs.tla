-------------------------- MODULE PeerStateOps_proofs -------------------------
(***************************************************************************)
(* Lemmas on the operators of PeerStateOps, the PeerState methods: what    *)
(* each returns is a well-typed PeerRoundState, and which fields it may    *)
(* change.  PeerState_proofs and ConsensusReactor_proofs both rest on them. *)
(***************************************************************************)
EXTENDS PeerStateOps, TLAPS

\* The fields a vote-bit update may write.
BitFields == {"Prevotes", "Precommits", "ProposalPOL", "LastCommit"}

\* Two round states agree on everything but the vote bit arrays.
SameButBits(p, q) ==
  /\ q.Height = p.Height /\ q.Round = p.Round /\ q.Step = p.Step
  /\ q.Proposal = p.Proposal /\ q.ProposalBlockHeader = p.ProposalBlockHeader
  /\ q.ProposalPOLRound = p.ProposalPOLRound

\* getVoteBitArray names one of the bit-array fields, or none.
LEMMA VoteBitArrayRange ==
  ASSUME NEW p, NEW h, NEW r, NEW t
  PROVE  VoteBitArray(p, h, r, t) \in BitFields \cup {"none"}
BY DEF VoteBitArray, BitFields

\* setHasVote keeps the round state well typed and touches only a bit array.
LEMMA SetHasVoteInType ==
  ASSUME NEW p \in PeerRoundStates, NEW h, NEW r, NEW t, NEW index \in Vals
  PROVE  /\ SetHasVoteIn(p, h, r, t, index) \in PeerRoundStates
         /\ SameButBits(p, SetHasVoteIn(p, h, r, t, index))
<1> DEFINE f == VoteBitArray(p, h, r, t)
<1>1. f \in BitFields \cup {"none"}
  BY VoteBitArrayRange
<1>2. CASE f = "none" \/ p[f] = Nil
  BY <1>2 DEF SetHasVoteIn, SameButBits
<1>3. CASE f \in BitFields /\ p[f] # Nil
  <2>1. p[f] \in SUBSET Vals
    BY <1>3 DEF PeerRoundStates, BitArrays, BitFields
  <2>2. SetHasVoteIn(p, h, r, t, index) = [p EXCEPT ![f] = @ \cup {index}]
    BY <1>3 DEF SetHasVoteIn, BitFields
  <2>3. QED
    BY <1>3, <2>1, <2>2 DEF PeerRoundStates, BitArrays, BitFields, SameButBits
<1>4. QED
  BY <1>1, <1>2, <1>3

\* ApplyHasVoteMessage keeps the round state well typed, bits aside.
LEMMA ApplyHasVoteType ==
  ASSUME NEW p \in PeerRoundStates, NEW msg \in HasVoteMessages
  PROVE  /\ ApplyHasVote(p, msg) \in PeerRoundStates
         /\ SameButBits(p, ApplyHasVote(p, msg))
BY SetHasVoteInType DEF ApplyHasVote, HasVoteMessages, SameButBits

\* SetHasProposal keeps the round state well typed and its (H, R, S).
LEMMA SetHasProposalType ==
  ASSUME NEW p \in PeerRoundStates, NEW prop \in Proposals
  PROVE  /\ SetHasProposal(p, prop) \in PeerRoundStates
         /\ HRS(SetHasProposal(p, prop)) = HRS(p)
BY DEF SetHasProposal, PeerRoundStates, Proposals, BitArrays, HRS

\* Writing the last-commit fields of a round state with well-typed values.
LEMMA LastCommitUpdateType ==
  ASSUME NEW p \in PeerRoundStates, NEW r \in Rounds, NEW x \in BitArrays,
         NEW y \in Rounds, NEW z \in BitArrays
  PROVE  [p EXCEPT !.LastCommitRound = r, !.LastCommit = x,
                   !.CatchupCommitRound = y, !.CatchupCommit = z]
           \in PeerRoundStates
BY DEF PeerRoundStates

\* The first IF of the NewRoundStep body moves the mirror to the message's
\* (H, R, S); at an unchanged (H, R) it keeps the proposal fields, and at a
\* new one it has no proposal.
LEMMA ClearRoundType ==
  ASSUME NEW p \in PeerRoundStates, NEW msg \in NewRoundStepMessages
  PROVE  LET c == ClearRound(p, msg) IN
         /\ c \in PeerRoundStates
         /\ HRS(c) = HRS(msg)
         /\ SameHR(p, msg) =>
              /\ c.Proposal = p.Proposal
              /\ c.ProposalBlockHeader = p.ProposalBlockHeader
              /\ c.ProposalPOLRound = p.ProposalPOLRound
         /\ ~SameHR(p, msg) => c.Proposal = FALSE
<1> DEFINE moved == [p EXCEPT !.Height = msg.Height, !.Round = msg.Round,
                               !.Step = msg.Step]
<1>0. /\ msg.Height \in Heights /\ msg.Round \in Rounds
      /\ msg.Step \in 0..RoundStepCommit
      /\ -1 \in Rounds /\ Nil \in BitArrays /\ NoHash \in Blocks \cup {NoHash}
  BY ConstantsAssumption DEF NewRoundStepMessages, Steps, Rounds, BitArrays,
                             RoundStepNewHeight, RoundStepCommit
<1>1. /\ moved \in PeerRoundStates /\ HRS(moved) = HRS(msg)
      /\ moved.Proposal = p.Proposal
      /\ moved.ProposalBlockHeader = p.ProposalBlockHeader
      /\ moved.ProposalPOLRound = p.ProposalPOLRound
  BY <1>0 DEF PeerRoundStates, HRS
<1>2. CASE SameHR(p, msg)
  BY <1>1, <1>2 DEF ClearRound, SameHR
<1>3. CASE ~SameHR(p, msg)
  BY <1>0, <1>1, <1>3 DEF ClearRound, SameHR, PeerRoundStates, HRS
<1> QED
  BY <1>2, <1>3

\* The whole NewRoundStep body: as ClearRound, plus the last-commit fields,
\* which stay well typed.
LEMMA ApplyNewRoundStepType ==
  ASSUME NEW p \in PeerRoundStates, NEW msg \in NewRoundStepMessages
  PROVE  LET q == ApplyNewRoundStep(p, msg) IN
         /\ q \in PeerRoundStates
         /\ HRS(q) = HRS(msg)
         /\ SameHR(p, msg) =>
              /\ q.Proposal = p.Proposal
              /\ q.ProposalBlockHeader = p.ProposalBlockHeader
              /\ q.ProposalPOLRound = p.ProposalPOLRound
         /\ ~SameHR(p, msg) => q.Proposal = FALSE
<1> DEFINE c == ClearRound(p, msg)
           lc == IF p.Height + 1 = msg.Height /\ p.Round = msg.LastCommitRound
                 THEN c.Precommits ELSE Nil
           q == ApplyNewRoundStep(p, msg)
<1>1. /\ c \in PeerRoundStates /\ HRS(c) = HRS(msg)
      /\ SameHR(p, msg) =>
           /\ c.Proposal = p.Proposal
           /\ c.ProposalBlockHeader = p.ProposalBlockHeader
           /\ c.ProposalPOLRound = p.ProposalPOLRound
      /\ ~SameHR(p, msg) => c.Proposal = FALSE
  BY ClearRoundType
<1>2. q = [c EXCEPT !.LastCommitRound = msg.LastCommitRound, !.LastCommit = lc,
                    !.CatchupCommitRound = -1, !.CatchupCommit = Nil]
  BY DEF ApplyNewRoundStep
<1>3. msg.LastCommitRound \in Rounds /\ -1 \in Rounds /\ Nil \in BitArrays
  BY ConstantsAssumption DEF NewRoundStepMessages, Rounds, BitArrays
<1>4. lc \in BitArrays
  BY <1>1, <1>3 DEF PeerRoundStates
<1>5. q \in PeerRoundStates
  <2> HIDE DEF c, lc, q
  <2>1. [c EXCEPT !.LastCommitRound = msg.LastCommitRound, !.LastCommit = lc,
                  !.CatchupCommitRound = -1, !.CatchupCommit = Nil]
          \in PeerRoundStates
    BY <1>1, <1>3, <1>4, LastCommitUpdateType
  <2> QED
    BY <1>2, <2>1
<1>6. /\ HRS(q) = HRS(c) /\ q.Proposal = c.Proposal
      /\ q.ProposalBlockHeader = c.ProposalBlockHeader
      /\ q.ProposalPOLRound = c.ProposalPOLRound
  <2> HIDE DEF c, lc, q
  <2> QED
    BY <1>1, <1>2 DEF PeerRoundStates, HRS
<1> QED
  BY <1>1, <1>5, <1>6

\* The early return of ReceiveNewRoundStep is the lexicographic order.
LEMMA StaleIsNotLexLess ==
  ASSUME NEW p \in PeerRoundStates, NEW msg \in NewRoundStepMessages
  PROVE  IsStaleRoundStep(p, msg) <=> ~LexLess(HRS(p), HRS(msg))
BY DEF IsStaleRoundStep, CompareHRS, LexLess, HRS, PeerRoundStates,
       NewRoundStepMessages, Heights, Rounds, Steps, RoundStepNewHeight,
       RoundStepCommit

=============================================================================
