--------------------------- MODULE PeerState_proofs ---------------------------
(***************************************************************************)
(* Proofs, for every value of the constants, of the invariants that the    *)
(* PeerState run checks on a small instance: the type invariant, the       *)
(* mirror's (height, round, step) being the greatest announced, and the    *)
(* mirror holding the first proposal offered for its (height, round).      *)
(***************************************************************************)
EXTENDS PeerState, PeerStateOps_proofs, TLAPS

-----------------------------------------------------------------------------
(* The inductive invariant: the type invariant and both mirror invariants. *)
(* Each mirror invariant needs the other's conjuncts only through TypeOK:   *)
(* MirrorIsMaxAnnounced needs prs's triple to be ordered like maxAnnounced, *)
(* MirrorHoldsFirstProposal needs firstOffered to be Nil or a proposal.     *)
IInv == TypeOK /\ MirrorIsMaxAnnounced /\ MirrorHoldsFirstProposal

\* A fresh PeerState satisfies the invariant.
LEMMA InitIInv == Init => IInv
<1> SUFFICES ASSUME Init PROVE IInv
  OBVIOUS
<1>1. NewPeerState \in PeerRoundStates
  BY ConstantsAssumption DEF NewPeerState, PeerRoundStates, Heights, Rounds,
                             BitArrays, RoundStepCommit
<1>2. TypeOK
  BY <1>1, ConstantsAssumption
     DEF Init, TypeOK, HRS, NewPeerState, Heights, Rounds, RoundStepCommit
<1>3. MirrorIsMaxAnnounced /\ MirrorHoldsFirstProposal
  BY DEF Init, MirrorIsMaxAnnounced, MirrorHoldsFirstProposal, NewPeerState
<1> QED
  BY <1>2, <1>3 DEF IInv

\* ReceiveNewRoundStep preserves the invariant: a stale message leaves the
\* mirror and the greatest announced triple alone, a newer one moves both.
LEMMA NewRoundStepIInv ==
  ASSUME IInv, NEW msg \in NewRoundStepMessages, ReceiveNewRoundStep(msg)
  PROVE  IInv'
<1>0. /\ prs \in PeerRoundStates /\ HRS(prs) = maxAnnounced
      /\ firstOffered \in Proposals \cup {Nil}
      /\ heard \subseteq {VoteTypePrevote, VoteTypePrecommit} \X Vals
      /\ MirrorHoldsFirstProposal
  BY DEF IInv, TypeOK, MirrorIsMaxAnnounced
<1>1. HRS(msg) \in Heights \X Rounds \X (0..RoundStepCommit)
  BY DEF HRS, NewRoundStepMessages, Rounds, Steps, RoundStepNewHeight,
         RoundStepCommit
<1>2. CASE IsStaleRoundStep(prs, msg)
  <2>1. ~LexLess(maxAnnounced, HRS(msg))
    BY <1>0, <1>2, StaleIsNotLexLess
  <2>2. prs' = prs /\ maxAnnounced' = maxAnnounced
    BY <1>2, <2>1 DEF ReceiveNewRoundStep
  <2>3. firstOffered' = firstOffered /\ heard' = heard
    BY <2>2 DEF ReceiveNewRoundStep, SameHR
  <2> QED
    BY <2>2, <2>3 DEF IInv, TypeOK, MirrorIsMaxAnnounced, MirrorHoldsFirstProposal
<1>3. CASE ~IsStaleRoundStep(prs, msg)
  <2>1. LexLess(maxAnnounced, HRS(msg))
    BY <1>0, <1>3, StaleIsNotLexLess
  <2>2. prs' = ApplyNewRoundStep(prs, msg) /\ maxAnnounced' = HRS(msg)
    BY <1>3, <2>1 DEF ReceiveNewRoundStep
  <2>3. /\ prs' \in PeerRoundStates /\ HRS(prs') = HRS(msg)
        /\ SameHR(prs, msg) =>
             /\ prs'.Proposal = prs.Proposal
             /\ prs'.ProposalBlockHeader = prs.ProposalBlockHeader
             /\ prs'.ProposalPOLRound = prs.ProposalPOLRound
        /\ ~SameHR(prs, msg) => prs'.Proposal = FALSE
    BY <1>0, <2>2, ApplyNewRoundStepType
  <2>4. SameHR(prs, prs') <=> SameHR(prs, msg)
    BY <2>3 DEF SameHR, HRS
  <2>5. TypeOK'
    BY <1>0, <1>1, <2>2, <2>3 DEF ReceiveNewRoundStep, TypeOK
  <2>6. MirrorIsMaxAnnounced'
    BY <2>2, <2>3 DEF MirrorIsMaxAnnounced
  <2>7. MirrorHoldsFirstProposal'
    <3>1. CASE SameHR(prs, msg)
      <4>1. firstOffered' = firstOffered
        BY <2>4, <3>1 DEF ReceiveNewRoundStep
      <4> QED
        BY <1>0, <2>3, <3>1, <4>1 DEF MirrorHoldsFirstProposal
    <3>2. CASE ~SameHR(prs, msg)
      <4>1. firstOffered' = Nil
        BY <2>4, <3>2 DEF ReceiveNewRoundStep
      <4> QED
        BY <2>3, <3>2, <4>1 DEF MirrorHoldsFirstProposal
    <3> QED
      BY <3>1, <3>2
  <2> QED
    BY <2>5, <2>6, <2>7 DEF IInv
<1> QED
  BY <1>2, <1>3

\* SetHasProposal preserves the invariant: the first proposal offered at
\* the mirror's (H, R) is recorded together with the ghost, later ones and
\* ones for another (H, R) change neither.
LEMMA ProposalIInv ==
  ASSUME IInv, NEW prop \in Proposals, ReceiveProposal(prop)
  PROVE  IInv'
<1>0. /\ prs \in PeerRoundStates /\ HRS(prs) = maxAnnounced
      /\ firstOffered \in Proposals \cup {Nil}
      /\ MirrorHoldsFirstProposal
  BY DEF IInv, TypeOK, MirrorIsMaxAnnounced
<1>1. prs' \in PeerRoundStates /\ HRS(prs') = HRS(prs)
  BY <1>0, SetHasProposalType DEF ReceiveProposal
<1>2. TypeOK' /\ MirrorIsMaxAnnounced'
  BY <1>1 DEF ReceiveProposal, IInv, TypeOK, MirrorIsMaxAnnounced
<1>3. MirrorHoldsFirstProposal'
  <2>1. CASE firstOffered = Nil /\ prop.Height = prs.Height
             /\ prop.Round = prs.Round
    <3>1. ~prs.Proposal
      BY <1>0, <2>1 DEF MirrorHoldsFirstProposal
    <3>2. /\ prs'.Proposal
          /\ prs'.ProposalBlockHeader = prop.Block
          /\ prs'.ProposalPOLRound = prop.POLRound
      BY <1>0, <2>1, <3>1 DEF ReceiveProposal, SetHasProposal, PeerRoundStates
    <3>3. firstOffered' = prop /\ prop # Nil
      BY <2>1, NilAssumption DEF ReceiveProposal
    <3> QED
      BY <3>2, <3>3 DEF MirrorHoldsFirstProposal
  <2>2. CASE firstOffered # Nil
    <3>1. prs.Proposal /\ prs' = prs /\ firstOffered' = firstOffered
      BY <1>0, <2>2 DEF ReceiveProposal, SetHasProposal, MirrorHoldsFirstProposal
    <3> QED
      BY <1>0, <3>1 DEF MirrorHoldsFirstProposal
  <2>3. CASE prop.Height # prs.Height \/ prop.Round # prs.Round
    <3>1. prs' = prs /\ firstOffered' = firstOffered
      BY <2>3 DEF ReceiveProposal, SetHasProposal
    <3> QED
      BY <1>0, <3>1 DEF MirrorHoldsFirstProposal
  <2> QED
    BY <2>1, <2>2, <2>3
<1> QED
  BY <1>2, <1>3 DEF IInv

\* A HasVote message, or a vote sent, only sets a bit: the mirror's
\* (H, R, S) and proposal are untouched and a heard vote is well typed.
LEMMA HasVoteIInv ==
  ASSUME IInv, NEW msg \in HasVoteMessages,
         ReceiveHasVote(msg) \/ SetHasVote(msg)
  PROVE  IInv'
<1>0. /\ prs \in PeerRoundStates /\ HRS(prs) = maxAnnounced
      /\ heard \subseteq {VoteTypePrevote, VoteTypePrecommit} \X Vals
      /\ MirrorHoldsFirstProposal
  BY DEF IInv, TypeOK, MirrorIsMaxAnnounced
<1>1. prs' \in PeerRoundStates /\ SameButBits(prs, prs')
  <2>1. CASE ReceiveHasVote(msg)
    BY <1>0, <2>1, ApplyHasVoteType DEF ReceiveHasVote
  <2>2. CASE SetHasVote(msg)
    BY <1>0, <2>2, SetHasVoteInType DEF SetHasVote, HasVoteMessages
  <2> QED
    BY <2>1, <2>2
<1>2. /\ heard' \subseteq {VoteTypePrevote, VoteTypePrecommit} \X Vals
      /\ UNCHANGED <<maxAnnounced, firstOffered>>
  BY <1>0 DEF ReceiveHasVote, SetHasVote, HasVoteMessages, IsVoteTypeValid
<1> QED
  BY <1>0, <1>1, <1>2 DEF IInv, TypeOK, MirrorIsMaxAnnounced,
                          MirrorHoldsFirstProposal, SameButBits, HRS

\* Every step of the mirror preserves the inductive invariant.
LEMMA NextIInv == IInv /\ [Next]_vars => IInv'
<1> SUFFICES ASSUME IInv, [Next]_vars PROVE IInv'
  OBVIOUS
<1>1. CASE \E msg \in NewRoundStepMessages : ReceiveNewRoundStep(msg)
  BY <1>1, NewRoundStepIInv
<1>2. CASE \E prop \in Proposals : ReceiveProposal(prop)
  BY <1>2, ProposalIInv
<1>3. CASE \E msg \in HasVoteMessages : ReceiveHasVote(msg)
  BY <1>3, HasVoteIInv
<1>4. CASE \E vote \in HasVoteMessages : SetHasVote(vote)
  BY <1>4, HasVoteIInv
<1>5. CASE UNCHANGED vars
  BY <1>5 DEF vars, IInv, TypeOK, MirrorIsMaxAnnounced, MirrorHoldsFirstProposal
<1> QED
  BY <1>1, <1>2, <1>3, <1>4, <1>5 DEF Next

-----------------------------------------------------------------------------
\* The mirror stays well typed under any sequence of peer messages and
\* SetHasProposal / SetHasVote calls (the methods of PeerState).
THEOREM TypeCorrect == Spec => []TypeOK
<1>1. IInv => TypeOK
  BY DEF IInv
<1> QED
  BY InitIInv, NextIInv, <1>1, PTL DEF Spec

\* ReceiveNewRoundStep's early return (line 355) keeps the mirror's
\* (height, round, step) at the greatest one the peer has announced,
\* whatever order and however often the transport delivers them.
THEOREM MirrorIsMaxAnnouncedThm == Spec => []MirrorIsMaxAnnounced
<1>1. IInv => MirrorIsMaxAnnounced
  BY DEF IInv
<1> QED
  BY InitIInv, NextIInv, <1>1, PTL DEF Spec

\* SetHasProposal, from the receive routine and the gossip routine, with the
\* reset on a new (height, round) keeps the first proposal offered for the
\* mirror's current (height, round), and only it.
THEOREM MirrorHoldsFirstProposalThm == Spec => []MirrorHoldsFirstProposal
<1>1. IInv => MirrorHoldsFirstProposal
  BY DEF IInv
<1> QED
  BY InitIInv, NextIInv, <1>1, PTL DEF Spec

=============================================================================
