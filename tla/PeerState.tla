------------------------------ MODULE PeerState ------------------------------
(***************************************************************************)
(* One peer's mirror (PeerStateOps) driven by an untrusted peer: its        *)
(* NewRoundStep, Proposal and HasVote messages are drawn from all           *)
(* well-typed messages, in any order, and SetHasProposal / SetHasVote are   *)
(* called with any proposal or vote.  Each method is one atomic step, as    *)
(* it runs under ps.mtx.                                                    *)
(*                                                                         *)
(* Three ghost variables record what the peer has told us, for the          *)
(* properties: maxAnnounced, firstOffered and heard.                        *)
(***************************************************************************)
EXTENDS PeerStateOps

VARIABLES
  prs,           \* ps.PRS
  maxAnnounced,  \* ghost: greatest <<H, R, S>> the peer has announced
  firstOffered,  \* ghost: first proposal offered at prs's (H, R), or Nil
  heard          \* ghost: <<type, index>> of votes heard at prs's (H, R)

vars == <<prs, maxAnnounced, firstOffered, heard>>

Init ==
  /\ prs = NewPeerState
  /\ maxAnnounced = HRS(NewPeerState)
  /\ firstOffered = Nil
  /\ heard = {}

\* ReceiveNewRoundStep (lines 351-399), under ps.mtx.
ReceiveNewRoundStep(msg) ==
  /\ prs' = IF IsStaleRoundStep(prs, msg) THEN prs
            ELSE ApplyNewRoundStep(prs, msg)
  /\ maxAnnounced' = IF LexLess(maxAnnounced, HRS(msg))
                     THEN HRS(msg) ELSE maxAnnounced
  /\ firstOffered' = IF SameHR(prs, prs') THEN firstOffered ELSE Nil
  /\ heard' = IF SameHR(prs, prs') THEN heard ELSE {}

\* SetHasProposal (lines 776-791), from the peer's Proposal message or from
\* the gossip routine having sent ours.
ReceiveProposal(prop) ==
  /\ prs' = SetHasProposal(prs, prop)
  /\ firstOffered' = IF firstOffered = Nil /\ prop.Height = prs.Height
                        /\ prop.Round = prs.Round
                     THEN prop ELSE firstOffered
  /\ UNCHANGED <<maxAnnounced, heard>>

\* ApplyHasVoteMessage (lines 861-869).
ReceiveHasVote(msg) ==
  /\ prs' = ApplyHasVote(prs, msg)
  /\ heard' = IF msg.Height = prs.Height /\ msg.Round = prs.Round
                 /\ IsVoteTypeValid(msg.Type)
              THEN heard \cup {<<msg.Type, msg.Index>>} ELSE heard
  /\ UNCHANGED <<maxAnnounced, firstOffered>>

\* SetHasVote (lines 841-846): no height check before setHasVote.
SetHasVote(vote) ==
  /\ prs' = SetHasVoteIn(prs, vote.Height, vote.Round, vote.Type, vote.Index)
  /\ heard' = IF vote.Height = prs.Height /\ vote.Round = prs.Round
                 /\ IsVoteTypeValid(vote.Type)
              THEN heard \cup {<<vote.Type, vote.Index>>} ELSE heard
  /\ UNCHANGED <<maxAnnounced, firstOffered>>

Next ==
  \/ \E msg \in NewRoundStepMessages : ReceiveNewRoundStep(msg)
  \/ \E prop \in Proposals : ReceiveProposal(prop)
  \/ \E msg \in HasVoteMessages : ReceiveHasVote(msg)
  \/ \E vote \in HasVoteMessages : SetHasVote(vote)

Spec == Init /\ [][Next]_vars

-----------------------------------------------------------------------------
TypeOK ==
  /\ prs \in PeerRoundStates
  /\ maxAnnounced \in Heights \X Rounds \X (0..RoundStepCommit)
  /\ firstOffered \in Proposals \cup {Nil}
  /\ heard \subseteq {VoteTypePrevote, VoteTypePrecommit} \X Vals

\* Messages reordered or duplicated by the transport (ReceiveNewRoundStep's
\* early return, line 355): the mirror's (height, round, step) is always the
\* greatest one the peer has announced, whatever order they arrived in.
MirrorIsMaxAnnounced == HRS(prs) = maxAnnounced

\* SetHasProposal called by two threads (the receive dispatcher and the
\* gossip routine, lines 424 and 651) and the reset on a new round (lines
\* 371-379): the mirror knows a proposal exactly when one was offered for its
\* current (height, round), and then it holds the first such proposal.
MirrorHoldsFirstProposal ==
  /\ prs.Proposal <=> firstOffered # Nil
  /\ prs.Proposal =>
       /\ prs.ProposalBlockHeader = firstOffered.Block
       /\ prs.ProposalPOLRound = firstOffered.POLRound

\* The spec (section 4.3) says apply_has_vote and set_has_vote set the vote's
\* bit: every vote heard for the mirror's current (H, R) is recorded in its
\* Prevotes / Precommits.  No code path allocates those bit arrays.
VotesRecorded ==
  \A v \in heard :
    LET f == IF v[1] = VoteTypePrevote THEN "Prevotes" ELSE "Precommits"
    IN prs[f] # Nil /\ v[2] \in prs[f]

\* The spec (section 2, apply_new_round_step) sets last_commit_round and
\* resets the catch-up commit only when the peer moves to a new height; at
\* the same height a NewRoundStep leaves the last commit alone.  Lines 387-398
\* run that branch on every message (a pointer comparison).
LastCommitOnlyOnNewHeight ==
  [][prs'.Height = prs.Height =>
       /\ prs'.LastCommitRound = prs.LastCommitRound
       /\ prs'.LastCommit = prs.LastCommit]_prs

=============================================================================
