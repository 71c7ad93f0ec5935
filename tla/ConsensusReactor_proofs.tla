------------------------ MODULE ConsensusReactor_proofs -----------------------
(***************************************************************************)
(* Proofs, for every value of the constants, of the invariants that the    *)
(* ConsensusReactor run checks on a small instance: the type invariant and *)
(* MirrorSound, the mirror never claiming a proposal the peer has not got   *)
(* and is not about to get, across the gossip routine's snapshot, Send and *)
(* SetHasProposal interleaved with the receive handlers.                   *)
(***************************************************************************)
EXTENDS ConsensusReactor, PeerStateOps_proofs, TLAPS

\* <<height, round>> of a proposal.
HR(prop) == <<prop.Height, prop.Round>>

\* Every Proposal message the peer sent is for a (height, round) the peer
\* holds a proposal for.
InboundKnown == \A prop \in inProposal : HR(prop) \in peerProposals

\* Between Send and SetHasProposal, the proposal the gossip routine sent is
\* with the peer or on its way, unless the transport dropped the peer.
GossipSound ==
  /\ gpc \in {"send", "mark"} => gProposal \in Proposals
  /\ gpc = "mark" /\ alive => HR(gProposal) \in peerProposals \cup toPeer

\* The inductive invariant.  MirrorSound alone is not inductive: the mirror
\* takes the proposal fields from an inbound message (needs InboundKnown)
\* and from the proposal the gossip routine sent (needs GossipSound).
IInv == TypeOK /\ InboundKnown /\ GossipSound /\ MirrorSound

-----------------------------------------------------------------------------
(* Facts on the constants and the collaborators' values.                   *)

\* The proposal a correct proposer makes is a well-typed proposal.
LEMMA ProposalForType ==
  ASSUME NEW h \in 1..MaxHeight, NEW r \in 0..MaxRound
  PROVE  ProposalFor(h, r) \in Proposals
BY ReactorAssumption, ConstantsAssumption
   DEF ProposalFor, Proposals, Heights, Rounds

\* The round-state sets of the two state machines sit inside the mirror's.
LEMMA StepSetFacts ==
  /\ StepSet \subseteq Steps
  /\ 1..MaxHeight \subseteq Heights
  /\ 0..MaxRound \subseteq Rounds
BY ReactorAssumption, ConstantsAssumption DEF Heights, Rounds

-----------------------------------------------------------------------------
(* The inductive invariant holds initially and is kept by every action.    *)

LEMMA InitIInv == Init => IInv
<1> SUFFICES ASSUME Init PROVE IInv
  OBVIOUS
<1>1. rs \in RoundStates /\ peer \in PeerStates
  BY ReactorAssumption, ConstantsAssumption
  DEF Init, RoundStates, PeerStates, Rounds
<1>2. prs \in PeerRoundStates
  BY ConstantsAssumption DEF Init, NewPeerState, PeerRoundStates, Heights,
                              Rounds, BitArrays, RoundStepCommit
<1>3. prs.Proposal = FALSE
  BY DEF Init, NewPeerState
<1> QED
  BY <1>1, <1>2, <1>3 DEF Init, IInv, TypeOK, InboundKnown, GossipSound,
                          MirrorSound

\* The life-cycle actions touch none of the proposal state.
LEMMA LifeCycleIInv ==
  ASSUME IInv, Start \/ Stop \/ AddPeer
  PROVE  IInv'
<1> USE DEF IInv, TypeOK, InboundKnown, GossipSound, MirrorSound, HR,
           reactorVars, lockVars, gossipVars, peerVars, netVars
<1>1. CASE Start \/ Stop
  BY <1>1 DEF Start, Stop, running
<1>2. CASE AddPeer
  <2>1. [Height |-> peer.Height, Round |-> peer.Round, Step |-> peer.Step,
         LastCommitRound |-> peer.LastCommitRound] \in NewRoundStepMessages
    BY StepSetFacts DEF PeerStates, NewRoundStepMessages
  <2> QED
    BY <1>2, <2>1 DEF AddPeer
<1> QED
  BY <1>1, <1>2

\* ReceiveNewRoundStep: a new (height, round) clears the proposal flag, the
\* same one keeps it.
LEMMA NewRoundStepIInv ==
  ASSUME IInv, NEW msg \in inNRS, ReceiveNewRoundStepMsg(msg)
  PROVE  IInv'
<1> USE DEF IInv, InboundKnown, GossipSound, HR, reactorVars, lockVars,
            gossipVars, peerVars, netVars
<1>1. msg \in NewRoundStepMessages /\ prs \in PeerRoundStates
  BY DEF TypeOK
<1>2. /\ prs' \in PeerRoundStates
      /\ prs'.Proposal => prs.Proposal /\ SameHR(prs, prs')
  <2>1. CASE ~Handled \/ mtxLeaked
    BY <1>1, <2>1 DEF ReceiveNewRoundStepMsg, Unhandled, BlockOnLock, SameHR
  <2>2. CASE Handled /\ ~mtxLeaked /\ IsStaleRoundStep(prs, msg)
    BY <1>1, <2>2 DEF ReceiveNewRoundStepMsg, SameHR
  <2>3. CASE Handled /\ ~mtxLeaked /\ ~IsStaleRoundStep(prs, msg)
    <3>1. prs' = ApplyNewRoundStep(prs, msg)
      BY <2>3 DEF ReceiveNewRoundStepMsg
    <3>2. /\ prs' \in PeerRoundStates
          /\ HRS(prs') = HRS(msg)
          /\ SameHR(prs, msg) => prs'.Proposal = prs.Proposal
          /\ ~SameHR(prs, msg) => prs'.Proposal = FALSE
      BY <1>1, <3>1, ApplyNewRoundStepType
    <3>3. prs'.Height = msg.Height /\ prs'.Round = msg.Round
      BY <3>2 DEF HRS
    <3>4. QED
      BY <3>2, <3>3 DEF SameHR
  <2> QED
    BY <2>1, <2>2, <2>3
<1>3. TypeOK'
  BY <1>2 DEF TypeOK, ReceiveNewRoundStepMsg, Dispatching, Unhandled, BlockOnLock
<1>4. MirrorSound'
  BY <1>2 DEF MirrorSound, ReceiveNewRoundStepMsg, SameHR
<1> QED
  BY <1>3, <1>4 DEF ReceiveNewRoundStepMsg

\* ReceiveNewProposal: the mirror takes a proposal the peer holds.
LEMMA NewProposalIInv ==
  ASSUME IInv, NEW prop \in inProposal, ReceiveNewProposal(prop)
  PROVE  IInv'
<1> USE DEF IInv, InboundKnown, GossipSound, HR, reactorVars, lockVars,
            gossipVars, peerVars, netVars
<1>1. prop \in Proposals /\ prs \in PeerRoundStates
      /\ HR(prop) \in peerProposals
  BY DEF TypeOK
<1>2. /\ prs' \in PeerRoundStates
      /\ prs'.Proposal =>
           \/ prs.Proposal /\ SameHR(prs, prs')
           \/ <<prs'.Height, prs'.Round>> = HR(prop)
  <2>1. CASE ~Handled \/ mtxLeaked
    BY <1>1, <2>1 DEF ReceiveNewProposal, Unhandled, BlockOnLock, SameHR
  <2>2. CASE Handled /\ ~mtxLeaked
    <3>1. prs' = SetHasProposal(prs, prop)
      BY <2>2 DEF ReceiveNewProposal
    <3>2. QED
      BY <1>1, <3>1, SetHasProposalType DEF SetHasProposal, SameHR, HRS
  <2> QED
    BY <2>1, <2>2
<1>3. TypeOK'
  BY <1>2 DEF TypeOK, ReceiveNewProposal, Unhandled, BlockOnLock
<1>4. MirrorSound'
  BY <1>1, <1>2 DEF MirrorSound, ReceiveNewProposal, SameHR
<1> QED
  BY <1>3, <1>4 DEF ReceiveNewProposal

\* ReceiveHasVote touches only the vote bit arrays.
LEMMA HasVoteIInv ==
  ASSUME IInv, NEW msg \in inHasVote, ReceiveHasVote(msg)
  PROVE  IInv'
<1> USE DEF IInv, InboundKnown, GossipSound, HR, reactorVars, lockVars,
            gossipVars, peerVars, netVars
<1>1. msg \in HasVoteMessages /\ prs \in PeerRoundStates
  BY DEF TypeOK
<1>2. prs' \in PeerRoundStates /\ SameButBits(prs, prs')
  <2>1. CASE ~Handled \/ mtxLeaked
    BY <1>1, <2>1 DEF ReceiveHasVote, Unhandled, BlockOnLock, SameButBits
  <2>2. CASE Handled /\ ~mtxLeaked
    BY <1>1, <2>2, ApplyHasVoteType DEF ReceiveHasVote
  <2> QED
    BY <2>1, <2>2
<1>3. TypeOK'
  BY <1>2 DEF TypeOK, ReceiveHasVote, Unhandled, BlockOnLock
<1>4. MirrorSound'
  BY <1>2 DEF MirrorSound, ReceiveHasVote, SameButBits
<1> QED
  BY <1>3, <1>4 DEF ReceiveHasVote

\* ReceiveNewVote and ReceiveNewCommit leak the mutex and leave prs alone.
LEMMA LeakingHandlerIInv ==
  ASSUME IInv, NEW kind \in VoteKinds, LeakingHandler(kind)
  PROVE  IInv'
BY DEF IInv, TypeOK, InboundKnown, GossipSound, MirrorSound, HR,
       LeakingHandler, Unhandled, BlockOnLock, reactorVars, lockVars,
       gossipVars, peerVars, netVars

\* The gossip routine: what it marks on the mirror it has sent, or the
\* transport has dropped the peer.
LEMMA GossipIInv ==
  ASSUME IInv, Gossip
  PROVE  IInv'
<1> USE DEF IInv, InboundKnown, GossipSound, HR, reactorVars, lockVars,
            gossipVars, peerVars, netVars
<1>1. CASE GossipExit
  BY <1>1 DEF GossipExit, TypeOK, MirrorSound
<1>5. CASE GossipPanic
  BY <1>5 DEF GossipPanic, TypeOK, MirrorSound
<1>2. CASE GossipPickProposal
  <2>1. rs.Proposal \in Proposals
    BY <1>2 DEF GossipPickProposal, TypeOK, RoundStates
  <2> QED
    BY <1>2, <2>1 DEF GossipPickProposal, TypeOK, MirrorSound
<1>3. CASE GossipSendProposal
  <2>1. gProposal \in Proposals
    BY <1>3 DEF GossipSendProposal
  <2>2. HR(gProposal) \in Heights \X Rounds
    BY <2>1, StepSetFacts DEF Proposals
  <2>3. CASE toPeer' = toPeer \cup {HR(gProposal)} /\ UNCHANGED alive
    BY <1>3, <2>2, <2>3 DEF GossipSendProposal, TypeOK, MirrorSound
  <2>4. CASE alive' = FALSE /\ UNCHANGED toPeer
    BY <1>3, <2>4 DEF GossipSendProposal, TypeOK, MirrorSound
  <2> QED
    BY <1>3, <2>3, <2>4 DEF GossipSendProposal
<1>4. CASE GossipMarkProposal
  <2>1. gProposal \in Proposals /\ prs \in PeerRoundStates
    BY <1>4 DEF GossipMarkProposal, TypeOK
  <2>2. prs' = SetHasProposal(prs, gProposal)
    BY <1>4 DEF GossipMarkProposal
  <2>3. prs' \in PeerRoundStates
    BY <2>1, <2>2, SetHasProposalType
  <2>4. prs'.Proposal =>
          \/ prs.Proposal /\ SameHR(prs, prs')
          \/ <<prs'.Height, prs'.Round>> = HR(gProposal)
    BY <2>1, <2>2 DEF SetHasProposal, SameHR
  <2>5. TypeOK'
    BY <1>4, <2>3 DEF GossipMarkProposal, TypeOK
  <2>6. MirrorSound'
    BY <1>4, <2>4 DEF GossipMarkProposal, MirrorSound, SameHR
  <2> QED
    BY <1>4, <2>5, <2>6 DEF GossipMarkProposal
<1> QED
  BY <1>1, <1>2, <1>3, <1>4, <1>5 DEF Gossip

\* The local state machine moves or obtains its proposal: only rs changes.
LEMMA LocalIInv ==
  ASSUME IInv,
         \/ \E h \in 1..MaxHeight, r \in 0..MaxRound, s \in StepSet :
              LocalEnterStep(h, r, s)
         \/ LocalSetProposal
  PROVE  IInv'
<1> USE DEF IInv, InboundKnown, GossipSound, MirrorSound, HR, reactorVars,
            lockVars, gossipVars, peerVars, netVars
<1>1. ASSUME NEW h \in 1..MaxHeight, NEW r \in 0..MaxRound, NEW s \in StepSet,
             LocalEnterStep(h, r, s)
      PROVE  IInv'
  BY <1>1 DEF LocalEnterStep, TypeOK, RoundStates
<1>2. CASE LocalSetProposal
  <2>1. ProposalFor(rs.Height, rs.Round) \in Proposals
    BY ProposalForType DEF TypeOK, RoundStates
  <2> QED
    BY <1>2, <2>1 DEF LocalSetProposal, TypeOK, RoundStates
<1> QED
  BY <1>1, <1>2

\* The peer and the transport: the peer's proposals and our messages in
\* flight to it only grow or move from one to the other.
LEMMA PeerIInv ==
  ASSUME IInv,
         \/ \E h \in 1..MaxHeight, r \in 0..MaxRound, s \in StepSet :
              PeerEnterStep(h, r, s)
         \/ PeerSendProposal
         \/ \E i \in Vals : PeerSendHasVote(VoteTypePrevote, i)
         \/ \E kind \in VoteKinds : PeerSendVoteOrCommit(kind)
         \/ PeerDisconnect
         \/ \E x \in toPeer : DeliverProposal(x)
  PROVE  IInv'
<1> USE DEF IInv, InboundKnown, GossipSound, MirrorSound, HR, reactorVars,
            lockVars, gossipVars, peerVars, netVars
<1>1. ASSUME NEW h \in 1..MaxHeight, NEW r \in 0..MaxRound, NEW s \in StepSet,
             PeerEnterStep(h, r, s)
      PROVE  IInv'
  <2>1. peer.Round \in Rounds /\ peer.LastCommitRound \in Rounds
    BY StepSetFacts DEF TypeOK, PeerStates
  <2>2. h \in Heights /\ s \in Steps
    BY StepSetFacts
  <2> QED
    BY <1>1, <2>1, <2>2 DEF PeerEnterStep, TypeOK, PeerStates,
                            NewRoundStepMessages
<1>2. CASE PeerSendProposal
  <2>1. ProposalFor(peer.Height, peer.Round) \in Proposals
    BY ProposalForType DEF TypeOK, PeerStates
  <2>2. <<peer.Height, peer.Round>> \in Heights \X Rounds
    BY StepSetFacts DEF TypeOK, PeerStates
  <2>3. HR(ProposalFor(peer.Height, peer.Round)) = <<peer.Height, peer.Round>>
    BY DEF ProposalFor
  <2> QED
    BY <1>2, <2>1, <2>2, <2>3 DEF PeerSendProposal, TypeOK
<1>3. ASSUME NEW i \in Vals, PeerSendHasVote(VoteTypePrevote, i)
      PROVE  IInv'
  <2>1. [Height |-> peer.Height, Round |-> peer.Round,
         Type |-> VoteTypePrevote, Index |-> i] \in HasVoteMessages
    BY StepSetFacts DEF TypeOK, PeerStates, HasVoteMessages, VoteTypes,
                        VoteTypePrevote
  <2> QED
    BY <1>3, <2>1 DEF PeerSendHasVote, TypeOK
<1>4. ASSUME NEW kind \in VoteKinds, PeerSendVoteOrCommit(kind)
      PROVE  IInv'
  BY <1>4 DEF PeerSendVoteOrCommit, TypeOK
<1>5. CASE PeerDisconnect
  BY <1>5 DEF PeerDisconnect, TypeOK
<1>6. ASSUME NEW x \in toPeer, DeliverProposal(x)
      PROVE  IInv'
  BY <1>6 DEF DeliverProposal, TypeOK
<1> QED
  BY <1>1, <1>2, <1>3, <1>4, <1>5, <1>6

\* Every step of the reactor, its goroutines and its collaborators keeps the
\* inductive invariant, and so does a stuttering step.
LEMMA NextIInv == IInv /\ [Next]_vars => IInv'
<1> SUFFICES ASSUME IInv, [Next]_vars PROVE IInv'
  OBVIOUS
<1>1. CASE Start \/ Stop \/ AddPeer
  BY <1>1, LifeCycleIInv
<1>2. CASE \E msg \in inNRS : ReceiveNewRoundStepMsg(msg)
  BY <1>2, NewRoundStepIInv
<1>3. CASE \E prop \in inProposal : ReceiveNewProposal(prop)
  BY <1>3, NewProposalIInv
<1>4. CASE \E msg \in inHasVote : ReceiveHasVote(msg)
  BY <1>4, HasVoteIInv
<1>5. CASE ReceiveNewVote \/ ReceiveNewCommit
  <2>1. "Vote" \in VoteKinds /\ "CommitStep" \in VoteKinds
    BY DEF VoteKinds
  <2> QED
    BY <1>5, <2>1, LeakingHandlerIInv DEF ReceiveNewVote, ReceiveNewCommit
<1>6. CASE Gossip
  BY <1>6, GossipIInv
<1>7. CASE \/ \E h \in 1..MaxHeight, r \in 0..MaxRound, s \in StepSet :
               LocalEnterStep(h, r, s)
           \/ LocalSetProposal
  BY <1>7, LocalIInv
<1>8. CASE \/ \E h \in 1..MaxHeight, r \in 0..MaxRound, s \in StepSet :
               PeerEnterStep(h, r, s)
           \/ PeerSendProposal
           \/ \E i \in Vals : PeerSendHasVote(VoteTypePrevote, i)
           \/ \E kind \in VoteKinds : PeerSendVoteOrCommit(kind)
           \/ PeerDisconnect
           \/ \E x \in toPeer : DeliverProposal(x)
  BY <1>8, PeerIInv
<1>9. CASE UNCHANGED vars
  BY <1>9 DEF vars, reactorVars, lockVars, gossipVars, peerVars, netVars,
              IInv, TypeOK, InboundKnown, GossipSound, MirrorSound, HR
<1> QED
  BY <1>1, <1>2, <1>3, <1>4, <1>5, <1>6, <1>7, <1>8, <1>9
     DEF Next, Receive, Environment

-----------------------------------------------------------------------------
(* The theorems.                                                           *)

\* The reactor's view of the peer stays well typed: the mirror prs under
\* every interleaving of the receive handlers with the gossip routine, the
\* messages in flight and the two state machines' round states.
THEOREM TypeCorrect == Spec => []TypeOK
<1>1. IInv => TypeOK
  BY DEF IInv
<1> QED
  BY <1>1, InitIInv, NextIInv, PTL DEF Spec

\* MirrorSound for every bound: whenever gossipDataRoutine's SetHasProposal
\* or ReceiveProposal has marked the peer as holding the proposal of the
\* mirror's (height, round), a connected peer holds it or has it in
\* flight, whatever the handlers did to prs between the routine's snapshot
\* and its SetHasProposal (lines 608-651).
THEOREM MirrorSoundThm == Spec => []MirrorSound
<1>1. IInv => MirrorSound
  BY DEF IInv
<1> QED
  BY <1>1, InitIInv, NextIInv, PTL DEF Spec

=============================================================================
