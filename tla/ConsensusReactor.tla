--------------------------- MODULE ConsensusReactor ---------------------------
(***************************************************************************)
(* The consensus reactor with one remote peer (consensus/reactor.go, here  *)
(* src/blockchain/headerchain.go lines 181-673): Start / Stop, AddPeer, the *)
(* receive dispatcher running the message handlers, and the peer's          *)
(* gossipDataRoutine, all sharing the peer's mirror prs and its mutex.      *)
(*                                                                         *)
(* The local consensus state machine and the remote peer are collaborators: *)
(* each moves its own (height, round, step) forward and may obtain a        *)
(* proposal.  The peer's NewRoundStep, Proposal, HasVote, Vote and          *)
(* CommitStep messages wait in one set per kind and are received in any     *)
(* order.  The NewRoundStep and HasVote broadcasts to the peer, and the     *)
(* ProposalPOL message, change nothing the model tracks and are left out.   *)
(***************************************************************************)
EXTENDS PeerStateOps

CONSTANTS
  StepSet,        \* the round steps the two state machines take
  PeerSendsVotes  \* whether the peer sends Vote and CommitStep messages

ASSUME ReactorAssumption ==
  /\ MaxHeight >= 1
  /\ StepSet \subseteq Steps
  /\ RoundStepNewHeight \in StepSet
  /\ PeerSendsVotes \in BOOLEAN
  /\ Blocks # {}       \* every proposal block has a header hash

RoundStepPropose == 3

VARIABLES
  reactor,       \* "idle", "running" or "stopped": conR.running and Start/Stop
  added,         \* AddPeer has been called for the peer
  psExists,      \* the peer holds a *PeerState under p2p.PeerStateKey
  alive,         \* peer.IsAlive: the transport has not dropped the peer
  crashed,       \* the process has panicked
  mtxLeaked,     \* ps.mtx is held by a handler that returned
  recvBlocked,   \* the receive dispatcher waits on ps.mtx for ever
  gpc,           \* gossipDataRoutine: "none", "top", "send", "mark", "exited"
  gProposal,     \* the rs.Proposal the gossip routine is sending
  rs,            \* the local RoundState, as far as the reactor reads it
  peer,          \* the peer's own round state
  peerProposals, \* <<h, r>> of proposals the peer has
  toPeer,        \* <<h, r>> of our Proposal messages in flight to the peer
  inNRS,         \* NewRoundStep messages from the peer not yet received
  inProposal,    \* Proposal messages from the peer not yet received
  inHasVote,     \* HasVote messages from the peer not yet received
  inVote,        \* kinds of Vote / CommitStep messages not yet received
  prs            \* ps.PRS

reactorVars == <<reactor, added, psExists, alive, crashed>>
lockVars == <<mtxLeaked, recvBlocked>>
gossipVars == <<gpc, gProposal>>
peerVars == <<peer, peerProposals>>
netVars == <<toPeer, inNRS, inProposal, inHasVote, inVote>>
vars == <<reactorVars, lockVars, gossipVars, rs, peerVars, netVars, prs>>

running == reactor = "running"

RoundStates ==
  [Height: 1..MaxHeight, Round: 0..MaxRound, Step: StepSet,
   Proposal: Proposals \cup {Nil}]
PeerStates ==
  [Height: 1..MaxHeight, Round: 0..MaxRound, Step: StepSet,
   LastCommitRound: Rounds]

\* The one proposal the (correct) proposer of (h, r) makes; from round 1 on
\* it carries the previous round as its POL round.  Conflicting proposals
\* from a faulty peer are the business of PeerState.
ProposalFor(h, r) ==
  [Height |-> h, Round |-> r, POLRound |-> r - 1,
   Block |-> CHOOSE b \in Blocks : TRUE]

Init ==
  /\ reactor = "idle"
  /\ added = FALSE
  /\ psExists = FALSE
  /\ alive = TRUE
  /\ crashed = FALSE
  /\ mtxLeaked = FALSE
  /\ recvBlocked = FALSE
  /\ gpc = "none"
  /\ gProposal = Nil
  /\ rs = [Height |-> 1, Round |-> 0, Step |-> RoundStepNewHeight,
           Proposal |-> Nil]
  /\ peer = [Height |-> 1, Round |-> 0, Step |-> RoundStepNewHeight,
             LastCommitRound |-> -1]
  /\ peerProposals = {}
  /\ toPeer = {}
  /\ inNRS = {}
  /\ inProposal = {}
  /\ inHasVote = {}
  /\ inVote = {}
  /\ prs = NewPeerState

-----------------------------------------------------------------------------
(* The reactor's life cycle.                                                *)

\* Start (lines 255-260): running, subscribe, start the state machine.
Start ==
  /\ reactor = "idle" /\ ~crashed
  /\ reactor' = "running"
  /\ UNCHANGED <<added, psExists, alive, crashed, lockVars, gossipVars, rs,
                 peerVars, netVars, prs>>

\* Stop (lines 262-268).
Stop ==
  /\ running /\ ~crashed
  /\ reactor' = "stopped"
  /\ UNCHANGED <<added, psExists, alive, crashed, lockVars, gossipVars, rs,
                 peerVars, netVars, prs>>

\* AddPeer (lines 271-294): send our round step; then, only if running,
\* attach a fresh PeerState and start gossipDataRoutine.  The peer runs the
\* same AddPeer for us, so its round step is on its way.
AddPeer ==
  /\ ~added /\ ~crashed
  /\ added' = TRUE
  /\ IF running
     THEN /\ psExists' = TRUE
          /\ gpc' = "top"
     ELSE UNCHANGED <<psExists, gpc>>
  /\ inNRS' = inNRS \cup {[Height |-> peer.Height, Round |-> peer.Round,
                           Step |-> peer.Step,
                           LastCommitRound |-> peer.LastCommitRound]}
  /\ UNCHANGED <<reactor, alive, crashed, lockVars, gProposal, rs, peerVars,
                 toPeer, inProposal, inHasVote, inVote, prs>>

-----------------------------------------------------------------------------
(* The receive dispatcher: one handler at a time, for a connected peer.    *)

Dispatching == added /\ ~crashed /\ ~recvBlocked

\* A handler got past `if !conR.running` and the PeerState downcast.
Handled == running /\ psExists

\* ps.mtx.Lock() on a leaked mutex never returns.
BlockOnLock ==
  /\ recvBlocked' = TRUE
  /\ UNCHANGED <<mtxLeaked, prs>>

Unhandled == UNCHANGED <<mtxLeaked, recvBlocked, prs>>

\* ReceiveNewRoundStep (lines 329-400).
ReceiveNewRoundStepMsg(msg) ==
  /\ Dispatching /\ msg \in inNRS
  /\ inNRS' = inNRS \ {msg}
  /\ IF ~Handled THEN Unhandled
     ELSE IF mtxLeaked THEN BlockOnLock
     ELSE /\ prs' = IF IsStaleRoundStep(prs, msg) THEN prs
                    ELSE ApplyNewRoundStep(prs, msg)
          /\ UNCHANGED lockVars
  /\ UNCHANGED <<reactorVars, gossipVars, rs, peerVars, toPeer, inProposal,
                 inHasVote, inVote>>

\* ReceiveNewProposal (lines 402-426); the hand-off to the state machine's
\* peerMsgQueue is the collaborator's business.
ReceiveNewProposal(prop) ==
  /\ Dispatching /\ prop \in inProposal
  /\ inProposal' = inProposal \ {prop}
  /\ IF ~Handled THEN Unhandled
     ELSE IF mtxLeaked THEN BlockOnLock
     ELSE /\ prs' = SetHasProposal(prs, prop)
          /\ UNCHANGED lockVars
  /\ UNCHANGED <<reactorVars, gossipVars, rs, peerVars, toPeer, inNRS,
                 inHasVote, inVote>>

\* ReceiveHasVote (lines 456-479).
ReceiveHasVote(msg) ==
  /\ Dispatching /\ msg \in inHasVote
  /\ inHasVote' = inHasVote \ {msg}
  /\ IF ~Handled THEN Unhandled
     ELSE IF mtxLeaked THEN BlockOnLock
     ELSE /\ prs' = ApplyHasVote(prs, msg)
          /\ UNCHANGED lockVars
  /\ UNCHANGED <<reactorVars, gossipVars, rs, peerVars, toPeer, inNRS,
                 inProposal, inVote>>

\* The body shared by ReceiveNewVote and ReceiveNewCommit: lock ps.mtx,
\* then `return` before `defer ps.mtx.Unlock()`.
LeakingHandler(kind) ==
  /\ Dispatching /\ kind \in inVote
  /\ inVote' = inVote \ {kind}
  /\ IF ~Handled THEN Unhandled
     ELSE IF mtxLeaked THEN BlockOnLock
     ELSE /\ mtxLeaked' = TRUE
          /\ UNCHANGED <<recvBlocked, prs>>
  /\ UNCHANGED <<reactorVars, gossipVars, rs, peerVars, toPeer, inNRS,
                 inProposal, inHasVote>>

\* ReceiveNewVote (lines 429-454).
ReceiveNewVote == LeakingHandler("Vote")

\* ReceiveNewCommit (lines 482-507).
ReceiveNewCommit == LeakingHandler("CommitStep")

-----------------------------------------------------------------------------
(* gossipDataRoutine (lines 595-673).  Each iteration checks the stop      *)
(* flags, then snapshots rs and, under ps.mtx, prs.  An iteration that     *)
(* only sleeps changes nothing and is a stuttering step.                   *)

GossipActive == gpc = "top" /\ ~crashed /\ alive /\ running

\* The peer is on an earlier height: the catch-up branch panics (line 614).
PeerBehind == 0 < prs.Height /\ prs.Height < rs.Height

\* `if !peer.IsAlive || !conR.running { return }` (lines 603-606).
GossipExit ==
  /\ gpc = "top" /\ ~crashed
  /\ ~alive \/ ~running
  /\ gpc' = "exited"
  /\ UNCHANGED <<reactorVars, lockVars, gProposal, rs, peerVars, netVars, prs>>

GossipPanic ==
  /\ GossipActive /\ ~mtxLeaked
  /\ PeerBehind
  /\ crashed' = TRUE
  /\ UNCHANGED <<reactor, added, psExists, alive, lockVars, gossipVars, rs,
                 peerVars, netVars, prs>>

\* Same (height, round), we have a proposal, the mirror says the peer has
\* none: go and send it (lines 631-646).
GossipPickProposal ==
  /\ GossipActive /\ ~mtxLeaked
  /\ ~PeerBehind
  /\ rs.Height = prs.Height /\ rs.Round = prs.Round
  /\ rs.Proposal # Nil /\ ~prs.Proposal
  /\ gpc' = "send"
  /\ gProposal' = rs.Proposal
  /\ UNCHANGED <<reactorVars, lockVars, rs, peerVars, netVars, prs>>

\* Send replaced by a TrySend: a full queue drops the message and the peer
\* stays connected.
GossipSendProposalTry ==
  /\ gpc = "send" /\ ~crashed
  /\ \/ toPeer' = toPeer \cup {<<gProposal.Height, gProposal.Round>>}
     \/ UNCHANGED toPeer
  /\ gpc' = "mark"
  /\ UNCHANGED <<reactorVars, lockVars, gProposal, rs, peerVars, inNRS,
                 inProposal, inHasVote, inVote, prs>>

\* p2p.Send of the ProposalMessage (line 648).  An error is only logged;
\* the transport drops a peer whose write fails.
GossipSendProposal ==
  /\ gpc = "send" /\ ~crashed
  /\ \/ /\ toPeer' = toPeer \cup {<<gProposal.Height, gProposal.Round>>}
        /\ UNCHANGED alive
     \/ /\ alive' = FALSE
        /\ UNCHANGED toPeer
  /\ gpc' = "mark"
  /\ UNCHANGED <<reactor, added, psExists, crashed, lockVars, gProposal, rs,
                 peerVars, inNRS, inProposal, inHasVote, inVote, prs>>

\* ps.SetHasProposal(rs.Proposal) whatever Send returned (line 651), then
\* the ProposalPOL message and `continue` (lines 657-666).
GossipMarkProposal ==
  /\ gpc = "mark" /\ ~crashed /\ ~mtxLeaked
  /\ prs' = SetHasProposal(prs, gProposal)
  /\ gpc' = "top"
  /\ UNCHANGED <<reactorVars, lockVars, gProposal, rs, peerVars, netVars>>

-----------------------------------------------------------------------------
(* The collaborators: the local state machine, the peer, the transport.    *)

\* The local state machine enters a later (height, round, step); a new
\* (height, round) has no proposal yet.
LocalEnterStep(h, r, s) ==
  /\ ~crashed
  /\ LexLess(HRS(rs), <<h, r, s>>)
  /\ rs' = [Height |-> h, Round |-> r, Step |-> s,
            Proposal |-> IF h = rs.Height /\ r = rs.Round
                         THEN rs.Proposal ELSE Nil]
  /\ UNCHANGED <<reactorVars, lockVars, gossipVars, peerVars, netVars, prs>>

\* The local state machine gets the proposal of its (height, round).
LocalSetProposal ==
  /\ ~crashed
  /\ rs.Proposal = Nil /\ rs.Step >= RoundStepPropose
  /\ rs' = [rs EXCEPT !.Proposal = ProposalFor(rs.Height, rs.Round)]
  /\ UNCHANGED <<reactorVars, lockVars, gossipVars, peerVars, netVars, prs>>

PeerConnected == added /\ alive /\ ~crashed

\* The peer enters a later step and announces it; on a new height its
\* last commit is the round it left.
PeerEnterStep(h, r, s) ==
  /\ PeerConnected
  /\ LexLess(HRS(peer), <<h, r, s>>)
  /\ LET lcr == IF h > peer.Height THEN peer.Round ELSE peer.LastCommitRound
     IN /\ peer' = [Height |-> h, Round |-> r, Step |-> s,
                    LastCommitRound |-> lcr]
        /\ inNRS' = inNRS \cup {[Height |-> h, Round |-> r, Step |-> s,
                                 LastCommitRound |-> lcr]}
  /\ UNCHANGED <<reactorVars, lockVars, gossipVars, rs, peerProposals,
                 toPeer, inProposal, inHasVote, inVote, prs>>

\* The peer obtains the proposal of its (height, round) and gossips it to us.
PeerSendProposal ==
  /\ PeerConnected /\ peer.Step >= RoundStepPropose
  /\ peerProposals' = peerProposals \cup {<<peer.Height, peer.Round>>}
  /\ inProposal' = inProposal \cup {ProposalFor(peer.Height, peer.Round)}
  /\ UNCHANGED <<reactorVars, lockVars, gossipVars, rs, peer, toPeer, inNRS,
                 inHasVote, inVote, prs>>

PeerSendHasVote(t, i) ==
  /\ PeerConnected
  /\ inHasVote' = inHasVote \cup {[Height |-> peer.Height, Round |-> peer.Round,
                                   Type |-> t, Index |-> i]}
  /\ UNCHANGED <<reactorVars, lockVars, gossipVars, rs, peerVars, toPeer,
                 inNRS, inProposal, inVote, prs>>

PeerSendVoteOrCommit(kind) ==
  /\ PeerConnected /\ PeerSendsVotes
  /\ inVote' = inVote \cup {kind}
  /\ UNCHANGED <<reactorVars, lockVars, gossipVars, rs, peerVars, toPeer,
                 inNRS, inProposal, inHasVote, prs>>

PeerDisconnect ==
  /\ PeerConnected
  /\ alive' = FALSE
  /\ UNCHANGED <<reactor, added, psExists, crashed, lockVars, gossipVars, rs,
                 peerVars, netVars, prs>>

\* The transport delivers one of our Proposal messages to the peer.
DeliverProposal(x) ==
  /\ x \in toPeer
  /\ toPeer' = toPeer \ {x}
  /\ peerProposals' = peerProposals \cup {x}
  /\ UNCHANGED <<reactorVars, lockVars, gossipVars, rs, peer, inNRS,
                 inProposal, inHasVote, inVote, prs>>

-----------------------------------------------------------------------------
VoteKinds == {"Vote", "CommitStep"}

Receive ==
  \/ \E msg \in inNRS : ReceiveNewRoundStepMsg(msg)
  \/ \E prop \in inProposal : ReceiveNewProposal(prop)
  \/ \E msg \in inHasVote : ReceiveHasVote(msg)
  \/ ReceiveNewVote \/ ReceiveNewCommit

Gossip ==
  \/ GossipExit \/ GossipPanic \/ GossipPickProposal
  \/ GossipSendProposal \/ GossipMarkProposal

Environment ==
  \/ \E h \in 1..MaxHeight, r \in 0..MaxRound, s \in StepSet :
       LocalEnterStep(h, r, s) \/ PeerEnterStep(h, r, s)
  \/ LocalSetProposal \/ PeerSendProposal
  \/ \E i \in Vals : PeerSendHasVote(VoteTypePrevote, i)
  \/ \E kind \in VoteKinds : PeerSendVoteOrCommit(kind)
  \/ PeerDisconnect
  \/ \E x \in toPeer : DeliverProposal(x)

Next == Start \/ Stop \/ AddPeer \/ Receive \/ Gossip \/ Environment

\* The dispatcher and the gossip goroutine are scheduled, and the transport
\* delivers what it accepted, each peer's messages in order, so no kind of
\* message waits for ever behind others; the collaborators need not move.
Fairness ==
  /\ WF_vars(\E msg \in inNRS : ReceiveNewRoundStepMsg(msg))
  /\ WF_vars(\E prop \in inProposal : ReceiveNewProposal(prop))
  /\ WF_vars(\E msg \in inHasVote : ReceiveHasVote(msg))
  /\ WF_vars(ReceiveNewVote) /\ WF_vars(ReceiveNewCommit)
  /\ WF_vars(GossipExit) /\ WF_vars(GossipPanic)
  /\ WF_vars(GossipPickProposal) /\ WF_vars(GossipSendProposal)
  /\ WF_vars(GossipMarkProposal)
  /\ WF_vars(\E x \in toPeer : DeliverProposal(x))

Spec == Init /\ [][Next]_vars /\ Fairness

-----------------------------------------------------------------------------
TypeOK ==
  /\ reactor \in {"idle", "running", "stopped"}
  /\ {added, psExists, alive, crashed, mtxLeaked, recvBlocked} \subseteq BOOLEAN
  /\ gpc \in {"none", "top", "send", "mark", "exited"}
  /\ gProposal \in Proposals \cup {Nil}
  /\ rs \in RoundStates
  /\ peer \in PeerStates
  /\ peerProposals \subseteq Heights \X Rounds
  /\ toPeer \subseteq Heights \X Rounds
  /\ inNRS \subseteq NewRoundStepMessages
  /\ inProposal \subseteq Proposals
  /\ inHasVote \subseteq HasVoteMessages
  /\ inVote \subseteq VoteKinds
  /\ prs \in PeerRoundStates

\* The gossip routine snapshots prs, sends, and only then calls
\* SetHasProposal while the receive dispatcher may have moved the mirror
\* (lines 608-651): while the peer is connected, whenever the mirror says
\* the peer has the proposal of the mirror's (height, round), the peer has
\* one or ours is on its way to it.
MirrorSound ==
  alive /\ prs.Proposal =>
    <<prs.Height, prs.Round>> \in peerProposals \cup toPeer

\* The peer is connected, the reactor runs, both sides are at the same
\* (height, round), we have its proposal and the peer has none.
ProposalWanted ==
  /\ running /\ psExists /\ alive /\ ~crashed
  /\ rs.Proposal # Nil
  /\ peer.Height = rs.Height /\ peer.Round = rs.Round
  /\ <<rs.Height, rs.Round>> \notin peerProposals

\* The purpose of gossipDataRoutine (lines 643-667): a proposal the peer
\* wants for the (height, round) it shares with us does not stay wanted
\* for ever; it reaches the peer unless something else changes first.
ProposalEventuallyGossiped == []<>~ProposalWanted

\* The spec (section 4.5) makes the catch-up branch optional but says it
\* must not corrupt the mirror: the node never panics in the gossip routine.
NoGossipPanic == ~crashed

=============================================================================
