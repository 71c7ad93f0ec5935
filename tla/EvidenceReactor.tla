---------------------------- MODULE EvidenceReactor ----------------------------
(***************************************************************************)
(* The evidence reactor with one peer (evidence/reactor.go, here            *)
(* src/unnamed/part_000 lines 89-337): the peer's broadcastEvidenceRoutine   *)
(* walking the pool's pending list, checkSendEvidenceMessage, and Receive.  *)
(*                                                                         *)
(* The pool's clist is a collaborator, modelled from the spec (section      *)
(* 4.4): evidence is pushed at the back, so list order is the order of the  *)
(* ids 1..pushed, and any element may be evicted (committed or expired).    *)
(* The chain, the peer's consensus mirror height and the Start/Stop flags   *)
(* are collaborators too.                                                  *)
(***************************************************************************)
EXTENDS Integers, Sequences, FiniteSets

CONSTANTS
  NumEv,            \* how many evidence items are ever pushed
  MaxHeight,        \* greatest block height
  MaxTime,          \* greatest block time, in nanoseconds
  MaxAgeNumBlocks,  \* ConsensusParams.Evidence.MaxAgeNumBlocks
  MaxAgeDuration,   \* ConsensusParams.Evidence.MaxAgeDuration, a duration
  NoState           \* peer.Get(PeerStateKey) is not a PeerState yet

ASSUME EvidenceAssumption ==
  /\ NumEv \in Nat /\ MaxHeight \in Nat \ {0} /\ MaxTime \in Nat
  /\ MaxAgeNumBlocks \in Nat /\ MaxAgeDuration \in Nat
  /\ NoState \notin Int

\* time.Millisecond, in the nanoseconds a time.Duration counts.
Millisecond == 1000000

Ids == 1..NumEv
Nil == 0          \* a nil *clist.CElement
PcValues == {"top", "wait", "front", "check", "send", "sleep", "select",
             "exited"}

VARIABLES
  pushed,         \* ids 1..pushed have been pushed on the pending list
  live,           \* ids still on the list
  evH, evT,       \* ev.Height() and ev.Time() of each pushed id
  height,         \* the local chain height
  lastBlockTime,  \* evpool.State().LastBlockTime
  peerHeight,     \* the peer's PeerState GetHeight(), or NoState
  peerUp,         \* peer.IsRunning()
  reactorUp,      \* evR.IsRunning()
  pc,             \* where broadcastEvidenceRoutine is
  next,           \* its cursor, an id or Nil
  sent            \* ghost: [ev, peerHeight, age] of every successful Send

chainVars == <<pushed, live, evH, evT, height, lastBlockTime>>
vars == <<chainVars, peerHeight, peerUp, reactorUp, pc, next, sent>>

\* EvidenceFront(): the first element still on the list.
Front == IF live = {} THEN Nil ELSE CHOOSE i \in live : \A j \in live : i <= j

\* The first element after id c still on the list, or Nil.
Succ(c) ==
  LET after == {j \in live : j > c}
  IN IF after = {} THEN Nil ELSE CHOOSE i \in after : \A j \in after : i <= j

Init ==
  /\ pushed = 0 /\ live = {}
  /\ evH = [i \in Ids |-> 0] /\ evT = [i \in Ids |-> 0]
  /\ height = 1 /\ lastBlockTime = 0
  /\ peerHeight = NoState
  /\ peerUp = TRUE /\ reactorUp = TRUE
  /\ pc = "top" /\ next = Nil
  /\ sent = {}

-----------------------------------------------------------------------------
(* checkSendEvidenceMessage (lines 232-284), on the peer height ph and the *)
(* last block time lbt: "retry" is (nil, true), "skip" (nil, false),       *)
(* "send" ([ev], false).                                                   *)

CheckSendNoBehind(i, ph, lbt) ==
  IF ph = NoState THEN "retry"
  ELSE IF \/ ph - evH[i] > MaxAgeNumBlocks
          \/ lbt - evT[i] > MaxAgeDuration * Millisecond THEN "skip"
  ELSE "send"

CheckSendEvidence(i, ph, lbt) ==
  IF ph = NoState THEN "retry"
  ELSE IF ph < evH[i] THEN "retry"
  ELSE IF \/ ph - evH[i] > MaxAgeNumBlocks
          \/ lbt - evT[i] > MaxAgeDuration * Millisecond THEN "skip"
  ELSE "send"

-----------------------------------------------------------------------------
(* broadcastEvidenceRoutine (lines 183-228), one step per blocking point.  *)

\* `if !peer.IsRunning() || !evR.IsRunning() { return }`, then the nil check.
Top ==
  /\ pc = "top"
  /\ pc' = IF ~peerUp \/ ~reactorUp THEN "exited"
           ELSE IF next = Nil THEN "wait" ELSE "check"
  /\ UNCHANGED <<chainVars, peerHeight, peerUp, reactorUp, next, sent>>

\* `<-evR.evpool.EvidenceWaitChan()`: ready once the list is non-empty.
WaitPending ==
  /\ pc = "wait" /\ live # {}
  /\ pc' = "front"
  /\ UNCHANGED <<chainVars, peerHeight, peerUp, reactorUp, next, sent>>

\* TakeFront without the `next == nil` test of line 196: a front evicted
\* between the wake-up and EvidenceFront() is dereferenced.
TakeFrontNoNilCheck ==
  /\ pc = "front"
  /\ next' = Front
  /\ pc' = "check"
  /\ UNCHANGED <<chainVars, peerHeight, peerUp, reactorUp, sent>>

\* `next = EvidenceFront()`; nil again if it was evicted meanwhile.
TakeFront ==
  /\ pc = "front"
  /\ next' = Front
  /\ pc' = IF Front = Nil THEN "top" ELSE "check"
  /\ UNCHANGED <<chainVars, peerHeight, peerUp, reactorUp, sent>>

Check ==
  /\ pc = "check"
  /\ LET r == CheckSendEvidence(next, peerHeight, lastBlockTime)
     IN pc' = CASE r = "retry" -> "sleep"
                [] r = "skip"  -> "select"
                [] r = "send"  -> "send"
  /\ UNCHANGED <<chainVars, peerHeight, peerUp, reactorUp, next, sent>>

\* `success := peer.Send(...)`; `retry = !success`.  A stopped peer
\* refuses every message.
SendOk ==
  /\ pc = "send" /\ peerUp
  /\ sent' = sent \cup {[ev |-> next, peerHeight |-> peerHeight,
                         age |-> lastBlockTime - evT[next]]}
  /\ pc' = "select"
  /\ UNCHANGED <<chainVars, peerHeight, peerUp, reactorUp, next>>

SendFail ==
  /\ pc = "send"
  /\ pc' = "sleep"
  /\ UNCHANGED <<chainVars, peerHeight, peerUp, reactorUp, next, sent>>

\* `time.Sleep(peerCatchupSleepIntervalMS)`; `continue`.
Sleep ==
  /\ pc = "sleep"
  /\ pc' = "top"
  /\ UNCHANGED <<chainVars, peerHeight, peerUp, reactorUp, next, sent>>

\* The select case without `next = next.Next()`.
SelectNextStay ==
  /\ pc = "select"
  /\ Succ(next) # Nil \/ next \notin live
  /\ pc' = "top"
  /\ UNCHANGED <<chainVars, peerHeight, peerUp, reactorUp, next, sent>>

\* `case <-next.NextWaitChan(): next = next.Next()`: ready once a successor
\* is on the list or next was evicted; an evicted element's Next() may be
\* nil (spec section 4.4).
SelectNext ==
  /\ pc = "select"
  /\ Succ(next) # Nil \/ next \notin live
  /\ next' \in IF next \in live THEN {Succ(next)} ELSE {Nil, Succ(next)}
  /\ pc' = "top"
  /\ UNCHANGED <<chainVars, peerHeight, peerUp, reactorUp, sent>>

\* `case <-afterCh: next = nil`: 60 s pass with nothing after next.
SelectTimeout ==
  /\ pc = "select"
  /\ Succ(next) = Nil /\ next \in live
  /\ next' = Nil
  /\ pc' = "top"
  /\ UNCHANGED <<chainVars, peerHeight, peerUp, reactorUp, sent>>

Routine ==
  Top \/ WaitPending \/ TakeFront \/ Check \/ SendOk \/ SendFail \/ Sleep
  \/ SelectNext \/ SelectTimeout

-----------------------------------------------------------------------------
(* Receive (lines 154-175) of one decoded batch, as the outcomes of        *)
(* evpool.AddEvidence on its items: "ok" pushes the item, "transient" is    *)
(* logged, "invalid" stops the peer and drops the rest of the batch.        *)

Outcomes == {"ok", "transient", "invalid"}
Batches == UNION {[1..n -> Outcomes] : n \in 1..2}

\* The positions of the batch handled before the first invalid item.
Handled(b) ==
  {j \in DOMAIN b : \A k \in DOMAIN b : k < j => b[k] # "invalid"}
Added(b) == {j \in Handled(b) : b[j] = "ok"}

\* AddEvidence pushes the added items in batch order, each with a height at
\* most ours and a time at most our last block's.
PushAll(b) ==
  LET n == Cardinality(Added(b))
      idOf(j) == pushed + Cardinality({k \in Added(b) : k <= j})
  IN /\ pushed + n <= NumEv
     /\ pushed' = pushed + n
     /\ live' = live \cup {idOf(j) : j \in Added(b)}
     /\ \E hs \in [Added(b) -> 1..height], ts \in [Added(b) -> 0..lastBlockTime] :
          /\ evH' = [i \in Ids |-> IF \E j \in Added(b) : idOf(j) = i
                                   THEN hs[CHOOSE j \in Added(b) : idOf(j) = i]
                                   ELSE evH[i]]
          /\ evT' = [i \in Ids |-> IF \E j \in Added(b) : idOf(j) = i
                                   THEN ts[CHOOSE j \in Added(b) : idOf(j) = i]
                                   ELSE evT[i]]

Receive(b) ==
  /\ peerUp
  /\ PushAll(b)
  /\ peerUp' = (\A j \in DOMAIN b : b[j] # "invalid")
  /\ UNCHANGED <<height, lastBlockTime, peerHeight, reactorUp, pc, next, sent>>

\* decodeMsg fails (bad encoding or ValidateBasic): StopPeerForError.
ReceiveUndecodable ==
  /\ peerUp
  /\ peerUp' = FALSE
  /\ UNCHANGED <<chainVars, peerHeight, reactorUp, pc, next, sent>>

-----------------------------------------------------------------------------
(* The collaborators.                                                      *)

\* The local node detects misbehaviour and adds evidence to its pool.
AddLocalEvidence ==
  /\ pushed < NumEv
  /\ \E h \in 1..height, t \in 0..lastBlockTime :
       /\ evH' = [evH EXCEPT ![pushed + 1] = h]
       /\ evT' = [evT EXCEPT ![pushed + 1] = t]
  /\ pushed' = pushed + 1
  /\ live' = live \cup {pushed + 1}
  /\ UNCHANGED <<height, lastBlockTime, peerHeight, peerUp, reactorUp, pc,
                 next, sent>>

\* Evidence is committed or expires and leaves the list.
Evict(i) ==
  /\ live' = live \ {i}
  /\ UNCHANGED <<pushed, evH, evT, height, lastBlockTime, peerHeight, peerUp,
                 reactorUp, pc, next, sent>>

\* A new block at a later time.
NewBlock(t) ==
  /\ height < MaxHeight /\ t > lastBlockTime
  /\ height' = height + 1 /\ lastBlockTime' = t
  /\ UNCHANGED <<pushed, live, evH, evT, peerHeight, peerUp, reactorUp, pc,
                 next, sent>>

\* The consensus reactor attaches the peer's PeerState (its mirror starts
\* at height 0) and then learns of the peer's later heights.
AttachPeerState ==
  /\ peerHeight = NoState
  /\ peerHeight' = 0
  /\ UNCHANGED <<chainVars, peerUp, reactorUp, pc, next, sent>>

PeerAdvance ==
  /\ peerHeight # NoState /\ peerHeight < MaxHeight
  /\ peerHeight' = peerHeight + 1
  /\ UNCHANGED <<chainVars, peerUp, reactorUp, pc, next, sent>>

PeerCatchUp == PeerAdvance /\ peerHeight < height

StopPeer ==
  /\ peerUp /\ peerUp' = FALSE
  /\ UNCHANGED <<chainVars, peerHeight, reactorUp, pc, next, sent>>

StopReactor ==
  /\ reactorUp /\ reactorUp' = FALSE
  /\ UNCHANGED <<chainVars, peerHeight, peerUp, pc, next, sent>>

Environment ==
  \/ \E b \in Batches : Receive(b)
  \/ ReceiveUndecodable \/ AddLocalEvidence
  \/ \E i \in live : Evict(i)
  \/ \E t \in 0..MaxTime : NewBlock(t)
  \/ AttachPeerState \/ PeerAdvance \/ StopPeer \/ StopReactor

Next == Routine \/ Environment

\* The routine is a goroutine the scheduler runs; the transport accepts a
\* message it is offered again and again; a peer that runs consensus
\* catches up with our height.
Fairness ==
  /\ WF_vars(Top) /\ WF_vars(WaitPending) /\ WF_vars(TakeFront)
  /\ WF_vars(Check) /\ WF_vars(Sleep) /\ WF_vars(SendFail \/ SendOk)
  /\ SF_vars(SendOk)
  /\ WF_vars(SelectNext) /\ WF_vars(SelectTimeout)
  /\ WF_vars(PeerCatchUp)

Spec == Init /\ [][Next]_vars /\ Fairness

-----------------------------------------------------------------------------
\* The type invariant.  The element the routine checks and sends is never
\* a nil *CElement: line 201 dereferences it (next.Value), so a front
\* evicted between the wake-up and EvidenceFront() must send the routine
\* back to the top (line 196).
TypeOK ==
  /\ pushed \in 0..NumEv /\ live \subseteq 1..pushed
  /\ evH \in [Ids -> 0..MaxHeight] /\ evT \in [Ids -> 0..MaxTime]
  /\ height \in 1..MaxHeight /\ lastBlockTime \in 0..MaxTime
  /\ peerHeight \in {NoState} \cup 0..MaxHeight
  /\ peerUp \in BOOLEAN /\ reactorUp \in BOOLEAN
  /\ pc \in PcValues /\ next \in 0..pushed
  /\ pc \in {"check", "send"} => next # Nil
  /\ sent \subseteq [ev: Ids, peerHeight: 0..MaxHeight, age: 0..MaxTime]

\* Spec property 8, across the gap between checkSendEvidenceMessage reading
\* the peer's height and peer.Send (lines 201-207), while the consensus
\* reactor moves that height: evidence is never sent to a peer whose known
\* height is below the evidence's.
NeverAheadOfPeer == \A s \in sent : evH[s.ev] <= s.peerHeight

\* Evidence the peer could use now: on the list, not too old by the spec's
\* rule (section 4.4), at most the peer's height, both sides running.
Deliverable(i) ==
  /\ peerUp /\ reactorUp /\ i \in live /\ peerHeight # NoState
  /\ evH[i] <= peerHeight
  /\ peerHeight - evH[i] <= MaxAgeNumBlocks
  /\ lastBlockTime - evT[i] <= MaxAgeDuration

WasSent(i) == \E s \in sent : s.ev = i

\* The purpose of the routine (lines 183-228): the cursor's walk, its
\* restarts after an eviction or a timeout and the retries after a failed
\* Send never leave deliverable evidence unsent for ever.
EvidenceEventuallySent ==
  \A i \in Ids : Deliverable(i) ~> (WasSent(i) \/ ~Deliverable(i))

\* Spec section 4.7: on peer or reactor stop the routine exits; the waits on
\* the pending list must be cancellable.
RoutineExitsOnStop == (~peerUp \/ ~reactorUp) ~> pc = "exited"

\* Spec property 7: evidence gossip never sends an item older than
\* max_age_duration (line 265 scales it by time.Millisecond).
NeverSendsExpired == \A s \in sent : s.age <= MaxAgeDuration

=============================================================================
