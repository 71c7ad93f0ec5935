------------------------ MODULE EvidenceReactor_proofs ------------------------
(***************************************************************************)
(* Proofs, for every value of the constants, of the invariants that the    *)
(* EvidenceReactor run checks on a small instance: the type invariant and  *)
(* NeverAheadOfPeer, across the gap between checkSendEvidenceMessage        *)
(* reading the peer's height and peer.Send, with evidence pushed, evicted  *)
(* and received meanwhile.                                                 *)
(***************************************************************************)
EXTENDS EvidenceReactor, FiniteSetTheorems, TLAPS

\* No item's height or time is beyond our chain: the pool only adds
\* evidence of a height and a time we have reached (AddEvidence), and the
\* chain only grows.  Needed for the age that SendOk records to be a
\* duration, 0 or more.
EvidenceInPast == \A i \in Ids : evH[i] <= height /\ evT[i] <= lastBlockTime

\* The routine's cursor is a pushed item from Check until the select, and
\* every item sent was pushed: so a later push, which writes ids above
\* `pushed`, never rewrites the height the routine checked.
CursorPushed ==
  /\ pc \in {"check", "send", "select"} => next \in 1..pushed
  /\ \A s \in sent : s.ev \in 1..pushed

\* Between Check and Send the peer's height, once read, only grows: the
\* evidence the routine is about to send is not above it.
SendChecked ==
  pc = "send" => peerHeight # NoState /\ evH[next] <= peerHeight

\* The inductive invariant.  NeverAheadOfPeer alone is not inductive: SendOk
\* records the height Check read (needs SendChecked), and a push must not
\* rewrite a sent item's height (needs CursorPushed).
IInv ==
  TypeOK /\ EvidenceInPast /\ CursorPushed /\ SendChecked /\ NeverAheadOfPeer

-----------------------------------------------------------------------------
(* Lemmas on Receive's PushAll: the ids it hands out are the next ones.    *)

\* The positions of a batch that AddEvidence accepted form a finite set.
LEMMA AddedFinite ==
  ASSUME NEW b \in Batches
  PROVE  /\ IsFiniteSet(Added(b))
         /\ Cardinality(Added(b)) \in Nat
         /\ Added(b) \subseteq Nat
<1>1. PICK n \in 1..2 : b \in [1..n -> Outcomes]
  BY DEF Batches
<1>2. DOMAIN b = 1..n /\ IsFiniteSet(1..n)
  BY <1>1, FS_Interval
<1>3. Added(b) \subseteq 1..n
  BY <1>2 DEF Added, Handled
<1>4. IsFiniteSet(Added(b))
  BY <1>2, <1>3, FS_Subset
<1> QED
  BY <1>3, <1>4, FS_CardinalityType

\* The id PushAll gives the j-th accepted item of the batch is one of the
\* ids above `pushed` that the push claims.
LEMMA IdOfRange ==
  ASSUME NEW b \in Batches, NEW j \in Added(b)
  PROVE  Cardinality({k \in Added(b) : k <= j})
           \in 1..Cardinality(Added(b))
<1> DEFINE S == {k \in Added(b) : k <= j}
<1>1. IsFiniteSet(Added(b)) /\ Added(b) \subseteq Nat
  BY AddedFinite
<1>2. IsFiniteSet(S) /\ Cardinality(S) <= Cardinality(Added(b))
  BY <1>1, FS_Subset
<1>3. S # {} /\ Cardinality(S) \in Nat
  BY <1>1, <1>2, FS_CardinalityType
<1>4. Cardinality(S) # 0
  BY <1>2, <1>3, FS_EmptySet
<1> QED
  BY <1>2, <1>3, <1>4, AddedFinite

\* What a push does to the list and to the items' heights and times: it
\* claims the next Cardinality(Added(b)) ids, leaves every pushed item as
\* it was, and gives the new ones a height and a time we have reached.
LEMMA PushAllFacts ==
  ASSUME TypeOK, EvidenceInPast, NEW b \in Batches, PushAll(b)
  PROVE  /\ pushed' \in pushed..NumEv
         /\ live' \subseteq 1..pushed'
         /\ evH' \in [Ids -> 0..MaxHeight] /\ evT' \in [Ids -> 0..MaxTime]
         /\ \A i \in Ids : evH'[i] <= height /\ evT'[i] <= lastBlockTime
         /\ \A i \in 1..pushed : evH'[i] = evH[i]
<1> DEFINE n == Cardinality(Added(b))
           idOf(j) == pushed + Cardinality({k \in Added(b) : k <= j})
<1>1. n \in Nat /\ pushed \in Nat /\ pushed + n <= NumEv
  BY AddedFinite DEF PushAll, TypeOK
<1>2. \A j \in Added(b) : idOf(j) \in pushed + 1 .. pushed + n
  BY <1>1, IdOfRange
<1>3. pushed' = pushed + n
  BY DEF PushAll
<1>4. live' = live \cup {idOf(j) : j \in Added(b)}
  BY DEF PushAll
<1>5. PICK hs \in [Added(b) -> 1..height],
           ts \in [Added(b) -> 0..lastBlockTime] :
        /\ evH' = [i \in Ids |-> IF \E j \in Added(b) : idOf(j) = i
                                 THEN hs[CHOOSE j \in Added(b) : idOf(j) = i]
                                 ELSE evH[i]]
        /\ evT' = [i \in Ids |-> IF \E j \in Added(b) : idOf(j) = i
                                 THEN ts[CHOOSE j \in Added(b) : idOf(j) = i]
                                 ELSE evT[i]]
  BY DEF PushAll
<1>6. height \in 1..MaxHeight /\ lastBlockTime \in 0..MaxTime
  BY DEF TypeOK
<1>7. \A i \in Ids : evH'[i] \in 0..height /\ evT'[i] \in 0..lastBlockTime
  <2> SUFFICES ASSUME NEW i \in Ids
               PROVE  evH'[i] \in 0..height /\ evT'[i] \in 0..lastBlockTime
    OBVIOUS
  <2>1. CASE \E j \in Added(b) : idOf(j) = i
    <3> DEFINE c == CHOOSE j \in Added(b) : idOf(j) = i
    <3>1. c \in Added(b)
      BY <2>1
    <3>2. evH'[i] = hs[c] /\ evT'[i] = ts[c]
      BY <1>5, <2>1
    <3>3. hs[c] \in 1..height /\ ts[c] \in 0..lastBlockTime
      BY <3>1
    <3> QED
      BY <3>2, <3>3, <1>6
  <2>2. CASE ~\E j \in Added(b) : idOf(j) = i
    <3>1. evH'[i] = evH[i] /\ evT'[i] = evT[i]
      BY <1>5, <2>2
    <3> QED
      BY <3>1 DEF TypeOK, EvidenceInPast
  <2> QED
    BY <2>1, <2>2
<1>8. \A i \in 1..pushed : evH'[i] = evH[i]
  <2> SUFFICES ASSUME NEW i \in 1..pushed PROVE evH'[i] = evH[i]
    OBVIOUS
  <2>1. ~\E j \in Added(b) : idOf(j) = i
    <3> SUFFICES ASSUME NEW j \in Added(b), idOf(j) = i PROVE FALSE
      OBVIOUS
    <3>1. idOf(j) \in pushed + 1 .. pushed + n
      BY <1>2
    <3> QED
      BY <1>1, <3>1
  <2>2. i \in Ids
    BY <1>1, EvidenceAssumption DEF Ids
  <2> QED
    BY <1>5, <2>1, <2>2
<1>9. live' \subseteq 1..pushed'
  <2>1. live \subseteq 1..pushed
    BY DEF TypeOK
  <2>2. {idOf(j) : j \in Added(b)} \subseteq pushed + 1 .. pushed + n
    <3> SUFFICES ASSUME NEW x \in {idOf(j) : j \in Added(b)}
                 PROVE  x \in pushed + 1 .. pushed + n
      OBVIOUS
    <3>1. PICK j \in Added(b) : x = idOf(j)
      OBVIOUS
    <3> QED
      BY <1>2, <3>1
  <2> SUFFICES ASSUME NEW x \in live' PROVE x \in 1..pushed'
    OBVIOUS
  <2>3. x \in live \/ x \in {idOf(j) : j \in Added(b)}
    BY <1>4
  <2> HIDE DEF idOf, n
  <2>4. CASE x \in live
    BY <1>1, <1>3, <2>1, <2>4
  <2>5. CASE x \in {idOf(j) : j \in Added(b)}
    BY <1>1, <1>3, <2>2, <2>5
  <2> QED
    BY <2>3, <2>4, <2>5
<1>10. evH' \in [Ids -> 0..MaxHeight] /\ evT' \in [Ids -> 0..MaxTime]
  <2>1. /\ evH' = [i \in Ids |-> evH'[i]]
        /\ evT' = [i \in Ids |-> evT'[i]]
    BY <1>5
  <2>2. \A i \in Ids : evH'[i] \in 0..MaxHeight /\ evT'[i] \in 0..MaxTime
    BY <1>6, <1>7, EvidenceAssumption
  <2> HIDE DEF n, idOf
  <2> QED
    BY <2>1, <2>2, Zenon
<1> QED
  BY <1>1, <1>3, <1>7, <1>8, <1>9, <1>10 DEF TypeOK

-----------------------------------------------------------------------------
(* Lemmas on the list walk: EvidenceFront() and Next() return an element   *)
(* still on the list, or nil.                                              *)

\* A non-empty set of naturals has a least element (the well-foundedness of
\* < on Nat).
LEMMA LeastExists ==
  ASSUME NEW T \in SUBSET Nat, T # {}
  PROVE  \E i \in T : \A j \in T : i <= j
<1>1. PICK x \in T : \A y \in T : ~(<<y, x>> \in OpToRel(<, Nat))
  BY NatLessThanWellFounded, WFMin
<1>2. \A y \in T : ~(y < x)
  BY <1>1 DEF OpToRel
<1> QED
  BY <1>2

\* EvidenceFront() is nil exactly on an empty list, else on the list.
LEMMA FrontFacts ==
  ASSUME TypeOK
  PROVE  /\ live = {} => Front = Nil
         /\ live # {} => Front \in live
<1>1. live \subseteq Nat
  BY DEF TypeOK
<1>2. live # {} => \E i \in live : \A j \in live : i <= j
  BY <1>1, LeastExists
<1> QED
  BY <1>2 DEF Front

\* next.Next() is nil or on the list.
LEMMA SuccFacts ==
  ASSUME TypeOK, NEW c
  PROVE  Succ(c) = Nil \/ Succ(c) \in live
<1> DEFINE after == {j \in live : j > c}
<1>0. live \subseteq Nat
  BY DEF TypeOK
<1>1. after \subseteq Nat
  BY <1>0
<1>2. after # {} => \E i \in after : \A j \in after : i <= j
  BY <1>1, LeastExists
<1> QED
  BY <1>2 DEF Succ

-----------------------------------------------------------------------------
(* The inductive invariant holds initially and is kept by every action.    *)

LEMMA InitIInv == Init => IInv
BY EvidenceAssumption DEF Init, IInv, TypeOK, EvidenceInPast, CursorPushed,
                          SendChecked, NeverAheadOfPeer, Ids, Nil, PcValues

\* The typing facts the routine's steps keep needing.
LEMMA CursorType ==
  ASSUME IInv, pc \in {"check", "send", "select"}
  PROVE  /\ next \in Ids /\ next \in 1..pushed
         /\ evH[next] \in 0..MaxHeight /\ evT[next] \in 0..lastBlockTime
<1>1. next \in 1..pushed /\ pushed \in 0..NumEv
  BY DEF IInv, CursorPushed, TypeOK
<1>2. next \in Ids
  BY <1>1, EvidenceAssumption DEF Ids
<1> QED
  BY <1>1, <1>2 DEF IInv, TypeOK, EvidenceInPast

\* The routine's steps that only move its program counter or its cursor.
LEMMA WalkIInv ==
  ASSUME IInv,
         Top \/ WaitPending \/ TakeFront \/ SendFail \/ Sleep \/ SelectNext
         \/ SelectTimeout
  PROVE  IInv'
<1> USE DEF IInv, EvidenceInPast, CursorPushed, SendChecked,
            NeverAheadOfPeer, chainVars
<1>1. CASE Top
  BY <1>1 DEF Top, TypeOK, PcValues, Nil
<1>2. CASE WaitPending
  BY <1>2 DEF WaitPending, TypeOK, PcValues
<1>3. CASE TakeFront
  <2>1. Front = Nil \/ Front \in live
    BY FrontFacts
  <2>2. live \subseteq 1..pushed /\ pushed \in Nat
    BY DEF TypeOK
  <2>3. /\ next' \in 0..pushed
        /\ pc' \in PcValues /\ pc' # "send"
        /\ pc' \in {"check", "send", "select"} => next' \in 1..pushed
    <3>1. next' = Front /\ pc' = IF Front = Nil THEN "top" ELSE "check"
      BY <1>3 DEF TakeFront
    <3>2. CASE Front = Nil
      BY <2>2, <3>1, <3>2 DEF PcValues, Nil
    <3>3. CASE Front \in live
      <4>1. Front # Nil /\ Front \in 1..pushed
        BY <2>2, <3>3 DEF Nil
      <4> QED
        BY <3>1, <4>1 DEF PcValues
    <3> QED
      BY <2>1, <3>2, <3>3
  <2>4. UNCHANGED <<pushed, live, evH, evT, height, lastBlockTime, peerHeight,
                    peerUp, reactorUp, sent>>
    BY <1>3 DEF TakeFront
  <2> QED
    BY <2>3, <2>4 DEF TypeOK, Nil
<1>4. CASE SendFail \/ Sleep
  BY <1>4 DEF SendFail, Sleep, TypeOK, PcValues
<1>5. CASE SelectNext
  <2>1. Succ(next) = Nil \/ Succ(next) \in live
    BY SuccFacts
  <2>2. live \subseteq 1..pushed /\ pushed \in Nat
    BY DEF TypeOK
  <2>3. /\ next' \in 0..pushed
        /\ pc' \in PcValues /\ pc' # "send"
        /\ pc' \in {"check", "send", "select"} => next' \in 1..pushed
    <3>1. pc' = "top" /\ next' \in {Nil, Succ(next)}
      BY <1>5 DEF SelectNext
    <3>2. Succ(next) \in 0..pushed
      <4>1. CASE Succ(next) = Nil
        BY <2>2, <4>1 DEF Nil
      <4>2. CASE Succ(next) \in live
        <5>1. \A x \in live : x \in 0..pushed
          BY <2>2
        <5> QED
          BY <5>1, <4>2, Zenon
      <4> QED
        BY <2>1, <4>1, <4>2
    <3>3. {Nil, Succ(next)} \subseteq 0..pushed
      BY <2>2, <3>2 DEF Nil
    <3> QED
      BY <3>1, <3>3 DEF PcValues
  <2>4. UNCHANGED <<pushed, live, evH, evT, height, lastBlockTime, peerHeight,
                    peerUp, reactorUp, sent>>
    BY <1>5 DEF SelectNext
  <2> QED
    BY <2>3, <2>4 DEF TypeOK, Nil
<1>6. CASE SelectTimeout
  BY <1>6 DEF SelectTimeout, TypeOK, PcValues, Nil
<1> QED
  BY <1>1, <1>2, <1>3, <1>4, <1>5, <1>6

\* checkSendEvidenceMessage goes to Send only with a peer height at least
\* the evidence's.
LEMMA CheckIInv ==
  ASSUME IInv, Check
  PROVE  IInv'
<1> USE DEF IInv, EvidenceInPast, CursorPushed, NeverAheadOfPeer, chainVars
<1>1. next \in Ids /\ evH[next] \in 0..MaxHeight
  BY CursorType DEF Check
<1>2. peerHeight \in {NoState} \cup 0..MaxHeight
  BY DEF TypeOK
<1>3. CheckSendEvidence(next, peerHeight, lastBlockTime) = "send" =>
        peerHeight # NoState /\ evH[next] <= peerHeight
  BY <1>1, <1>2 DEF CheckSendEvidence
<1>4. CheckSendEvidence(next, peerHeight, lastBlockTime)
        \in {"retry", "skip", "send"}
  BY DEF CheckSendEvidence
<1>5. pc' \in {"sleep", "select", "send"}
      /\ (pc' = "send" => CheckSendEvidence(next, peerHeight, lastBlockTime)
                            = "send")
  BY <1>4 DEF Check
<1> QED
  BY <1>3, <1>5 DEF Check, TypeOK, PcValues, SendChecked

\* peer.Send succeeds: the recorded peer height is the one Check read, or
\* a later one, and the age is a duration.
LEMMA SendOkIInv ==
  ASSUME IInv, SendOk
  PROVE  IInv'
<1> USE DEF IInv, EvidenceInPast, CursorPushed, SendChecked, chainVars
<1>1. next \in Ids /\ next \in 1..pushed /\ evT[next] \in 0..lastBlockTime
  BY CursorType DEF SendOk
<1>2. peerHeight \in 0..MaxHeight /\ evH[next] <= peerHeight
  BY DEF SendOk, TypeOK
<1>3. lastBlockTime - evT[next] \in 0..MaxTime
  BY <1>1, EvidenceAssumption DEF TypeOK
<1>4. [ev |-> next, peerHeight |-> peerHeight,
       age |-> lastBlockTime - evT[next]]
        \in [ev: Ids, peerHeight: 0..MaxHeight, age: 0..MaxTime]
  BY <1>1, <1>2, <1>3
<1> QED
  BY <1>1, <1>2, <1>4 DEF SendOk, TypeOK, PcValues, NeverAheadOfPeer

\* Receive: a push leaves every pushed item's height as it was, so neither
\* what was sent nor what the routine checked is rewritten.
LEMMA ReceiveIInv ==
  ASSUME IInv, NEW b \in Batches, Receive(b)
  PROVE  IInv'
<1> USE DEF IInv
<1>1. /\ pushed' \in pushed..NumEv
      /\ live' \subseteq 1..pushed'
      /\ evH' \in [Ids -> 0..MaxHeight] /\ evT' \in [Ids -> 0..MaxTime]
      /\ \A i \in Ids : evH'[i] <= height /\ evT'[i] <= lastBlockTime
      /\ \A i \in 1..pushed : evH'[i] = evH[i]
  BY PushAllFacts DEF Receive
<1>2. UNCHANGED <<height, lastBlockTime, peerHeight, reactorUp, pc, next,
                  sent>> /\ peerUp' \in BOOLEAN
  BY DEF Receive
<1>3. pushed \in Nat /\ 1..pushed \subseteq 1..pushed'
  BY <1>1 DEF TypeOK
<1>4. TypeOK'
  BY <1>1, <1>2, <1>3 DEF TypeOK
<1>5. EvidenceInPast'
  BY <1>1, <1>2 DEF EvidenceInPast
<1>6. CursorPushed'
  BY <1>2, <1>3 DEF CursorPushed
<1>7. SendChecked'
  BY <1>1, <1>2 DEF SendChecked, CursorPushed
<1>8. NeverAheadOfPeer'
  BY <1>1, <1>2 DEF NeverAheadOfPeer, CursorPushed
<1> QED
  BY <1>4, <1>5, <1>6, <1>7, <1>8

\* The local node adds an item at the next id, of a height and a time we
\* have reached.
LEMMA AddLocalIInv ==
  ASSUME IInv, AddLocalEvidence
  PROVE  IInv'
<1> USE DEF IInv
<1>1. pushed \in Nat /\ pushed + 1 \in Ids
  BY EvidenceAssumption DEF AddLocalEvidence, TypeOK, Ids
<1>2. PICK h \in 1..height, t \in 0..lastBlockTime :
        evH' = [evH EXCEPT ![pushed + 1] = h]
        /\ evT' = [evT EXCEPT ![pushed + 1] = t]
  BY DEF AddLocalEvidence
<1>3. height \in 1..MaxHeight /\ lastBlockTime \in 0..MaxTime
  BY DEF TypeOK
<1>4. \A i \in 1..pushed : evH'[i] = evH[i]
  BY <1>1, <1>2 DEF TypeOK
<1>5. UNCHANGED <<height, lastBlockTime, peerHeight, peerUp, reactorUp, pc,
                  next, sent>>
      /\ pushed' = pushed + 1 /\ live' = live \cup {pushed + 1}
  BY DEF AddLocalEvidence
<1>6. TypeOK'
  <2>1. evH' \in [Ids -> 0..MaxHeight] /\ evT' \in [Ids -> 0..MaxTime]
    BY <1>1, <1>2, <1>3, EvidenceAssumption DEF TypeOK
  <2>2. pushed' \in 0..NumEv /\ live' \subseteq 1..pushed'
        /\ next' \in 0..pushed'
    BY <1>1, <1>5 DEF TypeOK, Ids
  <2> QED
    BY <1>5, <2>1, <2>2 DEF TypeOK
<1>7. EvidenceInPast'
  BY <1>1, <1>2, <1>3, <1>5 DEF EvidenceInPast, TypeOK
<1>8. CursorPushed' /\ SendChecked' /\ NeverAheadOfPeer'
  BY <1>1, <1>4, <1>5 DEF CursorPushed, SendChecked, NeverAheadOfPeer
<1> QED
  BY <1>6, <1>7, <1>8

\* The other collaborators: evictions, new blocks, the peer's height, the
\* stop flags and an undecodable message.
LEMMA CollaboratorsIInv ==
  ASSUME IInv,
         \/ ReceiveUndecodable
         \/ \E i \in live : Evict(i)
         \/ \E t \in 0..MaxTime : NewBlock(t)
         \/ AttachPeerState \/ PeerAdvance \/ StopPeer \/ StopReactor
  PROVE  IInv'
<1> USE DEF IInv, TypeOK, EvidenceInPast, CursorPushed, SendChecked,
            NeverAheadOfPeer, chainVars
<1>1. CASE ReceiveUndecodable \/ StopPeer \/ StopReactor
  BY <1>1 DEF ReceiveUndecodable, StopPeer, StopReactor
<1>2. ASSUME NEW i \in live, Evict(i) PROVE IInv'
  BY <1>2 DEF Evict
<1>3. ASSUME NEW t \in 0..MaxTime, NewBlock(t) PROVE IInv'
  BY <1>3, EvidenceAssumption DEF NewBlock
<1>4. CASE AttachPeerState
  BY <1>4, EvidenceAssumption DEF AttachPeerState
<1>5. CASE PeerAdvance
  <2>1. peerHeight \in 0..MaxHeight - 1 /\ peerHeight' = peerHeight + 1
    BY <1>5, EvidenceAssumption DEF PeerAdvance
  <2>2. peerHeight' \in 0..MaxHeight /\ peerHeight' # NoState
        /\ peerHeight <= peerHeight'
    BY <2>1, EvidenceAssumption
  <2>3. UNCHANGED <<chainVars, peerUp, reactorUp, pc, next, sent>>
    BY <1>5 DEF PeerAdvance
  <2>4. SendChecked'
    <3> SUFFICES ASSUME pc' = "send" PROVE evH'[next'] <= peerHeight'
      BY <2>2
    <3>1. evH[next] <= peerHeight /\ evH[next] \in Int
      BY <2>3, CursorType
    <3> QED
      BY <2>1, <2>2, <2>3, <3>1
  <2>5. TypeOK'
    BY <2>2, <2>3
  <2> QED
    BY <2>3, <2>4, <2>5
<1> QED
  BY <1>1, <1>2, <1>3, <1>4, <1>5

\* Every step keeps the inductive invariant, and so does a stuttering step.
LEMMA NextIInv == IInv /\ [Next]_vars => IInv'
<1> SUFFICES ASSUME IInv, [Next]_vars PROVE IInv'
  OBVIOUS
<1>1. CASE Top \/ WaitPending \/ TakeFront \/ SendFail \/ Sleep \/ SelectNext
           \/ SelectTimeout
  BY <1>1, WalkIInv
<1>2. CASE Check
  BY <1>2, CheckIInv
<1>3. CASE SendOk
  BY <1>3, SendOkIInv
<1>4. CASE \E b \in Batches : Receive(b)
  BY <1>4, ReceiveIInv
<1>5. CASE AddLocalEvidence
  BY <1>5, AddLocalIInv
<1>6. CASE \/ ReceiveUndecodable
           \/ \E i \in live : Evict(i)
           \/ \E t \in 0..MaxTime : NewBlock(t)
           \/ AttachPeerState \/ PeerAdvance \/ StopPeer \/ StopReactor
  BY <1>6, CollaboratorsIInv
<1>7. CASE UNCHANGED vars
  BY <1>7 DEF vars, chainVars, IInv, TypeOK, EvidenceInPast, CursorPushed,
              SendChecked, NeverAheadOfPeer
<1> QED
  BY <1>1, <1>2, <1>3, <1>4, <1>5, <1>6, <1>7 DEF Next, Routine, Environment

-----------------------------------------------------------------------------
(* The theorems.                                                           *)

\* The evidence reactor's state stays well typed for every bound: the
\* routine's cursor is nil or a pushed id, and every Send it records has a
\* peer height and a non-negative age, under any interleaving with Receive,
\* evictions, new blocks and the peer's progress.
THEOREM TypeCorrect == Spec => []TypeOK
<1>1. IInv => TypeOK
  BY DEF IInv
<1> QED
  BY <1>1, InitIInv, NextIInv, PTL DEF Spec

\* NeverAheadOfPeer for every bound (spec property 8): broadcastEvidenceRoutine
\* never sends evidence above the peer height checkSendEvidenceMessage read,
\* although the consensus reactor moves that height and Receive pushes new
\* evidence between the check and peer.Send (lines 201-207).
THEOREM NeverAheadOfPeerThm == Spec => []NeverAheadOfPeer
<1>1. IInv => NeverAheadOfPeer
  BY DEF IInv
<1> QED
  BY <1>1, InitIInv, NextIInv, PTL DEF Spec

=============================================================================
