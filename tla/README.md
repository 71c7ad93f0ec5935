# TLA+ models of the go-kardia consensus and evidence reactors

This directory holds TLA+ specifications of part of go-kardia, with TLC
configurations that model-check them and TLAPS proofs about them. The
sources modelled are:

- `src/blockchain/headerchain.go`, which despite its name holds two files.
  - Lines 1-180 are `HeaderChain`.
  - Lines 181-869 are the consensus reactor (`consensus/reactor.go`) and its `PeerState`.
- `src/unnamed/part_000`, which holds:
  - `types.Proposal` (lines 1-70);
  - the evidence reactor (lines 71-337).

`spec.md` describes the intended behaviour. The models are translated from
the code. The spec is used only for:
- types that are not under `src/`, marked `spec_modelled` in `PROJECT.json`;
- the properties the code is measured against.

## The system and how its parts interact

- **Consensus reactor.** It has one receive dispatcher per reactor. The
  dispatcher runs the message handlers: `ReceiveNewRoundStep`,
  `ReceiveNewProposal`, `ReceiveHasVote`, `ReceiveNewVote` and
  `ReceiveNewCommit`. Each peer also gets a `gossipDataRoutine` goroutine.
  Both write the peer's *mirror*: a `PeerState` holding a `PeerRoundState`
  (`prs`), guarded by `ps.mtx`. The dispatcher writes from what the peer
  announces. The gossip routine writes after it sends our proposal. The
  local consensus state machine, the remote peer and the p2p transport are
  collaborators outside `src/`.
- **Evidence reactor.** It runs one `broadcastEvidenceRoutine` per peer. The
  routine walks the evidence pool's pending list (a `clist`). It asks
  `checkSendEvidenceMessage` whether the peer is ready: this reads the
  peer's height from the `PeerState` that the consensus reactor stores in
  the peer. It then sends the item, sleeps and retries, or skips it.
  `Receive` adds a peer's evidence to the pool.
- **Header chain.** It keeps headers, their heights and the canonical
  numbering (height → hash) in a database, behind two LRU caches
  (hash → header, hash → height). `SetHead` is the only mutator of its
  own; the block chain writes headers, calls `SetCurrentHeader` and
  persists the head *block* hash, which may lag the header head. Lookups
  (`GetHeader`, `GetHeaderByHash`, `GetHeaderByHeight`) run from other
  goroutines without a lock: the caches are thread-safe, but a lookup's
  store read and its cache insert are two separate steps.

## Modules

| Module | Models | Source |
|---|---|---|
| `PeerStateOps` | Constants, types, and the mirror's methods as operators on a `PeerRoundState`. | headerchain.go 351-399 and 745-869 |
| `PeerState` | One mirror driven by an untrusted peer: any order, duplication or loss of `NewRoundStep`, `Proposal` and `HasVote` messages, plus `SetHasVote` calls. | same |
| `PeerStateOps_proofs` | TLAPS lemmas about the mirror's operators, shared by the two proof modules below. | |
| `PeerState_proofs` | TLAPS proofs about `PeerState`. | |
| `ConsensusReactor` | The reactor, its dispatcher and the gossip routine for one peer, with the mutex, the local node and the peer as collaborators. | headerchain.go 234-673 |
| `ConsensusReactor_proofs` | TLAPS proofs about `ConsensusReactor`. | |
| `Headers` | Headers as `<<height, fork>>`, genesis, and `LastCommitHash`, shared by the two header modules. | headerchain.go 162 |
| `HeaderStore` | The abstract header chain: a store and a head that `Extend`, a one-step `Rewind`, `CommitHead` and `Restart` change. | spec 4.2, headerchain.go 145 |
| `HeaderChain` | The store, both caches, `SetHead` step by step, a concurrent lookup thread, the block chain as the other writer, and crash with restart through `NewHeaderChain`. | headerchain.go 46-179 |
| `HeaderChain_proofs` | TLAPS proofs about `HeaderChain`, including that it implements `HeaderStore`. | |
| `EvidenceReactor` | The broadcast routine for one peer, step by step; `checkSendEvidenceMessage`; `Receive`; the pending list, the chain and the peer as collaborators. | part_000 148-337 |
| `EvidenceReactor_proofs` | TLAPS proofs about `EvidenceReactor`. | |

### How the state and actions map to the code

**PeerState.**
- `prs` is `ps.PRS`.
- Each method of `PeerState` takes `ps.mtx` for its whole body, so each
  method is one atomic step.
- `ReceiveNewRoundStep` is the whole handler body:
  - the `CompareHRS` early return (`IsStaleRoundStep`);
  - the reset on a new `(height, round)` (`ClearRound`);
  - the last-commit block (`ApplyNewRoundStep`).
- Lines 380 and 387 compare `*cmn.BigInt` pointers, so `==` is never true
  and `!=` is always true. The model translates what that does, not what
  the comment intends.
- Three ghost variables (`maxAnnounced`, `firstOffered`, `heard`) record
  what the peer announced. They exist only for the properties.

**ConsensusReactor.**
- Variables for the reactor: `reactor` is `conR.running` together with
  Start/Stop. `added` and `psExists` record `AddPeer` and its early return
  when the reactor is not running (lines 276-278).
- Variables for the mutex: `mtxLeaked` and `recvBlocked`. They model the
  `return` before `defer ps.mtx.Unlock()` in `ReceiveNewVote` and
  `ReceiveNewCommit`.
- The gossip routine is a program counter `gpc` with one action per
  blocking point:
  - `GossipExit`: the exit test;
  - `GossipPanic`: the catch-up branch;
  - `GossipPickProposal`: the snapshot and choice;
  - `GossipSendProposal`: `p2p.Send`;
  - `GossipMarkProposal`: `SetHasProposal`.

  Between these steps the dispatcher may move the mirror.
- `toPeer` holds our proposals in flight. `in*` hold the peer's messages.

**HeaderChain.**
- A header is a pair `<<height, fork>>` and is its own hash. `G` is
  genesis, the only header of height 0. `LastCommitHash(h)` is the
  parent, as spec section 4.2 says ("the previous header's hash"); the
  type is not under `src/`, so this is `spec_modelled`.
- `stored` is the set of headers in the database (header and height
  entries are written and deleted together). `canon` is the canonical
  numbering. `headHeader` and `headBlock` are the persisted head header
  hash and head block hash. `current` is `hc.currentHeader`.
- `cache` and `hcache` are the key sets of `headerCache` and
  `heightCache`. The limits (512, 2048) are never reached, so eviction
  does not occur.
- `sh` is SetHead's program counter, target, start height and batch:
  - `SetHeadBegin` reads the height (lines 148-153);
  - `SetHeadStep` is one loop iteration: the header goes in the batch
    and `current` moves to `GetHeader(LastCommitHash)` through the
    caches (`CachedGet`, `CacheAfterGet`);
  - `SetHeadLoopDone` is the loop exit;
  - `SetHeadWrite` deletes the batch and the canonical hashes from the
    start height down to `head+1` (lines 164-168);
  - `SetHeadFinish` purges both caches, falls back to genesis if the walk
    found nothing (`FallbackHead`), and persists the head header hash.
  The writer's own `GetHeader` is one step, since no other writer runs
  (spec section 5).
- `rd` is one lookup thread: `GetHeader` is a cache test
  (`LookupHeader`), a store read (`ReadHeader`) and a cache insert
  (`CacheHeader`); `GetBlockHeight` likewise (`LookupHeight`,
  `CacheHeight`). `rd.overlap` records that a `SetHead` or a restart ran
  during the call, for `NoStaleLookup`.
- `NewHeaderChain` is a crash at any point followed by the restart: the
  caches are fresh, any unwritten batch is lost, and the current header
  is the head block's header if the store has it, else genesis
  (`RestoredHead`, lines 65-70). `crashes` bounds it by `MaxCrashes`.
- **Refinement.** `Abs == INSTANCE HeaderStore WITH current <- AbsCurrent`
  and `AbsSpec == Abs!Spec`. The store and the head block map to
  themselves. The abstract head is `current`, except that while SetHead
  walks and before its batch is written (`sh.pc` is `loop` or `write`
  with a non-empty batch) it is `BatchTop`, the highest header in the
  batch, i.e. the header the walk started from. So `SetHeadWrite` is
  `Rewind(head)`; `ExtendChain`, `CommitHeadBlock` and `NewHeaderChain`
  are `Extend`, `CommitHead` and `Restart`; every other step (the walk,
  the purge, the lookups) is a stutter.
- `ExtendChain` (the block chain writing a child of the current header,
  making it canonical and calling `SetCurrentHeader`) and
  `CommitHeadBlock` (persisting the head block hash) are collaborators,
  only between writer operations.

**EvidenceReactor.**
- The routine's program counter `pc` and cursor `next` follow
  `broadcastEvidenceRoutine`. The steps are:
  - `Top`, `WaitPending`, `TakeFront` and `Check`;
  - `SendOk` or `SendFail`, then `Sleep`;
  - `SelectNext` or `SelectTimeout`.
- The pending list is the ids `1..pushed`. `live` holds the ids not yet
  evicted.
- `sent` records each send with the peer height and the age that
  `checkSendEvidenceMessage` saw.
- `TypeOK` also says that at the check and send steps `next` is never
  nil. Line 201 dereferences it, so a front evicted between the wake-up
  and `EvidenceFront()` has to send the routine back to the top
  (line 196).

## Runs

All runs are listed in `PROJECT.json`.

**Passing runs:**

| Run | Properties | What it shows |
|---|---|---|
| `PeerState` | `TypeOK`, `MirrorIsMaxAnnounced`, `MirrorHoldsFirstProposal` | Whatever the delivery order, the mirror holds the greatest announced `(height, round, step)` and the first proposal offered for it. |
| `ConsensusReactor` | `TypeOK`, `MirrorSound` | With the dispatcher and the gossip routine racing, a mirror claiming "the peer has the proposal" is true or is about to be. |
| `ConsensusReactor_live` | `ProposalEventuallyGossiped` | A peer that sends no Vote or Commit messages eventually gets a proposal it lacks at the shared `(height, round)`. |
| `EvidenceReactor` | `TypeOK`, `NeverAheadOfPeer`, `EvidenceEventuallySent` | The routine never sends evidence above the height it read for the peer. Every deliverable item is eventually sent, despite evictions, send failures and the periodic restart. |
| `HeaderChain` | `TypeOK`, `CurrentStored`, `RewindToHead`, `AbsSpec` | Between writer operations the current header is stored, whatever SetHead's walk, the block chain, the lookups and a crash with restart do. Every `SetHead(head)` ends at height `min(head, old height)`. The header chain implements `HeaderStore`. |

**Violation runs.** Each one is a finding in `PROJECT.json`:

| Run | What TLC finds |
|---|---|
| `ConsensusReactor_lock` | One Vote (or Commit) message leaks `ps.mtx` (lines 452 and 505). After that the dispatcher and the gossip routine block forever. This is a code bug. |
| `ConsensusReactor_panic` | The gossip routine panics as soon as the local node is at a greater height than the peer (line 614). |
| `PeerState_votes` | No vote is ever recorded, because `Prevotes` and `Precommits` are set to nil (line 377) and never allocated. |
| `PeerState_lcr` | A `NewRoundStep` at the same height rewrites `LastCommitRound` and wipes `LastCommit`. This is the pointer comparison at line 387. |
| `EvidenceReactor_stop` | A routine waiting on an empty list never returns after the peer or the reactor stops (part_000:195). |
| `EvidenceReactor_age` | Expired evidence is sent, because `MaxAgeDuration * time.Millisecond` scales the limit by 10^6 (part_000:265). |
| `HeaderChain_stale` | `NoStaleLookup`: a lookup that overlaps `SetHead` reads a header before the batch write and caches it after the purge (lines 95-100 against 171). A later `GetHeader`, started after `SetHead` returned, then gets the deleted header from the cache. A code bug: the spec says all public operations are safe for concurrent callers. |

Every property of a passing run has a mutant in `PROJECT.json` that
TLC kills: a plausible bug in the mapped code that the property catches.
The mutants are:
- a dropped early return in `ReceiveNewRoundStep`;
- a missing duplicate check in `SetHasProposal`;
- a missing `(height, round)` check;
- an off-by-one in `LastCommitRound`;
- a `TrySend` in place of `Send` in the gossip routine, which drops the
  proposal on a full queue and keeps the peer;
- a dropped round assignment;
- `TakeFront` without its nil check, which dereferences an evicted front;
- a missing "peer behind" check;
- a cursor that does not advance;
- `GetHeader` caching a nil header;
- `NewHeaderChain` without its `chead != nil` check;
- `SetHead`'s genesis fallback with its nil test inverted;
- `SetHead` without `batch.Write()`.

## Bounds

**PeerState.** The bounds are `MaxHeight = 2`, `MaxRound = 1`, one
validator and two blocks.
- Heights 0..2 and rounds -1..1 give stale, equal and newer messages on
  every component of the order.
- The consecutive heights 0 → 1 → 2 make the last-commit shift reachable.
- Two blocks distinguish a first proposal from a later one.
- More validators only copy the bit-array behaviour.

**ConsensusReactor.** The bounds are `MaxHeight = 2`, `MaxRound = 0`, one
block, and steps `{NewHeight, Propose}`. About 3.3 million states, 1m40s.
- Two heights let either side move ahead, including during the gossip
  routine's send.
- Round changes within a height are already explored by `PeerState`.

**EvidenceReactor.** The bounds are two evidence items, heights 1..2,
times 0..2, `MaxAgeNumBlocks = 0` and `MaxAgeDuration = 1`.
- These bounds produce every outcome of `checkSendEvidenceMessage`: no
  state, behind, too old and send.
- They also produce every list operation: eviction of the cursor's
  element, the end of the list, and restarts.

**HeaderChain.** The bounds are `MaxHeight = 2`, two forks and one
crash. About 4.6 million states, 1m15s.
- Two forks of height 2 give a header that is deleted and a different
  header at the same height written later, so a stale cache entry is
  distinguishable from a fresh one.
- Height 2 gives a `SetHead` that walks more than one step, and one that
  stops at the start height.
- One crash reaches a restart in every SetHead phase, including between
  the batch write and the head-hash write.

**Deadlock checking.** `CHECK_DEADLOCK FALSE` is set for these two reasons
only:
- the routines return on stop and the process halts on a panic;
- the collaborators (chain, peer, time) stop at their bounds.

## Fairness

Fairness is assumed only where the code's scheduling justifies it.

**ConsensusReactor.**
- Weak fairness on each handler and each gossip step. The dispatcher and
  the goroutine are runnable goroutines, and Go's scheduler runs them.
- Weak fairness on delivery of an accepted message. The transport is a
  TCP connection that delivers what it accepted, in order, unless the peer
  drops.
- The collaborators get no fairness.

**EvidenceReactor.**
- Weak fairness on each routine step.
- Strong fairness on a successful send. A retried `peer.Send` to a live
  peer is not refused forever.
- Weak fairness on the peer catching up to our height. This is an
  assumption about the consensus collaborator. Without it, the head-of-line
  retry at lines 212-215 waits forever, and the code offers no way around
  that.

## What is proved

`PeerState_proofs` proves, for every value of the constants under
`ConstantsAssumption` and `NilAssumption`:
- `TypeCorrect`: `Spec => []TypeOK`;
- `MirrorIsMaxAnnouncedThm`: `Spec => []MirrorIsMaxAnnounced`;
- `MirrorHoldsFirstProposalThm`: `Spec => []MirrorHoldsFirstProposal`.

**The inductive invariant.** The proofs use
`IInv == TypeOK /\ MirrorIsMaxAnnounced /\ MirrorHoldsFirstProposal`.
Neither mirror property is inductive alone:
- Preserving `MirrorIsMaxAnnounced` across `ReceiveNewRoundStep` needs the
  types, for the comparison to be the lexicographic order.
- Preserving `MirrorHoldsFirstProposal` across a `NewRoundStep` needs the
  mirror to equal the maximum announced. That fact tells whether the
  `(height, round)` changed, and so whether `ClearRound` and the reset of
  `firstOffered` happen together.

**The argument.** It has three parts:
1. Lemmas state what each operator returns:
   - `ClearRound`, `ApplyNewRoundStep`, `SetHasProposal`, `VoteBitArray`,
     `SetHasVoteIn` and `ApplyHasVote` stay in `PeerRoundStates`, and
     change only the fields they name;
   - a stale message is not lexicographically greater (`StaleIsNotLexLess`).
2. One lemma per action shows that it preserves `IInv`. `NextIInv`
   combines them.
3. Each theorem follows from `InitIInv` and `NextIInv` by PTL.

`HeaderChain_proofs` proves, for every value of the constants under
`HeaderChainAssumption` and `NoHeaderAssumption`:
- `CurrentStoredThm`: `Spec => []CurrentStored`;
- `RewindToHeadThm`: `Spec => RewindToHead`;
- `RefinementThm`: `Spec => AbsSpec`, i.e. `HeaderChain` implements
  `HeaderStore` under the mapping above.

`CurrentStored` is far from inductive: a step of SetHead's walk is safe
only because the parent is stored, a restart is safe only because the
head block's ancestors are stored, and the batch write is safe only
because the batch holds nothing at or below the current header. The
inductive invariant `IInv` (checked by TLC on every state of the
`HeaderChain` run before it was proved) says:
- `current` is a header and it and all its ancestors on its fork are
  stored (`AncIn(current, stored)`);
- every header in SetHead's batch is above `current`, and after the
  write the batch and the store are disjoint;
- if the head block is stored, its ancestors are stored, and unless it
  is in the batch it is an ancestor of `current` (`AncOrSelf`), so a
  restart lands on a fully stored chain;
- during the walk `min(head, start) <= Ht(current) <= start`, and after
  it `Ht(current) = min(head, start)`, which gives `RewindToHead`.

Lemmas about headers (`ParentFacts`, `ParentAnc`, `AncInAnc`,
`AncOrSelfTrans`) carry the ancestor reasoning; one lemma per action
proves `IInv'`, and `NextIInv` combines them.

The refinement needs one more invariant, `WalkInv`: while SetHead walks,
there is a header `top` at the start height such that the batch is
exactly `Above(top, Ht(current))` (the headers of `top`'s fork above the
current one) and `current = AncestorAt(top, Ht(current))`. It is also
checked by TLC before it was proved. From it, `AbsCurrentInWalk` shows the
mapped head is `top` throughout the walk (`WalkTop`, with `AboveTop` for
the `CHOOSE`), so walk steps are stutters, and at the batch write the
deleted set is the abstract `Above(top, min(head, height))` and the new
head is `AncestorAt(top, min(head, height))`. `NextAbs` takes each action
to its abstract step or a stutter; `RefinementThm` follows by PTL from
`InitAbs`, `NextAbs` and `[](IInv /\ WalkInv)`.

`ConsensusReactor_proofs` proves, for every value of the constants under
`ReactorAssumption` (which includes `Blocks # {}`: every proposal has a
block header hash, so a proposal record exists at every height and round):
- `TypeCorrect`: `Spec => []TypeOK`;
- `MirrorSoundThm`: `Spec => []MirrorSound`.

`MirrorSound` is not inductive. The gossip routine sends a proposal and
only later, in a separate step, calls `SetHasProposal`. A message from the
peer may sit in the inbound channel before the dispatcher handles it. So
the inductive invariant `IInv == TypeOK /\ InboundKnown /\ GossipSound /\ MirrorSound` adds two facts (TLC checked `IInv` on every state of the
`ConsensusReactor` run before it was proved):
- `InboundKnown`: every `Proposal` message in the inbound channel is at a
  `(height, round)` the peer has announced, so handling it keeps the mirror
  sound;
- `GossipSound`: between the send and the mark, the snapshot the routine
  holds is a proposal, and while the peer is connected its `(height,
  round)` was announced by the peer or is on its way to it.

One lemma per group of actions (life cycle, each receive handler, the
gossip routine, the local node, the peer) proves `IInv'`; `NextIInv`
combines them.

`EvidenceReactor_proofs` proves, for every value of the constants under
`EvidenceAssumption`:
- `TypeCorrect`: `Spec => []TypeOK`;
- `NeverAheadOfPeerThm`: `Spec => []NeverAheadOfPeer`.

The send is guarded by a check made one step earlier, and the peer's
height moves in between, so `NeverAheadOfPeer` needs `IInv == TypeOK /\ EvidenceInPast /\ CursorPushed /\ SendChecked /\ NeverAheadOfPeer`,
checked by TLC on the `EvidenceReactor` run first:
- `EvidenceInPast`: every evidence is at most the chain's height and time;
- `CursorPushed`: the cursor and every sent item are pushed evidence;
- `SendChecked`: at the send step the peer's state is known and not
  below the evidence's height. Once known, the peer's height only grows, which keeps
  this fact true across the gap.

The list walk (`EvidenceFront`, `EvidenceNext`) picks the least live
element, and the proof gets that element's existence from the
well-foundedness of `<` on `Nat` (`WFMin` with
`NatLessThanWellFounded`). `PushAllFacts` shows what adding a batch of
evidence does to the list and the ids.

`HeaderChain_proofs` also proves `TypeCorrect`: `Spec => []TypeOK`.

**What stays with TLC.** These are out of the prover's reach and are only
model-checked:
- the liveness properties (`ProposalEventuallyGossiped`,
  `EvidenceEventuallySent`), which need fairness and ENABLED;
- the properties of the violation runs, which do not hold.

## Not modelled

- **`SetGenesis` (headerchain.go 137).** The model keeps genesis fixed as
  the header canonical at height 0, the one `NewHeaderChain` reads.
- **LRU eviction.** The caches' limits are not reached by any instance
  TLC can explore; eviction only removes entries, which makes a lookup
  go to the store.
- **The `Proposal` encoding (part_000 1-70).** `POLRound` is a `uint32`
  with a `-1` sentinel.
- **`src/unnamed/part_001`.** It is rlp test code.
- **In the consensus reactor:** the broadcasts and the event subscription,
  which send and change nothing tracked; `RemovePeer`, which only logs; and
  the data race on `conR.running`, which is read atomically here.

## Plan for the next sittings

1. Write a pure module for the `Proposal` canonical fields, with `uint32`
   arithmetic.
2. Write an abstract monotone-mirror specification, with `PeerState` shown
   to refine it (`INSTANCE ... WITH`), and prove the refinement.
3. Model a peer that reconnects, with a fresh `PeerState` and gossip
   routine for the same peer.
