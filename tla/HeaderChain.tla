----------------------------- MODULE HeaderChain -----------------------------
(***************************************************************************)
(* The header chain (src/blockchain/headerchain.go lines 1-180): the        *)
(* header store, the two LRU caches in front of it, the current head, and   *)
(* SetHead, which rewinds the chain while lookups run concurrently.         *)
(*                                                                         *)
(* Headers are those of module Headers.  The                               *)
(* header store holds the stored headers (with their header_height entry)   *)
(* and the canonical hash of each height.  Only SetHead, and the block      *)
(* chain that extends the chain, write it, one at a time (spec section 5);  *)
(* lookups (GetHeader, GetHeaderByHash, GetHeaderByHeight) run in another   *)
(* thread, each store read and each cache insert a step of its own.  The    *)
(* process may crash at any time and restart through NewHeaderChain.  The   *)
(* caches (512 and 2048 entries) never fill up in these instances.          *)
(***************************************************************************)
EXTENDS Headers

CONSTANT MaxCrashes \* bound on crashes

ASSUME HeaderChainAssumption == MaxCrashes \in Nat

VARIABLES
  stored,     \* the store's headers (header and header_height keys)
  canon,      \* canonical_hash[height]
  headHeader, \* head_header_hash, written by HeaderChain
  headBlock,  \* the head block hash, written by the block chain
  current,    \* hc.currentHeader
  cache,      \* hc.headerCache: hash -> header
  hcache,     \* hc.heightCache: hash -> height
  sh,         \* SetHead in progress: its locals and where it is
  rd,         \* the lookup thread: the call in progress or its result
  crashes

storeVars == <<stored, canon, headHeader, headBlock>>
vars == <<storeVars, current, cache, hcache, sh, rd, crashes>>

Idle == [pc |-> "idle", head |-> 0, height |-> 0, batch |-> {}]

Init ==
  /\ stored = {G}
  /\ canon = [k \in 0..MaxHeight |-> IF k = 0 THEN G ELSE NoHeader]
  /\ headHeader = NoHeader /\ headBlock = NoHeader
  /\ current = G /\ cache = {G} /\ hcache = {}
  /\ sh = Idle
  /\ rd = [pc |-> "idle", arg |-> G, val |-> NoHeader, overlap |-> FALSE]
  /\ crashes = 0

-----------------------------------------------------------------------------
(* The writer's GetHeader (lines 90-100) in one step: no other writer runs, *)
(* and a racing Purge cannot fall inside it since SetHead itself purges.    *)
CachedGet(x) == IF x \in cache \cup stored THEN x ELSE NoHeader
CacheAfterGet(x) == IF x \notin cache /\ x \in stored THEN cache \cup {x}
                    ELSE cache

\* The loop condition of SetHead (line 155).
Rewinding == current # NoHeader /\ Ht(current) > sh.head

\* Lines 146-153: the height of the current header, a new batch.
SetHeadBegin(head) ==
  /\ sh.pc = "idle"
  /\ sh' = [pc |-> "loop", head |-> head,
            height |-> IF current # NoHeader THEN Ht(current) ELSE 0,
            batch |-> {}]
  /\ rd' = [rd EXCEPT !.overlap = TRUE]
  /\ UNCHANGED <<storeVars, current, cache, hcache, crashes>>

\* One iteration (lines 156-163): delete the header in the batch and move
\* the current header to its predecessor, looked up by LastCommitHash.
SetHeadStep ==
  /\ sh.pc = "loop" /\ Rewinding
  /\ sh' = [sh EXCEPT !.batch = @ \cup {current}]
  /\ current' = CachedGet(LastCommitHash(current))
  /\ cache' = CacheAfterGet(LastCommitHash(current))
  /\ UNCHANGED <<storeVars, hcache, rd, crashes>>

SetHeadLoopDone ==
  /\ sh.pc = "loop" /\ ~Rewinding
  /\ sh' = [sh EXCEPT !.pc = "write"]
  /\ UNCHANGED <<storeVars, current, cache, hcache, rd, crashes>>

\* SetHead without batch.Write (line 168): nothing it deleted is deleted.
SetHeadWriteLost ==
  /\ sh.pc = "write"
  /\ sh' = [sh EXCEPT !.pc = "finish"]
  /\ UNCHANGED <<storeVars, current, cache, hcache, rd, crashes>>

\* Lines 165-168: the canonical hashes of heights height..head+1 go in
\* the batch, and the batch is written atomically.
SetHeadWrite ==
  /\ sh.pc = "write"
  /\ stored' = stored \ sh.batch
  /\ canon' = [k \in DOMAIN canon |->
                 IF sh.head < k /\ k <= sh.height THEN NoHeader ELSE canon[k]]
  /\ sh' = [sh EXCEPT !.pc = "finish"]
  /\ UNCHANGED <<headHeader, headBlock, current, cache, hcache, rd, crashes>>

\* The fallback with its nil test inverted.
FallbackHeadInverted == IF current # NoHeader THEN G ELSE current

\* Lines 174-176: genesis if the walk found no predecessor.
FallbackHead == IF current = NoHeader THEN G ELSE current

\* Lines 170-179: purge both caches, the fallback, and persist
\* head_header_hash.
SetHeadFinish ==
  /\ sh.pc = "finish"
  /\ cache' = {} /\ hcache' = {}
  /\ current' = FallbackHead /\ headHeader' = FallbackHead
  /\ sh' = Idle
  /\ UNCHANGED <<stored, canon, headBlock, rd, crashes>>

-----------------------------------------------------------------------------
(* The lookup thread.  rd.overlap records that a SetHead began during or    *)
(* after the call, for NoStaleLookup.                                       *)

Start(pc, x) ==
  rd' = [pc |-> pc, arg |-> x, val |-> NoHeader, overlap |-> sh.pc # "idle"]

Return(v) == rd' = [rd EXCEPT !.pc = "done", !.val = v]

Ready == rd.pc \in {"idle", "done"}

\* GetHeader(hash, height), line 90.
CallGetHeader(x) ==
  /\ Ready /\ Start("header", x)
  /\ UNCHANGED <<storeVars, current, cache, hcache, sh, crashes>>

\* GetHeaderByHash(hash), line 105: GetBlockHeight first.
CallGetHeaderByHash(x) ==
  /\ Ready /\ Start("height", x)
  /\ UNCHANGED <<storeVars, current, cache, hcache, sh, crashes>>

\* GetHeaderByHeight(height), lines 78-84: ReadCanonicalHash, then GetHeader.
CallGetHeaderByHeight(k) ==
  /\ Ready
  /\ IF canon[k] = NoHeader
     THEN rd' = [pc |-> "done", arg |-> G, val |-> NoHeader,
                 overlap |-> sh.pc # "idle"]
     ELSE Start("header", canon[k])
  /\ UNCHANGED <<storeVars, current, cache, hcache, sh, crashes>>

\* GetBlockHeight (lines 115-124): the height cache, else the store.
LookupHeight ==
  /\ rd.pc = "height"
  /\ IF rd.arg \in hcache THEN rd' = [rd EXCEPT !.pc = "header"]
     ELSE IF rd.arg \in stored THEN rd' = [rd EXCEPT !.pc = "heightAdd"]
     ELSE Return(NoHeader)
  /\ UNCHANGED <<storeVars, current, cache, hcache, sh, crashes>>

CacheHeight ==
  /\ rd.pc = "heightAdd"
  /\ hcache' = hcache \cup {rd.arg}
  /\ rd' = [rd EXCEPT !.pc = "header"]
  /\ UNCHANGED <<storeVars, current, cache, sh, crashes>>

\* GetHeader without the `header == nil` return: nil is cached.
ReadHeaderNoNilCheck ==
  rd' = [rd EXCEPT !.pc = "headerAdd",
                   !.val = IF rd.arg \in stored THEN rd.arg ELSE NoHeader]

\* GetHeader's store read (lines 95-98) after a cache miss.
ReadHeader ==
  IF rd.arg \in stored THEN rd' = [rd EXCEPT !.pc = "headerAdd", !.val = rd.arg]
  ELSE Return(NoHeader)

\* GetHeader (lines 90-100): the header cache, else the store.
LookupHeader ==
  /\ rd.pc = "header"
  /\ IF rd.arg \in cache THEN Return(rd.arg) ELSE ReadHeader
  /\ UNCHANGED <<storeVars, current, cache, hcache, sh, crashes>>

CacheHeader ==
  /\ rd.pc = "headerAdd"
  /\ cache' = cache \cup {rd.val}
  /\ Return(rd.val)
  /\ UNCHANGED <<storeVars, current, hcache, sh, crashes>>

-----------------------------------------------------------------------------
(* Crash and restart.                                                      *)

\* NewHeaderChain without the `chead != nil` check.
RestoredHeadNoCheck == IF headBlock # NoHeader THEN headBlock ELSE G

\* Lines 64-68: the head block's header if the store still has it.
RestoredHead ==
  IF headBlock # NoHeader /\ headBlock \in stored THEN headBlock ELSE G

\* The process dies, losing memory and an unwritten batch; NewHeaderChain
\* (lines 46-73) reads genesis by height 0 and the head by hash, filling
\* the fresh caches on the way.
NewHeaderChain ==
  LET found == headBlock # NoHeader /\ headBlock \in stored
  IN /\ crashes < MaxCrashes
     /\ crashes' = crashes + 1
     /\ current' = RestoredHead
     /\ cache' = {G} \cup (IF found THEN {headBlock} ELSE {})
     /\ hcache' = IF found THEN {headBlock} ELSE {}
     /\ sh' = Idle
     /\ rd' = [pc |-> "idle", arg |-> G, val |-> NoHeader, overlap |-> TRUE]
     /\ UNCHANGED storeVars

-----------------------------------------------------------------------------
(* The block chain, the other writer.                                      *)

\* It writes a header on top of the current one, makes it canonical (and
\* drops canonical hashes above it), and calls SetCurrentHeader (lines
\* 125-130).  Its head block hash may lag the header chain.
ExtendChain(h) ==
  /\ sh.pc = "idle"
  /\ LastCommitHash(h) = current
  /\ stored' = stored \cup {h}
  /\ canon' = [k \in DOMAIN canon |->
                 IF k = Ht(h) THEN h ELSE IF k > Ht(h) THEN NoHeader
                 ELSE canon[k]]
  /\ headHeader' = h /\ current' = h
  /\ UNCHANGED <<headBlock, cache, hcache, sh, rd, crashes>>

CommitHeadBlock ==
  /\ sh.pc = "idle" /\ headBlock # current
  /\ headBlock' = current
  /\ UNCHANGED <<stored, canon, headHeader, current, cache, hcache, sh, rd,
                 crashes>>

Next ==
  \/ \E head \in 0..MaxHeight : SetHeadBegin(head)
  \/ SetHeadStep \/ SetHeadLoopDone \/ SetHeadWrite \/ SetHeadFinish
  \/ \E x \in Hdrs : CallGetHeader(x) \/ CallGetHeaderByHash(x)
  \/ \E k \in 0..MaxHeight : CallGetHeaderByHeight(k)
  \/ LookupHeight \/ CacheHeight \/ LookupHeader \/ CacheHeader
  \/ NewHeaderChain
  \/ \E h \in Hdrs \ {G} : ExtendChain(h)
  \/ CommitHeadBlock

Spec == Init /\ [][Next]_vars

-----------------------------------------------------------------------------
TypeOK ==
  /\ stored \subseteq Hdrs /\ G \in stored
  /\ canon \in [0..MaxHeight -> Hdrs \cup {NoHeader}]
  /\ {headHeader, headBlock} \subseteq Hdrs \cup {NoHeader}
  /\ current \in Hdrs \cup {NoHeader}
  /\ cache \subseteq Hdrs /\ hcache \subseteq Hdrs
  /\ sh \in [pc : {"idle", "loop", "write", "finish"}, head : 0..MaxHeight,
            height : 0..MaxHeight, batch : SUBSET Hdrs]
  /\ rd \in [pc : {"idle", "height", "heightAdd", "header", "headerAdd", "done"},
            arg : Hdrs, val : Hdrs \cup {NoHeader}, overlap : BOOLEAN]
  /\ crashes \in 0..MaxCrashes

\* Between writer operations, across SetHead's walk through the caches, its
\* fallback to genesis and a restart from the head block hash (lines 64-68,
\* 162, 174-176): the current header is one the store holds.
CurrentStored == sh.pc = "idle" => current \in stored

\* Lines 141-142: "Everything above the new head will be deleted and the new
\* one set": a SetHead(head) that returns leaves the current header at
\* height head, or where it was if that was lower.
RewindToHead ==
  [][SetHeadFinish =>
       Ht(current') = IF sh.height > sh.head THEN sh.head ELSE sh.height]_vars

\* Line 170, "Clear out any stale content from the caches", and spec section
\* 5, "all public ops are safe for concurrent callers": a lookup that runs
\* while no SetHead is running, and before the next one, returns nil or a
\* header the store holds.
NoStaleLookup ==
  rd.pc = "done" /\ ~rd.overlap /\ rd.val # NoHeader => rd.val \in stored

-----------------------------------------------------------------------------
(* Refinement of HeaderStore.  While SetHead walks and until its batch is   *)
(* written, the store has not changed, and the head it promises is still   *)
(* the header the walk started from: the highest header in the batch.     *)
(* The batch write is the atomic rewind; the caches, the canonical         *)
(* numbering, head_header_hash and the lookups are not visible.            *)
BatchTop == CHOOSE b \in sh.batch : Ht(b) = sh.height

AbsCurrent ==
  IF sh.pc \in {"loop", "write"} /\ sh.batch # {} THEN BatchTop ELSE current

Abs == INSTANCE HeaderStore WITH current <- AbsCurrent

\* SetHead, run step by step through the caches, concurrently with lookups
\* and with a crash possible at any step, implements the one-step rewind of
\* the store and the head, and the block chain's writes and the restart
\* from the head block hash are the abstract ones.
AbsSpec == Abs!Spec

=============================================================================
