-------------------------- MODULE HeaderChain_proofs --------------------------
(***************************************************************************)
(* Proofs that the current header is always a stored header, that          *)
(* SetHead lands on the requested head, and that the header chain          *)
(* implements HeaderStore, for every bound.                                *)
(***************************************************************************)
EXTENDS HeaderChain, TLAPS

\* a is the genesis header or a header of c's fork at most as high as c.
AncOrSelf(a, c) == a = G \/ (a[2] = c[2] /\ Ht(a) <= Ht(c))

\* c and every header below it on its fork are in S.
AncIn(c, S) ==
  /\ G \in S
  /\ \A j \in 1..Ht(c) : <<j, c[2]>> \in S

MinHH == IF sh.height > sh.head THEN sh.head ELSE sh.height

IInv ==
  /\ TypeOK
  /\ current \in Hdrs
  /\ AncIn(current, stored)
  /\ sh.pc = "idle" => sh.batch = {}
  /\ sh.pc = "finish" => sh.batch \cap stored = {}
  /\ \A b \in sh.batch : Ht(b) > Ht(current)
  /\ headBlock \in stored =>
       /\ AncIn(headBlock, stored)
       /\ headBlock \notin sh.batch => AncOrSelf(headBlock, current)
  /\ sh.pc = "loop" => MinHH <= Ht(current) /\ Ht(current) <= sh.height
  /\ sh.pc \in {"write", "finish"} => Ht(current) = MinHH
  /\ rd.pc = "headerAdd" => rd.val \in Hdrs

\* While SetHead walks, the batch is exactly the headers of the start
\* header's fork above the current header, and the current header is on that
\* fork (or genesis).
WalkInv ==
  sh.pc \in {"loop", "write"} =>
    \E top \in Hdrs :
      /\ Ht(top) = sh.height
      /\ sh.batch = Abs!Above(top, Ht(current))
      /\ current = Abs!AncestorAt(top, Ht(current))

-----------------------------------------------------------------------------
(* Facts about headers.                                                    *)

\* The genesis header is a header of height 0 whose fork is a fork.
LEMMA GenesisFacts ==
  /\ G \in Hdrs /\ Ht(G) = 0 /\ G[2] \in Forks /\ G = <<0, G[2]>>
  /\ NoHeader # G
<1>1. (CHOOSE f \in Forks : TRUE) \in Forks
  BY HeadersAssumption, HeaderChainAssumption
<1>2. NoHeader # G
  BY NoHeaderAssumption DEF Hdrs
<1> QED
  BY <1>1, <1>2 DEF G, Hdrs, Ht

\* A header other than genesis is a pair of a height 1..MaxHeight and a fork.
LEMMA HeaderShape ==
  ASSUME NEW h \in Hdrs, h # G
  PROVE  /\ h = <<Ht(h), h[2]>> /\ Ht(h) \in 1..MaxHeight /\ h[2] \in Forks
BY DEF Hdrs, Ht

\* The only header of height 0 is genesis.
LEMMA HeightZero ==
  ASSUME NEW h \in Hdrs, Ht(h) = 0
  PROVE  h = G
BY HeaderShape DEF Ht

\* The header LastCommitHash names is one height lower, and everything at
\* or below it on the fork is at or below the header itself.
LEMMA ParentFacts ==
  ASSUME NEW c \in Hdrs, Ht(c) >= 1
  PROVE  /\ LastCommitHash(c) \in Hdrs
         /\ Ht(LastCommitHash(c)) = Ht(c) - 1
         /\ \A a \in Hdrs : AncOrSelf(a, c) /\ a # c =>
                              AncOrSelf(a, LastCommitHash(c))
<1>1. c # G /\ c = <<Ht(c), c[2]>> /\ Ht(c) \in 1..MaxHeight /\ c[2] \in Forks
  BY HeaderShape, GenesisFacts
<1>2. CASE Ht(c) = 1
  <2>1. LastCommitHash(c) = G
    BY <1>2 DEF LastCommitHash
  <2>2. ASSUME NEW a \in Hdrs, AncOrSelf(a, c), a # c PROVE a = G
    <3>1. CASE a # G
      <4>1. a = <<Ht(a), a[2]>> /\ Ht(a) \in 1..MaxHeight
        BY <3>1, HeaderShape
      <4> QED
        BY <4>1, <1>1, <1>2, <2>2, <3>1 DEF AncOrSelf
    <3> QED
      BY <3>1
  <2> QED
    BY <2>1, <2>2, <1>2, GenesisFacts DEF AncOrSelf
<1>3. CASE Ht(c) > 1
  <2>1. LastCommitHash(c) = <<Ht(c) - 1, c[2]>>
    BY <1>3 DEF LastCommitHash
  <2>2. LastCommitHash(c) \in Hdrs /\ Ht(LastCommitHash(c)) = Ht(c) - 1
        /\ LastCommitHash(c)[2] = c[2]
    <3>1. Ht(c) - 1 \in 1..MaxHeight
      BY <1>1, <1>3, HeadersAssumption, HeaderChainAssumption
    <3>2. <<Ht(c) - 1, c[2]>> \in (1..MaxHeight) \X Forks
      BY <3>1, <1>1
    <3> QED
      BY <3>2, <2>1 DEF Hdrs, Ht
  <2>3. ASSUME NEW a \in Hdrs, AncOrSelf(a, c), a # c
        PROVE  AncOrSelf(a, LastCommitHash(c))
    <3>1. CASE a # G
      <4>1. a = <<Ht(a), a[2]>> /\ Ht(a) \in 1..MaxHeight
        BY <3>1, HeaderShape
      <4>2. a[2] = c[2] /\ Ht(a) <= Ht(c)
        BY <3>1, <2>3 DEF AncOrSelf
      <4>3. Ht(a) # Ht(c)
        BY <4>1, <4>2, <1>1, <2>3
      <4> QED
        BY <4>1, <4>2, <4>3, <2>2, <1>1 DEF AncOrSelf
    <3> QED
      BY <3>1 DEF AncOrSelf
  <2> QED
    BY <2>2, <2>3
<1> QED
  BY <1>1, <1>2, <1>3

\* What is in S below c is in S below any header below c.
LEMMA AncInAnc ==
  ASSUME NEW S, NEW a \in Hdrs, NEW c \in Hdrs, AncIn(c, S), AncOrSelf(a, c)
  PROVE  AncIn(a, S) /\ a \in S
<1>1. CASE a = G
  BY <1>1, GenesisFacts DEF AncIn
<1>2. CASE a # G
  <2>1. a = <<Ht(a), a[2]>> /\ Ht(a) \in 1..MaxHeight
    BY <1>2, HeaderShape
  <2>2. a[2] = c[2] /\ Ht(a) <= Ht(c)
    BY <1>2 DEF AncOrSelf
  <2>0. Ht(c) \in Nat
    BY HeaderShape, GenesisFacts, HeadersAssumption, HeaderChainAssumption
  <2>3. \A j \in 1..Ht(a) : j \in 1..Ht(c)
    BY <2>0, <2>1, <2>2
  <2> QED
    BY <2>1, <2>2, <2>3 DEF AncIn
<1> QED
  BY <1>1, <1>2

\* Every header is below itself.
LEMMA AncOrSelfRefl ==
  ASSUME NEW c \in Hdrs
  PROVE  AncOrSelf(c, c)
<1>1. Ht(c) \in Nat
  BY HeaderShape, GenesisFacts, HeadersAssumption, HeaderChainAssumption
<1> QED
  BY <1>1 DEF AncOrSelf

\* Heights of headers lie in 0..MaxHeight.
LEMMA HtRange ==
  ASSUME NEW h \in Hdrs
  PROVE  Ht(h) \in 0..MaxHeight
BY HeaderShape, GenesisFacts, HeadersAssumption, HeaderChainAssumption

\* The header LastCommitHash names is below the header.
LEMMA ParentAnc ==
  ASSUME NEW c \in Hdrs, Ht(c) >= 1
  PROVE  AncOrSelf(LastCommitHash(c), c)
<1>1. c # G /\ c = <<Ht(c), c[2]>> /\ Ht(c) \in 1..MaxHeight
  BY HeaderShape, GenesisFacts
<1>2. CASE Ht(c) = 1
  BY <1>2 DEF LastCommitHash, AncOrSelf
<1>3. CASE Ht(c) > 1
  BY <1>1, <1>3 DEF LastCommitHash, AncOrSelf, Ht
<1> QED
  BY <1>1, <1>2, <1>3

\* Being below is transitive.
LEMMA AncOrSelfTrans ==
  ASSUME NEW a \in Hdrs, NEW b \in Hdrs, NEW c \in Hdrs,
         AncOrSelf(a, b), AncOrSelf(b, c)
  PROVE  AncOrSelf(a, c)
<1>1. CASE a = G
  BY <1>1 DEF AncOrSelf
<1>2. CASE a # G
  <2>1. Ht(a) \in 1..MaxHeight /\ a[2] = b[2] /\ Ht(a) <= Ht(b)
    BY <1>2, HeaderShape DEF AncOrSelf
  <2>2. b # G
    BY <2>1, GenesisFacts
  <2>3. b[2] = c[2] /\ Ht(b) <= Ht(c)
    BY <2>2 DEF AncOrSelf
  <2>4. Ht(b) \in 0..MaxHeight /\ Ht(c) \in 0..MaxHeight
    BY HtRange
  <2> QED
    BY <2>1, <2>3, <2>4 DEF AncOrSelf
<1> QED
  BY <1>1, <1>2

\* A header whose ancestors are in S has them in any superset of S.
LEMMA AncInMono ==
  ASSUME NEW S, NEW T, S \subseteq T, NEW c, AncIn(c, S)
  PROVE  AncIn(c, T)
BY DEF AncIn

\* Idle is a well-typed SetHead state.
LEMMA IdleType ==
  Idle \in [pc : {"idle", "loop", "write", "finish"}, head : 0..MaxHeight,
            height : 0..MaxHeight, batch : SUBSET Hdrs]
BY HeadersAssumption, HeaderChainAssumption DEF Idle

-----------------------------------------------------------------------------
(* Facts about the abstract rewind's operators.                            *)

\* A header's fork has nothing above the header's own height.
LEMMA AboveEmpty ==
  ASSUME NEW top \in Hdrs, NEW t \in Nat, t >= Ht(top)
  PROVE  Abs!Above(top, t) = {}
<1>1. Ht(top) \in 0..MaxHeight
  BY HtRange
<1>2. t + 1 .. Ht(top) = {}
  BY <1>1
<1> QED
  BY <1>2 DEF Abs!Above, Abs!Ht, Ht

\* Lowering the bound by one adds the header of the fork at that height.
LEMMA AboveStep ==
  ASSUME NEW top \in Hdrs, NEW t \in 1..Ht(top)
  PROVE  Abs!Above(top, t - 1) = Abs!Above(top, t) \cup {<<t, top[2]>>}
<1>1. Ht(top) \in 0..MaxHeight
  BY HtRange
<1>2. (t - 1) + 1 .. Ht(top) = (t + 1 .. Ht(top)) \cup {t}
  BY <1>1
<1>3. ASSUME NEW x
      PROVE  x \in {<<j, top[2]>> : j \in (t - 1) + 1 .. Ht(top)}
             <=> x \in {<<j, top[2]>> : j \in t + 1 .. Ht(top)} \cup {<<t, top[2]>>}
  BY <1>2
<1> QED
  BY <1>3 DEF Abs!Above, Abs!Ht, Ht

\* Below its own height the header itself is in the set, and it is the only
\* member of its height.
LEMMA AboveTop ==
  ASSUME NEW top \in Hdrs, NEW t \in Nat, t < Ht(top)
  PROVE  /\ top \in Abs!Above(top, t)
         /\ \A b \in Abs!Above(top, t) : Ht(b) = Ht(top) => b = top
<1>1. top # G /\ top = <<Ht(top), top[2]>> /\ Ht(top) \in 1..MaxHeight
  BY HeaderShape, GenesisFacts
<1> QED
  BY <1>1 DEF Abs!Above, Abs!Ht, Ht

\* The header of a fork at its own height is the header.
LEMMA AncestorAtSelf ==
  ASSUME NEW top \in Hdrs
  PROVE  Abs!AncestorAt(top, Ht(top)) = top
<1>1. CASE top = G
  BY <1>1, GenesisFacts DEF Abs!AncestorAt, Abs!G
<1>2. CASE top # G
  BY <1>2, HeaderShape DEF Abs!AncestorAt, Abs!G
<1> QED
  BY <1>1, <1>2

\* LastCommitHash of the fork's header at height t is the one at t - 1.
LEMMA AncestorAtParent ==
  ASSUME NEW top \in Hdrs, NEW t \in 1..Ht(top)
  PROVE  /\ Abs!AncestorAt(top, t) = <<t, top[2]>>
         /\ LastCommitHash(Abs!AncestorAt(top, t)) = Abs!AncestorAt(top, t - 1)
<1>1. Ht(top) \in 0..MaxHeight
  BY HtRange
<1> QED
  BY <1>1 DEF Abs!AncestorAt, Abs!G, G, LastCommitHash, Ht

-----------------------------------------------------------------------------
(* The inductive invariant.                                                *)

LEMMA InitIInv == Init => IInv
<1> SUFFICES ASSUME Init PROVE IInv
  OBVIOUS
<1>1. G \in Hdrs /\ Ht(G) = 0 /\ NoHeader \notin Hdrs
  BY GenesisFacts, NoHeaderAssumption
<1>2. TypeOK
  BY <1>1, HeadersAssumption, HeaderChainAssumption DEF Init, TypeOK, Idle
<1>3. AncIn(current, stored)
  BY <1>1 DEF Init, AncIn
<1> QED
  BY <1>1, <1>2, <1>3, HeadersAssumption, HeaderChainAssumption DEF Init, IInv, Idle, MinHH

\* A step of the lookup thread leaves the store, the head and SetHead alone.
LEMMA ReaderFrame ==
  ASSUME IInv, UNCHANGED <<storeVars, current, sh, crashes>>,
         TypeOK', rd'.pc = "headerAdd" => rd'.val \in Hdrs
  PROVE  IInv'
BY DEF IInv, AncIn, AncOrSelf, MinHH, storeVars

LEMMA CallIInv ==
  ASSUME IInv, NEW x \in Hdrs, CallGetHeader(x) \/ CallGetHeaderByHash(x)
  PROVE  IInv'
<1>1. rd' \in [pc : {"header", "height"}, arg : Hdrs,
               val : Hdrs \cup {NoHeader}, overlap : BOOLEAN]
  <2>1. (sh.pc # "idle") \in BOOLEAN
    OBVIOUS
  <2>2. CASE CallGetHeader(x)
    BY <2>1, <2>2 DEF CallGetHeader, Start
  <2>3. CASE CallGetHeaderByHash(x)
    BY <2>1, <2>3 DEF CallGetHeaderByHash, Start
  <2> QED
    BY <2>2, <2>3
<1>2. UNCHANGED <<storeVars, current, cache, hcache, sh, crashes>>
  BY DEF CallGetHeader, CallGetHeaderByHash
<1>3. TypeOK'
  BY <1>1, <1>2 DEF IInv, TypeOK, storeVars
<1> QED
  BY <1>1, <1>2, <1>3, ReaderFrame

LEMMA CallByHeightIInv ==
  ASSUME IInv, NEW k \in 0..MaxHeight, CallGetHeaderByHeight(k)
  PROVE  IInv'
<1>1. canon[k] \in Hdrs \cup {NoHeader} /\ G \in Hdrs
  BY GenesisFacts DEF IInv, TypeOK
<1>2. rd' \in [pc : {"header", "done"}, arg : Hdrs,
               val : Hdrs \cup {NoHeader}, overlap : BOOLEAN]
  <2>1. (sh.pc # "idle") \in BOOLEAN
    OBVIOUS
  <2>2. CASE canon[k] = NoHeader
    <3>1. rd' = [pc |-> "done", arg |-> G, val |-> NoHeader,
                 overlap |-> sh.pc # "idle"]
      BY <2>2 DEF CallGetHeaderByHeight
    <3> QED
      BY <1>1, <2>1, <3>1
  <2>3. CASE canon[k] # NoHeader
    <3>1. rd' = [pc |-> "header", arg |-> canon[k], val |-> NoHeader,
                 overlap |-> sh.pc # "idle"]
      BY <2>3 DEF CallGetHeaderByHeight, Start
    <3> QED
      BY <1>1, <2>1, <2>3, <3>1
  <2> QED
    BY <2>2, <2>3
<1>3. UNCHANGED <<storeVars, current, cache, hcache, sh, crashes>>
  BY DEF CallGetHeaderByHeight
<1>4. TypeOK'
  BY <1>2, <1>3 DEF IInv, TypeOK, storeVars
<1> QED
  BY <1>2, <1>3, <1>4, ReaderFrame

LEMMA LookupIInv ==
  ASSUME IInv, LookupHeight \/ CacheHeight \/ LookupHeader \/ CacheHeader
  PROVE  IInv'
<1>1. TypeOK /\ (rd.pc = "headerAdd" => rd.val \in Hdrs)
  BY DEF IInv
<1>2. UNCHANGED <<storeVars, current, sh, crashes>>
  BY DEF LookupHeight, CacheHeight, LookupHeader, CacheHeader, ReadHeader,
         Return
<1>3. TypeOK' /\ (rd'.pc = "headerAdd" => rd'.val \in Hdrs)
  <2>1. CASE LookupHeight
    BY <1>1, <2>1 DEF TypeOK, storeVars, LookupHeight, Return
  <2>2. CASE CacheHeight
    BY <1>1, <2>2 DEF TypeOK, storeVars, CacheHeight
  <2>3. CASE LookupHeader
    BY <1>1, <2>3 DEF TypeOK, storeVars, LookupHeader, ReadHeader, Return
  <2>4. CASE CacheHeader
    BY <1>1, <2>4 DEF TypeOK, storeVars, CacheHeader, Return
  <2> QED
    BY <2>1, <2>2, <2>3, <2>4
<1> QED
  BY <1>2, <1>3, ReaderFrame

\* SetHeadBegin starts from an empty batch at the current header's height.
LEMMA SetHeadBeginIInv ==
  ASSUME IInv, NEW head \in 0..MaxHeight, SetHeadBegin(head)
  PROVE  IInv'
<1>0. sh.pc = "idle"
  BY DEF SetHeadBegin
<1>1. TypeOK /\ current \in Hdrs /\ AncIn(current, stored) /\ sh.batch = {}
      /\ (headBlock \in stored =>
            AncIn(headBlock, stored) /\ AncOrSelf(headBlock, current))
  BY <1>0 DEF IInv
<1>2. current # NoHeader /\ Ht(current) \in 0..MaxHeight
  BY <1>1, HtRange, NoHeaderAssumption
<1>3. sh' = [pc |-> "loop", head |-> head, height |-> Ht(current), batch |-> {}]
  BY <1>2 DEF SetHeadBegin
<1>4. UNCHANGED <<storeVars, current, cache, hcache, crashes>>
      /\ rd' = [rd EXCEPT !.overlap = TRUE]
  BY DEF SetHeadBegin
<1>5. TypeOK'
  BY <1>1, <1>2, <1>3, <1>4 DEF TypeOK, storeVars
<1>6. (MinHH <= Ht(current) /\ Ht(current) <= sh.height)'
  BY <1>2, <1>3, <1>4 DEF MinHH
<1> QED
  BY <1>1, <1>3, <1>4, <1>5, <1>6 DEF IInv, storeVars

\* One SetHead iteration moves to the parent, which is stored.
LEMMA SetHeadStepIInv ==
  ASSUME IInv, SetHeadStep
  PROVE  IInv'
<1> DEFINE p == LastCommitHash(current)
<1>1. TypeOK /\ current \in Hdrs /\ AncIn(current, stored)
      /\ sh.pc = "loop"
      /\ (\A b \in sh.batch : Ht(b) > Ht(current))
      /\ (headBlock \in stored =>
            /\ AncIn(headBlock, stored)
            /\ headBlock \notin sh.batch => AncOrSelf(headBlock, current))
      /\ MinHH <= Ht(current) /\ Ht(current) <= sh.height
  BY DEF IInv, SetHeadStep
<1>2. current # NoHeader /\ Ht(current) > sh.head /\ sh.head \in 0..MaxHeight
      /\ Ht(current) \in 0..MaxHeight
  BY <1>1, HtRange DEF SetHeadStep, Rewinding, TypeOK
<1>3. p \in Hdrs /\ Ht(p) = Ht(current) - 1 /\ AncOrSelf(p, current)
      /\ \A a \in Hdrs : AncOrSelf(a, current) /\ a # current =>
                           AncOrSelf(a, p)
  BY <1>1, <1>2, ParentFacts, ParentAnc
<1>4. p \in stored /\ AncIn(p, stored)
  BY <1>1, <1>3, AncInAnc
<1>5. current' = p /\ cache' \subseteq Hdrs
  BY <1>1, <1>4 DEF SetHeadStep, CachedGet, CacheAfterGet, TypeOK
<1>6. sh' = [sh EXCEPT !.batch = @ \cup {current}]
      /\ UNCHANGED <<storeVars, hcache, rd, crashes>>
  BY DEF SetHeadStep
<1>7. TypeOK'
  BY <1>1, <1>3, <1>5, <1>6 DEF TypeOK, storeVars
<1>11. /\ sh'.batch = sh.batch \cup {current}
       /\ sh'.pc = sh.pc /\ sh'.head = sh.head /\ sh'.height = sh.height
  BY <1>1, <1>6 DEF TypeOK
<1>8. \A b \in sh'.batch : Ht(b) > Ht(p)
  <2>1. \A b \in sh.batch : Ht(b) \in 0..MaxHeight
    BY <1>1, HtRange DEF TypeOK
  <2> QED
    BY <1>1, <1>2, <1>3, <1>11, <2>1
<1>9. headBlock' \in stored' =>
        /\ AncIn(headBlock', stored')
        /\ headBlock' \notin sh'.batch => AncOrSelf(headBlock', current')
  <2>1. UNCHANGED <<stored, headBlock>>
    BY <1>6 DEF storeVars
  <2>2. ASSUME headBlock \in stored, headBlock \notin sh'.batch
        PROVE  AncOrSelf(headBlock, p)
    <3>1. headBlock \notin sh.batch /\ headBlock # current /\ headBlock \in Hdrs
      BY <2>2, <1>11, <1>1 DEF TypeOK
    <3>2. AncOrSelf(headBlock, current)
      BY <3>1, <2>2, <1>1
    <3> QED
      BY <3>1, <3>2, <1>3
  <2> SUFFICES ASSUME headBlock \in stored
               PROVE  /\ AncIn(headBlock, stored)
                      /\ headBlock \notin sh'.batch => AncOrSelf(headBlock, p)
    BY <2>1, <1>5
  <2> QED
    BY <2>2, <1>1
<1>10. MinHH' <= Ht(p) /\ Ht(p) <= sh'.height
  <2>1. sh.height \in 0..MaxHeight
    BY <1>1 DEF TypeOK
  <2>2. MinHH' = MinHH
    BY <1>11 DEF MinHH
  <2>3. MinHH <= sh.head /\ MinHH \in 0..MaxHeight
    BY <2>1, <1>2 DEF MinHH
  <2> QED
    BY <1>1, <1>2, <1>3, <1>11, <2>1, <2>2, <2>3, HeadersAssumption, HeaderChainAssumption
<1> QED
  BY <1>1, <1>3, <1>4, <1>5, <1>6, <1>7, <1>8, <1>9, <1>10
  DEF IInv, storeVars

\* The loop stops exactly at the lower of the old height and the target.
LEMMA SetHeadLoopDoneIInv ==
  ASSUME IInv, SetHeadLoopDone
  PROVE  IInv'
<1>1. TypeOK /\ current \in Hdrs /\ sh.pc = "loop"
      /\ MinHH <= Ht(current) /\ Ht(current) <= sh.height
  BY DEF IInv, SetHeadLoopDone
<1>3. Ht(current) \in 0..MaxHeight /\ sh.head \in 0..MaxHeight
      /\ sh.height \in 0..MaxHeight
  BY <1>1, HtRange DEF TypeOK
<1>2. Ht(current) <= sh.head
  <2>1. current # NoHeader
    BY <1>1, NoHeaderAssumption
  <2>2. ~(Ht(current) > sh.head)
    BY <2>1 DEF SetHeadLoopDone, Rewinding
  <2> QED
    BY <2>2, <1>3
<1>4. Ht(current) = MinHH
  BY <1>1, <1>2, <1>3 DEF MinHH
<1>5. sh' = [sh EXCEPT !.pc = "write"]
      /\ UNCHANGED <<storeVars, current, cache, hcache, rd, crashes>>
  BY DEF SetHeadLoopDone
<1>6. TypeOK'
  BY <1>1, <1>5 DEF TypeOK, storeVars
<1> QED
  BY <1>4, <1>5, <1>6 DEF IInv, MinHH, storeVars

\* The batch holds only headers above the current one, so deleting it keeps
\* the current header and everything below it.
LEMMA SetHeadWriteIInv ==
  ASSUME IInv, SetHeadWrite
  PROVE  IInv'
<1>1. TypeOK /\ current \in Hdrs /\ AncIn(current, stored)
      /\ sh.pc = "write"
      /\ (\A b \in sh.batch : Ht(b) > Ht(current))
      /\ (headBlock \in stored =>
            /\ AncIn(headBlock, stored)
            /\ headBlock \notin sh.batch => AncOrSelf(headBlock, current))
      /\ Ht(current) = MinHH
  BY DEF IInv, SetHeadWrite
<1>2. /\ stored' = stored \ sh.batch
      /\ canon' = [k \in DOMAIN canon |->
                     IF sh.head < k /\ k <= sh.height THEN NoHeader
                     ELSE canon[k]]
      /\ sh' = [sh EXCEPT !.pc = "finish"]
      /\ UNCHANGED <<headHeader, headBlock, current, cache, hcache, rd, crashes>>
  BY DEF SetHeadWrite
<1>3. /\ sh'.pc = "finish" /\ sh'.batch = sh.batch
      /\ sh'.head = sh.head /\ sh'.height = sh.height
  BY <1>1, <1>2 DEF TypeOK
<1>4. Ht(current) \in 0..MaxHeight /\ \A b \in sh.batch : Ht(b) \in 0..MaxHeight
  BY <1>1, HtRange DEF TypeOK
\* Nothing at or below the current header is in the batch.
<1>5. \A a \in Hdrs : AncOrSelf(a, current) => a \notin sh.batch
  <2> SUFFICES ASSUME NEW a \in Hdrs, AncOrSelf(a, current), a \in sh.batch
               PROVE  FALSE
    OBVIOUS
  <2>1. Ht(a) > Ht(current)
    BY <1>1
  <2>2. a # G
    BY <2>1, <1>4, GenesisFacts
  <2> QED
    BY <2>1, <2>2, <1>4 DEF AncOrSelf
<1>6. AncIn(current, stored')
  <2>1. G \notin sh.batch
    BY <1>5, GenesisFacts DEF AncOrSelf
  <2>2. ASSUME NEW j \in 1..Ht(current) PROVE <<j, current[2]>> \notin sh.batch
    <3>1. current # G
      BY <1>4, GenesisFacts
    <3>2. current[2] \in Forks /\ Ht(current) \in 1..MaxHeight
      BY <3>1, <1>1, HeaderShape
    <3>4. j \in 1..MaxHeight /\ j <= Ht(current)
      BY <3>2, HeadersAssumption, HeaderChainAssumption
    <3>5. <<j, current[2]>> \in (1..MaxHeight) \X Forks
      BY <3>2, <3>4
    <3>3. <<j, current[2]>> \in Hdrs /\ AncOrSelf(<<j, current[2]>>, current)
      BY <3>4, <3>5 DEF Hdrs, AncOrSelf, Ht
    <3> QED
      BY <3>3, <1>5
  <2> QED
    BY <1>1, <1>2, <2>1, <2>2 DEF AncIn
<1>7. TypeOK'
  <2>1. stored' \subseteq Hdrs /\ G \in stored'
    BY <1>1, <1>2, <1>6 DEF TypeOK, AncIn
  <2>2. canon' \in [0..MaxHeight -> Hdrs \cup {NoHeader}]
    BY <1>1, <1>2 DEF TypeOK
  <2>3. sh' \in [pc : {"idle", "loop", "write", "finish"},
                 head : 0..MaxHeight, height : 0..MaxHeight,
                 batch : SUBSET Hdrs]
    BY <1>1, <1>2 DEF TypeOK
  <2> QED
    BY <1>1, <1>2, <2>1, <2>2, <2>3 DEF TypeOK
<1>8. headBlock' \in stored' =>
        /\ AncIn(headBlock', stored')
        /\ headBlock' \notin sh'.batch => AncOrSelf(headBlock', current')
  <2> SUFFICES ASSUME headBlock \in stored, headBlock \notin sh.batch
               PROVE  AncIn(headBlock, stored') /\ AncOrSelf(headBlock, current)
    BY <1>2, <1>3
  <2>1. AncOrSelf(headBlock, current) /\ headBlock \in Hdrs
    BY <1>1 DEF TypeOK
  <2> QED
    BY <2>1, <1>1, <1>6, AncInAnc
<1>9. MinHH' = MinHH
  BY <1>3 DEF MinHH
<1> QED
  BY <1>1, <1>2, <1>3, <1>6, <1>7, <1>8, <1>9 DEF IInv

\* SetHeadFinish makes the walk's last header the head; it is stored.
LEMMA SetHeadFinishIInv ==
  ASSUME IInv, SetHeadFinish
  PROVE  IInv'
<1>1. TypeOK /\ current \in Hdrs /\ AncIn(current, stored)
      /\ sh.pc = "finish" /\ sh.batch \cap stored = {}
      /\ (headBlock \in stored =>
            /\ AncIn(headBlock, stored)
            /\ headBlock \notin sh.batch => AncOrSelf(headBlock, current))
  BY DEF IInv, SetHeadFinish
<1>2. FallbackHead = current
  BY <1>1, NoHeaderAssumption DEF FallbackHead
<1>3. /\ cache' = {} /\ hcache' = {}
      /\ current' = current /\ headHeader' = current /\ sh' = Idle
      /\ UNCHANGED <<stored, canon, headBlock, rd, crashes>>
  BY <1>2 DEF SetHeadFinish
<1>4. sh'.pc = "idle" /\ sh'.batch = {}
  BY <1>3 DEF Idle
<1>5. TypeOK'
  BY <1>1, <1>3, IdleType DEF TypeOK
<1>6. headBlock \in stored => AncOrSelf(headBlock, current)
  BY <1>1
<1> QED
  BY <1>1, <1>3, <1>4, <1>5, <1>6 DEF IInv

\* A restart resumes from the head block if it is stored, else from genesis.
LEMMA NewHeaderChainIInv ==
  ASSUME IInv, NewHeaderChain
  PROVE  IInv'
<1> DEFINE found == headBlock # NoHeader /\ headBlock \in stored
<1>1. TypeOK
      /\ (headBlock \in stored => AncIn(headBlock, stored))
  BY DEF IInv
<1>2. /\ crashes < MaxCrashes /\ crashes' = crashes + 1
      /\ current' = IF found THEN headBlock ELSE G
      /\ cache' = {G} \cup (IF found THEN {headBlock} ELSE {})
      /\ hcache' = IF found THEN {headBlock} ELSE {}
      /\ sh' = Idle
      /\ rd' = [pc |-> "idle", arg |-> G, val |-> NoHeader, overlap |-> TRUE]
      /\ UNCHANGED storeVars
  BY DEF NewHeaderChain, RestoredHead
<1>3. G \in Hdrs /\ G \in stored /\ AncIn(G, stored) /\ AncOrSelf(G, G)
  BY <1>1, GenesisFacts DEF TypeOK, AncIn, AncOrSelf
<1>4. Idle.pc = "idle" /\ Idle.batch = {}
  BY DEF Idle
<1>5. CASE found
  <2>1. headBlock \in Hdrs /\ current' = headBlock
    BY <1>1, <1>2, <1>5 DEF TypeOK
  <2>2. AncOrSelf(headBlock, headBlock)
    BY <2>1, AncOrSelfRefl
  <2>3. TypeOK'
    BY <1>1, <1>2, <1>3, <1>5, <2>1, IdleType, HeadersAssumption, HeaderChainAssumption
    DEF TypeOK, storeVars
  <2> QED
    BY <1>1, <1>2, <1>4, <1>5, <2>1, <2>2, <2>3 DEF IInv, storeVars
<1>6. CASE ~found
  <2>1. current' = G /\ headBlock \notin stored
    BY <1>1, <1>2, <1>6, NoHeaderAssumption DEF TypeOK
  <2>2. TypeOK'
    BY <1>1, <1>2, <1>3, <1>6, IdleType, HeadersAssumption, HeaderChainAssumption
    DEF TypeOK, storeVars
  <2> QED
    BY <1>2, <1>3, <1>4, <2>1, <2>2 DEF IInv, storeVars
<1> QED
  BY <1>5, <1>6

\* The block chain puts a child of the current header on top; the head block
\* stays below it.
LEMMA ExtendChainIInv ==
  ASSUME IInv, NEW h \in Hdrs \ {G}, ExtendChain(h)
  PROVE  IInv'
<1>1. TypeOK /\ current \in Hdrs /\ AncIn(current, stored)
      /\ sh.pc = "idle" /\ sh.batch = {}
      /\ (headBlock \in stored =>
            AncIn(headBlock, stored) /\ AncOrSelf(headBlock, current))
  BY DEF IInv, ExtendChain
<1>2. /\ LastCommitHash(h) = current
      /\ stored' = stored \cup {h}
      /\ canon' = [k \in DOMAIN canon |->
                     IF k = Ht(h) THEN h ELSE IF k > Ht(h) THEN NoHeader
                     ELSE canon[k]]
      /\ headHeader' = h /\ current' = h
      /\ UNCHANGED <<headBlock, cache, hcache, sh, rd, crashes>>
  BY DEF ExtendChain
<1>3. h = <<Ht(h), h[2]>> /\ Ht(h) \in 1..MaxHeight /\ h[2] \in Forks
  BY HeaderShape
<1>4. Ht(current) = Ht(h) - 1 /\ AncOrSelf(current, h)
  BY <1>2, <1>3, ParentFacts, ParentAnc
<1>5. AncIn(h, stored')
  <2>1. G \in stored'
    BY <1>1, <1>2 DEF AncIn
  <2>2. ASSUME NEW j \in 1..Ht(h) PROVE <<j, h[2]>> \in stored'
    <3>1. CASE j = Ht(h)
      BY <3>1, <1>2, <1>3
    <3>2. CASE j < Ht(h)
      <4>1. Ht(h) > 1 /\ current = <<Ht(h) - 1, h[2]>>
        BY <3>2, <1>2, <1>3 DEF LastCommitHash
      <4>2. j \in 1..Ht(current) /\ current[2] = h[2]
        BY <4>1, <3>2, <1>3 DEF Ht
      <4> QED
        BY <4>2, <1>1, <1>2 DEF AncIn
    <3> QED
      BY <3>1, <3>2, <1>3
  <2> QED
    BY <2>1, <2>2 DEF AncIn
<1>6. TypeOK'
  <2>1. canon' \in [0..MaxHeight -> Hdrs \cup {NoHeader}]
    BY <1>1, <1>2 DEF TypeOK
  <2> QED
    BY <1>1, <1>2, <2>1 DEF TypeOK
<1>7. headBlock \in stored' =>
        AncIn(headBlock, stored') /\ AncOrSelf(headBlock, h)
  <2>1. CASE headBlock = h
    BY <2>1, <1>5, AncOrSelfRefl
  <2>2. CASE headBlock # h /\ headBlock \in stored'
    <3>1. headBlock \in stored /\ headBlock \in Hdrs
      BY <2>2, <1>1, <1>2 DEF TypeOK
    <3>2. AncIn(headBlock, stored')
      BY <3>1, <1>1, <1>2, AncInMono
    <3>3. AncOrSelf(headBlock, h)
      BY <3>1, <1>1, <1>4, AncOrSelfTrans
    <3> QED
      BY <3>2, <3>3
  <2> QED
    BY <2>1, <2>2
<1> QED
  BY <1>1, <1>2, <1>5, <1>6, <1>7 DEF IInv

\* The block chain commits the current header as its head block.
LEMMA CommitHeadBlockIInv ==
  ASSUME IInv, CommitHeadBlock
  PROVE  IInv'
<1>1. TypeOK /\ current \in Hdrs /\ AncIn(current, stored)
      /\ sh.pc = "idle" /\ sh.batch = {}
  BY DEF IInv, CommitHeadBlock
<1>2. headBlock' = current
      /\ UNCHANGED <<stored, canon, headHeader, current, cache, hcache, sh,
                     rd, crashes>>
  BY DEF CommitHeadBlock
<1>3. AncOrSelf(current, current)
  BY <1>1, AncOrSelfRefl
<1>4. TypeOK'
  BY <1>1, <1>2 DEF TypeOK
<1> QED
  BY <1>1, <1>2, <1>3, <1>4 DEF IInv

LEMMA NextIInv == IInv /\ [Next]_vars => IInv'
<1> SUFFICES ASSUME IInv, [Next]_vars PROVE IInv'
  OBVIOUS
<1>1. CASE \E head \in 0..MaxHeight : SetHeadBegin(head)
  BY <1>1, SetHeadBeginIInv
<1>2. CASE SetHeadStep
  BY <1>2, SetHeadStepIInv
<1>3. CASE SetHeadLoopDone
  BY <1>3, SetHeadLoopDoneIInv
<1>4. CASE SetHeadWrite
  BY <1>4, SetHeadWriteIInv
<1>5. CASE SetHeadFinish
  BY <1>5, SetHeadFinishIInv
<1>6. CASE \E x \in Hdrs : CallGetHeader(x) \/ CallGetHeaderByHash(x)
  BY <1>6, CallIInv
<1>7. CASE \E k \in 0..MaxHeight : CallGetHeaderByHeight(k)
  BY <1>7, CallByHeightIInv
<1>8. CASE LookupHeight \/ CacheHeight \/ LookupHeader \/ CacheHeader
  BY <1>8, LookupIInv
<1>9. CASE NewHeaderChain
  BY <1>9, NewHeaderChainIInv
<1>10. CASE \E h \in Hdrs \ {G} : ExtendChain(h)
  BY <1>10, ExtendChainIInv
<1>11. CASE CommitHeadBlock
  BY <1>11, CommitHeadBlockIInv
<1>12. CASE UNCHANGED vars
  BY <1>12 DEF vars, storeVars, IInv, TypeOK, AncIn, AncOrSelf, MinHH
<1> QED
  BY <1>1, <1>2, <1>3, <1>4, <1>5, <1>6, <1>7, <1>8, <1>9, <1>10, <1>11,
     <1>12 DEF Next

LEMMA IInvInvariant == Spec => []IInv
BY InitIInv, NextIInv, PTL DEF Spec

-----------------------------------------------------------------------------
(* The walk invariant.                                                     *)

LEMMA InitWalkInv == Init => WalkInv
BY DEF Init, WalkInv, Idle

\* SetHeadBegin starts the walk at the current header: an empty batch.
LEMMA SetHeadBeginWalkInv ==
  ASSUME IInv, NEW head \in 0..MaxHeight, SetHeadBegin(head)
  PROVE  WalkInv'
<1>1. current \in Hdrs /\ current # NoHeader /\ Ht(current) \in Nat
  BY HtRange, NoHeaderAssumption DEF IInv
<1>2. sh' = [pc |-> "loop", head |-> head, height |-> Ht(current), batch |-> {}]
      /\ current' = current
  BY <1>1 DEF SetHeadBegin
<1>3. Abs!Above(current, Ht(current)) = {}
  BY <1>1, AboveEmpty
<1>4. Abs!AncestorAt(current, Ht(current)) = current
  BY <1>1, AncestorAtSelf
<1> QED
  BY <1>1, <1>2, <1>3, <1>4 DEF WalkInv

\* A step of the walk adds the current header to the batch and moves one
\* height down the same fork; the header the walk started from stays the top.
LEMMA SetHeadStepWalk ==
  ASSUME IInv, SetHeadStep, NEW top \in Hdrs, Ht(top) = sh.height,
         sh.batch = Abs!Above(top, Ht(current)),
         current = Abs!AncestorAt(top, Ht(current))
  PROVE  /\ sh'.pc = "loop" /\ sh'.height = Ht(top)
         /\ current' \in Hdrs /\ Ht(current') <= Ht(top)
         /\ sh'.batch = Abs!Above(top, Ht(current'))
         /\ current' = Abs!AncestorAt(top, Ht(current'))
<1> DEFINE c == current
<1>1. TypeOK /\ c \in Hdrs /\ AncIn(c, stored) /\ sh.pc = "loop"
      /\ Ht(c) <= sh.height
  BY DEF IInv, SetHeadStep
<1>3. Ht(c) \in 1..Ht(top)
  <2>1. c # NoHeader /\ Ht(c) > sh.head /\ sh.head \in 0..MaxHeight
    BY <1>1, NoHeaderAssumption DEF SetHeadStep, Rewinding, TypeOK
  <2>2. Ht(c) \in 0..MaxHeight /\ Ht(top) \in 0..MaxHeight
    BY <1>1, HtRange
  <2> QED
    BY <1>1, <2>1, <2>2
<1>4. /\ c = <<Ht(c), top[2]>>
      /\ LastCommitHash(c) = Abs!AncestorAt(top, Ht(c) - 1)
  BY <1>3, AncestorAtParent
<1>5. Abs!Above(top, Ht(c) - 1) = sh.batch \cup {c}
  BY <1>3, <1>4, AboveStep
<1>6. LastCommitHash(c) \in Hdrs /\ Ht(LastCommitHash(c)) = Ht(c) - 1
      /\ LastCommitHash(c) \in stored
  BY <1>1, <1>3, ParentFacts, ParentAnc, AncInAnc
<1>7. current' = LastCommitHash(c)
  BY <1>6 DEF SetHeadStep, CachedGet
<1>8. /\ sh'.pc = "loop" /\ sh'.height = sh.height
      /\ sh'.batch = sh.batch \cup {c}
  BY <1>1 DEF SetHeadStep, TypeOK
<1>9. Ht(current') <= Ht(top)
  <2>1. Ht(top) \in 0..MaxHeight
    BY HtRange
  <2> QED
    BY <2>1, <1>3, <1>6, <1>7
<1> QED
  BY <1>4, <1>5, <1>6, <1>7, <1>8, <1>9

LEMMA SetHeadStepWalkInv ==
  ASSUME IInv, WalkInv, SetHeadStep
  PROVE  WalkInv'
<1>1. sh.pc = "loop"
  BY DEF SetHeadStep
<1>2. PICK top \in Hdrs : /\ Ht(top) = sh.height
                         /\ sh.batch = Abs!Above(top, Ht(current))
                         /\ current = Abs!AncestorAt(top, Ht(current))
  BY <1>1 DEF WalkInv
<1> QED
  BY <1>2, SetHeadStepWalk DEF WalkInv

LEMMA NextWalkInv == IInv /\ WalkInv /\ [Next]_vars => WalkInv'
<1> SUFFICES ASSUME IInv, WalkInv, [Next]_vars PROVE WalkInv'
  OBVIOUS
<1>0. sh \in [pc : {"idle", "loop", "write", "finish"}, head : 0..MaxHeight,
              height : 0..MaxHeight, batch : SUBSET Hdrs]
  BY DEF IInv, TypeOK
<1>1. CASE \E head \in 0..MaxHeight : SetHeadBegin(head)
  BY <1>1, SetHeadBeginWalkInv
<1>2. CASE SetHeadStep
  BY <1>2, SetHeadStepWalkInv
<1>3. CASE SetHeadLoopDone
  <2>1. sh'.pc = "write" /\ sh'.height = sh.height /\ sh'.batch = sh.batch
        /\ current' = current /\ sh.pc = "loop"
    BY <1>0, <1>3 DEF SetHeadLoopDone
  <2> QED
    BY <2>1 DEF WalkInv
<1>4. CASE SetHeadWrite \/ SetHeadFinish \/ NewHeaderChain
            \/ (\E h \in Hdrs \ {G} : ExtendChain(h)) \/ CommitHeadBlock
  <2>1. sh'.pc \in {"finish", "idle"}
    BY <1>0, <1>4 DEF SetHeadWrite, SetHeadFinish, NewHeaderChain, ExtendChain,
       CommitHeadBlock, Idle
  <2> QED
    BY <2>1 DEF WalkInv
<1>5. CASE \/ \E x \in Hdrs : CallGetHeader(x) \/ CallGetHeaderByHash(x)
           \/ \E k \in 0..MaxHeight : CallGetHeaderByHeight(k)
           \/ LookupHeight \/ CacheHeight \/ LookupHeader \/ CacheHeader
           \/ UNCHANGED vars
  <2>1. UNCHANGED <<sh, current>>
    BY <1>5 DEF CallGetHeader, CallGetHeaderByHash, CallGetHeaderByHeight,
       LookupHeight, CacheHeight, LookupHeader, CacheHeader, vars
  <2> QED
    BY <2>1 DEF WalkInv
<1> QED
  BY <1>1, <1>2, <1>3, <1>4, <1>5 DEF Next

-----------------------------------------------------------------------------
(* The refinement.                                                         *)

\* Whatever the walk's position, the header it started from is the highest
\* in the batch, or the current header if the batch is still empty.
LEMMA WalkTop ==
  ASSUME NEW top \in Hdrs, NEW cur \in Hdrs, NEW B,
         Ht(cur) <= Ht(top),
         B = Abs!Above(top, Ht(cur)), cur = Abs!AncestorAt(top, Ht(cur))
  PROVE  (IF B # {} THEN (CHOOSE b \in B : Ht(b) = Ht(top)) ELSE cur) = top
<1>1. Ht(cur) \in Nat /\ Ht(top) \in Nat
  BY HtRange, HeadersAssumption
<1>2. CASE Ht(cur) < Ht(top)
  <2>1. top \in B /\ \A b \in B : Ht(b) = Ht(top) => b = top
    BY <1>1, <1>2, AboveTop
  <2> QED
    BY <2>1
<1>3. CASE Ht(cur) = Ht(top)
  <2>1. B = {}
    BY <1>1, <1>3, AboveEmpty
  <2>2. cur = top
    BY <1>3, AncestorAtSelf
  <2> QED
    BY <2>1, <2>2
<1> QED
  BY <1>1, <1>2, <1>3

\* During the walk the abstract head is the header the walk started from.
LEMMA AbsCurrentInWalk ==
  ASSUME IInv, WalkInv, sh.pc \in {"loop", "write"}
  PROVE  \E top \in Hdrs : /\ AbsCurrent = top
                           /\ Ht(top) = sh.height
                           /\ sh.batch = Abs!Above(top, Ht(current))
                           /\ current = Abs!AncestorAt(top, Ht(current))
<1>1. PICK top \in Hdrs : /\ Ht(top) = sh.height
                         /\ sh.batch = Abs!Above(top, Ht(current))
                         /\ current = Abs!AncestorAt(top, Ht(current))
  BY DEF WalkInv
<1>2. current \in Hdrs /\ Ht(current) <= sh.height
  <2>1. current \in Hdrs /\ sh.height \in 0..MaxHeight /\ sh.head \in 0..MaxHeight
    BY DEF IInv, TypeOK
  <2>2. Ht(current) \in 0..MaxHeight
    BY <2>1, HtRange
  <2>3. CASE sh.pc = "loop"
    BY <2>3 DEF IInv
  <2>4. CASE sh.pc = "write"
    BY <2>1, <2>2, <2>4 DEF IInv, MinHH
  <2> QED
    BY <2>1, <2>3, <2>4
<1>3. AbsCurrent = top
  BY <1>1, <1>2, WalkTop DEF AbsCurrent, BatchTop
<1> QED
  BY <1>1, <1>3

LEMMA InitAbs == Init => Abs!Init
BY DEF Init, Abs!Init, AbsCurrent, Idle, G, Abs!G

\* A step that leaves the store, the head block and the mapped head alone
\* is an abstract stutter.
LEMMA AbsStutter ==
  ASSUME UNCHANGED <<stored, headBlock>>, AbsCurrent' = AbsCurrent
  PROVE  [Abs!Next]_Abs!vars
BY DEF Abs!vars

\* Every step of the header chain is a step of HeaderStore or a stutter.
LEMMA NextAbs ==
  ASSUME IInv, WalkInv, [Next]_vars
  PROVE  [Abs!Next]_Abs!vars
<1>0. TypeOK /\ current \in Hdrs
  BY DEF IInv
<1>1. CASE \E head \in 0..MaxHeight : SetHeadBegin(head)
  <2>1. sh.pc = "idle" /\ sh'.pc = "loop" /\ sh'.batch = {}
        /\ UNCHANGED <<stored, headBlock, current>>
    BY <1>1 DEF SetHeadBegin, storeVars
  <2> QED
    BY <2>1, AbsStutter DEF AbsCurrent
<1>2. CASE SetHeadStep
  <2>1. sh.pc = "loop" /\ UNCHANGED <<stored, headBlock>>
    BY <1>2 DEF SetHeadStep, storeVars
  <2>2. PICK top \in Hdrs : /\ AbsCurrent = top
                           /\ Ht(top) = sh.height
                           /\ sh.batch = Abs!Above(top, Ht(current))
                           /\ current = Abs!AncestorAt(top, Ht(current))
    BY <2>1, AbsCurrentInWalk
  <2>3. /\ sh'.pc = "loop" /\ sh'.height = Ht(top)
        /\ current' \in Hdrs /\ Ht(current') <= Ht(top)
        /\ sh'.batch = Abs!Above(top, Ht(current'))
        /\ current' = Abs!AncestorAt(top, Ht(current'))
    BY <1>2, <2>2, SetHeadStepWalk
  <2>4. AbsCurrent' = top
    BY <2>3, WalkTop DEF AbsCurrent, BatchTop
  <2> QED
    BY <2>1, <2>2, <2>4, AbsStutter
<1>3. CASE SetHeadLoopDone
  <2>1. sh.pc = "loop" /\ sh'.pc = "write" /\ sh'.batch = sh.batch
        /\ sh'.height = sh.height /\ UNCHANGED <<stored, headBlock, current>>
    BY <1>0, <1>3 DEF SetHeadLoopDone, TypeOK, storeVars
  <2> QED
    BY <2>1, AbsStutter DEF AbsCurrent, BatchTop
<1>4. CASE SetHeadWrite
  <2>1. sh.pc = "write" /\ sh'.pc = "finish" /\ stored' = stored \ sh.batch
        /\ UNCHANGED <<headBlock, current>>
    BY <1>0, <1>4 DEF SetHeadWrite, TypeOK
  <2>2. PICK top \in Hdrs : /\ AbsCurrent = top
                           /\ Ht(top) = sh.height
                           /\ sh.batch = Abs!Above(top, Ht(current))
                           /\ current = Abs!AncestorAt(top, Ht(current))
    BY <2>1, AbsCurrentInWalk
  <2>3. (IF Ht(top) > sh.head THEN sh.head ELSE Ht(top)) = Ht(current)
    BY <2>1, <2>2 DEF IInv, MinHH
  <2>4. AbsCurrent' = current
    BY <2>1 DEF AbsCurrent
  <2>5. sh.head \in 0..MaxHeight
    BY <1>0 DEF TypeOK
  <2>6. Abs!Rewind(sh.head)
    BY <2>1, <2>2, <2>3, <2>4 DEF Abs!Rewind, Abs!Ht, Ht
  <2> QED
    BY <2>5, <2>6 DEF Abs!Next
<1>5. CASE SetHeadFinish
  <2>1. sh.pc = "finish" /\ sh'.pc = "idle"
        /\ current' = current /\ UNCHANGED <<stored, headBlock>>
    BY <1>0, <1>5, NoHeaderAssumption DEF SetHeadFinish, FallbackHead, Idle
  <2> QED
    BY <2>1, AbsStutter DEF AbsCurrent
<1>6. CASE NewHeaderChain
  <2>1. sh'.pc = "idle" /\ UNCHANGED <<stored, headBlock>>
        /\ current' = IF headBlock \in stored THEN headBlock ELSE G
    <3>1. stored \subseteq Hdrs
      BY <1>0 DEF TypeOK
    <3> QED
      BY <1>6, <3>1, NoHeaderAssumption
      DEF NewHeaderChain, RestoredHead, Idle, storeVars
  <2>2. Abs!Restart
    BY <2>1 DEF Abs!Restart, AbsCurrent, Abs!G, G
  <2> QED
    BY <2>2 DEF Abs!Next
<1>7. CASE \E h \in Hdrs \ {G} : ExtendChain(h)
  <2>1. PICK h \in Hdrs \ {G} : ExtendChain(h)
    BY <1>7
  <2>2. sh.pc = "idle" /\ sh' = sh /\ current' = h
        /\ stored' = stored \cup {h} /\ headBlock' = headBlock
        /\ LastCommitHash(h) = current
    BY <2>1 DEF ExtendChain
  <2>3. Abs!Extend(h)
    BY <2>2 DEF Abs!Extend, AbsCurrent, Abs!LastCommitHash, LastCommitHash,
       Abs!Ht, Ht, Abs!G, G
  <2>4. h \in Abs!Hdrs \ {Abs!G}
    BY DEF Abs!Hdrs, Hdrs, Abs!G, G
  <2> QED
    BY <2>3, <2>4 DEF Abs!Next
<1>8. CASE CommitHeadBlock
  <2>1. sh.pc = "idle" /\ sh' = sh /\ headBlock' = current
        /\ UNCHANGED <<stored, current>>
    BY <1>8 DEF CommitHeadBlock
  <2>2. Abs!CommitHead
    BY <2>1 DEF Abs!CommitHead, AbsCurrent
  <2> QED
    BY <2>2 DEF Abs!Next
<1>9. CASE \/ \E x \in Hdrs : CallGetHeader(x) \/ CallGetHeaderByHash(x)
           \/ \E k \in 0..MaxHeight : CallGetHeaderByHeight(k)
           \/ LookupHeight \/ CacheHeight \/ LookupHeader \/ CacheHeader
           \/ UNCHANGED vars
  <2>1. UNCHANGED <<sh, current, stored, headBlock>>
    BY <1>9 DEF CallGetHeader, CallGetHeaderByHash, CallGetHeaderByHeight,
       LookupHeight, CacheHeight, LookupHeader, CacheHeader, vars, storeVars
  <2> QED
    BY <2>1, AbsStutter DEF AbsCurrent, BatchTop
<1> QED
  BY <1>1, <1>2, <1>3, <1>4, <1>5, <1>6, <1>7, <1>8, <1>9 DEF Next

-----------------------------------------------------------------------------
(* The theorems.                                                           *)

\* The header chain's state stays well typed for every bound: the store, the
\* current header, both caches, the SetHead walk and the readers, under any
\* interleaving of SetHead, lookups, chain extension and crashes.
THEOREM TypeCorrect == Spec => []TypeOK
<1>1. IInv => TypeOK
  BY DEF IInv
<1> QED
  BY <1>1, IInvInvariant, PTL

\* Outside a SetHead, the current header (hc.currentHeader) is a header the
\* store holds: SetHead's walk, its genesis fallback and NewHeaderChain's
\* restore from the head block hash never leave it pointing at a deleted or
\* missing header.
THEOREM CurrentStoredThm == Spec => []CurrentStored
<1>1. IInv => CurrentStored
  <2> SUFFICES ASSUME IInv PROVE current \in stored
    BY DEF CurrentStored
  <2>1. current \in Hdrs /\ AncIn(current, stored)
    BY DEF IInv
  <2> QED
    BY <2>1, AncOrSelfRefl, AncInAnc
<1> QED
  BY <1>1, IInvInvariant, PTL

\* Every SetHead(head) ends with the current header at height head, or at
\* its old height if that was already at or below head.
THEOREM RewindToHeadThm == Spec => RewindToHead
<1>1. IInv => [SetHeadFinish =>
                 Ht(current') = IF sh.height > sh.head THEN sh.head
                                ELSE sh.height]_vars
  <2> SUFFICES ASSUME IInv, SetHeadFinish
               PROVE  Ht(current') = IF sh.height > sh.head THEN sh.head
                                     ELSE sh.height
    OBVIOUS
  <2>1. current \in Hdrs /\ sh.pc = "finish" /\ Ht(current) = MinHH
    BY DEF IInv, SetHeadFinish
  <2>2. current' = current
    BY <2>1, NoHeaderAssumption DEF SetHeadFinish, FallbackHead
  <2> QED
    BY <2>1, <2>2 DEF MinHH
<1> QED
  BY <1>1, IInvInvariant, PTL DEF RewindToHead


\* SetHead, run step by step through the caches, with lookups interleaved
\* and a crash possible at any step, implements HeaderStore's one-step
\* rewind; the block chain's writes and NewHeaderChain's restart from the
\* head block hash are HeaderStore's Extend, CommitHead and Restart.
THEOREM RefinementThm == Spec => AbsSpec
<1>1. Spec => [](IInv /\ WalkInv)
  BY InitIInv, InitWalkInv, NextIInv, NextWalkInv, PTL DEF Spec
<1> QED
  BY <1>1, InitAbs, NextAbs, PTL DEF Spec, AbsSpec, Abs!Spec

=============================================================================
