------------------------------ MODULE HeaderStore ------------------------------
(***************************************************************************)
(* What the header chain promises its writers (spec section 4.2): a store  *)
(* of headers and a current head that the block chain extends one child at *)
(* a time, that set_head rewinds in one step ("everything above the new    *)
(* head will be deleted and the new one set", headerchain.go line 145),    *)
(* and that a restart resumes from the head block if the store has it.     *)
(* Caches, the batch and the lookups are not visible here.                 *)
(***************************************************************************)
EXTENDS Headers

VARIABLES
  stored,     \* the headers in the store
  current,    \* the current head header
  headBlock   \* the head block hash the block chain persisted

vars == <<stored, current, headBlock>>

Init ==
  /\ stored = {G}
  /\ current = G
  /\ headBlock = NoHeader

\* The headers of c's fork from height t + 1 up to c.
Above(c, t) == {<<j, c[2]>> : j \in t + 1 .. Ht(c)}

\* The header of c's fork at height t; genesis at height 0.
AncestorAt(c, t) == IF t = 0 THEN G ELSE <<t, c[2]>>

\* set_head(head): the current fork loses every header above
\* min(head, height) and the head moves down to that height.
Rewind(head) ==
  LET t == IF Ht(current) > head THEN head ELSE Ht(current)
  IN  /\ stored' = stored \ Above(current, t)
      /\ current' = AncestorAt(current, t)
      /\ UNCHANGED headBlock

\* The block chain writes a child of the head and makes it the head.
Extend(h) ==
  /\ LastCommitHash(h) = current
  /\ stored' = stored \cup {h}
  /\ current' = h
  /\ UNCHANGED headBlock

\* The block chain persists the head as its head block.
CommitHead ==
  /\ headBlock' = current
  /\ UNCHANGED <<stored, current>>

\* A restart loses nothing stored and resumes from the head block.
Restart ==
  /\ current' = IF headBlock \in stored THEN headBlock ELSE G
  /\ UNCHANGED <<stored, headBlock>>

Next ==
  \/ \E head \in 0..MaxHeight : Rewind(head)
  \/ \E h \in Hdrs \ {G} : Extend(h)
  \/ CommitHead
  \/ Restart

Spec == Init /\ [][Next]_vars

=============================================================================
