------------------------------- MODULE Headers -------------------------------
(***************************************************************************)
(* Headers as the header chain (src/blockchain/headerchain.go) sees them:  *)
(* a height and a hash.  A header is <<height, fork>> and is its own hash; *)
(* headers of one height on different forks have different hashes.         *)
(***************************************************************************)
EXTENDS Naturals

CONSTANTS
  MaxHeight,  \* greatest height of a header
  Forks,      \* headers of the same height with different hashes
  NoHeader    \* a nil *types.Header and the zero common.Hash{}

ASSUME HeadersAssumption ==
  /\ MaxHeight \in Nat \ {0}
  /\ Forks # {}

G == <<0, CHOOSE f \in Forks : TRUE>>          \* the genesis header
Hdrs == {G} \cup ((1..MaxHeight) \X Forks)
Ht(h) == h[1]

ASSUME NoHeaderAssumption == NoHeader \notin Hdrs

\* LastCommitHash names the previous header's hash (spec section 4.2).
LastCommitHash(h) == IF Ht(h) = 1 THEN G ELSE <<Ht(h) - 1, h[2]>>

=============================================================================
