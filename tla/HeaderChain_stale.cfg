\* Heights 0..2 on two forks: a rewind by more than one header, a chain
\* regrown with other hashes or the same ones, and one crash and restart.
CONSTANTS
  MaxHeight = 2
  Forks = {f1, f2}
  MaxCrashes = 1
  NoHeader = NoHeader
SPECIFICATION Spec

INVARIANT NoStaleLookup

