\* Every kind of run; two broken connections or Redis calls.
CONSTANTS
  Feeds <- AnyRun
  MaxBreaks = 2
SPECIFICATION FairSpec
INVARIANTS NeverTwice NoEventSkipped OutputKept NothingLeaks
PROPERTIES EventuallyTold
