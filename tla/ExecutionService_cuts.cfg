\* Two calls for one slot, two cuts.
CONSTANTS
  Calls = {c1, c2}
  MaxConcurrent = 1
  MaxCuts = 2
SPECIFICATION Spec
INVARIANTS NothingKept AnswersTell
PROPERTIES EveryCallEnds
