\* Two calls for one slot, none cut.
CONSTANTS
  Calls = {c1, c2}
  MaxConcurrent = 1
  MaxCuts = 0
SPECIFICATION Spec
INVARIANTS CompileErrorsDoNotCompile
