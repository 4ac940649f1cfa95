SPECIFICATION Spec
CONSTANTS
  Parts = {"brief"}
  Loads = {l1}
  Reloads = {a1, a2}
  MaxChanges = 1
  MaxFailures = 1
INVARIANTS ReloadTakesEffect
PROPERTIES ContentCatchesUp PromptsCatchUp
