\* Two requests at a time; nothing goes wrong in the pipeline.
SPECIFICATION CompletionSpec
CONSTANTS
  Attempts = 2
  MaxStalls = 0
  MaxTroubles <- NoTrouble
  Posts = {p1, p2}
  Earlier = {"none", "met"}
INVARIANTS CompletionIsEarned OfferKept OneTerminalEvent
PROPERTIES CompletionStands Completes
