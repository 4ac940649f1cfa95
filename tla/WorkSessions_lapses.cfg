\* Two milestones, two requests under way together, two sessions.
SPECIFICATION Spec
CONSTANTS
  m1 = m1
  m2 = m2
  r1 = r1
  r2 = r2
  Milestones <- TwoMilestones
  Current = m1
  Requests <- TwoRequests
  MaxSessions = 2
  Overview = Overview
  None = None
INVARIANTS SummaryOfEnded OneActive KnownIsActive
PROPERTIES AbandonedEnds LatestSummarised
