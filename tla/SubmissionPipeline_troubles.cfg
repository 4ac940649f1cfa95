\* Nothing, two rejected calls or crashes, or one lost lock.
CONSTANTS
  Attempts = 2
  MaxStalls = 1
  MaxTroubles <- SomeTrouble
SPECIFICATION FairSpec
INVARIANTS SettledRowAgreesWithEvents CompletedJobSettlesRow UnsettledOnlyIfJobFailed CompletedWasAnnounced
PROPERTIES LifecycleSpec EventuallySettled AcceptedStaysSettled
