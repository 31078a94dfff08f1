\* Clients that die or give up anywhere, on an FSP that may stop.
SPECIFICATION FairSpec
INVARIANTS
  AnswersAreUsable
  OkMeansStoredUndisturbed
  NeverCcdOnly
PROPERTIES
  CallReturns
