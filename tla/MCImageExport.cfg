SPECIFICATION Spec
CONSTANTS
  NumBGs = 4
  Jobs <- MCJobs
  BetaTenths = 1
  e1 = e1
  e2 = e2
  Exporters = {e1, e2}
  MaxFaults = 2
  MaxCrashes = 1
INVARIANTS LayoutHolds GreedyBalance RoundTrips AllOrNothing AcceptedIsCanonical
PROPERTIES PublishedStays
