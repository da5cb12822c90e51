\* Three nodes and one offer, with and without dynamic reservations.
CONSTANTS
  n1 = n1
  n2 = n2
  n3 = n3
  old = old
  Nodes = {n1, n2, n3}
  NoId = NoId
  Offers <- MCOffers
  Need <- MCNeed
  CPUS_PER_EXECUTOR = 1
  MEM_PER_EXECUTOR = 1
  PORTS_PER_TASK = 3
SPECIFICATION Spec
CHECK_DEADLOCK FALSE
INVARIANTS Conserved NeverOverdrawn PortsExclusive RangesExact AnswersCanBePerformed
