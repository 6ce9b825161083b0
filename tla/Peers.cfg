SPECIFICATION Spec
CONSTANTS
  Peers = {p1}
  Tasks = {c1, o1}
  Callers = {c1}
  Offers = {o1}
  MaxFaults = 1
  MaxBusy = 2
INVARIANTS
  TypeOK
  PolicyIsPersisted
  SilentOnlyIfTrusted
PROPERTIES
  ListSettles
