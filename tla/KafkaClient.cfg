CONSTANTS
  t0 = t0
  t1 = t1
  t2 = t2
  Thread = {t0, t1, t2}
  Bootstrap = {"bootstrap"}
  Broker = {"b1"}
  MaxInFlight = 1
  Modes <- AllModes
SPECIFICATION Spec
SYMMETRY Alike
INVARIANTS RequestsEndOnce RefreshTracked NoLostWakeup

CHECK_DEADLOCK FALSE
