SPECIFICATION Spec
CONSTANTS
  Self = self
  Peers = {p1}
  Services = {"etcd"}
  MaxConnects = 1
  MaxChurn = 0
  MaxSubsets = 1
PROPERTY DisconnectRemoves
CHECK_DEADLOCK FALSE
