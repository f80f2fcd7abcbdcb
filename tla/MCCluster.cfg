SPECIFICATION Spec
CONSTANTS
  Self = self
  Peers = {p1}
  Services = {"etcd", "consul", "k8s"}
  MaxConnects = 2
  MaxChurn = 0
  MaxSubsets = 1
INVARIANTS TypeOK ListenerServes
CHECK_DEADLOCK FALSE
