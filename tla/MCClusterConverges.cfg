SPECIFICATION MainSpec
CONSTANTS
  Self = self
  Peers = {p1}
  Services = {"etcd", "consul", "k8s"}
  MaxConnects = 2
  MaxChurn = 2
  MaxSubsets = 2
INVARIANT RingIsView
PROPERTIES RingConverges CrashRemoves ConsulDisconnectRemoves
CHECK_DEADLOCK FALSE
