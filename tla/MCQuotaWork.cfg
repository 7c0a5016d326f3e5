CONSTANTS
  a1 = a1  a2 = a2  a3 = a3  a4 = a4
  n1 = n1  n2 = n2
  Waiters = {a1, a2, a3, a4}
  Namespaces = {n1, n2}
  Workers = {k1, k2}
  NsOf <- MCNsOf
SPECIFICATION FairSpec
CHECK_DEADLOCK FALSE
INVARIANTS TypeOK IndInv InOrder NoLostWakeup OneWorkerPerNamespace CloseOnce
PROPERTIES ImplementsBatches EveryWaiterAnswered
