SPECIFICATION Spec
CONSTANT MaxTasks = 3
INVARIANTS
  TypeOK
  QueuesAreRings
  LookupExact
  Resumable
  Preemptible
PROPERTIES
  SwitchToRunnable
  RoundRobin
