\* Two threads, one sink inside another, three library calls of each thread.
SPECIFICATION FairSpec
CONSTANTS
  Threads = {"t1", "t2"}
  Sinks = {"default_sink", "s1"}
  Levels <- MCLevels
  Records <- MCRecords
  Programs <- MCPrograms
  MaxCalls = 3
  MaxDepth = 2
INVARIANTS
  TypeOK
  LockDiscipline
  GuardsNest
PROPERTIES
  ImplementsSpec
  AllThreadsEnd
