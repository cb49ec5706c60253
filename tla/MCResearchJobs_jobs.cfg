SPECIFICATION Spec
CONSTANTS
  t1 = t1
  t2 = t2
  Tasks <- MCTasks
  Limit <- MCLimit
  Workers = 2
  MaxStarts = 3
  MaxCrashes = 2
SYMMETRY Symmetry
INVARIANT TasksKept
INVARIANT JobsClosed
