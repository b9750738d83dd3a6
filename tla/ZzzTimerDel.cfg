SPECIFICATION ZzzSpec
CONSTANTS
  c1 = c1
  c2 = c2
  Cpus <- MCTwo
  MaxTicks = 2
INVARIANT DeletedMeansStopped
