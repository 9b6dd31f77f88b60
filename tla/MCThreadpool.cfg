SPECIFICATION PoolFairSpec
CONSTANTS
  t1 = t1
  t2 = t2
  loop = loop
  Worker <- MCWorker
  Sender <- MCSender
  Loop = loop
  s1 = s1
  s2 = s2
  q1 = q1
  Work = {s1, s2, q1}
  Slow = {s1, s2}
INVARIANTS
  SendSettles
  LoopWillHear
PROPERTIES
  ImplementsWorkQueue
  QuickIsServed
  JobsFinish
CHECK_DEADLOCK FALSE
