SPECIFICATION FairSpec
CONSTANTS
  Workers = {w1, w2}
  Clients = {c1, c2}
  Manual = {m1}
  Stopper = st
  MaxJobs = 4
  Types <- MCTypes
  Limit <- MCLimit
INVARIANTS
  CountersTrue
  WakeupsCoverJobs
  StoppedIsDrained
PROPERTIES
  JobsStart
  CallersReturn
