SPECIFICATION FairSpec
CONSTANTS
  Controllers = {c1}
  Pids = {p1, p2}
  NoPid = NoPid
  Other = Other
  TermWait = 3
  KillWait = 2
  WaitRetries = 2
PROPERTY
  KillIsWaitedFor
