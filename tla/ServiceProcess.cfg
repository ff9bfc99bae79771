SPECIFICATION FairSpec
CONSTANTS
  Controllers = {c1, c2}
  Pids = {p1, p2, p3}
  NoPid = NoPid
  Other = Other
  TermWait = 2
  KillWait = 2
  WaitRetries = 2
INVARIANTS
  TargetGone
  OneServicePerController
PROPERTIES
  CommandsAreBounded
  Terminates
