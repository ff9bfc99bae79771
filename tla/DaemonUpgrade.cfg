\* Two releases and two builds, so that a revert is told from an upgrade.
SPECIFICATION Spec
CONSTANTS
  Tags = {v1, v2}
  Builds = {b1, b2}
INVARIANTS
  OldBinaryRecoverable
  NeverInstallsTornBackup
  MissingOnlyAfterFailedRevert
  GithubSuccessRuns
  SuccessIsTargetOrReverted
PROPERTIES
  ReplacesAfterCopy
