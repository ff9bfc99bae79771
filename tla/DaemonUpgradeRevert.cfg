SPECIFICATION Spec
CONSTANTS
  Tags = {v1, v2}
  Builds = {b1}
INVARIANTS
  UpdatedMeansInstalled
