\* A legacy config without api_host, switched with --grpc-address.
SPECIFICATION Spec
CONSTANTS
  MaxAttempts = 2
  HasAPIHost = FALSE
INVARIANTS
  RollbackHasACause
