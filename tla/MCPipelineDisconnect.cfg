\* A client may disconnect while its request is in the pipeline.
SPECIFICATION Spec
CONSTANTS
  Clients = {c1, c2}
  NoClient = NoClient
  Size = 3
  MaxQueries = 2
  Coalesce = TRUE
INVARIANT CallbackClientAlive
CHECK_DEADLOCK FALSE
