SPECIFICATION Spec
CONSTANTS
  Sample = {1, 2, 3, 4, 5, 6, 7, 8, 9, 10}
  RowOf <- Rows
  Seed = {"a"}
  Order <- Orders
  Deployment = {1}
  MaxCollections = 2
INVARIANT NoVariantLeaks
CHECK_DEADLOCK FALSE
