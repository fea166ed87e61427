SPECIFICATION Spec
CONSTANTS
  x = x
  y = y
  z = z
  c1 = c1
  c2 = c2
  NoKey = NoKey
  NoRequest = NoRequest
  Failed = Failed
  Keys = {x, z}
  Callers = {c1}
  Types = {"transfer", "burn"}
  TypeOf <- Typed
  Statuses = {"pending", "succeeded"}
  Pending = "pending"
  Removable = {x}
  MaxLength = 2
  MaxAbandons = 0
INVARIANTS
  ListingAnswers
