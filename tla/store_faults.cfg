SPECIFICATION Spec
CONSTANTS
  x = x
  y = y
  z = z
  c1 = c1
  c2 = c2
  NoKey = NoKey
  NoRequest = NoRequest
  Failed = Failed
  Keys = {x, y, z}
  Callers = {c1}
  Types = {"transfer", "burn"}
  TypeOf <- Typed
  Statuses = {"pending", "succeeded"}
  Pending = "pending"
  Removable = {x, z}
  MaxLength = 5
  MaxAbandons = 2
INVARIANTS
  TypeOK
  StoredIsListed
PROPERTIES
  Promised
