SPECIFICATION Spec
CONSTANTS
  x = x
  y = y
  z = z
  c1 = c1
  c2 = c2
  NoKey = NoKey
  NoRequest = NoRequest
  Failed = Failed
  Keys = {x, y}
  Callers = {c1, c2}
  Types = {"transfer"}
  TypeOf <- Typed
  Statuses = {"pending"}
  Pending = "pending"
  Removable = {x}
  MaxLength = 4
  MaxAbandons = 0
INVARIANTS
  StoredIsIndexed
