SPECIFICATION MCSpec
CONSTANTS
  p1 = p1
  k1 = k1
  k2 = k2
  k3 = k3
  first = first
  second = second
  Clients = {first, second}
  Limit = 1
  Room = 1
  Loads <- MCLoads
  Logins = {p1}
  Keys = {k1, k2, k3}
  TypeOf <- MCTypeOf
  Policies <- MCPolicies
  Identities = {"none", "plain", "locked"}
  MaxSub = 2
  MaxWrites = 3
INVARIANTS
  ForwardSound
  FailsForCause
  Negotiated
  BytesExact
PROPERTIES
  LoginTrue
  PartsEnd
CHECK_DEADLOCK FALSE
