SPECIFICATION Spec
CONSTANTS
  Passwords = {p1, p2}
  Unset = Unset
  Keys = {k1, k2}
INVARIANTS EnvOpensDatabase
