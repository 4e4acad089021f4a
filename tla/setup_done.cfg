SPECIFICATION Spec
CONSTANTS
  Passwords = {p1}
  Unset = Unset
  Keys = {k1}
INVARIANTS DoneMeansReady
