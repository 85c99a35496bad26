\* One address, two requests at a time, two passwords.
SPECIFICATION Spec
CONSTANTS
  Requests = {o1, o2}
  Passwords = {p1, p2}
  Nobody = Nobody
SYMMETRY Symmetry
CONSTRAINT OneMishap
INVARIANTS
  PasswordsAgree
  SessionsVerified
  ResetIsRepeatable
PROPERTIES
  VerifiedStays
