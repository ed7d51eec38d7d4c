SPECIFICATION Spec
CONSTANTS
  Sessions = {s1, s2}
  Nuids = {n1, n2}
  Passwords = {p1, p2}
  Names = {}
  Tokens = {t1, t2}
  None = None
SYMMETRY Symmetry
INVARIANTS AcknowledgedAccountVerifies OneTokenPerIssuer
PROPERTIES PasswordsNeverChange RevocationIsFinal LoginMatchesCredentials
