SPECIFICATION Spec
CONSTANTS
  Sessions = {s1, s2}
  Nuids = {n1, n2}
  Passwords = {p1}
  Names = {m1, m2}
  Tokens = {}
  None = None
SYMMETRY Symmetry
INVARIANTS TypeOK PersonaOwnedByLogin GrantedNamesAgree
PROPERTIES ImplementsIdentity
