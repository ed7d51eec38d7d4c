SPECIFICATION Spec
CONSTANTS
  t1 = t1
  t2 = t2
  Threads = {t1, t2}
  ResolveEvery = 4
  Width = 8
  MaxDepth = 3
SYMMETRY Symmetry
INVARIANTS NoRedirectInRedirect FoundSoonAfterLoading
PROPERTIES RestartsAreRedirected
