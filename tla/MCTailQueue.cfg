CONSTANTS
  h1 = h1
  h2 = h2
  e1 = e1
  e2 = e2
  e3 = e3
  e4 = e4
  Heads = {h1, h2}
  Elements = {e1, e2, e3, e4}
  NULL = NULL
  Trash = Trash

SPECIFICATION Spec

INVARIANTS
  LinksAgree
  LoopVisitsAll
