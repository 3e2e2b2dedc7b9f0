\* Two proposals that share a file, and two requests at a time.
SPECIFICATION Spec
CONSTANTS
  p1 = p1
  p2 = p2
  f1 = f1
  f2 = f2
  f3 = f3
  Promotions = {p1, p2}
  Handlers   = {h1, h2}
  Files      = {f1, f2, f3}
  FilesOf    <- Shared
  None       = None
INVARIANTS
  AppliedIsComplete
  LiveIsAccountedFor
PROPERTY ResolvedOnce
