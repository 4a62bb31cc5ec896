CONSTANTS
  Surfaces = {s1, s2}
  Children = {s2}
  Callbacks = {c1}
  NoSurface = NoSurface
  MaxEglFailures = 1
SPECIFICATION Spec
INVARIANT NeverForgotten
PROPERTY DoneOnlyWhenComposed
