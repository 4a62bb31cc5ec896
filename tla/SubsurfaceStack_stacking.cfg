SPECIFICATION Spec
CONSTANTS
    Surfaces = {a, b, c, d}
    None = None
INVARIANT StackingAsRequested
