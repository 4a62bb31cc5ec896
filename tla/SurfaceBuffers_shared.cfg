\* Two surfaces whose clients re-attach and share buffers still in use.
CONSTANTS
  Surfaces = {s1, s2}
  Buffers = {b1, b2}
  Synchronized = {s1}
  Null = Null
  MaxReferences = 3
SPECIFICATION Spec
SYMMETRY Symmetry
INVARIANTS CountersExact ReleasesExact GpuOutlivedByBuffers
