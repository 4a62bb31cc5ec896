-------------------------- MODULE MCSurfaceBuffers --------------------------
(* SurfaceBuffers with the symmetry of its interchangeable objects.        *)
EXTENDS SurfaceBuffers, TLC

Symmetry == Permutations(Buffers)
=============================================================================
