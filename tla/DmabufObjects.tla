--------------------------- MODULE DmabufObjects ----------------------------
(***************************************************************************)
(* The objects of the host that store imported descriptors and hardware    *)
(* buffers, and the numbers the kernel gives files: linux_dmabuf.c,        *)
(* protocol_stubs.c, tvg_scanout.c.                                        *)
(***************************************************************************)
EXTENDS FiniteSets

CONSTANTS
  Fds, Inodes, Ahbs,                  \* descriptor and inode numbers, hardware buffers: all reused
  Params, Handles, Buffers, Tokens,   \* objects of the host
  Expected,                           \* descriptors a handle may be created for
  None

Objects == Params \cup Handles \cup Buffers \cup Tokens

\* A file is known by its inode; storage is the hardware buffer it stands for, or None.
File == [ino : Inodes, storage : Ahbs \cup {None}]

ASSUME ImportAssumption ==
  /\ Params \cap (Handles \cup Buffers \cup Tokens) = {}
  /\ Handles \cap (Buffers \cup Tokens) = {} /\ Buffers \cap Tokens = {}
  /\ None \notin File \cup Ahbs \cup Inodes
  /\ IsFiniteSet(Objects)
=============================================================================
