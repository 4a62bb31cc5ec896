-------------------------- MODULE ImportedBuffers ---------------------------
(***************************************************************************)
(* The imports of the Wayland host, beside components that use the name    *)
(* running too.                                                            *)
(***************************************************************************)
EXTENDS DmabufObjects

VARIABLES file, guest, fds, ahb, refs, params, expected, users, tokens, i_running, failed

Imports == INSTANCE DmabufImport WITH running <- i_running

importVars == <<file, guest, fds, ahb, refs, params, expected, users, tokens, i_running, failed>>

-----------------------------------------------------------------------------

\* linux_dmabuf.c, protocol_stubs.c: each open descriptor has one object that will
\* close it, hardware buffers are counted exactly, and a buffer made from a token
\* shows its storage, although descriptor and inode numbers are used again.
ImportsOwned == Imports!ImportsOwned
=============================================================================
