------------------------------ MODULE SeatFocus -----------------------------
(***************************************************************************)
(* The surface that input goes to, shared by pointer and keyboard: the     *)
(* largest mapped toplevel.  Each client has one toplevel surface.         *)
(***************************************************************************)
EXTENDS Integers

CONSTANTS
  Clients,   \* numbered in the order of the server's list of surfaces
  MaxArea,
  None

VARIABLE area   \* of a client's toplevel, 0 unless mapped with a buffer

\* The first of the list among those with the largest area.
find_pointer_target ==
  LET mapped == {c \in Clients : area[c] > 0}
      largest == {c \in mapped : \A d \in mapped : area[d] <= area[c]}
  IN IF mapped = {} THEN None ELSE CHOOSE c \in largest : \A d \in largest : c <= d

\* A commit maps, resizes or unmaps the toplevel; the focus does not follow yet.
Commit(c) == \E size \in (0..MaxArea) \ {area[c]} : area' = [area EXCEPT ![c] = size]
=============================================================================
