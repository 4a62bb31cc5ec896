-------------------------- MODULE SubsurfaceStack --------------------------
(***************************************************************************)
(* The stacking order of subsurfaces (subcompositor.c) and the order in    *)
(* which the renderer draws them (draw_surface_tree in renderer.c).  A     *)
(* parent's children form a circular wl_list; the renderer draws a surface *)
(* and then its children from the head of the list on, so a later child    *)
(* covers an earlier one.                                                  *)
(*                                                                         *)
(* asked remembers the last request that placed a surface next to a        *)
(* sibling: which of the two the client wants to see above the other.      *)
(***************************************************************************)
EXTENDS Integers, Sequences, FiniteSets, SequencesExt

CONSTANTS Surfaces, None

VARIABLES
    live,       \* surfaces that exist
    subsurface, \* surfaces with a wl_subsurface object
    parent,     \* compositor_surface.parent
    children,   \* compositor_surface.children, head first
    asked       \* the pair <<lower, upper>> of the last request, or None

vars == <<live, subsurface, parent, children, asked>>

TypeOK ==
    /\ live \subseteq Surfaces /\ subsurface \subseteq live
    /\ parent \in [Surfaces -> Surfaces \cup {None}]
    /\ children \in [Surfaces -> Seq(Surfaces)]
    /\ asked \in (Surfaces \X Surfaces) \cup {None}

Init ==
    /\ live = Surfaces /\ subsurface = {}
    /\ parent = [s \in Surfaces |-> None]
    /\ children = [s \in Surfaces |-> <<>>]
    /\ asked = None

-----------------------------------------------------------------------------
PositionOf(list, s) == CHOOSE i \in 1..Len(list) : list[i] = s

\* wl_list_insert: the new element follows the one at the given position of
\* the list, position 0 being the list head.
wl_list_insert(list, position, s) == InsertAt(list, position + 1, s)

\* The position of the element after the given one, the head after the last.
NextPosition(list, position) == (position + 1) % (Len(list) + 1)

Unlink(s) ==
    IF parent[s] = None THEN children
    ELSE [children EXCEPT ![parent[s]] = Remove(@, s)]

\* No chain of parents is longer.
Depth == Cardinality(Surfaces)

\* A legal client does not name a descendant as the parent.
Below(s, p) ==
    LET up[n \in 0..Depth] == IF n = 0 THEN p
                              ELSE IF up[n - 1] = None THEN None ELSE parent[up[n - 1]]
    IN  \E n \in 0..Depth : up[n] = s

subcompositor_get_subsurface(s, p) ==
    /\ {s, p} \subseteq live /\ s /= p /\ s \notin subsurface
    /\ ~Below(s, p)
    /\ subsurface' = subsurface \cup {s}
    /\ parent' = [parent EXCEPT ![s] = p]
    /\ children' = [children EXCEPT ![p] = wl_list_insert(@, 0, s)]
    /\ asked' = None
    /\ UNCHANGED live

\* The list of the parent without s, which wl_list_remove leaves.
Others(s) == Remove(children[parent[s]], s)

Placed(s, list, request) ==
    /\ children' = [children EXCEPT ![parent[s]] = list]
    /\ asked' = request
    /\ UNCHANGED <<live, subsurface, parent>>

MayPlace(s, sibling) ==
    /\ s \in subsurface /\ parent[s] /= None
    /\ sibling \in live \ {s}
    /\ sibling = parent[s] \/ parent[sibling] = parent[s]


\* Above the parent: at the end of the list.  Above a sibling: after the
\* element that follows the sibling.
subsurface_place_above(s, sibling) ==
    /\ MayPlace(s, sibling)
    /\ LET list == Others(s)
           after == IF sibling = parent[s] THEN Len(list)
                    ELSE NextPosition(list, PositionOf(list, sibling))
       IN  Placed(s, wl_list_insert(list, after, s), <<sibling, s>>)

\* Below the parent, which no child can be here: at the head of the list.
\* Below a sibling: after it.
subsurface_place_below(s, sibling) ==
    /\ MayPlace(s, sibling)
    /\ LET list == Others(s)
           after == IF sibling = parent[s] THEN 0 ELSE PositionOf(list, sibling)
       IN  Placed(s, wl_list_insert(list, after, s),
                  IF sibling = parent[s] THEN None ELSE <<s, sibling>>)

subsurface_resource_destroy(s) ==
    /\ s \in subsurface
    /\ subsurface' = subsurface \ {s}
    /\ parent' = [parent EXCEPT ![s] = None]
    /\ children' = Unlink(s) /\ asked' = None
    /\ UNCHANGED live

\* The surface leaves its parent's list, and its children stay without one.
surface_resource_destroy(s) ==
    /\ s \in live
    /\ live' = live \ {s} /\ subsurface' = subsurface \ {s}
    /\ parent' = [t \in Surfaces |-> IF t = s \/ parent[t] = s THEN None ELSE parent[t]]
    /\ children' = [Unlink(s) EXCEPT ![s] = <<>>]
    /\ asked' = None

compositor_create_surface(s) ==
    /\ s \notin live
    /\ live' = live \cup {s}
    /\ UNCHANGED <<subsurface, parent, children, asked>>

Next ==
    \E s \in Surfaces :
        \/ compositor_create_surface(s)
        \/ subsurface_resource_destroy(s)
        \/ surface_resource_destroy(s)
        \/ \E t \in Surfaces :
            \/ subcompositor_get_subsurface(s, t)
            \/ subsurface_place_above(s, t)
            \/ subsurface_place_below(s, t)

Spec == Init /\ [][Next]_vars

-----------------------------------------------------------------------------
\* draw_surface_tree: what one output frame draws of a tree, bottom to top.
draw_surface_tree(s) ==
    LET draw[n \in 0..Depth, t \in Surfaces] ==
            IF n = 0 THEN <<t>>
            ELSE <<t>> \o FlattenSeq([i \in 1..Len(children[t]) |-> draw[n - 1, children[t][i]]])
    IN  draw[Depth, s]


\* server_internal.h:101: the list order is the stacking order the client
\* defined with place_above and place_below.  After a request that places a
\* surface next to a sibling, a frame draws the two in the order requested.
StackingAsRequested ==
    asked /= None =>
        \E i, j \in 1..Len(draw_surface_tree(parent[asked[2]])) :
            LET drawn == draw_surface_tree(parent[asked[2]])
            IN  i < j /\ drawn[i] = asked[1] /\ drawn[j] = asked[2]
=============================================================================
