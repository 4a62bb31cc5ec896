----------------------------- MODULE LayerShell -----------------------------
(***************************************************************************)
(* State and geometry of a layer surface (layer_shell.c): its size, anchor *)
(* and margin requests, and the commit that computes where the renderer    *)
(* draws it and, the first time, tells the client its size.  Both axes use *)
(* the same two functions, so one axis is modelled.                        *)
(***************************************************************************)
EXTENDS Integers

CONSTANTS
    MaxSize,    \* bound: largest size request (the code refuses above 16384)
    MaxMargin,  \* bound: largest absolute margin
    MaxOutput   \* bound: largest output extent

VARIABLES
    role,       \* the surface has a layer_surface object
    axis,       \* requested size, anchors to the two edges, the two margins
    output,     \* output extent along the axis
    placed,     \* position and size computed by the last commit, and their inputs
    configured  \* layer_configured

vars == <<role, axis, output, placed, configured>>

Axis == [requested : 0..MaxSize, first : BOOLEAN, second : BOOLEAN,
         first_margin : -MaxMargin..MaxMargin, second_margin : -MaxMargin..MaxMargin]

TypeOK ==
    /\ role \in BOOLEAN
    /\ axis \in Axis
    /\ output \in 1..MaxOutput
    /\ configured \in BOOLEAN
    /\ configured => role /\ placed.size \in 1..MaxOutput

NotPlaced == [position |-> 0, size |-> 0, from |-> axis, within |-> output]

Init ==
    /\ role = FALSE
    /\ axis = [requested |-> 0, first |-> FALSE, second |-> FALSE,
               first_margin |-> 0, second_margin |-> 0]
    /\ output \in 1..MaxOutput
    /\ placed = NotPlaced
    /\ configured = FALSE

\* Division as C does it, towards zero.
Half(n) == IF n >= 0 THEN n \div 2 ELSE -((-n) \div 2)

clamp_dimension(value, maximum) ==
    IF value < 1 THEN 1 ELSE IF value > maximum THEN maximum ELSE value

anchored_size(a, extent) ==
    IF a.requested > 0 THEN clamp_dimension(a.requested, extent)
    ELSE IF a.first /\ a.second
    THEN clamp_dimension(extent - a.first_margin - a.second_margin, extent)
    ELSE clamp_dimension(extent, extent)

MutForgetsSize(a, extent, size) ==
    IF a.first THEN a.first_margin
    ELSE IF a.second THEN extent - a.second_margin
    ELSE Half(extent - size) + Half(a.first_margin - a.second_margin)

anchored_position(a, extent, size) ==
    IF a.first THEN a.first_margin
    ELSE IF a.second THEN extent - size - a.second_margin
    ELSE Half(extent - size) + Half(a.first_margin - a.second_margin)

\* A surface that is given the role again keeps the size and the margins it
\* had: only the anchors start anew.
layer_shell_get_layer_surface ==
    /\ ~role
    /\ role' = TRUE
    /\ axis' = [axis EXCEPT !.first = FALSE, !.second = FALSE]
    /\ UNCHANGED <<output, placed, configured>>

layer_surface_resource_destroy ==
    /\ role
    /\ role' = FALSE /\ configured' = FALSE
    /\ UNCHANGED <<axis, output, placed>>

layer_surface_set_size(size) ==
    /\ role
    /\ axis' = [axis EXCEPT !.requested = size]
    /\ UNCHANGED <<role, output, placed, configured>>

layer_surface_set_anchor(first, second) ==
    /\ role
    /\ axis' = [axis EXCEPT !.first = first, !.second = second]
    /\ UNCHANGED <<role, output, placed, configured>>

layer_surface_set_margin(first, second) ==
    /\ role
    /\ axis' = [axis EXCEPT !.first_margin = first, !.second_margin = second]
    /\ UNCHANGED <<role, output, placed, configured>>

trierarch_layer_surface_commit ==
    LET size == anchored_size(axis, output) IN
    /\ role
    /\ placed' = [position |-> anchored_position(axis, output, size), size |-> size,
                  from |-> axis, within |-> output]
    /\ configured' = TRUE
    /\ UNCHANGED <<role, axis, output>>

set_output_size(extent) ==
    /\ extent /= output
    /\ output' = extent
    /\ UNCHANGED <<role, axis, placed, configured>>

Next ==
    \/ layer_shell_get_layer_surface
    \/ layer_surface_resource_destroy
    \/ \E size \in 0..MaxSize : layer_surface_set_size(size)
    \/ \E first, second \in BOOLEAN : layer_surface_set_anchor(first, second)
    \/ \E first, second \in -MaxMargin..MaxMargin : layer_surface_set_margin(first, second)
    \/ \E extent \in 1..MaxOutput : set_output_size(extent)
    \/ trierarch_layer_surface_commit

Spec == Init /\ [][Next]_vars

-----------------------------------------------------------------------------
Reserved(a) == a.first_margin + a.second_margin

\* A commit whose size and margins fit into the output places the surface
\* inside it, for every combination of anchors and in spite of the rounding
\* of centred surfaces.
FittingIsInside ==
    LET a == placed.from IN
    (/\ configured /\ a.first_margin >= 0 /\ a.second_margin >= 0
     /\ a.requested > 0 /\ a.requested + Reserved(a) <= placed.within)
        => /\ placed.position >= 0
           /\ placed.position + placed.size <= placed.within
           /\ placed.size = a.requested

\* A surface without a size that is anchored to both edges covers what its
\* margins leave, down to a single pixel.
StretchedFillsTheRest ==
    LET a == placed.from IN
    (/\ configured /\ a.requested = 0 /\ a.first /\ a.second
     /\ a.first_margin >= 0 /\ a.second_margin >= 0 /\ Reserved(a) < placed.within)
        => /\ placed.position = a.first_margin
           /\ placed.within - (placed.position + placed.size) = a.second_margin
=============================================================================
