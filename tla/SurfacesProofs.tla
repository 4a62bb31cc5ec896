--------------------------- MODULE SurfacesProofs ---------------------------
(***************************************************************************)
(* Proofs about the surfaces of the Wayland host: role objects for any     *)
(* clients, surfaces and kinds of objects, pointer and keyboard delivery   *)
(* for any clients and buttons, and the layer geometry for every output    *)
(* extent, size request and margin.                                        *)
(***************************************************************************)
EXTENDS SurfaceParts, TLAPS

-----------------------------------------------------------------------------
(* Role objects.                                                           *)

RolesTyped ==
  /\ surface \in [Surfaces -> {"unborn", "live", "freed"}]
  /\ field \in [Surfaces -> SUBSET Kinds]
  /\ resource \in [Surfaces -> SUBSET Kinds]
  /\ parent \in [Surfaces -> Surfaces \cup {None}]
  /\ told \in [Surfaces -> Sizes \cup {None}]
  /\ output \in Sizes

\* Fields and resources agree but for the fractional scale, whose resource may go
\* first, and only live surfaces have any.
Linked ==
  \A s \in Surfaces :
    /\ resource[s] \subseteq field[s]
    /\ field[s] \ {"fractional_scale"} \subseteq resource[s]
    /\ field[s] # {} => surface[s] = "live"

\* A toplevel without its xdg_surface exists only while its client is torn down.
Orphaned ==
  \A s \in Surfaces :
    "xdg_toplevel" \in field[s] /\ "xdg_surface" \notin field[s] => leaving = Owner[s]

RolesInv == RolesTyped /\ Linked /\ ParentIsLive /\ PointerFocusIsLive /\ Orphaned /\ ToldCurrentSize

\* Steps that touch no surface, role object or parent keep the links between them.
LEMMA RolesKept ==
  ASSUME RolesTyped, Linked, ParentIsLive, UNCHANGED roleVars
  PROVE  Linked' /\ ParentIsLive' /\ Live' = Live
BY DEF Linked, ParentIsLive, roleVars, Live

\* Attaching a role object to a live surface.
LEMMA Attached ==
  ASSUME RolesTyped, Linked, ParentIsLive, PointerFocusIsLive, NEW s \in Live,
         NEW k \in Kinds, Attach(s, k),
         UNCHANGED <<surface, pointer_focus, cursor_surface>>
  PROVE  /\ field' \in [Surfaces -> SUBSET Kinds] /\ resource' \in [Surfaces -> SUBSET Kinds]
         /\ Linked' /\ PointerFocusIsLive' /\ Live' = Live
         /\ \A t \in Surfaces : field'[t] = IF t = s THEN field[s] \cup {k} ELSE field[t]
BY DEF RolesTyped, Linked, PointerFocusIsLive, Live, Attach

\* Destroying a role object.
LEMMA Detached ==
  ASSUME RolesTyped, Linked, ParentIsLive, PointerFocusIsLive, NEW s \in Surfaces,
         NEW k \in resource[s],
         RoleDestroyed(s, k), UNCHANGED <<surface, pointer_focus, cursor_surface>>
  PROVE  /\ field' \in [Surfaces -> SUBSET Kinds] /\ resource' \in [Surfaces -> SUBSET Kinds]
         /\ parent' \in [Surfaces -> Surfaces \cup {None}]
         /\ Linked' /\ ParentIsLive' /\ PointerFocusIsLive' /\ Live' = Live
         /\ \A t \in Surfaces : field'[t] \subseteq field[t] /\ (t # s => field'[t] = field[t])
         /\ k # "xdg_toplevel" /\ "xdg_toplevel" \in field[s] => "xdg_toplevel" \in field'[s]
         /\ k # "xdg_surface" /\ "xdg_surface" \in field[s] => "xdg_surface" \in field'[s]
         /\ k # "fractional_scale" => k \notin field'[s]
<1>1. Live' = Live /\ PointerFocusIsLive'  BY DEF Live, PointerFocusIsLive
<1>2. /\ field' \in [Surfaces -> SUBSET Kinds] /\ resource' \in [Surfaces -> SUBSET Kinds]
      /\ parent' \in [Surfaces -> Surfaces \cup {None}]
  BY DEF RolesTyped, RoleDestroyed
<1>3. /\ \A t \in Surfaces :
           field'[t] = IF t = s /\ k # "fractional_scale" THEN field[t] \ {k} ELSE field[t]
      /\ \A t \in Surfaces : resource'[t] = IF t = s THEN resource[t] \ {k} ELSE resource[t]
      /\ \A t \in Surfaces : parent'[t] \in {parent[t], None}
  BY Zenon DEF RolesTyped, RoleDestroyed
<1>4. Linked'  BY <1>3, Zenon DEF Linked
<1>5. ParentIsLive'  BY <1>1, <1>3 DEF ParentIsLive
<1>. QED  BY <1>1, <1>2, <1>3, <1>4, <1>5

\* Freeing a surface.
LEMMA Freed ==
  ASSUME RolesTyped, Linked, ParentIsLive, PointerFocusIsLive, NEW s \in Surfaces,
         surface_resource_destroy(s)
  PROVE  /\ surface' \in [Surfaces -> {"unborn", "live", "freed"}]
         /\ field' \in [Surfaces -> SUBSET Kinds] /\ resource' \in [Surfaces -> SUBSET Kinds]
         /\ parent' \in [Surfaces -> Surfaces \cup {None}]
         /\ Linked' /\ ParentIsLive' /\ PointerFocusIsLive' /\ Live' = Live \ {s}
         /\ \A t \in Surfaces : field'[t] = IF t = s THEN {} ELSE field[t]
<1>1. /\ surface' \in [Surfaces -> {"unborn", "live", "freed"}]
      /\ field' \in [Surfaces -> SUBSET Kinds] /\ resource' \in [Surfaces -> SUBSET Kinds]
      /\ parent' \in [Surfaces -> Surfaces \cup {None}]
  BY DEF RolesTyped, surface_resource_destroy, ForgetIf
<1>2. /\ \A t \in Surfaces : field'[t] = IF t = s THEN {} ELSE field[t]
      /\ \A t \in Surfaces : resource'[t] = IF t = s THEN resource[t] \ field[t] ELSE resource[t]
      /\ \A t \in Surfaces : surface'[t] = IF t = s THEN "freed" ELSE surface[t]
      /\ \A t \in Surfaces : parent'[t] = IF t = s \/ parent[t] = s THEN None ELSE parent[t]
  BY Zenon DEF RolesTyped, surface_resource_destroy, ForgetIf
<1>3. Live' = Live \ {s}  BY <1>2 DEF Live
<1>4. Linked'  BY <1>2 DEF Linked
<1>5. ParentIsLive'  BY <1>2, <1>3, RoleConstants DEF ParentIsLive
<1>6. PointerFocusIsLive'
  BY <1>3, RoleConstants DEF PointerFocusIsLive, surface_resource_destroy, ForgetIf
<1>. QED  BY <1>1, <1>2, <1>3, <1>4, <1>5, <1>6

\* Requests, focus changes, resizes and teardown in any order keep the links between
\* surfaces and role objects, and the sizes the toplevels were told.
LEMMA RolesInductive == Spec => []RolesInv
<1>1. Init => RolesInv
  BY DEF Init, RolesInv, RolesTyped, Linked, ParentIsLive, PointerFocusIsLive, Orphaned,
     ToldCurrentSize, Live
<1>2. RolesInv /\ [Next]_vars => RolesInv'
  <2> SUFFICES ASSUME RolesInv, [Next]_vars PROVE RolesInv'  OBVIOUS
  <2>i. RolesTyped /\ Linked /\ ParentIsLive /\ PointerFocusIsLive /\ Orphaned /\ ToldCurrentSize
    BY DEF RolesInv
  <2>l. Live \subseteq Surfaces  BY DEF Live
  \* The sizes and the orphans follow when no field is added to.
  <2>q. ASSUME Live' \subseteq Live, UNCHANGED <<output, told>>,
               \A t \in Surfaces : field'[t] \subseteq field[t]
        PROVE  ToldCurrentSize'
    BY <2>i, <2>l, <2>q DEF ToldCurrentSize
  <2>r. ASSUME UNCHANGED leaving,
               \A t \in Surfaces : "xdg_toplevel" \in field'[t] => "xdg_toplevel" \in field[t],
               \A t \in Surfaces : "xdg_toplevel" \in field'[t] /\ "xdg_surface" \in field[t]
                                    => "xdg_surface" \in field'[t]
        PROVE  Orphaned'
    BY <2>i, <2>r DEF Orphaned
  \* Steps that leave surfaces and role objects alone.
  <2>k. ASSUME UNCHANGED <<roleVars, told, output, leaving>>, PointerFocusIsLive' PROVE RolesInv'
    <3>1. Linked' /\ ParentIsLive' /\ Live' = Live  BY <2>i, <2>k, RolesKept
    <3>2. RolesTyped' /\ Orphaned'  BY <2>i, <2>k DEF RolesTyped, Orphaned, roleVars
    <3>3. ToldCurrentSize'  BY <2>i, <2>k, <3>1 DEF ToldCurrentSize, roleVars
    <3>. QED  BY <2>k, <3>1, <3>2, <3>3 DEF RolesInv
  <2>0. CASE UNCHANGED vars
    BY <2>0, <2>i, <2>k DEF vars, seatVars, PointerFocusIsLive, Live, roleVars
  <2>1. ASSUME NEW s \in Surfaces, compositor_create_surface(s) PROVE RolesInv'
    <3>1. Live' = Live \cup {s} /\ s \notin Live
      BY <2>1, <2>i DEF compositor_create_surface, Live, RolesTyped
    <3>2. RolesTyped' /\ Linked' /\ ParentIsLive' /\ PointerFocusIsLive' /\ Orphaned'
      <4>1. surface' \in [Surfaces -> {"unborn", "live", "freed"}]
        BY <2>1, <2>i DEF compositor_create_surface, RolesTyped
      <4>2. \A t \in Surfaces : surface'[t] = IF t = s THEN "live" ELSE surface[t]
        BY <2>1, <2>i DEF compositor_create_surface, RolesTyped
      <4>3. Linked'  BY <2>1, <2>i, <4>2 DEF compositor_create_surface, Linked
      <4>. QED  BY <2>1, <2>i, <3>1, <4>1, <4>3
                DEF compositor_create_surface, RolesTyped, ParentIsLive, PointerFocusIsLive,
                    Orphaned, seatVars
    <3>3. field[s] = {}  BY <2>1, <2>i DEF compositor_create_surface, Linked
    <3>4. ToldCurrentSize'
      BY <2>1, <2>i, <3>1, <3>3 DEF compositor_create_surface, ToldCurrentSize
    <3>. QED  BY <3>2, <3>4 DEF RolesInv
  <2>2. ASSUME NEW s \in Surfaces, NEW k \in {"xdg_surface", "viewport", "fractional_scale"},
               GetPlain(s, k)
        PROVE  RolesInv'
    <3>1. s \in Live /\ k \in Kinds /\ Attach(s, k) /\ leaving = None
          /\ UNCHANGED <<surface, parent, output, told, leaving, pointer_focus, cursor_surface>>
      BY <2>2 DEF GetPlain, seatVars
    <3>2. /\ field' \in [Surfaces -> SUBSET Kinds] /\ resource' \in [Surfaces -> SUBSET Kinds]
          /\ Linked' /\ PointerFocusIsLive' /\ Live' = Live
          /\ \A t \in Surfaces : field'[t] = IF t = s THEN field[s] \cup {k} ELSE field[t]
      BY <2>i, <3>1, Attached, SMTT(30)
    <3>3. "xdg_toplevel" \in field[s] => "xdg_surface" \in field[s]
      BY <2>i, <3>1, RoleConstants DEF Orphaned
    <3>4. RolesTyped' /\ ParentIsLive'  BY <2>i, <3>1, <3>2 DEF RolesTyped, ParentIsLive
    <3>5. Orphaned'  BY <2>i, <3>1, <3>2, <3>3 DEF Orphaned
    <3>6. ToldCurrentSize'  BY <2>i, <2>l, <3>1, <3>2, <3>3 DEF ToldCurrentSize
    <3>. QED  BY <3>2, <3>4, <3>5, <3>6 DEF RolesInv
  <2>3. ASSUME NEW s \in Surfaces, xdg_surface_get_toplevel(s) PROVE RolesInv'
    <3>1. /\ s \in Live /\ "xdg_toplevel" \in Kinds /\ Attach(s, "xdg_toplevel") /\ leaving = None
          /\ "xdg_surface" \in field[s]
          /\ UNCHANGED <<surface, parent, output, leaving, pointer_focus, cursor_surface>>
      BY <2>3, <2>i DEF xdg_surface_get_toplevel, seatVars, Linked, Live
    <3>2. /\ field' \in [Surfaces -> SUBSET Kinds] /\ resource' \in [Surfaces -> SUBSET Kinds]
          /\ Linked' /\ PointerFocusIsLive' /\ Live' = Live
          /\ \A t \in Surfaces : field'[t] = IF t = s THEN field[s] \cup {"xdg_toplevel"} ELSE field[t]
      BY <2>i, <3>1, Attached, SMTT(30)
    <3>3. told' = [told EXCEPT ![s] = output]
      BY <2>3, <3>1, <3>2 DEF xdg_surface_get_toplevel, Configured
    <3>4. RolesTyped' /\ ParentIsLive'  BY <2>i, <3>1, <3>2, <3>3 DEF RolesTyped, ParentIsLive
    <3>5. Orphaned'  BY <2>i, <3>1, <3>2 DEF Orphaned
    <3>6. ToldCurrentSize'
      <4>1. \A t \in Surfaces : told'[t] = IF t = s THEN output ELSE told[t]
        BY <2>i, <3>3 DEF RolesTyped
      <4>. QED  BY <2>i, <3>1, <3>2, <4>1 DEF ToldCurrentSize, Live
    <3>. QED  BY <3>2, <3>4, <3>5, <3>6 DEF RolesInv
  <2>4. ASSUME NEW s \in Surfaces, layer_shell_get_layer_surface(s) PROVE RolesInv'
    <3>1. /\ s \in Live /\ "layer_surface" \in Kinds /\ Attach(s, "layer_surface")
          /\ UNCHANGED <<surface, parent, output, told, leaving, pointer_focus, cursor_surface>>
      BY <2>4 DEF layer_shell_get_layer_surface, seatVars
    <3>2. /\ field' \in [Surfaces -> SUBSET Kinds] /\ resource' \in [Surfaces -> SUBSET Kinds]
          /\ Linked' /\ PointerFocusIsLive' /\ Live' = Live
          /\ \A t \in Surfaces : field'[t] = IF t = s THEN field[s] \cup {"layer_surface"} ELSE field[t]
      BY <2>i, <3>1, Attached, SMTT(30)
    <3>3. RolesTyped' /\ ParentIsLive'  BY <2>i, <3>1, <3>2 DEF RolesTyped, ParentIsLive
    <3>4. Orphaned'  BY <2>i, <3>1, <3>2 DEF Orphaned
    <3>5. ToldCurrentSize'  BY <2>i, <3>1, <3>2 DEF ToldCurrentSize, Live
    <3>. QED  BY <3>2, <3>3, <3>4, <3>5 DEF RolesInv
  <2>5. ASSUME NEW s \in Surfaces, NEW p \in Surfaces, subcompositor_get_subsurface(s, p)
        PROVE  RolesInv'
    <3>1. /\ s \in Live /\ p \in Live /\ "subsurface" \in Kinds /\ Attach(s, "subsurface")
          /\ parent' = [parent EXCEPT ![s] = p]
          /\ UNCHANGED <<surface, output, told, leaving, pointer_focus, cursor_surface>>
      BY <2>5 DEF subcompositor_get_subsurface, seatVars
    <3>2. /\ field' \in [Surfaces -> SUBSET Kinds] /\ resource' \in [Surfaces -> SUBSET Kinds]
          /\ Linked' /\ PointerFocusIsLive' /\ Live' = Live
          /\ \A t \in Surfaces : field'[t] = IF t = s THEN field[s] \cup {"subsurface"} ELSE field[t]
      BY <2>i, <3>1, Attached, Zenon
    <3>3. RolesTyped' /\ ParentIsLive'  BY <2>i, <3>1, <3>2, Zenon DEF RolesTyped, ParentIsLive
    <3>4. Orphaned'  BY <2>i, <3>1, <3>2 DEF Orphaned
    <3>5. ToldCurrentSize'  BY <2>i, <3>1, <3>2 DEF ToldCurrentSize, Live
    <3>. QED  BY <3>2, <3>3, <3>4, <3>5 DEF RolesInv
  <2>6. ASSUME NEW s \in Surfaces, NEW k \in Kinds, destroy_role(s, k) \/ teardown_role(s, k)
        PROVE  RolesInv'
    <3>1. /\ k \in resource[s] /\ RoleDestroyed(s, k)
          /\ UNCHANGED <<surface, output, told, leaving, pointer_focus, cursor_surface>>
      BY <2>6 DEF destroy_role, teardown_role, seatVars
    <3>2. /\ field' \in [Surfaces -> SUBSET Kinds] /\ resource' \in [Surfaces -> SUBSET Kinds]
          /\ parent' \in [Surfaces -> Surfaces \cup {None}]
          /\ Linked' /\ ParentIsLive' /\ PointerFocusIsLive' /\ Live' = Live
          /\ \A t \in Surfaces : field'[t] \subseteq field[t] /\ (t # s => field'[t] = field[t])
          /\ k # "xdg_surface" /\ "xdg_surface" \in field[s] => "xdg_surface" \in field'[s]
      BY <2>i, <3>1, Detached
    <3>3. RolesTyped'  BY <2>i, <3>1, <3>2 DEF RolesTyped
    <3>4. ToldCurrentSize'  BY <2>q, <3>1, <3>2
    <3>5. Orphaned'
      <4>1. CASE k = "xdg_surface" /\ destroy_role(s, k)
        <5>1. "xdg_toplevel" \notin field[s]  BY <2>i, <4>1 DEF destroy_role, Linked
        <5>. QED  BY <2>r, <3>1, <3>2, <5>1
      <4>2. CASE k = "xdg_surface" /\ teardown_role(s, k)
        BY <2>i, <3>1, <3>2, <4>2 DEF teardown_role, Orphaned
      <4>3. CASE k # "xdg_surface"  BY <2>r, <3>1, <3>2, <4>3
      <4>. QED  BY <2>6, <4>1, <4>2, <4>3
    <3>. QED  BY <3>2, <3>3, <3>4, <3>5 DEF RolesInv
  <2>7. ASSUME NEW s \in Surfaces, fractional_destroy(s) PROVE RolesInv'
    <3>1. /\ \A t \in Surfaces : field'[t] = IF t = s THEN field[t] \ {"fractional_scale"} ELSE field[t]
          /\ \A t \in Surfaces :
               resource'[t] = IF t = s THEN resource[t] \ {"fractional_scale"} ELSE resource[t]
          /\ field' \in [Surfaces -> SUBSET Kinds] /\ resource' \in [Surfaces -> SUBSET Kinds]
      BY <2>7, <2>i, Zenon DEF fractional_destroy, RolesTyped
    <3>2. /\ UNCHANGED <<surface, parent, output, told, leaving, pointer_focus, cursor_surface>>
          /\ Live' = Live
      BY <2>7 DEF fractional_destroy, seatVars, Live
    <3>3. RolesTyped'  BY <2>i, <3>1, <3>2 DEF RolesTyped
    <3>4. Linked'  BY <2>i, <3>1, <3>2 DEF Linked
    <3>5. ParentIsLive' /\ PointerFocusIsLive'  BY <2>i, <3>2 DEF ParentIsLive, PointerFocusIsLive
    <3>6. Orphaned' /\ ToldCurrentSize'  BY <2>q, <2>r, <3>1, <3>2
    <3>. QED  BY <3>3, <3>4, <3>5, <3>6 DEF RolesInv
  <2>8. ASSUME NEW s \in Surfaces, surface_destroy_request(s) \/ teardown_surface(s) PROVE RolesInv'
    <3>1. surface_resource_destroy(s) /\ UNCHANGED <<output, told, leaving>>
      BY <2>8 DEF surface_destroy_request, teardown_surface
    <3>2. /\ surface' \in [Surfaces -> {"unborn", "live", "freed"}]
          /\ field' \in [Surfaces -> SUBSET Kinds] /\ resource' \in [Surfaces -> SUBSET Kinds]
          /\ parent' \in [Surfaces -> Surfaces \cup {None}]
          /\ Linked' /\ ParentIsLive' /\ PointerFocusIsLive' /\ Live' = Live \ {s}
          /\ \A t \in Surfaces : field'[t] = IF t = s THEN {} ELSE field[t]
      BY <2>i, <3>1, Freed
    <3>3. RolesTyped'  BY <2>i, <3>1, <3>2 DEF RolesTyped
    <3>4. Orphaned' /\ ToldCurrentSize'  BY <2>q, <2>r, <3>1, <3>2
    <3>. QED  BY <3>2, <3>3, <3>4 DEF RolesInv
  <2>9. ASSUME NEW c \in Clients, disconnect(c) PROVE RolesInv'
    <3>1. /\ UNCHANGED <<roleVars, told, output, pointer_focus, cursor_surface>> /\ leaving = None
      BY <2>9 DEF disconnect, seatVars
    <3>2. Linked' /\ ParentIsLive' /\ Live' = Live  BY <2>i, <3>1, RolesKept
    <3>3. RolesTyped' /\ PointerFocusIsLive' /\ ToldCurrentSize'
      BY <2>i, <3>1, <3>2 DEF RolesTyped, PointerFocusIsLive, ToldCurrentSize, roleVars
    <3>4. Orphaned'  BY <2>i, <3>1, RoleConstants DEF Orphaned, roleVars
    <3>. QED  BY <3>2, <3>3, <3>4 DEF RolesInv
  <2>10. ASSUME teardown_done PROVE RolesInv'
    <3>1. UNCHANGED <<roleVars, told, output, pointer_focus, cursor_surface>>
      BY <2>10 DEF teardown_done, seatVars
    <3>2. Linked' /\ ParentIsLive' /\ Live' = Live  BY <2>i, <3>1, RolesKept
    <3>3. RolesTyped' /\ PointerFocusIsLive' /\ ToldCurrentSize'
      BY <2>i, <3>1, <3>2 DEF RolesTyped, PointerFocusIsLive, ToldCurrentSize, roleVars
    <3>4. Orphaned'
      BY <2>10, <2>i, <3>1 DEF Orphaned, roleVars, teardown_done, Linked
    <3>. QED  BY <3>2, <3>3, <3>4 DEF RolesInv
  <2>11. ASSUME NEW s \in Surfaces, NEW attach \in BOOLEAN, trierarch_surface_commit(s, attach)
         PROVE  RolesInv'
    BY <2>11, <2>i, <2>k DEF trierarch_surface_commit, seatVars, PointerFocusIsLive, Live, roleVars
  <2>12. ASSUME NEW s \in Surfaces \cup {None},
                update_pointer_focus(s) \/ update_keyboard_focus(s) \/ pointer_set_cursor(s)
         PROVE  RolesInv'
    <3>1. UNCHANGED <<roleVars, told, output, leaving>> /\ Live' = Live
      BY <2>12 DEF update_pointer_focus, update_keyboard_focus, pointer_set_cursor, roleVars, Live
    <3>2. PointerFocusIsLive'
      BY <2>12, <2>i, <3>1 DEF PointerFocusIsLive, update_pointer_focus, update_keyboard_focus,
         pointer_set_cursor, find_pointer_target, Candidates
    <3>. QED  BY <2>k, <3>1, <3>2
  <2>13. ASSUME NEW size \in Sizes, trierarch_wayland_set_output_size(size) PROVE RolesInv'
    <3>1. /\ UNCHANGED <<roleVars, leaving, pointer_focus, cursor_surface>> /\ output' = size
          /\ told' = [s \in Surfaces |->
                IF {"xdg_surface", "xdg_toplevel"} \subseteq field[s] THEN size ELSE told[s]]
      BY <2>13 DEF trierarch_wayland_set_output_size, seatVars
    <3>2. Linked' /\ ParentIsLive' /\ Live' = Live  BY <2>i, <3>1, RolesKept
    <3>3. RolesTyped' /\ PointerFocusIsLive' /\ Orphaned'
      BY <2>i, <3>1, <3>2 DEF RolesTyped, PointerFocusIsLive, Orphaned, roleVars
    <3>4. ToldCurrentSize'  BY <3>1, <3>2 DEF ToldCurrentSize, roleVars, Live
    <3>. QED  BY <3>2, <3>3, <3>4 DEF RolesInv
  <2>14. ASSUME NEW s \in Surfaces, Requests(s) PROVE RolesInv'
    BY <2>14, <2>1, <2>2, <2>3, <2>4, <2>5, <2>6, <2>7, <2>8, <2>11
    DEF Requests, wm_base_get_xdg_surface, viewporter_get_viewport, fractional_get
  <2>15. CASE Teardown  BY <2>15, <2>6, <2>8, <2>9, <2>10 DEF Teardown
  <2>16. CASE Host  BY <2>16, <2>12, <2>13 DEF Host
  <2>. QED  BY <2>0, <2>14, <2>15, <2>16 DEF Next
<1>. QED  BY <1>1, <1>2, PTL DEF Spec

\* The field of a fractional scale is stale only during the teardown of its client.
ScaleLost ==
  \A s \in Surfaces : "fractional_scale" \in field[s] \ resource[s] => leaving = Owner[s]

\* Only teardown_role takes the resource and leaves the field, and teardown_done finds no
\* surface of the client left.
LEMMA ScaleLostInductive == Spec => []ScaleLost
<1>1. Init => ScaleLost  BY DEF Init, ScaleLost
<1>2. RolesInv /\ ScaleLost /\ [Next]_vars => ScaleLost'
  <2> SUFFICES ASSUME RolesInv, ScaleLost, [Next]_vars PROVE ScaleLost'  OBVIOUS
  <2>i. RolesTyped /\ Linked  BY DEF RolesInv
  <2>k. ASSUME UNCHANGED <<field, resource, leaving>> PROVE ScaleLost'  BY <2>k DEF ScaleLost
  <2>a. ASSUME NEW s \in Surfaces, NEW k, Attach(s, k), UNCHANGED leaving PROVE ScaleLost'
    <3>1. \A t \in Surfaces : /\ field'[t] = IF t = s THEN field[t] \cup {k} ELSE field[t]
                              /\ resource'[t] = IF t = s THEN resource[t] \cup {k} ELSE resource[t]
      BY <2>a, <2>i, Zenon DEF Attach, RolesTyped
    <3>. QED  BY <2>a, <3>1 DEF ScaleLost
  <2>1. ASSUME NEW s \in Surfaces, Requests(s) PROVE ScaleLost'
    <3>1. CASE compositor_create_surface(s) \/ \E attach \in BOOLEAN : trierarch_surface_commit(s, attach)
      BY <2>k, <3>1 DEF compositor_create_surface, trierarch_surface_commit, roleVars
    <3>2. CASE \/ xdg_surface_get_toplevel(s) \/ layer_shell_get_layer_surface(s)
               \/ wm_base_get_xdg_surface(s) \/ viewporter_get_viewport(s) \/ fractional_get(s)
               \/ \E q \in Surfaces : subcompositor_get_subsurface(s, q)
      BY <2>a, <3>2 DEF xdg_surface_get_toplevel, layer_shell_get_layer_surface, GetPlain,
         wm_base_get_xdg_surface, viewporter_get_viewport, fractional_get,
         subcompositor_get_subsurface
    <3>3. ASSUME NEW k \in Kinds, destroy_role(s, k) PROVE ScaleLost'
      <4>1. /\ k # "fractional_scale" /\ UNCHANGED leaving
            /\ field' = [field EXCEPT ![s] = @ \ {k}] /\ resource' = [resource EXCEPT ![s] = @ \ {k}]
        BY <3>3 DEF destroy_role, RoleDestroyed
      <4>2. \A t \in Surfaces : /\ field'[t] = IF t = s THEN field[t] \ {k} ELSE field[t]
                                /\ resource'[t] = IF t = s THEN resource[t] \ {k} ELSE resource[t]
        BY <2>i, <4>1, Zenon DEF RolesTyped
      <4>. QED  BY <4>1, <4>2 DEF ScaleLost
    <3>4. CASE fractional_destroy(s)
      <4>1. /\ UNCHANGED leaving
            /\ \A t \in Surfaces : t # s => field'[t] = field[t] /\ resource'[t] = resource[t]
            /\ "fractional_scale" \notin field'[s]
        BY <2>i, <3>4 DEF fractional_destroy, RolesTyped
      <4>. QED  BY <4>1 DEF ScaleLost
    <3>5. CASE surface_destroy_request(s)
      <4>1. /\ UNCHANGED leaving
            /\ \A t \in Surfaces : t # s => field'[t] = field[t] /\ resource'[t] = resource[t]
            /\ field'[s] = {}
        BY <2>i, <3>5 DEF surface_destroy_request, surface_resource_destroy, RolesTyped
      <4>. QED  BY <4>1 DEF ScaleLost
    <3>. QED  BY <2>1, <3>1, <3>2, <3>3, <3>4, <3>5 DEF Requests
  <2>2. CASE Teardown
    <3>1. ASSUME NEW c \in Clients, disconnect(c) PROVE ScaleLost'
      <4>1. leaving = None /\ UNCHANGED <<field, resource>>  BY <3>1 DEF disconnect, roleVars
      <4>. QED  BY <4>1, RoleConstants DEF ScaleLost
    <3>2. ASSUME NEW s \in Surfaces, teardown_surface(s) PROVE ScaleLost'
      <4>1. /\ UNCHANGED leaving
            /\ \A t \in Surfaces : t # s => field'[t] = field[t] /\ resource'[t] = resource[t]
            /\ field'[s] = {}
        BY <2>i, <3>2 DEF teardown_surface, surface_resource_destroy, RolesTyped
      <4>. QED  BY <4>1 DEF ScaleLost
    <3>3. ASSUME NEW s \in Surfaces, NEW k \in Kinds, teardown_role(s, k) PROVE ScaleLost'
      <4>1. /\ leaving = Owner[s] /\ UNCHANGED leaving
            /\ \A t \in Surfaces : t # s => field'[t] = field[t] /\ resource'[t] = resource[t]
        BY <2>i, <3>3 DEF teardown_role, RoleDestroyed, RolesTyped
      <4>. QED  BY <4>1 DEF ScaleLost
    <3>4. CASE teardown_done
      <4>1. /\ \A s \in Surfaces : Owner[s] = leaving => surface[s] # "live"
            /\ UNCHANGED <<field, resource>>
        BY <3>4 DEF teardown_done, roleVars
      <4>2. \A s \in Surfaces : field[s] # {} => surface[s] = "live"  BY <2>i DEF Linked
      <4>. QED  BY <4>1, <4>2 DEF ScaleLost
    <3>. QED  BY <2>2, <3>1, <3>2, <3>3, <3>4 DEF Teardown
  <2>3. CASE Host
    BY <2>3, <2>k DEF Host, update_pointer_focus, update_keyboard_focus, pointer_set_cursor,
       trierarch_wayland_set_output_size, roleVars
  <2>4. CASE UNCHANGED vars  BY <2>4, <2>k DEF vars, roleVars
  <2>. QED  BY <2>1, <2>2, <2>3, <2>4 DEF Next
<1>. QED  BY <1>1, <1>2, RolesInductive, PTL DEF Spec

\* However a client or its teardown orders what it destroys, no role object outlives
\* its surface, no field of a surface names a role object that is gone, except the
\* fractional scale's while its client is torn down (protocol_stubs.c:33), and parents,
\* pointer focus and cursor are live surfaces (surface_resource_destroy).  The keyboard
\* focus, which that destructor does not clear, is no part of this.
THEOREM RolePointersStayLive == Spec => []RolePointersLive
<1>1. RolesInv /\ ScaleLost => RolePointersLive
  BY DEF RolesInv, ScaleLost, RolePointersLive, RoleOfLiveSurface, FieldsAreLive, Linked, Live
<1>. QED  BY <1>1, RolesInductive, ScaleLostInductive, PTL

\* Whenever resizes come between the creation of its role objects, every toplevel was
\* last told the current output size (trierarch_wayland_set_output_size).
THEOREM ToplevelsToldSize == Spec => []ToldCurrentSize
BY RolesInductive, PTL DEF RolesInv

-----------------------------------------------------------------------------
(* Pointer and keyboard delivery.                                          *)

\* Only clients with a pointer object believe a button pressed: without it they
\* would miss its release.
PointerInv ==
  /\ pointers \subseteq SeatClients
  /\ DOMAIN held = SeatClients
  /\ \A c \in SeatClients :
       held[c] # {} => c = pointer_at /\ c \in pointers /\ held[c] \subseteq pointer_buttons

\* Moving the focus leaves buttons known only to a client that keeps it.
LEMMA HeldAfterFocus ==
  ASSUME PointerInv, NEW c \in SeatClients, Pointer!update_pointer_focus[c] # {}
  PROVE  /\ c = Pointer!find_pointer_target /\ c \in pointers
         /\ Pointer!update_pointer_focus[c] = held[c] /\ held[c] \subseteq pointer_buttons
BY DEF PointerInv, Pointer!update_pointer_focus

\* A client believes a button pressed only while it has the focus and the server
\* still records the button, so its release or a leave is yet to come, however
\* surfaces map, resize and vanish and pointer objects come and go in between
\* (update_pointer_focus, trierarch_pointer_set_button, trierarch_pointer_reset).
THEOREM ButtonsNeverStuck == Pointer!Spec => []NoStuckButton
<1>1. Pointer!Init => PointerInv  BY DEF Pointer!Init, PointerInv
<1>2. PointerInv /\ [Pointer!Next]_(Pointer!vars) => PointerInv'
  <2> SUFFICES ASSUME PointerInv, [Pointer!Next]_(Pointer!vars) PROVE PointerInv'  OBVIOUS
  <2>0. CASE UNCHANGED Pointer!vars  BY <2>0 DEF Pointer!vars, PointerInv
  <2>d. DOMAIN Pointer!update_pointer_focus = SeatClients
    BY DEF PointerInv, Pointer!update_pointer_focus
  <2>1. CASE Pointer!trierarch_pointer_move_absolute
    <3>1. /\ pointer_at' = Pointer!find_pointer_target /\ held' = Pointer!update_pointer_focus
          /\ UNCHANGED <<pointers, pointer_buttons>>
      BY <2>1 DEF Pointer!trierarch_pointer_move_absolute
    <3>2. \A c \in SeatClients :
            held'[c] # {} => c = pointer_at' /\ c \in pointers /\ held'[c] \subseteq pointer_buttons
      BY <3>1, HeldAfterFocus
    <3>. QED  BY <2>d, <3>1, <3>2 DEF PointerInv
  <2>2. ASSUME NEW b \in Buttons, NEW pressed \in BOOLEAN,
               Pointer!trierarch_pointer_set_button(b, pressed)
        PROVE  PointerInv'
    <3>1. /\ pointer_at' = Pointer!find_pointer_target /\ UNCHANGED pointers
          /\ held' = [c \in SeatClients |->
                         Pointer!Told(c, b, pressed, Pointer!update_pointer_focus[c])]
          /\ pointer_buttons' = IF ~pressed THEN pointer_buttons \ {b}
                                ELSE IF Pointer!find_pointer_target = None THEN pointer_buttons
                                ELSE pointer_buttons \cup {b}
      BY <2>2 DEF Pointer!trierarch_pointer_set_button
    <3>2. ASSUME NEW c \in SeatClients, held'[c] # {}
          PROVE  c = pointer_at' /\ c \in pointers' /\ held'[c] \subseteq pointer_buttons'
      <4>1. held'[c] = Pointer!Told(c, b, pressed, Pointer!update_pointer_focus[c])  BY <3>1
      <4>2. CASE c # Pointer!find_pointer_target \/ c \notin pointers
        BY <3>2, <4>1, <4>2, HeldAfterFocus DEF Pointer!Told
      <4>3. CASE c = Pointer!find_pointer_target /\ c \in pointers
        <5>1. Pointer!update_pointer_focus[c] \subseteq pointer_buttons  BY HeldAfterFocus
        <5>2. held'[c] = IF pressed THEN Pointer!update_pointer_focus[c] \cup {b}
                         ELSE Pointer!update_pointer_focus[c] \ {b}
          BY <4>1, <4>3 DEF Pointer!Told
        <5>. QED  BY <3>1, <4>3, <5>1, <5>2, SeatConstants
      <4>. QED  BY <4>2, <4>3
    <3>3. pointers' \subseteq SeatClients /\ DOMAIN held' = SeatClients  BY <3>1 DEF PointerInv
    <3>. QED  BY <3>2, <3>3 DEF PointerInv
  <2>3. CASE Pointer!trierarch_pointer_reset
    <3>1. /\ pointer_at' = Pointer!find_pointer_target /\ UNCHANGED pointers
          /\ held' = [c \in SeatClients |->
                         IF c = Pointer!find_pointer_target /\ c \in pointers
                         THEN Pointer!update_pointer_focus[c] \ pointer_buttons
                         ELSE Pointer!update_pointer_focus[c]]
      BY <2>3 DEF Pointer!trierarch_pointer_reset
    <3>2. ASSUME NEW c \in SeatClients PROVE held'[c] = {}
      <4>1. Pointer!update_pointer_focus[c] # {}
              => Pointer!update_pointer_focus[c] \subseteq pointer_buttons
        BY HeldAfterFocus
      <4>. QED  BY <3>1, <4>1, HeldAfterFocus
    <3>. QED  BY <3>1, <3>2 DEF PointerInv
  <2>4. ASSUME NEW c \in SeatClients, Pointer!surface_resource_destroy(c) PROVE PointerInv'
    BY <2>4 DEF Pointer!surface_resource_destroy, PointerInv
  <2>5. ASSUME NEW c \in SeatClients,
               \/ Pointer!surface_commit(c) \/ Pointer!seat_get_pointer(c)
               \/ Pointer!pointer_resource_destroy(c)
        PROVE  PointerInv'
    BY <2>5 DEF Pointer!surface_commit, Pointer!seat_get_pointer, Pointer!pointer_resource_destroy,
       PointerInv
  <2>. QED  BY <2>0, <2>1, <2>2, <2>3, <2>4, <2>5 DEF Pointer!Next, Pointer!trierarch_pointer_scroll
<1>3. PointerInv => NoStuckButton  BY DEF PointerInv, NoStuckButton, Pointer!NoStuckButton
<1>. QED  BY <1>1, <1>2, <1>3, PTL DEF Pointer!Spec

\* Only clients with a keyboard object know modifiers: the others hear of no change.
KeyboardInv ==
  /\ keyboards \subseteq SeatClients
  /\ DOMAIN told_mods = SeatClients
  /\ \A c \in SeatClients :
       told_mods[c] # None => /\ c = keyboard_at /\ ~focus_freed
                              /\ c \in keyboards /\ told_mods[c] = Keyboard!mods

\* A move of the focus while the modifiers stay: the new client is told them.
LEMMA FocusTellsModifiers ==
  ASSUME KeyboardInv, NEW present \in SUBSET SeatClients, keyboards \subseteq present,
         NEW reused, Keyboard!update_keyboard_focus(present, reused),
         keyboards' = present, UNCHANGED <<mods_depressed, mods_locked>>
  PROVE  KeyboardInv'
<1>1. Keyboard!mods' = Keyboard!mods  BY DEF Keyboard!mods
<1>. QED  BY <1>1 DEF KeyboardInv, Keyboard!update_keyboard_focus, Keyboard!SameSurface

\* A client that was told modifiers since it got the keyboard focus was told the
\* current ones, whichever keys are pressed under other clients' focus and however
\* the focus, its surface and the keyboard objects come and go (update_keyboard_focus,
\* trierarch_keyboard_set_key).
THEOREM ModifiersCurrent == Keyboard!Spec => []ModifiersKnown
<1>1. Keyboard!Init => KeyboardInv  BY DEF Keyboard!Init, KeyboardInv
<1>2. KeyboardInv /\ [Keyboard!Next]_(Keyboard!vars) => KeyboardInv'
  <2> SUFFICES ASSUME KeyboardInv, [Keyboard!Next]_(Keyboard!vars) PROVE KeyboardInv'  OBVIOUS
  <2>0. CASE UNCHANGED Keyboard!vars
    BY <2>0 DEF Keyboard!vars, Keyboard!focusVars, KeyboardInv, Keyboard!mods
  <2>1. ASSUME NEW key \in Keyboard!Keys, NEW pressed \in BOOLEAN,
               Keyboard!trierarch_keyboard_set_key(key, pressed)
        PROVE  KeyboardInv'
    <3>1. CASE Keyboard!find_pointer_target = None
      <4>1. /\ Keyboard!update_keyboard_focus(keyboards, FALSE)
            /\ UNCHANGED <<keyboards, mods_depressed, mods_locked>>
        BY <2>1, <3>1 DEF Keyboard!trierarch_keyboard_set_key
      <4>. QED  BY <4>1, FocusTellsModifiers DEF KeyboardInv
    <3>2. CASE Keyboard!find_pointer_target # None
      <4>1. /\ keyboard_at' = Keyboard!find_pointer_target /\ ~focus_freed' /\ UNCHANGED keyboards
            /\ told_mods' = [c \in SeatClients |->
                   IF c = Keyboard!find_pointer_target /\ c \in keyboards THEN Keyboard!mods'
                   ELSE IF c = keyboard_at /\ c # Keyboard!find_pointer_target THEN None
                   ELSE told_mods[c]]
        BY <2>1, <3>2 DEF Keyboard!trierarch_keyboard_set_key
      <4>. QED  BY <4>1 DEF KeyboardInv
    <3>. QED  BY <3>1, <3>2
  <2>2. ASSUME NEW c \in SeatClients, NEW reused \in BOOLEAN, Keyboard!seat_get_keyboard(c, reused)
        PROVE  KeyboardInv'
    <3>1. /\ keyboards' = keyboards \cup {c} /\ Keyboard!update_keyboard_focus(keyboards', reused)
          /\ UNCHANGED <<mods_depressed, mods_locked>>
      BY <2>2 DEF Keyboard!seat_get_keyboard
    <3>2. keyboards \cup {c} \in SUBSET SeatClients  BY DEF KeyboardInv
    <3>. QED  BY <3>1, <3>2, FocusTellsModifiers
  <2>3. ASSUME NEW c \in SeatClients,
               Keyboard!keyboard_resource_destroy(c) \/ Keyboard!surface_commit(c)
        PROVE  KeyboardInv'
    BY <2>3 DEF Keyboard!keyboard_resource_destroy, Keyboard!surface_commit, KeyboardInv,
                Keyboard!mods, Keyboard!focusVars
  <2>4. ASSUME NEW c \in SeatClients, Keyboard!surface_resource_destroy(c) PROVE KeyboardInv'
    BY <2>4 DEF Keyboard!surface_resource_destroy, KeyboardInv, Keyboard!mods
  <2>. QED  BY <2>0, <2>1, <2>2, <2>3, <2>4 DEF Keyboard!Next
<1>3. KeyboardInv => ModifiersKnown  BY DEF KeyboardInv, ModifiersKnown, Keyboard!ModifiersKnown
<1>. QED  BY <1>1, <1>2, <1>3, PTL DEF Keyboard!Spec

-----------------------------------------------------------------------------
(* Layer geometry.  The inductive invariant is that placed is what the     *)
(* last commit computed from the inputs it recorded.                       *)

\* What trierarch_layer_surface_commit leaves in placed.
LayerComputed ==
    configured =>
        /\ placed.from \in Layer!Axis
        /\ placed.within \in 1..MaxOutput
        /\ placed.size = Layer!anchored_size(placed.from, placed.within)
        /\ placed.position = Layer!anchored_position(placed.from, placed.within, placed.size)

LayerTyped ==
    /\ axis \in Layer!Axis
    /\ layer_output \in 1..MaxOutput

LayerIInv == LayerTyped /\ LayerComputed

\* clamp_dimension returns a size between one pixel and the output's extent.
LEMMA ClampBounds ==
    ASSUME NEW value \in Int, NEW maximum \in Nat, maximum >= 1
    PROVE  Layer!clamp_dimension(value, maximum) \in 1..maximum
  BY DEF Layer!clamp_dimension

\* Half rounds towards zero, as the division of anchored_position does.
LEMMA HalfBounds ==
    ASSUME NEW n \in Int
    PROVE  /\ Layer!Half(n) \in Int
           /\ n >= 0 => 2 * Layer!Half(n) <= n /\ 2 * Layer!Half(n) >= n - 1
           /\ n < 0 => 2 * Layer!Half(n) >= n /\ 2 * Layer!Half(n) <= n + 1
  <1>1. CASE n >= 0
    BY <1>1 DEF Layer!Half
  <1>2. CASE n < 0
    <2> DEFINE k == -n
    <2>1. k \in Int /\ k > 0
      BY <1>2
    <2>2. /\ k \div 2 \in Int
          /\ 2 * (k \div 2) <= k
          /\ 2 * (k \div 2) >= k - 1
      BY <2>1
    <2> HIDE DEF k
    <2>3. Layer!Half(n) = -(k \div 2)
      BY <1>2 DEF Layer!Half, k
    <2>4. n = -k
      BY DEF k
    <2> QED
      BY <1>2, <2>1, <2>2, <2>3, <2>4
  <1> QED
    BY <1>1, <1>2

\* A layer surface whose requested size and margins fit is placed inside the
\* output by anchored_size and anchored_position, for every combination of
\* anchors and every rounding of a centred position.
LEMMA GeometryFits ==
    ASSUME NEW a \in Layer!Axis, NEW extent \in Nat, extent >= 1,
           MaxSize \in Nat, MaxMargin \in Nat,
           a.first_margin >= 0, a.second_margin >= 0,
           a.requested > 0, a.requested + Layer!Reserved(a) <= extent
    PROVE  LET size == Layer!anchored_size(a, extent)
               position == Layer!anchored_position(a, extent, size)
           IN  /\ size = a.requested
               /\ position >= 0
               /\ position + size <= extent
  <1> DEFINE r == a.requested  m1 == a.first_margin  m2 == a.second_margin
  <1>1. r \in Int /\ m1 \in Int /\ m2 \in Int
    BY DEF Layer!Axis
  <1>2. r > 0 /\ m1 >= 0 /\ m2 >= 0 /\ r + m1 + m2 <= extent
    BY <1>1 DEF Layer!Reserved
  <1>3. Layer!anchored_size(a, extent) = r
    BY <1>1, <1>2 DEF Layer!anchored_size, Layer!clamp_dimension
  <1>4. CASE a.first
    BY <1>1, <1>2, <1>3, <1>4 DEF Layer!anchored_position
  <1>5. CASE ~a.first /\ a.second
    BY <1>1, <1>2, <1>3, <1>5 DEF Layer!anchored_position
  <1>6. CASE ~a.first /\ ~a.second
    <2>1. Layer!anchored_position(a, extent, r) = Layer!Half(extent - r) + Layer!Half(m1 - m2)
      BY <1>6 DEF Layer!anchored_position
    <2> HIDE DEF r, m1, m2
    <2> DEFINE x == extent - r  y == m1 - m2
    <2>2. x \in Int /\ y \in Int
      BY <1>1
    <2>3. x >= m1 + m2
      BY <1>1, <1>2
    <2>4. x >= y /\ x >= -y
      BY <1>1, <1>2, <2>3
    <2> DEFINE hx == Layer!Half(x)  hy == Layer!Half(y)
    <2>5. /\ hx \in Int /\ hy \in Int
          /\ 2 * hx <= x /\ 2 * hx >= x - 1
          /\ y >= 0 => 2 * hy <= y /\ 2 * hy >= y - 1
          /\ y < 0 => 2 * hy >= y /\ 2 * hy <= y + 1
      <3>1. x >= 0
        BY <1>1, <1>2, <2>3
      <3> HIDE DEF x, y
      <3> QED
        BY <3>1, <2>2, HalfBounds
    <2> HIDE DEF x, y, hx, hy
    <2>6. hx + hy >= 0
      BY <2>2, <2>4, <2>5
    <2>7. hx + hy <= x
      BY <2>2, <2>4, <2>5
    <2>8. Layer!anchored_position(a, extent, r) = hx + hy
      BY <2>1 DEF x, y, hx, hy
    <2>9. x = extent - r
      BY DEF x
    <2> QED
      BY <1>1, <1>3, <2>2, <2>5, <2>6, <2>7, <2>8, <2>9 DEF r
  <1> QED
    BY <1>4, <1>5, <1>6

\* A layer surface without a size that is anchored to both edges fills what
\* its margins leave.
LEMMA GeometryStretches ==
    ASSUME NEW a \in Layer!Axis, NEW extent \in Nat, extent >= 1,
           MaxSize \in Nat, MaxMargin \in Nat,
           a.first_margin >= 0, a.second_margin >= 0,
           a.requested = 0, a.first, a.second, Layer!Reserved(a) < extent
    PROVE  LET size == Layer!anchored_size(a, extent)
               position == Layer!anchored_position(a, extent, size)
           IN  /\ position = a.first_margin
               /\ extent - (position + size) = a.second_margin
  <1> DEFINE m1 == a.first_margin  m2 == a.second_margin
  <1>1. m1 \in Int /\ m2 \in Int
    BY DEF Layer!Axis
  <1>2. m1 >= 0 /\ m2 >= 0 /\ m1 + m2 < extent
    BY <1>1 DEF Layer!Reserved
  <1>3. Layer!anchored_size(a, extent) = extent - m1 - m2
    BY <1>1, <1>2 DEF Layer!anchored_size, Layer!clamp_dimension
  <1>4. Layer!anchored_position(a, extent, extent - m1 - m2) = m1
    BY DEF Layer!anchored_position
  <1> QED
    BY <1>1, <1>2, <1>3, <1>4

\* Every request of the layer surface, a commit and a resize keep placed equal
\* to what the last commit computed.
LEMMA LayerInductive == Layer!Spec => []LayerIInv
  <1>1. Layer!Init => LayerIInv
    BY LayerConstants DEF Layer!Init, LayerIInv, LayerTyped, LayerComputed, Layer!Axis
  <1>2. LayerIInv /\ [Layer!Next]_Layer!vars => LayerIInv'
    <2> SUFFICES ASSUME LayerIInv, [Layer!Next]_Layer!vars PROVE LayerIInv'
      OBVIOUS
    <2> USE LayerConstants
    <2>1. CASE Layer!layer_shell_get_layer_surface
      BY <2>1, Zenon DEF LayerIInv, LayerTyped, LayerComputed, Layer!Axis,
                         Layer!layer_shell_get_layer_surface
    <2>2. CASE Layer!layer_surface_resource_destroy
      BY <2>2 DEF LayerIInv, LayerTyped, LayerComputed, Layer!layer_surface_resource_destroy
    <2>3. ASSUME NEW size \in 0..MaxSize, Layer!layer_surface_set_size(size)
          PROVE  LayerIInv'
      BY <2>3 DEF LayerIInv, LayerTyped, LayerComputed, Layer!Axis, Layer!layer_surface_set_size
    <2>4. ASSUME NEW first \in BOOLEAN, NEW second \in BOOLEAN,
                 Layer!layer_surface_set_anchor(first, second)
          PROVE  LayerIInv'
      BY <2>4, Zenon DEF LayerIInv, LayerTyped, LayerComputed, Layer!Axis,
                         Layer!layer_surface_set_anchor
    <2>5. ASSUME NEW first \in -MaxMargin..MaxMargin, NEW second \in -MaxMargin..MaxMargin,
                 Layer!layer_surface_set_margin(first, second)
          PROVE  LayerIInv'
      BY <2>5, Zenon DEF LayerIInv, LayerTyped, LayerComputed, Layer!Axis,
                         Layer!layer_surface_set_margin
    <2>6. ASSUME NEW extent \in 1..MaxOutput, Layer!set_output_size(extent)
          PROVE  LayerIInv'
      BY <2>6 DEF LayerIInv, LayerTyped, LayerComputed, Layer!set_output_size
    <2>7. CASE Layer!trierarch_layer_surface_commit
      BY <2>7 DEF LayerIInv, LayerTyped, LayerComputed, Layer!trierarch_layer_surface_commit
    <2>8. CASE UNCHANGED Layer!vars
      BY <2>8 DEF LayerIInv, LayerTyped, LayerComputed, Layer!vars
    <2> QED
      BY <2>1, <2>2, <2>3, <2>4, <2>5, <2>6, <2>7, <2>8 DEF Layer!Next
  <1> QED
    BY <1>1, <1>2, PTL DEF Layer!Spec

\* Whatever requests and resizes came before, the position and size a layer
\* surface got from its last commit lie inside the output when they can.
THEOREM LayerInsideOutput == Layer!Spec => []FittingIsInside
  <1>1. LayerIInv => FittingIsInside
    <2> DEFINE a == placed.from
    <2> SUFFICES ASSUME LayerIInv, configured, a.first_margin >= 0, a.second_margin >= 0,
                        a.requested > 0, a.requested + Layer!Reserved(a) <= placed.within
                 PROVE  /\ placed.position >= 0
                        /\ placed.position + placed.size <= placed.within
                        /\ placed.size = a.requested
      BY DEF FittingIsInside, Layer!FittingIsInside
    <2>1. a \in Layer!Axis /\ placed.within \in Nat /\ placed.within >= 1
      BY LayerConstants DEF LayerIInv, LayerComputed
    <2>2. /\ placed.size = Layer!anchored_size(a, placed.within)
          /\ placed.position = Layer!anchored_position(a, placed.within, placed.size)
      BY DEF LayerIInv, LayerComputed
    <2>3. MaxSize \in Nat /\ MaxMargin \in Nat
      BY LayerConstants
    <2> DEFINE w == placed.within
    <2> HIDE DEF a, w
    <2>4. /\ Layer!anchored_size(a, w) = a.requested
          /\ Layer!anchored_position(a, w, Layer!anchored_size(a, w)) >= 0
          /\ Layer!anchored_position(a, w, Layer!anchored_size(a, w)) + Layer!anchored_size(a, w) <= w
      <3>1. a \in Layer!Axis /\ w \in Nat /\ w >= 1 /\ a.requested + Layer!Reserved(a) <= w
        BY <2>1 DEF w
      <3> QED
        BY <2>3, <3>1, GeometryFits
    <2> QED
      BY <2>2, <2>4 DEF w
  <1> QED
    BY <1>1, LayerInductive, PTL

\* A layer surface stretched between two edges always covers exactly what its
\* margins leave of the output.
THEOREM LayerFillsTheRest == Layer!Spec => []StretchedFillsTheRest
  <1>1. LayerIInv => StretchedFillsTheRest
    <2> DEFINE a == placed.from
    <2> SUFFICES ASSUME LayerIInv, configured, a.requested = 0, a.first, a.second,
                        a.first_margin >= 0, a.second_margin >= 0,
                        Layer!Reserved(a) < placed.within
                 PROVE  /\ placed.position = a.first_margin
                        /\ placed.within - (placed.position + placed.size) = a.second_margin
      BY DEF StretchedFillsTheRest, Layer!StretchedFillsTheRest
    <2>1. a \in Layer!Axis /\ placed.within \in Nat /\ placed.within >= 1
      BY LayerConstants DEF LayerIInv, LayerComputed
    <2>2. /\ placed.size = Layer!anchored_size(a, placed.within)
          /\ placed.position = Layer!anchored_position(a, placed.within, placed.size)
      BY DEF LayerIInv, LayerComputed
    <2>3. MaxSize \in Nat /\ MaxMargin \in Nat
      BY LayerConstants
    <2> DEFINE w == placed.within
    <2> HIDE DEF a, w
    <2>4. /\ Layer!anchored_position(a, w, Layer!anchored_size(a, w)) = a.first_margin
          /\ w - (Layer!anchored_position(a, w, Layer!anchored_size(a, w)) + Layer!anchored_size(a, w))
                 = a.second_margin
      <3>1. a \in Layer!Axis /\ w \in Nat /\ w >= 1 /\ Layer!Reserved(a) < w
        BY <2>1 DEF w
      <3> QED
        BY <2>3, <3>1, GeometryStretches
    <2> QED
      BY <2>2, <2>4 DEF w
  <1> QED
    BY <1>1, LayerInductive, PTL
=============================================================================
