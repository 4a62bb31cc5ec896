---------------------------- MODULE SurfaceRoles ----------------------------
(***************************************************************************)
(* Surfaces of the Wayland host, the role objects attached to them and the *)
(* pointers the server keeps to them (surface.c, xdg_shell.c,              *)
(* layer_shell.c, subcompositor.c, viewporter.c, protocol_stubs.c, seat.c, *)
(* output.c).                                                              *)
(*                                                                         *)
(* A role object is a protocol resource whose user data is the surface,    *)
(* and the surface has a field pointing back at it.  A surface never has   *)
(* two live resources of one kind, so a resource is named by its surface   *)
(* and its kind.  Requests come from clients that follow the protocol; a   *)
(* client that disconnects has all its resources destroyed in an order     *)
(* that depends on the ids it happened to use, that is, in any order.      *)
(***************************************************************************)
EXTENDS Integers, FiniteSets

CONSTANTS
    Surfaces,   \* wl_surface resources; none is created twice
    Clients,
    Owner,      \* the client that creates each surface
    None,
    Kinds,      \* role objects the run exercises
    Sizes       \* output sizes

ASSUME RoleConstants == Owner \in [Surfaces -> Clients] /\ None \notin Surfaces \cup Clients

VARIABLES
    surface,    \* unborn, live or freed
    field,      \* kinds whose field of the surface is not NULL
    resource,   \* kinds of which the surface has a live resource
    parent,     \* the parent pointer of a subsurface
    buffer,     \* the surface has a current buffer
    mapped,
    pointer_focus, keyboard_focus, cursor_surface,
    output,     \* current output size
    told,       \* size in the last configure of each toplevel
    leaving     \* client being torn down

roleVars == <<surface, field, resource, parent>>
seatVars == <<pointer_focus, keyboard_focus, cursor_surface>>
vars == <<roleVars, buffer, mapped, seatVars, output, told, leaving>>

Live == {s \in Surfaces : surface[s] = "live"}

TypeOK ==
    /\ surface \in [Surfaces -> {"unborn", "live", "freed"}]
    /\ field \in [Surfaces -> SUBSET Kinds]
    /\ resource \in [Surfaces -> SUBSET Kinds]
    /\ parent \in [Surfaces -> Surfaces \cup {None}]
    /\ buffer \in [Surfaces -> BOOLEAN] /\ mapped \in [Surfaces -> BOOLEAN]
    /\ \A s \in Surfaces : mapped[s] => buffer[s]
    /\ {pointer_focus, keyboard_focus, cursor_surface} \subseteq Surfaces \cup {None}
    /\ output \in Sizes /\ told \in [Surfaces -> Sizes \cup {None}]
    /\ leaving \in Clients \cup {None}

Init ==
    /\ surface = [s \in Surfaces |-> "unborn"]
    /\ field = [s \in Surfaces |-> {}]
    /\ resource = [s \in Surfaces |-> {}]
    /\ parent = [s \in Surfaces |-> None]
    /\ buffer = [s \in Surfaces |-> FALSE] /\ mapped = [s \in Surfaces |-> FALSE]
    /\ pointer_focus = None /\ keyboard_focus = None /\ cursor_surface = None
    /\ output \in Sizes
    /\ told = [s \in Surfaces |-> None]
    /\ leaving = None

-----------------------------------------------------------------------------
(* Creating surfaces and roles.                                            *)

compositor_create_surface(s) ==
    /\ leaving = None /\ surface[s] = "unborn"
    /\ surface' = [surface EXCEPT ![s] = "live"]
    /\ UNCHANGED <<field, resource, parent, buffer, mapped, seatVars, output, told, leaving>>

Attach(s, k) ==
    /\ field' = [field EXCEPT ![s] = @ \cup {k}]
    /\ resource' = [resource EXCEPT ![s] = @ \cup {k}]

\* trierarch_surface_send_configure, which does nothing without both objects.
Configured(s) == {"xdg_surface", "xdg_toplevel"} \subseteq field'[s]

\* Objects that refuse only a second one of their own kind.
GetPlain(s, k) ==
    /\ leaving = None /\ s \in Live
    /\ k \in Kinds \ field[s]
    /\ Attach(s, k)
    /\ UNCHANGED <<surface, parent, buffer, mapped, seatVars, output, told, leaving>>

wm_base_get_xdg_surface(s) == GetPlain(s, "xdg_surface")
viewporter_get_viewport(s) == GetPlain(s, "viewport")
fractional_get(s) == GetPlain(s, "fractional_scale")

MutNoInitialConfigure(s) ==
    /\ leaving = None /\ "xdg_toplevel" \in Kinds
    /\ "xdg_surface" \in resource[s] /\ "xdg_toplevel" \notin field[s]
    /\ Attach(s, "xdg_toplevel")
    /\ UNCHANGED <<surface, parent, buffer, mapped, seatVars, output, told, leaving>>

xdg_surface_get_toplevel(s) ==
    /\ leaving = None /\ "xdg_toplevel" \in Kinds
    /\ "xdg_surface" \in resource[s] /\ "xdg_toplevel" \notin field[s]
    /\ Attach(s, "xdg_toplevel")
    /\ told' = IF Configured(s) THEN [told EXCEPT ![s] = output] ELSE told
    /\ UNCHANGED <<surface, parent, buffer, mapped, seatVars, output, leaving>>

layer_shell_get_layer_surface(s) ==
    /\ leaving = None /\ s \in Live /\ "layer_surface" \in Kinds
    /\ field[s] \cap {"xdg_surface", "xdg_toplevel", "subsurface", "layer_surface"} = {}
    /\ ~buffer[s]
    /\ Attach(s, "layer_surface")
    /\ UNCHANGED <<surface, parent, buffer, mapped, seatVars, output, told, leaving>>

\* A legal client names a parent that is not below the surface itself.
Ancestors(s) ==
    LET up[n \in 0..Cardinality(Surfaces)] ==
            IF n = 0 THEN {s}
            ELSE up[n - 1] \cup ({parent[t] : t \in up[n - 1] \cap Surfaces} \ {None})
    IN  up[Cardinality(Surfaces)]

subcompositor_get_subsurface(s, p) ==
    /\ leaving = None /\ {s, p} \subseteq Live /\ Owner[s] = Owner[p]
    /\ "subsurface" \in Kinds \ field[s]
    /\ s \notin Ancestors(p)
    /\ Attach(s, "subsurface")
    /\ parent' = [parent EXCEPT ![s] = p]
    /\ UNCHANGED <<surface, buffer, mapped, seatVars, output, told, leaving>>

-----------------------------------------------------------------------------
(* Destroying them.                                                        *)

\* The destructors of the role resources: all clear the surface's field but
\* the one of the fractional scale, which has none.
RoleDestroyed(s, k) ==
    /\ field' = IF k = "fractional_scale" THEN field
                ELSE [field EXCEPT ![s] = @ \ {k}]
    /\ resource' = [resource EXCEPT ![s] = @ \ {k}]
    /\ parent' = IF k = "subsurface" THEN [parent EXCEPT ![s] = None] ELSE parent
    /\ mapped' = IF k = "layer_surface" THEN [mapped EXCEPT ![s] = FALSE] ELSE mapped

\* The destroy request of a role object.  A legal client destroys the toplevel
\* before its xdg_surface.
destroy_role(s, k) ==
    /\ leaving = None /\ k \in resource[s] \ {"fractional_scale"}
    /\ k = "xdg_surface" => "xdg_toplevel" \notin resource[s]
    /\ RoleDestroyed(s, k)
    /\ UNCHANGED <<surface, buffer, seatVars, output, told, leaving>>

fractional_destroy(s) ==
    /\ leaving = None /\ "fractional_scale" \in resource[s]
    /\ field' = [field EXCEPT ![s] = @ \ {"fractional_scale"}]
    /\ resource' = [resource EXCEPT ![s] = @ \ {"fractional_scale"}]
    /\ UNCHANGED <<surface, parent, buffer, mapped, seatVars, output, told, leaving>>

ForgetIf(pointer, s) == IF pointer = s THEN None ELSE pointer

MutKeepsChildren(s) ==
    /\ surface' = [surface EXCEPT ![s] = "freed"]
    /\ field' = [field EXCEPT ![s] = {}]
    /\ resource' = [resource EXCEPT ![s] = @ \ field[s]]
    /\ parent' = [parent EXCEPT ![s] = None]
    /\ buffer' = [buffer EXCEPT ![s] = FALSE]
    /\ mapped' = [mapped EXCEPT ![s] = FALSE]
    /\ pointer_focus' = ForgetIf(pointer_focus, s)
    /\ cursor_surface' = ForgetIf(cursor_surface, s)
    /\ UNCHANGED keyboard_focus

\* Destroys the role objects its fields name, detaches its children, drops
\* the pointer focus and the cursor, releases its buffers and frees it.
surface_resource_destroy(s) ==
    /\ surface' = [surface EXCEPT ![s] = "freed"]
    /\ field' = [field EXCEPT ![s] = {}]
    /\ resource' = [resource EXCEPT ![s] = @ \ field[s]]
    /\ parent' = [t \in Surfaces |-> IF t = s THEN None ELSE ForgetIf(parent[t], s)]
    /\ buffer' = [buffer EXCEPT ![s] = FALSE]
    /\ mapped' = [mapped EXCEPT ![s] = FALSE]
    /\ pointer_focus' = ForgetIf(pointer_focus, s)
    /\ cursor_surface' = ForgetIf(cursor_surface, s)
    /\ UNCHANGED keyboard_focus

\* A legal client destroys the xdg and layer roles before the surface.
surface_destroy_request(s) ==
    /\ leaving = None /\ s \in Live
    /\ resource[s] \cap {"xdg_surface", "xdg_toplevel", "layer_surface"} = {}
    /\ surface_resource_destroy(s)
    /\ UNCHANGED <<output, told, leaving>>

\* A client disconnects: the library destroys what it still has, and nothing
\* else runs in between.
disconnect(c) ==
    /\ leaving = None
    /\ \E s \in Live : Owner[s] = c
    /\ leaving' = c
    /\ UNCHANGED <<roleVars, buffer, mapped, seatVars, output, told>>

teardown_role(s, k) ==
    /\ leaving = Owner[s] /\ k \in resource[s]
    /\ RoleDestroyed(s, k)
    /\ UNCHANGED <<surface, buffer, seatVars, output, told, leaving>>

teardown_surface(s) ==
    /\ leaving = Owner[s] /\ s \in Live
    /\ surface_resource_destroy(s)
    /\ UNCHANGED <<output, told, leaving>>

teardown_done ==
    /\ leaving /= None
    /\ \A s \in Surfaces : Owner[s] = leaving => surface[s] /= "live" /\ resource[s] = {}
    /\ leaving' = None
    /\ UNCHANGED <<roleVars, buffer, mapped, seatVars, output, told>>

-----------------------------------------------------------------------------
(* Commits, input focus, cursor and output size.                           *)

\* The commit of a buffer, or of its removal.  Buffers are the subject of
\* SurfaceBuffers, configures of commits without an acknowledgement resend
\* the current size.
trierarch_surface_commit(s, attach) ==
    /\ leaving = None /\ s \in Live
    /\ buffer' = [buffer EXCEPT ![s] = attach]
    /\ mapped' = [mapped EXCEPT ![s] = attach]
    /\ UNCHANGED <<roleVars, seatVars, output, told, leaving>>

Candidates ==
    {s \in Live : /\ parent[s] = None /\ "xdg_toplevel" \in field[s]
                  /\ mapped[s] /\ buffer[s]}

\* The candidate with the largest buffer: which one it is depends on sizes.
find_pointer_target(s) ==
    IF Candidates = {} THEN s = None ELSE s \in Candidates

update_pointer_focus(s) ==
    /\ leaving = None /\ find_pointer_target(s)
    /\ pointer_focus' = s
    /\ UNCHANGED <<roleVars, buffer, mapped, keyboard_focus, cursor_surface, output, told, leaving>>

update_keyboard_focus(s) ==
    /\ leaving = None /\ find_pointer_target(s)
    /\ keyboard_focus' = s
    /\ UNCHANGED <<roleVars, buffer, mapped, pointer_focus, cursor_surface, output, told, leaving>>

pointer_set_cursor(s) ==
    /\ leaving = None /\ s \in Live \cup {None}
    /\ cursor_surface' = s
    /\ UNCHANGED <<roleVars, buffer, mapped, pointer_focus, keyboard_focus, output, told, leaving>>

trierarch_wayland_set_output_size(size) ==
    /\ leaving = None /\ size /= output
    /\ output' = size
    /\ told' = [s \in Surfaces |->
                  IF {"xdg_surface", "xdg_toplevel"} \subseteq field[s] THEN size ELSE told[s]]
    /\ UNCHANGED <<roleVars, buffer, mapped, seatVars, leaving>>

Requests(s) ==
    \/ compositor_create_surface(s) \/ xdg_surface_get_toplevel(s)
    \/ layer_shell_get_layer_surface(s) \/ fractional_destroy(s)
    \/ surface_destroy_request(s)
    \/ wm_base_get_xdg_surface(s) \/ viewporter_get_viewport(s) \/ fractional_get(s)
    \/ \E k \in Kinds : destroy_role(s, k)
    \/ \E p \in Surfaces : subcompositor_get_subsurface(s, p)
    \/ \E attach \in BOOLEAN : trierarch_surface_commit(s, attach)

Teardown ==
    \/ \E c \in Clients : disconnect(c)
    \/ \E s \in Surfaces : teardown_surface(s)
    \/ \E s \in Surfaces, k \in Kinds : teardown_role(s, k)
    \/ teardown_done

Host ==
    \/ \E s \in Surfaces \cup {None} :
        update_pointer_focus(s) \/ update_keyboard_focus(s) \/ pointer_set_cursor(s)
    \/ \E size \in Sizes : trierarch_wayland_set_output_size(size)

Next == (\E s \in Surfaces : Requests(s)) \/ Teardown \/ Host

Spec == Init /\ [][Next]_vars

-----------------------------------------------------------------------------
(* Properties.                                                             *)

\* surface.c:230: role objects keep the surface as their user data, so none
\* outlives it, in whatever order a client or its teardown destroys them.
RoleOfLiveSurface == \A s \in Surfaces : resource[s] /= {} => surface[s] = "live"

\* A surface's field never names a role resource that is gone: the surface's
\* destructor destroys through these fields.  One case is excepted, because the code
\* does not cover it: the fractional scale has no resource destructor
\* (protocol_stubs.c:33), so the teardown of its client, when it comes to this resource
\* before the surface, leaves the field behind for surface_resource_destroy.
FieldsAreLive ==
    \A s \in Live :
        field[s] \ resource[s] \subseteq (IF leaving = Owner[s] THEN {"fractional_scale"} ELSE {})

\* surface.c:254: no subsurface points at a freed parent.
ParentIsLive == \A s \in Surfaces : parent[s] /= None => {s, parent[s]} \subseteq Live

\* The pointer focus and the cursor the renderer draws are live surfaces.
PointerFocusIsLive == {pointer_focus, cursor_surface} \subseteq Live \cup {None}

\* The pointers that the destructors of surface.c, xdg_shell.c, layer_shell.c,
\* subcompositor.c and viewporter.c maintain are never stale, in any order of requests
\* and of a teardown: from a role object to its surface, from a surface to its role
\* objects (but for the fractional scale during a teardown), from a child to its
\* parent, and from the server to the pointer focus and the cursor.  The keyboard focus
\* is not among them: surface_resource_destroy does not clear it (surface.c:263), so it
\* stays behind when its surface is destroyed.
RolePointersLive == RoleOfLiveSurface /\ FieldsAreLive /\ ParentIsLive /\ PointerFocusIsLive

\* Every toplevel's last configure carries the current output size, across
\* resizes before, between and after the creation of its role objects.
ToldCurrentSize ==
    \A s \in Live : {"xdg_surface", "xdg_toplevel"} \subseteq field[s] => told[s] = output
=============================================================================
