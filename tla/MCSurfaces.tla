----------------------------- MODULE MCSurfaces -----------------------------
(***************************************************************************)
(* Role objects, subsurface stacking, layer geometry and input delivery of *)
(* the Wayland host.  No model reads another's state, so a run lets one of *)
(* them move, chosen in the initial state.                                 *)
(***************************************************************************)
EXTENDS SurfaceParts, TLC

CONSTANT Stack

VARIABLES
    part,   \* the component that moves
    live, subsurface, stack_parent, children, asked

\* Clients do not meet in these models, so one of them owns every surface.
OneOwner == [s \in Surfaces |-> CHOOSE c \in Clients : TRUE]

\* Viewport and fractional scale have an instance of their own, beside the subsurface
\* role only.
Scaled == INSTANCE SurfaceRoles WITH Kinds <- {"subsurface", "viewport", "fractional_scale"}

Stacking == INSTANCE SubsurfaceStack WITH Surfaces <- Stack, parent <- stack_parent

ASSUME None \notin Stack

Symmetry == Permutations(Surfaces)

layerVars == <<role, axis, layer_output, placed, configured>>
stackVars == <<live, subsurface, stack_parent, children, asked>>
pointerVars == <<pointers, pointer_at, pointer_buttons, held>>
keyboardVars == <<keyboards, keyboard_at, focus_freed, mods_depressed, mods_locked,
                  caps_lock_down, told_mods>>
surfaceVars == <<part, vars, layerVars, stackVars, area, pointerVars, keyboardVars>>

SurfacesInit ==
    /\ part \in {"layer", "roles", "scaled", "stacking", "pointer", "keyboard"}
    /\ Init /\ Layer!Init /\ Stacking!Init /\ Pointer!Init /\ Keyboard!Init
    /\ part /= "layer" => layer_output = MaxOutput
    /\ part \notin {"roles", "scaled"} => output = 1

SurfacesNext ==
    /\ UNCHANGED part
    /\ \/ /\ part = "layer" /\ Layer!Next
          /\ UNCHANGED <<vars, stackVars, area, pointerVars, keyboardVars>>
       \/ /\ part = "roles" /\ Next
          /\ UNCHANGED <<layerVars, stackVars, area, pointerVars, keyboardVars>>
       \/ /\ part = "scaled" /\ Scaled!Next
          /\ UNCHANGED <<layerVars, stackVars, area, pointerVars, keyboardVars>>
       \/ /\ part = "stacking" /\ Stacking!Next
          /\ UNCHANGED <<vars, layerVars, area, pointerVars, keyboardVars>>
       \/ /\ part = "pointer" /\ Pointer!Next
          /\ UNCHANGED <<vars, layerVars, stackVars, keyboardVars>>
       \/ /\ part = "keyboard" /\ Keyboard!Next
          /\ UNCHANGED <<vars, layerVars, stackVars, pointerVars>>

SurfacesSpec == SurfacesInit /\ [][SurfacesNext]_surfaceVars

-----------------------------------------------------------------------------

=============================================================================
