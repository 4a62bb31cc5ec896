\* Roles: two surfaces of one client, every role, two output sizes.  Stacking: four
\* surfaces.  Layer: sizes up to 2, extents up to 3, margins up to 1 in both signs.
\* Seat: three clients with toplevels of two sizes, two buttons.
CONSTANTS
    Surfaces = {s1, s2}
    Clients = {client}
    Owner <- OneOwner
    Kinds = {"xdg_surface", "xdg_toplevel", "subsurface", "layer_surface"}
    Sizes = {1, 2}
    Stack = {a, b, c, d}
    MaxSize = 2
    MaxMargin = 1
    MaxOutput = 3
    SeatClients = {1, 2, 3}
    Buttons = {left, right}
    MaxArea = 2
    None = None
SYMMETRY Symmetry
SPECIFICATION SurfacesSpec
INVARIANTS RolePointersLive ToldCurrentSize  FittingIsInside NoStuckButton ModifiersKnown
