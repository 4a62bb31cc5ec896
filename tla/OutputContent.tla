---------------------------- MODULE OutputContent ----------------------------
(***************************************************************************)
(* What a client has committed versus what the output shows.  Two history  *)
(* variables are added to OutputRepaint; no step of the program reads them.*)
(***************************************************************************)
EXTENDS OutputRepaint

VARIABLES
  unshown,      \* committed a new buffer that no presented frame contains
  undelivered   \* sent wl_surface.damage that no commit has applied yet

contentVars == <<vars, unshown, undelivered>>

CommitsBuffer(s) == trierarch_surface_commit(s) /\ BufferChanged(s)

Applied(s) == trierarch_surface_commit(s) \/ surface_resource_destroy(s)

ContentInit == Init /\ unshown = {} /\ undelivered = {}

ContentNext ==
  /\ Next
  /\ unshown' = {s \in live' :
       \/ CommitsBuffer(s)
       \/ s \in unshown /\ ~(SwapSucceeds /\ surface_participates_in_output(s))}
  /\ undelivered' = {s \in live' :
       surface_damage(s) \/ (s \in undelivered /\ ~Applied(s))}

ContentSpec == ContentInit /\ [][ContentNext]_contentVars

FairContentSpec == ContentSpec /\ Fairness

\* A committed buffer of a surface on the output that no frame has shown yet
\* has a repaint coming: commit, cursor, role and window changes all ask for
\* one, and frame_presented cannot take it away.
UnshownIsScheduled ==
  \A s \in unshown :
    surface_participates_in_output(s) => repaint.needed \/ repaint.rendering

\* "Damage is pending wl_surface state" (surface_damage): the commit that
\* applies it has a repaint coming, so redrawn contents reach the output.
DamageReachesRepaint ==
  [][\A s \in Surfaces :
       trierarch_surface_commit(s) /\ s \in undelivered => repaint'.needed]_contentVars
=============================================================================
