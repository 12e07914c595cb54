----------------------------- MODULE CaptureLease -----------------------------
(***************************************************************************)
(* What the user of a machine is promised about its screen, camera or      *)
(* microphone: it is captured only under a lease (an active route), the    *)
(* capture begins under a lease that is already held, and it ends together *)
(* with the lease, in one step.  RouteLink.tla implements this at the      *)
(* source of a route, whatever its messages, timers and crashes do.        *)
(***************************************************************************)
VARIABLES held,   \* is there a lease?
          used    \* is the device captured?

vars == <<held, used>>

Init == held = FALSE /\ used = FALSE

Grant == ~held /\ held' = TRUE /\ used' = FALSE
Begin == held /\ ~used /\ used' = TRUE /\ UNCHANGED held
End   == held /\ held' = FALSE /\ used' = FALSE

Next == Grant \/ Begin \/ End

Spec == Init /\ [][Next]_vars

=============================================================================
