--------------------------- MODULE MCCoordinator ---------------------------
(* Small instances of Coordinator for TLC.  The chain holds everything     *)
(* that the code's chains do: the route of its own task type, as that of   *)
(* "fallback" does, a model that is not on offer, and two that are.        *)
EXTENDS Coordinator

CONSTANTS a, b, c, d

RouteOf == [t \in Tasks |-> a]
FallbacksOf == [t \in Tasks |-> <<a, d, b, c>>]
=============================================================================
