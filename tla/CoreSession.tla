---------------------------- MODULE CoreSession -----------------------------
(***************************************************************************)
(* What the controller promises to whoever watches its status: the machine *)
(* is changed only between "starting" and the end of the teardown, and     *)
(* "stopped" is published only when nothing of a session is left in the    *)
(* controller's hands.  CoreController implements it.                      *)
(***************************************************************************)
VARIABLES
  state,    \* the published CoreState
  held      \* a core process, a TUN, filters or routes are in place

Init == state = "stopped" /\ held = FALSE

\* A start begins from a clean machine, whatever was published before.
Begin == ~held /\ state' = "starting" /\ UNCHANGED held
Build == state = "starting" /\ ~held /\ held' = TRUE /\ UNCHANGED state
Run == state = "starting" /\ held /\ state' = "running" /\ UNCHANGED held
Ask == state = "running" /\ held /\ state' = "stopping" /\ UNCHANGED held
Release == state # "stopped" /\ held /\ held' = FALSE /\ UNCHANGED state
Stop == ~held /\ state' = "stopped" /\ UNCHANGED held
\* The host process ends; the next one publishes "stopped" at first.
Reset == state' = "stopped" /\ held' = FALSE

Next == Begin \/ Build \/ Run \/ Ask \/ Release \/ Stop \/ Reset
Spec == Init /\ [][Next]_<<state, held>>
=============================================================================
