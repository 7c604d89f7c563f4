----------------------------- MODULE HeldResource -----------------------------
(***************************************************************************)
(* What a display's lifecycle promises its owner, without states, windows  *)
(* or clocks: a resource that exists while anybody holds it, may outlive   *)
(* the last hold, and is torn down only with no hold on it.  The shadow    *)
(* resource flag and live-hold count of lifecycle.rs's property test.      *)
(***************************************************************************)
CONSTANT Sessions

VARIABLES alive,    \* the compositor output exists
          holders   \* the sessions that hold it

Init == alive = FALSE /\ holders = {}

Hold(s) ==
  /\ s \notin holders
  /\ holders' = holders \cup {s}
  /\ alive' = TRUE

Unhold(s) ==
  /\ s \in holders
  /\ holders' = holders \ {s}
  /\ alive' \in {TRUE, holders' # {}}

Drop ==
  /\ alive /\ holders = {}
  /\ alive' = FALSE
  /\ UNCHANGED holders

Next == Drop \/ \E s \in Sessions : Hold(s) \/ Unhold(s)

Spec == Init /\ [][Next]_<<alive, holders>>
=============================================================================
