------------------------------ MODULE Lifecycle ------------------------------
(***************************************************************************)
(* The state machine one pooled virtual display goes through, as pure      *)
(* operators: the state after each call and what the call reports to the   *)
(* owner of the compositor resource.  crates/host/pf-vdisplay/src/         *)
(* vdisplay/lifecycle.rs.  Instants and durations are naturals; the fields *)
(* a state does not use are zero.                                          *)
(***************************************************************************)
EXTENDS Integers

CONSTANT WAKE_GRACE  \* what a wake leaves of any window

ASSUME GraceAssumption == WAKE_GRACE \in Nat

Least(a, b) == IF a <= b THEN a ELSE b
Most(a, b)  == IF a >= b THEN a ELSE b

States == [kind : {"idle", "active", "lingering", "pinned"}, refs : Nat, until : Nat]

Idle         == [kind |-> "idle",      refs |-> 0, until |-> 0]
Active(n)    == [kind |-> "active",    refs |-> n, until |-> 0]
Lingering(t) == [kind |-> "lingering", refs |-> 0, until |-> t]
Pinned       == [kind |-> "pinned",    refs |-> 0, until |-> 0]

Kept(st) == st.kind \in {"lingering", "pinned"}

(* policy::Linger: a window is used only by "for". *)
Lingers == [kind : {"immediate", "for", "forever"}, window : Nat]

Immediate == [kind |-> "immediate", window |-> 0]
For(d)    == [kind |-> "for",       window |-> d]
Forever   == [kind |-> "forever",   window |-> 0]

(* Mutants, here and in the other modules: M_x is a plausible wrong x.     *)

(* A deliberate quit skips the window; a pin outranks a quit. *)
effective_linger(quit, policy) ==
  IF quit /\ policy.kind # "forever" THEN Immediate ELSE policy

M_no_grace(left, slept) == IF slept >= left THEN 0 ELSE left - slept
left_after_sleep(left, slept) ==
  Most(IF slept >= left THEN 0 ELSE left - slept, Least(WAKE_GRACE, left))

after_sleep(linger, slept) ==
  IF linger.kind = "for" THEN For(left_after_sleep(linger.window, slept)) ELSE linger

-----------------------------------------------------------------------------
M_join_uncounted(st) == Active(1)
acquire(st) == IF st.kind = "active" THEN Active(st.refs + 1) ELSE Active(1)

LastLeaves(st, now, linger) ==
  CASE linger.kind = "immediate" -> Idle
    [] linger.kind = "for"       -> Lingering(now + linger.window)
    [] linger.kind = "forever"   -> Pinned

M_last_always(st, now, linger) == IF st.kind = "active" THEN LastLeaves(st, now, linger) ELSE st
M_last_underflows(st, now, linger) ==
  IF st.kind = "active" THEN Active(st.refs - 1) ELSE st
release(st, now, linger) ==
  CASE st.kind = "active" /\ st.refs > 1  -> Active(st.refs - 1)
    [] st.kind = "active" /\ st.refs <= 1 -> LastLeaves(st, now, linger)
    [] OTHER                              -> st

(* Release::Teardown: the caller now owns the dead display. *)
TearsDown(st, now, linger) == st.kind = "active" /\ release(st, now, linger).kind = "idle"

M_pin_expires(st, now) == st.kind = "pinned" /\ now >= st.until
Expires(st, now) == st.kind = "lingering" /\ now >= st.until

poll_expiry(st, now) == IF Expires(st, now) THEN Idle ELSE st

(* Real time `missed` passed that `now` did not count. *)
age(st, now, missed) ==
  IF st.kind = "lingering"
  THEN Lingering(now + left_after_sleep(IF st.until <= now THEN 0 ELSE st.until - now, missed))
  ELSE st

(* An Active display is refused: a live session is not display-managed. *)
force_release(st) == IF Kept(st) THEN Idle ELSE st
=============================================================================
