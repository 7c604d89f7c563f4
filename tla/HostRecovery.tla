---------------------------- MODULE HostRecovery ----------------------------
(* How the host answers a client's loss: the datagram's ask acted on once      *)
(* (native/control/mod.rs), folded into at most one encoder action a frame      *)
(* (native/stream/recovery.rs), keyframes coalesced by KeyframeGate.           *)
EXTENDS Integers, LtrMirror

CONSTANTS RecoveryFlight, IdrCooldown, IdrCooldownMax, EpisodeReset, EchoMax,
          RfiMaxRange   \* the longest range either end answers with a reference

ASSUME HostAssumption ==
  {RecoveryFlight, IdrCooldown, IdrCooldownMax, EpisodeReset, EchoMax, RfiMaxRange} \subseteq Nat

Never == -1000    \* an instant that has not been
Within(t, now, span) == now - t < span

NewHost == [ltr |-> NewMirror, idr |-> TRUE, last_idr |-> Never, last_rfi |-> Never,
            request |-> Never, echoes |-> 0, unhealed |-> 0,
            ask |-> 0, kf |-> FALSE, rfi |-> {}, acked |-> {}, floor |-> {}]

\* on_feedback: the levels always, the ask once by number.
on_feedback(h, fb) ==
  LET new == fb.ask > h.ask
  IN [h EXCEPT !.acked = IF fb.acked = {} THEN @ ELSE fb.acked,
               !.ask   = IF new THEN fb.ask ELSE @,
               !.kf    = @ \/ (new /\ fb.kind = "keyframe"),
               !.rfi   = IF new /\ fb.kind = "rfi" THEN @ \union fb.range ELSE @]

idr_cooldown(unhealed) ==
  Min({IdrCooldownMax, IdrCooldown * (CASE unhealed = 0 -> 1 [] unhealed = 1 -> 2 [] OTHER -> 4)})

\* KeyframeGate::decide on a request at now.
Episode(h, now) == IF Within(h.request, now, EpisodeReset + 1) THEN h
                   ELSE [h EXCEPT !.echoes = 0, !.unhealed = 0, !.request = Never]
Missed(e) == e.last_idr # Never /\ e.request # Never /\ e.request - e.last_idr >= RecoveryFlight

M_coalesce_restamps(h, now, declined) ==
  LET r == [Episode(h, now) EXCEPT !.request = now, !.last_idr = now]
  IN IF Within(h.last_idr, now, idr_cooldown(h.unhealed)) THEN r ELSE [r EXCEPT !.idr = TRUE]
force_keyframe(h, now, declined) ==
  LET e == Episode(h, now)
      r == [e EXCEPT !.request = now]
  IN CASE Within(e.last_idr, now, idr_cooldown(e.unhealed)) -> [r EXCEPT !.ltr = distrust(@)]
       [] OTHER ->
          IF ~declined /\ Within(e.last_rfi, now, RecoveryFlight) /\ e.echoes < EchoMax
          THEN [r EXCEPT !.echoes = @ + 1]
          ELSE [r EXCEPT !.ltr      = IF e.echoes > 0 THEN distrust(@) ELSE @,
                         !.unhealed = IF Missed(e) THEN @ + 1 ELSE 0,
                         !.echoes   = 0, !.idr = TRUE, !.last_idr = now]

\* on_recovery_requests: every ask that waits, as one action, under the last frame's floor.
on_recovery_requests(h, now) ==
  LET idle     == [h EXCEPT !.kf = FALSE, !.rfi = {}]
      wide     == h.rfi # {} /\ Max(h.rfi) - Min(h.rfi) > RfiMaxRange
      lost     == h.rfi # {} /\ ~wide
      tried    == IF lost THEN [idle EXCEPT !.ltr = invalidate(@, Min(h.rfi), h.floor)] ELSE idle
      anchored == lost /\ tried.ltr.force # NoSlot
      declined == lost /\ ~anchored
  IN IF anchored THEN [tried EXCEPT !.last_rfi = now]
     ELSE IF wide \/ declined \/ h.kf THEN force_keyframe(tried, now, declined)
     ELSE tried
=============================================================================
