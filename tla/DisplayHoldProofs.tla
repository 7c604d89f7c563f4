-------------------------- MODULE DisplayHoldProofs --------------------------
(***************************************************************************)
(* For every set of sessions, of linger policies and of sleeps: the types, *)
(* the hold count, and that the display implements HeldResource.           *)
(***************************************************************************)
EXTENDS DisplayHold, FiniteSetTheorems, TLAPS

(* The types and the count are inductive together: that a release leaves   *)
(* the count right needs the refs to be the holders, and that they are     *)
(* needs only finitely many of them.                                       *)
HoldInv == TypeOK /\ IsFiniteSet(holders) /\ HoldsCounted

-----------------------------------------------------------------------------
(* What the lifecycle's operators return.                                  *)
LEMMA LeftIsNat ==
  ASSUME NEW left \in Nat, NEW slept \in Nat
  PROVE  left_after_sleep(left, slept) \in Nat
  BY GraceAssumption DEF left_after_sleep, Most, Least

LEMMA AfterSleepIsLinger ==
  ASSUME NEW l \in Lingers, NEW slept \in Nat
  PROVE  after_sleep(l, slept) \in Lingers
<1>1. l.window \in Nat
  BY DEF Lingers
<1>2. left_after_sleep(l.window, slept) \in Nat
  BY <1>1, LeftIsNat
<1>3. QED
  BY <1>2 DEF after_sleep, Lingers, For

LEMMA EffectiveIsLinger ==
  ASSUME NEW l \in Lingers, NEW quit \in BOOLEAN
  PROVE  effective_linger(quit, l) \in Lingers
  BY DEF effective_linger, Lingers, Immediate

(* acquire gives one more reference, whatever the state was.               *)
LEMMA AcquireAdds ==
  ASSUME NEW st \in States, st.kind = "active" \/ st.refs = 0
  PROVE  /\ acquire(st) \in States
         /\ acquire(st).kind = "active"
         /\ acquire(st).refs = st.refs + 1
  BY DEF acquire, States, Active

(* release takes one reference, and leaves the display Active exactly while*)
(* a reference is left.                                                    *)
LEMMA ReleaseTakes ==
  ASSUME NEW st \in States, NEW t \in Nat, NEW l \in Lingers,
         st.kind = "active", st.refs >= 1
  PROVE  /\ release(st, t, l) \in States
         /\ release(st, t, l).refs = st.refs - 1
         /\ release(st, t, l).kind = "active" <=> st.refs > 1
<1>1. CASE st.refs > 1
  BY <1>1 DEF release, States, Active
<1>2. CASE st.refs <= 1
  <2>1. release(st, t, l) = LastLeaves(st, t, l) /\ st.refs = 1
    BY <1>2 DEF release, States
  <2>2. l.kind \in {"immediate", "for", "forever"} /\ l.window \in Nat
    BY DEF Lingers
  <2>3. /\ LastLeaves(st, t, l) \in States
        /\ LastLeaves(st, t, l).refs = 0
        /\ LastLeaves(st, t, l).kind # "active"
    BY <2>2 DEF LastLeaves, States, Idle, Lingering, Pinned
  <2>4. QED
    BY <1>2, <2>1, <2>3
<1>3. QED
  BY <1>1, <1>2 DEF States

(* Ageing and expiry leave an Active display and a count of zero alone.    *)
LEMMA ReapKeeps ==
  ASSUME NEW st \in States, NEW t \in Nat, NEW missed \in Nat
  PROVE  LET reaped == poll_expiry(age(st, t, missed), t)
         IN /\ reaped \in States
            /\ st.kind = "active" => reaped = st
            /\ st.kind # "active" => reaped.kind # "active"
            /\ st.kind = "idle" => reaped.kind = "idle"
            /\ st.refs = 0 => reaped.refs = 0
<1> DEFINE left == IF st.until <= t THEN 0 ELSE st.until - t
<1>1. left \in Nat
  BY DEF States
<1>2. left_after_sleep(left, missed) \in Nat
  BY <1>1, LeftIsNat
<1>3. /\ age(st, t, missed) \in States
      /\ st.kind # "lingering" => age(st, t, missed) = st
      /\ st.kind = "lingering" => age(st, t, missed).kind = "lingering" /\ age(st, t, missed).refs = 0
  BY <1>2 DEF age, States, Lingering
<1>4. ASSUME NEW x \in States
      PROVE  /\ poll_expiry(x, t) \in States
             /\ x.kind # "lingering" => poll_expiry(x, t) = x
             /\ x.kind = "lingering" => poll_expiry(x, t) = x \/ poll_expiry(x, t) = Idle
  BY DEF poll_expiry, Expires, States, Idle
<1>5. QED
  BY <1>3, <1>4 DEF Idle, States

LEMMA ForceKeeps ==
  ASSUME NEW st \in States
  PROVE  /\ force_release(st) \in States
         /\ st.kind = "active" => force_release(st) = st
         /\ st.kind # "active" => force_release(st).kind # "active"
         /\ st.kind = "idle" => force_release(st).kind = "idle"
         /\ st.refs = 0 => force_release(st).refs = 0
  BY DEF force_release, Kept, States, Idle

-----------------------------------------------------------------------------
LEMMA InitHolds == Init => HoldInv
<1> SUFFICES ASSUME Init PROVE HoldInv
  OBVIOUS
<1>1. TypeOK
  BY DEF Init, TypeOK, States, Idle
<1>2. IsFiniteSet(holders) /\ Cardinality(holders) = 0
  BY FS_EmptySet DEF Init
<1>3. QED
  BY <1>1, <1>2 DEF Init, HoldInv, HoldsCounted, Idle

LEMMA AcquireHolds ==
  ASSUME HoldInv, NEW s \in Sessions, Acquire(s)
  PROVE  HoldInv'
<1> USE DEF HoldInv
<1>1. life.kind = "active" \/ life.refs = 0
  BY FS_EmptySet DEF HoldsCounted
<1>2. /\ life' \in States /\ life'.kind = "active" /\ life'.refs = life.refs + 1
  BY <1>1, AcquireAdds DEF Acquire, TypeOK
<1>3. IsFiniteSet(holders') /\ Cardinality(holders') = Cardinality(holders) + 1
  BY FS_AddElement DEF Acquire
<1>4. holders' # {}
  BY DEF Acquire
<1>5. HoldsCounted'
  BY <1>2, <1>3, <1>4 DEF HoldsCounted
<1>6. TypeOK'
  <2>1. life'.kind = "active" <=> life'.refs >= 1
    BY <1>2 DEF TypeOK, States
  <2>2. QED
    BY <1>2, <2>1 DEF Acquire, TypeOK
<1>7. QED
  BY <1>3, <1>5, <1>6

LEMMA ReleaseHolds ==
  ASSUME HoldInv, NEW s \in Sessions, NEW quit \in BOOLEAN, NEW policy \in Policies,
         Release(s, quit, policy)
  PROVE  HoldInv'
<1> USE DEF HoldInv
<1> DEFINE slept  == asleep - slept_at[s]
           linger == after_sleep(effective_linger(quit, policy), slept)
<1>1. slept \in Nat
  BY DEF TypeOK
<1>2. policy \in Lingers
  BY HoldAssumption
<1>3. linger \in Lingers
  BY <1>1, <1>2, EffectiveIsLinger, AfterSleepIsLinger
<1>4. life' = release(life, now, linger) /\ holders' = holders \ {s} /\ s \in holders
  BY DEF Release
<1>5. life.kind = "active" /\ life.refs = Cardinality(holders)
  BY <1>4 DEF HoldsCounted
<1>6. /\ IsFiniteSet(holders') /\ Cardinality(holders') = Cardinality(holders) - 1
      /\ Cardinality(holders') \in Nat
      /\ Cardinality(holders') = 0 <=> holders' = {}
  BY <1>4, FS_RemoveElement, FS_CardinalityType, FS_EmptySet
<1>7. life.refs >= 1
  BY <1>5, <1>6 DEF TypeOK, States
<1> HIDE DEF linger
<1>8. /\ life' \in States /\ life'.refs = life.refs - 1
      /\ life'.kind = "active" <=> life.refs > 1
  BY <1>3, <1>4, <1>5, <1>7, ReleaseTakes DEF TypeOK
<1>9. HoldsCounted'
  <2>1. life'.refs = Cardinality(holders')
    BY <1>5, <1>6, <1>8
  <2>2. life.refs > 1 <=> Cardinality(holders') # 0
    BY <1>5, <1>6, <1>7 DEF TypeOK, States
  <2>3. QED
    BY <1>6, <1>8, <2>1, <2>2 DEF HoldsCounted
<1>10. due' \in Nat /\ spared' \in Nat
  BY <1>2, GraceAssumption DEF Release, TypeOK, Lingers
<1>11. TypeOK'
  <2>1. life'.kind = "active" <=> life'.refs >= 1
    BY <1>8 DEF TypeOK, States
  <2>2. QED
    BY <1>4, <1>8, <1>10, <2>1 DEF Release, TypeOK
<1>12. QED
  BY <1>6, <1>9, <1>11

(* Reaping and force-releasing touch no hold and no Active display.        *)
LEMMA UnheldHolds ==
  ASSUME HoldInv, UNCHANGED <<holders, now, asleep, slept_at, due, spared>>,
         watched' \in {watched, asleep},
         life' \in States,
         life.kind = "active" => life' = life,
         life.kind # "active" => life'.kind # "active",
         life.refs = 0 => life'.refs = 0
  PROVE  HoldInv'
<1>1. TypeOK'
  BY DEF HoldInv, TypeOK, States
<1>2. HoldsCounted'
  <2>1. CASE life.kind = "active"
    BY <2>1 DEF HoldInv, HoldsCounted
  <2>2. CASE life.kind # "active"
    <3>1. holders = {} /\ life.refs = 0
      BY <2>2, FS_EmptySet DEF HoldInv, HoldsCounted
    <3>2. QED
      BY <2>2, <3>1, FS_EmptySet DEF HoldInv, HoldsCounted
  <2>3. QED
    BY <2>1, <2>2
<1>3. QED
  BY <1>1, <1>2 DEF HoldInv

LEMMA StepHolds == HoldInv /\ [Next]_vars => HoldInv'
<1> SUFFICES ASSUME HoldInv, [Next]_vars PROVE HoldInv'
  OBVIOUS
<1>t. /\ life \in States /\ now \in Nat /\ asleep - watched \in Nat
  BY DEF HoldInv, TypeOK
<1>1. ASSUME NEW s \in Sessions, Acquire(s) PROVE HoldInv'
  BY <1>1, AcquireHolds
<1>2. ASSUME NEW s \in Sessions, NEW quit \in BOOLEAN, NEW policy \in Policies,
             Release(s, quit, policy)
      PROVE HoldInv'
  BY <1>2, ReleaseHolds
<1>3. CASE Reap
  <2>1. life' = poll_expiry(age(life, now, asleep - watched), now)
    BY <1>3 DEF Reap
  <2>2. /\ life' \in States
        /\ life.kind = "active" => life' = life
        /\ life.kind # "active" => life'.kind # "active"
        /\ life.refs = 0 => life'.refs = 0
    BY <1>t, <2>1, ReapKeeps
  <2>3. QED
    BY <1>3, <2>2, UnheldHolds DEF Reap
<1>4. CASE ReapOnAcquire
  <2>1. life' = poll_expiry(age(life, now, 0), now)
    BY <1>4 DEF ReapOnAcquire
  <2>2. /\ life' \in States
        /\ life.kind = "active" => life' = life
        /\ life.kind # "active" => life'.kind # "active"
        /\ life.refs = 0 => life'.refs = 0
    BY <1>t, <2>1, ReapKeeps
  <2>3. QED
    BY <1>4, <2>2, UnheldHolds DEF ReapOnAcquire
<1>5. CASE ForceRelease
  BY <1>5, <1>t, ForceKeeps, UnheldHolds DEF ForceRelease
<1>6. CASE Tick
  BY <1>6 DEF Tick, HoldInv, TypeOK, HoldsCounted
<1>7. ASSUME NEW d \in Naps, Sleep(d) PROVE HoldInv'
  <2>1. d \in Nat
    BY HoldAssumption
  <2>2. spared' \in Nat
    BY <1>7, GraceAssumption DEF Sleep, HoldInv, TypeOK, States
  <2>3. asleep' \in Nat /\ asleep' = asleep + d
    BY <1>7, <2>1 DEF Sleep, HoldInv, TypeOK
  <2>4. TypeOK'
    BY <1>7, <2>1, <2>2, <2>3 DEF Sleep, HoldInv, TypeOK
  <2>5. QED
    BY <1>7, <2>4 DEF Sleep, HoldInv, HoldsCounted
<1>8. CASE UNCHANGED vars
  BY <1>8 DEF vars, HoldInv, TypeOK, HoldsCounted
<1>9. QED
  BY <1>1, <1>2, <1>3, <1>4, <1>5, <1>6, <1>7, <1>8 DEF Next

LEMMA Counted == Spec => []HoldInv
  BY InitHolds, StepHolds, PTL DEF Spec

(* Every reachable state is well typed: a sleep the reaper's watch or a    *)
(* lease has seen is one the box slept, and only an active display has     *)
(* references, for any number of sessions and any policies.                *)
THEOREM Typing == Spec => []TypeOK
<1>1. HoldInv => TypeOK
  BY DEF HoldInv
<1>2. QED
  BY <1>1, Counted, PTL

(* Every reachable state counts its holds: no leak, no double free, no     *)
(* underflow, for any number of sessions and any policies.                 *)
THEOREM DisplayIsCounted == Spec => []HoldsCounted
<1>1. HoldInv => HoldsCounted
  BY DEF HoldInv
<1>2. QED
  BY <1>1, Counted, PTL

-----------------------------------------------------------------------------
(* The window a wake left: its deadline is not before the end of the grace *)
(* unless that is over, and the grace ends at most WAKE_GRACE from now, so *)
(* that what an aged window is cut to is never less than what is spared.   *)
GraceInv ==
  life.kind = "lingering" =>
    (spared <= life.until \/ spared <= now) /\ spared <= now + WAKE_GRACE

(* A window cut by a sleep, aged or fresh, keeps the grace it had.         *)
LEMMA LeftKeepsGrace ==
  ASSUME NEW left \in Nat, NEW slept \in Nat
  PROVE  /\ left_after_sleep(left, slept) \in Nat
         /\ left_after_sleep(left, slept) >= left \/ left_after_sleep(left, slept) >= WAKE_GRACE
  BY GraceAssumption DEF left_after_sleep, Most, Least

(* What a tick of the reaper, or the reap before an acquire, leaves.       *)
LEMMA ReapSpares ==
  ASSUME TypeOK, GraceInv, NEW missed \in Nat, life' = poll_expiry(age(life, now, missed), now)
  PROVE  /\ life'.kind = "lingering" => spared <= life'.until /\ spared <= now + WAKE_GRACE
         /\ life.kind # "idle" /\ life'.kind = "idle" => now >= spared
<1> USE GraceAssumption
<1>t. life \in States /\ now \in Nat /\ spared \in Nat
  BY DEF TypeOK
<1> DEFINE left == IF life.until <= now THEN 0 ELSE life.until - now
           kept == left_after_sleep(left, missed)
<1>1. life.kind # "lingering" => life' = life
  BY <1>t DEF age, poll_expiry, Expires
<1>2. ASSUME life.kind = "lingering"
      PROVE  /\ life'.kind = "lingering" => life'.until = now + kept
             /\ life'.kind # "lingering" => now >= now + kept
  BY <1>2 DEF age, poll_expiry, Expires, Lingering, Idle
<1>3. left \in Nat /\ (kept >= left \/ kept >= WAKE_GRACE) /\ kept \in Nat
  <2>1. left \in Nat
    BY <1>t DEF States
  <2> HIDE DEF left
  <2>2. QED
    BY <2>1, LeftKeepsGrace
<1>4. life.kind = "lingering" => spared <= now + kept
  <2>1. life.until <= now + left
    BY <1>t DEF States
  <2> HIDE DEF left, kept
  <2>2. QED
    BY <1>t, <1>3, <2>1 DEF GraceInv, States
<1> HIDE DEF left, kept
<1>5. QED
  BY <1>t, <1>1, <1>2, <1>3, <1>4 DEF GraceInv, States

LEMMA ReleaseSpares ==
  ASSUME HoldInv, GraceInv, NEW s \in Sessions, NEW quit \in BOOLEAN, NEW policy \in Policies,
         Release(s, quit, policy)
  PROVE  GraceInv'
<1> USE GraceAssumption
<1> DEFINE slept == asleep - slept_at[s]
           eff == effective_linger(quit, policy)
           cut == left_after_sleep(policy.window, slept)
<1>t. /\ life \in States /\ now \in Nat /\ spared \in Nat /\ slept \in Nat
      /\ policy \in Lingers /\ policy.window \in Nat
  BY HoldAssumption DEF HoldInv, TypeOK, Lingers
<1>1. cut \in Nat /\ (cut >= policy.window \/ cut >= WAKE_GRACE)
  BY <1>t, LeftKeepsGrace
<1>2. life.kind = "active"
  BY DEF Release, HoldInv, HoldsCounted
<1>3. GraceInv'
  <2>1. life'.kind = "lingering" => life'.until = now + cut
    <3>1. after_sleep(eff, slept).kind = "for" => after_sleep(eff, slept) = For(cut)
      BY DEF after_sleep, effective_linger, Immediate, For
    <3>2. life' = release(life, now, after_sleep(eff, slept))
      BY DEF Release
    <3> HIDE DEF eff, cut, slept
    <3>3. CASE life.refs > 1
      BY <1>2, <1>t, <3>2, <3>3 DEF release, Active, States
    <3>4. CASE ~(life.refs > 1)
      <4>1. life' = LastLeaves(life, now, after_sleep(eff, slept))
        BY <1>2, <1>t, <3>2, <3>4 DEF release, States
      <4>2. after_sleep(eff, slept).kind \in {"immediate", "for", "forever"}
        <5>1. eff \in Lingers
          BY <1>t, EffectiveIsLinger DEF eff
        <5>2. QED
          BY <5>1, <1>t, AfterSleepIsLinger DEF Lingers
      <4>3. QED
        BY <3>1, <4>1, <4>2 DEF LastLeaves, Idle, Lingering, Pinned, For
    <3>5. QED
      BY <3>3, <3>4
  <2>2. life'.kind = "lingering" =>
          spared' = now + (IF WAKE_GRACE <= policy.window THEN WAKE_GRACE ELSE policy.window)
    BY DEF Release
  <2>3. now' = now
    BY DEF Release
  <2> HIDE DEF cut
  <2>4. QED
    BY <1>t, <1>1, <2>1, <2>2, <2>3 DEF GraceInv
<1>4. QED
  BY <1>3

LEMMA SleepSpares ==
  ASSUME TypeOK, GraceInv, NEW d \in Naps, Sleep(d)
  PROVE  GraceInv'
<1>1. life.until \in Nat /\ now \in Nat /\ WAKE_GRACE \in Nat
  BY GraceAssumption DEF TypeOK, States
<1> DEFINE left == IF life.until <= now THEN 0 ELSE life.until - now
<1>2. /\ UNCHANGED <<life, now>>
      /\ life.kind = "lingering" =>
           spared' = now + (IF WAKE_GRACE <= left THEN WAKE_GRACE ELSE left)
  BY DEF Sleep
<1>3. life.kind = "lingering" => spared' <= life.until \/ spared' <= now
  BY <1>1, <1>2
<1>4. QED
  BY <1>1, <1>2, <1>3 DEF GraceInv

LEMMA StepSpares ==
  HoldInv /\ GraceInv /\ [Next]_vars => GraceInv' /\ [Reaped => now >= spared]_vars
<1> SUFFICES ASSUME HoldInv, GraceInv, [Next]_vars
             PROVE  GraceInv' /\ (Reaped => now >= spared)
  OBVIOUS
<1>t. TypeOK /\ asleep - watched \in Nat /\ life \in States
  BY DEF HoldInv, TypeOK
<1>1. ASSUME NEW s \in Sessions, Acquire(s) PROVE GraceInv'
  BY <1>1 DEF Acquire, acquire, Active, GraceInv
<1>2. ASSUME NEW s \in Sessions, NEW quit \in BOOLEAN, NEW policy \in Policies,
             Release(s, quit, policy)
      PROVE  GraceInv'
  BY <1>2, <1>t, ReleaseSpares
<1>3. ASSUME Reap \/ ReapOnAcquire
      PROVE  GraceInv' /\ (Reaped => now >= spared)
  <2>1. \E missed \in Nat : life' = poll_expiry(age(life, now, missed), now)
    BY <1>3, <1>t DEF Reap, ReapOnAcquire
  <2>2. UNCHANGED <<now, spared>>
    BY <1>3 DEF Reap, ReapOnAcquire
  <2>3. QED
    BY <1>t, <2>1, <2>2, ReapSpares DEF GraceInv, Reaped
<1>4. ASSUME ForceRelease PROVE GraceInv'
  BY <1>4 DEF ForceRelease, force_release, Idle, GraceInv
<1>5. ASSUME Tick PROVE GraceInv'
  BY <1>5, GraceAssumption, <1>t DEF Tick, GraceInv, TypeOK
<1>6. ASSUME NEW d \in Naps, Sleep(d) PROVE GraceInv'
  BY <1>6, <1>t, SleepSpares
<1>7. ASSUME UNCHANGED vars PROVE GraceInv'
  BY <1>7 DEF vars, GraceInv
<1>8. QED
  BY <1>1, <1>2, <1>3, <1>4, <1>5, <1>6, <1>7 DEF Next, Reaped

(* A display that was in its window when the box woke is not torn down     *)
(* before the grace, however sleeps, ticks and reconnects interleave, for  *)
(* any grace, any windows and any sleeps.                                  *)
THEOREM WakeIsSpared == Spec => WakeGraceKept
<1>1. Init => GraceInv
  BY DEF Init, GraceInv, Idle
<1>2. QED
  BY <1>1, StepSpares, Counted, PTL DEF Spec, WakeGraceKept

-----------------------------------------------------------------------------
(* The display is a resource its holders keep alive: every step of the     *)
(* state machine, under any clock and any sleep, is a hold, an unhold, a   *)
(* teardown with no hold on it, or nothing.                                *)
THEOREM DisplayImplementsHeldResource == Spec => ImplementsHeldResource
<1> DEFINE alive == life.kind # "idle"
<1>1. Init => Resource!Init
  BY DEF Init, Idle, Resource!Init
<1>2. HoldInv /\ [Next]_vars => [Resource!Next]_<<life.kind # "idle", holders>>
  <2> SUFFICES ASSUME HoldInv, [Next]_vars
               PROVE  [Resource!Next]_<<life.kind # "idle", holders>>
    OBVIOUS
  <2>i. HoldInv'
    BY StepHolds
  <2>h. (life.kind = "active" <=> holders # {}) /\ (life'.kind = "active" <=> holders' # {})
    BY <2>i DEF HoldInv, HoldsCounted
  <2>t. /\ life \in States /\ now \in Nat /\ asleep - watched \in Nat
    BY DEF HoldInv, TypeOK
  <2>1. ASSUME NEW s \in Sessions, Acquire(s)
        PROVE  Resource!Hold(s)
    <3>1. holders' = holders \cup {s} /\ s \notin holders
      BY <2>1 DEF Acquire
    <3>2. (life.kind # "idle")' = TRUE
      BY <2>h, <3>1
    <3>3. QED
      BY <3>1, <3>2 DEF Resource!Hold
  <2>2. ASSUME NEW s \in Sessions, NEW quit \in BOOLEAN, NEW policy \in Policies,
               Release(s, quit, policy)
        PROVE  Resource!Unhold(s)
    <3>1. holders' = holders \ {s} /\ s \in holders
      BY <2>2 DEF Release
    <3>2. (life.kind # "idle")' \in {TRUE, holders' # {}}
      BY <2>h
    <3>3. QED
      BY <3>1, <3>2 DEF Resource!Unhold
  <2>3. ASSUME UNCHANGED holders,
               life.kind = "active" => life' = life,
               life.kind = "idle" => life'.kind = "idle"
        PROVE  [Resource!Drop]_<<life.kind # "idle", holders>>
    BY <2>3, <2>h DEF Resource!Drop
  <2>4. CASE Reap \/ ReapOnAcquire \/ ForceRelease \/ Tick \/ (\E d \in Naps : Sleep(d)) \/ UNCHANGED vars
    <3>1. UNCHANGED holders
      BY <2>4 DEF Reap, ReapOnAcquire, ForceRelease, Tick, Sleep, vars
    <3>2. (life.kind = "active" => life' = life) /\ (life.kind = "idle" => life'.kind = "idle")
      <4>1. CASE Reap
        BY <4>1, <2>t, ReapKeeps DEF Reap
      <4>2. CASE ReapOnAcquire
        BY <4>2, <2>t, ReapKeeps DEF ReapOnAcquire
      <4>3. CASE ForceRelease
        BY <4>3, <2>t, ForceKeeps DEF ForceRelease
      <4>4. CASE Tick \/ (\E d \in Naps : Sleep(d)) \/ UNCHANGED vars
        BY <4>4 DEF Tick, Sleep, vars
      <4>5. QED
        BY <2>4, <4>1, <4>2, <4>3, <4>4
    <3>3. QED
      BY <2>3, <3>1, <3>2 DEF Resource!Next
  <2>5. QED
    BY <2>1, <2>2, <2>4 DEF Next, Resource!Next
<1>3. QED
  BY <1>1, <1>2, Counted, PTL DEF Spec, ImplementsHeldResource, Resource!Spec
=============================================================================
