----------------------------- MODULE DisplayHold -----------------------------
(***************************************************************************)
(* One display on a host that may sleep: sessions take and drop holds, the *)
(* linger reaper ages and expires the window, the console force-releases.  *)
(* lifecycle.rs driven the way registry.rs drives it, with suspend.rs's    *)
(* two accounts of a sleep: what each lease slept through, and what the    *)
(* reaper's watch has not counted yet.                                     *)
(*                                                                         *)
(* `now` is Instant, which stops while the box sleeps; `asleep` is the     *)
(* time it has slept, so `now + asleep` is real time.                      *)
(***************************************************************************)
EXTENDS Lifecycle, FiniteSets

CONSTANTS Sessions,    \* sessions that may hold the display
          Policies,    \* the linger policies a display's owner may have set
          Naps,        \* lengths of one sleep
          MaxNow,      \* bound on `now`
          MaxAsleep    \* bound on the time slept in all

ASSUME HoldAssumption ==
  /\ Policies \subseteq Lingers
  /\ Naps \subseteq Nat
  /\ MaxNow \in Nat /\ MaxAsleep \in Nat

VARIABLES
  life,      \* the display's lifecycle::State
  holders,   \* sessions with a live lease on it
  now,       \* Instant::now()
  asleep,    \* boottime minus monotonic: suspend::slept()
  slept_at,  \* per session: slept() when its lease began
  watched,   \* asleep as the reaper's Watch last saw it
  due,       \* real time before which the last hold's policy keeps the display
  spared     \* Instant until which a wake spares the display

vars == <<life, holders, now, asleep, slept_at, watched, due, spared>>

TypeOK ==
  /\ life \in States
  /\ life.kind = "active" <=> life.refs >= 1
  /\ holders \subseteq Sessions
  /\ now \in Nat /\ asleep \in Nat /\ watched \in Nat
  /\ watched <= asleep
  /\ slept_at \in [Sessions -> Nat]
  /\ \A s \in Sessions : slept_at[s] <= asleep
  /\ due \in Nat /\ spared \in Nat

Init ==
  /\ life = Idle /\ holders = {}
  /\ now = 0 /\ asleep = 0 /\ watched = 0
  /\ slept_at = [s \in Sessions |-> 0]
  /\ due = 0 /\ spared = 0

(* The lease a session takes measures sleep from its own start.  (Bound:   *)
(* no session comes after MaxNow.)                                         *)
Acquire(s) ==
  /\ s \notin holders /\ now <= MaxNow
  /\ life' = acquire(life)
  /\ holders' = holders \cup {s}
  /\ slept_at' = [slept_at EXCEPT ![s] = asleep]
  /\ UNCHANGED <<now, asleep, watched, due, spared>>

(* DisplayLease::drop.  The last hold decides what is left of the window;  *)
(* `due` is what lifecycle.rs says of it: the client left when the box     *)
(* went down, so the window started then.                                  *)
Release(s, quit, policy) ==
  LET slept  == asleep - slept_at[s]
      linger == after_sleep(effective_linger(quit, policy), slept)
  IN /\ s \in holders
     /\ life' = release(life, now, linger)
     /\ holders' = holders \ {s}
     /\ due' = IF life'.kind = "lingering"
               THEN LET began == now + asleep - slept IN began + policy.window
               ELSE due
     /\ spared' = IF life'.kind = "lingering"
                  THEN now + (IF WAKE_GRACE <= policy.window THEN WAKE_GRACE ELSE policy.window)
                  ELSE spared
     /\ UNCHANGED <<now, asleep, slept_at, watched>>

(* One tick of the vdisplay-linger thread: what its watch missed comes off *)
(* the deadline, then the window is polled.                                *)
Reap ==
  /\ life' = poll_expiry(age(life, now, asleep - watched), now)
  /\ watched' = asleep
  /\ UNCHANGED <<holders, now, asleep, slept_at, due, spared>>

(* An acquire reaps first, with nothing missed.                            *)
ReapOnAcquire ==
  /\ life' = poll_expiry(age(life, now, 0), now)
  /\ UNCHANGED <<holders, now, asleep, slept_at, watched, due, spared>>

ForceRelease ==
  /\ life' = force_release(life)
  /\ life' # life
  /\ UNCHANGED <<holders, now, asleep, slept_at, watched, due, spared>>

(* Bound: the clock runs past MaxNow only for a window still to end.       *)
Tick ==
  /\ now < MaxNow \/ (life.kind = "lingering" /\ now < life.until)
  /\ now' = now + 1
  /\ UNCHANGED <<life, holders, asleep, slept_at, watched, due, spared>>

(* The box sleeps: real time passes that `now` does not count.  A window   *)
(* still running when it wakes is spared the grace, or what it had left.   *)
Sleep(d) ==
  LET left == IF life.until <= now THEN 0 ELSE life.until - now
  IN /\ asleep + d <= MaxAsleep
     /\ asleep' = asleep + d
     /\ spared' = IF life.kind = "lingering"
                  THEN now + (IF WAKE_GRACE <= left THEN WAKE_GRACE ELSE left)
                  ELSE spared
     /\ UNCHANGED <<life, holders, now, slept_at, watched, due>>

Next ==
  \/ \E s \in Sessions : Acquire(s)
  \/ \E s \in Sessions, quit \in BOOLEAN, policy \in Policies : Release(s, quit, policy)
  \/ Reap
  \/ ReapOnAcquire
  \/ ForceRelease
  \/ Tick
  \/ \E d \in Naps : Sleep(d)

Spec == Init /\ [][Next]_vars

(* The reaper thread loops for the process's life and the clock runs.      *)
FairSpec == Spec /\ WF_vars(Tick) /\ WF_vars(Reap)

-----------------------------------------------------------------------------
(* Expiry or force-release.                                                *)
Reaped == (Reap \/ ReapOnAcquire) /\ life.kind # "idle" /\ life'.kind = "idle"

(* The state machine's own count is the live holds, through joins, leaves, *)
(* reuse, expiry and force-release: no leak and no underflow (lifecycle.rs,*)
(* property_no_leaks_no_double_free_no_underflow).                         *)
HoldsCounted ==
  /\ life.refs = Cardinality(holders)
  /\ life.kind = "active" <=> holders # {}

(* However a sleep is cut up, and whatever the reaper and the reconnecting *)
(* acquires do around the wake, a display that was still in its window     *)
(* when the box woke is there for the grace, so the client that woke the   *)
(* box finds its session (lifecycle.rs: left_after_sleep, age).            *)
WakeGraceKept == [][Reaped => now >= spared]_vars

(* A window is never cut short of the real time its policy gave it: a      *)
(* sleep shorter than the window leaves the rest of it (lifecycle.rs, the  *)
(* test a_window_counts_a_sleep_down_to_the_grace).  No run asks it: a     *)
(* lease dropped between the wake and the tick breaks it.                  *)
SleepCountedOnce == [][Reaped => now + asleep >= due]_vars

(* A lingering display does not outlast its window: a session takes it     *)
(* back, or it is torn down.  The reaper's loop is what sees to it.        *)
WindowEnds == life.kind = "lingering" ~> life.kind # "lingering"

Resource == INSTANCE HeldResource WITH alive <- life.kind # "idle"

(* The shadow model of lifecycle.rs's property test: no leak, no double    *)
(* free, and neither expiry nor a force-release tears down a held display. *)
ImplementsHeldResource == Resource!Spec
=============================================================================
