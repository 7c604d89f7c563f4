# Formal models of punktfunk

TLA+ modules for the parts of punktfunk where steps of several sessions, threads,
machines and processes meet: the virtual displays a host keeps, the journal of what it
changed on the desk, the approval and admission of the clients that want them, and the
video stream between the two ends: packets that arrive in any order, and losses both
ends repair. TLC checks
small instances; TLAPS proves the safety properties for every value of the
constants. `PROJECT.json` maps every definition to the lines it stands for and
lists the runs, the mutants that show each property can fail, the findings, the
hazards and the theorems.

    tlc -workers 2 -config Admission.cfg MCAdmission     # one run
    tlapm AdmissionProofs.tla                            # one proof module

Short paths below: `vdisplay/` is `crates/host/pf-vdisplay/src/vdisplay/`,
`host/` is `crates/host/punktfunk-host/src/`, `core/` is
`crates/core/punktfunk-core/src/`.

## 1. Inventory

A host process serves several clients. A client knocks, is paired or approved,
takes a session slot, is admitted against the sessions that already stream, is
given a virtual display, and streams: capture, encode, packets with FEC over UDP,
input and audio back. When it leaves, its display lingers for a while so that a
reconnect finds its desktop as it was.

### Virtual displays and admission (modelled)

| Part | State it keeps | Operations | What is hard | What makes it correct |
|---|---|---|---|---|
| Display lifecycle, `vdisplay/lifecycle.rs`, `suspend.rs` | idle, active with a count, lingering until an instant, pinned | acquire, release, expiry, age, force-release | the box sleeps: `Instant` stops and windows must not | the count is the holds; nothing tears down a held display; a wake leaves a grace; a window ends |
| Display registry, `vdisplay/registry.rs` | the pool, the create slots of the seats, the generation, the session epoch | acquire (reap, join, slot, probe, claim, retire, evict, create, publish, cast), release, mark_failed, park, reap, console release, invalidate, teardown | the pool lock is dropped around every compositor call; stale candidates; failures half-way; restarts | leases are accounted for; no thread takes a display another session streams; claims keep their keys and owner; one create per seat; every display is reported once |
| Topology journal, `vdisplay/topology_journal.rs`, `monitors.rs`, `linux/wlroots.rs` | entries on disk, seqs in memory, owed entries | push before acting, undo, read back, settle, retry, reclaim after a crash | the host dies anywhere; heads leave and return; a group hands its undos on | a dark head is named on disk; no entry is forgotten; no teardown blanks the desk; it comes back |
| Session admission, `vdisplay/admission.rs`, `host/native/handshake.rs`, `scope.rs` | the table of live sessions and reservations, stop flags, slots | preempt, decide and reserve, budget, steal and wait, register, release | two connects at once; waits that time out; stream threads that wedge | takeovers reach every older session; what left the table holds no display; the display budget |

### Approval and the video stream (modelled)

| Part | State it keeps | Operations | What is hard | What makes it correct |
|---|---|---|---|---|
| Delegated approval, `host/native_pairing/approval.rs`, `store.rs`, `native_pairing.rs` | knocks with a generation each, the generation last admitted, the trust store | knock, park, approve, deny, pair by PIN, edit access, unpair; entries and records expire | a wait reads two stores under two locks while an approve writes them in the other order; caps evict parked knocks | an approved knock is not told it was denied; no decision leaves a wait asleep; the newest knock is not told it was replaced |
| Replay window, `core/session/replay.rs` | highest number and a ring of bits | accept | low halves that wrap, jumps past the window, edges | it is the set of numbers seen within the window |
| Reassembler, `core/packet/reassemble.rs`, `packetize.rs`, `core/session.rs` | frames in flight, blocks and shards, finished frames' indices, the budget, what waits for the pump | push, release and hold a partial, hand prefixes up, age frames out, flush | six ways a frame ends; stragglers; prefix hand-up; wrap of the index | a frame goes up once or is counted lost once; the charge is what is held; what parity restored and came late is netted |
| Loss recovery, `core/client/recovery.rs`, `core/reanchor.rs`, `host/native/stream/recovery.rs`, `native/control`, `pf-encode-core` `ltr.rs`, `rfi.rs` | client: gap, ask, freeze, acknowledgement chain; host: cooldown, episode, long-term references and what is trusted | observe, ask, repeat, freeze, lift, acknowledge; deduplicate, anchor, IDR, distrust | frames and feedback are both lost; an IDR lost in its own cooldown; drops booked late | nothing damaged is shown; a freeze is always served and ends; a confirmed anchor names a clean picture; one loss freezes once |

### The rest (not modelled yet; listed in `PROJECT.json` with the reason)

| Part | State and operations | What is hard, and what would make it correct |
|---|---|---|
| Frame channel, `core/client/frame_channel.rs` | held frames, queue | a hold that expires as its frame arrives; a queue trimmed at its cap while frames are held outside it |
| Rumble leases, `core/rumble.rs` | a lease per pad | keepalives race the expiry: motors stop in the end |
| PIN pairing and its arming window, `host/native/pairing.rs` | an armed window, attempts | a window that closes during a ceremony |
| Control plane and rebuilds, `host/native/control`, `stream` | mode in force, rebuild in progress | renegotiation during a rebuild, create-before-drop |
| Game lease, `host/game` | a game, its grace | a reconnect readopts while the reaper ends it |
| Event bus, `host/events.rs` | ring, subscribers | catch-up against the live tail: no gap and no repeat |
| Seats, `pf-seats`, `host/seats` | a seat's service and its interrupts | stop while starting |
| GameStream plane, `host/gamestream` | a launch, a stream | the reservation ends with `/launch`, the stream registers later |
| Management API, plugin host, library, updates | jobs, files | one job at a time; atomic file replacement |
| Encoders, capture, injection, audio, clipboard, GPU | device handles | device I/O; their failures enter the models as failing steps |
| Client crates and applications, codecs, installers, web console, SDK | user interface, presentation, bitstreams | outside the host's protocol |

### How the modelled parts meet

A connect is admitted (`Admission`), its stream thread calls `registry::acquire`
(`DisplayPool`), whose entries carry a lifecycle state (`Lifecycle`). Creating an
exclusive display on wlroots writes and runs the journal (`TopologyJournal`); the
last session of a display group runs the undos or hands them to a sibling. The
reaper thread ages and expires lingering displays; the console releases kept
ones; the session watcher invalidates a compositor that restarted; shutdown tears
the pool down and exits. A connect whose device is not paired is parked first
(`Approval`); only an approved one reaches `Admission`.

Once a session streams, its host sends a frame a tick as datagrams (`Receive` gives the wire
order), the client's `poll_frame` reads them through `ReplayWindow` into `Reassembler`, and
the pump hands frames to the decoder. What goes missing there is what `Recovery` starts from:
its client half asks, its host half answers with an anchor off a long-term reference
(`LtrMirror`) or an IDR.

## 2. Modules

| Module | Stands for |
|---|---|
| `Lifecycle` | lifecycle.rs as pure operators on a state record |
| `HeldResource` | abstract: a resource that exists while held and is torn down only with no hold on it (the shadow model of lifecycle.rs's own property test) |
| `DisplayHold` | one display driven by sessions, the reaper and a box that sleeps; implements `HeldResource` |
| `DisplayHoldProofs` | its proofs |
| `DisplayPool` | the registry's pool: an action per critical section or stretch of work outside the lock |
| `DisplayPoolProofs` | its types, what is reported of displays, and the create slots |
| `DisplayPoolHoldProofs` | what sessions hold: leases, holds that survive, claims |
| `TopologyJournal` | the journal, the compositor's heads and outputs, sessions, reclaim and watch |
| `TopologyJournalProofs` | its proofs |
| `Admission` | connects from knock to teardown, the table, stop flags, slots, displays reduced to who holds and who keeps them |
| `AdmissionProofs` | its proofs |
| `Approval` | the queue of knocks, the wait step by step, the console, the trust store |
| `ApprovalProofs` | its proofs |
| `ReplayWindow` | session/replay.rs as operators on a ring of bits |
| `Reassembler` | packet/reassemble.rs: an action for push, partials, holds and reset |
| `Receive` | the host's packets, a network that does what it likes with them, `poll_frame` and `flush_backlog` over the two above |
| `ReceiveProofs` | proofs about those three |
| `LtrMirror` | ltr.rs and rfi.rs: two long-term slots, marks, anchors, distrust |
| `HostRecovery` | what the host does with asks: dedup, cooldown, backoff, anchor or IDR |
| `ClientRecovery` | the client's gap, ask, freeze, admission and acknowledgement chain |
| `Recovery` | both ends and a wire that loses frames and feedback, a tick at a time |
| `RecoveryProofs` | proofs about those four |
| `MC…` | requests, policies and symmetry for TLC |

An operator named `M_x` is a plausible wrong version of `x`: a mutant run puts it
in `x`'s place and the named property then fails.

### Correspondence

* **`DisplayHold`.** `now` is `Instant`, `asleep` what the boottime clock is ahead
  of it. `slept_at` is what a lease remembers of `suspend::slept`, `watched` what
  the reaper's `Watch` remembers. `due` and `spared` are histories the properties
  read: when the policy lets the display go, and until when a wake spares it.
* **`DisplayPool`.** `pc[s]` is where a session thread stands in `acquire`. `pool` is
  `Reg.entries` keyed by push order, `creating` the `CREATING` list, `dying[t]` the
  entries thread `t` took out and has not dropped (`Drained`). A request is what the
  `VirtualDisplay` answers: backend, spawned or shared compositor, seat, mode, owner,
  join, park, resize, separate cast. `Finish(t)` drops outside the lock and reports.
  `host`, chosen in `Init`, is how the box is set up: the requests its clients make, its
  keep-alive policies, its cap, whether it stops and how often its compositor restarts.
* **`TopologyJournal`.** `lit`, `listed` and `outputs` are the compositor's side;
  `journal` is every file on disk, of dead hosts too; `held` a session's seqs,
  `todo`/`cur`/`undone` a pass of `run`, `owed` the watch's entries with their failed
  looks, `kept` a history of what a pass gave up. `Crash` is enabled at every step and
  clears all memory.
* **`Admission`.** `row[s]` is a session's id in the table (0: none), `display[s]`
  whether its row was registered, `waiting[s]` the stop flags it waits for,
  `stuck` the stream threads in a call that does not return. `Admit` is `admit_under`
  under one hold of the table; `Budget` is the check after it; `DropLease` comes with
  the stream thread's return, `DropGuard` and `FreeSlot` with `Held::release`.
  A display is `made` at what its session asks for, a mode and the keys baked into it (HDR,
  hardware cursor), which are an input of the step that opens it: `Reuse` takes a kept display of
  the same keys, and `Create` retires the client's own at other modes (`retire_own_kept`), but not
  one at its mode that was baked otherwise.
  `crowded` is a history: two connects were in bring-up together, or one was admitted
  by a join or a steal, which skip the budget.
* **`Approval`.** `pc[c]` is where a connection stands in `wait_for_decision`, one step per
  lock it takes; `Armed` are the places where its `Notify` is enabled, and `notify_waiters`
  sets `woken` for those and no other. `op[o]` is a console request between its locks:
  `named` has read the source, `add` is about to pin, `clear` is about to clear. `items` is
  a set of entries, each with the instant `evict_index` reads. `newest`, `told` and `unheard` are histories.
* **`ReplayWindow`, `Reassembler`, `Receive`.** `replay` is the highest number and the bits
  set of the ring, slot by slot. `frames` is the map of frames in flight, each with its blocks
  (`have`, `parity`, `done`, `reconstructed`), `completed` the remembered indices with what
  parity restored of each, `parked` a partial that waits for the pump, `hold` the frame shards
  were asked for. `Receive` takes any datagram of the wire at any time; one never taken is
  lost. `accepted`, `opened`, `flushed`, `lost` and `got` are histories.
* **`Recovery`.** A tick is encode, wire, pump, decode. `host` holds the encoder's mirror
  (`ltr`), the cooldown's instants and the ask it saw last; `rfi`, `gate`, `withheld`, `fb`
  are `RfiRecovery`, `ReanchorGate`, `AuAdmission` and `FeedbackOut` with its `AckChain`.
  `on_anchors` is the data pump's: the newest whole frame was an anchor, so a short tail asks nothing.
  `clean` is what a decoder with the whole chain would have; `shown` what the last frame came
  to. `conf` is the session: confirmed references or not (`floor`), a lane that keeps a
  ledger, and the encoder (`keep`, `drop`: AMF drops the other slot when it forces one).

## 3. Runs

A host with nothing to do stops, so every run but `recovery` has `CHECK_DEADLOCK FALSE`; progress is
asked for by liveness properties instead.

| Run | Instance | What it shows |
|---|---|---|
| `display_hold` | 2 sessions, a policy of each kind, window 3, naps of 1 or 2, clock and sleep to 3 | the count is the holds (`HoldsCounted`), a wake leaves the grace (`WakeGraceKept`), a window ends (`WindowEnds`), and the whole implements `HeldResource` |
| `pool` | 2 sessions, 3 acquires; a host is a desktop of 2 clients, one of which may join, with room for 2; or a client's own that is stopped; or it restarts its compositor once, has casts that fail, a seat's Game Mode display and room for 1 | `LeaseAccounting`, `EventsBalanced`, `HeldDisplaySurvives`, `ClaimKeyed` |
| `pool_seat` | a pre-warm and its client on one seat, one slot wait may time out, fair | creates are serialised (`OneCreatePerSeat`), slots come back (`SlotsFreed`), waiters go on (`AcquireEnds`), windows end (`LingerEnds`) |
| `journal` | 2 sessions, 2 heads, 2 creates, one crash, one unplug, one refusal, 2 tries, fair | `DarkIsJournaled`, `NoEntryForgotten`, `TeardownNeverBlank`, `DeskComesBack` |
| `admission` | 3 connects for 2 slots, a paired and an anonymous client, any pair of the 4 policies, 2 modes, 2 baked keys, room for 1 display, one wedge | `StealIsExclusive`, `HoldersAreListed`, `BudgetPerClient` |
| `approval` | 3 connections, 2 devices, 2 console requests in flight and 2 begun, caps of 1, one entry or record that lapses | `AdmittedIsNotDenied`, `NoSleepOnDecided`, `NewestIsNotSuperseded` |
| `receive` | 3 frames of 2, 1 and 3 blocks in 9 datagrams and a resend; indices of 8, windows of 2 and 1, a ring of 4, a budget of 7; one flush; three opt-ins | `ReplayExact`, `GoesUpOnce`, `CountedOnce`, `Metered`, `LateIsNetted` |
| `recovery` | five kinds of session, 3 troubles in the first 11 of 30 ticks | `ShownIsClean`, `ConfirmedAnchorIsClean`, `Heals`, `FreezeIsServed`, `GapCountedOnce` |

Runs that refute a line of the source (one property each; section 6 quotes it):
`shared_cast`, `stop_mid_create`, `reclaim_blanks`, `flush_straggler`.

### Bounds and why they are enough

* Two sessions are every pair that can race on one display; a third actor is always
  there (reaper, console, watcher). `Admission` has three connects: a victim, a thief,
  and one that comes between them.
* Three acquires let a display be created, left, taken back and superseded. Two epochs
  are before and after a restart. Time runs on past `MaxNow` while a window is open,
  so no window is kept open by the bound. `max_displays` is at its limit in `pool`'s
  restarting host and in `admission`.
* One crash is a dead host and its successor; the reclaim's order across two owners
  needs no more. Two creates are a darkening session and the sibling it hands to.
  `OWED_TRIES` 2 has a look that fails, and one too many.
* Three connects of two clients are, up to their names, every way two or three of them share
  an identity. `Keeps` leaves out a display torn down at once: `Forget` right after does that.
* `admission`: two modes and two baked keys tell a kept display that fits from one at another mode
  and from one at the same mode baked otherwise. Three connects wait for two slots, so one takes its
  slot as another gives its back, and a takeover has one victim at a time in the run; with more slots
  the proof answers. A joiner may take any active display, where the code
  names the oldest row's: more behaviours, none fewer.
* `approval`: three connections are an older knock, a newer one of the same device and one
  of another that evicts it. Two requests are an approve and whatever undoes it. With a cap
  of 1 every second knock evicts, but `evict_index` then has one entry to choose from: its
  preference for entries nobody waits on is not exercised. An entry outlives its TTL only when
  none of its waits is still within theirs, which is a third as long. Addresses are left at one:
  with a cap of 1 a strict knock does what a familiar one does that no bare approve names.
* `receive`: the low half of a number wraps (10) inside the wire, which starts at 3
  as if three packets had been lost before it, jumps are longer than the
  ring (4), indices wrap (8) within the plan, a window has frames on both sides, and a
  budget of 7 is exceeded by three frames at once. One flush has frames torn, finished and
  not yet opened. One frame has parity, one is chunked, one has three blocks
  and so two prefixes.
* `recovery`: three troubles are a loss, the loss of what answers it, and of what answers
  that: the ask, the anchor, the IDR. All of them fall in the first 11 ticks, so an episode
  can have ended and another begun. `HealBound` is close: with 16 in place of 17 `Heals` fails. Spans
  keep the order of the code's: a flight is shorter than a freeze, a freeze than a cooldown.
* Sessions are interchangeable wherever a cfg says `SYMMETRY`; runs with liveness
  properties have none.

### Fairness and why the code justifies it

* `DisplayHold`: the clock and the reaper thread, which loops for the process's life.
* `DisplayPool`: threads that can go on do. Every wait in `acquire` but the slot's has a
  time-out of its own, and a compositor call returns or fails. No client has to come or
  to leave, and no console to ask.
* `TopologyJournal`: sessions end, a pass and the watch's look go on, a host that died
  is started again. Nobody has to plug a head back in.
* `Admission`, `Approval` and `Receive` have no fairness: their properties are safety. A wait
  that sleeps for ever where it should not is a safety property there (`NoSleepOnDecided`).
* `Recovery` needs none: its clock is the host's frame rate, a tick is one pass of each side,
  and "in the end" is a bound in ticks (`Heals`), which says more than a liveness property.

## 4. What is proved

Every invariant and every action property that a passing run checks is a theorem too, for
every value of the constants the modules' named assumptions allow, except the ones listed at
the end of this section. Type correctness (`Typing`; `TypeCorrect` in `AdmissionProofs`) comes first in
each module and is not mentioned again.

**`DisplayHoldProofs`.** `DisplayIsCounted`: the count is inductive with the types and the
finiteness of the holders (`HoldInv`). `WakeIsSpared` needs where a wake leaves the deadline:
`GraceInv` says that it is not before the end of the grace, and the grace at most
`WAKE_GRACE` ahead, so that no later ageing cuts into it. `DisplayImplementsHeldResource`:
every step is a step or a stutter of `HeldResource`.

**`DisplayPoolProofs`.** `Typed` adds to the types what a session has in hand at each place in
`acquire`. `Balances`: `EventsBalanced` speaks of moments at which all is reported; what carries it
is a sum that holds at all of them (`Balance`: filed, plus taken out and not dropped, less
filed and not told), with the displays threads have taken out apart from each other and from the pool
(`Apart`). `SeatsAreExclusive`: while no slot wait has timed out, the list of slots has one
entry per seat, and it belongs to the session on its way through the create (`SeatInv`).

**`DisplayPoolHoldProofs`.** `Accounting`, `HeldSurvives` and `Claims` share one invariant.
`LeaseAccounting` is not inductive: a display filed under a generation some lease already names
would start with holds it does not count. So what names a display was dealt from `generation`
(`Dealt`), what a create will file under nobody else names (`Unshared`), and what an acquire
claims is what its probe matched, though the lock was let go in between (`Probed`). That a
held display survives is then: what reap, eviction, console or retirement takes is not
active, and what is leased is.

**`TopologyJournalProofs`.** `DarkHeadsAreJournaled`: an undone entry may be about to be settled while
another session darkens the same heads. The strengthening follows an entry of a dark head
that is in no pass's undone set (`Covered`), with seqs given out once (`Fresh`), in one hand
each (`Apart`), a session about to darken still holding what it wrote (`Pending`), and what a
dead host leaves (`Dead`, `Idle`, `Bare`). `EntriesStayInHand` adds `AllInHand`.
`TeardownLightsTheDesk` adds `StandInv`: outputs are apart, no session streams before the
reclaim is over, passes run entries of heads only, and what the watch looks at it owes; as the last
output goes, whatever names a dark head is then owed or was given up.

**`AdmissionProofs`.** `TakeoversAreExclusive` speaks of sessions past their admission;
`Reached` follows one from its row on: between the decision and the flags, the older
sessions are those it waits for. Row ids, unique and below `next`, order the pairs.
`LeftMeansLetGo` rests on `Held`: a lease is held by a stream thread in its session, or by one
left behind. `BudgetIsKept` speaks of what a client is charged for: all it has live or, in place
of that, one display pinned for it. `Alone` adds who is between the budget and its display: one
session at most, and what its budget counted still leaves it room, since nothing that happens
meanwhile adds to that count (`AloneKept`). Once it streams, whatever is charged along with its
display was counted there (`StreamerCharged`).

**`ApprovalProofs`.** `AdmittedKnocks`, `SleepersAreUndecided` and `NewestWins` share `IInv`:
what store and queue say of a device in the order an approve writes them (`InOrder`), the newest
knock at the generation of its device's entry and marker, which are never there at once
(`AtLast`), and what a wait nobody has woken has read and still holds (`Waiting`).

**`ReceiveProofs`.**
* `ReplayIsExact`: the ring is the numbers accepted less than a window below the highest
  (`Mirrors`), across wraps of the low half and jumps of any length. "In reach" is what the
  code takes: not below the window, within half the low half of the highest number, and at
  most one key ahead (`MEDIA_KEY_PACKETS`).
* `MemoryIsMetered`: the charge is the sum of what the frames commit (`Charged`), with each frame
  within the plan of the host, which its blocks' shards and its delivered prefix follow (`Framed`).
* `FramesGoUpOnce` and `DropsCountOnce`: what went up of a frame is pieces in a row (`InRow`),
  and a frame once heard of is either in flight with nothing counted and its prefix where the last piece
  ended (`Ahead`), or its index is remembered or too old to open (`Gone`). That the anchor only
  moves forward, and that an index is remembered for as long as its shards may come,
  keeps it there. Frames a flush tore are outside: `flush_straggler` shows why.
* `LateShardsAreNetted`: each late shard is paid for by one counted recovered. `Pays` keeps the
  debt (what parity restored, in flight and of terminated frames) plus what was late at or below what was
  recovered; blocks of a frame do not overlap, so no shard is in two debts.

**`RecoveryProofs`.** One invariant for all five: the order of frames and acknowledgements
(`Flow`), the opening tick (`Opening`), a deadline ahead of every freeze (`Freeze`:
`FreezesAreServed`), a credit for every drop still to be booked, as long as it may be booked, each
paid for by a trouble (`Credits`, `Paid`: `GapsCountOnce`), a decoder fed without a hole holding the
picture before the next frame (`Chain`: `NothingDamagedShown`), and a host whose marks and
acknowledged frames since its last IDR are whole at the client (`Acked`: `AnchorsAreClean`).

`FreezesHeal` has a second invariant on top of it (`HInv`), about dates: all of them are counted from the
last trouble. What it left on the wire is gone (`Clears`), no range is asked for it any more
(`Asked`, for `Quiet` ticks at most), and from then on only a deadline that passes asks. No IDR has gone out
meanwhile that has not lifted the freeze (`Paced`), so the host's cooldown, at most
`Longest`, has run out at `Sure`: the next deadline's ask brings an IDR, and nothing is lost any more, so it
lands (`Served`). In the tick of a trouble every part holds by the clock alone (`StruckNow`),
which leaves the quiet ticks to prove. The theorem has two hypotheses: a freeze is no shorter than the window
between two asks (`RfiThrottle <= FreezeMax`, 100 ms and 500 ms in the code), or an ask could fall to
the window for ever; and `HealBound` is at least the sum of `Quiet`, `Longest`, a freeze and a tick.

### Assumptions

The constants' assumptions are named in the module that declares them, and TLC evaluates them
in every run. Beyond types and signs they say:

* `PoolAssumption`, `ApprovalAssumption`: finitely many threads and connections. `DisplayHold`
  and `Admission` start without any and need none: that theirs are finite is proved.
* `ReplayAssumption`: the low half counts to at least twice the window (2^32 and 131072 in
  the code).
* `WindowAssumption`: an index is remembered for at least as long as the loss window keeps its
  frame open.
* `PlanAssumption`: a stretch of stream within half the ring of indices and of epochs, indices
  used once; partials and parts are not asked for together, which the client's handshake sees to.
* `ClientAssumption`, `HostAssumption`, `LtrAssumption`, `RecoveryAssumption`: a freeze lasts at
  least a tick, and a lost frame is booked while its credit lasts.

Sums over finite functions and flattened sequences are recursive functions. What the
proofs need of them is not proved by induction, which is out of the prover's reach, but from a
least counterexample, by the well-foundedness of the naturals.

### Only model-checked

* `WindowEnds`, `SlotsFreed`, `AcquireEnds`, `LingerEnds`, `DeskComesBack`: liveness. Fairness and
  `ENABLED` are outside the prover.
* The closer bound of `Heals`. The run's 17 is the theorem's sum with 8, the cooldown at its start, in
  place of 30, its ceiling: how far the cooldown is doubled when the last trouble comes is a
  matter of the run's 30 ticks and three troubles, which the proof does not count.
* The violations of section 6: each is a counterexample.

A pooled display is not shown to implement `HeldResource`, because it does not: a failed cast
takes it from a joiner (`shared_cast`), and a restarted compositor or a host that stops takes it from
anyone. `HeldSurvives` is that promise with its exceptions.

## 5. What the models leave out, and why

* Registry: the Windows manager (another pool), the reasons of a session switch, layout.
  Slot waits that time out are bounded by `MaxLate`, and the slot properties are stated of
  executions before one does: after it a guard may free another's slot.
* Journal: writes that fail (logged and gone on by design), a compositor that restarts
  under its outputs, gamescope's takeover, other backends' darkening, a reclaim
  for a new desktop while the host streams. One watch stands for the several threads that may be owed;
  seqs are global where the code has (owner, seq). `DeskComesBack` excuses an output that
  would not unplug: the watch waits for it by design.
* Admission: the Linux host, a backend whose kept displays cannot move to another mode, devices with
  an identity of their own. A reuse that misses and creates beside another kept display that fits is
  `DisplayPool`'s. GameStream's plane, the Windows budget and its display built
  at the Welcome, mode caps and the permit of a parked knock are not there.
* Approval: the PIN ceremony and its arming window, a seat's read-only store, saves that fail
  (they roll the store back), the live watch of access that running sessions subscribe to,
  and the pruning of admitted markers with the pending TTL.
* Receive path: the header firewall and sealing (packets are authentic and well formed), probe
  filler, further screens, which have index spaces of their own, and the streamed packetizer.
  FEC is "any k of k + m": the field arithmetic is assumed.
* Recovery: streams of intra-refresh waves, and the decoder's own verdicts (no output,
  starved, lost, codec error) beyond a keyframe it asks for; frames handed up in parts or as
  partials, shard resends and holds; the host's own repairs and owed IDRs; the loss mode's
  switch from link statistics; bitrate and FEC requests; NVENC's and Vulkan's reference
  tables. The acknowledgement chain is not reset by a decoder rebuild, as in the code.
* Wording, logging, metrics, layout and wire formats.

## 6. Findings

| Run | Source | What |
|---|---|---|
| `shared_cast` | `vdisplay/registry.rs:2254` | a failed cast drops its lease before `mark_failed` reads the count, and takes the display from a joiner |
| `stop_mid_create` | `vdisplay/registry.rs:2498` | a create in flight is filed after shutdown drained the pool, and left on the box |
| `reclaim_blanks` | `vdisplay/topology_journal.rs:435` | the reclaim of a dead host unplugs a sibling's output before it lights the heads |
| `flush_straggler` | `core/packet/reassemble.rs:1426` | after a flush a straggler of an older torn frame prunes the remembered indices ahead of it, and a straggler of a newer one is counted as a frame lost on the link; a finished frame of one packet can so go up twice |

Known as well, and without a run. Those with a name are stated in their module. To see a
trace, make the name the only property of a configuration: `SleepCountedOnce` as a PROPERTY of
`DisplayHold.cfg`, `CreateAfterDrop` as an INVARIANT of `PoolSeat.cfg`, `BudgetKept` or `BudgetKeptAlone`
as one of `Admission.cfg`, `OnlyNewestAdmitted` as a PROPERTY of `Approval.cfg`, `AnchorIsKnownGood` as an
INVARIANT of `Recovery.cfg` with `Confs <- Unconfirmed`.

* `DisplayHold!SleepCountedOnce`: a lease dropped between the wake and the reaper's next tick
  has one sleep taken off its window twice (`vdisplay/registry.rs:2361` and `:1853`, against `lifecycle.rs:175`:
  "A sleep shorter than the window leaves the rest.").
* `DisplayPool!CreateAfterDrop`: the reaper drops an expired display outside the lock and
  without the seat's slot, so a reconnect may create beside it (`vdisplay/registry.rs:1856`,
  against line 1893: "so the socket name is free by the time `create` runs").
* `Admission!BudgetKept`: reservations cost nothing, so two connects in bring-up both pass
  `max_displays` (`vdisplay/admission.rs:177`, against line 153: "a display we cannot afford is
  declined here").
* `Admission!BudgetKeptAlone`: a client alone on the host, with a pinned display, comes back at the same
  mode with another HDR or cursor setting. Admission does not count its pinned display, the reuse probe refuses
  it (`vdisplay/registry.rs:609`), `retire_own_kept` takes only other modes (`:2557`), and nothing evicts a
  pinned one: `max_displays` of 1 has two (against `:402`: "the requester's own pinned display is the
  one its create reuses or retires", and `registry/linux_tests.rs:513`: "a client alone on the host is
  refused rather than created past `max_displays`").
* `Approval!OnlyNewestAdmitted`: an older wait reads its generation, the device knocks again and
  is approved, and the older wait, past its check, finds itself paired; until the approve has cleared the
  queue no marker says otherwise (`approval.rs:514`, against line 512: "Once a newer knock owns the
  fingerprint this connection must never be admitted").
* `Recovery!AnchorIsKnownGood` in a session without confirmed references: a frame is lost whole
  and the next is cut short; the short tail asks for its own frame alone and the host anchors on
  the lost one (`core/client/recovery.rs:114`, against its line 32: an anchor "references only
  frames this client holds").
* After a slot wait of 30 s times out there are two entries under one key, and
  `SeatCreate::drop` (`vdisplay/registry.rs:1652`) removes the older, whosever it is.
* An evicted knock is not woken, and the device's next entry starts at generation 0 again
  (`approval.rs:315`, `:337`): the evicted wait sleeps on and an approve admits both.
* `set_access` on a lapsed record authorizes the device and does not wake its parked knock
  (`native_pairing.rs:379`), which waits for its deadline.
* A bare approve of a lapsed record keeps it lapsed (`store.rs:240`), and clears the knock: its wait is told it
  was denied.

## 7. Plan

In order, with what each is for. Runs of one component are merged where their questions
share a state space.

1. `Access`: the watch live sessions keep on their device's record, a publish that is stale,
   and the gap between an admission and `session_started`.
2. `EventBus`: catch-up and tail, with no gap and no repeat. `GameLease`: grace, readopt,
   reaper.
3. `FrameChannel`: hold, expire and trim between the reassembler and the decoder; partial frames
   and resends in `Recovery`.
4. `Admission`: GameStream's plane as a second kind of session, and a fair specification with
   "every slot comes back".
5. Mode renegotiation over `DisplayPool`'s create-before-drop.
6. Rumble leases, seats, plugin jobs, the Windows manager as a second implementation of
   `HeldResource`.
