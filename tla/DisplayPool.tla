------------------------------ MODULE DisplayPool ------------------------------
(***************************************************************************)
(* The Linux display registry: the pool of virtual displays the sessions   *)
(* of one host create, join, reuse and leave, and the threads that take    *)
(* them down.  crates/host/pf-vdisplay/src/vdisplay/registry.rs.           *)
(*                                                                         *)
(* One action is one critical section of the pool lock (or of the create   *)
(* slots' lock), or one stretch of work outside it: the probe of a kept    *)
(* display, a create, the session's cast, the drop of what was taken out.  *)
(* `pc` is where a session thread stands in registry::acquire.             *)
(*                                                                         *)
(* A display is identified by the order it was pushed in, which is its     *)
(* place in the Vec; the generation is what a lease names it by.           *)
(***************************************************************************)
EXTENDS Lifecycle, FiniteSets, Sequences

CONSTANTS
  Sessions,   \* session and pre-warm threads
  Reaper,     \* the vdisplay-linger thread
  Console,    \* a management request, and the host's own shutdown
  Watcher,    \* the session-switch watcher
  None,       \* no seat, no owner, no lease
  Hosts,      \* the hosts there may be, and what happens on each
  MaxAcquires, \* bound on the acquires that begin
  MaxNow,     \* bound on the clock, but for windows still to end
  MaxLate     \* bound on create-slot waits that time out

(* What VirtualDisplay answers about one acquire: its backend, whether     *)
(* that spawns a compositor of its own (DisplayOwnership::Spawned, and then*)
(* sole_instance), the seat it is isolated on, the mode and the shape, the *)
(* client's identity slot, whether admission said join, whether this is a  *)
(* pre-warm, whether a kept display can be resized (can_resize_kept), and  *)
(* whether the session's cast is separate from the output.                 *)
RequestType ==
  [backend : STRING, spawned : BOOLEAN, seat : STRING \cup {None}, mode : Nat,
   hdr : BOOLEAN, cursor : BOOLEAN, owner : STRING \cup {None}, join : BOOLEAN,
   park : BOOLEAN, resize : BOOLEAN, cast : BOOLEAN]

(* A host: the displays its sessions may ask for, the linger policies its  *)
(* owner may set, its cap, whether it is a seat in Game Mode; and whether  *)
(* it is stopped and how often its compositor restarts, at most.  A process*)
(* has finitely many threads, and no generation is None.                   *)
ASSUME PoolAssumption ==
  /\ \A h \in Hosts :
       /\ h.requests \subseteq RequestType /\ h.policies \subseteq Lingers
       /\ h.max_displays \in Nat \ {0} /\ h.restarts \in Nat
       /\ h.seat_game_mode \in BOOLEAN /\ h.stops \in BOOLEAN
  /\ MaxAcquires \in Nat /\ MaxNow \in Nat /\ MaxLate \in Nat
  /\ IsFiniteSet(Sessions)
  /\ None \notin STRING /\ None \notin Nat

VARIABLES
  host,        \* which of Hosts this is
  pool,        \* push order -> entry: Reg.entries
  generation,  \* Reg.generation
  pushed,      \* displays pushed so far
  creating,    \* CREATING: the create slots held, oldest first
  epoch,       \* SESSION_EPOCH
  now,         \* Instant::now()
  begun,       \* acquires begun
  listed,      \* display.created less display.released, as a console counts
  dying,       \* per thread: displays it took out of the pool, not yet dropped
  outgoing,    \* the backend of the compositor that went, still to invalidate
  stage,       \* how far the host's shutdown is
  late,        \* create-slot waits that timed out
  pc, req,     \* per session: where its acquire stands, and what it asked for
  seen,        \* per session: the epoch it read when its acquire began
  lease,       \* per session: the generation of the display it holds
  old,         \* per session: the display a mode switch supersedes
  mine,        \* per session: a generation it works on without a lease
  doomed,      \* per session: generations it is about to release_kept
  reused,      \* per session: VirtualOutput.reused_gen is set
  slots        \* per session: create-slot guards held (two in a pre-warm)

poolVars == <<pool, generation, pushed, listed, dying>>
hostVars == <<host, epoch, outgoing, now, stage, late, begun>>
acqVars  == <<pc, req, seen, lease, old, mine, doomed, reused, slots>>
vars     == <<poolVars, creating, hostVars, acqVars>>

Threads == Sessions \cup {Reaper, Console, Watcher}

PCs == {"idle", "park", "held", "join", "joincast", "slot", "probe", "claim", "attach",
        "badcast", "retire", "own", "evict", "create", "push", "tell",
        "first", "drop", "live", "parked", "swapdrop", "swapretire"}

Entry == [life : States, gen : Nat, req : RequestType, epoch : Nat, parked : BOOLEAN]

TypeOK ==
  /\ host \in Hosts
  /\ pool \in [DOMAIN pool -> Entry] /\ DOMAIN pool \subseteq 1..pushed
  /\ generation \in Nat /\ pushed \in Nat /\ epoch \in Nat /\ now \in Nat /\ late \in Nat
  /\ listed \in Int /\ begun \in Nat
  /\ creating \in Seq(STRING \X STRING \X Sessions)
  /\ dying \in [Threads -> SUBSET (Nat \X RequestType)]
  /\ outgoing \in STRING \cup {None}
  /\ stage \in {"run", "closing", "stopping", "exited"}
  /\ pc \in [Sessions -> PCs]
  /\ req \in [Sessions -> RequestType \cup {None}]
  /\ seen \in [Sessions -> Nat]
  /\ lease \in [Sessions -> Nat \cup {None}] /\ old \in [Sessions -> Nat \cup {None}]
  /\ mine \in [Sessions -> Nat \cup {None}]
  /\ doomed \in [Sessions -> SUBSET Nat]
  /\ reused \in [Sessions -> BOOLEAN]
  /\ slots \in [Sessions -> 0..2]

Init ==
  /\ host \in Hosts
  /\ pool = <<>> /\ generation = 1 /\ pushed = 0 /\ creating = <<>>
  /\ epoch = 1 /\ now = 0 /\ listed = 0 /\ outgoing = None /\ stage = "run" /\ late = 0 /\ begun = 0
  /\ dying = [t \in Threads |-> {}]
  /\ pc = [s \in Sessions |-> "idle"]
  /\ req = [s \in Sessions |-> None]
  /\ seen = [s \in Sessions |-> 0]
  /\ lease = [s \in Sessions |-> None] /\ old = [s \in Sessions |-> None]
  /\ mine = [s \in Sessions |-> None]
  /\ doomed = [s \in Sessions |-> {}]
  /\ reused = [s \in Sessions |-> FALSE]
  /\ slots = [s \in Sessions |-> 0]

-----------------------------------------------------------------------------
(* mod pool: the rules that read the entries.                              *)

IsKept(e)   == Kept(e.life)
IsActive(e) == e.life.kind = "active"

Named(g)  == {i \in DOMAIN pool : pool[i].gen = g}

First(I)  == CHOOSE i \in I : \A j \in I : i <= j

epoch_matches(e, cur) == e.req.spawned \/ e.epoch = cur

(* May the identity slot's owner take the display: identity::may_reuse on  *)
(* a shared desktop; a spawned compositor accepts any claimant.            *)
accepts_kept(e, r) == e.req.spawned \/ e.req.owner \in {None, r.owner}

M_any_epoch(e, r, cur) ==
  /\ e.req.backend = r.backend /\ (e.req.mode = r.mode \/ r.resize)
  /\ e.req.seat = r.seat /\ e.req.cursor = r.cursor /\ e.req.hdr = r.hdr
  /\ accepts_kept(e, r)
reuse_keys_match(e, r, cur) ==
  /\ e.req.backend = r.backend /\ (e.req.mode = r.mode \/ r.resize)
  /\ e.req.seat = r.seat /\ e.req.cursor = r.cursor /\ e.req.hdr = r.hdr
  /\ epoch_matches(e, cur)
  /\ accepts_kept(e, r)

(* The live displays a mode_conflict: join session may share.              *)
join_targets(r, cur) ==
  {i \in DOMAIN pool :
     /\ IsActive(pool[i])
     /\ pool[i].req.backend = r.backend /\ pool[i].req.mode = r.mode
     /\ pool[i].req.seat = r.seat /\ pool[i].req.hdr = r.hdr
     /\ epoch_matches(pool[i], cur)}

kept_to_retire(r) ==
  {pool[i].gen : i \in {j \in DOMAIN pool :
     /\ IsKept(pool[j])
     /\ pool[j].req.backend = r.backend /\ pool[j].req.seat = r.seat}}

(* retire_own_kept: every lifecycle; release_kept refuses the active ones. *)
own_at_other_mode(r) ==
  IF r.owner = None THEN {}
  ELSE {pool[i].gen : i \in {j \in DOMAIN pool :
          /\ pool[j].req.backend = r.backend /\ pool[j].req.mode # r.mode
          /\ pool[j].req.owner = r.owner}}

(* A parked seat first, else the lingering display nearest its expiry.     *)
kept_to_evict(supersedes) ==
  LET counted   == {i \in DOMAIN pool : pool[i].gen # supersedes}
      parked    == {i \in DOMAIN pool : pool[i].parked /\ IsKept(pool[i])}
      lingering == {i \in DOMAIN pool : pool[i].life.kind = "lingering"}
      nearest   == {i \in lingering : \A j \in lingering :
                      \/ pool[i].life.until < pool[j].life.until
                      \/ pool[i].life.until = pool[j].life.until /\ pool[i].gen <= pool[j].gen}
  IN CASE Cardinality(counted) < host.max_displays -> {}
       [] Cardinality(counted) >= host.max_displays /\ parked # {} -> {pool[First(parked)].gen}
       [] OTHER -> {pool[i].gen : i \in nearest}

is_seat_game_mode(e) == host.seat_game_mode /\ e.req.spawned /\ e.req.seat = None

(* release_linger, and a seat's own Game Mode display kept like a parked   *)
(* one unless the client quit.                                             *)
LingerOf(e, quit, policy) ==
  IF e.parked \/ (~quit /\ is_seat_game_mode(e)) THEN Forever
  ELSE effective_linger(quit, policy)

(* What take_expired selects.                                              *)
Expired(cur) ==
  {i \in DOMAIN pool : \/ Expires(pool[i].life, now)
                       \/ ~epoch_matches(pool[i], cur) /\ ~IsActive(pool[i])}

(* Take the displays I out of the pool; thread t drops them afterwards,    *)
(* outside the lock, and reports them.                                     *)
Remove(t, I) ==
  /\ pool' = [i \in DOMAIN pool \ I |-> pool[i]]
  /\ dying' = [dying EXCEPT ![t] = @ \cup {<<i, pool[i].req>> : i \in I}]

(* A thread that took displays out drops them before it does anything else.*)
Clear(t) == dying[t] = {}

(* A process that exited takes no step.                                    *)
Alive == stage # "exited"

(* DisplayLease::drop of the lease on g, under the pool lock.              *)
drop_lease(t, g, quit, policy) ==
  LET after(i) == release(pool[i].life, now, LingerOf(pool[i], quit, policy))
      torn     == {i \in Named(g) : TearsDown(pool[i].life, now, LingerOf(pool[i], quit, policy))}
  IN /\ pool' = [i \in DOMAIN pool \ torn |->
                   IF i \in Named(g) THEN [pool[i] EXCEPT !.life = after(i)] ELSE pool[i]]
     /\ dying' = [dying EXCEPT ![t] = @ \cup {<<i, pool[i].req>> : i \in torn}]
     /\ UNCHANGED <<generation, pushed, listed>>

(* release_kept of one generation, or of every kept display (g = None).    *)
release_kept(t, G) ==
  /\ Remove(t, {i \in DOMAIN pool : pool[i].gen \in G /\ IsKept(pool[i])})
  /\ UNCHANGED <<generation, pushed, listed>>

(* A display another session still streams (JOIN) is not dead.             *)
M_mark_shared(t, g) ==
  /\ Remove(t, Named(g))
  /\ UNCHANGED <<generation, pushed, listed>>
mark_failed(t, g) ==
  /\ Remove(t, {i \in Named(g) : ~(IsActive(pool[i]) /\ pool[i].life.refs > 1)})
  /\ UNCHANGED <<generation, pushed, listed>>

-----------------------------------------------------------------------------
(* The create slots.                                                       *)

slot_key(r) == <<r.backend, r.seat>>
Keyed(r)    == r.seat # None

HoldersOf(k) == {n \in DOMAIN creating : <<creating[n][1], creating[n][2]>> = k}

(* slot_state: the first holder of the key decides.                        *)
M_slot_free(s, r) == "free"
slot_state(s, r) ==
  LET held == HoldersOf(slot_key(r))
  IN CASE held = {}                                         -> "free"
       [] held # {} /\ creating[First(held)][3] = s          -> "mine"
       [] OTHER                                             -> "wait"

Take(s, r) == creating' = Append(creating, <<r.backend, r.seat, s>>)

(* SeatCreate::drop of n guards: each removes the first entry of the key   *)
(* (swap_remove, so the last entry takes its place).                       *)
DropSlot(busy, k) ==
  LET held == {n \in DOMAIN busy : <<busy[n][1], busy[n][2]>> = k}
  IN IF held = {} THEN busy
     ELSE [n \in 1..(Len(busy) - 1) |-> IF n = First(held) THEN busy[Len(busy)] ELSE busy[n]]
DropSlots(s, n) ==
  /\ creating' = CASE n = 0 -> creating
                   [] n = 1 -> DropSlot(creating, slot_key(req[s]))
                   [] n = 2 -> DropSlot(DropSlot(creating, slot_key(req[s])), slot_key(req[s]))
  /\ slots' = [slots EXCEPT ![s] = @ - n]

(* A pre-warm's own guard outlives the acquire beneath it.                 *)
M_slot_both(s) == 2
InnerSlots(s) == IF req[s].park THEN IF slots[s] = 2 THEN 1 ELSE 0 ELSE slots[s]

Go(s, where) == pc' = [pc EXCEPT ![s] = where]

-----------------------------------------------------------------------------
(* registry::acquire, step by step.                                        *)

(* Where an acquire of r goes next; a step that has nothing to do for r is *)
(* passed over.                                                            *)
ToSlot(r)   == IF Keyed(r) THEN "slot" ELSE "probe"
ToRetire(r) == IF r.spawned THEN "retire" ELSE IF r.resize THEN "evict" ELSE "own"

(* An acquire begins: the epoch is read and the pool reaped.  A session    *)
(* that streams begins one to switch modes, or because its display is gone,*)
(* and that display is the one superseded.  A pre-warm takes its seat's    *)
(* slot before that.                                                       *)
Begin(s, r) ==
  /\ pc[s] \in {"idle", "live"} /\ Clear(s) /\ begun < MaxAcquires /\ stage = "run"
  /\ pc[s] = "live" => ~r.park /\ (r.mode # req[s].mode \/ Named(lease[s]) = {})
  /\ req' = [req EXCEPT ![s] = r]
  /\ old' = [old EXCEPT ![s] = lease[s]]
  /\ lease' = [lease EXCEPT ![s] = None]
  /\ reused' = [reused EXCEPT ![s] = FALSE]
  /\ IF r.park
     THEN Go(s, "park") /\ UNCHANGED <<seen, pool, dying>>
     ELSE /\ Go(s, IF r.join THEN "join" ELSE ToSlot(r))
          /\ seen' = [seen EXCEPT ![s] = epoch]
          /\ Remove(s, Expired(epoch))
  /\ begun' = begun + 1
  /\ UNCHANGED <<host, generation, pushed, listed, creating, epoch, outgoing, now, stage, late, mine, doomed, slots>>

(* create_slot: free, or already this thread's, or wait for its holder.    *)
TakeSlot(s) ==
  LET r == req[s]
      next == IF pc[s] = "park" THEN "held" ELSE "probe"
  IN /\ Alive /\ pc[s] \in {"park", "slot"} /\ Clear(s)
     /\ \/ /\ ~Keyed(r) \/ slot_state(s, r) = "mine"
           /\ UNCHANGED <<creating, slots>>
        \/ /\ Keyed(r) /\ slot_state(s, r) = "free"
           /\ Take(s, r)
           /\ slots' = [slots EXCEPT ![s] = @ + 1]
     /\ Go(s, next)
     /\ UNCHANGED <<poolVars, hostVars, req, seen, lease, old, mine, doomed, reused>>

(* SEAT_CREATE_WAIT ran out: create beside the holder.                     *)
SlotTimeout(s) ==
  LET r == req[s]
      next == IF pc[s] = "park" THEN "held" ELSE "probe"
  IN /\ Alive /\ pc[s] \in {"park", "slot"} /\ Clear(s)
     /\ Keyed(r) /\ slot_state(s, r) = "wait"
     /\ late < MaxLate
     /\ late' = late + 1
     /\ Take(s, r)
     /\ slots' = [slots EXCEPT ![s] = @ + 1]
     /\ Go(s, next)
     /\ UNCHANGED <<host, poolVars, epoch, outgoing, now, stage, begun, req, seen, lease, old, mine, doomed, reused>>

(* park: what the seat holds decides whether it is warmed and at which     *)
(* mode (park_mode_for).  Then acquire begins: the pool is reaped.         *)
ParkHeld(s) ==
  LET r    == req[s]
      held == {i \in DOMAIN pool :
                 pool[i].req.backend = r.backend /\ pool[i].req.seat = r.seat}
      off  == {i \in held : pool[i].req.mode # r.mode}
  IN /\ Alive /\ pc[s] = "held"
     /\ IF \/ \E i \in held : \/ IsActive(pool[i])
                              \/ pool[i].req.hdr # r.hdr \/ pool[i].req.cursor # r.cursor
           \/ off # {} /\ ~r.resize
        THEN /\ Go(s, "idle")
             /\ DropSlots(s, slots[s])
             /\ UNCHANGED <<req, seen, pool, dying>>
        ELSE /\ Go(s, "slot")
             /\ req' = [req EXCEPT ![s].mode = IF off = {} THEN @ ELSE pool[First(off)].req.mode]
             /\ seen' = [seen EXCEPT ![s] = epoch]
             /\ Remove(s, Expired(epoch))
             /\ UNCHANGED <<creating, slots>>
     /\ UNCHANGED <<generation, pushed, listed, hostVars, lease, old, mine, doomed, reused>>

(* join_live: a hold on the oldest display admission may have named.  Its  *)
(* generation stands, so its owner's lease still releases it.              *)
JoinLive(s) ==
  LET I == join_targets(req[s], seen[s])
  IN /\ Alive /\ pc[s] = "join" /\ Clear(s)
     /\ IF I # {}
        THEN /\ pool' = [pool EXCEPT ![First(I)].life = acquire(@)]
             /\ lease' = [lease EXCEPT ![s] = pool[First(I)].gen]
             /\ reused' = [reused EXCEPT ![s] = TRUE]
             /\ Go(s, "joincast")
        ELSE /\ Go(s, ToSlot(req[s])) /\ UNCHANGED <<pool, lease, reused>>
     /\ UNCHANGED <<generation, pushed, listed, dying, creating, hostVars,
                    req, seen, old, mine, doomed, slots>>

(* The joiner's own cast starts, or its output is dropped and with it the  *)
(* hold, and it creates.                                                   *)
JoinCast(s, quit, policy) ==
  /\ Alive /\ pc[s] = "joincast"
  /\ \/ Go(s, "first") /\ UNCHANGED <<poolVars, lease, reused>>
     \/ /\ drop_lease(s, lease[s], quit, policy)
        /\ lease' = [lease EXCEPT ![s] = None]
        /\ reused' = [reused EXCEPT ![s] = FALSE]
        /\ Go(s, ToSlot(req[s]))
  /\ UNCHANGED <<creating, hostVars, req, seen, old, mine, doomed, slots>>

(* try_reuse picks a candidate under the lock; the rest runs outside it.   *)
Probe(s) ==
  LET r == req[s]
      I == {i \in DOMAIN pool : IsKept(pool[i]) /\ reuse_keys_match(pool[i], r, seen[s])}
  IN /\ Alive /\ pc[s] = "probe" /\ Clear(s)
     /\ IF I = {} THEN Go(s, ToRetire(r)) /\ UNCHANGED mine
        ELSE Go(s, "claim") /\ mine' = [mine EXCEPT ![s] = pool[First(I)].gen]
     /\ UNCHANGED <<poolVars, creating, hostVars, req, seen, lease, old, doomed, reused, slots>>

(* acquire returns: its own slot guard drops.                              *)
Return(s, where) == Go(s, where) /\ DropSlots(s, InnerSlots(s))

(* It returns an error: a mode switch keeps the display it had.            *)
M_fail_holds(s) ==
  /\ Go(s, IF old[s] # None THEN "live" ELSE IF req[s].park THEN "parked" ELSE "idle")
  /\ lease' = [lease EXCEPT ![s] = old[s]]
  /\ old' = [old EXCEPT ![s] = None]
  /\ UNCHANGED <<creating, slots>>
Fail(s) ==
  /\ Return(s, IF old[s] # None THEN "live" ELSE IF req[s].park THEN "parked" ELSE "idle")
  /\ lease' = [lease EXCEPT ![s] = old[s]]
  /\ old' = [old EXCEPT ![s] = None]

(* A display is in hand: its session's cast is next, if it has one.        *)
M_returned_holding(s) ==
  Go(s, IF req[s].park THEN "parked" ELSE "first") /\ UNCHANGED <<creating, slots>>
Returned(s) ==
  IF req[s].cast THEN Go(s, "attach") /\ UNCHANGED <<creating, slots>>
  ELSE Return(s, IF req[s].park THEN "parked" ELSE "first")

(* The candidate's liveness and resize are known; it is re-found under the *)
(* lock, by its generation and still kept, and claimed under a new one.    *)
Refound(s, g) == {i \in Named(g) : IsKept(pool[i])}

Claim(s, alive, resized) ==
  LET I == Refound(s, mine[s])
      i == First(I)
      e == pool[i]
      r == req[s]
  IN /\ Alive /\ pc[s] = "claim"
     /\ alive \/ r.spawned   \* only a nested compositor dies under its display
     /\ resized => alive /\ (r.resize \/ \A j \in Named(mine[s]) : pool[j].req.mode = r.mode)
     /\ IF I # {} /\ resized
        THEN /\ pool' = [pool EXCEPT ![i] = [e EXCEPT
                            !.life = acquire(@), !.gen = generation, !.parked = r.park,
                            !.req.mode = r.mode,
                            !.req.owner = IF @ = None THEN r.owner ELSE @]]
             /\ generation' = generation + 1
             /\ lease' = [lease EXCEPT ![s] = generation]
             /\ reused' = [reused EXCEPT ![s] = TRUE]
             /\ Returned(s)
             /\ UNCHANGED dying
        ELSE /\ IF I # {} /\ ~alive THEN Remove(s, I) ELSE UNCHANGED <<pool, dying>>
             /\ Go(s, ToRetire(r))
             /\ UNCHANGED <<generation, lease, reused, creating, slots>>
     /\ mine' = [mine EXCEPT ![s] = None]
     /\ UNCHANGED <<pushed, listed, hostVars, req, seen, old, doomed>>

(* attach_session_cast.  A cast that fails takes the output with it: the   *)
(* lease drops first, and mark_failed comes after.                         *)
Attach(s, quit, policy) ==
  /\ Alive /\ pc[s] = "attach"
  /\ \/ /\ Return(s, IF req[s].park THEN "parked" ELSE "first")
        /\ UNCHANGED <<poolVars, lease, mine>>
     \/ /\ drop_lease(s, lease[s], quit, policy)
        /\ mine' = [mine EXCEPT ![s] = lease[s]]
        /\ lease' = [lease EXCEPT ![s] = None]
        /\ Go(s, "badcast")
        /\ UNCHANGED <<creating, slots>>
  /\ UNCHANGED <<hostVars, req, seen, old, doomed, reused>>

(* A recast that failed falls through to the create; a fresh display's     *)
(* failed cast fails the acquire.                                          *)
BadCast(s) ==
  /\ Alive /\ pc[s] = "badcast" /\ Clear(s)
  /\ mark_failed(s, mine[s])
  /\ mine' = [mine EXCEPT ![s] = None]
  /\ IF reused[s]
     THEN /\ Go(s, ToRetire(req[s]))
          /\ reused' = [reused EXCEPT ![s] = FALSE]
          /\ UNCHANGED <<creating, slots, lease, old>>
     ELSE Fail(s) /\ UNCHANGED reused
  /\ UNCHANGED <<hostVars, req, seen, doomed>>

(* Nothing reusable: a sole-instance backend retires the kept displays it  *)
(* would collide with, a backend that cannot resize retires this client's  *)
(* other one, and a create at the cap evicts.  Each list is read under the *)
(* lock and released after it, one display at a time.                      *)
Doom(s, at, next, G) ==
  /\ Alive /\ pc[s] = at /\ Clear(s) /\ doomed[s] = {}
  /\ doomed' = [doomed EXCEPT ![s] = G]
  /\ Go(s, next)
  /\ UNCHANGED <<poolVars, creating, hostVars, req, seen, lease, old, mine, reused, slots>>

Retire(s) ==
  Doom(s, "retire", IF req[s].resize THEN "evict" ELSE "own", kept_to_retire(req[s]))
RetireOwn(s) == Doom(s, "own", "evict", own_at_other_mode(req[s]))
Evict(s) == Doom(s, "evict", "create", kept_to_evict(old[s]))

ReleaseDoomed(s) ==
  /\ Alive /\ pc[s] \in {"own", "evict", "create"} /\ Clear(s)
  /\ \E g \in doomed[s] :
       /\ release_kept(s, {g})
       /\ doomed' = [doomed EXCEPT ![s] = @ \ {g}]
  /\ UNCHANGED <<creating, hostVars, pc, req, seen, lease, old, mine, reused, slots>>

(* The generation is taken, and vd.create runs outside the lock: an output,*)
(* or the acquire fails.                                                   *)
Create(s) ==
  /\ Alive /\ pc[s] = "create" /\ Clear(s) /\ doomed[s] = {}
  /\ generation' = generation + 1
  /\ \/ /\ mine' = [mine EXCEPT ![s] = generation]
        /\ Go(s, "push")
        /\ UNCHANGED <<creating, slots, lease, old>>
     \/ Fail(s) /\ UNCHANGED mine
  /\ UNCHANGED <<pool, pushed, listed, dying, hostVars, req, seen, doomed, reused>>

(* pool_created files the display; its event goes out after the lock.      *)
Push(s) ==
  /\ Alive /\ pc[s] = "push"
  /\ pushed' = pushed + 1
  /\ pool' = [i \in DOMAIN pool \cup {pushed + 1} |->
                IF i = pushed + 1
                THEN [life |-> acquire(Idle), gen |-> mine[s], req |-> req[s],
                      epoch |-> seen[s], parked |-> req[s].park]
                ELSE pool[i]]
  /\ lease' = [lease EXCEPT ![s] = mine[s]]
  /\ mine' = [mine EXCEPT ![s] = None]
  /\ Go(s, "tell")
  /\ UNCHANGED <<generation, listed, dying, creating, hostVars, req, seen, old, doomed, reused, slots>>

TellCreated(s) ==
  /\ Alive /\ pc[s] = "tell"
  /\ listed' = listed + 1
  /\ Returned(s)
  /\ UNCHANGED <<pool, generation, pushed, dying, hostVars,
                 req, seen, lease, old, mine, doomed, reused>>

-----------------------------------------------------------------------------
(* The session around the acquire.                                         *)

(* The first frame arrives; or none does, and a display that was reused is *)
(* marked failed while its lease still stands; or something else fails.    *)
FirstFrame(s) ==
  /\ Alive /\ pc[s] = "first"
  /\ \/ Go(s, IF old[s] = None THEN "live" ELSE "swapdrop") /\ UNCHANGED poolVars
     \/ Go(s, "drop") /\ UNCHANGED poolVars
     \/ reused[s] /\ mark_failed(s, lease[s]) /\ Go(s, "drop")
  /\ UNCHANGED <<creating, hostVars, req, seen, lease, old, mine, doomed, reused, slots>>

DropFailed(s, quit, policy) ==
  /\ Alive /\ pc[s] = "drop" /\ Clear(s)
  /\ drop_lease(s, lease[s], quit, policy)
  /\ Fail(s)
  /\ UNCHANGED <<hostVars, req, seen, mine, doomed, reused>>

(* The session ends.                                                       *)
Leave(s, quit, policy) ==
  /\ Alive /\ pc[s] = "live" /\ Clear(s)
  /\ drop_lease(s, lease[s], quit, policy)
  /\ lease' = [lease EXCEPT ![s] = None]
  /\ Go(s, "idle")
  /\ UNCHANGED <<creating, hostVars, req, seen, old, mine, doomed, reused, slots>>

(* A pre-warm lets its display go, if it has one, and then its seat.       *)
Unpark(s, policy) ==
  /\ Alive /\ pc[s] = "parked" /\ Clear(s)
  /\ IF lease[s] = None THEN UNCHANGED poolVars ELSE drop_lease(s, lease[s], FALSE, policy)
  /\ lease' = [lease EXCEPT ![s] = None]
  /\ DropSlots(s, slots[s])
  /\ Go(s, "idle")
  /\ UNCHANGED <<hostVars, req, seen, old, mine, doomed, reused>>

(* A mode switch adopts the new pipeline: the old lease drops, and then    *)
(* the display it superseded is retired if it was kept.                    *)
SwapDrop(s, quit, policy) ==
  /\ Alive /\ pc[s] = "swapdrop" /\ Clear(s)
  /\ drop_lease(s, old[s], quit, policy)
  /\ mine' = [mine EXCEPT ![s] = old[s]]
  /\ old' = [old EXCEPT ![s] = None]
  /\ Go(s, "swapretire")
  /\ UNCHANGED <<creating, hostVars, req, seen, lease, doomed, reused, slots>>

SwapRetire(s) ==
  /\ Alive /\ pc[s] = "swapretire" /\ Clear(s)
  /\ release_kept(s, {mine[s]} \ {lease[s]})
  /\ mine' = [mine EXCEPT ![s] = None]
  /\ Go(s, "live")
  /\ UNCHANGED <<creating, hostVars, req, seen, lease, old, doomed, reused, slots>>

-----------------------------------------------------------------------------
(* The other threads.                                                      *)

(* Drained::finish: the displays taken out are dropped and reported.       *)
M_finish_untold(t) ==
  /\ Alive /\ ~Clear(t)
  /\ dying' = [dying EXCEPT ![t] = {}]
  /\ listed' = listed - (IF t = Watcher THEN 0 ELSE Cardinality(dying[t]))
  /\ UNCHANGED <<pool, generation, pushed, creating, hostVars, acqVars>>
Finish(t) ==
  /\ Alive /\ ~Clear(t)
  /\ dying' = [dying EXCEPT ![t] = {}]
  /\ listed' = listed - Cardinality(dying[t])
  /\ UNCHANGED <<pool, generation, pushed, creating, hostVars, acqVars>>

(* The linger thread's tick.                                               *)
Reap ==
  /\ Alive /\ Clear(Reaper) /\ Expired(epoch) # {}
  /\ Remove(Reaper, Expired(epoch))
  /\ UNCHANGED <<generation, pushed, listed, creating, hostVars, acqVars>>

(* A console releases one kept display, or all of them.                    *)
ForceRelease ==
  /\ Clear(Console) /\ stage = "run"
  /\ \E G \in {{pool[i].gen} : i \in DOMAIN pool} \cup {{pool[i].gen : i \in DOMAIN pool}} :
       release_kept(Console, G)
  /\ UNCHANGED <<creating, hostVars, acqVars>>

(* The seat switches to its desktop.                                       *)
ReleaseSeatGameMode ==
  /\ Clear(Console) /\ stage = "run"
  /\ Remove(Console, {i \in DOMAIN pool : /\ pool[i].req.spawned /\ pool[i].req.seat = None
                                          /\ IsKept(pool[i])})
  /\ UNCHANGED <<generation, pushed, listed, creating, hostVars, acqVars>>

(* The compositor is another instance: the epoch moves on, and then the    *)
(* displays of the backend that went are drained, whatever their state.    *)
Bump ==
  /\ Clear(Watcher) /\ outgoing = None /\ stage = "run" /\ epoch <= host.restarts
  /\ epoch' = epoch + 1
  /\ outgoing' \in {None} \cup {r.backend : r \in {q \in host.requests : ~q.spawned}}
  /\ UNCHANGED <<host, poolVars, creating, now, stage, late, begun, acqVars>>

invalidate_backend ==
  /\ Alive /\ outgoing # None
  /\ Remove(Watcher, {i \in DOMAIN pool : pool[i].req.backend = outgoing})
  /\ outgoing' = None
  /\ UNCHANGED <<host, generation, pushed, listed, creating, epoch, now, stage, late, begun, acqVars>>

(* The host stops: sessions are told, the whole pool is torn down, and the *)
(* process exits without waiting for anyone else.                          *)
Close ==
  /\ host.stops /\ stage = "run" /\ Clear(Console)
  /\ stage' = "closing"
  /\ UNCHANGED <<host, poolVars, creating, epoch, outgoing, now, late, begun, acqVars>>
teardown_all ==
  /\ stage = "closing"
  /\ stage' = "stopping"
  /\ Remove(Console, DOMAIN pool)
  /\ UNCHANGED <<host, generation, pushed, listed, creating, epoch, outgoing, now, late, begun, acqVars>>
Exit ==
  /\ stage = "stopping" /\ Clear(Console)
  /\ stage' = "exited"
  /\ UNCHANGED <<host, poolVars, creating, epoch, outgoing, now, late, begun, acqVars>>

(* Time passes; past the bound, only while a window is still to end.       *)
Tick ==
  /\ Alive
  /\ now < MaxNow \/ \E i \in DOMAIN pool : pool[i].life.until > now
  /\ now' = now + 1
  /\ UNCHANGED <<host, poolVars, creating, epoch, outgoing, stage, late, begun, acqVars>>

(* What an acquire or a session does by itself, whatever it was dealt.     *)
Works(s) ==
  \/ TakeSlot(s) \/ ParkHeld(s) \/ JoinLive(s) \/ Probe(s) \/ BadCast(s)
  \/ \E alive, resized \in BOOLEAN : Claim(s, alive, resized)
  \/ Retire(s) \/ RetireOwn(s) \/ Evict(s) \/ ReleaseDoomed(s)
  \/ Create(s) \/ Push(s) \/ TellCreated(s)
  \/ FirstFrame(s) \/ SwapRetire(s)
  \/ \E quit \in BOOLEAN, policy \in host.policies :
       \/ JoinCast(s, quit, policy) \/ Attach(s, quit, policy)
       \/ DropFailed(s, quit, policy) \/ SwapDrop(s, quit, policy)
  \/ \E policy \in host.policies : Unpark(s, policy)

Acts(s) ==
  \/ \E quit \in BOOLEAN, policy \in host.policies : Leave(s, quit, policy)
  \/ SlotTimeout(s)

Next ==
  \/ \E s \in Sessions, r \in host.requests : Begin(s, r)
  \/ \E s \in Sessions : Works(s) \/ Acts(s)
  \/ \E t \in Threads : Finish(t)
  \/ Reap \/ ForceRelease \/ ReleaseSeatGameMode
  \/ Bump \/ invalidate_backend
  \/ Close \/ teardown_all \/ Exit
  \/ Tick

Spec == Init /\ [][Next]_vars

(* A thread that can go on does: every wait but the slot's is bounded in   *)
(* the code.  No client has to come or leave, and no console to ask.       *)
FairSpec ==
  /\ Spec
  /\ \A s \in Sessions : WF_vars(Works(s))
  /\ \A t \in Threads : WF_vars(Finish(t))
  /\ WF_vars(Reap) /\ WF_vars(Tick)

-----------------------------------------------------------------------------
(* What the registry promises.                                             *)

Holds(g) == {<<s, "lease">> : s \in {q \in Sessions : lease[q] = g}}
            \cup {<<s, "old">> : s \in {q \in Sessions : old[q] = g}}

(* A generation names one display, an active display counts exactly the    *)
(* leases that sessions still hold on it, through joins, claims under a new*)
(* generation, mode switches and failures, and nobody holds a kept one: it *)
(* is neither leaked nor taken from under a session.                       *)
LeaseAccounting ==
  \A i \in DOMAIN pool :
    /\ Named(pool[i].gen) = {i}
    /\ pool[i].gen < generation
    /\ pool[i].life.refs = Cardinality(Holds(pool[i].gen))
    /\ IsActive(pool[i]) <=> Holds(pool[i].gen) # {}

(* No thread takes out of the pool a display another session streams: not  *)
(* a reap, an eviction, a console's release, a mode switch, nor a failed   *)
(* frame of a session that shares it.  A compositor that went and a host   *)
(* that stops are the exceptions; a failed cast is SharedCastSurvives'.    *)
TakesHeld(t) ==
  \E s \in Sessions \ {t} :
    \E i \in DOMAIN pool \ DOMAIN pool' :
      dying'[t] # dying[t] /\ pool[i].gen \in {lease[s], old[s]}
CastFailed(t) == t \in Sessions /\ pc[t] = "badcast"
HeldDisplaySurvives ==
  [][\A t \in Threads \ {Watcher} :
       stage' = stage /\ ~CastFailed(t) => ~TakesHeld(t)]_vars

(* A display is claimed only while it is kept, by an acquire all of whose  *)
(* keys it matches and whose client may have it, although the candidate is *)
(* picked under one hold of the lock and claimed under another, with a     *)
(* probe of the compositor between.                                        *)
ClaimKeyed ==
  [][\A i \in DOMAIN pool \cap DOMAIN pool' :
       pool'[i].gen # pool[i].gen =>
         \E s \in Sessions :
           /\ lease'[s] = pool'[i].gen
           /\ IsKept(pool[i])
           /\ pool[i].req.backend = req[s].backend /\ pool[i].req.seat = req[s].seat
           /\ pool[i].req.hdr = req[s].hdr /\ pool[i].req.cursor = req[s].cursor
           /\ pool[i].req.spawned \/ pool[i].epoch = seen[s]
           /\ pool[i].req.spawned \/ pool[i].req.owner \in {None, req[s].owner}]_vars

(* While no wait for a slot times out, one thread at a time is between its *)
(* reuse probe and the end of its create on a seat.                        *)
Creating(s) == pc[s] \in {"probe", "claim", "attach", "badcast", "retire", "own", "evict",
                          "create", "push", "tell"}
OneCreatePerSeat ==
  late = 0 =>
    \A s, t \in Sessions :
      Creating(s) /\ Creating(t) /\ Keyed(req[s]) /\ slot_key(req[s]) = slot_key(req[t]) => s = t

(* The console's count of displays is those that exist: each is reported   *)
(* created once and released once, on every path that ends one.            *)
EventsBalanced ==
  LET told    == pushed - Cardinality({s \in Sessions : pc[s] = "tell"})
      dropped == pushed - Cardinality(DOMAIN pool)
                 - Cardinality(UNION {dying[t] : t \in Threads})
  IN listed = told - dropped

(* While no wait times out, a create slot is given back whatever the create*)
(* came to, and the next acquire on that seat proceeds.                    *)
SlotsFreed == \A s \in Sessions : slots[s] > 0 ~> slots[s] = 0 \/ late > 0
AcquireEnds == \A s \in Sessions : pc[s] = "slot" ~> pc[s] # "slot" \/ late > 0

(* Every display that lingers is taken back or taken down in the end.      *)
LingerEnds ==
  \A i \in 1..MaxAcquires :
    (i \in DOMAIN pool /\ pool[i].life.kind = "lingering")
      ~> ~(i \in DOMAIN pool /\ pool[i].life.kind = "lingering")

(* The rest are what the source says of itself, and the code breaks.       *)

(* registry.rs, mark_failed: "Another session still streams it (JOIN), so  *)
(* it is not dead. The lease drop decrefs."                                *)
SharedCastSurvives == [][\A t \in Sessions : CastFailed(t) => ~TakesHeld(t)]_vars

(* registry.rs, on retiring a kept display before a create: "Entry's Drop  *)
(* kills and waits, so the socket name is free by the time create runs".   *)
(* No run asks it: the reaper drops without the seat's slot and breaks it. *)
CreateAfterDrop ==
  \A s \in Sessions :
    pc[s] = "push" /\ req[s].spawned =>
      \A d \in UNION {dying[t] : t \in Threads} :
        ~(d[2].spawned /\ d[2].backend = req[s].backend /\ d[2].seat = req[s].seat)

(* registry.rs, teardown_all: "Host stopping: every entry, active ones     *)
(* included. The process exits without running a destructor, so a restore  *)
(* or output left here stays on the box".                                  *)
NothingLeftBehind ==
  stage = "exited" =>
    /\ pool = <<>>
    /\ \A t \in Threads : Clear(t)
    /\ \A s \in Sessions : pc[s] # "push"
=============================================================================
