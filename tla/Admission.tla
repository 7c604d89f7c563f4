------------------------------- MODULE Admission -------------------------------
(***************************************************************************)
(* How connects get onto the host: a session slot, the mode-conflict       *)
(* admission of crates/host/pf-vdisplay/src/vdisplay/admission.rs, the     *)
(* display, and the teardown that gives all three back.  The handshake is  *)
(* native/handshake.rs (admit_mode), the teardown native/scope.rs, the     *)
(* displays are registry.rs reduced to who holds and who keeps one.        *)
(*                                                                         *)
(* A member of Sessions is one connection.  A display is named by the      *)
(* session that created it, and made at the mode and with the baked keys   *)
(* (HDR, hardware cursor) that session asked for; what a session asks for  *)
(* is an input of the step that opens its display.  The host is a desktop: *)
(* a kept display cannot be moved to another mode.                         *)
(***************************************************************************)
EXTENDS Integers, FiniteSets

CONSTANTS
  Sessions,
  Clients,        \* the identities that connect
  Anonymous,      \* the client with no certificate
  None,
  Conflicts,      \* the mode_conflict policies a client may be given
  Keeps,          \* what becomes of a display its last session left
  Modes,          \* the modes a session may ask for
  Bakes,          \* the HDR and cursor settings it may negotiate
  max_concurrent, \* session slots
  max_displays,
  MaxWedges       \* bound on stream threads that stop answering

ASSUME AdmissionAssumption ==
  /\ Conflicts \subseteq {"separate", "join", "steal", "reject"}
  /\ Keeps \subseteq {"none", "lingering", "pinned"}
  /\ max_concurrent \in Nat \ {0} /\ max_displays \in Nat \ {0}
  /\ MaxWedges \in Nat
  /\ None \notin Sessions

VARIABLES
  conflict,  \* per client: effective_conflict
  client,    \* who a connection is from
  pc,
  row,       \* the id of its row in the table, 0 when it has none
  next,      \* NEXT_ID: rows lie in the table in the order of their ids
  display,   \* its row has a display (Reservation::register)
  stop,      \* its stop flag
  waiting,   \* the sessions it stops and waits for
  joins,     \* admission named a live display for it to share
  on,        \* the display it holds a lease on
  life,      \* what a display is: Entry.life
  owner,     \* the device a display is of
  made,      \* what it was created at
  stuck,     \* the stream threads in a call that does not return
  crowded    \* history: two connects were in bring-up at once, or one that
             \* nobody asked for a budget

connects == <<conflict, client>>
table == <<row, next, display>>
displays == <<on, life, owner, made>>
vars == <<connects, pc, table, stop, waiting, joins, displays, stuck, crowded>>

PCs == {"away", "queued", "slotted", "waitown", "admit", "budget", "refuse", "steal",
        "waitsteal", "bringup", "live", "streaming", "ended", "leave", "gone"}
Slotted == PCs \ {"away", "queued", "gone"}
(* Where a session has a row: from its admission to its guard's drop.      *)
Listed == {"budget", "refuse", "steal", "waitsteal", "bringup", "live", "streaming", "ended"}
(* Past the decision, whichever it was, and not refused.                   *)
Admitted == {"bringup", "live", "streaming", "ended"}

Asks == [mode : Modes, baked : Bakes]

Rows == {s \in Sessions : row[s] # 0}
same_client(c, d) == c = d /\ c # Anonymous
(* Only the sessions that stream already.                                  *)
M_others_streaming(s) == {t \in Rows : display[t] /\ ~same_client(client[t], client[s])}
Others(s) == {t \in Rows : ~same_client(client[t], client[s])}
all_gone(S) == S \cap Rows = {}

Displays == {d \in Sessions : life[d] # "none"}
Holders(d) == {s \in Sessions : on[s] = d}

M_count_live(c) == Cardinality({d \in Displays : life[d] = "active"})
(* The displays admission counts for a client: the lingering ones are      *)
(* spare, and its own pinned one its create is to reuse or retire.         *)
budget_count(c) ==
  Cardinality({d \in Displays : \/ life[d] = "active"
                                \/ life[d] = "pinned" /\ ~same_client(owner[d], c)})

Init ==
  /\ conflict \in [Clients -> Conflicts]
  /\ client \in [Sessions -> Clients]
  /\ pc = [s \in Sessions |-> "away"]
  /\ row = [s \in Sessions |-> 0]
  /\ next = 1
  /\ display = [s \in Sessions |-> FALSE]
  /\ stop = [s \in Sessions |-> FALSE]
  /\ waiting = [s \in Sessions |-> {}]
  /\ joins = [s \in Sessions |-> FALSE]
  /\ on = [s \in Sessions |-> None]
  /\ life = [s \in Sessions |-> "none"]
  /\ owner = [s \in Sessions |-> None]
  /\ made = [s \in Sessions |-> None]
  /\ stuck = {}
  /\ crowded = FALSE

Go(s, p) == pc' = [pc EXCEPT ![s] = p]
Without(f, D) == [d \in Sessions |-> IF d \in D THEN None ELSE f[d]]
Unlist(s) == row' = [row EXCEPT ![s] = 0] /\ display' = [display EXCEPT ![s] = FALSE]
Raise(S) == stop' = [t \in Sessions |-> stop[t] \/ t \in S]

(***************************************************************************)
(* A slot, waited for only while the client is there.                      *)
(***************************************************************************)
Knock(s) ==
  /\ pc[s] = "away" /\ Go(s, "queued")
  /\ UNCHANGED <<connects, table, stop, waiting, joins, displays, stuck, crowded>>

TakeSlot(s) ==
  /\ pc[s] = "queued"
  /\ Cardinality({t \in Sessions : pc[t] \in Slotted}) < max_concurrent
  /\ Go(s, "slotted")
  /\ UNCHANGED <<connects, table, stop, waiting, joins, displays, stuck, crowded>>

LeaveQueue(s) ==
  /\ pc[s] = "queued" /\ Go(s, "gone")
  /\ UNCHANGED <<connects, table, stop, waiting, joins, displays, stuck, crowded>>

(***************************************************************************)
(* admit_mode.  The client's own earlier sessions are stopped and waited   *)
(* for first; a reconnect that names one to resume may name an anonymous   *)
(* client's too.                                                           *)
(***************************************************************************)
OwnZombies(s, resumed) ==
  {t \in Rows : same_client(client[t], client[s])} \cup (resumed \cap {t \in Rows : display[t]})

Preempt(s) ==
  \E resumed \in SUBSET {t \in Sessions : client[t] = client[s]} :
    LET zombies == OwnZombies(s, resumed)
    IN /\ Cardinality(resumed) <= 1
       /\ pc[s] = "slotted"
       /\ waiting' = [waiting EXCEPT ![s] = zombies]
       /\ Raise(zombies)
       /\ Go(s, IF zombies = {} THEN "admit" ELSE "waitown")
       /\ UNCHANGED <<connects, table, joins, displays, stuck, crowded>>

AfterWait(s) == IF pc[s] = "waitown" THEN "admit" ELSE "bringup"

(* wait_released: every stopped session has left the table, or 1.5 s went. *)
Released(s) ==
  /\ pc[s] \in {"waitown", "waitsteal"} /\ all_gone(waiting[s])
  /\ Go(s, AfterWait(s)) /\ waiting' = [waiting EXCEPT ![s] = {}]
  /\ UNCHANGED <<connects, table, stop, joins, displays, stuck, crowded>>

TimedOut(s) ==
  /\ pc[s] \in {"waitown", "waitsteal"} /\ ~all_gone(waiting[s])
  /\ Go(s, AfterWait(s)) /\ waiting' = [waiting EXCEPT ![s] = {}]
  /\ UNCHANGED <<connects, table, stop, joins, displays, stuck, crowded>>

(* admit_under: the decision and the row, under one hold of the table.     *)
decide(s) ==
  LET others == Others(s)
      policy == conflict[client[s]]
  IN IF others = {} THEN "separate"
     ELSE IF policy = "join" /\ \A t \in others : ~display[t] THEN "separate"
     ELSE policy

(* A row for a connect still in bring-up, which later connects decide      *)
(* against.                                                                *)
reserve(s) == row' = [row EXCEPT ![s] = next] /\ next' = next + 1

DecisionPC == [separate |-> "budget", join |-> "bringup", steal |-> "steal", reject |-> "refuse"]

Admit(s) ==
  /\ pc[s] = "admit"
  /\ Go(s, DecisionPC[decide(s)])
  /\ waiting' = [waiting EXCEPT ![s] = IF decide(s) = "steal" THEN Others(s) ELSE {}]
  /\ joins' = [joins EXCEPT ![s] = decide(s) = "join"]
  /\ reserve(s)
  /\ crowded' = (crowded \/ decide(s) \in {"join", "steal"})
  /\ UNCHANGED <<connects, display, stop, displays, stuck>>

(* admit's max_displays, read once the table is unlocked.                  *)
Fits(s) == budget_count(client[s]) < max_displays

Budget(s) ==
  /\ pc[s] = "budget"
  /\ Go(s, IF Fits(s) THEN "bringup" ELSE "refuse")
  /\ crowded' = (crowded \/ \E t \in Sessions \ {s} : pc[t] \in {"bringup", "live"})
  /\ UNCHANGED <<connects, table, stop, waiting, joins, displays, stuck>>

Refuse(s) ==
  /\ pc[s] = "refuse" /\ Unlist(s) /\ Raise({s}) /\ Go(s, "leave")
  /\ UNCHANGED <<connects, next, waiting, joins, displays, stuck, crowded>>

RaiseSteal(s) ==
  /\ pc[s] = "steal" /\ Raise(waiting[s]) /\ Go(s, "waitsteal")
  /\ UNCHANGED <<connects, table, waiting, joins, displays, stuck, crowded>>

(* The handshake fails, times out, or its client is gone: its reservation  *)
(* goes with it.                                                           *)
GiveUp(s) ==
  /\ pc[s] \in Slotted \ {"live", "streaming", "ended", "leave"}
  /\ Unlist(s) /\ Raise({s}) /\ Go(s, "leave")
  /\ waiting' = [waiting EXCEPT ![s] = {}] /\ joins' = [joins EXCEPT ![s] = FALSE]
  /\ UNCHANGED <<connects, next, displays, stuck, crowded>>

(***************************************************************************)
(* The Ready came: the row is registered, then the stream thread opens the *)
(* display.                                                                *)
(***************************************************************************)
Register(s) ==
  /\ pc[s] = "bringup" /\ Go(s, "live")
  /\ display' = [display EXCEPT ![s] = TRUE]
  /\ UNCHANGED <<connects, row, next, stop, waiting, joins, displays, stuck, crowded>>

Hold(s, d) ==
  /\ on' = [on EXCEPT ![s] = d] /\ joins' = [joins EXCEPT ![s] = FALSE]
  /\ Go(s, "streaming")

(* A live display to share, at the mode the session was let in at; one of  *)
(* another HDR, or a cast that does not start, falls through.              *)
Join(s) ==
  /\ pc[s] = "live" /\ joins[s]
  /\ \E d \in Displays : life[d] = "active" /\ Hold(s, d)
  /\ UNCHANGED <<connects, table, stop, waiting, life, owner, made, stuck, crowded>>

(* The kept displays a session that asks for a may take: its own and those *)
(* of no device, at that mode and with those baked keys.                   *)
reuse_keys_match(d, a) == made[d] = a
Kept(s, a) == {d \in Displays : /\ life[d] # "active"
                                /\ owner[d] \in {Anonymous, client[s]}
                                /\ reuse_keys_match(d, a)}

Reuse(s) ==
  /\ pc[s] = "live"
  /\ \E a \in Asks : \E d \in Kept(s, a) :
       /\ Hold(s, d)
       /\ life' = [life EXCEPT ![d] = "active"]
       /\ owner' = [owner EXCEPT ![d] = client[s]]
  /\ UNCHANGED <<connects, table, stop, waiting, made, stuck, crowded>>

(* One display per client, where a kept one cannot move to the new mode:   *)
(* its own at other modes go.  One at the same mode that was baked         *)
(* otherwise stays.                                                        *)
retire_own_kept(s, a) ==
  {d \in Displays : /\ life[d] # "active" /\ same_client(owner[d], client[s])
                    /\ made[d].mode # a.mode}

(* What a create may evict to stay within the cap; it never refuses.       *)
kept_to_evict(D) ==
  IF Cardinality(D) < max_displays THEN {} ELSE {d \in D : life[d] = "lingering"}

Create(s) ==
  /\ pc[s] = "live" /\ Hold(s, s)
  /\ \E a \in Asks :
       LET retired == retire_own_kept(s, a)
           evictable == kept_to_evict(Displays \ retired)
       IN /\ Kept(s, a) = {}
          /\ \E gone \in SUBSET evictable :
               /\ Cardinality(gone) = IF evictable = {} THEN 0 ELSE 1
               /\ life' = [d \in Sessions |-> IF d \in retired \cup gone THEN "none"
                                              ELSE IF d = s THEN "active" ELSE life[d]]
               /\ owner' = [Without(owner, retired \cup gone) EXCEPT ![s] = client[s]]
               /\ made' = [Without(made, retired \cup gone) EXCEPT ![s] = a]
  /\ UNCHANGED <<connects, table, stop, waiting, stuck, crowded>>

(* Bring-up fails after the row was registered.                            *)
OpenFails(s) ==
  /\ pc[s] = "live" /\ Raise({s}) /\ Go(s, "ended")
  /\ UNCHANGED <<connects, table, waiting, joins, displays, stuck, crowded>>

(***************************************************************************)
(* The end.  The client's link closes, or the stream thread returns; the   *)
(* lease goes with the thread, the row and then the slot with the scope.   *)
(***************************************************************************)
LinkClosed(s) ==
  /\ pc[s] \in Slotted /\ ~stop[s] /\ Raise({s})
  /\ UNCHANGED <<connects, pc, table, waiting, joins, displays, stuck, crowded>>

(* The lease of one session takes the display from those that share it.    *)
M_lease_last(s) ==
  /\ on' = [on EXCEPT ![s] = None]
  /\ \E k \in Keeps : life' = [life EXCEPT ![on[s]] = k]
  /\ UNCHANGED <<owner, made>>
DropLease(s) ==
  /\ on' = [on EXCEPT ![s] = None]
  /\ \E k \in IF Holders(on[s]) = {s} THEN Keeps ELSE {"active"} :
       life' = [life EXCEPT ![on[s]] = k]
  /\ UNCHANGED <<owner, made>>

StreamEnds(s) ==
  /\ pc[s] = "streaming" /\ s \notin stuck
  /\ DropLease(s) /\ Raise({s}) /\ Go(s, "ended")
  /\ UNCHANGED <<connects, table, waiting, joins, stuck, crowded>>

Wedge(s) ==
  /\ pc[s] = "streaming" /\ s \notin stuck /\ Cardinality(stuck) < MaxWedges
  /\ stuck' = stuck \cup {s}
  /\ UNCHANGED <<connects, pc, table, stop, waiting, joins, displays, crowded>>

(* stop_overdue: the stream thread has not returned, and is left behind.   *)
Abandon(s) ==
  /\ pc[s] = "streaming" /\ s \in stuck /\ stop[s] /\ Go(s, "ended")
  /\ UNCHANGED <<connects, table, stop, waiting, joins, displays, stuck, crowded>>

(* An abandoned thread returns after all.                                  *)
Returns(s) ==
  /\ s \in stuck /\ pc[s] # "streaming"
  /\ stuck' = stuck \ {s} /\ DropLease(s)
  /\ UNCHANGED <<connects, pc, table, stop, waiting, joins, crowded>>

(* The row goes as soon as the session is told to stop.                    *)
M_guard_first(s) ==
  /\ pc[s] \in {"streaming", "ended"} /\ row[s] # 0 /\ stop[s] /\ Unlist(s)
  /\ Go(s, IF pc[s] = "ended" THEN "leave" ELSE pc[s])
  /\ UNCHANGED <<connects, next, stop, waiting, joins, displays, stuck, crowded>>
DropGuard(s) ==
  /\ pc[s] = "ended" /\ Unlist(s) /\ Go(s, "leave")
  /\ UNCHANGED <<connects, next, stop, waiting, joins, displays, stuck, crowded>>

FreeSlot(s) ==
  /\ pc[s] = "leave" /\ Go(s, "gone")
  /\ UNCHANGED <<connects, table, stop, waiting, joins, displays, stuck, crowded>>

(* A linger window ends, or the console releases a kept display.           *)
Forget(d) ==
  /\ life[d] \in {"lingering", "pinned"}
  /\ life' = [life EXCEPT ![d] = "none"]
  /\ owner' = Without(owner, {d}) /\ made' = Without(made, {d})
  /\ UNCHANGED <<connects, pc, table, stop, waiting, joins, on, stuck, crowded>>

Step(s) ==
  \/ Knock(s) \/ TakeSlot(s) \/ LeaveQueue(s)
  \/ Preempt(s) \/ Released(s) \/ TimedOut(s) \/ Admit(s) \/ Budget(s) \/ Refuse(s)
  \/ RaiseSteal(s) \/ GiveUp(s)
  \/ Register(s) \/ Join(s) \/ Reuse(s) \/ Create(s) \/ OpenFails(s)
  \/ LinkClosed(s) \/ StreamEnds(s) \/ Wedge(s) \/ Abandon(s) \/ Returns(s)
  \/ DropGuard(s) \/ FreeSlot(s)

Next == \E s \in Sessions : Step(s) \/ Forget(s)

Spec == Init /\ [][Next]_vars

-----------------------------------------------------------------------------
Shapes ==
  /\ conflict \in [Clients -> Conflicts] /\ client \in [Sessions -> Clients]
  /\ pc \in [Sessions -> PCs]
  /\ row \in [Sessions -> Nat] /\ next \in Nat
  /\ display \in [Sessions -> BOOLEAN]
  /\ stop \in [Sessions -> BOOLEAN]
  /\ waiting \in [Sessions -> SUBSET Sessions]
  /\ joins \in [Sessions -> BOOLEAN]
  /\ on \in [Sessions -> Sessions \cup {None}]
  /\ life \in [Sessions -> {"none", "active", "lingering", "pinned"}]
  /\ owner \in [Sessions -> Clients \cup {None}]
  /\ made \in [Sessions -> Asks \cup {None}]
  /\ stuck \subseteq Sessions
  /\ crowded \in BOOLEAN
OneRowEach ==
  /\ \A s \in Sessions : s \in Rows <=> pc[s] \in Listed
  /\ \A s, t \in Rows : row[s] < next /\ (row[s] = row[t] => s = t)
ActiveAreHeld == \A d \in Sessions : life[d] = "active" <=> Holders(d) # {}

(* Every variable has the shape the code gives it; a session has one row   *)
(* from its admission to its guard's drop, under an id of its own; and a   *)
(* display is active exactly while a session holds it.                     *)
TypeOK == Shapes /\ OneRowEach /\ ActiveAreHeld

(* Two clients that connect at once conflict like two that do not: once a  *)
(* client whose policy is steal is past its admission, every older session *)
(* of another client has been told to stop, one still in bring-up too, and *)
(* a client whose policy is reject never got past one.                     *)
(* admission.rs:133 "so a second connect inside this one's bring-up        *)
(* conflicts with it".                                                     *)
StealIsExclusive ==
  \A s, t \in Rows :
    /\ row[s] < row[t] /\ ~same_client(client[s], client[t])
    /\ pc[t] \in Admitted
    => /\ conflict[client[t]] = "steal" => stop[s]
       /\ conflict[client[t]] # "reject"

(* What all_gone answers is about displays: a session that holds one is in *)
(* the table, so a steal or a reconnect that waited until its victims left *)
(* finds their displays let go.  The exception is a stream thread the host *)
(* gave up on, which keeps its lease.                                      *)
(* admission.rs:257 "its display lease is released by then".               *)
HoldersAreListed ==
  \A s \in Sessions : on[s] # None => s \in Rows \/ s \in stuck

(* What a client keeps is counted once: no pinned display of a client      *)
(* beside another display of that client.                                  *)
OneOfEach(S) ==
  \A d, e \in S : life[d] = "pinned" /\ owner[d] # Anonymous /\ d # e => owner[e] # owner[d]

(* Connects that come one at a time stay within max_displays, if a client  *)
(* is charged for its live displays or, with none, for one of those pinned *)
(* for it: nobody else's place is taken, whoever keeps a display and       *)
(* whoever takes one back.                                                 *)
(* admission.rs:172 "Pinned ones count with nobody live, since nothing     *)
(* evicts them, except the requester's own".                               *)
BudgetPerClient ==
  ~crowded =>
    \A S \in SUBSET {d \in Displays : life[d] # "lingering"} :
      OneOfEach(S) => Cardinality(S) <= max_displays

(* The same with every display charged, as registry/linux_tests.rs:513     *)
(* words it: "a client alone on the host is refused rather than created    *)
(* past max_displays".  The code breaks it: a client whose pinned display  *)
(* was baked otherwise is let in, and its create leaves that one.          *)
BudgetKeptAlone ==
  ~crowded => Cardinality({d \in Displays : life[d] # "lingering"}) <= max_displays

(* admission.rs:153: a display the host cannot afford is declined, never   *)
(* admitted.  Two connects in bring-up at once are each admitted against a *)
(* pool that shows neither, so no run asks it.                             *)
BudgetKept == Cardinality({d \in Displays : life[d] # "lingering"}) <= max_displays
=============================================================================
