-------------------------------- MODULE Approval --------------------------------
(***************************************************************************)
(* Delegated approval of a device that is not paired: the queue of knocks, *)
(* the connections parked on it, and the console that approves, denies,    *)
(* pairs by PIN and unpairs.                                               *)
(* crates/host/punktfunk-host/src/native_pairing/approval.rs, with its     *)
(* facade native_pairing.rs, its store native_pairing/store.rs and the     *)
(* connection's side native.rs (wait_for_approval).                        *)
(*                                                                         *)
(* One action is one hold of the queue's lock or of the store's: a wait    *)
(* reads the two in turn and holds neither across them, and an approve     *)
(* pins in one and clears in the other.  `pc` is where a connection stands *)
(* in wait_for_decision.                                                   *)
(***************************************************************************)
EXTENDS Naturals, FiniteSets

CONSTANTS
  Conns,       \* connections: each knocks at most once
  Operators,   \* requests a console has in flight
  Devices,     \* client fingerprints
  Addresses,   \* where a knock may come from
  Strict,      \* the addresses whose knock a bare approve refuses (Wan)
  None,
  PENDING_CAP, MAX_PENDING_PER_IP,
  MaxActs,     \* bound on what operators begin
  MaxLapses    \* bound on entries outliving PENDING_TTL, and on lapsed records

ASSUME ApprovalAssumption ==
  /\ Strict \subseteq Addresses
  /\ PENDING_CAP \in Nat \ {0} /\ MAX_PENDING_PER_IP \in Nat \ {0}
  /\ MaxActs \in Nat /\ MaxLapses \in Nat
  /\ None \notin Devices \cup Conns \cup Nat
  /\ IsFiniteSet(Conns) /\ IsFiniteSet(Operators)

VARIABLES
  items,     \* PendingState.items
  admitted,  \* device -> the knock_seq its last pairing admitted
  record,    \* device -> what the trust store holds of it
  pc, dev, knock_seq,
  woken,     \* the armed Notify of a connection has fired
  answer,    \* what wait_for_decision returned
  op,        \* what an operator's request is doing
  acts, lapses,
  newest,    \* history: the last connection to knock, while it waits
  told,      \* history: per device, whether its last knock was told it is
             \* "denied"; or "cut" once that could be rightly so, its record
             \* gone, lapsed, or pinned before the knock
  unheard    \* history: devices whose entry was evicted, or whose record was
             \* edited, and no Notify has fired since

queueVars == <<items, admitted>>
connVars  == <<pc, dev, knock_seq, answer>>
opVars    == <<op, acts>>
vars == <<queueVars, record, connVars, woken, opVars, lapses, newest, told, unheard>>

PCs == {"away", "park", "seq", "paired", "admitted", "contains",
        "again", "asleep", "unpark", "done"}
(* The Notify is enabled before anything is read.                          *)
M_armed_last == {"asleep"}
Armed == {"seq", "paired", "admitted", "contains", "again", "asleep"}
Records == {"none", "live", "expired"}

(* `at` is requested_at: how many knocks there were before the entry's last.*)
Item == [id : Nat \ {0}, dev : Devices, ip : Addresses, knock_seq : Nat,
         parked : BOOLEAN, stale : BOOLEAN, at : Nat]
Jobs == {"idle", "named", "add", "clear"}

Of(q, d)   == {p \in q : p.dev = d}
Entries(d) == Of(items, d)

(* A device has one entry at most.                                         *)
TypeOK ==
  /\ items \subseteq Item /\ IsFiniteSet(items) /\ Cardinality(items) <= PENDING_CAP
  /\ \A p, q \in items : p.dev = q.dev => p = q
  /\ admitted \in [Devices -> Nat \cup {None}]
  /\ record \in [Devices -> Records]
  /\ pc \in [Conns -> PCs] /\ dev \in [Conns -> Devices \cup {None}]
  /\ knock_seq \in [Conns -> Nat] /\ woken \in [Conns -> BOOLEAN]
  /\ answer \in [Conns -> {"none", "Approved", "Denied", "Superseded", "ended"}]
  /\ op \in [Operators -> [at : Jobs, id : Nat, dev : Devices \cup {None}]]
  /\ acts \in 0..MaxActs /\ lapses \in 0..MaxLapses
  /\ newest \in [Devices -> Conns \cup {None}]
  /\ told \in [Devices -> {"none", "denied", "cut"}] /\ unheard \subseteq Devices

Resting == [at |-> "idle", id |-> 0, dev |-> None]

Init ==
  /\ items = {}
  /\ admitted = [d \in Devices |-> None]
  /\ record = [d \in Devices |-> "none"]
  /\ pc = [c \in Conns |-> "away"] /\ dev = [c \in Conns |-> None]
  /\ knock_seq = [c \in Conns |-> 0] /\ woken = [c \in Conns |-> FALSE]
  /\ answer = [c \in Conns |-> "none"]
  /\ op = [o \in Operators |-> Resting] /\ acts = 0 /\ lapses = 0
  /\ newest = [d \in Devices |-> None] /\ told = [d \in Devices |-> "none"] /\ unheard = {}

(* TrustStore::effective: an expired record is listed and not authorized.  *)
effective(d) == record[d] = "live"

(* Notify::notify_waiters: every wait that is armed wakes, and no other.   *)
notify_waiters ==
  /\ woken' = [c \in Conns |-> woken[c] \/ pc[c] \in Armed]
  /\ unheard' = {}

(* expire_pending, of the entries past their TTL.                          *)
Fresh(q) == {p \in q : ~p.stale}

-----------------------------------------------------------------------------
(* The queue: note_pending.                                                *)

(* evict_index: of the entries from `ips`, the one longest inactive with   *)
(* nobody parked, else the one longest inactive.                           *)
evict_index(q, ips) ==
  LET from   == {p \in q : p.ip \in ips}
      loose  == {p \in from : ~p.parked}
      choice == IF loose # {} THEN loose ELSE from
  IN CHOOSE p \in choice : \A e \in choice : p.at <= e.at

M_cap_late(q, ips, cap) == Cardinality({p \in q : p.ip \in ips}) > cap
Full(q, ips, cap) == Cardinality({p \in q : p.ip \in ips}) >= cap
Evicted(q, ips, cap) == IF Full(q, ips, cap) THEN q \ {evict_index(q, ips)} ELSE q

Instant_now == Cardinality({c \in Conns : pc[c] # "away"})

(* A device that already waits is refreshed where it stands.               *)
Refresh(d, ip, fresh) ==
  LET was == Of(fresh, d)
      p   == [(CHOOSE e \in was : TRUE) EXCEPT !.ip = ip, !.knock_seq = @ + 1, !.at = Instant_now]
  IN /\ items' = (fresh \ was) \cup {p}
     /\ knock_seq' = [c \in Conns |-> IF newest'[d] = c THEN p.knock_seq ELSE knock_seq[c]]
     /\ notify_waiters
     /\ UNCHANGED admitted

(* What an earlier pairing of the device left.                             *)
M_marker_kept(d) == UNCHANGED admitted
DropMarker(d) == admitted' = [admitted EXCEPT ![d] = None]
(* An id no entry has, and no request still names.                         *)
next_id(q) ==
  LET used == {p.id : p \in q} \cup {op[o].id : o \in Operators}
  IN CHOOSE i \in 1..(Cardinality(used) + 1) : i \notin used

(* A new one makes room, per address and then for all, without a wake.     *)
Enqueue(d, ip, fresh) ==
  LET room == Evicted(Evicted(fresh, {ip}, MAX_PENDING_PER_IP), Addresses, PENDING_CAP)
      gone == {p.dev : p \in fresh \ room}
  IN /\ items' = room \cup {[id |-> next_id(room), dev |-> d, ip |-> ip, knock_seq |-> 0,
                             parked |-> FALSE, stale |-> FALSE, at |-> Instant_now]}
     /\ DropMarker(d)
     /\ knock_seq' = [c \in Conns |-> IF newest'[d] = c THEN 0 ELSE knock_seq[c]]
     /\ unheard' = unheard \cup gone
     /\ UNCHANGED woken

(* A pairing of d is in the store, and not yet in the queue.               *)
Pinned(d) == \E o \in Operators : op[o].dev = d /\ op[o].at = "clear"

(* A knock.  The gate read the store before it, under another lock, and no *)
(* device is authorized at first: one that was paired meanwhile may knock. *)
note_pending(c, d, ip) ==
  LET fresh == Fresh(items)
  IN /\ pc[c] = "away"
     /\ dev' = [dev EXCEPT ![c] = d]
     /\ newest' = [newest EXCEPT ![d] = c]
     /\ told' = [told EXCEPT ![d] = IF record[d] = "expired" \/ Pinned(d) THEN "cut" ELSE "none"]
     /\ IF Of(fresh, d) # {}
        THEN Refresh(d, ip, fresh)
        ELSE Enqueue(d, ip, fresh)
     /\ pc' = [pc EXCEPT ![c] = "park"]
     /\ UNCHANGED <<record, answer, opVars, lapses>>

(* The entry set_parked finds, by fingerprint and generation.              *)
Mine(c) == {p \in Entries(dev[c]) : p.knock_seq = knock_seq[c]}
set_parked(c, parked) ==
  items' = (items \ Mine(c)) \cup {[p EXCEPT !.parked = parked] : p \in Mine(c)}

-----------------------------------------------------------------------------
(* A connection's wait_for_decision.                                       *)

Go(c, where) == pc' = [pc EXCEPT ![c] = where]
Rest(c) == UNCHANGED <<admitted, record, dev, knock_seq, opVars, lapses, newest, unheard>>

(* The wait returns, and its guard drops next.                             *)
Decide(c, a) ==
  /\ answer' = [answer EXCEPT ![c] = a]
  /\ told' = IF a = "Denied" /\ newest[dev[c]] = c /\ told[dev[c]] = "none"
             THEN [told EXCEPT ![dev[c]] = "denied"] ELSE told
  /\ Go(c, "unpark")

Park(c) ==
  /\ pc[c] = "park"
  /\ set_parked(c, TRUE) /\ Go(c, "seq")
  /\ UNCHANGED <<answer, told, woken>> /\ Rest(c)

Replaced(c) == \E p \in Entries(dev[c]) : p.knock_seq # knock_seq[c]

ReadSeq(c) ==
  /\ pc[c] = "seq"
  /\ IF Replaced(c) THEN Decide(c, "Superseded") ELSE Go(c, "paired") /\ UNCHANGED <<answer, told>>
  /\ UNCHANGED <<items, woken>> /\ Rest(c)

ReadPaired(c) ==
  /\ pc[c] = "paired"
  /\ Go(c, IF effective(dev[c]) THEN "admitted" ELSE "contains")
  /\ UNCHANGED <<items, answer, told, woken>> /\ Rest(c)

(* Of the connections that see the device paired, the one the marker names.*)
ReadAdmitted(c) ==
  /\ pc[c] = "admitted"
  /\ Decide(c, IF admitted[dev[c]] \in {None, knock_seq[c]} THEN "Approved" ELSE "Superseded")
  /\ UNCHANGED <<items, woken>> /\ Rest(c)

(* pending_contains expires what is past its TTL first.                    *)
pending_contains(c) ==
  /\ pc[c] = "contains"
  /\ items' = Fresh(items)
  /\ Go(c, IF Of(items', dev[c]) # {} THEN "asleep" ELSE "again")
  /\ UNCHANGED <<answer, told, woken>> /\ Rest(c)

M_no_recheck(c) ==
  /\ pc[c] = "again"
  /\ Decide(c, "Denied")
  /\ UNCHANGED <<items, woken>> /\ Rest(c)
ReadAgain(c) ==
  /\ pc[c] = "again"
  /\ IF effective(dev[c])
     THEN Go(c, "admitted") /\ UNCHANGED <<answer, told>>
     ELSE Decide(c, "Denied")
  /\ UNCHANGED <<items, woken>> /\ Rest(c)

(* Woken, it arms again and reads from the start.                          *)
Wake(c) ==
  /\ pc[c] = "asleep" /\ woken[c]
  /\ woken' = [woken EXCEPT ![c] = FALSE]
  /\ Go(c, "seq")
  /\ UNCHANGED <<items, answer, told>> /\ Rest(c)

(* PENDING_APPROVAL_WAIT runs out, or the client closes: nothing is read   *)
(* again.                                                                  *)
GiveUp(c) ==
  /\ pc[c] = "asleep"
  /\ Decide(c, "ended")
  /\ UNCHANGED <<items, woken>> /\ Rest(c)

(* The connection is over, and with it what it kept.                       *)
Close(c) ==
  /\ Go(c, "done")
  /\ answer' = [answer EXCEPT ![c] = "none"] /\ woken' = [woken EXCEPT ![c] = FALSE]
  /\ dev' = [dev EXCEPT ![c] = None] /\ knock_seq' = [knock_seq EXCEPT ![c] = 0]
  /\ newest' = [d \in Devices |-> IF newest[d] = c THEN None ELSE newest[d]]
  /\ UNCHANGED <<admitted, record, told, opVars, lapses, unheard>>

(* The client closes before its wait is first polled.                      *)
LeaveUnparked(c) == pc[c] = "park" /\ UNCHANGED items /\ Close(c)

Unpark(c) == pc[c] = "unpark" /\ set_parked(c, FALSE) /\ Close(c)

-----------------------------------------------------------------------------
(* The console.                                                            *)

Begins(o) == op[o].at = "idle" /\ acts < MaxActs /\ acts' = acts + 1

(* approve_pending: the entry's source is read, and a strict one refused;  *)
(* then the entry, if it is still there; then add_with_access.             *)
ApproveSource(o, p) ==
  /\ Begins(o)
  /\ ~p.stale /\ p.ip \notin Strict
  /\ op' = [op EXCEPT ![o] = [at |-> "named", id |-> p.id, dev |-> None]]
  /\ items' = Fresh(items)
  /\ UNCHANGED <<admitted, record, connVars, woken, lapses, newest, told, unheard>>

ApproveEntry(o) ==
  LET fresh == Fresh(items)
      named == {p \in fresh : p.id = op[o].id}
  IN /\ op[o].at = "named"
     /\ items' = fresh
     /\ op' = [op EXCEPT ![o] = IF named = {} THEN Resting
                                ELSE [@ EXCEPT !.at = "add", !.id = 0,
                                                 !.dev = (CHOOSE p \in named : TRUE).dev]]
     /\ UNCHANGED <<admitted, record, connVars, woken, acts, lapses, newest, told, unheard>>

(* A PIN ceremony ends in add_with_access as an approve does.              *)
PairByPin(o, d) ==
  /\ Begins(o)
  /\ op' = [op EXCEPT ![o] = [at |-> "add", id |-> 0, dev |-> d]]
  /\ UNCHANGED <<queueVars, record, connVars, woken, lapses, newest, told, unheard>>

(* The store pins first.  Without an access choice a record stays as it is.*)
StoreAdd(o, access) ==
  /\ op[o].at = "add"
  /\ record' = [record EXCEPT ![op[o].dev] = IF access \/ @ = "none" THEN "live" ELSE @]
  /\ op' = [op EXCEPT ![o].at = "clear"]
  /\ UNCHANGED <<queueVars, connVars, woken, acts, lapses, newest, told, unheard>>

(* The generation its entry is at, or what is already marked.              *)
Generation(d, marked) ==
  IF Entries(d) = {} THEN marked ELSE (CHOOSE p \in Entries(d) : TRUE).knock_seq

admit_and_clear(o) ==
  LET d == op[o].dev
  IN /\ op[o].at = "clear"
     /\ admitted' = [admitted EXCEPT ![d] = Generation(d, @)]
     /\ items' = items \ Entries(d)
     /\ notify_waiters
     /\ op' = [op EXCEPT ![o] = Resting]
     /\ UNCHANGED <<record, connVars, acts, lapses, newest, told>>

deny_pending(o, p) ==
  /\ Begins(o)
  /\ items' = items \ {p}
  /\ notify_waiters
  /\ UNCHANGED <<admitted, record, connVars, op, lapses, newest, told>>

(* set_access edits a record there is; it tells the record's watchers, and *)
(* not the queue's.                                                        *)
set_access(o, d) ==
  /\ Begins(o) /\ record[d] = "expired"
  /\ record' = [record EXCEPT ![d] = "live"]
  /\ unheard' = unheard \cup {d}
  /\ UNCHANGED <<queueVars, connVars, woken, op, lapses, newest, told>>

Unpair(o, d) ==
  /\ Begins(o) /\ record[d] # "none"
  /\ record' = [record EXCEPT ![d] = "none"]
  /\ told' = [told EXCEPT ![d] = "cut"]
  /\ UNCHANGED <<queueVars, connVars, woken, op, lapses, newest, unheard>>

(* Time passes.  A record's deadline comes; or the entries longest inactive*)
(* outlive PENDING_TTL, which is over three times what a knock waits.      *)
Lapse(d) ==
  /\ lapses < MaxLapses /\ lapses' = lapses + 1
  /\ record[d] = "live"
  /\ record' = [record EXCEPT ![d] = "expired"]
  /\ told' = [told EXCEPT ![d] = "cut"]
  /\ UNCHANGED <<queueVars, connVars, woken, opVars, newest, unheard>>

Age(p) ==
  LET old == {q \in items : q.at <= p.at}
  IN /\ lapses < MaxLapses /\ lapses' = lapses + 1
     /\ ~p.stale
     /\ \A q \in old, c \in Conns : pc[c] \in Armed \cup {"park"} => dev[c] # q.dev
     /\ items' = (items \ old) \cup {[q EXCEPT !.stale = TRUE] : q \in old}
     /\ UNCHANGED <<admitted, record, connVars, woken, opVars, newest, told, unheard>>

Wait(c) ==
  \/ Park(c) \/ ReadSeq(c) \/ ReadPaired(c) \/ ReadAdmitted(c)
  \/ pending_contains(c) \/ ReadAgain(c) \/ Wake(c) \/ GiveUp(c) \/ LeaveUnparked(c) \/ Unpark(c)

Operate(o) ==
  \/ \E p \in items : ApproveSource(o, p) \/ deny_pending(o, p)
  \/ \E access \in BOOLEAN : StoreAdd(o, access)
  \/ ApproveEntry(o) \/ admit_and_clear(o)
  \/ \E d \in Devices : PairByPin(o, d) \/ set_access(o, d) \/ Unpair(o, d)

Next ==
  \/ \E c \in Conns : Wait(c)
  \/ \E c \in Conns, d \in Devices, ip \in Addresses : note_pending(c, d, ip)
  \/ \E o \in Operators : Operate(o)
  \/ \E d \in Devices : Lapse(d)
  \/ \E p \in items : Age(p)

Spec == Init /\ [][Next]_vars

-----------------------------------------------------------------------------
(* approve_pending's order, pin and then clear, for a wait that reads them *)
(* the other way round: a connection whose own knock was admitted is never *)
(* told it was denied, while the record that admits it stands.             *)
AdmittedIsNotDenied ==
  \A d \in Devices : admitted[d] # None => told[d] # "denied"

(* A sleeping connection sleeps on something: a knock of its device is     *)
(* pending and not decided yet, unless the decision's wake is still to come*)
(* or the knock went without one.                                          *)
NoSleepOnDecided ==
  \A c \in Conns :
    LET d == dev[c] IN
    pc[c] = "asleep" /\ ~woken[c] /\ d \notin unheard =>
      /\ Entries(d) # {}
      /\ effective(d) => Pinned(d)

(* The connection that knocked last is never told a newer one replaced it, *)
(* whatever was paired and unpaired before it.                             *)
NewestIsNotSuperseded ==
  [][\A c \in Conns :
       answer'[c] = "Superseded" /\ answer[c] # "Superseded" => newest[dev[c]] # c]_vars

(* What approval.rs says of wait_for_decision: "Once a newer knock owns the*)
(* fingerprint this connection must never be admitted, even if approval    *)
(* lands before we wake."  No run asks it: a wait past ReadSeq breaks it.  *)
OnlyNewestAdmitted ==
  [][\A c \in Conns :
       answer'[c] = "Approved" /\ answer[c] # "Approved" => newest[dev[c]] = c]_vars
=================================================================================
