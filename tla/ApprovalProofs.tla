----------------------------- MODULE ApprovalProofs -----------------------------
(***************************************************************************)
(* Proofs about Approval, for any connections, operators, devices and      *)
(* caps.                                                                   *)
(***************************************************************************)
EXTENDS Approval, FiniteSetTheorems, WellFoundedInduction, TLAPS

(* What the store and the queue say of a device, in the order an approve   *)
(* writes them: while nothing cut its record short, a device that is being *)
(* or has been admitted is authorized; and one told it was denied has no   *)
(* entry that could still admit it.                                        *)
InOrder(d) ==
  /\ told[d] # "cut" => record[d] # "expired"
  /\ told[d] # "cut" /\ Pinned(d) => effective(d)
  /\ told[d] # "cut" /\ admitted[d] # None => effective(d)
  /\ told[d] = "denied" => Entries(d) = {} /\ admitted[d] = None

(* The last connection to knock is at the generation of its device's entry *)
(* and of its marker; an entry and a marker are never there at once.       *)
AtLast(d) ==
  /\ Entries(d) # {} => admitted[d] = None
  /\ \A c \in Conns : newest[d] = c =>
       /\ dev[c] = d
       /\ \A p \in Entries(d) : p.knock_seq = knock_seq[c]
       /\ admitted[d] \in {None, knock_seq[c]}
       /\ pc[c] = "again" => Entries(d) = {}

(* A wait that nothing has woken since it read the store found its device  *)
(* not authorized, and one that sleeps found an entry; neither has changed.*)
Undecided(c) ==
  ~woken[c] /\ dev[c] \notin unheard =>
    /\ pc[c] \in {"contains", "asleep"} /\ effective(dev[c]) => Pinned(dev[c])
    /\ pc[c] = "asleep" => Entries(dev[c]) # {}

(* A wait is its device's, and no entry outlives its time under it.        *)
Waiting(c) ==
  /\ pc[c] = "away" => dev[c] = None
  /\ dev[c] = None => pc[c] \in {"away", "done"}
  /\ pc[c] \in Armed \cup {"park"} => \A p \in Entries(dev[c]) : ~p.stale
  /\ Undecided(c)

IInv ==
  /\ TypeOK
  /\ \A d \in Devices : InOrder(d) /\ AtLast(d)
  /\ \A c \in Conns : Waiting(c)
-----------------------------------------------------------------------------
(* A queue as note_pending leaves it.                                      *)
Queue(q) ==
  /\ q \subseteq Item /\ IsFiniteSet(q) /\ Cardinality(q) <= PENDING_CAP
  /\ \A p, e \in q : p.dev = e.dev => p = e

LEMMA SubQueue ==
  ASSUME NEW q, Queue(q), NEW r \in SUBSET q
  PROVE  Queue(r)
<1>1. IsFiniteSet(r) /\ Cardinality(r) <= Cardinality(q)
  BY FS_Subset DEF Queue
<1>2. Cardinality(r) \in Nat /\ Cardinality(q) \in Nat /\ PENDING_CAP \in Nat
  BY <1>1, FS_CardinalityType, ApprovalAssumption DEF Queue
<1>3. QED
  BY <1>1, <1>2 DEF Queue

(* Entries rewritten where they stand, each for its own device.            *)
LEMMA RewrittenQueue ==
  ASSUME NEW q, Queue(q), NEW m \in SUBSET q,
         NEW f \in [m -> Item], \A p \in m : f[p].dev = p.dev
  PROVE  Queue((q \ m) \cup {f[p] : p \in m})
<1> DEFINE g == [p \in q |-> IF p \in m THEN f[p] ELSE p]
           r == (q \ m) \cup {f[p] : p \in m}
<1>1. g \in Surjection(q, r)
  BY DEF Surjection
<1>2. IsFiniteSet(r) /\ Cardinality(r) <= Cardinality(q)
  BY <1>1, FS_Surjection DEF Queue
<1>3. Cardinality(r) \in Nat /\ Cardinality(q) \in Nat /\ PENDING_CAP \in Nat
  BY <1>2, FS_CardinalityType, ApprovalAssumption DEF Queue
<1>4. Cardinality(r) <= PENDING_CAP
  BY <1>2, <1>3 DEF Queue
<1>5. r \subseteq Item /\ \A p, e \in r : p.dev = e.dev => p = e
  BY DEF Queue
<1>6. QED
  BY <1>2, <1>4, <1>5 DEF Queue

(* evict_index is one of the entries it chooses from.                      *)
LEMMA EvictedIsIn ==
  ASSUME NEW q, Queue(q), NEW ips, {p \in q : p.ip \in ips} # {}
  PROVE  evict_index(q, ips) \in q
<1> DEFINE from == {p \in q : p.ip \in ips}
           loose == {p \in from : ~p.parked}
           choice == IF loose # {} THEN loose ELSE from
           ats == {p.at : p \in choice}
           R == OpToRel(<, Nat)
<1>1. choice # {} /\ choice \subseteq q /\ ats # {} /\ ats \subseteq Nat
  BY DEF Queue, Item
<1>2. \E a \in ats : \A b \in ats : ~(<<b, a>> \in R)
  <2>1. IsWellFoundedOn(R, Nat)
    BY NatLessThanWellFounded
  <2> HIDE DEF R, ats
  <2>2. QED
    BY <1>1, <2>1, WFMin
<1>3. PICK a \in ats : \A b \in ats : ~(<<b, a>> \in R)
  BY <1>2
<1>4. PICK p \in choice : p.at = a
  BY <1>3
<1>5. \A m, n \in Nat : <<n, m>> \in R <=> n < m
  BY DEF OpToRel
<1>6. \A e \in choice : p.at <= e.at
  <2> SUFFICES ASSUME NEW e \in choice PROVE p.at <= e.at
    OBVIOUS
  <2>1. e.at \in ats /\ e.at \in Nat /\ a \in Nat
    BY <1>1, <1>3
  <2>2. ~(e.at < a)
    BY <1>3, <1>5, <2>1
  <2>3. QED
    BY <1>4, <2>1, <2>2
<1>7. evict_index(q, ips) = CHOOSE e \in choice : \A x \in choice : e.at <= x.at
  BY DEF evict_index
<1> HIDE DEF choice
<1>8. QED
  BY <1>1, <1>4, <1>6, <1>7

(* Evicting leaves part of the queue, with room for one entry more when it *)
(* is the whole queue that is capped.                                      *)
LEMMA EvictedLeavesRoom ==
  ASSUME NEW q, Queue(q), NEW ips, NEW cap \in Nat \ {0}
  PROVE  /\ Evicted(q, ips, cap) \subseteq q
         /\ ips = Addresses /\ cap = PENDING_CAP => Cardinality(Evicted(q, ips, cap)) < PENDING_CAP
<1>1. Evicted(q, ips, cap) \subseteq q
  BY DEF Evicted
<1>2. ASSUME ips = Addresses, cap = PENDING_CAP
      PROVE  Cardinality(Evicted(q, ips, cap)) < PENDING_CAP
  <2>1. {p \in q : p.ip \in ips} = q
    BY <1>2 DEF Queue, Item
  <2>2. IsFiniteSet(q) /\ Cardinality(q) \in Nat /\ Cardinality(q) <= PENDING_CAP
    BY FS_CardinalityType DEF Queue
  <2>3. CASE Full(q, ips, cap)
    <3>1. Cardinality(q) = PENDING_CAP
      BY <1>2, <2>1, <2>2, <2>3 DEF Full
    <3>2. q # {}
      BY <1>2, <3>1, FS_EmptySet
    <3>3. evict_index(q, ips) \in q
      BY <2>1, <3>2, EvictedIsIn
    <3>4. Cardinality(q \ {evict_index(q, ips)}) = Cardinality(q) - 1
      BY <2>2, <3>3, FS_RemoveElement
    <3>5. QED
      BY <1>2, <2>2, <2>3, <3>1, <3>4 DEF Evicted
  <2>4. CASE ~Full(q, ips, cap)
    BY <1>2, <2>1, <2>2, <2>4 DEF Full, Evicted
  <2>5. QED
    BY <2>3, <2>4
<1>3. QED
  BY <1>1, <1>2

(* There is an id no entry has and no request names.                       *)
LEMMA NextIdIsFree ==
  ASSUME NEW q, IsFiniteSet(q)
  PROVE  next_id(q) \in Nat \ {0}
<1> DEFINE a == {p.id : p \in q}
           b == {op[o].id : o \in Operators}
           used == a \cup b
           n == Cardinality(used)
<1>1. IsFiniteSet(a)
  <2>1. [p \in q |-> p.id] \in Surjection(q, a)
    BY DEF Surjection
  <2>2. QED
    BY <2>1, FS_Surjection
<1>2. IsFiniteSet(b)
  <2>1. [o \in Operators |-> op[o].id] \in Surjection(Operators, b)
    BY DEF Surjection
  <2>2. QED
    BY <2>1, FS_Surjection, ApprovalAssumption
<1>3. IsFiniteSet(used) /\ n \in Nat
  BY <1>1, <1>2, FS_Union, FS_CardinalityType
<1>4. \E i \in 1..(n + 1) : i \notin used
  <2> SUFFICES ASSUME 1..(n + 1) \subseteq used PROVE FALSE
    OBVIOUS
  <2> HIDE DEF used
  <2>1. Cardinality(1..(n + 1)) <= n
    BY <1>3, FS_Subset
  <2>2. Cardinality(1..(n + 1)) = n + 1
    <3>1. 1 \in Int /\ n + 1 \in Int /\ 1 <= n + 1
      BY <1>3
    <3>2. QED
      BY <1>3, <3>1, FS_Interval
  <2>3. QED
    BY <1>3, <2>1, <2>2
<1>5. next_id(q) = CHOOSE i \in 1..(n + 1) : i \notin used
  BY DEF next_id
<1> HIDE DEF n, used
<1>6. QED
  BY <1>3, <1>4, <1>5

(* What each kind of step leaves of the queue.                             *)
LEMMA QueueKept ==
  ASSUME TypeOK
  PROVE  /\ Queue(items)
         /\ Queue(Fresh(items))
         /\ \A gone : Queue(items \ gone)
<1>1. Queue(items)
  BY DEF TypeOK, Queue
<1>2. Queue(Fresh(items))
  BY <1>1, SubQueue DEF Fresh
<1>3. \A gone : Queue(items \ gone)
  BY <1>1, SubQueue
<1>4. QED
  BY <1>1, <1>2, <1>3

LEMMA ParkedQueue ==
  ASSUME TypeOK, NEW c \in Conns, NEW parked \in BOOLEAN, set_parked(c, parked)
  PROVE  Queue(items')
<1> DEFINE f == [p \in Mine(c) |-> [p EXCEPT !.parked = parked]]
<1>1. Queue(items) /\ Mine(c) \subseteq items
  BY QueueKept DEF Mine, Entries, Of
<1>2. f \in [Mine(c) -> Item] /\ \A p \in Mine(c) : f[p].dev = p.dev
  <2>1. \A p \in Item : [p EXCEPT !.parked = parked] \in Item
    BY DEF Item
  <2>2. \A p \in Item : [p EXCEPT !.parked = parked].dev = p.dev
    BY DEF Item
  <2>3. \A p \in Mine(c) : p \in Item
    BY <1>1 DEF Queue
  <2>4. QED
    BY <2>1, <2>2, <2>3
<1>3. items' = (items \ Mine(c)) \cup {f[p] : p \in Mine(c)}
  BY DEF set_parked
<1> HIDE DEF f
<1>4. QED
  BY <1>1, <1>2, <1>3, RewrittenQueue

LEMMA AgedQueue ==
  ASSUME TypeOK, NEW p \in items, Age(p)
  PROVE  Queue(items')
<1> DEFINE old == {q \in items : q.at <= p.at}
           f == [q \in old |-> [q EXCEPT !.stale = TRUE]]
<1>1. Queue(items) /\ old \subseteq items
  BY QueueKept
<1>2. f \in [old -> Item] /\ \A q \in old : f[q].dev = q.dev
  <2>1. \A q \in Item : [q EXCEPT !.stale = TRUE] \in Item
    BY DEF Item
  <2>2. \A q \in Item : [q EXCEPT !.stale = TRUE].dev = q.dev
    BY DEF Item
  <2>3. \A q \in old : q \in Item
    BY <1>1 DEF Queue
  <2>4. QED
    BY <2>1, <2>2, <2>3
<1>3. items' = (items \ old) \cup {f[q] : q \in old}
  BY DEF Age
<1> HIDE DEF f, old
<1>4. QED
  BY <1>1, <1>2, <1>3, RewrittenQueue

(* A refresh takes the one entry of its device a generation further.       *)
LEMMA Refreshed ==
  ASSUME TypeOK, NEW d \in Devices, NEW ip \in Addresses,
         Of(Fresh(items), d) # {}, Refresh(d, ip, Fresh(items))
  PROVE  \E e \in Fresh(items), p \in Item :
           /\ e.dev = d /\ p.dev = d /\ ~p.stale
           /\ items' = (Fresh(items) \ {e}) \cup {p}
           /\ knock_seq' = [c \in Conns |-> IF newest'[d] = c THEN p.knock_seq ELSE knock_seq[c]]
<1> DEFINE was == Of(Fresh(items), d)
           e == CHOOSE x \in was : TRUE
           p == [e EXCEPT !.ip = ip, !.knock_seq = @ + 1, !.at = Instant_now]
<1>1. e \in Fresh(items) /\ e.dev = d /\ e \in Item /\ ~e.stale
  BY DEF Of, Fresh, TypeOK
<1>2. was = {e}
  BY <1>1 DEF Of, Fresh, TypeOK
<1>3. Instant_now \in Nat
  <2>1. IsFiniteSet({c \in Conns : pc[c] # "away"})
    BY ApprovalAssumption, FS_Subset
  <2>2. QED
    BY <2>1, FS_CardinalityType DEF Instant_now
<1>4. p \in Item /\ p.dev = d /\ ~p.stale
  <2> DEFINE n == e.knock_seq + 1
  <2> HIDE DEF e
  <2>1. n \in Nat
    BY <1>1 DEF Item
  <2>2. p = [e EXCEPT !.ip = ip, !.knock_seq = n, !.at = Instant_now]
    BY <1>1 DEF Item
  <2> HIDE DEF n
  <2>3. QED
    BY <1>1, <1>3, <2>1, <2>2 DEF Item
<1>5. /\ items' = (Fresh(items) \ {e}) \cup {p}
      /\ knock_seq' = [c \in Conns |-> IF newest'[d] = c THEN p.knock_seq ELSE knock_seq[c]]
  BY <1>2 DEF Refresh
<1> HIDE DEF e, p
<1>6. QED
  BY <1>1, <1>4, <1>5

(* A new entry takes the place of those its caps evict.                    *)
LEMMA Enqueued ==
  ASSUME TypeOK, NEW d \in Devices, NEW ip \in Addresses, Enqueue(d, ip, Fresh(items))
  PROVE  \E room \in SUBSET Fresh(items), p \in Item :
           /\ IsFiniteSet(room) /\ Cardinality(room) < PENDING_CAP
           /\ items' = room \cup {p}
           /\ p.dev = d /\ p.knock_seq = 0 /\ ~p.stale
           /\ unheard' = unheard \cup {e.dev : e \in Fresh(items) \ room}
<1> DEFINE perip == Evicted(Fresh(items), {ip}, MAX_PENDING_PER_IP)
           room == Evicted(perip, Addresses, PENDING_CAP)
           p == [id |-> next_id(room), dev |-> d, ip |-> ip, knock_seq |-> 0,
                 parked |-> FALSE, stale |-> FALSE, at |-> Instant_now]
<1>1. Queue(Fresh(items))
  BY QueueKept
<1>2. perip \subseteq Fresh(items)
  BY <1>1, EvictedLeavesRoom, ApprovalAssumption
<1>3. Queue(perip)
  BY <1>1, <1>2, SubQueue
<1>4. room \subseteq perip /\ Cardinality(room) < PENDING_CAP
  <2> HIDE DEF perip
  <2>1. QED
    BY <1>3, EvictedLeavesRoom, ApprovalAssumption
<1>5. Queue(room)
  BY <1>3, <1>4, SubQueue
<1>6. IsFiniteSet(room)
  BY <1>5 DEF Queue
<1>7. p \in Item
  <2>1. IsFiniteSet({c \in Conns : pc[c] # "away"})
    BY ApprovalAssumption, FS_Subset
  <2>2. Instant_now \in Nat
    BY <2>1, FS_CardinalityType DEF Instant_now
  <2>3. next_id(room) \in Nat \ {0}
    BY <1>6, NextIdIsFree
  <2> HIDE DEF room
  <2>4. QED
    BY <2>2, <2>3 DEF Item
<1>8. /\ items' = room \cup {p}
      /\ unheard' = unheard \cup {e.dev : e \in Fresh(items) \ room}
  BY DEF Enqueue
<1>9. p.dev = d /\ p.knock_seq = 0 /\ ~p.stale
  OBVIOUS
<1> HIDE DEF room, perip, p
<1>10. QED
  BY <1>2, <1>4, <1>6, <1>7, <1>8, <1>9
-----------------------------------------------------------------------------
(* Type correctness.                                                       *)
LEMMA NotifyTyped ==
  ASSUME TypeOK, notify_waiters
  PROVE  woken' \in [Conns -> BOOLEAN] /\ unheard' \subseteq Devices
<1>1. \A c \in Conns : (woken[c] \/ pc[c] \in Armed) \in BOOLEAN
  OBVIOUS
<1>2. woken' = [c \in Conns |-> woken[c] \/ pc[c] \in Armed] /\ unheard' = {}
  BY DEF notify_waiters
<1>3. QED
  BY <1>1, <1>2

LEMMA KnockTyped ==
  ASSUME TypeOK, NEW c \in Conns, NEW d \in Devices, NEW ip \in Addresses, note_pending(c, d, ip)
  PROVE  TypeOK'
<1>1. Queue(items') /\ knock_seq' \in [Conns -> Nat]
  <2>1. CASE Of(Fresh(items), d) # {}
    <3>1. PICK e \in Fresh(items), p \in Item :
             /\ e.dev = d /\ p.dev = d
             /\ items' = (Fresh(items) \ {e}) \cup {p}
             /\ knock_seq' = [b \in Conns |-> IF newest'[d] = b THEN p.knock_seq ELSE knock_seq[b]]
      BY <2>1, Refreshed DEF note_pending
    <3> DEFINE f == [x \in {e} |-> p]
    <3>2. f \in [{e} -> Item] /\ \A x \in {e} : f[x].dev = x.dev
      BY <3>1
    <3>3. items' = (Fresh(items) \ {e}) \cup {f[x] : x \in {e}}
      BY <3>1
    <3> HIDE DEF f
    <3>4. Queue(items')
      BY <3>2, <3>3, QueueKept, RewrittenQueue
    <3>5. p.knock_seq \in Nat
      BY DEF Item
    <3>6. QED
      BY <3>1, <3>4, <3>5 DEF TypeOK
  <2>2. CASE Of(Fresh(items), d) = {}
    <3>1. Enqueue(d, ip, Fresh(items))
      BY <2>2 DEF note_pending
    <3>2. PICK room \in SUBSET Fresh(items), p \in Item :
             /\ IsFiniteSet(room) /\ Cardinality(room) < PENDING_CAP
             /\ items' = room \cup {p} /\ p.dev = d
      BY <3>1, Enqueued
    <3>3. IsFiniteSet(items') /\ Cardinality(items') <= PENDING_CAP
      <4>1. Cardinality(room) \in Nat /\ PENDING_CAP \in Nat
        BY <3>2, FS_CardinalityType, ApprovalAssumption
      <4>2. /\ IsFiniteSet(room \cup {p})
            /\ Cardinality(room \cup {p}) = IF p \in room THEN Cardinality(room) ELSE Cardinality(room) + 1
        BY <3>2, FS_AddElement
      <4>3. QED
        BY <3>2, <4>1, <4>2
    <3>4. items' \subseteq Item
      BY <3>2 DEF Fresh, TypeOK
    <3>5. \A x \in room : x.dev # d
      BY <2>2, <3>2 DEF Of
    <3>6. \A x, y \in items' : x.dev = y.dev => x = y
      BY <3>2, <3>5 DEF Fresh, TypeOK
    <3>7. knock_seq' \in [Conns -> Nat]
      BY <3>1 DEF Enqueue, TypeOK
    <3>8. QED
      BY <3>3, <3>4, <3>6, <3>7 DEF Queue
  <2>3. QED
    BY <2>1, <2>2
<1>2. admitted' \in [Devices -> Nat \cup {None}] /\ woken' \in [Conns -> BOOLEAN] /\ unheard' \subseteq Devices
  <2>1. CASE Of(Fresh(items), d) # {}
    BY <2>1, NotifyTyped DEF note_pending, Refresh, TypeOK
  <2>2. CASE Of(Fresh(items), d) = {}
    <3>1. Enqueue(d, ip, Fresh(items))
      BY <2>2 DEF note_pending
    <3>2. PICK room \in SUBSET Fresh(items) :
             unheard' = unheard \cup {e.dev : e \in Fresh(items) \ room}
      BY <3>1, Enqueued
    <3>3. \A e \in Fresh(items) : e.dev \in Devices
      BY DEF Fresh, TypeOK, Item
    <3>4. QED
      BY <3>1, <3>2, <3>3 DEF Enqueue, DropMarker, TypeOK
  <2>3. QED
    BY <2>1, <2>2
<1>3. /\ record' = record /\ answer' = answer /\ op' = op /\ acts' = acts /\ lapses' = lapses
      /\ pc' \in [Conns -> PCs] /\ dev' \in [Conns -> Devices \cup {None}]
      /\ newest' \in [Devices -> Conns \cup {None}] /\ told' \in [Devices -> {"none", "denied", "cut"}]
  BY DEF note_pending, opVars, TypeOK, PCs
<1>4. QED
  BY <1>1, <1>2, <1>3 DEF TypeOK, Queue

LEMMA WaitTyped ==
  ASSUME TypeOK, NEW c \in Conns, Wait(c)
  PROVE  TypeOK'
<1>1. CASE Park(c)
  <2>1. Queue(items')
    BY <1>1, ParkedQueue DEF Park
  <2>2. QED
    BY <1>1, <2>1 DEF Park, Rest, Go, Queue, opVars, TypeOK, PCs
<1>2. CASE ReadSeq(c)
  BY <1>2 DEF ReadSeq, Decide, Rest, Go, opVars, TypeOK, PCs
<1>3. CASE ReadPaired(c)
  BY <1>3 DEF ReadPaired, Decide, Rest, Go, opVars, TypeOK, PCs
<1>4. CASE ReadAdmitted(c)
  BY <1>4 DEF ReadAdmitted, Decide, Rest, Go, opVars, TypeOK, PCs
<1>5. CASE pending_contains(c)
  <2>1. Queue(items')
    BY <1>5, QueueKept DEF pending_contains
  <2>2. QED
    BY <1>5, <2>1 DEF pending_contains, Rest, Go, Queue, opVars, TypeOK, PCs
<1>6. CASE ReadAgain(c)
  BY <1>6 DEF ReadAgain, Decide, Rest, Go, opVars, TypeOK, PCs
<1>7. CASE Wake(c)
  BY <1>7 DEF Wake, Decide, Rest, Go, opVars, TypeOK, PCs
<1>8. CASE GiveUp(c)
  BY <1>8 DEF GiveUp, Decide, Rest, Go, opVars, TypeOK, PCs
<1>9. CASE LeaveUnparked(c)
  BY <1>9 DEF LeaveUnparked, Close, Go, opVars, TypeOK, PCs
<1>10. CASE Unpark(c)
  <2>1. Queue(items')
    BY <1>10, ParkedQueue DEF Unpark
  <2>2. QED
    BY <1>10, <2>1 DEF Unpark, Close, Go, Queue, opVars, TypeOK, PCs
<1>11. QED
  BY <1>1, <1>2, <1>3, <1>4, <1>5, <1>6, <1>7, <1>8, <1>9, <1>10 DEF Wait

LEMMA OperateTyped ==
  ASSUME TypeOK, NEW o \in Operators, Operate(o)
  PROVE  TypeOK'
<1>1. CASE \E p \in items : ApproveSource(o, p)
  <2>1. PICK p \in items : ApproveSource(o, p)
    BY <1>1
  <2>2. Queue(items') /\ p.id \in Nat
    BY <2>1, QueueKept DEF ApproveSource, TypeOK, Item
  <2>3. QED
    BY <2>1, <2>2, ApprovalAssumption DEF ApproveSource, Begins, Queue, connVars, TypeOK, Jobs
<1>2. CASE \E p \in items : deny_pending(o, p)
  <2>1. PICK p \in items : deny_pending(o, p)
    BY <1>2
  <2>2. Queue(items') /\ woken' \in [Conns -> BOOLEAN] /\ unheard' \subseteq Devices
    BY <2>1, QueueKept, NotifyTyped DEF deny_pending
  <2>3. QED
    BY <2>1, <2>2, ApprovalAssumption DEF deny_pending, Begins, Queue, connVars, TypeOK
<1>3. CASE \E access \in BOOLEAN : StoreAdd(o, access)
  <2>1. PICK access \in BOOLEAN : StoreAdd(o, access)
    BY <1>3
  <2>2. record' \in [Devices -> Records]
    BY <2>1 DEF StoreAdd, TypeOK, Records
  <2>3. op' \in [Operators -> [at : Jobs, id : Nat, dev : Devices \cup {None}]]
    BY <2>1 DEF StoreAdd, TypeOK, Jobs
  <2>4. QED
    BY <2>1, <2>2, <2>3 DEF StoreAdd, queueVars, connVars, TypeOK
<1>4. CASE ApproveEntry(o)
  <2> DEFINE named == {p \in Fresh(items) : p.id = op[o].id}
  <2>1. Queue(items')
    BY <1>4, QueueKept DEF ApproveEntry
  <2>2. named # {} => (CHOOSE p \in named : TRUE).dev \in Devices
    BY DEF Fresh, TypeOK, Item
  <2>3. op' \in [Operators -> [at : Jobs, id : Nat, dev : Devices \cup {None}]]
    <3>1. CASE named = {}
      BY <1>4, <3>1 DEF ApproveEntry, Resting, TypeOK, Jobs
    <3>2. CASE named # {}
      <4> DEFINE d == (CHOOSE p \in named : TRUE).dev
      <4>1. d \in Devices
        BY <2>2, <3>2
      <4>2. op' = [op EXCEPT ![o] = [@ EXCEPT !.at = "add", !.id = 0, !.dev = d]]
        BY <1>4, <3>2 DEF ApproveEntry
      <4> HIDE DEF d
      <4>3. op \in [Operators -> [at : Jobs, id : Nat, dev : Devices \cup {None}]]
        BY DEF TypeOK
      <4>4. [op[o] EXCEPT !.at = "add", !.id = 0, !.dev = d]
              \in [at : Jobs, id : Nat, dev : Devices \cup {None}]
        BY <4>1, <4>3 DEF Jobs
      <4>5. QED
        BY <4>2, <4>3, <4>4
    <3>3. QED
      BY <3>1, <3>2
  <2>4. QED
    BY <1>4, <2>1, <2>3 DEF ApproveEntry, Queue, connVars, TypeOK
<1>5. CASE admit_and_clear(o)
  <2> DEFINE d == op[o].dev
  <2>1. Queue(items') /\ woken' \in [Conns -> BOOLEAN] /\ unheard' \subseteq Devices
    BY <1>5, QueueKept, NotifyTyped DEF admit_and_clear
  <2>2. d \in Devices => Generation(d, admitted[d]) \in Nat \cup {None}
    BY DEF Generation, Entries, Of, TypeOK, Item
  <2>3. admitted' \in [Devices -> Nat \cup {None}]
    BY <1>5, <2>2 DEF admit_and_clear, TypeOK
  <2>4. QED
    BY <1>5, <2>1, <2>3 DEF admit_and_clear, Resting, Queue, connVars, TypeOK, Jobs
<1>6. CASE \E d \in Devices : PairByPin(o, d) \/ set_access(o, d) \/ Unpair(o, d)
  <2>1. PICK d \in Devices : PairByPin(o, d) \/ set_access(o, d) \/ Unpair(o, d)
    BY <1>6
  <2>2. acts' \in 0..MaxActs
    BY <2>1, ApprovalAssumption DEF PairByPin, set_access, Unpair, Begins, TypeOK
  <2>3. CASE PairByPin(o, d)
    BY <2>2, <2>3 DEF PairByPin, queueVars, connVars, TypeOK, Jobs
  <2>4. CASE set_access(o, d)
    BY <2>2, <2>4 DEF set_access, queueVars, connVars, TypeOK, Records
  <2>5. CASE Unpair(o, d)
    BY <2>2, <2>5 DEF Unpair, queueVars, connVars, TypeOK, Records
  <2>6. QED
    BY <2>1, <2>3, <2>4, <2>5
<1>7. QED
  BY <1>1, <1>2, <1>3, <1>4, <1>5, <1>6 DEF Operate

LEMMA TimeTyped ==
  ASSUME TypeOK
  PROVE  /\ \A d \in Devices : Lapse(d) => TypeOK'
         /\ \A p \in items : Age(p) => TypeOK'
<1>1. ASSUME NEW d \in Devices, Lapse(d) PROVE TypeOK'
  BY <1>1, ApprovalAssumption DEF Lapse, queueVars, connVars, opVars, TypeOK, Records
<1>2. ASSUME NEW p \in items, Age(p) PROVE TypeOK'
  <2>1. Queue(items')
    BY <1>2, AgedQueue
  <2>2. QED
    BY <1>2, <2>1, ApprovalAssumption DEF Age, Queue, connVars, opVars, TypeOK
<1>3. QED
  BY <1>1, <1>2

LEMMA TypeStep == TypeOK /\ [Next]_vars => TypeOK'
<1> SUFFICES ASSUME TypeOK, [Next]_vars PROVE TypeOK'
  OBVIOUS
<1>1. CASE Next
  BY <1>1, KnockTyped, WaitTyped, OperateTyped, TimeTyped DEF Next
<1>2. CASE UNCHANGED vars
  BY <1>2 DEF vars, queueVars, connVars, opVars, TypeOK
<1>3. QED
  BY <1>1, <1>2

(* Every variable keeps its shape; the queue stays under its cap and holds *)
(* one entry a device at most, through refreshes, evictions and expiry.    *)
THEOREM Typing == Spec => []TypeOK
<1>1. Init => TypeOK
  <2>1. IsFiniteSet({}) /\ Cardinality({}) = 0
    BY FS_EmptySet
  <2>2. QED
    BY <2>1, ApprovalAssumption DEF Init, TypeOK, Records, PCs, Resting, Jobs
<1>2. QED
  BY <1>1, TypeStep, PTL DEF Spec
-----------------------------------------------------------------------------
(* Every entry of r was one of q, at the same generation and age; and each *)
(* of q that is not stale has one in r.                                    *)
Carried(q, r) ==
  \A p \in r : \E e \in q : e.dev = p.dev /\ e.knock_seq = p.knock_seq /\ e.stale = p.stale
Onward(q, r) == \A e \in q : ~e.stale => \E p \in r : p.dev = e.dev

LEMMA PartCarries == ASSUME NEW q, NEW r \in SUBSET q PROVE Carried(q, r)
  BY DEF Carried

LEMMA FreshCarries == Carried(items, Fresh(items)) /\ Onward(items, Fresh(items))
  BY DEF Carried, Onward, Fresh

LEMMA SameCarries == Carried(items, items) /\ Onward(items, items)
  BY DEF Carried, Onward

LEMMA ParkedCarries ==
  ASSUME TypeOK, NEW c \in Conns, NEW parked \in BOOLEAN, set_parked(c, parked)
  PROVE  Carried(items, items') /\ Onward(items, items')
<1>1. \A p \in Item : LET r == [p EXCEPT !.parked = parked]
                     IN r.dev = p.dev /\ r.knock_seq = p.knock_seq /\ r.stale = p.stale
  BY DEF Item
<1>2. items \subseteq Item /\ Mine(c) \subseteq items
  BY DEF TypeOK, Mine, Entries, Of
<1>3. items' = (items \ Mine(c)) \cup {[p EXCEPT !.parked = parked] : p \in Mine(c)}
  BY DEF set_parked
<1>4. Carried(items, items')
  <2> SUFFICES ASSUME NEW p \in items'
               PROVE  \E e \in items : e.dev = p.dev /\ e.knock_seq = p.knock_seq /\ e.stale = p.stale
    BY DEF Carried
  <2>1. CASE p \in items
    BY <2>1
  <2>2. CASE p \notin items
    <3>1. PICK e \in Mine(c) : p = [e EXCEPT !.parked = parked]
      BY <1>3, <2>2
    <3>2. e \in items /\ e \in Item
      BY <1>2
    <3>3. QED
      BY <1>1, <3>1, <3>2
  <2>3. QED
    BY <2>1, <2>2
<1>5. Onward(items, items')
  BY <1>1, <1>2, <1>3 DEF Onward
<1>6. QED
  BY <1>4, <1>5

LEMMA AgedCarries ==
  ASSUME TypeOK, NEW p \in items, Age(p)
  PROVE  /\ \A r \in items' : \E q \in items : q.dev = r.dev /\ q.knock_seq = r.knock_seq
         /\ \A r \in items' : r \in items \/ \E q \in items : q.at <= p.at /\ r.dev = q.dev
         /\ \A q \in items : \E r \in items' : r.dev = q.dev
<1>1. \A q \in Item : LET r == [q EXCEPT !.stale = TRUE] IN r.dev = q.dev /\ r.knock_seq = q.knock_seq
  BY DEF Item
<1>2. ASSUME NEW r \in items', r \notin items
      PROVE  \E q \in items : q.at <= p.at /\ q.dev = r.dev /\ q.knock_seq = r.knock_seq
  <2>1. PICK q \in items : q.at <= p.at /\ r = [q EXCEPT !.stale = TRUE]
    BY <1>2 DEF Age
  <2>2. q \in Item
    BY DEF TypeOK
  <2>3. QED
    BY <1>1, <2>1, <2>2
<1>3. ASSUME NEW q \in items PROVE \E r \in items' : r.dev = q.dev
  <2>1. q \in items' \/ [q EXCEPT !.stale = TRUE] \in items'
    BY DEF Age
  <2>2. q \in Item
    BY DEF TypeOK
  <2>3. QED
    BY <1>1, <2>1, <2>2
<1>4. QED
  BY <1>2, <1>3

(* What a step of a wait leaves of the queue.                              *)
LEMMA WaitCarries ==
  ASSUME TypeOK, NEW c \in Conns, Wait(c)
  PROVE  Carried(items, items') /\ Onward(items, items')
<1>1. CASE Park(c) \/ Unpark(c)
  BY <1>1, ParkedCarries DEF Park, Unpark
<1>2. CASE pending_contains(c)
  BY <1>2, FreshCarries DEF pending_contains
<1>3. CASE UNCHANGED items
  BY <1>3, SameCarries
<1>4. QED
  BY <1>1, <1>2, <1>3
  DEF Wait, ReadSeq, ReadPaired, ReadAdmitted, ReadAgain, Wake, GiveUp, LeaveUnparked

-----------------------------------------------------------------------------
(* The newest knock's generation.                                          *)
LEMMA AtLastCarried ==
  ASSUME NEW d \in Devices, AtLast(d),
         Carried(items, items'),
         UNCHANGED <<admitted, newest, dev, knock_seq>>,
         \A c \in Conns : pc'[c] = "again" /\ pc[c] # "again" => Entries(dev[c])' = {}
  PROVE  AtLast(d)'
<1>1. \A p \in Entries(d)' : \E e \in Entries(d) : e.knock_seq = p.knock_seq
  BY DEF Carried, Entries, Of
<1>2. QED
  BY <1>1 DEF AtLast

LEMMA AtLastKnock ==
  ASSUME TypeOK, \A e \in Devices : AtLast(e), \A b \in Conns : pc[b] = "away" => dev[b] = None,
         NEW c \in Conns, NEW d \in Devices, NEW ip \in Addresses, note_pending(c, d, ip),
         NEW e \in Devices
  PROVE  AtLast(e)'
<1>1. /\ dev' = [dev EXCEPT ![c] = d] /\ newest' = [newest EXCEPT ![d] = c]
      /\ pc' = [pc EXCEPT ![c] = "park"] /\ dev[c] = None /\ pc[c] = "away"
  BY DEF note_pending
<1>2. \A b \in Conns : newest[e] = b => b # c
  BY <1>1, ApprovalAssumption DEF AtLast
<1>3. CASE Of(Fresh(items), d) # {}
  <2>1. Refresh(d, ip, Fresh(items)) /\ admitted' = admitted
    BY <1>3 DEF note_pending, Refresh
  <2>2. PICK x \in Fresh(items), p \in Item :
           /\ x.dev = d /\ p.dev = d
           /\ items' = (Fresh(items) \ {x}) \cup {p}
           /\ knock_seq' = [b \in Conns |-> IF newest'[d] = b THEN p.knock_seq ELSE knock_seq[b]]
    BY <1>3, <2>1, Refreshed
  <2>3. CASE e = d
    <3>1. Entries(d) # {}
      BY <2>2 DEF Entries, Of, Fresh
    <3>2. admitted'[d] = None
      BY <2>1, <3>1 DEF AtLast
    <3>3. Entries(d)' = {p}
      BY <2>2 DEF Entries, Of, Fresh, TypeOK
    <3>4. newest'[d] = c /\ dev'[c] = d /\ knock_seq'[c] = p.knock_seq /\ pc'[c] # "again"
      BY <1>1, <2>2 DEF TypeOK
    <3>5. QED
      BY <2>3, <3>2, <3>3, <3>4 DEF AtLast
  <2>4. CASE e # d
    <3>1. Entries(e)' \subseteq Entries(e)
      BY <2>2, <2>4 DEF Entries, Of, Fresh
    <3>2. newest'[e] = newest[e]
      BY <1>1, <2>4 DEF TypeOK
    <3>3. \A b \in Conns : b # c => dev'[b] = dev[b] /\ knock_seq'[b] = knock_seq[b] /\ pc'[b] = pc[b]
      BY <1>1, <2>2 DEF TypeOK
    <3>4. QED
      BY <1>2, <2>1, <3>1, <3>2, <3>3 DEF AtLast
  <2>5. QED
    BY <2>3, <2>4
<1>4. CASE Of(Fresh(items), d) = {}
  <2>1. Enqueue(d, ip, Fresh(items)) /\ admitted' = [admitted EXCEPT ![d] = None]
    BY <1>4 DEF note_pending, Enqueue, DropMarker
  <2>2. PICK room \in SUBSET Fresh(items), p \in Item :
           items' = room \cup {p} /\ p.dev = d /\ p.knock_seq = 0
    BY <2>1, Enqueued
  <2>3. knock_seq' = [b \in Conns |-> IF newest'[d] = b THEN 0 ELSE knock_seq[b]]
    BY <2>1 DEF Enqueue
  <2>4. CASE e = d
    <3>1. Entries(d)' = {p}
      BY <1>4, <2>2 DEF Entries, Of
    <3>2. newest'[d] = c /\ dev'[c] = d /\ knock_seq'[c] = 0 /\ pc'[c] # "again" /\ admitted'[d] = None
      BY <1>1, <2>1, <2>3 DEF TypeOK
    <3>3. QED
      BY <2>2, <2>4, <3>1, <3>2 DEF AtLast
  <2>5. CASE e # d
    <3>1. Entries(e)' \subseteq Entries(e)
      BY <2>2, <2>5 DEF Entries, Of, Fresh
    <3>2. newest'[e] = newest[e] /\ admitted'[e] = admitted[e]
      BY <1>1, <2>1, <2>5 DEF TypeOK
    <3>3. \A b \in Conns : b # c => dev'[b] = dev[b] /\ knock_seq'[b] = knock_seq[b] /\ pc'[b] = pc[b]
      BY <1>1, <2>3 DEF TypeOK
    <3>4. QED
      BY <1>2, <3>1, <3>2, <3>3 DEF AtLast
  <2>6. QED
    BY <2>4, <2>5
<1>5. QED
  BY <1>3, <1>4

LEMMA AtLastWait ==
  ASSUME TypeOK, NEW c \in Conns, Wait(c), NEW d \in Devices, AtLast(d)
  PROVE  AtLast(d)'
<1>1. Carried(items, items')
  BY WaitCarries
<1>2. CASE LeaveUnparked(c) \/ Unpark(c)
  <2>1. Close(c)
    BY <1>2 DEF LeaveUnparked, Unpark
  <2>2. \A p \in Entries(d)' : \E e \in Entries(d) : e.knock_seq = p.knock_seq
    BY <1>1 DEF Carried, Entries, Of
  <2>3. /\ admitted' = admitted
        /\ newest'[d] = IF newest[d] = c THEN None ELSE newest[d]
        /\ \A b \in Conns : b # c => dev'[b] = dev[b] /\ knock_seq'[b] = knock_seq[b] /\ pc'[b] = pc[b]
    BY <2>1 DEF Close, Go, TypeOK
  <2>4. QED
    BY <2>2, <2>3, ApprovalAssumption DEF AtLast
<1>3. CASE pending_contains(c)
  <2>1. \A b \in Conns : pc'[b] = "again" /\ pc[b] # "again" => Entries(dev[b])' = {}
    BY <1>3 DEF pending_contains, Go, Entries, Rest, TypeOK
  <2>2. UNCHANGED <<admitted, newest, dev, knock_seq>>
    BY <1>3 DEF pending_contains, Rest
  <2>3. QED
    BY <1>1, <2>1, <2>2, AtLastCarried
<1>4. CASE \/ Park(c) \/ ReadSeq(c) \/ ReadPaired(c) \/ ReadAdmitted(c)
           \/ ReadAgain(c) \/ Wake(c) \/ GiveUp(c)
  <2>1. \A b \in Conns : pc'[b] = "again" => pc[b] = "again"
    BY <1>4 DEF Park, ReadSeq, ReadPaired, ReadAdmitted, ReadAgain, Wake, GiveUp, Decide, Go, TypeOK
  <2>2. UNCHANGED <<admitted, newest, dev, knock_seq>>
    BY <1>4 DEF Park, ReadSeq, ReadPaired, ReadAdmitted, ReadAgain, Wake, GiveUp, Rest
  <2>3. QED
    BY <1>1, <2>1, <2>2, AtLastCarried
<1>5. QED
  BY <1>2, <1>3, <1>4 DEF Wait

LEMMA AtLastElse ==
  ASSUME TypeOK, NEW d \in Devices, AtLast(d),
         \/ \E o \in Operators : Operate(o)
         \/ \E e \in Devices : Lapse(e)
         \/ \E p \in items : Age(p)
  PROVE  AtLast(d)'
<1>1. ASSUME NEW o \in Operators, admit_and_clear(o) PROVE AtLast(d)'
  <2> DEFINE a == op[o].dev
  <2>1. /\ items' = items \ Entries(a) /\ UNCHANGED <<newest, dev, knock_seq, pc>>
        /\ admitted' = [admitted EXCEPT ![a] = Generation(a, @)]
    BY <1>1 DEF admit_and_clear, connVars
  <2>2. CASE a = d
    <3>1. Entries(d)' = {}
      BY <2>1, <2>2 DEF Entries, Of
    <3>2. admitted'[d] = Generation(d, admitted[d])
      BY <2>1, <2>2 DEF TypeOK
    <3>3. ASSUME NEW c \in Conns, newest[d] = c
          PROVE  Generation(d, admitted[d]) \in {None, knock_seq[c]}
      BY <3>3 DEF Generation, AtLast
    <3>4. QED
      BY <2>1, <3>1, <3>2, <3>3 DEF AtLast
  <2>3. CASE a # d
    <3>1. Entries(d)' = Entries(d) /\ admitted'[d] = admitted[d]
      BY <2>1, <2>3 DEF Entries, Of, TypeOK
    <3>2. QED
      BY <2>1, <3>1 DEF AtLast
  <2>4. QED
    BY <2>2, <2>3
<1>2. ASSUME UNCHANGED <<admitted, connVars, newest>>, Carried(items, items') PROVE AtLast(d)'
  BY <1>2, AtLastCarried DEF connVars
<1>3. ASSUME NEW o \in Operators, Operate(o), ~admit_and_clear(o) PROVE AtLast(d)'
  <2>1. CASE \E p \in items : ApproveSource(o, p) \/ deny_pending(o, p)
    BY <1>2, <2>1, FreshCarries, PartCarries DEF ApproveSource, deny_pending
  <2>2. CASE ApproveEntry(o)
    BY <1>2, <2>2, FreshCarries DEF ApproveEntry
  <2>3. CASE UNCHANGED <<queueVars, connVars, newest>>
    BY <1>2, <2>3, SameCarries DEF queueVars
  <2>4. QED
    BY <1>3, <2>1, <2>2, <2>3 DEF Operate, StoreAdd, PairByPin, set_access, Unpair
<1>4. ASSUME NEW p \in items, Age(p) PROVE AtLast(d)'
  <2>1. \A r \in Entries(d)' : \E q \in Entries(d) : q.knock_seq = r.knock_seq
    BY <1>4, AgedCarries DEF Entries, Of
  <2>2. UNCHANGED <<admitted, connVars, newest>>
    BY <1>4 DEF Age
  <2>3. QED
    BY <2>1, <2>2 DEF AtLast, connVars
<1>5. ASSUME NEW e \in Devices, Lapse(e) PROVE AtLast(d)'
  BY <1>2, <1>5, SameCarries DEF Lapse, queueVars
<1>6. QED
  BY <1>1, <1>3, <1>4, <1>5
-----------------------------------------------------------------------------
(* The order of an approve.                                                *)
LEMMA InOrderCarried ==
  ASSUME NEW d \in Devices, InOrder(d),
         Carried(items, items'), UNCHANGED <<admitted, record>>,
         Pinned(d)' => Pinned(d), told'[d] = told[d]
  PROVE  InOrder(d)'
<1>1. Entries(d) = {} => Entries(d)' = {}
  BY DEF Carried, Entries, Of
<1>2. QED
  BY <1>1 DEF InOrder, effective

LEMMA InOrderKnock ==
  ASSUME TypeOK, NEW c \in Conns, NEW d \in Devices, NEW ip \in Addresses, note_pending(c, d, ip),
         NEW e \in Devices, InOrder(e), AtLast(e)
  PROVE  InOrder(e)'
<1>1. /\ told' = [told EXCEPT ![d] = IF record[d] = "expired" \/ Pinned(d) THEN "cut" ELSE "none"]
      /\ record' = record /\ op' = op
  BY DEF note_pending, opVars
<1>2. Pinned(e)' <=> Pinned(e)
  BY <1>1 DEF Pinned
<1>3. CASE e = d
  <2>1. admitted'[d] = None
    <3>1. CASE Of(Fresh(items), d) # {}
      <4>1. Entries(d) # {} /\ admitted' = admitted
        BY <3>1 DEF Of, Entries, Fresh, note_pending, Refresh
      <4>2. QED
        BY <1>3, <4>1 DEF AtLast
    <3>2. CASE Of(Fresh(items), d) = {}
      BY <3>2 DEF note_pending, Enqueue, DropMarker, TypeOK
    <3>3. QED
      BY <3>1, <3>2
  <2>2. told'[d] = IF record[d] = "expired" \/ Pinned(d) THEN "cut" ELSE "none"
    BY <1>1 DEF TypeOK
  <2>3. QED
    BY <1>1, <1>2, <1>3, <2>1, <2>2 DEF InOrder, effective
<1>4. CASE e # d
  <2>1. admitted'[e] = admitted[e] /\ Entries(e)' \subseteq Entries(e)
    <3>1. CASE Of(Fresh(items), d) # {}
      <4>1. PICK x \in Fresh(items), p \in Item :
               p.dev = d /\ items' = (Fresh(items) \ {x}) \cup {p}
        BY <3>1, Refreshed DEF note_pending
      <4>2. Entries(e)' \subseteq Entries(e)
        BY <1>4, <4>1 DEF Entries, Of, Fresh
      <4>3. QED
        BY <3>1, <4>2 DEF note_pending, Refresh
    <3>2. CASE Of(Fresh(items), d) = {}
      <4>1. Enqueue(d, ip, Fresh(items))
        BY <3>2 DEF note_pending
      <4>2. PICK room \in SUBSET Fresh(items), p \in Item : items' = room \cup {p} /\ p.dev = d
        BY <4>1, Enqueued
      <4>3. Entries(e)' \subseteq Entries(e)
        BY <1>4, <4>2 DEF Entries, Of, Fresh
      <4>4. QED
        BY <1>4, <4>1, <4>3 DEF Enqueue, DropMarker, TypeOK
    <3>3. QED
      BY <3>1, <3>2
  <2>2. told'[e] = told[e]
    BY <1>1, <1>4 DEF TypeOK
  <2>3. QED
    BY <1>1, <1>2, <2>1, <2>2 DEF InOrder, effective
<1>5. QED
  BY <1>3, <1>4

LEMMA InOrderWait ==
  ASSUME TypeOK, NEW c \in Conns, Wait(c), NEW d \in Devices, InOrder(d), AtLast(d)
  PROVE  InOrder(d)'
<1>1. /\ Carried(items, items') /\ UNCHANGED <<admitted, record, op>>
  BY WaitCarries DEF Wait, Park, ReadSeq, ReadPaired, ReadAdmitted, pending_contains, ReadAgain,
                     Wake, GiveUp, LeaveUnparked, Unpark, Rest, Close, opVars
<1>2. Pinned(d)' <=> Pinned(d)
  BY <1>1 DEF Pinned
<1>3. CASE told'[d] = told[d]
  BY <1>1, <1>2, <1>3, InOrderCarried
<1>4. CASE told'[d] # told[d]
  <2>1. ReadAgain(c) /\ Decide(c, "Denied") /\ ~effective(dev[c])
    BY <1>4 DEF Wait, Park, ReadSeq, ReadPaired, ReadAdmitted, pending_contains, ReadAgain,
                Wake, GiveUp, LeaveUnparked, Unpark, Close, Decide
  <2>2. newest[d] = c /\ dev[c] = d /\ told[d] = "none" /\ told'[d] = "denied"
    BY <1>4, <2>1 DEF Decide, TypeOK, AtLast
  <2>3. pc[c] = "again" /\ items' = items
    BY <2>1 DEF ReadAgain
  <2>4. Entries(d) = {} /\ admitted[d] = None
    BY <2>1, <2>2, <2>3 DEF AtLast, InOrder
  <2>5. QED
    BY <1>1, <1>2, <2>2, <2>3, <2>4 DEF InOrder, Entries, effective
<1>5. QED
  BY <1>3, <1>4

LEMMA InOrderOperate ==
  ASSUME TypeOK, NEW o \in Operators, Operate(o), NEW d \in Devices, InOrder(d)
  PROVE  InOrder(d)'
<1>1. CASE \E p \in items : ApproveSource(o, p) \/ deny_pending(o, p)
  <2>1. Carried(items, items') /\ UNCHANGED <<admitted, record, told>>
    BY <1>1, FreshCarries, PartCarries DEF ApproveSource, deny_pending
  <2>2. Pinned(d)' => Pinned(d)
    BY <1>1 DEF ApproveSource, deny_pending, Pinned, TypeOK
  <2>3. QED
    BY <2>1, <2>2, InOrderCarried
<1>2. CASE \E access \in BOOLEAN : StoreAdd(o, access)
  <2>1. PICK access \in BOOLEAN : StoreAdd(o, access)
    BY <1>2
  <2>2. /\ op[o].at = "add" /\ op' = [op EXCEPT ![o].at = "clear"]
        /\ UNCHANGED <<items, admitted, told>>
        /\ record' = [record EXCEPT ![op[o].dev] = IF access \/ @ = "none" THEN "live" ELSE @]
    BY <2>1 DEF StoreAdd, queueVars
  <2>3. CASE op[o].dev = d
    <3>1. record'[d] = IF access \/ record[d] = "none" THEN "live" ELSE record[d]
      BY <2>2, <2>3 DEF TypeOK
    <3>2. record'[d] = "live" \/ told[d] = "cut"
      BY <3>1 DEF InOrder, TypeOK, Records
    <3>3. QED
      BY <2>2, <3>2 DEF InOrder, Entries, effective
  <2>4. CASE op[o].dev # d
    <3>1. Pinned(d)' => Pinned(d)
      BY <2>2, <2>4 DEF Pinned, TypeOK
    <3>2. record'[d] = record[d]
      BY <2>2, <2>4 DEF TypeOK
    <3>3. QED
      BY <2>2, <3>1, <3>2 DEF InOrder, Entries, effective
  <2>5. QED
    BY <2>3, <2>4
<1>3. CASE ApproveEntry(o)
  <2>1. Carried(items, items') /\ UNCHANGED <<admitted, record, told>>
    BY <1>3, FreshCarries DEF ApproveEntry
  <2>2. \A i \in Operators : op'[i].at = "clear" => op'[i] = op[i]
    BY <1>3 DEF ApproveEntry, Resting, TypeOK
  <2>3. Pinned(d)' => Pinned(d)
    BY <2>2 DEF Pinned
  <2>4. QED
    BY <2>1, <2>3, InOrderCarried
<1>4. CASE admit_and_clear(o)
  <2> DEFINE a == op[o].dev
  <2>1. /\ items' = items \ Entries(a) /\ UNCHANGED <<record, told>>
        /\ admitted' = [admitted EXCEPT ![a] = Generation(a, @)]
        /\ op[o].at = "clear" /\ op' = [op EXCEPT ![o] = Resting]
    BY <1>4 DEF admit_and_clear
  <2>2. Pinned(d)' => Pinned(d)
    BY <2>1 DEF Pinned, Resting, TypeOK
  <2>3. CASE a = d
    <3>1. Pinned(d)
      BY <2>1, <2>3 DEF Pinned
    <3>2. Entries(d)' = {} /\ admitted'[d] = Generation(d, admitted[d])
      BY <2>1, <2>3 DEF Entries, Of, TypeOK
    <3>3. Entries(d) = {} => Generation(d, admitted[d]) = admitted[d]
      BY DEF Generation
    <3>4. QED
      BY <2>1, <3>1, <3>2, <3>3 DEF InOrder, effective
  <2>4. CASE a # d
    <3>1. Entries(d)' = Entries(d) /\ admitted'[d] = admitted[d]
      BY <2>1, <2>4 DEF Entries, Of, TypeOK
    <3>2. QED
      BY <2>1, <2>2, <3>1 DEF InOrder, effective
  <2>5. QED
    BY <2>3, <2>4
<1>5. CASE \E a \in Devices : PairByPin(o, a)
  <2>1. Carried(items, items') /\ UNCHANGED <<admitted, record, told>>
    BY <1>5, SameCarries DEF PairByPin, queueVars
  <2>2. \A i \in Operators : op'[i].at = "clear" => op'[i] = op[i]
    BY <1>5 DEF PairByPin, TypeOK
  <2>3. Pinned(d)' => Pinned(d)
    BY <2>2 DEF Pinned
  <2>4. QED
    BY <2>1, <2>3, InOrderCarried
<1>6. CASE \E a \in Devices : set_access(o, a) \/ Unpair(o, a)
  <2>1. PICK a \in Devices : set_access(o, a) \/ Unpair(o, a)
    BY <1>6
  <2>2. UNCHANGED <<items, admitted, op>>
    BY <2>1 DEF set_access, Unpair, queueVars
  <2>3. Entries(d)' = Entries(d) /\ (Pinned(d)' <=> Pinned(d))
    BY <2>2 DEF Entries, Pinned
  <2>4. \/ record'[d] = record[d] /\ told'[d] = told[d]
        \/ record'[d] = "live" /\ told'[d] = told[d]
        \/ told'[d] = "cut"
    BY <2>1 DEF set_access, Unpair, TypeOK
  <2>5. QED
    BY <2>2, <2>3, <2>4 DEF InOrder, effective
<1>7. QED
  BY <1>1, <1>2, <1>3, <1>4, <1>5, <1>6 DEF Operate

LEMMA InOrderTime ==
  ASSUME TypeOK, NEW d \in Devices, InOrder(d)
  PROVE  /\ \A e \in Devices : Lapse(e) => InOrder(d)'
         /\ \A p \in items : Age(p) => InOrder(d)'
<1>1. ASSUME NEW e \in Devices, Lapse(e) PROVE InOrder(d)'
  <2>1. UNCHANGED <<items, admitted, op>>
    BY <1>1 DEF Lapse, queueVars, opVars
  <2>2. Entries(d)' = Entries(d) /\ (Pinned(d)' <=> Pinned(d))
    BY <2>1 DEF Entries, Pinned
  <2>3. (record'[d] = record[d] /\ told'[d] = told[d]) \/ told'[d] = "cut"
    BY <1>1 DEF Lapse, TypeOK
  <2>4. QED
    BY <2>1, <2>2, <2>3 DEF InOrder, effective
<1>2. ASSUME NEW p \in items, Age(p) PROVE InOrder(d)'
  <2>1. UNCHANGED <<admitted, record, told, op>>
    BY <1>2 DEF Age, opVars
  <2>2. Pinned(d)' <=> Pinned(d)
    BY <2>1 DEF Pinned
  <2>3. Entries(d) = {} => Entries(d)' = {}
    BY <1>2, AgedCarries DEF Entries, Of
  <2>4. QED
    BY <2>1, <2>2, <2>3 DEF InOrder, effective
<1>3. QED
  BY <1>1, <1>2
-----------------------------------------------------------------------------
(* The waits.                                                              *)
Asleep == {"contains", "asleep"}

(* A wait none of whose own state a step moves, and whose device's record  *)
(* and entry it leaves as they were.                                       *)
LEMMA WaitingLeft ==
  ASSUME NEW c \in Conns, Waiting(c),
         dev'[c] = dev[c], pc'[c] = pc[c], woken'[c] = woken[c],
         dev[c] \notin unheard' => dev[c] \notin unheard,
         Carried(items, items'),
         dev[c] \in unheard' \/ Onward(items, items'),
         effective(dev[c])' => effective(dev[c]) \/ Pinned(dev[c])' \/ dev[c] \in unheard',
         Pinned(dev[c]) => Pinned(dev[c])'
  PROVE  Waiting(c)'
<1>1. pc[c] \in Armed \cup {"park"} => \A p \in Entries(dev[c])' : ~p.stale
  BY DEF Carried, Entries, Of, Waiting
<1>2. pc[c] = "asleep" => pc[c] \in Armed
  BY DEF Armed
<1>3. pc[c] = "asleep" /\ Entries(dev[c]) # {} /\ dev[c] \notin unheard' => Entries(dev[c])' # {}
  BY <1>2 DEF Onward, Entries, Of, Waiting
<1>4. Undecided(c)'
  BY <1>3 DEF Waiting, Undecided, Entries, Of, effective, Pinned
<1>5. QED
  BY <1>1, <1>4 DEF Waiting

(* A connection with no knock waits for nothing.                           *)
LEMMA WaitingNot ==
  ASSUME NEW c \in Conns, Waiting(c), dev[c] = None, dev'[c] = dev[c], pc'[c] = pc[c]
  PROVE  Waiting(c)'
  BY DEF Waiting, Undecided, Armed

(* One that a wake reached.                                                *)
LEMMA WaitingWoken ==
  ASSUME NEW c \in Conns, Waiting(c), TypeOK,
         dev'[c] = dev[c], pc'[c] = pc[c], notify_waiters,
         \A p \in items' : p.stale /\ p.dev = dev[c] => \E e \in items : e.dev = p.dev /\ e.stale
  PROVE  Waiting(c)'
<1>1. pc[c] \in Armed \cup {"park"} => \A p \in Entries(dev[c])' : ~p.stale
  BY DEF Entries, Of, Waiting
<1>2. pc[c] \in Asleep => woken'[c]
  BY DEF notify_waiters, Asleep, Armed
<1>3. QED
  BY <1>1, <1>2 DEF Waiting, Undecided, Asleep

LEMMA WaitingKnock ==
  ASSUME TypeOK, NEW b \in Conns, NEW d \in Devices, NEW ip \in Addresses, note_pending(b, d, ip),
         NEW c \in Conns, Waiting(c)
  PROVE  Waiting(c)'
<1>1. /\ dev' = [dev EXCEPT ![b] = d] /\ pc' = [pc EXCEPT ![b] = "park"]
      /\ record' = record /\ op' = op
  BY DEF note_pending, opVars
<1>2. /\ \A p \in items' : p.dev = d => ~p.stale
      /\ \A p \in items' : p.stale => p \in items
      /\ \/ notify_waiters
         \/ /\ UNCHANGED woken /\ unheard \subseteq unheard'
            /\ \A e \in items : ~e.stale => e.dev \in unheard' \/ e \in items'
  <2>1. CASE Of(Fresh(items), d) # {}
    <3>1. PICK x \in Fresh(items), p \in Item :
             p.dev = d /\ ~p.stale /\ items' = (Fresh(items) \ {x}) \cup {p}
      BY <2>1, Refreshed DEF note_pending
    <3>2. notify_waiters
      BY <2>1 DEF note_pending, Refresh
    <3>3. QED
      BY <3>1, <3>2 DEF Fresh
  <2>2. CASE Of(Fresh(items), d) = {}
    <3>1. Enqueue(d, ip, Fresh(items))
      BY <2>2 DEF note_pending
    <3>2. PICK room \in SUBSET Fresh(items), p \in Item :
             /\ items' = room \cup {p} /\ ~p.stale
             /\ unheard' = unheard \cup {e.dev : e \in Fresh(items) \ room}
      BY <3>1, Enqueued
    <3>3. UNCHANGED woken
      BY <3>1 DEF Enqueue
    <3>4. QED
      BY <3>2, <3>3 DEF Fresh
  <2>3. QED
    BY <2>1, <2>2
<1>3. CASE c = b
  <2>1. dev'[c] = d /\ pc'[c] = "park"
    BY <1>1, <1>3 DEF TypeOK
  <2>2. \A p \in Entries(dev[c])' : ~p.stale
    BY <1>2, <2>1 DEF Entries, Of
  <2>3. QED
    BY <2>1, <2>2, ApprovalAssumption DEF Waiting, Undecided
<1>4. CASE c # b
  <2>1. dev'[c] = dev[c] /\ pc'[c] = pc[c]
    BY <1>1, <1>4 DEF TypeOK
  <2>2. CASE notify_waiters
    BY <1>2, <2>1, <2>2, WaitingWoken
  <2>3. CASE /\ UNCHANGED woken /\ unheard \subseteq unheard'
             /\ \A e \in items : ~e.stale => e.dev \in unheard' \/ e \in items'
    <3>1. pc[c] \in Armed \cup {"park"} => \A p \in Entries(dev[c])' : ~p.stale
      BY <1>2, <2>1 DEF Waiting, Entries, Of
    <3>2. pc[c] = "asleep" /\ Entries(dev[c]) # {} /\ dev[c] \notin unheard' => Entries(dev[c])' # {}
      BY <2>1, <2>3 DEF Waiting, Entries, Of, Armed
    <3>3. Undecided(c)'
      BY <1>1, <2>1, <2>3, <3>2 DEF Waiting, Undecided, effective, Pinned
    <3>4. QED
      BY <2>1, <3>1, <3>3 DEF Waiting
  <2>4. QED
    BY <1>2, <2>2, <2>3
<1>5. QED
  BY <1>3, <1>4

LEMMA WaitingWait ==
  ASSUME TypeOK, NEW b \in Conns, Wait(b), NEW c \in Conns, Waiting(c)
  PROVE  Waiting(c)'
<1>1. /\ Carried(items, items') /\ Onward(items, items')
      /\ UNCHANGED <<record, op, unheard>>
      /\ c # b => dev'[c] = dev[c] /\ pc'[c] = pc[c] /\ woken'[c] = woken[c]
  <2>1. UNCHANGED <<record, op, unheard>>
    BY DEF Wait, Park, ReadSeq, ReadPaired, ReadAdmitted, pending_contains, ReadAgain,
           Wake, GiveUp, LeaveUnparked, Unpark, Rest, Close, opVars
  <2>2. c # b => dev'[c] = dev[c] /\ pc'[c] = pc[c] /\ woken'[c] = woken[c]
    BY DEF Wait, Park, ReadSeq, ReadPaired, ReadAdmitted, pending_contains, ReadAgain,
           Wake, GiveUp, LeaveUnparked, Unpark, Rest, Close, Decide, Go, TypeOK
  <2>3. QED
    BY <2>1, <2>2, WaitCarries
<1>2. CASE c # b
  BY <1>1, <1>2, WaitingLeft DEF effective, Pinned
<1>3. CASE c = b
  <2>1. CASE LeaveUnparked(c) \/ Unpark(c)
    <3>1. pc'[c] = "done"
      BY <2>1 DEF LeaveUnparked, Unpark, Close, Go, TypeOK
    <3>2. QED
      BY <3>1 DEF Waiting, Undecided, Armed
  <2>2. ASSUME ~(LeaveUnparked(c) \/ Unpark(c)) PROVE Waiting(c)'
    <3>1. /\ dev' = dev /\ pc[c] \in Armed \cup {"park"} /\ pc'[c] # "away"
          /\ woken' = woken \/ Wake(c)
      BY <1>3, <2>2 DEF Wait, Park, ReadSeq, ReadPaired, ReadAdmitted, pending_contains, ReadAgain,
             Wake, GiveUp, Rest, Decide, Go, TypeOK, Armed
    <3>2. \A p \in Entries(dev[c])' : ~p.stale
      BY <1>1, <3>1 DEF Carried, Entries, Of, Waiting
    <3>3. Undecided(c)'
      <4>1. CASE pc'[c] \notin Asleep
        BY <4>1 DEF Undecided, Asleep
      <4>2. CASE ReadPaired(c)
        <5>1. ~effective(dev[c])' \/ pc'[c] \notin Asleep
          BY <1>1, <3>1, <4>2 DEF ReadPaired, Go, effective, TypeOK, Asleep
        <5>2. pc'[c] # "asleep"
          BY <4>2 DEF ReadPaired, Go, TypeOK
        <5>3. QED
          BY <5>1, <5>2 DEF Undecided, Asleep
      <4>3. CASE pending_contains(c) /\ pc'[c] \in Asleep
        <5>1. pc[c] = "contains" /\ woken' = woken /\ Entries(dev[c])' # {}
          BY <3>1, <4>3 DEF pending_contains, Go, Entries, Rest, TypeOK, Asleep
        <5>2. QED
          BY <1>1, <3>1, <5>1 DEF Waiting, Undecided, effective, Pinned
      <4>4. QED
        BY <1>3, <2>2, <4>1, <4>2, <4>3
        DEF Wait, Park, ReadSeq, ReadAdmitted, ReadAgain, Wake, GiveUp, Decide, Go, TypeOK, Asleep
    <3>4. QED
      BY <3>1, <3>2, <3>3 DEF Waiting, Armed
  <2>3. QED
    BY <2>1, <2>2
<1>4. QED
  BY <1>2, <1>3

LEMMA WaitingOperate ==
  ASSUME TypeOK, NEW o \in Operators, Operate(o), NEW c \in Conns, Waiting(c)
  PROVE  Waiting(c)'
<1>1. dev' = dev /\ pc' = pc
  BY DEF Operate, ApproveSource, deny_pending, StoreAdd, ApproveEntry, admit_and_clear, PairByPin,
         set_access, Unpair, connVars
<1>2. CASE admit_and_clear(o) \/ \E p \in items : deny_pending(o, p)
  BY <1>1, <1>2, WaitingWoken DEF admit_and_clear, deny_pending
<1>3. ASSUME Carried(items, items'), Onward(items, items'), UNCHANGED <<record, woken, unheard>>,
             \A i \in Operators : op[i].at = "clear" => op'[i] = op[i]
      PROVE  Waiting(c)'
  <2>1. Pinned(dev[c]) => Pinned(dev[c])'
    BY <1>1, <1>3 DEF Pinned
  <2>2. QED
    BY <1>1, <1>3, <2>1, WaitingLeft DEF effective
<1>4. CASE ApproveEntry(o) \/ \E p \in items : ApproveSource(o, p)
  <2>1. \A i \in Operators : op[i].at = "clear" => op'[i] = op[i]
    BY <1>4 DEF ApproveEntry, ApproveSource, Begins, TypeOK
  <2>2. QED
    BY <1>3, <1>4, <2>1, FreshCarries DEF ApproveEntry, ApproveSource
<1>5. CASE \E d \in Devices : PairByPin(o, d)
  <2>1. \A i \in Operators : op[i].at = "clear" => op'[i] = op[i]
    BY <1>5 DEF PairByPin, Begins, TypeOK
  <2>2. QED
    BY <1>3, <1>5, <2>1, SameCarries DEF PairByPin, queueVars
<1>6. CASE \E access \in BOOLEAN : StoreAdd(o, access)
  <2>1. PICK access \in BOOLEAN : StoreAdd(o, access)
    BY <1>6
  <2>2. /\ op[o].at = "add" /\ op' = [op EXCEPT ![o].at = "clear"]
        /\ UNCHANGED <<items, woken, unheard>>
        /\ record' = [record EXCEPT ![op[o].dev] = IF access \/ @ = "none" THEN "live" ELSE @]
    BY <2>1 DEF StoreAdd, queueVars
  <2>3. Pinned(dev[c]) => Pinned(dev[c])'
    BY <1>1, <2>2 DEF Pinned, TypeOK
  <2>4. CASE dev[c] = None
    BY <1>1, <2>4, WaitingNot
  <2>5. CASE dev[c] \in Devices
    <3>1. record'[dev[c]] = "live" => record[dev[c]] = "live" \/ op[o].dev = dev[c]
      BY <2>2, <2>5 DEF TypeOK
    <3>2. op[o].dev = dev[c] => Pinned(dev[c])'
      BY <1>1, <2>2 DEF Pinned, TypeOK
    <3>3. QED
      BY <1>1, <2>2, <2>3, <3>1, <3>2, SameCarries, WaitingLeft DEF effective
  <2>6. QED
    BY <2>4, <2>5 DEF TypeOK
<1>7. CASE \E d \in Devices : set_access(o, d) \/ Unpair(o, d)
  <2>1. PICK d \in Devices : set_access(o, d) \/ Unpair(o, d)
    BY <1>7
  <2>2. /\ UNCHANGED <<items, woken, op>> /\ unheard \subseteq unheard'
        /\ \/ record' = [record EXCEPT ![d] = "none"]
           \/ d \in unheard' /\ record' = [record EXCEPT ![d] = "live"]
    BY <2>1 DEF set_access, Unpair, queueVars
  <2>3. CASE dev[c] = None
    BY <1>1, <2>3, WaitingNot
  <2>4. CASE dev[c] \in Devices
    <3>1. record'[dev[c]] = "live" => record[dev[c]] = "live" \/ dev[c] \in unheard'
      BY <2>2, <2>4 DEF TypeOK
    <3>2. QED
      BY <1>1, <2>2, <3>1, SameCarries, WaitingLeft DEF Pinned, effective
  <2>5. QED
    BY <2>3, <2>4 DEF TypeOK
<1>8. QED
  BY <1>2, <1>4, <1>5, <1>6, <1>7 DEF Operate

LEMMA WaitingTime ==
  ASSUME TypeOK, NEW c \in Conns, Waiting(c)
  PROVE  /\ \A d \in Devices : Lapse(d) => Waiting(c)'
         /\ \A p \in items : Age(p) => Waiting(c)'
<1>1. ASSUME NEW d \in Devices, Lapse(d) PROVE Waiting(c)'
  <2>1. UNCHANGED <<items, woken, op, unheard, pc, dev>>
    BY <1>1 DEF Lapse, queueVars, connVars, opVars
  <2>2. CASE dev[c] = None
    BY <2>1, <2>2, WaitingNot
  <2>3. CASE dev[c] \in Devices
    <3>1. record'[dev[c]] = "live" => record[dev[c]] = "live"
      BY <1>1, <2>3 DEF Lapse, TypeOK
    <3>2. QED
      BY <2>1, <3>1, SameCarries, WaitingLeft DEF Pinned, effective
  <2>4. QED
    BY <2>2, <2>3 DEF TypeOK
<1>2. ASSUME NEW p \in items, Age(p) PROVE Waiting(c)'
  <2>1. UNCHANGED <<record, woken, op, unheard, pc, dev>>
    BY <1>2 DEF Age, connVars, opVars
  <2>2. ASSUME pc[c] \in Armed \cup {"park"}, NEW r \in Entries(dev[c])' PROVE ~r.stale
    <3>1. r \in items' /\ r.dev = dev[c]
      BY <2>1 DEF Entries, Of
    <3>2. \A q \in items : q.at <= p.at => q.dev # dev[c]
      BY <1>2, <2>2 DEF Age
    <3>3. r \in items
      BY <1>2, <3>1, <3>2, AgedCarries
    <3>4. QED
      BY <2>2, <3>1, <3>3 DEF Waiting, Entries, Of
  <2>3. Entries(dev[c]) # {} => Entries(dev[c])' # {}
    BY <1>2, <2>1, AgedCarries DEF Entries, Of
  <2>4. QED
    BY <2>1, <2>2, <2>3 DEF Waiting, Undecided, effective, Pinned
<1>3. QED
  BY <1>1, <1>2
-----------------------------------------------------------------------------
LEMMA Inductive == Spec => []IInv
<1>1. Init => IInv
  <2>1. IsFiniteSet({}) /\ Cardinality({}) = 0
    BY FS_EmptySet
  <2> SUFFICES ASSUME Init PROVE IInv
    OBVIOUS
  <2>2. TypeOK
    BY <2>1, ApprovalAssumption DEF Init, TypeOK, Records, PCs, Resting, Jobs
  <2>3. \A d \in Devices : InOrder(d) /\ AtLast(d)
    BY ApprovalAssumption DEF Init, InOrder, AtLast, Entries, Of, Pinned, Resting
  <2>4. \A c \in Conns : Waiting(c)
    BY DEF Init, Waiting, Undecided, Armed
  <2>5. QED
    BY <2>2, <2>3, <2>4 DEF IInv
<1>2. IInv /\ [Next]_vars => IInv'
  <2> SUFFICES ASSUME IInv, [Next]_vars PROVE IInv'
    OBVIOUS
  <2>1. TypeOK /\ TypeOK'
    BY TypeStep DEF IInv
  <2>2. CASE UNCHANGED vars
    BY <2>1, <2>2
    DEF IInv, vars, queueVars, connVars, opVars, InOrder, AtLast, Waiting, Undecided, Entries, Pinned, effective
  <2>3. CASE \E c \in Conns : Wait(c)
    BY <2>1, <2>3, InOrderWait, AtLastWait, WaitingWait DEF IInv
  <2>4. CASE \E c \in Conns, d \in Devices, ip \in Addresses : note_pending(c, d, ip)
    BY <2>1, <2>4, InOrderKnock, AtLastKnock, WaitingKnock DEF IInv, Waiting
  <2>5. CASE \E o \in Operators : Operate(o)
    BY <2>1, <2>5, InOrderOperate, AtLastElse, WaitingOperate DEF IInv
  <2>6. CASE (\E d \in Devices : Lapse(d)) \/ (\E p \in items : Age(p))
    BY <2>1, <2>6, InOrderTime, AtLastElse, WaitingTime DEF IInv
  <2>7. QED
    BY <2>2, <2>3, <2>4, <2>5, <2>6 DEF Next
<1>3. QED
  BY <1>1, <1>2, PTL DEF Spec

(* An approve pins in the store before it clears the queue, and a wait     *)
(* reads them the other way round: with any number of connections and      *)
(* console requests, an admitted knock is not told it was denied.          *)
THEOREM AdmittedKnocks == Spec => []AdmittedIsNotDenied
<1>1. IInv => AdmittedIsNotDenied
  BY DEF IInv, InOrder, AdmittedIsNotDenied
<1>2. QED
  BY <1>1, Inductive, PTL

(* No decision falls between a wait's reads and its sleep: a sleeping wait *)
(* has an entry that is not decided, or a wake on its way.                 *)
THEOREM SleepersAreUndecided == Spec => []NoSleepOnDecided
<1>1. IInv => NoSleepOnDecided
  BY DEF IInv, Waiting, Undecided, NoSleepOnDecided
<1>2. QED
  BY <1>1, Inductive, PTL

(* The newest knock of a device is never told that a newer one replaced it.*)
THEOREM NewestWins == Spec => NewestIsNotSuperseded
<1>1. IInv /\ [Next]_vars =>
        [\A c \in Conns :
           answer'[c] = "Superseded" /\ answer[c] # "Superseded" => newest[dev[c]] # c]_vars
  <2> SUFFICES ASSUME IInv, Next, NEW c \in Conns,
                      answer'[c] = "Superseded", answer[c] # "Superseded"
               PROVE  newest[dev[c]] # c
    OBVIOUS
  <2>1. PICK b \in Conns : Wait(b)
    BY DEF Next, note_pending, Operate, ApproveSource, deny_pending, StoreAdd, ApproveEntry, admit_and_clear,
           PairByPin, set_access, Unpair, Lapse, Age, connVars
  <2>2. b = c
    BY <2>1
    DEF Wait, Park, ReadSeq, ReadPaired, ReadAdmitted, pending_contains, ReadAgain, Wake, GiveUp,
        LeaveUnparked, Unpark, Close, Decide, IInv, TypeOK
  <2>3. \/ ReadSeq(c) /\ Replaced(c)
        \/ ReadAdmitted(c) /\ admitted[dev[c]] \notin {None, knock_seq[c]}
    BY <2>1, <2>2
    DEF Wait, Park, ReadSeq, ReadPaired, ReadAdmitted, pending_contains, ReadAgain, Wake, GiveUp,
        LeaveUnparked, Unpark, Close, Decide, IInv, TypeOK
  <2>4. dev[c] \in Devices
    BY <2>3 DEF ReadSeq, ReadAdmitted, IInv, TypeOK, Waiting
  <2>5. QED
    BY <2>3, <2>4 DEF IInv, AtLast, Replaced
<1>2. QED
  BY <1>1, Inductive, PTL DEF Spec, NewestIsNotSuperseded
================================================================================
