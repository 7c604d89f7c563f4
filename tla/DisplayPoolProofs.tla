--------------------------- MODULE DisplayPoolProofs ---------------------------
(***************************************************************************)
(* Proofs about DisplayPool, for any sessions, hosts, requests, policies   *)
(* and bounds.                                                             *)
(***************************************************************************)
EXTENDS DisplayPool, FiniteSetTheorems, SequenceTheorems, TLAPS

(* What a session has in hand where it stands in acquire: no lease before  *)
(* a display is claimed or filed, no superseded display outside a mode     *)
(* switch, and as many slot guards as a pre-warm and the acquire beneath it*)
(* can have taken.                                                         *)
Leaseless == {"idle", "park", "held", "join", "slot", "probe", "claim", "badcast", "retire",
              "own", "evict", "create", "push"}
Settled   == {"idle", "park", "held", "live", "parked", "swapretire"}
Streaming == {"join", "joincast", "first", "drop", "live", "swapdrop", "swapretire"}

Own(s) == IF req[s].park THEN 1 ELSE 0
SlotCap(s) ==
  IF pc[s] \in Streaming \cup {"idle", "park"} THEN 0
  ELSE IF pc[s] \in {"held", "slot", "parked"} THEN Own(s) ELSE Own(s) + 1

InHand(s) ==
  /\ pc[s] # "idle" => req[s] \in RequestType
  /\ pc[s] \in Leaseless => lease[s] = None
  /\ pc[s] \in Settled => old[s] = None
  /\ pc[s] # "idle" /\ req[s].park => old[s] = None
  /\ pc[s] \in Streaming => ~req[s].park
  /\ pc[s] \in {"park", "held", "parked"} => req[s].park
  /\ pc[s] = "push" => mine[s] \in Nat
  /\ slots[s] <= SlotCap(s)

PoolTyped ==
  /\ pool \in [DOMAIN pool -> Entry] /\ DOMAIN pool \subseteq 1..pushed
  /\ dying \in [Threads -> SUBSET (Nat \X RequestType)]
  /\ \A t \in Threads : IsFiniteSet(dying[t])

Typed ==
  /\ TypeOK
  /\ \A t \in Threads : IsFiniteSet(dying[t])
  /\ \A s \in Sessions : InHand(s)
-----------------------------------------------------------------------------
(* The first of a set of places in the pool is one of them.                *)
LEMMA FirstIsIn ==
  ASSUME NEW I \in SUBSET Nat, I # {}
  PROVE  First(I) \in I /\ \A j \in I : First(I) <= j
<1> DEFINE R == OpToRel(<, Nat)
<1>1. \E i \in I : \A j \in I : ~(<<j, i>> \in R)
  <2>1. IsWellFoundedOn(R, Nat)
    BY NatLessThanWellFounded
  <2> HIDE DEF R
  <2>2. QED
    BY <2>1, WFMin
<1>2. PICK i \in I : \A j \in I : ~(<<j, i>> \in R)
  BY <1>1
<1>3. \A m, n \in Nat : <<n, m>> \in R <=> n < m
  BY DEF OpToRel
<1>4. \A j \in I : i <= j
  <2> SUFFICES ASSUME NEW j \in I PROVE i <= j
    OBVIOUS
  <2>1. ~(j < i)
    BY <1>2, <1>3
  <2>2. QED
    BY <2>1
<1>5. QED
  BY <1>4 DEF First

(* What a release leaves, whatever it finds.                               *)
LEMMA ReleaseTyped ==
  ASSUME NEW st \in States, NEW t \in Nat, NEW l \in Lingers
  PROVE  release(st, t, l) \in States
<1>1. CASE st.kind = "active" /\ st.refs > 1
  BY <1>1 DEF release, States, Active
<1>2. CASE st.kind = "active" /\ st.refs <= 1
  <2>1. release(st, t, l) = LastLeaves(st, t, l)
    BY <1>2 DEF release, States
  <2>2. l.kind \in {"immediate", "for", "forever"} /\ l.window \in Nat
    BY DEF Lingers
  <2>3. QED
    BY <2>1, <2>2 DEF LastLeaves, States, Idle, Lingering, Pinned
<1>3. CASE st.kind # "active"
  BY <1>3 DEF release
<1>4. QED
  BY <1>1, <1>2, <1>3 DEF States

(* It takes one reference, and leaves the display Active exactly while one *)
(* is left.                                                                *)
LEMMA ReleaseTakes ==
  ASSUME NEW st \in States, NEW t \in Nat, NEW l \in Lingers,
         st.kind = "active", st.refs >= 1
  PROVE  /\ release(st, t, l) \in States
         /\ release(st, t, l).refs = st.refs - 1
         /\ release(st, t, l).kind = "active" <=> st.refs > 1
<1>1. CASE st.refs > 1
  BY <1>1 DEF release, States, Active
<1>2. CASE st.refs <= 1
  <2>1. release(st, t, l) = LastLeaves(st, t, l) /\ st.refs = 1
    BY <1>2 DEF release, States
  <2>2. l.kind \in {"immediate", "for", "forever"} /\ l.window \in Nat
    BY DEF Lingers
  <2>3. /\ LastLeaves(st, t, l) \in States /\ LastLeaves(st, t, l).refs = 0
        /\ LastLeaves(st, t, l).kind # "active"
    BY <2>2 DEF LastLeaves, States, Idle, Lingering, Pinned
  <2>4. QED
    BY <1>2, <2>1, <2>3
<1>3. QED
  BY <1>1, <1>2 DEF States

LEMMA AcquireTyped ==
  ASSUME NEW st \in States
  PROVE  acquire(st) \in States
  BY DEF acquire, States, Active

LEMMA LingerTyped ==
  ASSUME NEW e, NEW quit \in BOOLEAN, NEW policy \in Lingers
  PROVE  LingerOf(e, quit, policy) \in Lingers
  BY DEF LingerOf, effective_linger, Lingers, Immediate, Forever

(* The displays taken out are finitely many.                               *)
LEMMA TakenFinite ==
  ASSUME Typed, NEW I \in SUBSET DOMAIN pool
  PROVE  /\ IsFiniteSet(I)
         /\ IsFiniteSet({<<i, pool[i].req>> : i \in I})
         /\ Cardinality({<<i, pool[i].req>> : i \in I}) = Cardinality(I)
<1>1. pushed \in Int /\ I \subseteq 1..pushed
  BY DEF Typed, TypeOK
<1>2. IsFiniteSet(I)
  <2>1. IsFiniteSet(1..pushed)
    BY <1>1, FS_Interval
  <2>2. QED
    BY <1>1, <2>1, FS_Subset
<1> DEFINE T == {<<i, pool[i].req>> : i \in I}
           f == [i \in I |-> <<i, pool[i].req>>]
<1>3. f \in Surjection(I, T) /\ f \in Injection(I, T)
  BY DEF Surjection, Injection, IsInjective
<1>4. QED
  BY <1>2, <1>3, FS_Surjection

LEMMA RemoveTyped ==
  ASSUME Typed, NEW t \in Threads, NEW I \in SUBSET DOMAIN pool, Remove(t, I), pushed' = pushed
  PROVE  PoolTyped'
<1> DEFINE T == {<<i, pool[i].req>> : i \in I}
<1>1. IsFiniteSet(T) /\ T \subseteq Nat \X RequestType
  <2>1. IsFiniteSet(T)
    BY TakenFinite
  <2>2. \A i \in I : i \in Nat /\ pool[i].req \in RequestType
    BY DEF Typed, TypeOK, Entry
  <2>3. QED
    BY <2>1, <2>2
<1>2. dying' = [dying EXCEPT ![t] = @ \cup T]
  BY DEF Remove
<1> HIDE DEF T
<1>3. dying' \in [Threads -> SUBSET (Nat \X RequestType)]
  BY <1>1, <1>2 DEF Typed, TypeOK
<1>4. \A u \in Threads : IsFiniteSet(dying'[u])
  BY <1>1, <1>2, FS_Union DEF Typed, TypeOK
<1>5. pool' \in [DOMAIN pool' -> Entry] /\ DOMAIN pool' \subseteq 1..pushed'
  BY DEF Remove, Typed, TypeOK
<1>6. QED
  BY <1>3, <1>4, <1>5 DEF PoolTyped

LEMMA DropTyped ==
  ASSUME Typed, NEW t \in Threads, NEW g, NEW quit \in BOOLEAN, NEW policy \in Lingers,
         drop_lease(t, g, quit, policy)
  PROVE  PoolTyped'
<1> DEFINE after(i) == release(pool[i].life, now, LingerOf(pool[i], quit, policy))
           torn == {i \in Named(g) : TearsDown(pool[i].life, now, LingerOf(pool[i], quit, policy))}
           T == {<<i, pool[i].req>> : i \in torn}
<1>1. torn \in SUBSET DOMAIN pool
  BY DEF Named
<1>2. IsFiniteSet(T) /\ T \subseteq Nat \X RequestType
  <2>1. IsFiniteSet(T)
    BY <1>1, TakenFinite
  <2>2. \A i \in torn : i \in Nat /\ pool[i].req \in RequestType
    BY <1>1 DEF Typed, TypeOK, Entry
  <2>3. QED
    BY <2>1, <2>2
<1>3. /\ dying' = [dying EXCEPT ![t] = @ \cup T]
      /\ pool' = [i \in DOMAIN pool \ torn |->
                    IF i \in Named(g) THEN [pool[i] EXCEPT !.life = after(i)] ELSE pool[i]]
      /\ pushed' = pushed
  BY DEF drop_lease
<1>4. \A i \in DOMAIN pool : after(i) \in States
  BY LingerTyped, ReleaseTyped DEF Typed, TypeOK, Entry
<1> HIDE DEF T, torn, after
<1>5. dying' \in [Threads -> SUBSET (Nat \X RequestType)]
  BY <1>2, <1>3 DEF Typed, TypeOK
<1>6. \A u \in Threads : IsFiniteSet(dying'[u])
  BY <1>2, <1>3, FS_Union DEF Typed, TypeOK
<1>7. pool' \in [DOMAIN pool' -> Entry] /\ DOMAIN pool' \subseteq 1..pushed'
  <2>1. DOMAIN pool \subseteq 1..pushed /\ \A i \in DOMAIN pool : pool[i] \in Entry
    BY DEF Typed, TypeOK
  <2>2. \A i \in DOMAIN pool : [pool[i] EXCEPT !.life = after(i)] \in Entry
    BY <1>4, <2>1 DEF Entry
  <2> QED
    BY <1>3, <2>1, <2>2
<1>8. QED
  BY <1>5, <1>6, <1>7 DEF PoolTyped

Slot == STRING \X STRING \X Sessions

LEMMA DropSlotTyped ==
  ASSUME NEW busy \in Seq(Slot), NEW k
  PROVE  DropSlot(busy, k) \in Seq(Slot)
<1> DEFINE held == {n \in DOMAIN busy : <<busy[n][1], busy[n][2]>> = k}
<1>1. CASE held = {}
  BY <1>1 DEF DropSlot
<1>2. CASE held # {}
  <2>1. Len(busy) \in Nat \ {0} /\ busy \in [1..Len(busy) -> Slot]
    BY <1>2, LenProperties
  <2>2. DropSlot(busy, k) =
          [n \in 1..(Len(busy) - 1) |-> IF n = First(held) THEN busy[Len(busy)] ELSE busy[n]]
    BY <1>2 DEF DropSlot
  <2>3. DropSlot(busy, k) \in [1..(Len(busy) - 1) -> Slot]
    BY <2>1, <2>2
  <2>4. Len(busy) - 1 \in Nat
    BY <2>1
  <2>5. QED
    BY <2>3, <2>4, SeqDef
<1>3. QED
  BY <1>1, <1>2

LEMMA DropSlotsTyped ==
  ASSUME Typed, NEW s \in Sessions, NEW n \in 0..2, n <= slots[s], DropSlots(s, n)
  PROVE  /\ creating' \in Seq(Slot)
         /\ slots' = [slots EXCEPT ![s] = @ - n]
         /\ slots'[s] = slots[s] - n
         /\ slots' \in [Sessions -> 0..2]
<1>1. creating \in Seq(Slot) /\ slots \in [Sessions -> 0..2]
  BY DEF Typed, TypeOK, Slot
<1>2. \/ creating' = creating
      \/ creating' = DropSlot(creating, slot_key(req[s]))
      \/ creating' = DropSlot(DropSlot(creating, slot_key(req[s])), slot_key(req[s]))
  BY DEF DropSlots
<1>3. creating' \in Seq(Slot)
  BY <1>1, <1>2, DropSlotTyped
<1>4. QED
  BY <1>1, <1>3 DEF DropSlots

(* A step of session s writes its own entries of the sessions' variables.  *)
OwnOnly(s) ==
  /\ pc' = [pc EXCEPT ![s] = pc'[s]] /\ req' = [req EXCEPT ![s] = req'[s]]
  /\ seen' = [seen EXCEPT ![s] = seen'[s]] /\ lease' = [lease EXCEPT ![s] = lease'[s]]
  /\ old' = [old EXCEPT ![s] = old'[s]] /\ mine' = [mine EXCEPT ![s] = mine'[s]]
  /\ doomed' = [doomed EXCEPT ![s] = doomed'[s]] /\ reused' = [reused EXCEPT ![s] = reused'[s]]
  /\ slots' = [slots EXCEPT ![s] = slots'[s]]

(* The pool is in push order.                                              *)
LEMMA PoolIsNumbered ==
  ASSUME Typed
  PROVE  DOMAIN pool \in SUBSET Nat
<1>1. DOMAIN pool \subseteq 1..pushed /\ pushed \in Nat
  BY DEF Typed, TypeOK
<1>2. QED
  BY <1>1

(* What the rest of the state is, beside the pool and the sessions.        *)
HostTyped ==
  /\ host \in Hosts
  /\ generation \in Nat /\ pushed \in Nat /\ epoch \in Nat /\ now \in Nat /\ late \in Nat
  /\ listed \in Int /\ begun \in Nat
  /\ outgoing \in STRING \cup {None}
  /\ stage \in {"run", "closing", "stopping", "exited"}

EntriesTyped(s) ==
  /\ pc[s] \in PCs /\ req[s] \in RequestType \cup {None} /\ seen[s] \in Nat
  /\ lease[s] \in Nat \cup {None} /\ old[s] \in Nat \cup {None} /\ mine[s] \in Nat \cup {None}
  /\ doomed[s] \in SUBSET Nat /\ reused[s] \in BOOLEAN /\ slots[s] \in 0..2

LEMMA TypedParts ==
  Typed <=> /\ PoolTyped /\ HostTyped /\ creating \in Seq(Slot)
            /\ pc \in [Sessions -> PCs] /\ req \in [Sessions -> RequestType \cup {None}]
            /\ seen \in [Sessions -> Nat] /\ lease \in [Sessions -> Nat \cup {None}]
            /\ old \in [Sessions -> Nat \cup {None}] /\ mine \in [Sessions -> Nat \cup {None}]
            /\ doomed \in [Sessions -> SUBSET Nat] /\ reused \in [Sessions -> BOOLEAN]
            /\ slots \in [Sessions -> 0..2]
            /\ \A s \in Sessions : EntriesTyped(s) /\ InHand(s)
<1>1. ASSUME TypeOK, NEW s \in Sessions PROVE EntriesTyped(s)
  BY <1>1 DEF TypeOK, EntriesTyped
<1>2. QED
  BY <1>1 DEF Typed, TypeOK, PoolTyped, HostTyped, Slot

(* So such a step leaves the state typed if it leaves s and the rest typed.*)
LEMMA SessionTyped ==
  ASSUME Typed, NEW s \in Sessions, OwnOnly(s), PoolTyped', HostTyped', creating' \in Seq(Slot),
         EntriesTyped(s)', InHand(s)'
  PROVE  Typed'
<1>1. /\ pc' \in [Sessions -> PCs] /\ req' \in [Sessions -> RequestType \cup {None}]
      /\ seen' \in [Sessions -> Nat] /\ lease' \in [Sessions -> Nat \cup {None}]
      /\ old' \in [Sessions -> Nat \cup {None}] /\ mine' \in [Sessions -> Nat \cup {None}]
      /\ doomed' \in [Sessions -> SUBSET Nat] /\ reused' \in [Sessions -> BOOLEAN]
      /\ slots' \in [Sessions -> 0..2]
  BY DEF Typed, TypeOK, OwnOnly, EntriesTyped
<1>2. ASSUME NEW q \in Sessions \ {s} PROVE EntriesTyped(q)' /\ InHand(q)'
  <2>1. EntriesTyped(q) /\ InHand(q)
    BY TypedParts
  <2>2. /\ pc'[q] = pc[q] /\ req'[q] = req[q] /\ lease'[q] = lease[q] /\ seen'[q] = seen[q]
        /\ old'[q] = old[q] /\ mine'[q] = mine[q] /\ slots'[q] = slots[q]
        /\ doomed'[q] = doomed[q] /\ reused'[q] = reused[q]
    BY DEF Typed, TypeOK, OwnOnly
  <2>3. QED
    BY <2>1, <2>2 DEF EntriesTyped, InHand, SlotCap, Own
<1>3. QED
  <2>1. \A q \in Sessions : EntriesTyped(q)' /\ InHand(q)'
    BY <1>2
  <2>2. QED
    BY <1>1, <2>1 DEF Typed, TypeOK, PoolTyped, HostTyped, Slot

-----------------------------------------------------------------------------
(* The types hold initially, and through every action.                     *)
LEMMA InitTyped == Init => Typed
<1> SUFFICES ASSUME Init PROVE Typed
  OBVIOUS
<1>1. TypeOK
  BY PoolAssumption DEF Init, TypeOK, PCs, Threads
<1>2. \A t \in Threads : IsFiniteSet(dying[t])
  BY FS_EmptySet DEF Init
<1>3. \A s \in Sessions : InHand(s)
  BY DEF Init, InHand, SlotCap, Leaseless, Settled, Streaming
<1>4. QED
  BY <1>1, <1>2, <1>3 DEF Typed

(* Which actions of one session these are: every one.                      *)
LEMMA OwnEntries ==
  ASSUME Typed, NEW s \in Sessions,
         (\E r \in host.requests : Begin(s, r)) \/ Works(s) \/ Acts(s)
  PROVE  OwnOnly(s)
<1> USE DEF Typed, TypeOK, OwnOnly, Go
<1>1. ASSUME NEW r \in host.requests, Begin(s, r) PROVE OwnOnly(s)
  BY <1>1 DEF Begin
<1>2. CASE TakeSlot(s)
  BY <1>2 DEF TakeSlot
<1>3. CASE ParkHeld(s)
  BY <1>3 DEF ParkHeld, DropSlots
<1>4. CASE JoinLive(s)
  BY <1>4 DEF JoinLive
<1>5. CASE Probe(s)
  BY <1>5 DEF Probe
<1>6. CASE BadCast(s)
  BY <1>6 DEF BadCast, Fail, Return, DropSlots
<1>7. ASSUME NEW alive \in BOOLEAN, NEW resized \in BOOLEAN, Claim(s, alive, resized) PROVE OwnOnly(s)
  BY <1>7 DEF Claim, Returned, Return, DropSlots
<1>8. CASE Retire(s)
  BY <1>8 DEF Retire, Doom
<1>9. CASE RetireOwn(s)
  BY <1>9 DEF RetireOwn, Doom
<1>10. CASE Evict(s)
  BY <1>10 DEF Evict, Doom
<1>11. CASE ReleaseDoomed(s)
  BY <1>11 DEF ReleaseDoomed
<1>12. CASE Create(s)
  BY <1>12 DEF Create, Fail, Return, DropSlots
<1>13. CASE Push(s)
  BY <1>13 DEF Push
<1>14. CASE TellCreated(s)
  BY <1>14 DEF TellCreated, Returned, Return, DropSlots
<1>15. CASE FirstFrame(s)
  BY <1>15 DEF FirstFrame
<1>16. CASE SwapRetire(s)
  BY <1>16 DEF SwapRetire
<1>17. ASSUME NEW quit \in BOOLEAN, NEW policy \in host.policies, JoinCast(s, quit, policy) PROVE OwnOnly(s)
  BY <1>17 DEF JoinCast
<1>18. ASSUME NEW quit \in BOOLEAN, NEW policy \in host.policies, Attach(s, quit, policy) PROVE OwnOnly(s)
  BY <1>18 DEF Attach, Return, DropSlots
<1>19. ASSUME NEW quit \in BOOLEAN, NEW policy \in host.policies, DropFailed(s, quit, policy) PROVE OwnOnly(s)
  BY <1>19 DEF DropFailed, Fail, Return, DropSlots
<1>20. ASSUME NEW quit \in BOOLEAN, NEW policy \in host.policies, SwapDrop(s, quit, policy) PROVE OwnOnly(s)
  BY <1>20 DEF SwapDrop
<1>21. ASSUME NEW policy \in host.policies, Unpark(s, policy) PROVE OwnOnly(s)
  BY <1>21 DEF Unpark, DropSlots
<1>22. ASSUME NEW quit \in BOOLEAN, NEW policy \in host.policies, Leave(s, quit, policy) PROVE OwnOnly(s)
  BY <1>22 DEF Leave
<1>23. CASE SlotTimeout(s)
  BY <1>23 DEF SlotTimeout
<1>24. QED
  BY <1>1, <1>2, <1>3, <1>4, <1>5, <1>6, <1>7, <1>8, <1>9, <1>10, <1>11, <1>12, <1>13, <1>14,
     <1>15, <1>16, <1>17, <1>18, <1>19, <1>20, <1>21, <1>22, <1>23
     DEF Works, Acts

(* What a step of one session leaves in its own hands.                     *)
LEMMA OwnHands ==
  ASSUME Typed, NEW s \in Sessions,
         (\E r \in host.requests : Begin(s, r)) \/ Works(s) \/ Acts(s)
  PROVE  EntriesTyped(s)' /\ InHand(s)'
<1>t. EntriesTyped(s) /\ InHand(s)
  BY TypedParts
<1>d. /\ pc \in [Sessions -> PCs] /\ req \in [Sessions -> RequestType \cup {None}]
      /\ seen \in [Sessions -> Nat] /\ lease \in [Sessions -> Nat \cup {None}]
      /\ old \in [Sessions -> Nat \cup {None}] /\ mine \in [Sessions -> Nat \cup {None}]
      /\ doomed \in [Sessions -> SUBSET Nat] /\ reused \in [Sessions -> BOOLEAN]
      /\ slots \in [Sessions -> 0..2]
  BY TypedParts
<1>p. /\ \A i \in DOMAIN pool : pool[i].gen \in Nat /\ pool[i].req \in RequestType
      /\ DOMAIN pool \in SUBSET Nat
      /\ epoch \in Nat /\ generation \in Nat
  BY DEF Typed, TypeOK, Entry
<1> USE DEF Go
<1>1. ASSUME NEW r \in host.requests, Begin(s, r) PROVE EntriesTyped(s)' /\ InHand(s)'
  <2>1. r \in RequestType /\ r.park \in BOOLEAN
    BY PoolAssumption DEF Typed, TypeOK, RequestType
  <2>2. /\ pc'[s] = IF r.park THEN "park" ELSE IF r.join THEN "join" ELSE ToSlot(r)
        /\ req'[s] = r /\ old'[s] = lease[s] /\ lease'[s] = None /\ slots'[s] = slots[s]
        /\ seen'[s] \in {seen[s], epoch} /\ reused'[s] = FALSE /\ mine'[s] = mine[s]
        /\ doomed'[s] = doomed[s]
        /\ pc[s] \in {"idle", "live"}
        /\ pc[s] = "live" => ~r.park
    BY <1>1, <1>d DEF Begin
  <2>3. pc'[s] \in {"park", "join", "slot", "probe"} /\ (r.park <=> pc'[s] = "park")
    BY <2>1, <2>2 DEF ToSlot
  <2>4. slots[s] = 0 /\ (r.park => lease[s] = None)
    BY <1>t, <2>2 DEF EntriesTyped, InHand, SlotCap, Leaseless, Streaming
  <2>5. EntriesTyped(s)'
    BY <1>t, <1>p, <2>1, <2>2, <2>3 DEF EntriesTyped, PCs
  <2>6. QED
    BY <2>1, <2>2, <2>3, <2>4, <2>5 DEF InHand, Leaseless, Settled, Streaming, SlotCap, Own
<1>2. CASE TakeSlot(s)
  BY <1>2, <1>t, <1>d DEF TakeSlot, EntriesTyped, InHand, Leaseless, Settled, Streaming, SlotCap, Own, PCs
<1>23. CASE SlotTimeout(s)
  BY <1>23, <1>t, <1>d DEF SlotTimeout, EntriesTyped, InHand, Leaseless, Settled, Streaming, SlotCap, Own, PCs
<1>3. CASE ParkHeld(s)
  <2> DEFINE r   == req[s]
             off == {i \in DOMAIN pool : /\ pool[i].req.backend = r.backend /\ pool[i].req.seat = r.seat
                                         /\ pool[i].req.mode # r.mode}
  <2>1. off # {} => First(off) \in DOMAIN pool
    BY <1>p, FirstIsIn
  <2>2. \A i \in DOMAIN pool : [r EXCEPT !.mode = pool[i].req.mode] \in RequestType
    BY <1>3, <1>t, <1>p DEF ParkHeld, InHand, RequestType
  <2>3. CASE pc'[s] = "idle"
    <3>1. /\ pc[s] = "held" /\ DropSlots(s, slots[s])
          /\ UNCHANGED <<req, seen, lease, old, mine, doomed, reused>>
      BY <1>3, <1>d, <2>3 DEF ParkHeld
    <3>2. slots'[s] = 0 /\ lease[s] = None /\ old[s] = None
      BY <1>t, <1>d, <3>1 DEF DropSlots, EntriesTyped, InHand, Leaseless, Settled
    <3>3. EntriesTyped(s)'
      BY <1>t, <2>3, <3>1, <3>2 DEF EntriesTyped, PCs
    <3>4. pc'[s] \notin Streaming /\ SlotCap(s)' = 0
      BY <2>3 DEF Streaming, SlotCap
    <3>5. lease'[s] = None /\ old'[s] = None /\ slots'[s] <= SlotCap(s)'
      BY <3>1, <3>2, <3>4
    <3> QED
      BY <2>3, <3>3, <3>4, <3>5 DEF InHand
  <2>4. CASE pc'[s] # "idle"
    <3>1. off = {i \in {j \in DOMAIN pool : pool[j].req.backend = r.backend /\ pool[j].req.seat = r.seat} :
                   pool[i].req.mode # r.mode}
      OBVIOUS
    <3> HIDE DEF off
    <3>2. /\ pc[s] = "held" /\ pc'[s] = "slot" /\ seen'[s] = epoch /\ slots'[s] = slots[s]
          /\ req'[s] = [r EXCEPT !.mode = IF off = {} THEN @ ELSE pool[First(off)].req.mode]
      BY <1>3, <1>d, <2>4, <3>1 DEF ParkHeld
    <3>3. req'[s] \in RequestType /\ req'[s].park = r.park
      BY <1>t, <2>1, <2>2, <3>2 DEF InHand, RequestType
    <3>4. UNCHANGED <<lease, old, mine, doomed, reused>>
      BY <1>3 DEF ParkHeld
    <3>5. QED
      BY <1>t, <1>p, <3>2, <3>3, <3>4 DEF EntriesTyped, InHand, Leaseless, Settled, Streaming, SlotCap, Own, PCs
  <2>5. QED
    BY <2>3, <2>4
<1>4. CASE JoinLive(s)
  <2> DEFINE I == join_targets(req[s], seen[s])
  <2>1. I # {} => First(I) \in DOMAIN pool
    BY <1>p, FirstIsIn DEF join_targets
  <2>2. /\ pc[s] = "join" /\ pc'[s] \in {"joincast", "slot", "probe"}
        /\ lease'[s] \in Nat \cup {None} /\ (pc'[s] # "joincast" => lease'[s] = lease[s])
        /\ reused'[s] \in BOOLEAN
    BY <1>4, <1>d, <1>p, <2>1 DEF JoinLive, ToSlot
  <2>3. UNCHANGED <<req, seen, old, mine, doomed, slots>>
    BY <1>4 DEF JoinLive
  <2>4. QED
    BY <2>2, <2>3, <1>t DEF EntriesTyped, InHand, Leaseless, Settled, Streaming, SlotCap, Own, PCs
<1>5. CASE Probe(s)
  <2> DEFINE I == {i \in DOMAIN pool : IsKept(pool[i]) /\ reuse_keys_match(pool[i], req[s], seen[s])}
  <2>1. I # {} => First(I) \in DOMAIN pool
    BY <1>p, FirstIsIn
  <2>2. /\ pc[s] = "probe" /\ pc'[s] \in {"claim", "retire", "evict", "own"}
        /\ mine'[s] \in Nat \cup {None}
    BY <1>5, <1>d, <1>p, <2>1 DEF Probe, ToRetire
  <2>3. UNCHANGED <<req, seen, lease, old, doomed, reused, slots>>
    BY <1>5 DEF Probe
  <2>4. QED
    BY <2>2, <2>3, <1>t DEF EntriesTyped, InHand, Leaseless, Settled, Streaming, SlotCap, Own, PCs
<1>6. CASE BadCast(s)
  <2>1. /\ pc[s] = "badcast" /\ mine'[s] = None
        /\ req'[s] = req[s] /\ seen'[s] = seen[s] /\ doomed'[s] = doomed[s]
    BY <1>6, <1>d DEF BadCast
  <2>2. CASE reused[s]
    <3>1. /\ pc'[s] \in {"retire", "evict", "own"} /\ reused'[s] = FALSE /\ slots'[s] = slots[s]
          /\ lease'[s] = lease[s] /\ old'[s] = old[s]
      BY <1>6, <1>d, <2>2 DEF BadCast, ToRetire
    <3>2. QED
      BY <1>t, <2>1, <3>1 DEF EntriesTyped, InHand, Leaseless, Settled, Streaming, SlotCap, Own, PCs
  <2>3. CASE ~reused[s]
    <3>1. Fail(s) /\ reused'[s] = reused[s]
      BY <1>6, <2>3 DEF BadCast
    <3>2. QED
      BY <1>t, <1>d, <2>1, <3>1 DEF Fail, Return, DropSlots, InnerSlots, EntriesTyped, InHand, Leaseless, Settled, Streaming, SlotCap, Own, PCs
  <2>4. QED
    BY <2>2, <2>3
<1>7. ASSUME NEW alive \in BOOLEAN, NEW resized \in BOOLEAN, Claim(s, alive, resized)
      PROVE  EntriesTyped(s)' /\ InHand(s)'
  <2>1. /\ pc[s] = "claim" /\ mine'[s] = None
        /\ req'[s] = req[s] /\ seen'[s] = seen[s] /\ doomed'[s] = doomed[s] /\ old'[s] = old[s]
    BY <1>7, <1>d DEF Claim
  <2>2. CASE Refound(s, mine[s]) # {} /\ resized
    <3>1. lease'[s] = generation /\ reused'[s] = TRUE /\ Returned(s)
      BY <1>7, <1>d, <2>2 DEF Claim
    <3>2. req[s] \in RequestType /\ slots[s] <= Own(s) + 1 /\ slots[s] \in 0..2
      BY <1>t, <2>1 DEF InHand, SlotCap, EntriesTyped, Streaming
    <3>3. \/ pc'[s] = "attach" /\ slots'[s] = slots[s]
          \/ /\ pc'[s] = IF req[s].park THEN "parked" ELSE "first"
             /\ slots'[s] = slots[s] - InnerSlots(s)
      BY <1>d, <3>1 DEF Returned, Return, DropSlots
    <3>4. req[s].park \in BOOLEAN
      BY <3>2 DEF RequestType
    <3>5. slots'[s] \in 0..2 /\ slots'[s] <= SlotCap(s)'
      BY <2>1, <3>2, <3>3, <3>4 DEF InnerSlots, SlotCap, Own, Streaming
    <3>6. EntriesTyped(s)'
      BY <1>t, <1>p, <2>1, <3>1, <3>3, <3>5 DEF EntriesTyped, PCs
    <3>7. /\ pc'[s] \in {"attach", "parked", "first"}
          /\ (pc'[s] = "parked" => req[s].park) /\ (pc'[s] = "first" => ~req[s].park)
      BY <3>3, <3>4
    <3>8. req[s].park => old[s] = None
      BY <1>t, <2>1 DEF InHand
    <3>9. QED
      BY <2>1, <3>2, <3>5, <3>6, <3>7, <3>8 DEF InHand, Leaseless, Settled, Streaming
  <2>3. CASE ~(Refound(s, mine[s]) # {} /\ resized)
    <3>1. /\ pc'[s] \in {"retire", "evict", "own"} /\ reused'[s] = reused[s] /\ slots'[s] = slots[s]
          /\ lease'[s] = lease[s]
      BY <1>7, <1>d, <2>3 DEF Claim, ToRetire
    <3>2. QED
      BY <1>t, <2>1, <3>1 DEF EntriesTyped, InHand, Leaseless, Settled, Streaming, SlotCap, Own, PCs
  <2>4. QED
    BY <2>2, <2>3
<1>8. CASE Retire(s)
  BY <1>8, <1>t, <1>d, <1>p DEF Retire, Doom, kept_to_retire, EntriesTyped, InHand, Leaseless, Settled, Streaming, SlotCap, Own, PCs
<1>9. CASE RetireOwn(s)
  BY <1>9, <1>t, <1>d, <1>p DEF RetireOwn, Doom, own_at_other_mode, EntriesTyped, InHand, Leaseless, Settled, Streaming, SlotCap, Own, PCs
<1>11. CASE ReleaseDoomed(s)
  BY <1>11, <1>t, <1>d DEF ReleaseDoomed, EntriesTyped, InHand, Leaseless, Settled, Streaming, SlotCap, Own, PCs
<1>12. CASE Create(s)
  BY <1>12, <1>t, <1>d, <1>p DEF Create, Fail, Return, DropSlots, InnerSlots, EntriesTyped, InHand, Leaseless, Settled, Streaming, SlotCap, Own, PCs
<1>13. CASE Push(s)
  BY <1>13, <1>t, <1>d, <1>p DEF Push, EntriesTyped, InHand, Leaseless, Settled, Streaming, SlotCap, Own, PCs
<1>14. CASE TellCreated(s)
  BY <1>14, <1>t, <1>d, <1>p DEF TellCreated, Returned, Return, DropSlots, InnerSlots, EntriesTyped, InHand, Leaseless, Settled, Streaming, SlotCap, Own, PCs
<1>15. CASE FirstFrame(s)
  BY <1>15, <1>t, <1>d DEF FirstFrame, EntriesTyped, InHand, Leaseless, Settled, Streaming, SlotCap, Own, PCs
<1>16. CASE SwapRetire(s)
  BY <1>16, <1>t, <1>d DEF SwapRetire, EntriesTyped, InHand, Leaseless, Settled, Streaming, SlotCap, Own, PCs
<1>10. CASE Evict(s)
  <2>1. kept_to_evict(old[s]) \in SUBSET Nat
    <3> DEFINE parked == {i \in DOMAIN pool : pool[i].parked /\ IsKept(pool[i])}
    <3>1. parked # {} => First(parked) \in DOMAIN pool
      BY <1>p, FirstIsIn
    <3>2. QED
      BY <1>p, <3>1 DEF kept_to_evict
  <2>2. QED
    BY <1>10, <1>t, <1>d, <2>1 DEF Evict, Doom, EntriesTyped, InHand, Leaseless, Settled, Streaming, SlotCap, Own, PCs
<1>17. ASSUME NEW quit \in BOOLEAN, NEW policy \in host.policies, JoinCast(s, quit, policy)
       PROVE  EntriesTyped(s)' /\ InHand(s)'
  <2>1. /\ pc[s] = "joincast" /\ pc'[s] \in {"first", "slot", "probe"}
        /\ lease'[s] \in {lease[s], None} /\ (pc'[s] # "first" => lease'[s] = None)
        /\ reused'[s] \in BOOLEAN
    BY <1>17, <1>d DEF JoinCast, ToSlot
  <2>2. UNCHANGED <<req, seen, old, mine, doomed, slots>>
    BY <1>17 DEF JoinCast
  <2>3. QED
    BY <2>1, <2>2, <1>t DEF EntriesTyped, InHand, Leaseless, Settled, Streaming, SlotCap, Own, PCs
<1>18. ASSUME NEW quit \in BOOLEAN, NEW policy \in host.policies, Attach(s, quit, policy)
       PROVE  EntriesTyped(s)' /\ InHand(s)'
  BY <1>18, <1>t, <1>d DEF Attach, Return, DropSlots, InnerSlots, EntriesTyped, InHand, Leaseless, Settled, Streaming, SlotCap, Own, PCs
<1>19. ASSUME NEW quit \in BOOLEAN, NEW policy \in host.policies, DropFailed(s, quit, policy)
       PROVE  EntriesTyped(s)' /\ InHand(s)'
  BY <1>19, <1>t, <1>d DEF DropFailed, Fail, Return, DropSlots, InnerSlots, EntriesTyped, InHand, Leaseless, Settled, Streaming, SlotCap, Own, PCs
<1>20. ASSUME NEW quit \in BOOLEAN, NEW policy \in host.policies, SwapDrop(s, quit, policy)
       PROVE  EntriesTyped(s)' /\ InHand(s)'
  BY <1>20, <1>t, <1>d DEF SwapDrop, EntriesTyped, InHand, Leaseless, Settled, Streaming, SlotCap, Own, PCs
<1>21. ASSUME NEW policy \in host.policies, Unpark(s, policy)
       PROVE  EntriesTyped(s)' /\ InHand(s)'
  BY <1>21, <1>t, <1>d DEF Unpark, DropSlots, EntriesTyped, InHand, Leaseless, Settled, Streaming, SlotCap, Own, PCs
<1>22. ASSUME NEW quit \in BOOLEAN, NEW policy \in host.policies, Leave(s, quit, policy)
       PROVE  EntriesTyped(s)' /\ InHand(s)'
  BY <1>22, <1>t, <1>d DEF Leave, EntriesTyped, InHand, Leaseless, Settled, Streaming, SlotCap, Own, PCs
<1>24. QED
  BY <1>1, <1>2, <1>3, <1>4, <1>5, <1>6, <1>7, <1>8, <1>9, <1>10, <1>11, <1>12, <1>13, <1>14,
     <1>15, <1>16, <1>17, <1>18, <1>19, <1>20, <1>21, <1>22, <1>23
     DEF Works, Acts

(* What a step does to the pool: nothing, or displays go, or a hold on one *)
(* is let go of.                                                           *)
LEMMA QuietTyped ==
  ASSUME Typed, UNCHANGED <<pool, dying, pushed>>
  PROVE  PoolTyped'
  BY DEF Typed, TypeOK, PoolTyped

LEMMA OwnPool ==
  ASSUME Typed, NEW s \in Sessions,
         (\E r \in host.requests : Begin(s, r)) \/ Works(s) \/ Acts(s)
  PROVE  PoolTyped'
<1>t. s \in Threads /\ \A policy \in host.policies : policy \in Lingers
  BY PoolAssumption DEF Typed, TypeOK, Threads
<1>x. Expired(epoch) \in SUBSET DOMAIN pool
  BY DEF Expired
<1>r. ASSUME NEW G, release_kept(s, G) PROVE PoolTyped'
  BY <1>r, <1>t, RemoveTyped DEF release_kept
<1>m. ASSUME NEW g, mark_failed(s, g) PROVE PoolTyped'
  <2>1. {i \in Named(g) : ~(IsActive(pool[i]) /\ pool[i].life.refs > 1)} \in SUBSET DOMAIN pool
    BY DEF Named
  <2>2. QED
    BY <1>m, <1>t, <2>1, RemoveTyped DEF mark_failed
<1>q. ASSUME UNCHANGED poolVars PROVE PoolTyped'
  BY <1>q, QuietTyped DEF poolVars
<1>1. ASSUME NEW r \in host.requests, Begin(s, r) PROVE PoolTyped'
  <2>1. CASE r.park
    BY <1>1, <2>1, QuietTyped DEF Begin
  <2>2. CASE ~r.park
    BY <1>1, <1>t, <1>x, <2>2, RemoveTyped DEF Begin
  <2>3. QED
    BY <2>1, <2>2
<1>2. CASE TakeSlot(s) \/ SlotTimeout(s) \/ Probe(s) \/ Retire(s) \/ RetireOwn(s) \/ Evict(s)
  BY <1>2, <1>q DEF TakeSlot, SlotTimeout, Probe, Retire, RetireOwn, Evict, Doom
<1>3. CASE ParkHeld(s)
  <2>1. pushed' = pushed
    BY <1>3 DEF ParkHeld
  <2>2. UNCHANGED <<pool, dying>> \/ Remove(s, Expired(epoch))
    BY <1>3 DEF ParkHeld
  <2>3. QED
    BY <1>t, <1>x, <2>1, <2>2, QuietTyped, RemoveTyped
<1>4. CASE JoinLive(s)
  <2>1. UNCHANGED <<dying, pushed>> /\ DOMAIN pool' = DOMAIN pool
    BY <1>4 DEF JoinLive
  <2>2. \A i \in DOMAIN pool : acquire(pool[i].life) \in States
    BY AcquireTyped DEF Typed, TypeOK, Entry
  <2>3. pool' \in [DOMAIN pool -> Entry]
    <3>1. pool' = pool \/ \E i : pool' = [pool EXCEPT ![i].life = acquire(@)]
      BY <1>4 DEF JoinLive
    <3>2. ASSUME NEW i, pool' = [pool EXCEPT ![i].life = acquire(@)] PROVE pool' \in [DOMAIN pool -> Entry]
      <4>1. pool \in [DOMAIN pool -> Entry]
        BY DEF Typed, TypeOK
      <4>2. \A j \in DOMAIN pool : [pool[j] EXCEPT !.life = acquire(@)] \in Entry
        BY <2>2, <4>1 DEF Entry
      <4> QED
        BY <3>2, <4>1, <4>2
    <3>3. QED
      BY <3>1, <3>2 DEF Typed, TypeOK
  <2>4. QED
    BY <2>1, <2>3 DEF Typed, TypeOK, PoolTyped
<1>5. CASE BadCast(s) \/ FirstFrame(s)
  BY <1>5, <1>m, <1>q DEF BadCast, FirstFrame
<1>6. CASE ReleaseDoomed(s) \/ SwapRetire(s)
  BY <1>6, <1>r DEF ReleaseDoomed, SwapRetire
<1>7. ASSUME NEW alive \in BOOLEAN, NEW resized \in BOOLEAN, Claim(s, alive, resized) PROVE PoolTyped'
  <2> DEFINE I == Refound(s, mine[s])
             i == First(I)
             r == req[s]
  <2>1. I \in SUBSET DOMAIN pool /\ pushed' = pushed
    BY <1>7 DEF Refound, Named, Claim
  <2>2. CASE I # {} /\ resized
    <3>1. i \in DOMAIN pool
      <4>1. I \in SUBSET Nat
        BY <2>1 DEF Typed, TypeOK
      <4>2. QED
        BY <2>1, <2>2, <4>1, FirstIsIn
    <3>2. /\ pool' = [pool EXCEPT ![i] = [pool[i] EXCEPT
                         !.life = acquire(@), !.gen = generation, !.parked = r.park,
                         !.req.mode = r.mode,
                         !.req.owner = IF @ = None THEN r.owner ELSE @]]
          /\ dying' = dying
      BY <1>7, <2>2 DEF Claim
    <3>3. r \in RequestType /\ pool[i] \in Entry /\ generation \in Nat
      BY <1>7, <3>1, TypedParts DEF Claim, InHand, Typed, TypeOK
    <3>4. acquire(pool[i].life) \in States
      BY <3>3, AcquireTyped DEF Entry
    <3>5. pool' \in [DOMAIN pool -> Entry]
      <4> HIDE DEF i, r
      <4>1. pool'[i] \in Entry
        BY <3>1, <3>2, <3>3, <3>4 DEF Entry, RequestType, Typed, TypeOK
      <4>2. QED
        BY <3>1, <3>2, <4>1 DEF Typed, TypeOK
    <3>6. QED
      BY <2>1, <3>2, <3>5 DEF Typed, TypeOK, PoolTyped
  <2>3. CASE ~(I # {} /\ resized)
    BY <1>7, <1>t, <2>1, <2>3, QuietTyped, RemoveTyped DEF Claim
  <2>4. QED
    BY <2>2, <2>3
<1>8. CASE Create(s) \/ TellCreated(s)
  BY <1>8, QuietTyped DEF Create, TellCreated
<1>9. CASE Push(s)
  <2>1. req[s] \in RequestType /\ mine[s] \in Nat /\ seen[s] \in Nat /\ pushed \in Nat
    BY <1>9, TypedParts DEF Push, InHand, Typed, TypeOK
  <2>2. acquire(Idle) \in States
    BY AcquireTyped DEF Idle, States
  <2>3. req[s].park \in BOOLEAN
    BY <2>1 DEF RequestType
  <2>4. pool' \in [DOMAIN pool' -> Entry]
    BY <1>9, <2>1, <2>2, <2>3 DEF Push, Entry, Typed, TypeOK
  <2>5. DOMAIN pool' \subseteq 1..pushed' /\ dying' = dying
    BY <1>9, <2>1 DEF Push, Typed, TypeOK
  <2>6. QED
    BY <2>4, <2>5 DEF Typed, TypeOK, PoolTyped
<1>10. ASSUME NEW quit \in BOOLEAN, NEW policy \in host.policies,
              \/ JoinCast(s, quit, policy) \/ Attach(s, quit, policy) \/ DropFailed(s, quit, policy)
              \/ SwapDrop(s, quit, policy) \/ Leave(s, quit, policy)
       PROVE  PoolTyped'
  <2>1. UNCHANGED poolVars \/ \E g \in {lease[s], old[s]} : drop_lease(s, g, quit, policy)
    BY <1>10 DEF JoinCast, Attach, DropFailed, SwapDrop, Leave
  <2>2. QED
    BY <1>t, <1>q, <2>1, DropTyped
<1>11. ASSUME NEW policy \in host.policies, Unpark(s, policy) PROVE PoolTyped'
  <2>1. UNCHANGED poolVars \/ drop_lease(s, lease[s], FALSE, policy)
    BY <1>11 DEF Unpark
  <2>2. QED
    BY <1>t, <1>q, <2>1, DropTyped
<1>12. QED
  BY <1>1, <1>2, <1>3, <1>4, <1>5, <1>6, <1>7, <1>8, <1>9, <1>10, <1>11 DEF Works, Acts

LEMMA OwnRest ==
  ASSUME Typed, NEW s \in Sessions,
         (\E r \in host.requests : Begin(s, r)) \/ Works(s) \/ Acts(s)
  PROVE  HostTyped' /\ creating' \in Seq(Slot)
<1>t. HostTyped /\ creating \in Seq(Slot) /\ EntriesTyped(s) /\ InHand(s)
  BY TypedParts
<1>q. ASSUME UNCHANGED <<hostVars, creating>>, generation' \in {generation, generation + 1},
             pushed' \in {pushed, pushed + 1}, listed' \in {listed, listed + 1}
      PROVE  HostTyped' /\ creating' \in Seq(Slot)
  BY <1>q, <1>t DEF HostTyped, hostVars
<1>h. ASSUME UNCHANGED hostVars, generation' \in {generation, generation + 1},
             pushed' = pushed, listed' \in {listed, listed + 1},
             creating' = creating \/ DropSlots(s, slots[s]) \/ DropSlots(s, InnerSlots(s))
      PROVE  HostTyped' /\ creating' \in Seq(Slot)
  <2>1. slots[s] \in 0..2 /\ InnerSlots(s) \in 0..2 /\ InnerSlots(s) <= slots[s]
    BY <1>t DEF EntriesTyped, InnerSlots
  <2>2. creating' \in Seq(Slot)
    BY <1>h, <1>t, <2>1, DropSlotsTyped
  <2>3. QED
    BY <1>h, <1>t, <2>2 DEF HostTyped, hostVars
<1>k. ASSUME Take(s, req[s]), req[s] \in RequestType, Keyed(req[s]) PROVE creating' \in Seq(Slot)
  <2>2. req[s].backend \in STRING /\ req[s].seat \in STRING
    BY <1>k DEF RequestType, Keyed
  <2>3. <<req[s].backend, req[s].seat, s>> \in Slot
    BY <2>2 DEF Slot
  <2>4. QED
    BY <1>k, <1>t, <2>3, AppendProperties DEF Take
<1>1. ASSUME NEW r \in host.requests, Begin(s, r) PROVE HostTyped' /\ creating' \in Seq(Slot)
  BY <1>1, <1>t DEF Begin, HostTyped
<1>2. CASE TakeSlot(s) \/ SlotTimeout(s)
  <2>1. creating' \in Seq(Slot)
    BY <1>2, <1>t, <1>k DEF TakeSlot, SlotTimeout, InHand
  <2>2. HostTyped'
    BY <1>2, <1>t DEF TakeSlot, SlotTimeout, HostTyped, hostVars, poolVars
  <2>3. QED
    BY <2>1, <2>2
<1>3. CASE ParkHeld(s)
  BY <1>3, <1>h DEF ParkHeld
<1>4. CASE JoinLive(s) \/ Probe(s) \/ Retire(s) \/ RetireOwn(s) \/ Evict(s)
  BY <1>4, <1>q DEF JoinLive, Probe, Retire, RetireOwn, Evict, Doom, poolVars
<1>5. CASE BadCast(s)
  BY <1>5, <1>h DEF BadCast, mark_failed, Fail, Return
<1>6. CASE FirstFrame(s) \/ ReleaseDoomed(s) \/ SwapRetire(s)
  BY <1>6, <1>q DEF FirstFrame, mark_failed, ReleaseDoomed, SwapRetire, release_kept, poolVars
<1>7. ASSUME NEW alive \in BOOLEAN, NEW resized \in BOOLEAN, Claim(s, alive, resized)
      PROVE  HostTyped' /\ creating' \in Seq(Slot)
  BY <1>7, <1>h DEF Claim, Returned, Return
<1>8. CASE Create(s)
  BY <1>8, <1>h DEF Create, Fail, Return
<1>9. CASE Push(s)
  BY <1>9, <1>q DEF Push
<1>10. CASE TellCreated(s)
  BY <1>10, <1>h DEF TellCreated, Returned, Return
<1>11. ASSUME NEW quit \in BOOLEAN, NEW policy \in host.policies,
              JoinCast(s, quit, policy) \/ SwapDrop(s, quit, policy) \/ Leave(s, quit, policy)
       PROVE  HostTyped' /\ creating' \in Seq(Slot)
  BY <1>11, <1>q DEF JoinCast, SwapDrop, Leave, drop_lease, poolVars
<1>12. ASSUME NEW quit \in BOOLEAN, NEW policy \in host.policies,
              Attach(s, quit, policy) \/ DropFailed(s, quit, policy)
       PROVE  HostTyped' /\ creating' \in Seq(Slot)
  BY <1>12, <1>h DEF Attach, DropFailed, Return, Fail, drop_lease, poolVars
<1>13. ASSUME NEW policy \in host.policies, Unpark(s, policy)
       PROVE  HostTyped' /\ creating' \in Seq(Slot)
  BY <1>13, <1>h DEF Unpark, drop_lease, poolVars
<1>14. QED
  BY <1>1, <1>2, <1>3, <1>4, <1>5, <1>6, <1>7, <1>8, <1>9, <1>10, <1>11, <1>12, <1>13
     DEF Works, Acts

(* The steps of the other threads touch nothing a session has.             *)
Others ==
  \/ \E t \in Threads : Finish(t)
  \/ Reap \/ ForceRelease \/ ReleaseSeatGameMode
  \/ Bump \/ invalidate_backend
  \/ Close \/ teardown_all \/ Exit
  \/ Tick

LEMMA OthersTyped ==
  ASSUME Typed, Others
  PROVE  Typed'
<1>t. HostTyped /\ PoolTyped /\ {Reaper, Console, Watcher} \subseteq Threads
  BY TypedParts DEF Threads
<1>1. UNCHANGED <<acqVars, creating, host>>
  BY DEF Others, Finish, Reap, ForceRelease, ReleaseSeatGameMode, Bump, invalidate_backend,
         Close, teardown_all, Exit, Tick, release_kept, hostVars
<1>2. PoolTyped'
  <2>1. ASSUME NEW t \in Threads, Finish(t) PROVE PoolTyped'
    BY <2>1, <1>t, FS_EmptySet DEF Finish, PoolTyped
  <2>2. ASSUME NEW t \in Threads, NEW I \in SUBSET DOMAIN pool, Remove(t, I), pushed' = pushed
        PROVE  PoolTyped'
    BY <2>2, RemoveTyped
  <2>3. CASE Reap
    BY <2>3, <2>2, <1>t DEF Reap, Expired
  <2>4. CASE ForceRelease
    BY <2>4, <2>2, <1>t DEF ForceRelease, release_kept
  <2>5. CASE ReleaseSeatGameMode \/ invalidate_backend \/ teardown_all
    BY <2>5, <2>2, <1>t DEF ReleaseSeatGameMode, invalidate_backend, teardown_all
  <2>6. CASE Bump \/ Close \/ Exit \/ Tick
    BY <2>6, QuietTyped DEF Bump, Close, Exit, Tick, poolVars
  <2>7. QED
    BY <2>1, <2>3, <2>4, <2>5, <2>6 DEF Others
<1>3. HostTyped'
  <2>1. ASSUME NEW t \in Threads, Finish(t) PROVE HostTyped'
    <3>1. Cardinality(dying[t]) \in Nat
      BY <1>t, FS_CardinalityType DEF PoolTyped
    <3>2. QED
      BY <2>1, <3>1, <1>t DEF Finish, HostTyped, hostVars
  <2>2. CASE Reap \/ ForceRelease \/ ReleaseSeatGameMode
    BY <2>2, <1>t DEF Reap, ForceRelease, ReleaseSeatGameMode, release_kept, HostTyped, hostVars
  <2>3. CASE Bump
    <3>1. \A r \in host.requests : r.backend \in STRING
      BY <1>t, PoolAssumption DEF HostTyped, RequestType
    <3>2. QED
      BY <2>3, <3>1, <1>t DEF Bump, HostTyped, poolVars
  <2>4. CASE invalidate_backend \/ Close \/ teardown_all \/ Exit \/ Tick
    BY <2>4, <1>t DEF invalidate_backend, Close, teardown_all, Exit, Tick, HostTyped, poolVars
  <2>5. QED
    BY <2>1, <2>2, <2>3, <2>4 DEF Others
<1>4. TypeOK'
  BY <1>1, <1>2, <1>3 DEF Typed, TypeOK, HostTyped, PoolTyped, acqVars
<1>5. \A s \in Sessions : InHand(s)'
  BY <1>1 DEF Typed, InHand, SlotCap, Own, acqVars
<1>6. QED
  BY <1>2, <1>4, <1>5 DEF Typed, PoolTyped

LEMMA StepTyped == Typed /\ [Next]_vars => Typed'
<1> SUFFICES ASSUME Typed, [Next]_vars PROVE Typed'
  OBVIOUS
<1>1. ASSUME NEW s \in Sessions, (\E r \in host.requests : Begin(s, r)) \/ Works(s) \/ Acts(s)
      PROVE  Typed'
  BY <1>1, OwnEntries, OwnHands, OwnPool, OwnRest, SessionTyped
<1>2. CASE Others
  BY <1>2, OthersTyped
<1>3. CASE UNCHANGED vars
  <2>1. UNCHANGED <<pool, dying, pushed>>
    BY <1>3 DEF vars, poolVars
  <2>2. TypeOK'
    BY <1>3 DEF Typed, TypeOK, vars, poolVars, hostVars, acqVars
  <2>3. \A s \in Sessions : InHand(s)'
    BY <1>3 DEF Typed, InHand, SlotCap, Own, vars, acqVars
  <2>4. QED
    BY <2>1, <2>2, <2>3 DEF Typed
<1>4. QED
  BY <1>1, <1>2, <1>3 DEF Next, Others

(* Every value a thread of the registry reads is of its type in every      *)
(* reachable state, whatever the sessions, the hosts and the bounds: a     *)
(* display of the pool is a well-formed entry pushed before, and a thread  *)
(* holds no more create-slot guards than a pre-warm and its acquire take.  *)
THEOREM Typing == Spec => []TypeOK
<1>1. Spec => []Typed
  BY InitTyped, StepTyped, PTL DEF Spec
<1>2. Typed => TypeOK
  BY DEF Typed
<1>3. QED
  BY <1>1, <1>2, PTL

-----------------------------------------------------------------------------
(* The console's count.  It follows the pool only because a display taken  *)
(* out is in one thread's hands at most, and in none once it is pooled.    *)
Drawn(t, I) ==
  /\ DOMAIN pool' = DOMAIN pool \ I
  /\ dying' = [dying EXCEPT ![t] = @ \cup {<<i, pool[i].req>> : i \in I}]

Gone    == UNION {dying[t] : t \in Threads}
Telling == {s \in Sessions : pc[s] = "tell"}

Apart ==
  \A t \in Threads : \A d \in dying[t] :
    /\ d[1] \notin DOMAIN pool /\ d[1] <= pushed
    /\ \A u \in Threads \ {t} : d \notin dying[u]

Balance == listed = Cardinality(DOMAIN pool) + Cardinality(Gone) - Cardinality(Telling)

LEMMA CountsFinite ==
  ASSUME Typed
  PROVE  /\ IsFiniteSet(DOMAIN pool) /\ Cardinality(DOMAIN pool) \in Nat
         /\ IsFiniteSet(Gone) /\ Cardinality(Gone) \in Nat
         /\ IsFiniteSet(Telling) /\ Cardinality(Telling) \in Nat
<1>1. IsFiniteSet(DOMAIN pool)
  BY TakenFinite
<1>2. IsFiniteSet(Telling)
  BY PoolAssumption, FS_Subset DEF Telling
<1>3. IsFiniteSet(Gone)
  <2>1. IsFiniteSet(Threads)
    <3>1. IsFiniteSet({Reaper}) /\ IsFiniteSet({Console}) /\ IsFiniteSet({Watcher})
      BY FS_Singleton
    <3>2. Threads = Sessions \cup ({Reaper} \cup ({Console} \cup {Watcher}))
      BY DEF Threads
    <3>3. QED
      BY <3>1, <3>2, PoolAssumption, FS_Union
  <2>2. IsFiniteSet({dying[t] : t \in Threads})
    <3> DEFINE f == [t \in Threads |-> dying[t]]
    <3>1. f \in Surjection(Threads, {dying[t] : t \in Threads})
      BY DEF Surjection
    <3>2. QED
      BY <2>1, <3>1, FS_Surjection
  <2>3. \A D \in {dying[t] : t \in Threads} : IsFiniteSet(D)
    BY DEF Typed
  <2>4. QED
    BY <2>2, <2>3, FS_UNION DEF Gone
<1>4. QED
  BY <1>1, <1>2, <1>3, FS_CardinalityType

LEMMA BalanceIsBalanced == Typed => (EventsBalanced <=> Balance)
<1> SUFFICES ASSUME Typed PROVE EventsBalanced <=> Balance
  OBVIOUS
<1>1. pushed \in Nat /\ listed \in Int
  BY DEF Typed, TypeOK
<1>2. QED
  BY <1>1, CountsFinite DEF EventsBalanced, Balance, Gone, Telling

(* Displays that go from the pool to a thread's hands are counted still.   *)
LEMMA DrawnBalances ==
  ASSUME Typed, Apart, Balance, NEW t \in Threads, NEW I \in SUBSET DOMAIN pool, Drawn(t, I),
         UNCHANGED <<pushed, listed, Telling>>
  PROVE  Apart' /\ Balance'
<1> DEFINE T == {<<i, pool[i].req>> : i \in I}
<1>d. /\ dying \in [Threads -> SUBSET (Nat \X RequestType)] /\ DOMAIN pool \subseteq 1..pushed
      /\ pushed \in Nat /\ listed \in Int
  BY DEF Typed, TypeOK
<1>1. /\ IsFiniteSet(I) /\ IsFiniteSet(T) /\ Cardinality(T) = Cardinality(I)
      /\ Cardinality(I) \in Nat
  BY TakenFinite, FS_CardinalityType
<1>2. \A d \in T : d[1] \in I
  OBVIOUS
<1>3. /\ DOMAIN pool' = DOMAIN pool \ I
      /\ dying' = [dying EXCEPT ![t] = @ \cup T]
  BY DEF Drawn
<1> HIDE DEF T
<1>4. dying'[t] = dying[t] \cup T /\ \A u \in Threads \ {t} : dying'[u] = dying[u]
  BY <1>d, <1>3
<1>5. Apart'
  <2>1. ASSUME NEW u \in Threads, NEW d \in dying'[u]
        PROVE  d[1] \notin DOMAIN pool' /\ d[1] <= pushed'
    <3>1. CASE d \in dying[u]
      BY <1>3, <3>1 DEF Apart
    <3>2. CASE d \in T
      BY <1>d, <1>2, <1>3, <3>2
    <3>3. QED
      BY <1>4, <2>1, <3>1, <3>2
  <2>2. ASSUME NEW u \in Threads, NEW v \in Threads \ {u}, NEW d \in dying'[u] PROVE d \notin dying'[v]
    <3>1. \A w \in Threads : \A e \in dying[w] : e \notin T
      BY <1>2 DEF Apart
    <3>2. QED
      BY <1>4, <2>2, <3>1 DEF Apart
  <2>3. QED
    BY <2>1, <2>2 DEF Apart
<1>6. Cardinality(Gone)' = Cardinality(Gone) + Cardinality(I)
  <2>1. Gone' = Gone \cup T
    BY <1>4 DEF Gone
  <2>2. Gone \cap T = {}
    BY <1>2 DEF Gone, Apart
  <2>3. Cardinality(Gone \cup T) = Cardinality(Gone) + Cardinality(T) - Cardinality(Gone \cap T)
    BY <1>1, CountsFinite, FS_Union
  <2>4. Cardinality(Gone \cap T) = 0
    BY <2>2, FS_EmptySet
  <2>5. QED
    BY <1>1, <2>1, <2>3, <2>4, CountsFinite
<1>7. Cardinality(DOMAIN pool)' = Cardinality(DOMAIN pool) - Cardinality(I)
  <2>1. DOMAIN pool \cap I = I
    OBVIOUS
  <2>2. Cardinality(DOMAIN pool \ I) = Cardinality(DOMAIN pool) - Cardinality(DOMAIN pool \cap I)
    BY CountsFinite, FS_Difference
  <2>3. QED
    BY <1>3, <2>1, <2>2
<1>8. QED
  BY <1>1, <1>5, <1>6, <1>7, CountsFinite DEF Balance

(* All a session does to the pool, but to file a display and to tell of it.*)
LEMMA OwnDraws ==
  ASSUME Typed, NEW s \in Sessions, ~Push(s), ~TellCreated(s),
         (\E r \in host.requests : Begin(s, r)) \/ Works(s) \/ Acts(s)
  PROVE  /\ UNCHANGED <<pushed, listed>> /\ pc[s] # "tell" /\ pc'[s] # "tell"
         /\ \E I \in SUBSET DOMAIN pool : Drawn(s, I)
<1> DEFINE Fits == /\ UNCHANGED <<pushed, listed>> /\ pc[s] # "tell" /\ pc'[s] # "tell"
                   /\ \E I \in SUBSET DOMAIN pool : Drawn(s, I)
<1>d. pc \in [Sessions -> PCs] /\ dying \in [Threads -> SUBSET (Nat \X RequestType)] /\ s \in Threads
      /\ DOMAIN pool \subseteq Nat
  BY DEF Typed, TypeOK, Threads
<1>e. ASSUME DOMAIN pool' = DOMAIN pool, UNCHANGED dying PROVE \E I \in SUBSET DOMAIN pool : Drawn(s, I)
  <2>1. Drawn(s, {})
    BY <1>d, <1>e DEF Drawn
  <2>2. QED
    BY <2>1
<1>r. ASSUME NEW I \in SUBSET DOMAIN pool, Remove(s, I) PROVE Drawn(s, I)
  BY <1>r DEF Remove, Drawn
<1>x. Expired(epoch) \in SUBSET DOMAIN pool
  BY DEF Expired
<1>k. ASSUME NEW G, release_kept(s, G)
      PROVE  UNCHANGED <<pushed, listed>> /\ \E I \in SUBSET DOMAIN pool : Drawn(s, I)
  BY <1>k, <1>r DEF release_kept
<1>f. ASSUME NEW g, mark_failed(s, g)
      PROVE  UNCHANGED <<pushed, listed>> /\ \E I \in SUBSET DOMAIN pool : Drawn(s, I)
  BY <1>f, <1>r DEF mark_failed, Named
<1>g. ASSUME NEW g, NEW quit, NEW policy, drop_lease(s, g, quit, policy)
      PROVE  UNCHANGED <<pushed, listed>> /\ \E I \in SUBSET DOMAIN pool : Drawn(s, I)
  BY <1>g DEF drop_lease, Drawn, Named
<1>u. ASSUME UNCHANGED poolVars
      PROVE  UNCHANGED <<pushed, listed>> /\ \E I \in SUBSET DOMAIN pool : Drawn(s, I)
  BY <1>u, <1>e DEF poolVars
<1> USE DEF Go
<1>1. ASSUME NEW r \in host.requests, Begin(s, r) PROVE Fits
  <2>1. pc[s] # "tell" /\ pc'[s] # "tell" /\ UNCHANGED <<pushed, listed>>
    BY <1>1, <1>d DEF Begin, ToSlot
  <2>2. UNCHANGED <<pool, dying>> \/ Remove(s, Expired(epoch))
    BY <1>1 DEF Begin
  <2>3. QED
    BY <2>1, <2>2, <1>e, <1>r, <1>x
<1>2. CASE TakeSlot(s) \/ SlotTimeout(s) \/ Probe(s) \/ Retire(s) \/ RetireOwn(s) \/ Evict(s)
  <2>1. pc[s] # "tell" /\ pc'[s] # "tell" /\ UNCHANGED poolVars
    BY <1>2, <1>d DEF TakeSlot, SlotTimeout, Probe, Retire, RetireOwn, Evict, Doom, ToRetire
  <2>2. QED
    BY <2>1, <1>u
<1>3. CASE ParkHeld(s)
  <2>1. pc[s] # "tell" /\ pc'[s] # "tell" /\ UNCHANGED <<pushed, listed>>
    BY <1>3, <1>d DEF ParkHeld
  <2>2. UNCHANGED <<pool, dying>> \/ Remove(s, Expired(epoch))
    BY <1>3 DEF ParkHeld
  <2>3. QED
    BY <2>1, <2>2, <1>e, <1>r, <1>x
<1>4. CASE JoinLive(s)
  <2>1. pc[s] # "tell" /\ pc'[s] # "tell" /\ UNCHANGED <<pushed, listed, dying>>
    BY <1>4, <1>d DEF JoinLive, ToSlot
  <2>2. DOMAIN pool' = DOMAIN pool
    BY <1>4 DEF JoinLive
  <2>3. QED
    BY <2>1, <2>2, <1>e
<1>5. CASE Create(s)
  <2>1. pc[s] # "tell" /\ pc'[s] # "tell" /\ UNCHANGED <<pushed, listed, dying, pool>>
    BY <1>5, <1>d DEF Create, Fail, Return
  <2>2. QED
    BY <2>1, <1>e
<1>6. CASE ReleaseDoomed(s) \/ SwapRetire(s)
  <2>1. pc[s] # "tell" /\ pc'[s] # "tell" /\ \E G : release_kept(s, G)
    BY <1>6, <1>d DEF ReleaseDoomed, SwapRetire
  <2>2. QED
    BY <2>1, <1>k
<1>7. CASE BadCast(s)
  <2>1. pc[s] # "tell" /\ pc'[s] # "tell" /\ mark_failed(s, mine[s])
    BY <1>7, <1>d DEF BadCast, Fail, Return, ToRetire
  <2>2. QED
    BY <2>1, <1>f
<1>8. CASE FirstFrame(s)
  <2>1. pc[s] # "tell" /\ pc'[s] # "tell" /\ (UNCHANGED poolVars \/ mark_failed(s, lease[s]))
    BY <1>8, <1>d DEF FirstFrame
  <2>2. QED
    BY <2>1, <1>f, <1>u
<1>9. ASSUME NEW alive \in BOOLEAN, NEW resized \in BOOLEAN, Claim(s, alive, resized) PROVE Fits
  <2>1. pc[s] # "tell" /\ pc'[s] # "tell" /\ UNCHANGED <<pushed, listed>>
    BY <1>9, <1>d DEF Claim, Returned, Return, ToRetire
  <2>2. \/ DOMAIN pool' = DOMAIN pool /\ UNCHANGED dying
        \/ Remove(s, Refound(s, mine[s]))
    BY <1>9 DEF Claim
  <2>3. Refound(s, mine[s]) \in SUBSET DOMAIN pool
    BY DEF Refound, Named
  <2>4. QED
    BY <2>1, <2>2, <2>3, <1>e, <1>r
<1>10. ASSUME NEW quit \in BOOLEAN, NEW policy \in host.policies,
              \/ JoinCast(s, quit, policy) \/ Attach(s, quit, policy) \/ DropFailed(s, quit, policy)
              \/ SwapDrop(s, quit, policy) \/ Leave(s, quit, policy) \/ Unpark(s, policy)
       PROVE  Fits
  <2>1. pc[s] # "tell" /\ pc'[s] # "tell"
    BY <1>10, <1>d DEF JoinCast, Attach, DropFailed, SwapDrop, Leave, Unpark, Fail, Return, ToSlot
  <2>2. UNCHANGED poolVars \/ \E g, q : drop_lease(s, g, q, policy)
    BY <1>10 DEF JoinCast, Attach, DropFailed, SwapDrop, Leave, Unpark
  <2>3. QED
    BY <2>1, <2>2, <1>u, <1>g
<1>11. QED
  BY <1>1, <1>2, <1>3, <1>4, <1>5, <1>6, <1>7, <1>8, <1>9, <1>10 DEF Works, Acts

(* A display filed: one more in the pool, and one more to tell of.         *)
LEMMA PushBalances ==
  ASSUME Typed, Apart, Balance, NEW s \in Sessions, Push(s)
  PROVE  Apart' /\ Balance'
<1>d. /\ pc \in [Sessions -> PCs] /\ dying \in [Threads -> SUBSET (Nat \X RequestType)]
      /\ DOMAIN pool \subseteq 1..pushed /\ pushed \in Nat /\ listed \in Int
  BY DEF Typed, TypeOK
<1>1. /\ DOMAIN pool' = DOMAIN pool \cup {pushed + 1} /\ pushed' = pushed + 1
      /\ UNCHANGED <<dying, listed>> /\ pc[s] = "push" /\ pc' = [pc EXCEPT ![s] = "tell"]
  BY DEF Push, Go
<1>2. Cardinality(DOMAIN pool)' = Cardinality(DOMAIN pool) + 1
  <2>1. pushed + 1 \notin DOMAIN pool
    BY <1>d
  <2>2. QED
    BY <1>1, <2>1, CountsFinite, FS_AddElement
<1>3. Cardinality(Telling)' = Cardinality(Telling) + 1
  <2>1. Telling' = Telling \cup {s} /\ s \notin Telling
    BY <1>d, <1>1 DEF Telling
  <2>2. Cardinality(Telling \cup {s}) = Cardinality(Telling) + 1
    BY <2>1, CountsFinite, FS_AddElement
  <2>3. QED
    BY <2>1, <2>2
<1>4. Apart'
  <2>1. \A t \in Threads : \A d \in dying[t] : d[1] \in Nat
    BY <1>d
  <2>2. QED
    BY <1>d, <1>1, <2>1 DEF Apart
<1>5. Gone' = Gone
  BY <1>1 DEF Gone
<1>6. QED
  BY <1>1, <1>2, <1>3, <1>4, <1>5, CountsFinite DEF Balance

LEMMA TellBalances ==
  ASSUME Typed, Apart, Balance, NEW s \in Sessions, TellCreated(s)
  PROVE  Apart' /\ Balance'
<1>1. /\ pc[s] = "tell" /\ listed' = listed + 1 /\ UNCHANGED <<pool, pushed, dying>>
      /\ pc' = [pc EXCEPT ![s] = pc'[s]] /\ pc'[s] # "tell"
  BY DEF TellCreated, Returned, Return, Go, Typed, TypeOK
<1>2. Cardinality(Telling)' = Cardinality(Telling) - 1
  <2>1. Telling' = Telling \ {s} /\ s \in Telling
    BY <1>1 DEF Telling, Typed, TypeOK
  <2>2. Cardinality(Telling \ {s}) = Cardinality(Telling) - 1
    BY <2>1, CountsFinite, FS_RemoveElement
  <2>3. QED
    BY <2>1, <2>2
<1>3. Apart' /\ Gone' = Gone
  BY <1>1 DEF Apart, Gone
<1>4. listed \in Int
  BY DEF Typed, TypeOK
<1>5. QED
  BY <1>1, <1>2, <1>3, <1>4, CountsFinite DEF Balance

(* The displays a thread took out are dropped, each told of once.          *)
LEMMA FinishBalances ==
  ASSUME Typed, Apart, Balance, NEW t \in Threads, Finish(t)
  PROVE  Apart' /\ Balance'
<1>1. /\ UNCHANGED <<pool, pushed, pc>> /\ listed' = listed - Cardinality(dying[t])
      /\ dying' = [dying EXCEPT ![t] = {}] /\ dying \in [Threads -> SUBSET (Nat \X RequestType)]
  BY DEF Finish, acqVars, Typed, TypeOK
<1>2. Apart' /\ Telling' = Telling
  BY <1>1 DEF Apart, Telling
<1>3. Cardinality(Gone)' = Cardinality(Gone) - Cardinality(dying[t])
  <2>1. Gone' = Gone \ dying[t] /\ Gone \cap dying[t] = dying[t]
    BY <1>1 DEF Gone, Apart
  <2>2. Cardinality(Gone \ dying[t]) = Cardinality(Gone) - Cardinality(Gone \cap dying[t])
    BY CountsFinite, FS_Difference
  <2>3. QED
    BY <2>1, <2>2
<1>4. Cardinality(dying[t]) \in Nat
  BY FS_CardinalityType DEF Typed
<1>5. listed \in Int
  BY DEF Typed, TypeOK
<1>6. QED
  BY <1>1, <1>2, <1>3, <1>4, <1>5, CountsFinite DEF Balance

LEMMA OthersBalance ==
  ASSUME Typed, Apart, Balance, Others \/ UNCHANGED vars
  PROVE  Apart' /\ Balance'
<1>t. {Reaper, Console, Watcher} \subseteq Threads
  BY DEF Threads
<1>1. ASSUME NEW t \in Threads, NEW I \in SUBSET DOMAIN pool, Remove(t, I), UNCHANGED <<pushed, listed, pc>>
      PROVE  Apart' /\ Balance'
  <2>1. Drawn(t, I) /\ Telling' = Telling
    BY <1>1 DEF Remove, Drawn, Telling
  <2>2. QED
    BY <1>1, <2>1, DrawnBalances
<1>2. CASE Reap \/ ForceRelease \/ ReleaseSeatGameMode \/ invalidate_backend \/ teardown_all
  <2>1. \E t \in {Reaper, Console, Watcher}, I \in SUBSET DOMAIN pool : Remove(t, I)
    BY <1>2 DEF Reap, ForceRelease, ReleaseSeatGameMode, invalidate_backend, teardown_all,
                release_kept, Expired
  <2>2. UNCHANGED <<pushed, listed, pc>>
    BY <1>2 DEF Reap, ForceRelease, ReleaseSeatGameMode, invalidate_backend, teardown_all,
                release_kept, acqVars
  <2>3. QED
    BY <1>t, <1>1, <2>1, <2>2
<1>3. ASSUME UNCHANGED <<pool, dying, pushed, listed, pc>> PROVE Apart' /\ Balance'
  BY <1>3 DEF Apart, Balance, Gone, Telling
<1>4. CASE Bump \/ Close \/ Exit \/ Tick \/ UNCHANGED vars
  BY <1>3, <1>4 DEF Bump, Close, Exit, Tick, poolVars, acqVars, vars
<1>5. QED
  BY <1>2, <1>4, FinishBalances DEF Others

LEMMA StepBalances == Typed /\ Apart /\ Balance /\ [Next]_vars => Apart' /\ Balance'
<1> SUFFICES ASSUME Typed, Apart, Balance, [Next]_vars PROVE Apart' /\ Balance'
  OBVIOUS
<1>1. ASSUME NEW s \in Sessions, (\E r \in host.requests : Begin(s, r)) \/ Works(s) \/ Acts(s),
             ~Push(s), ~TellCreated(s)
      PROVE  Apart' /\ Balance'
  <2>1. /\ UNCHANGED <<pushed, listed>> /\ pc[s] # "tell" /\ pc'[s] # "tell"
        /\ \E I \in SUBSET DOMAIN pool : Drawn(s, I)
    BY <1>1, OwnDraws
  <2>2. Telling' = Telling
    <3>1. pc' = [pc EXCEPT ![s] = pc'[s]]
      BY <1>1, OwnEntries DEF OwnOnly
    <3>2. QED
      BY <2>1, <3>1 DEF Telling, Typed, TypeOK
  <2>3. s \in Threads
    BY DEF Threads
  <2>4. QED
    BY <2>1, <2>2, <2>3, DrawnBalances
<1>2. QED
  BY <1>1, PushBalances, TellBalances, OthersBalance DEF Next, Others

(* The displays the console counts are those that exist, in every reachable*)
(* state and whatever thread takes one down: each is told of once when it  *)
(* is filed and once when it is dropped.                                   *)
THEOREM Balances == Spec => []EventsBalanced
<1>1. Init => Typed /\ Apart /\ Balance
  <2> SUFFICES ASSUME Init PROVE Apart /\ Balance
    BY InitTyped
  <2>1. Gone = {} /\ Telling = {} /\ DOMAIN pool = {} /\ listed = 0
    BY DEF Init, Gone, Telling
  <2>2. QED
    BY <2>1, FS_EmptySet DEF Init, Apart, Balance
<1>2. Typed /\ Apart /\ Balance /\ [Next]_vars => Typed' /\ Apart' /\ Balance'
  BY StepTyped, StepBalances
<1>3. Spec => [](Typed /\ Apart /\ Balance)
  BY <1>1, <1>2, PTL DEF Spec
<1>4. Typed /\ Apart /\ Balance => EventsBalanced
  BY BalanceIsBalanced
<1>5. QED
  BY <1>3, <1>4, PTL

-----------------------------------------------------------------------------
(* The create slots.  While no wait has timed out, the list of slots held  *)
(* has one entry per seat, it is of a session that holds it, and a session *)
(* on its way through a keyed create has one.                              *)
KeyOf(c) == <<c[1], c[2]>>

Seated ==
  /\ \A m, n \in DOMAIN creating : KeyOf(creating[m]) = KeyOf(creating[n]) => m = n
  /\ \A n \in DOMAIN creating : \A s \in Sessions :
       creating[n][3] = s => slots[s] = 1 /\ KeyOf(creating[n]) = slot_key(req[s])
  /\ \A s \in Sessions :
       /\ slots[s] <= 1
       /\ slots[s] = 1 => \E n \in DOMAIN creating : creating[n] = <<req[s].backend, req[s].seat, s>>
       /\ Creating(s) /\ Keyed(req[s]) => slots[s] = 1

SeatInv == late = 0 => Seated

(* A guard drops: its slot is out of the list, whatever place the last one *)
(* is moved to, and the others are in it once each.                        *)
LEMMA SlotLeaves ==
  ASSUME NEW busy \in Seq(Slot), NEW k \in DOMAIN busy,
         \A m, n \in DOMAIN busy : KeyOf(busy[m]) = KeyOf(busy[n]) => m = n,
         NEW b, b = DropSlot(busy, KeyOf(busy[k]))
  PROVE  /\ \A m \in DOMAIN b : \E j \in DOMAIN busy \ {k} : b[m] = busy[j]
         /\ \A j \in DOMAIN busy \ {k} : \E m \in DOMAIN b : b[m] = busy[j]
         /\ \A m, n \in DOMAIN b : KeyOf(b[m]) = KeyOf(b[n]) => m = n
<1> DEFINE held == {n \in DOMAIN busy : <<busy[n][1], busy[n][2]>> = KeyOf(busy[k])}
           L == Len(busy)
<1>1. held = {k}
  BY DEF KeyOf
<1>2. First(held) = k
  <2>1. {k} \in SUBSET Nat
    BY LenProperties
  <2>2. First({k}) \in {k}
    BY <2>1, FirstIsIn
  <2>3. QED
    BY <1>1, <2>2
<1>3. L \in Nat /\ DOMAIN busy = 1..L
  BY LenProperties
<1>4. b = [n \in 1..(L - 1) |-> IF n = k THEN busy[L] ELSE busy[n]]
  BY <1>1, <1>2 DEF DropSlot
<1> HIDE DEF held, L
<1> DEFINE from(m) == IF m = k THEN L ELSE m
<1>5. DOMAIN b = 1..(L - 1) /\ k \in 1..L
  BY <1>3, <1>4
<1>6. \A m \in DOMAIN b : from(m) \in DOMAIN busy \ {k} /\ b[m] = busy[from(m)]
  BY <1>3, <1>4, <1>5
<1>7. \A m, n \in DOMAIN b : from(m) = from(n) => m = n
  BY <1>3, <1>5
<1>8. ASSUME NEW j \in DOMAIN busy \ {k} PROVE \E m \in DOMAIN b : b[m] = busy[j]
  <2>1. CASE j = L
    <3>1. k \in DOMAIN b /\ b[k] = busy[L]
      BY <1>3, <1>4, <1>5, <2>1
    <3>2. QED
      BY <2>1, <3>1
  <2>2. CASE j # L
    <3>1. j \in DOMAIN b /\ b[j] = busy[j]
      BY <1>3, <1>4, <1>5, <2>2
    <3>2. QED
      BY <3>1
  <2>3. QED
    BY <2>1, <2>2
<1> HIDE DEF from
<1>9. QED
  BY <1>6, <1>7, <1>8

(* A step that leaves the slots: what is created keyed is so already.      *)
LEMMA SeatsKept ==
  ASSUME Typed, Seated, NEW s \in Sessions, OwnOnly(s), UNCHANGED creating, slots'[s] = slots[s],
         slots[s] = 0 \/ (req'[s].backend = req[s].backend /\ req'[s].seat = req[s].seat),
         Creating(s)' /\ Keyed(req'[s]) => slots[s] = 1
  PROVE  Seated'
<1>1. slots' = slots
  BY DEF OwnOnly, Typed, TypeOK
<1>2. \A q \in Sessions \ {s} : pc'[q] = pc[q] /\ req'[q] = req[q]
  BY DEF OwnOnly, Typed, TypeOK
<1>3. \A n \in DOMAIN creating : \A q \in Sessions :
        creating[n][3] = q => slots[q] = 1 /\ KeyOf(creating[n]) = slot_key(req'[q])
  BY <1>2 DEF Seated, slot_key
<1>4. \A q \in Sessions : slots[q] = 1 =>
        \E n \in DOMAIN creating : creating[n] = <<req'[q].backend, req'[q].seat, q>>
  BY <1>2 DEF Seated
<1>5. \A q \in Sessions : Creating(q)' /\ Keyed(req'[q]) => slots[q] = 1
  BY <1>2 DEF Seated, Creating
<1>6. QED
  BY <1>1, <1>3, <1>4, <1>5 DEF Seated

(* A step that drops what s holds, after which it creates nothing.         *)
LEMMA SeatsDropped ==
  ASSUME Typed, Seated, NEW s \in Sessions, OwnOnly(s), NEW n \in {slots[s], InnerSlots(s)},
         DropSlots(s, n), req'[s] = req[s], ~Creating(s)'
  PROVE  Seated'
<1>t. /\ creating \in Seq(Slot) /\ slots \in [Sessions -> 0..2] /\ slots[s] <= 1
  BY DEF Typed, TypeOK, Slot, Seated
<1>1. n = 0 \/ (n = 1 /\ slots[s] = 1)
  <2>1. slots[s] = 0 \/ slots[s] = 1
    BY <1>t
  <2>2. InnerSlots(s) \in {0, slots[s]}
    BY <2>1 DEF InnerSlots
  <2>3. QED
    BY <2>1, <2>2
<1>2. CASE n = 0
  <2>1. creating' = creating /\ slots'[s] = slots[s]
    BY <1>t, <1>2 DEF DropSlots
  <2>2. QED
    BY <2>1, SeatsKept
<1>3. CASE n = 1 /\ slots[s] = 1
  <2>1. creating' = DropSlot(creating, slot_key(req[s])) /\ slots' = [slots EXCEPT ![s] = 0]
    BY <1>t, <1>3 DEF DropSlots
  <2>2. PICK k \in DOMAIN creating : creating[k] = <<req[s].backend, req[s].seat, s>>
    BY <1>3 DEF Seated
  <2>3. KeyOf(creating[k]) = slot_key(req[s]) /\ creating[k][3] = s
    BY <2>2 DEF KeyOf, slot_key
  <2>4. /\ \A m \in DOMAIN creating' : \E j \in DOMAIN creating \ {k} : creating'[m] = creating[j]
        /\ \A j \in DOMAIN creating \ {k} : \E m \in DOMAIN creating' : creating'[m] = creating[j]
        /\ \A m, l \in DOMAIN creating' : KeyOf(creating'[m]) = KeyOf(creating'[l]) => m = l
    BY <1>t, <2>1, <2>3, SlotLeaves DEF Seated
  <2>5. \A q \in Sessions \ {s} : pc'[q] = pc[q] /\ req'[q] = req[q] /\ slots'[q] = slots[q]
    BY <1>t, <2>1 DEF OwnOnly, Typed, TypeOK
  <2>6. slots'[s] = 0
    BY <1>t, <2>1
  <2>7. \A j \in DOMAIN creating \ {k} : creating[j][3] # s
    BY <2>3 DEF Seated
  <2>8. \A m \in DOMAIN creating' : \A q \in Sessions :
          creating'[m][3] = q => slots'[q] = 1 /\ KeyOf(creating'[m]) = slot_key(req'[q])
    BY <2>4, <2>5, <2>7 DEF Seated
  <2>9. ASSUME NEW q \in Sessions, slots'[q] = 1
        PROVE  \E m \in DOMAIN creating' : creating'[m] = <<req'[q].backend, req'[q].seat, q>>
    <3>1. q # s /\ slots[q] = 1 /\ req'[q] = req[q]
      BY <2>5, <2>6, <2>9
    <3>2. PICK j \in DOMAIN creating : creating[j] = <<req[q].backend, req[q].seat, q>>
      BY <3>1 DEF Seated
    <3>3. j # k
      BY <2>3, <3>1, <3>2
    <3>4. QED
      BY <2>4, <3>1, <3>2, <3>3
  <2>10. \A q \in Sessions : slots'[q] <= 1 /\ (Creating(q)' /\ Keyed(req'[q]) => slots'[q] = 1)
    BY <2>5, <2>6 DEF Seated, Creating
  <2>11. QED
    BY <2>4, <2>8, <2>9, <2>10 DEF Seated
<1>4. QED
  BY <1>1, <1>2, <1>3

LEMMA SeatsTaken ==
  ASSUME Typed, Seated, NEW s \in Sessions, OwnOnly(s), TakeSlot(s)
  PROVE  Seated'
<1>t. /\ creating \in Seq(Slot) /\ slots \in [Sessions -> 0..2] /\ slots[s] <= 1
      /\ DOMAIN creating = 1..Len(creating) /\ Len(creating) \in Nat
      /\ req' = req /\ pc \in [Sessions -> PCs]
  BY LenProperties DEF Typed, TypeOK, Slot, Seated, TakeSlot
<1>1. CASE UNCHANGED <<creating, slots>> /\ ~Keyed(req[s])
  BY <1>t, <1>1, SeatsKept
<1>2. CASE UNCHANGED <<creating, slots>> /\ slot_state(s, req[s]) = "mine"
  <2>1. HoldersOf(slot_key(req[s])) # {} /\ creating[First(HoldersOf(slot_key(req[s])))][3] = s
    BY <1>2 DEF slot_state
  <2>2. First(HoldersOf(slot_key(req[s]))) \in DOMAIN creating
    <3>1. HoldersOf(slot_key(req[s])) \in SUBSET Nat
      BY <1>t DEF HoldersOf
    <3>2. First(HoldersOf(slot_key(req[s]))) \in HoldersOf(slot_key(req[s]))
      BY <2>1, <3>1, FirstIsIn
    <3>3. QED
      BY <3>2 DEF HoldersOf
  <2>3. slots[s] = 1
    BY <2>1, <2>2 DEF Seated
  <2>4. QED
    BY <1>t, <1>2, <2>3, SeatsKept
<1>3. CASE /\ Keyed(req[s]) /\ slot_state(s, req[s]) = "free"
           /\ Take(s, req[s]) /\ slots' = [slots EXCEPT ![s] = @ + 1]
  <2> DEFINE c == <<req[s].backend, req[s].seat, s>>
             L == Len(creating)
  <2>1. HoldersOf(slot_key(req[s])) = {}
    BY <1>3 DEF slot_state
  <2>2. \A n \in DOMAIN creating : KeyOf(creating[n]) # slot_key(req[s])
    BY <2>1 DEF HoldersOf, KeyOf
  <2>3. slots[s] = 0
    <3>1. slots[s] # 1
      BY <2>2 DEF Seated, KeyOf, slot_key
    <3>2. QED
      BY <1>t, <3>1
  <2>4. /\ slots'[s] = 1 /\ \A q \in Sessions \ {s} : slots'[q] = slots[q] /\ pc'[q] = pc[q]
    BY <1>t, <1>3, <2>3 DEF OwnOnly
  <2>5. /\ KeyOf(c) = slot_key(req[s]) /\ c[3] = s
    BY DEF KeyOf, slot_key
  <2>6. c \in Slot
    <3>1. req[s] \in RequestType
      BY TypedParts DEF TakeSlot, InHand
    <3>2. QED
      BY <1>3, <3>1 DEF Keyed, RequestType, Slot
  <2>7. creating' = Append(creating, c)
    BY <1>3 DEF Take
  <2> HIDE DEF c
  <2>8. /\ DOMAIN creating' = 1..(L + 1) /\ creating'[L + 1] = c
        /\ \A n \in 1..L : creating'[n] = creating[n]
    BY <1>t, <2>6, <2>7, AppendProperties
  <2>9. \A m, n \in DOMAIN creating' : KeyOf(creating'[m]) = KeyOf(creating'[n]) => m = n
    <3>1. \A m \in 1..(L + 1) : m \in 1..L \/ m = L + 1
      BY <1>t
    <3> HIDE DEF L
    <3>2. QED
      BY <1>t, <2>2, <2>5, <2>8, <3>1 DEF Seated, L
  <2>10. ASSUME NEW n \in DOMAIN creating', NEW q \in Sessions, creating'[n][3] = q
         PROVE  slots'[q] = 1 /\ KeyOf(creating'[n]) = slot_key(req'[q])
    <3>1. CASE n = L + 1
      BY <1>t, <2>4, <2>5, <2>8, <2>10, <3>1
    <3>2. CASE n # L + 1
      <4>1. n \in DOMAIN creating /\ creating'[n] = creating[n]
        BY <1>t, <2>8, <3>2
      <4>2. slots[q] = 1 /\ KeyOf(creating[n]) = slot_key(req[q])
        BY <2>10, <4>1 DEF Seated
      <4>3. QED
        BY <1>t, <2>3, <2>4, <4>1, <4>2
    <3>3. QED
      BY <3>1, <3>2
  <2>11. ASSUME NEW q \in Sessions, slots'[q] = 1
         PROVE  \E n \in DOMAIN creating' : creating'[n] = <<req'[q].backend, req'[q].seat, q>>
    <3>1. CASE q = s
      <4>1. L + 1 \in DOMAIN creating'
        BY <1>t, <2>8
      <4>2. QED
        BY <1>t, <2>8, <3>1, <4>1 DEF c
    <3>2. CASE q # s
      <4>1. slots[q] = 1
        BY <2>4, <2>11, <3>2
      <4>2. PICK n \in DOMAIN creating : creating[n] = <<req[q].backend, req[q].seat, q>>
        BY <4>1 DEF Seated
      <4>3. n \in DOMAIN creating' /\ creating'[n] = creating[n]
        BY <1>t, <2>8
      <4>4. QED
        BY <1>t, <4>2, <4>3
    <3>3. QED
      BY <3>1, <3>2
  <2>12. \A q \in Sessions : slots'[q] <= 1 /\ (Creating(q)' /\ Keyed(req'[q]) => slots'[q] = 1)
    BY <1>t, <2>4 DEF Seated, Creating
  <2>13. QED
    BY <2>9, <2>10, <2>11, <2>12 DEF Seated
<1>4. QED
  BY <1>1, <1>2, <1>3 DEF TakeSlot

(* Which of these each action is.                                          *)
LEMMA OwnSeats ==
  ASSUME Typed, Seated, NEW s \in Sessions, late' = late,
         (\E r \in host.requests : Begin(s, r)) \/ Works(s) \/ Acts(s)
  PROVE  Seated'
<1>t. /\ OwnOnly(s) /\ InHand(s) /\ pc \in [Sessions -> PCs] /\ req \in [Sessions -> RequestType \cup {None}]
      /\ slots \in [Sessions -> 0..2] /\ late \in Nat
      /\ Creating(s) /\ Keyed(req[s]) => slots[s] = 1
      /\ pc[s] # "idle" => req[s] \in RequestType
  BY OwnEntries, TypedParts DEF Typed, TypeOK, Seated, InHand
<1>k. ASSUME UNCHANGED <<creating, slots>>, req'[s] = req[s],
             \/ Creating(s) \/ ~Creating(s)'
             \/ pc'[s] = ToSlot(req[s])
      PROVE  Seated'
  <2>1. Creating(s)' /\ Keyed(req'[s]) => slots[s] = 1
    BY <1>t, <1>k DEF ToSlot, Creating
  <2>2. QED
    BY <1>t, <1>k, <2>1, SeatsKept
<1>d. ASSUME DropSlots(s, slots[s]) \/ DropSlots(s, InnerSlots(s)), req'[s] = req[s], ~Creating(s)'
      PROVE  Seated'
  BY <1>t, <1>d, SeatsDropped
<1> USE DEF Go
<1>1. ASSUME NEW r \in host.requests, Begin(s, r) PROVE Seated'
  <2>1. /\ UNCHANGED <<creating, slots>> /\ slots[s] = 0 /\ req'[s] = r
        /\ pc'[s] \in {"park", "join", ToSlot(r)}
    BY <1>1, <1>t DEF Begin, InHand, SlotCap, Streaming
  <2>2. ~(Creating(s)' /\ Keyed(req'[s]))
    BY <2>1 DEF ToSlot, Creating
  <2>3. QED
    BY <1>t, <2>1, <2>2, SeatsKept
<1>2. CASE TakeSlot(s)
  BY <1>t, <1>2, SeatsTaken
<1>3. ~SlotTimeout(s)
  BY <1>t DEF SlotTimeout
<1>4. CASE ParkHeld(s)
  <2>1. CASE DropSlots(s, slots[s]) /\ UNCHANGED req /\ pc'[s] = "idle"
    BY <2>1, <1>d DEF Creating
  <2>2. CASE UNCHANGED <<creating, slots>> /\ pc'[s] = "slot" /\ \E m : req' = [req EXCEPT ![s].mode = m]
    <3>1. pc[s] # "idle"
      BY <1>4 DEF ParkHeld
    <3>2. req'[s].backend = req[s].backend /\ req'[s].seat = req[s].seat
      BY <1>t, <2>2, <3>1 DEF RequestType
    <3>3. ~Creating(s)'
      BY <2>2 DEF Creating
    <3>4. QED
      BY <1>t, <2>2, <3>2, <3>3, SeatsKept
  <2>3. QED
    BY <1>4, <1>t, <2>1, <2>2 DEF ParkHeld
<1>5. CASE JoinLive(s)
  BY <1>5, <1>t, <1>k DEF JoinLive, Creating
<1>6. CASE Probe(s) \/ Retire(s) \/ RetireOwn(s) \/ Evict(s) \/ ReleaseDoomed(s) \/ Push(s)
  BY <1>6, <1>k DEF Probe, Retire, RetireOwn, Evict, Doom, ReleaseDoomed, Push, Creating
<1>f. ASSUME Fail(s), req'[s] = req[s] PROVE Seated'
  <2>1. ~Creating(s)'
    BY <1>f, <1>t DEF Fail, Return, Creating
  <2>2. QED
    BY <1>f, <2>1, <1>d DEF Fail, Return
<1>r. ASSUME Returned(s), Creating(s), req'[s] = req[s] PROVE Seated'
  <2>1. CASE UNCHANGED <<creating, slots>>
    BY <1>r, <2>1, <1>k
  <2>2. CASE Return(s, IF req[s].park THEN "parked" ELSE "first")
    <3>1. ~Creating(s)'
      BY <1>t, <2>2 DEF Return, Creating
    <3>2. QED
      BY <1>r, <2>2, <3>1, <1>d DEF Return
  <2>3. QED
    BY <1>r, <2>1, <2>2 DEF Returned
<1>7. CASE BadCast(s) \/ Create(s)
  <2>1. Creating(s) /\ req'[s] = req[s] /\ (Fail(s) \/ UNCHANGED <<creating, slots>>)
    BY <1>7 DEF BadCast, Create, Creating
  <2>2. QED
    BY <2>1, <1>k, <1>f
<1>8. ASSUME NEW alive \in BOOLEAN, NEW resized \in BOOLEAN, Claim(s, alive, resized) PROVE Seated'
  <2>1. Creating(s) /\ req'[s] = req[s] /\ (Returned(s) \/ UNCHANGED <<creating, slots>>)
    BY <1>8 DEF Claim, Creating
  <2>2. QED
    BY <2>1, <1>k, <1>r
<1>9. CASE TellCreated(s)
  BY <1>9, <1>r DEF TellCreated, Creating
<1>10. CASE FirstFrame(s) \/ SwapRetire(s)
  BY <1>10, <1>t, <1>k DEF FirstFrame, SwapRetire, Creating
<1>11. ASSUME NEW quit \in BOOLEAN, NEW policy \in host.policies,
              JoinCast(s, quit, policy) \/ SwapDrop(s, quit, policy) \/ Leave(s, quit, policy)
       PROVE  Seated'
  <2>1. /\ UNCHANGED <<creating, slots>> /\ req'[s] = req[s]
        /\ pc'[s] \in {"first", "swapretire", "idle", ToSlot(req[s])}
    BY <1>11, <1>t DEF JoinCast, SwapDrop, Leave
  <2>2. QED
    BY <2>1, <1>k DEF Creating
<1>12. ASSUME NEW quit \in BOOLEAN, NEW policy \in host.policies, Attach(s, quit, policy)
       PROVE  Seated'
  <2>1. CASE UNCHANGED <<creating, slots>>
    BY <1>12, <2>1, <1>k DEF Attach, Creating
  <2>2. CASE Return(s, IF req[s].park THEN "parked" ELSE "first")
    <3>1. ~Creating(s)' /\ req'[s] = req[s]
      BY <1>12, <1>t, <2>2 DEF Attach, Return, Creating
    <3>2. QED
      BY <2>2, <3>1, <1>d DEF Return
  <2>3. QED
    BY <1>12, <2>1, <2>2 DEF Attach
<1>13. ASSUME NEW quit \in BOOLEAN, NEW policy \in host.policies, DropFailed(s, quit, policy)
       PROVE  Seated'
  BY <1>13, <1>f DEF DropFailed
<1>14. ASSUME NEW policy \in host.policies, Unpark(s, policy) PROVE Seated'
  BY <1>14, <1>t, <1>d DEF Unpark, Creating
<1>15. QED
  BY <1>1, <1>2, <1>3, <1>4, <1>5, <1>6, <1>7, <1>8, <1>9, <1>10, <1>11, <1>12, <1>13, <1>14
     DEF Works, Acts

LEMMA StepSeats == Typed /\ SeatInv /\ [Next]_vars => SeatInv'
<1> SUFFICES ASSUME Typed, SeatInv, [Next]_vars, late' = 0 PROVE Seated'
  BY DEF SeatInv
<1>1. ASSUME NEW s \in Sessions, (\E r \in host.requests : Begin(s, r)) \/ Works(s) \/ Acts(s)
      PROVE  Seated'
  <2>1. late' = late
    <3>1. late \in Nat
      BY DEF Typed, TypeOK
    <3>2. ~SlotTimeout(s)
      BY <3>1 DEF SlotTimeout
    <3>3. QED
      BY <1>1, <3>2 DEF Works, Acts, Begin, TakeSlot, ParkHeld, JoinLive, Probe, BadCast, Claim, Retire,
         RetireOwn, Evict, Doom, ReleaseDoomed, Create, Push, TellCreated, FirstFrame, SwapRetire,
         JoinCast, Attach, DropFailed, SwapDrop, Unpark, Leave, hostVars
  <2>2. Seated
    BY <2>1 DEF SeatInv
  <2>3. QED
    BY <1>1, <2>1, <2>2, OwnSeats
<1>2. CASE Others \/ UNCHANGED vars
  <2>1. UNCHANGED <<acqVars, creating, late>>
    BY <1>2 DEF Others, Finish, Reap, ForceRelease, ReleaseSeatGameMode, Bump, invalidate_backend,
                Close, teardown_all, Exit, Tick, release_kept, hostVars, vars
  <2>2. QED
    BY <2>1 DEF SeatInv, Seated, Creating, acqVars
<1>3. QED
  BY <1>1, <1>2 DEF Next, Others

(* While no wait for a slot times out, one thread at a time is between its *)
(* reuse probe and the end of its create on a seat, however many sessions, *)
(* pre-warms and seats there are: the list of slots has one entry per seat,*)
(* and each such thread owns its own.                                      *)
THEOREM SeatsAreExclusive == Spec => []OneCreatePerSeat
<1>1. Init => SeatInv
  BY DEF Init, SeatInv, Seated, Creating
<1>2. Spec => [](Typed /\ SeatInv)
  BY <1>1, InitTyped, StepTyped, StepSeats, PTL DEF Spec
<1>3. ASSUME SeatInv PROVE OneCreatePerSeat
  <2> SUFFICES ASSUME late = 0, NEW s \in Sessions, NEW t \in Sessions, Creating(s), Creating(t),
                      Keyed(req[s]), slot_key(req[s]) = slot_key(req[t])
               PROVE  s = t
    BY DEF OneCreatePerSeat
  <2>1. Seated /\ Keyed(req[t])
    BY <1>3 DEF SeatInv, Keyed, slot_key
  <2>2. PICK m \in DOMAIN creating : creating[m] = <<req[s].backend, req[s].seat, s>>
    BY <2>1 DEF Seated
  <2>3. PICK n \in DOMAIN creating : creating[n] = <<req[t].backend, req[t].seat, t>>
    BY <2>1 DEF Seated
  <2>4. m = n
    BY <2>1, <2>2, <2>3 DEF Seated, KeyOf, slot_key
  <2>5. QED
    BY <2>2, <2>3, <2>4
<1>4. QED
  BY <1>2, <1>3, PTL
=============================================================================
