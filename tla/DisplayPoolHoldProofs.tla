------------------------- MODULE DisplayPoolHoldProofs -------------------------
(***************************************************************************)
(* Proofs about the holds of DisplayPool, for any sessions, hosts, requests*)
(* and bounds: an active display counts exactly the leases sessions have   *)
(* on it, so nothing but a failed cast takes it from under one, and what an*)
(* acquire claims is what it probed.                                       *)
(*                                                                         *)
(* LeaseAccounting is not inductive: a display filed under a generation    *)
(* that some lease already names would start with holds it does not count. *)
(* What carries it: whatever names a display was dealt from generation     *)
(* (Dealt), and what a create is about to file under, nobody else names    *)
(* (Unshared).                                                             *)
(***************************************************************************)
EXTENDS DisplayPoolProofs

Dealt ==
  \A s \in Sessions :
    /\ lease[s] # None => lease[s] < generation
    /\ old[s] # None => old[s] < generation
    /\ mine[s] # None => mine[s] < generation

Unshared ==
  \A s \in Sessions : pc[s] = "push" =>
    /\ \A i \in DOMAIN pool : pool[i].gen # mine[s]
    /\ \A t \in Sessions : lease[t] # mine[s] /\ old[t] # mine[s]
    /\ \A t \in Sessions \ {s} : mine[t] # mine[s]

(* What a session claims is what its probe matched, though the lock was    *)
(* let go in between: the generation it remembers still names the same     *)
(* display, or none.                                                       *)
Probed ==
  \A s \in Sessions : pc[s] = "claim" =>
    \A i \in DOMAIN pool :
      pool[i].gen = mine[s] =>
        /\ pool[i].req.backend = req[s].backend /\ pool[i].req.seat = req[s].seat
        /\ pool[i].req.hdr = req[s].hdr /\ pool[i].req.cursor = req[s].cursor
        /\ epoch_matches(pool[i], seen[s])
        /\ accepts_kept(pool[i], req[s])

IInv == LeaseAccounting /\ Dealt /\ Unshared /\ Probed

-----------------------------------------------------------------------------
(* Counting the holds.                                                     *)
Ind(p) == IF p THEN 1 ELSE 0

Held(s, n) == Ind(lease[s] = n) + Ind(old[s] = n)

LEMMA HoldsFinite ==
  ASSUME NEW n
  PROVE  /\ IsFiniteSet(Holds(n)) /\ Cardinality(Holds(n)) \in Nat
         /\ Cardinality(Holds(n)) = 0 <=> Holds(n) = {}
<1>1. IsFiniteSet({"lease", "old"})
  <2>1. IsFiniteSet({"lease"} \cup {"old"})
    BY FS_Singleton, FS_Union
  <2>2. QED
    BY <2>1
<1>2. IsFiniteSet(Sessions \X {"lease", "old"})
  BY <1>1, PoolAssumption, FS_Product
<1>3. Holds(n) \in SUBSET (Sessions \X {"lease", "old"})
  BY DEF Holds
<1>4. QED
  BY <1>2, <1>3, FS_Subset, FS_CardinalityType, FS_EmptySet

LEMMA WithTwo ==
  ASSUME NEW B, IsFiniteSet(B), NEW x, NEW y, x \notin B, y \notin B, x # y
  PROVE  /\ Cardinality(B \cup {x}) = Cardinality(B) + 1
         /\ Cardinality(B \cup {y}) = Cardinality(B) + 1
         /\ Cardinality((B \cup {x}) \cup {y}) = Cardinality(B) + 2
<1>1. Cardinality(B) \in Nat
  BY FS_CardinalityType
<1>2. IsFiniteSet(B \cup {x}) /\ Cardinality(B \cup {x}) = Cardinality(B) + 1
  BY FS_AddElement
<1>3. Cardinality(B \cup {y}) = Cardinality(B) + 1
  BY FS_AddElement
<1>4. y \notin B \cup {x}
  OBVIOUS
<1>5. Cardinality((B \cup {x}) \cup {y}) = Cardinality(B \cup {x}) + 1
  BY <1>2, <1>4, FS_AddElement
<1>6. QED
  BY <1>1, <1>2, <1>3, <1>5

(* A step of s changes the holds on a generation by what s itself changes. *)
LEMMA HoldsChange ==
  ASSUME Typed, NEW s \in Sessions, OwnOnly(s), NEW n
  PROVE  Cardinality(Holds(n))' = Cardinality(Holds(n)) - Held(s, n) + Held(s, n)'
<1> DEFINE B == Holds(n) \ {<<s, "lease">>, <<s, "old">>}
<1>1. IsFiniteSet(B) /\ Cardinality(B) \in Nat
  BY HoldsFinite, FS_Difference, FS_CardinalityType
<1>2. \A q \in Sessions \ {s} : lease'[q] = lease[q] /\ old'[q] = old[q]
  BY DEF Typed, TypeOK, OwnOnly
<1> DEFINE x == <<s, "lease">>
           y == <<s, "old">>
<1>3. x \notin B /\ y \notin B /\ x # y
  OBVIOUS
<1>4. /\ lease[s] = n /\ old[s] = n => Holds(n) = (B \cup {x}) \cup {y}
      /\ lease[s] = n /\ old[s] # n => Holds(n) = B \cup {x}
      /\ lease[s] # n /\ old[s] = n => Holds(n) = B \cup {y}
      /\ lease[s] # n /\ old[s] # n => Holds(n) = B
  BY DEF Holds
<1>5. /\ lease'[s] = n /\ old'[s] = n => Holds(n)' = (B \cup {x}) \cup {y}
      /\ lease'[s] = n /\ old'[s] # n => Holds(n)' = B \cup {x}
      /\ lease'[s] # n /\ old'[s] = n => Holds(n)' = B \cup {y}
      /\ lease'[s] # n /\ old'[s] # n => Holds(n)' = B
  BY <1>2 DEF Holds
<1> HIDE DEF B, x, y
<1>6. /\ Cardinality(B \cup {x}) = Cardinality(B) + 1
      /\ Cardinality(B \cup {y}) = Cardinality(B) + 1
      /\ Cardinality((B \cup {x}) \cup {y}) = Cardinality(B) + 2
  BY <1>1, <1>3, WithTwo
<1>7. Cardinality(Holds(n)) = Cardinality(B) + Held(s, n)
  BY <1>1, <1>4, <1>6 DEF Held, Ind
<1> DEFINE H == Holds(n)'
<1>8. Cardinality(H) = Cardinality(B) + Ind(lease'[s] = n) + Ind(old'[s] = n)
  <2>1. /\ lease'[s] = n /\ old'[s] = n => H = (B \cup {x}) \cup {y}
        /\ lease'[s] = n /\ old'[s] # n => H = B \cup {x}
        /\ lease'[s] # n /\ old'[s] = n => H = B \cup {y}
        /\ lease'[s] # n /\ old'[s] # n => H = B
    BY <1>5
  <2> HIDE DEF H
  <2>2. QED
    BY <1>1, <1>6, <2>1 DEF Ind
<1>9. Held(s, n) \in Nat /\ Held(s, n)' \in Nat /\ Held(s, n)' = Ind(lease'[s] = n) + Ind(old'[s] = n)
  BY DEF Held, Ind
<1>10. QED
  BY <1>1, <1>7, <1>8, <1>9 DEF Ind

(* The accounts, by number.                                                *)
Accounted ==
  \A i \in DOMAIN pool : \A n \in Nat : n = pool[i].gen =>
    /\ \A j \in DOMAIN pool : pool[j].gen = n => j = i
    /\ n < generation
    /\ pool[i].life.refs = Cardinality(Holds(n))
    /\ pool[i].life.kind = "active" <=> pool[i].life.refs > 0

LEMMA AccountsAgree == TypeOK => (LeaseAccounting <=> Accounted)
<1> SUFFICES ASSUME TypeOK PROVE LeaseAccounting <=> Accounted
  OBVIOUS
<1>1. \A i \in DOMAIN pool : pool[i].gen \in Nat /\ pool[i].life.refs \in Nat
  BY DEF TypeOK, Entry, States
<1>2. \A n : /\ Cardinality(Holds(n)) \in Nat
             /\ Cardinality(Holds(n)) = 0 <=> Holds(n) = {}
  BY HoldsFinite
<1>3. ASSUME LeaseAccounting, NEW i \in DOMAIN pool, NEW n \in Nat, n = pool[i].gen
      PROVE  /\ \A j \in DOMAIN pool : pool[j].gen = n => j = i
             /\ n < generation
             /\ pool[i].life.refs = Cardinality(Holds(n))
             /\ pool[i].life.kind = "active" <=> pool[i].life.refs > 0
  <2>1. /\ Named(n) = {i} /\ n < generation
        /\ pool[i].life.refs = Cardinality(Holds(n))
        /\ pool[i].life.kind = "active" <=> Holds(n) # {}
    BY <1>3 DEF LeaseAccounting, IsActive
  <2>2. \A j \in DOMAIN pool : pool[j].gen = n => j = i
    BY <2>1 DEF Named
  <2>3. QED
    BY <1>2, <2>1, <2>2
<1>4. ASSUME Accounted, NEW i \in DOMAIN pool, NEW n \in Nat, n = pool[i].gen
      PROVE  /\ Named(n) = {i} /\ n < generation
             /\ pool[i].life.refs = Cardinality(Holds(n))
             /\ pool[i].life.kind = "active" <=> Holds(n) # {}
  <2>1. /\ \A j \in DOMAIN pool : pool[j].gen = n => j = i
        /\ n < generation
        /\ pool[i].life.refs = Cardinality(Holds(n))
        /\ pool[i].life.kind = "active" <=> pool[i].life.refs > 0
    BY <1>4 DEF Accounted
  <2>2. Named(n) = {i}
    BY <1>4, <2>1 DEF Named
  <2>3. QED
    BY <1>2, <2>1, <2>2
<1>5. QED
  BY <1>1, <1>3, <1>4 DEF LeaseAccounting, Accounted, IsActive

LEMMA AccountsAgreeNext == Typed' /\ Accounted' => LeaseAccounting'
<1>1. Typed /\ Accounted => LeaseAccounting
  BY AccountsAgree DEF Typed
<1>2. QED
  BY <1>1, PTL

LEMMA Account ==
  ASSUME Typed, LeaseAccounting, NEW i \in DOMAIN pool
  PROVE  /\ pool[i].gen \in Nat /\ pool[i].gen < generation
         /\ \A j \in DOMAIN pool : pool[j].gen = pool[i].gen => j = i
         /\ pool[i].life \in States
         /\ pool[i].life.refs = Cardinality(Holds(pool[i].gen))
         /\ IsActive(pool[i]) <=> pool[i].life.refs > 0
         /\ \A s \in Sessions : pool[i].gen \in {lease[s], old[s]} => IsActive(pool[i])
<1>1. pool[i].gen \in Nat /\ pool[i].life \in States
  BY DEF Typed, TypeOK, Entry
<1>2. \A s \in Sessions : pool[i].gen \in {lease[s], old[s]} => Holds(pool[i].gen) # {}
  BY DEF Holds
<1>3. Accounted
  BY AccountsAgree DEF Typed
<1>4. IsActive(pool[i]) <=> Holds(pool[i].gen) # {}
  BY DEF LeaseAccounting
<1>5. QED
  BY <1>1, <1>2, <1>3, <1>4 DEF Accounted, IsActive

(* A display is accounted for if its count moved as the holds of the one   *)
(* session that moved did.                                                 *)
LEMMA AccountsFollow ==
  ASSUME Typed, Typed', LeaseAccounting, NEW s \in Sessions, OwnOnly(s),
         generation' \in {generation, generation + 1},
         \A i \in DOMAIN pool' :
           /\ i \in DOMAIN pool /\ pool'[i].gen = pool[i].gen
           /\ \A n \in Nat : n = pool[i].gen =>
                pool'[i].life.refs = pool[i].life.refs - Held(s, n) + Held(s, n)'
           /\ pool'[i].life.kind = "active" <=> pool'[i].life.refs > 0
  PROVE  LeaseAccounting'
<1>1. ASSUME NEW i \in DOMAIN pool', NEW n \in Nat, n = pool'[i].gen
      PROVE  /\ \A j \in DOMAIN pool' : pool'[j].gen = n => j = i
             /\ n < generation'
             /\ pool'[i].life.refs = Cardinality(Holds(n))'
             /\ pool'[i].life.kind = "active" <=> pool'[i].life.refs > 0
  <2>1. i \in DOMAIN pool /\ n = pool[i].gen /\ generation \in Nat
    BY <1>1 DEF Typed, TypeOK
  <2>2. /\ \A j \in DOMAIN pool : pool[j].gen = n => j = i
        /\ n < generation
        /\ pool[i].life.refs = Cardinality(Holds(n))
    BY <2>1, Account
  <2>3. Cardinality(Holds(n))' = Cardinality(Holds(n)) - Held(s, n) + Held(s, n)'
    BY HoldsChange
  <2>4. QED
    BY <2>1, <2>2, <2>3
<1>2. Accounted'
  BY <1>1 DEF Accounted
<1>3. QED
  BY <1>2, AccountsAgreeNext

(* A step that takes displays out, at most, and moves a hold between a     *)
(* session's two leases, at most.                                          *)
LEMMA AccountsKept ==
  ASSUME Typed, Typed', LeaseAccounting, NEW s \in Sessions, OwnOnly(s),
         generation' \in {generation, generation + 1},
         DOMAIN pool' \subseteq DOMAIN pool, \A i \in DOMAIN pool' : pool'[i] = pool[i],
         \A n \in Nat : Held(s, n)' = Held(s, n)
  PROVE  LeaseAccounting'
<1>1. \A i \in DOMAIN pool : pool[i].life.refs \in Nat /\ (IsActive(pool[i]) <=> pool[i].life.refs > 0)
  BY Account DEF States
<1>2. \A n \in Nat : Held(s, n) \in Nat
  BY DEF Held, Ind
<1>3. QED
  BY <1>1, <1>2, AccountsFollow DEF IsActive

(* The last hold but one, or the last: what drop_lease leaves of a display.*)
LEMMA AccountsDropped ==
  ASSUME Typed, Typed', LeaseAccounting, NEW s \in Sessions, OwnOnly(s),
         NEW g \in {lease[s], old[s]}, NEW quit \in BOOLEAN, NEW policy \in Lingers,
         drop_lease(s, g, quit, policy),
         \A n \in Nat : Held(s, n)' = Held(s, n) - Ind(g = n)
  PROVE  LeaseAccounting'
<1> DEFINE after(i) == release(pool[i].life, now, LingerOf(pool[i], quit, policy))
<1>1. generation' = generation /\ DOMAIN pool' \subseteq DOMAIN pool
  BY DEF drop_lease
<1>2. ASSUME NEW i \in DOMAIN pool', pool[i].gen # g
      PROVE  pool'[i] = pool[i]
  BY <1>2 DEF drop_lease, Named
<1>3. ASSUME NEW i \in DOMAIN pool', pool[i].gen = g
      PROVE  pool'[i] = [pool[i] EXCEPT !.life = after(i)]
  BY <1>1, <1>3 DEF drop_lease, Named
<1> SUFFICES ASSUME NEW i \in DOMAIN pool', NEW n \in Nat, n = pool[i].gen
             PROVE  /\ pool'[i].gen = pool[i].gen
                    /\ pool'[i].life.refs = pool[i].life.refs - Held(s, n) + Held(s, n)'
                    /\ pool'[i].life.kind = "active" <=> pool'[i].life.refs > 0
  <2>1. \A i \in DOMAIN pool : pool[i].gen \in Nat
    BY DEF Typed, TypeOK, Entry
  <2>2. QED
    BY <1>1, <2>1, AccountsFollow
<1>4. /\ pool[i].life \in States /\ (IsActive(pool[i]) <=> pool[i].life.refs > 0)
      /\ g = n => IsActive(pool[i])
      /\ pool[i] \in Entry
  <2>1. \A j \in DOMAIN pool : pool[j] \in Entry
    BY DEF Typed, TypeOK
  <2> QED
    BY <1>1, <2>1, Account
<1>5. Held(s, n) \in Nat /\ now \in Nat
  <2>1. now \in Nat
    BY DEF Typed, TypeOK
  <2> QED
    BY <2>1 DEF Held, Ind
<1>6. CASE g # n
  BY <1>2, <1>4, <1>5, <1>6 DEF IsActive, Ind, States
<1>7. CASE g = n
  <2>1. after(i) \in States /\ after(i).refs = pool[i].life.refs - 1
        /\ (after(i).kind = "active" <=> pool[i].life.refs > 1)
    <3>1. pool[i].life.kind = "active" /\ pool[i].life.refs \in Nat /\ pool[i].life.refs >= 1
      BY <1>4, <1>7 DEF IsActive, States
    <3>2. LingerOf(pool[i], quit, policy) \in Lingers
      BY LingerTyped
    <3> QED
      BY <1>4, <1>5, <3>1, <3>2, ReleaseTakes
  <2> HIDE DEF after
  <2>2. pool'[i].life = after(i) /\ pool'[i].gen = pool[i].gen
    BY <1>3, <1>4, <1>7 DEF Entry
  <2>3. QED
    BY <1>4, <1>5, <1>7, <2>1, <2>2 DEF Ind, States
<1>8. QED
  BY <1>6, <1>7

(* A display that starts to be held, under a generation nobody names.      *)
LEMMA AccountsOpened ==
  ASSUME Typed, Typed', LeaseAccounting, NEW s \in Sessions, OwnOnly(s),
         generation' \in {generation, generation + 1},
         lease[s] = None, old'[s] = old[s],
         NEW i \in DOMAIN pool', NEW g \in Nat,
         DOMAIN pool' \subseteq DOMAIN pool \cup {i},
         \A j \in DOMAIN pool' \ {i} : pool'[j] = pool[j],
         pool'[i].gen = g, lease'[s] = g, g < generation',
         \A j \in DOMAIN pool \ {i} : pool[j].gen # g,
         \A t \in Sessions : lease[t] # g /\ old[t] # g,
         pool'[i].life.kind = "active", pool'[i].life.refs = 1
  PROVE  LeaseAccounting'
<1>t. generation \in Nat /\ None \notin Nat
  BY PoolAssumption DEF Typed, TypeOK
<1>1. Accounted
  BY AccountsAgree DEF Typed
<1>2. Cardinality(Holds(g)) = 0
  <2>1. Holds(g) = {}
    BY DEF Holds
  <2>2. QED
    BY <2>1, HoldsFinite
<1>3. ASSUME NEW n \in Nat
      PROVE  /\ Cardinality(Holds(n))' = Cardinality(Holds(n)) + Ind(g = n)
             /\ Cardinality(Holds(n)) \in Nat
  <2>1. Cardinality(Holds(n))' = Cardinality(Holds(n)) - Held(s, n) + Held(s, n)'
    BY HoldsChange
  <2>2. Held(s, n)' = Held(s, n) + Ind(g = n) /\ Held(s, n) \in Nat /\ Ind(g = n) \in Nat
    BY <1>t DEF Held, Ind
  <2>3. QED
    BY <2>1, <2>2, HoldsFinite
<1>4. ASSUME NEW j \in DOMAIN pool', NEW n \in Nat, n = pool'[j].gen
      PROVE  /\ \A k \in DOMAIN pool' : pool'[k].gen = n => k = j
             /\ n < generation'
             /\ pool'[j].life.refs = Cardinality(Holds(n))'
             /\ pool'[j].life.kind = "active" <=> pool'[j].life.refs > 0
  <2>1. CASE j = i
    <3>1. n = g /\ Cardinality(Holds(n))' = 1
      BY <1>2, <1>3, <1>4, <2>1 DEF Ind
    <3>2. QED
      BY <2>1, <3>1
  <2>2. CASE j # i
    <3>1. j \in DOMAIN pool /\ pool'[j] = pool[j] /\ n # g
      BY <1>4, <2>2
    <3>2. Cardinality(Holds(n))' = Cardinality(Holds(n))
      BY <1>3, <3>1 DEF Ind
    <3>3. /\ \A k \in DOMAIN pool : pool[k].gen = n => k = j
          /\ n < generation
          /\ pool[j].life.refs = Cardinality(Holds(n))
          /\ pool[j].life.kind = "active" <=> pool[j].life.refs > 0
      BY <1>1, <1>4, <3>1 DEF Accounted
    <3>4. \A k \in DOMAIN pool' : pool'[k].gen = n => k = j
      BY <3>1, <3>3
    <3>5. n < generation'
      BY <1>t, <3>3
    <3>6. QED
      BY <3>1, <3>2, <3>3, <3>4, <3>5
  <2>3. QED
    BY <2>1, <2>2
<1>5. Accounted'
  BY <1>4 DEF Accounted
<1>6. QED
  BY <1>5, AccountsAgreeNext

(* Every step of a session keeps the accounts.                             *)
LEMMA OwnAccounts ==
  ASSUME Typed, Typed', IInv, NEW s \in Sessions,
         (\E r \in host.requests : Begin(s, r)) \/ Works(s) \/ Acts(s)
  PROVE  LeaseAccounting'
<1>t. /\ OwnOnly(s) /\ EntriesTyped(s) /\ InHand(s) /\ LeaseAccounting /\ None \notin Nat
      /\ \A policy \in host.policies : policy \in Lingers
  BY OwnEntries, TypedParts, PoolAssumption DEF IInv, HostTyped
<1>d. /\ pc \in [Sessions -> PCs] /\ lease \in [Sessions -> Nat \cup {None}]
      /\ old \in [Sessions -> Nat \cup {None}] /\ mine \in [Sessions -> Nat \cup {None}]
      /\ generation \in Nat
  BY DEF Typed, TypeOK
<1>k. ASSUME DOMAIN pool' \subseteq DOMAIN pool, \A i \in DOMAIN pool' : pool'[i] = pool[i],
             generation' \in {generation, generation + 1},
             \/ lease'[s] = lease[s] /\ old'[s] = old[s]
             \/ old[s] = None /\ old'[s] = lease[s] /\ lease'[s] = None
             \/ lease[s] = None /\ lease'[s] = old[s] /\ old'[s] = None
      PROVE  LeaseAccounting'
  <2>1. \A n \in Nat : Held(s, n)' = Held(s, n)
    BY <1>k, <1>t DEF Held, Ind
  <2>2. QED
    BY <1>k, <1>t, <2>1, AccountsKept
<1>p. ASSUME \/ UNCHANGED pool
             \/ \E I : Remove(s, I)
             \/ \E G : release_kept(s, G)
             \/ \E g : mark_failed(s, g)
      PROVE  DOMAIN pool' \subseteq DOMAIN pool /\ \A i \in DOMAIN pool' : pool'[i] = pool[i]
  BY <1>p DEF Remove, release_kept, mark_failed
<1>g. ASSUME NEW g \in {lease[s], old[s]}, NEW quit \in BOOLEAN, NEW policy \in host.policies,
             drop_lease(s, g, quit, policy),
             \/ g = lease[s] /\ lease'[s] = None /\ old'[s] = old[s]
             \/ g = lease[s] /\ lease'[s] = old[s] /\ old'[s] = None
             \/ g = old[s] /\ lease'[s] = lease[s] /\ old'[s] = None
      PROVE  LeaseAccounting'
  <2>1. \A n \in Nat : Held(s, n)' = Held(s, n) - Ind(g = n)
    BY <1>g, <1>t DEF Held, Ind
  <2>2. QED
    BY <1>g, <1>t, <2>1, AccountsDropped
<1>1. ASSUME NEW r \in host.requests, Begin(s, r) PROVE LeaseAccounting'
  <2>1. old[s] = None /\ old'[s] = lease[s] /\ lease'[s] = None /\ generation' = generation
    BY <1>1, <1>t, <1>d DEF Begin, InHand, Settled
  <2>2. UNCHANGED pool \/ \E I : Remove(s, I)
    BY <1>1 DEF Begin
  <2>3. QED
    BY <2>1, <2>2, <1>k, <1>p
<1>2. CASE TakeSlot(s) \/ SlotTimeout(s) \/ Probe(s) \/ Retire(s) \/ RetireOwn(s) \/ Evict(s)
           \/ ParkHeld(s) \/ TellCreated(s)
  <2>1. UNCHANGED <<lease, old, generation>>
    BY <1>2 DEF TakeSlot, SlotTimeout, Probe, Retire, RetireOwn, Evict, Doom, ParkHeld, TellCreated, poolVars
  <2>2. UNCHANGED pool \/ \E I : Remove(s, I)
    BY <1>2 DEF TakeSlot, SlotTimeout, Probe, Retire, RetireOwn, Evict, Doom, ParkHeld, TellCreated, poolVars
  <2>3. QED
    BY <2>1, <2>2, <1>k, <1>p
<1>3. CASE FirstFrame(s) \/ ReleaseDoomed(s) \/ SwapRetire(s)
  <2>1. UNCHANGED <<lease, old, generation>>
    BY <1>3 DEF FirstFrame, ReleaseDoomed, SwapRetire, mark_failed, release_kept, poolVars
  <2>2. UNCHANGED pool \/ (\E G : release_kept(s, G)) \/ (\E g : mark_failed(s, g))
    BY <1>3 DEF FirstFrame, ReleaseDoomed, SwapRetire, poolVars
  <2>3. QED
    BY <2>1, <2>2, <1>k, <1>p
<1>4. CASE BadCast(s) \/ Create(s)
  <2>1. /\ generation' \in {generation, generation + 1}
        /\ UNCHANGED pool \/ \E g : mark_failed(s, g)
    BY <1>4 DEF BadCast, Create, mark_failed
  <2>2. lease[s] = None
    BY <1>4, <1>t DEF BadCast, Create, InHand, Leaseless
  <2>3. \/ lease'[s] = lease[s] /\ old'[s] = old[s]
        \/ lease'[s] = old[s] /\ old'[s] = None
    BY <1>4, <1>d DEF BadCast, Create, Fail
  <2>4. QED
    BY <2>1, <2>2, <2>3, <1>k, <1>p
<1>5. ASSUME NEW quit \in BOOLEAN, NEW policy \in host.policies,
             \/ JoinCast(s, quit, policy) \/ Attach(s, quit, policy) \/ DropFailed(s, quit, policy)
             \/ SwapDrop(s, quit, policy) \/ Leave(s, quit, policy) \/ Unpark(s, policy)
      PROVE  LeaseAccounting'
  <2>1. \/ UNCHANGED <<pool, generation>> /\ lease'[s] = lease[s] /\ old'[s] = old[s]
        \/ /\ drop_lease(s, lease[s], quit, policy) \/ drop_lease(s, lease[s], FALSE, policy)
           /\ \/ lease'[s] = None /\ old'[s] = old[s]
              \/ lease'[s] = old[s] /\ old'[s] = None
        \/ drop_lease(s, old[s], quit, policy) /\ lease'[s] = lease[s] /\ old'[s] = None
    BY <1>5, <1>d DEF JoinCast, Attach, DropFailed, SwapDrop, Leave, Unpark, Fail, poolVars
  <2>2. QED
    BY <2>1, <1>k, <1>g
<1>6. CASE JoinLive(s)
  <2> DEFINE I == join_targets(req[s], seen[s])
             i == First(I)
  <2>1. CASE I = {}
    <3>1. UNCHANGED <<pool, lease, old, generation>>
      BY <1>6, <2>1 DEF JoinLive
    <3>2. QED
      BY <3>1, <1>k
  <2>2. CASE I # {}
    <3>1. i \in DOMAIN pool /\ IsActive(pool[i])
      <4>1. I \in SUBSET Nat
        BY PoolIsNumbered DEF join_targets
      <4>2. i \in I
        BY <2>2, <4>1, FirstIsIn
      <4>3. QED
        BY <4>2 DEF join_targets
    <3>2. /\ pool' = [pool EXCEPT ![i].life = acquire(@)] /\ lease'[s] = pool[i].gen
          /\ old'[s] = old[s] /\ generation' = generation
      BY <1>6, <1>d, <2>2 DEF JoinLive
    <3>3. lease[s] = None
      BY <1>6, <1>t DEF JoinLive, InHand, Leaseless
    <3> HIDE DEF i
    <3>4. /\ DOMAIN pool' = DOMAIN pool /\ pool'[i].gen = pool[i].gen
          /\ pool'[i].life = acquire(pool[i].life)
          /\ \A j \in DOMAIN pool \ {i} : pool'[j] = pool[j]
      BY <3>1, <3>2 DEF Typed, TypeOK, Entry
    <3>5. ASSUME NEW n \in Nat
          PROVE  /\ Held(s, n)' = Held(s, n) + Ind(pool[i].gen = n)
                 /\ Held(s, n) \in Nat /\ Held(s, n)' \in Nat
      BY <1>t, <3>2, <3>3 DEF Held, Ind
    <3>6. ASSUME NEW j \in DOMAIN pool'
          PROVE  /\ j \in DOMAIN pool /\ pool'[j].gen = pool[j].gen
                 /\ \A n \in Nat : n = pool[j].gen =>
                      pool'[j].life.refs = pool[j].life.refs - Held(s, n) + Held(s, n)'
                 /\ pool'[j].life.kind = "active" <=> pool'[j].life.refs > 0
      <4>1. /\ pool[j].life.refs \in Nat /\ (IsActive(pool[j]) <=> pool[j].life.refs > 0)
            /\ pool[j].gen = pool[i].gen => j = i
        BY <1>t, <3>1, <3>4, Account DEF States
      <4>2. CASE j = i
        BY <3>1, <3>4, <3>5, <4>1, <4>2 DEF acquire, Active, Ind, IsActive
      <4>3. CASE j # i
        BY <3>4, <3>5, <4>1, <4>3 DEF Ind, IsActive
      <4>4. QED
        BY <4>2, <4>3
    <3>7. QED
      BY <1>t, <3>2, <3>6, AccountsFollow
  <2>3. QED
    BY <2>1, <2>2
<1>7. ASSUME NEW alive \in BOOLEAN, NEW resized \in BOOLEAN, Claim(s, alive, resized)
      PROVE  LeaseAccounting'
  <2> DEFINE I == Refound(s, mine[s])
             i == First(I)
  <2>1. old'[s] = old[s]
    BY <1>7 DEF Claim
  <2>2. CASE I # {} /\ resized
    <3>1. i \in DOMAIN pool /\ IsKept(pool[i])
      <4>1. I \in SUBSET Nat
        BY PoolIsNumbered DEF Refound, Named
      <4>2. i \in I
        BY <2>2, <4>1, FirstIsIn
      <4>3. QED
        BY <4>2 DEF Refound, Named
    <3>2. /\ DOMAIN pool' = DOMAIN pool /\ pool'[i].gen = generation
          /\ pool'[i].life = acquire(pool[i].life)
          /\ \A j \in DOMAIN pool \ {i} : pool'[j] = pool[j]
          /\ lease'[s] = generation /\ generation' = generation + 1
      <4>1. /\ pool' = [pool EXCEPT ![i] = [pool[i] EXCEPT
                           !.life = acquire(@), !.gen = generation, !.parked = req[s].park,
                           !.req.mode = req[s].mode,
                           !.req.owner = IF @ = None THEN req[s].owner ELSE @]]
            /\ lease'[s] = generation /\ generation' = generation + 1
        BY <1>7, <1>d, <2>2 DEF Claim
      <4> HIDE DEF i
      <4>2. pool[i] \in Entry
        BY <3>1 DEF Typed, TypeOK
      <4>3. QED
        BY <3>1, <4>1, <4>2 DEF Entry, Typed, TypeOK
    <3>3. pool'[i].life.kind = "active" /\ pool'[i].life.refs = 1
      BY <3>1, <3>2 DEF IsKept, Kept, acquire, Active
    <3>4. lease[s] = None
      BY <1>7, <1>t DEF Claim, InHand, Leaseless
    <3>5. \A t \in Sessions : lease[t] # generation /\ old[t] # generation
      BY <1>t, <1>d DEF IInv, Dealt
    <3>6. \A j \in DOMAIN pool : pool[j].gen # generation
      BY <1>t, <1>d, Account
    <3>7. generation < generation'
      BY <1>d, <3>2
    <3> HIDE DEF i
    <3>8. QED
      BY <1>t, <1>d, <2>1, <3>1, <3>2, <3>3, <3>4, <3>5, <3>6, <3>7, AccountsOpened
  <2>3. CASE ~(I # {} /\ resized)
    <3>1. (UNCHANGED pool \/ \E J : Remove(s, J)) /\ UNCHANGED <<lease, generation>>
      BY <1>7, <2>3 DEF Claim
    <3>2. QED
      BY <2>1, <3>1, <1>k, <1>p
  <2>4. QED
    BY <2>2, <2>3
<1>8. CASE Push(s)
  <2>1. mine[s] \in Nat /\ pushed \in Nat /\ lease[s] = None /\ mine[s] < generation
    BY <1>8, <1>t DEF Push, InHand, Leaseless, Typed, TypeOK, IInv, Dealt
  <2>2. /\ DOMAIN pool' = DOMAIN pool \cup {pushed + 1} /\ pushed + 1 \notin DOMAIN pool
        /\ pool'[pushed + 1].gen = mine[s] /\ pool'[pushed + 1].life = acquire(Idle)
        /\ \A j \in DOMAIN pool : pool'[j] = pool[j]
        /\ lease'[s] = mine[s] /\ old'[s] = old[s] /\ generation' = generation
    BY <1>8, <1>d, <2>1 DEF Push, Typed, TypeOK
  <2>3. pool'[pushed + 1].life.kind = "active" /\ pool'[pushed + 1].life.refs = 1
    BY <2>2 DEF acquire, Active, Idle
  <2>4. /\ \A j \in DOMAIN pool : pool[j].gen # mine[s]
        /\ \A t \in Sessions : lease[t] # mine[s] /\ old[t] # mine[s]
    BY <1>8 DEF Push, IInv, Unshared
  <2> DEFINE i == pushed + 1
             g == mine[s]
  <2>5. /\ i \in DOMAIN pool' /\ g \in Nat /\ DOMAIN pool' \subseteq DOMAIN pool \cup {i}
        /\ \A j \in DOMAIN pool' \ {i} : pool'[j] = pool[j]
        /\ pool'[i].gen = g /\ lease'[s] = g /\ g < generation'
        /\ \A j \in DOMAIN pool \ {i} : pool[j].gen # g
        /\ \A t \in Sessions : lease[t] # g /\ old[t] # g
        /\ pool'[i].life.kind = "active" /\ pool'[i].life.refs = 1
    BY <2>1, <2>2, <2>3, <2>4
  <2> HIDE DEF i, g
  <2>6. QED
    BY <1>t, <1>d, <2>1, <2>2, <2>5, AccountsOpened
<1>9. QED
  BY <1>1, <1>2, <1>3, <1>4, <1>5, <1>6, <1>7, <1>8 DEF Works, Acts

-----------------------------------------------------------------------------
(* What names a display.                                                   *)

(* A name a session ends up with is one it had, one it reads in the pool,  *)
(* or the one just dealt.                                                  *)
Known(s, v) ==
  \/ v \in {None, lease[s], old[s], mine[s]}
  \/ \E i \in DOMAIN pool : v = pool[i].gen
Fresh(v) == v = generation /\ generation' = generation + 1

(* A display stays what it was under its name, or is new under a new one.  *)
Stays(i) ==
  /\ i \in DOMAIN pool /\ pool'[i].gen = pool[i].gen
  /\ pool'[i].req = pool[i].req /\ pool'[i].epoch = pool[i].epoch
Renamed(s, i) ==
  \/ Stays(i) \/ Fresh(pool'[i].gen)
  \/ pc[s] = "push" /\ pc'[s] # "push" /\ pool'[i].gen = mine[s]

OwnNaming(s) ==
  /\ generation' \in {generation, generation + 1}
  /\ Known(s, lease'[s]) \/ Fresh(lease'[s])
  /\ Known(s, old'[s])
  /\ Known(s, mine'[s]) \/ Fresh(mine'[s])
  /\ \A i \in DOMAIN pool' : Renamed(s, i)
  /\ pc'[s] = "push" => /\ Fresh(mine'[s])
                        /\ UNCHANGED <<pool, lease, old>>

LEMMA OwnNames ==
  ASSUME Typed, NEW s \in Sessions,
         (\E r \in host.requests : Begin(s, r)) \/ Works(s) \/ Acts(s)
  PROVE  OwnNaming(s)
<1>d. /\ pc \in [Sessions -> PCs] /\ lease \in [Sessions -> Nat \cup {None}]
      /\ old \in [Sessions -> Nat \cup {None}] /\ mine \in [Sessions -> Nat \cup {None}]
      /\ generation \in Nat /\ DOMAIN pool \in SUBSET Nat /\ pool \in [DOMAIN pool -> Entry]
  BY DEF Typed, TypeOK
<1>p. ASSUME \/ UNCHANGED pool
             \/ \E I : Remove(s, I)
             \/ \E G : release_kept(s, G)
             \/ \E g : mark_failed(s, g)
      PROVE  \A i \in DOMAIN pool' : Renamed(s, i)
  BY <1>p DEF Remove, release_kept, mark_failed, Renamed, Stays
<1>g. ASSUME NEW g, NEW quit, NEW policy, drop_lease(s, g, quit, policy)
      PROVE  \A i \in DOMAIN pool' : Renamed(s, i)
  BY <1>g, <1>d DEF drop_lease, Renamed, Stays, Entry
<1>k. ASSUME \A i \in DOMAIN pool' : Renamed(s, i), generation' \in {generation, generation + 1},
             pc'[s] # "push",
             lease'[s] \in {None, lease[s], old[s], mine[s]},
             old'[s] \in {None, lease[s], old[s]},
             mine'[s] \in {None, mine[s], lease[s], old[s]}
      PROVE  OwnNaming(s)
  BY <1>k DEF OwnNaming, Known
<1> USE DEF Go
<1>1. ASSUME NEW r \in host.requests, Begin(s, r) PROVE OwnNaming(s)
  <2>1. UNCHANGED pool \/ \E I : Remove(s, I)
    BY <1>1 DEF Begin
  <2>2. /\ lease'[s] = None /\ old'[s] = lease[s] /\ mine'[s] = mine[s] /\ generation' = generation
        /\ pc'[s] \in {"park", "join", "slot", "probe"}
    BY <1>1, <1>d DEF Begin, ToSlot
  <2>3. QED
    BY <2>1, <2>2, <1>k, <1>p
<1>2. CASE TakeSlot(s) \/ SlotTimeout(s) \/ ParkHeld(s) \/ Retire(s) \/ RetireOwn(s) \/ Evict(s)
           \/ TellCreated(s)
  <2>1. UNCHANGED pool \/ \E I : Remove(s, I)
    BY <1>2 DEF TakeSlot, SlotTimeout, ParkHeld, Retire, RetireOwn, Evict, Doom, TellCreated, poolVars
  <2>2. UNCHANGED <<lease, old, mine, generation>>
    BY <1>2 DEF TakeSlot, SlotTimeout, ParkHeld, Retire, RetireOwn, Evict, Doom, TellCreated, poolVars
  <2>3. pc'[s] # "push"
    BY <1>2, <1>d DEF TakeSlot, SlotTimeout, ParkHeld, Retire, RetireOwn, Evict, Doom, TellCreated,
                      Returned, Return
  <2>4. QED
    BY <2>1, <2>2, <2>3, <1>k, <1>p
<1>3. CASE FirstFrame(s) \/ ReleaseDoomed(s) \/ SwapRetire(s)
  <2>1. UNCHANGED pool \/ (\E G : release_kept(s, G)) \/ (\E g : mark_failed(s, g))
    BY <1>3 DEF FirstFrame, ReleaseDoomed, SwapRetire, poolVars
  <2>2. UNCHANGED <<lease, old, generation>> /\ mine'[s] \in {mine[s], None}
    BY <1>3, <1>d DEF FirstFrame, ReleaseDoomed, SwapRetire, mark_failed, release_kept, poolVars
  <2>3. pc'[s] # "push"
    BY <1>3, <1>d DEF FirstFrame, ReleaseDoomed, SwapRetire
  <2>4. QED
    BY <2>1, <2>2, <2>3, <1>k, <1>p
<1>4. CASE BadCast(s)
  <2>1. (\E g : mark_failed(s, g)) /\ generation' = generation
    BY <1>4 DEF BadCast, mark_failed
  <2>2. /\ lease'[s] \in {lease[s], old[s]} /\ old'[s] \in {old[s], None} /\ mine'[s] = None
        /\ pc'[s] # "push"
    BY <1>4, <1>d DEF BadCast, Fail, Return, ToRetire
  <2>3. QED
    BY <2>1, <2>2, <1>k, <1>p
<1>5. CASE Create(s)
  <2>1. CASE Fail(s) /\ UNCHANGED mine
    <3>1. /\ lease'[s] = old[s] /\ old'[s] = None /\ mine'[s] = mine[s] /\ pc'[s] # "push"
          /\ UNCHANGED pool /\ generation' = generation + 1
      BY <1>5, <1>d, <2>1 DEF Create, Fail, Return
    <3>2. QED
      BY <3>1, <1>k, <1>p
  <2>2. CASE mine' = [mine EXCEPT ![s] = generation] /\ UNCHANGED <<lease, old>>
    <3>1. mine'[s] = generation /\ UNCHANGED pool /\ generation' = generation + 1
      BY <1>5, <1>d, <2>2 DEF Create
    <3>2. QED
      BY <2>2, <3>1, <1>p DEF OwnNaming, Known, Fresh
  <2>3. QED
    BY <1>5, <2>1, <2>2 DEF Create
<1>6. CASE Probe(s)
  <2> DEFINE I == {i \in DOMAIN pool : IsKept(pool[i]) /\ reuse_keys_match(pool[i], req[s], seen[s])}
  <2>1. I # {} => First(I) \in DOMAIN pool
    BY <1>d, FirstIsIn
  <2>2. UNCHANGED <<pool, generation, lease, old>> /\ pc'[s] # "push"
    BY <1>6, <1>d DEF Probe, ToRetire, poolVars
  <2>3. mine'[s] = mine[s] \/ (I # {} /\ mine'[s] = pool[First(I)].gen)
    BY <1>6, <1>d DEF Probe
  <2>4. QED
    BY <2>1, <2>2, <2>3, <1>p DEF OwnNaming, Known
<1>7. CASE JoinLive(s)
  <2> DEFINE I == join_targets(req[s], seen[s])
  <2>1. I # {} => First(I) \in DOMAIN pool
    BY <1>d, FirstIsIn DEF join_targets
  <2>2. UNCHANGED <<generation, mine, old>> /\ pc'[s] # "push"
    BY <1>7, <1>d DEF JoinLive, ToSlot
  <2>3. lease'[s] = lease[s] \/ (I # {} /\ lease'[s] = pool[First(I)].gen)
    BY <1>7, <1>d DEF JoinLive
  <2>4. \A i \in DOMAIN pool' : Renamed(s, i)
    <3>1. pool' = pool \/ \E i : pool' = [pool EXCEPT ![i].life = acquire(@)]
      BY <1>7 DEF JoinLive
    <3>2. QED
      BY <1>d, <3>1 DEF Renamed, Stays, Entry
  <2>5. QED
    BY <2>1, <2>2, <2>3, <2>4 DEF OwnNaming, Known
<1>8. ASSUME NEW alive \in BOOLEAN, NEW resized \in BOOLEAN, Claim(s, alive, resized) PROVE OwnNaming(s)
  <2> DEFINE i == First(Refound(s, mine[s]))
  <2>1. UNCHANGED old /\ mine'[s] = None /\ pc'[s] # "push"
    BY <1>8, <1>d DEF Claim, Returned, Return, ToRetire
  <2>2. CASE Refound(s, mine[s]) # {} /\ resized
    <3>1. i \in DOMAIN pool /\ pool[i] \in Entry
      BY <1>d, <2>2, FirstIsIn DEF Refound, Named
    <3>2. /\ pool' = [pool EXCEPT ![i] = [pool[i] EXCEPT
                         !.life = acquire(@), !.gen = generation, !.parked = req[s].park,
                         !.req.mode = req[s].mode,
                         !.req.owner = IF @ = None THEN req[s].owner ELSE @]]
          /\ lease'[s] = generation /\ generation' = generation + 1
      BY <1>8, <1>d, <2>2 DEF Claim
    <3> HIDE DEF i
    <3>3. /\ DOMAIN pool' = DOMAIN pool /\ pool'[i].gen = generation
          /\ \A j \in DOMAIN pool \ {i} : pool'[j] = pool[j]
      BY <3>1, <3>2, <1>d DEF Entry
    <3>4. \A j \in DOMAIN pool' : Renamed(s, j)
      BY <3>2, <3>3 DEF Renamed, Stays, Fresh
    <3>5. QED
      BY <2>1, <3>2, <3>4 DEF OwnNaming, Known, Fresh
  <2>3. CASE ~(Refound(s, mine[s]) # {} /\ resized)
    <3>1. (UNCHANGED pool \/ \E I : Remove(s, I)) /\ UNCHANGED <<generation, lease>>
      BY <1>8, <2>3 DEF Claim
    <3>2. QED
      BY <2>1, <3>1, <1>k, <1>p
  <2>4. QED
    BY <2>2, <2>3
<1>9. CASE Push(s)
  <2>1. /\ UNCHANGED <<generation, old>> /\ lease'[s] = mine[s] /\ mine'[s] = None
        /\ pc[s] = "push" /\ pc'[s] # "push"
    BY <1>9, <1>d DEF Push
  <2>2. \A i \in DOMAIN pool' : Stays(i) \/ pool'[i].gen = mine[s]
    BY <1>9 DEF Push, Stays
  <2>3. QED
    BY <2>1, <2>2, <1>k DEF Renamed
<1>10. ASSUME NEW quit \in BOOLEAN, NEW policy \in host.policies,
              \/ JoinCast(s, quit, policy) \/ Attach(s, quit, policy) \/ DropFailed(s, quit, policy)
              \/ SwapDrop(s, quit, policy) \/ Leave(s, quit, policy) \/ Unpark(s, policy)
       PROVE  OwnNaming(s)
  <2>1. UNCHANGED pool \/ \E g, q : drop_lease(s, g, q, policy)
    BY <1>10 DEF JoinCast, Attach, DropFailed, SwapDrop, Leave, Unpark, poolVars
  <2>2. /\ generation' = generation /\ pc'[s] # "push"
        /\ lease'[s] \in {None, lease[s], old[s]} /\ old'[s] \in {None, old[s]}
        /\ mine'[s] \in {mine[s], lease[s], old[s]}
    BY <1>10, <1>d DEF JoinCast, Attach, DropFailed, SwapDrop, Leave, Unpark, Fail, Return, ToSlot,
                       drop_lease, poolVars
  <2>3. QED
    BY <2>1, <2>2, <1>k, <1>p, <1>g
<1>11. QED
  BY <1>1, <1>2, <1>3, <1>4, <1>5, <1>6, <1>7, <1>8, <1>9, <1>10 DEF Works, Acts

(* What a session remembers at its claim is a display that matched.        *)
LEMMA OwnProbe ==
  ASSUME Typed, NEW s \in Sessions, pc'[s] = "claim",
         (\E r \in host.requests : Begin(s, r)) \/ Works(s) \/ Acts(s)
  PROVE  /\ UNCHANGED <<pool, req, seen>>
         /\ \E i \in DOMAIN pool : /\ mine'[s] = pool[i].gen
                                   /\ reuse_keys_match(pool[i], req[s], seen[s])
<1>d. pc \in [Sessions -> PCs] /\ DOMAIN pool \in SUBSET Nat
  BY DEF Typed, TypeOK
<1> USE <1>d DEF Go
<1>1. ASSUME NEW r \in host.requests PROVE ~Begin(s, r)
  BY DEF Begin, ToSlot
<1>2. ~(TakeSlot(s) \/ SlotTimeout(s) \/ ParkHeld(s) \/ JoinLive(s) \/ Retire(s) \/ RetireOwn(s) \/ Evict(s)
        \/ ReleaseDoomed(s) \/ FirstFrame(s) \/ SwapRetire(s) \/ Push(s))
  BY DEF TakeSlot, SlotTimeout, ParkHeld, JoinLive, Retire, RetireOwn, Evict, Doom, ReleaseDoomed,
         FirstFrame, SwapRetire, Push, ToSlot
<1>3. ~(BadCast(s) \/ Create(s) \/ TellCreated(s) \/ \E alive, resized \in BOOLEAN : Claim(s, alive, resized))
  BY DEF BadCast, Create, TellCreated, Claim, Fail, Returned, Return, ToRetire
<1>4. ASSUME NEW quit, NEW policy
      PROVE  ~(\/ JoinCast(s, quit, policy) \/ Attach(s, quit, policy) \/ DropFailed(s, quit, policy)
               \/ SwapDrop(s, quit, policy) \/ Leave(s, quit, policy) \/ Unpark(s, policy))
  BY DEF JoinCast, Attach, DropFailed, SwapDrop, Leave, Unpark, Fail, Return, ToSlot
<1>5. Probe(s)
  BY <1>1, <1>2, <1>3, <1>4 DEF Works, Acts
<1> DEFINE I == {i \in DOMAIN pool : IsKept(pool[i]) /\ reuse_keys_match(pool[i], req[s], seen[s])}
<1>6. I # {} /\ mine'[s] = pool[First(I)].gen /\ UNCHANGED <<pool, req, seen>>
  BY <1>5 DEF Probe, ToRetire, poolVars, Typed, TypeOK
<1>7. First(I) \in I
  BY <1>6, FirstIsIn
<1>8. QED
  BY <1>6, <1>7

(* What a name a session ends up with cannot be.                           *)
LEMMA NamesDealt ==
  ASSUME Typed, IInv, NEW s \in Sessions, NEW v, Known(s, v), v # None
  PROVE  v \in Nat /\ v < generation
  BY Account DEF Known, IInv, Dealt, Typed, TypeOK

LEMMA OwnIInv ==
  ASSUME Typed, Typed', IInv, NEW s \in Sessions,
         (\E r \in host.requests : Begin(s, r)) \/ Works(s) \/ Acts(s)
  PROVE  IInv'
<1>t. /\ OwnOnly(s) /\ OwnNaming(s) /\ None \notin Nat /\ generation \in Nat
      /\ generation' \in {generation, generation + 1}
  BY OwnEntries, OwnNames, PoolAssumption DEF Typed, TypeOK, OwnNaming
<1>o. \A t \in Sessions \ {s} : /\ pc'[t] = pc[t] /\ req'[t] = req[t] /\ seen'[t] = seen[t]
                                /\ lease'[t] = lease[t] /\ old'[t] = old[t] /\ mine'[t] = mine[t]
  BY <1>t DEF OwnOnly, Typed, TypeOK
<1>1. LeaseAccounting'
  BY OwnAccounts
<1>2. Dealt'
  <2>1. ASSUME NEW v, v # None, Known(s, v) \/ Fresh(v) PROVE v < generation'
    BY <1>t, <2>1, NamesDealt DEF Fresh
  <2>2. \A t \in Sessions : /\ lease[t] # None => lease[t] \in Nat /\ lease[t] < generation
                            /\ old[t] # None => old[t] \in Nat /\ old[t] < generation
                            /\ mine[t] # None => mine[t] \in Nat /\ mine[t] < generation
    BY DEF IInv, Dealt, Typed, TypeOK
  <2>3. ASSUME NEW t \in Sessions \ {s}
        PROVE  /\ lease'[t] # None => lease'[t] < generation'
               /\ old'[t] # None => old'[t] < generation'
               /\ mine'[t] # None => mine'[t] < generation'
    BY <1>t, <1>o, <2>2
  <2>4. /\ lease'[s] # None => lease'[s] < generation'
        /\ old'[s] # None => old'[s] < generation'
        /\ mine'[s] # None => mine'[s] < generation'
    BY <1>t, <2>1 DEF OwnNaming
  <2>5. QED
    BY <2>3, <2>4 DEF Dealt
<1>3. Unshared'
  <2>1. ASSUME NEW t \in Sessions, t # s, pc'[t] = "push", NEW m, m = mine'[t]
        PROVE  /\ \A i \in DOMAIN pool' : pool'[i].gen # m
               /\ \A q \in Sessions : lease'[q] # m /\ old'[q] # m
               /\ \A q \in Sessions \ {t} : mine'[q] # m
    <3>1. m \in Nat /\ m < generation /\ m = mine[t] /\ pc[t] = "push"
      <4>1. m = mine[t] /\ pc[t] = "push"
        BY <1>o, <2>1
      <4>2. InHand(t) /\ (mine[t] # None => mine[t] < generation)
        BY TypedParts DEF IInv, Dealt
      <4>3. QED
        BY <1>t, <4>1, <4>2 DEF InHand
    <3>2. /\ \A i \in DOMAIN pool : pool[i].gen # m
          /\ \A q \in Sessions : lease[q] # m /\ old[q] # m
          /\ \A q \in Sessions \ {t} : mine[q] # m
      BY <3>1 DEF IInv, Unshared
    <3>3. \A v : Known(s, v) \/ Fresh(v) => v # m
      BY <1>t, <2>1, <3>1, <3>2 DEF Known, Fresh
    <3>4. \A i \in DOMAIN pool' : pool'[i].gen # m
      BY <1>t, <2>1, <3>2, <3>3 DEF OwnNaming, Renamed, Stays
    <3>5. lease'[s] # m /\ old'[s] # m /\ mine'[s] # m
      BY <1>t, <3>3 DEF OwnNaming
    <3>6. QED
      BY <1>o, <3>2, <3>4, <3>5
  <2>2. ASSUME pc'[s] = "push", NEW m, m = mine'[s]
        PROVE  /\ \A i \in DOMAIN pool' : pool'[i].gen # m
               /\ \A q \in Sessions : lease'[q] # m /\ old'[q] # m
               /\ \A q \in Sessions \ {s} : mine'[q] # m
    <3>1. m = generation /\ UNCHANGED <<pool, lease, old>>
      BY <1>t, <2>2 DEF OwnNaming, Fresh
    <3>2. \A i \in DOMAIN pool : pool[i].gen < generation
      BY Account DEF IInv
    <3>3. \A q \in Sessions : lease[q] # generation /\ old[q] # generation /\ mine[q] # generation
      <4>1. ASSUME NEW q \in Sessions
            PROVE  /\ lease[q] \in Nat \cup {None} /\ (lease[q] # None => lease[q] < generation)
                   /\ old[q] \in Nat \cup {None} /\ (old[q] # None => old[q] < generation)
                   /\ mine[q] \in Nat \cup {None} /\ (mine[q] # None => mine[q] < generation)
        BY DEF IInv, Dealt, Typed, TypeOK
      <4>2. QED
        BY <1>t, <4>1
    <3>4. \A i \in DOMAIN pool : pool[i].gen # m
      <4>1. \A i \in DOMAIN pool : pool[i].gen \in Nat
        BY DEF Typed, TypeOK, Entry
      <4> QED
        BY <1>t, <3>1, <3>2, <4>1
    <3>5. QED
      BY <1>o, <3>1, <3>3, <3>4
  <2>3. QED
    BY <2>1, <2>2 DEF Unshared
<1>4. Probed'
  <2>1. ASSUME NEW t \in Sessions, t # s, pc'[t] = "claim", NEW i \in DOMAIN pool', pool'[i].gen = mine'[t]
        PROVE  /\ pc[t] = "claim" /\ req'[t] = req[t] /\ seen'[t] = seen[t] /\ mine[t] = mine'[t]
               /\ Stays(i)
    <3>1. mine'[t] \in Nat /\ mine'[t] < generation /\ mine'[t] = mine[t]
      <4>1. pool'[i].gen \in Nat
        BY DEF Typed, TypeOK, Entry
      <4>2. QED
        BY <1>o, <1>t, <2>1, <4>1 DEF IInv, Dealt
    <3>2. ~Fresh(pool'[i].gen)
      BY <1>t, <2>1, <3>1 DEF Fresh
    <3>3. ~(pc[s] = "push" /\ pool'[i].gen = mine[s])
      BY <2>1, <3>1 DEF IInv, Unshared
    <3>4. Renamed(s, i)
      BY <1>t DEF OwnNaming
    <3>5. QED
      BY <1>o, <2>1, <3>2, <3>3, <3>4 DEF Renamed
  <2>2. ASSUME NEW t \in Sessions, t # s, pc'[t] = "claim", NEW i \in DOMAIN pool', pool'[i].gen = mine'[t]
        PROVE  /\ pool'[i].req.backend = req'[t].backend /\ pool'[i].req.seat = req'[t].seat
               /\ pool'[i].req.hdr = req'[t].hdr /\ pool'[i].req.cursor = req'[t].cursor
               /\ epoch_matches(pool'[i], seen'[t])
               /\ accepts_kept(pool'[i], req'[t])
    BY <2>1, <2>2 DEF IInv, Probed, Stays, epoch_matches, accepts_kept
  <2>3. ASSUME pc'[s] = "claim", NEW i \in DOMAIN pool', pool'[i].gen = mine'[s]
        PROVE  /\ pool'[i].req.backend = req'[s].backend /\ pool'[i].req.seat = req'[s].seat
               /\ pool'[i].req.hdr = req'[s].hdr /\ pool'[i].req.cursor = req'[s].cursor
               /\ epoch_matches(pool'[i], seen'[s])
               /\ accepts_kept(pool'[i], req'[s])
    <3>1. UNCHANGED <<pool, req, seen>>
      BY <2>3, OwnProbe
    <3>2. PICK j \in DOMAIN pool : /\ mine'[s] = pool[j].gen
                                   /\ reuse_keys_match(pool[j], req[s], seen[s])
      BY <2>3, OwnProbe
    <3>3. i = j
      BY <2>3, <3>1, <3>2, Account DEF IInv
    <3>4. QED
      BY <3>1, <3>2, <3>3 DEF reuse_keys_match
  <2>4. QED
    BY <2>2, <2>3 DEF Probed, epoch_matches, accepts_kept
<1>5. QED
  BY <1>1, <1>2, <1>3, <1>4 DEF IInv

(* The other threads only take displays out.                               *)
LEMMA OthersTake ==
  ASSUME Others \/ UNCHANGED vars
  PROVE  /\ UNCHANGED <<acqVars, generation>>
         /\ DOMAIN pool' \subseteq DOMAIN pool /\ \A i \in DOMAIN pool' : pool'[i] = pool[i]
<1>1. CASE Others
  <2>1. UNCHANGED <<acqVars, generation>>
    BY <1>1 DEF Others, Finish, Reap, ForceRelease, ReleaseSeatGameMode, Bump, invalidate_backend,
                Close, teardown_all, Exit, Tick, release_kept, poolVars
  <2>2. UNCHANGED pool \/ \E t, I : Remove(t, I)
    BY <1>1 DEF Others, Finish, Reap, ForceRelease, ReleaseSeatGameMode, Bump, invalidate_backend,
                Close, teardown_all, Exit, Tick, release_kept, poolVars
  <2>3. QED
    BY <2>1, <2>2 DEF Remove
<1>2. CASE UNCHANGED vars
  BY <1>2 DEF vars, poolVars
<1>3. QED
  BY <1>1, <1>2

LEMMA OthersIInv ==
  ASSUME Typed, Typed', IInv, Others \/ UNCHANGED vars
  PROVE  IInv'
<1>t. /\ UNCHANGED <<acqVars, generation>>
      /\ DOMAIN pool' \subseteq DOMAIN pool /\ \A i \in DOMAIN pool' : pool'[i] = pool[i]
  BY OthersTake
<1>1. LeaseAccounting'
  <2>1. Accounted
    BY AccountsAgree DEF Typed, IInv
  <2>2. \A n : Holds(n)' = Holds(n)
    BY <1>t DEF Holds, acqVars
  <2>3. ASSUME NEW i \in DOMAIN pool', NEW n \in Nat, n = pool'[i].gen
        PROVE  /\ \A j \in DOMAIN pool' : pool'[j].gen = n => j = i
               /\ n < generation'
               /\ pool'[i].life.refs = Cardinality(Holds(n))'
               /\ pool'[i].life.kind = "active" <=> pool'[i].life.refs > 0
    BY <1>t, <2>1, <2>2, <2>3 DEF Accounted
  <2>4. Accounted'
    BY <2>3 DEF Accounted
  <2>5. QED
    BY <2>4, AccountsAgreeNext
<1>2. Dealt'
  BY <1>t DEF IInv, Dealt, acqVars
<1>3. Unshared'
  BY <1>t DEF IInv, Unshared, acqVars
<1>4. Probed'
  BY <1>t DEF IInv, Probed, acqVars, epoch_matches, accepts_kept
<1>5. QED
  BY <1>1, <1>2, <1>3, <1>4 DEF IInv

LEMMA InitIInv == Init => IInv
  BY DEF Init, IInv, LeaseAccounting, Dealt, Unshared, Probed

LEMMA StepIInv == Typed /\ IInv /\ [Next]_vars => IInv'
<1> SUFFICES ASSUME Typed, IInv, [Next]_vars PROVE IInv'
  OBVIOUS
<1>1. Typed'
  BY StepTyped
<1>2. ASSUME NEW s \in Sessions, (\E r \in host.requests : Begin(s, r)) \/ Works(s) \/ Acts(s)
      PROVE  IInv'
  BY <1>1, <1>2, OwnIInv
<1>3. CASE Others \/ UNCHANGED vars
  BY <1>1, <1>3, OthersIInv
<1>4. QED
  BY <1>2, <1>3 DEF Next, Others

LEMMA Invariant == Spec => [](Typed /\ IInv)
<1>1. Init => Typed /\ IInv
  BY InitTyped, InitIInv
<1>2. Typed /\ IInv /\ [Next]_vars => Typed' /\ IInv'
  BY StepTyped, StepIInv
<1>3. QED
  BY <1>1, <1>2, PTL DEF Spec

(* In every reachable state a generation names one display, an active      *)
(* display counts exactly the leases sessions have on it, and a kept one is*)
(* nobody's, whatever the number of sessions, requests and policies.       *)
THEOREM Accounting == Spec => []LeaseAccounting
<1>1. Typed /\ IInv => LeaseAccounting
  BY DEF IInv
<1>2. QED
  BY <1>1, Invariant, PTL

-----------------------------------------------------------------------------
(* What a step takes out of the pool, and whose it was.                    *)

(* A display counted once is no one else's.                                *)
LEMMA SoleHold ==
  ASSUME Typed, IInv, NEW i \in DOMAIN pool, pool[i].life.refs <= 1,
         NEW s \in Sessions, pool[i].gen \in {lease[s], old[s]},
         NEW t \in Sessions \ {s}
  PROVE  pool[i].gen \notin {lease[t], old[t]}
<1> DEFINE g == pool[i].gen
<1>1. SUFFICES ASSUME g \in {lease[t], old[t]} PROVE FALSE
  OBVIOUS
<1>2. PICK x \in {"lease", "old"} : <<s, x>> \in Holds(g)
  BY DEF Holds
<1>3. PICK y \in {"lease", "old"} : <<t, y>> \in Holds(g)
  BY <1>1 DEF Holds
<1> HIDE DEF g
<1>4. {<<s, x>>} \subseteq Holds(g) \ {<<t, y>>} /\ IsFiniteSet(Holds(g) \ {<<t, y>>})
  <2>1. <<s, x>> # <<t, y>>
    OBVIOUS
  <2>2. IsFiniteSet(Holds(g) \ {<<t, y>>})
    BY HoldsFinite, FS_Difference
  <2>3. QED
    BY <1>2, <2>1, <2>2
<1>5. /\ Cardinality(Holds(g) \ {<<t, y>>}) = Cardinality(Holds(g)) - 1
      /\ Cardinality(Holds(g)) \in Nat
  BY <1>3, HoldsFinite, FS_RemoveElement
<1>6. Cardinality({<<s, x>>}) = 1 /\ Cardinality({<<s, x>>}) <= Cardinality(Holds(g) \ {<<t, y>>})
  BY <1>4, FS_Singleton, FS_Subset
<1>7. pool[i].life.refs = Cardinality(Holds(g))
  BY Account DEF IInv, g
<1>8. QED
  BY <1>5, <1>6, <1>7

LEMMA OwnTakes ==
  ASSUME Typed, IInv, NEW s \in Sessions, pc[s] # "badcast",
         (\E r \in host.requests : Begin(s, r)) \/ Works(s) \/ Acts(s),
         NEW i \in DOMAIN pool \ DOMAIN pool'
  PROVE  \/ ~IsActive(pool[i])
         \/ pool[i].gen \in {lease[s], old[s]} /\ pool[i].life.refs <= 1
<1>t. pool[i].life \in States
  BY Account DEF IInv
<1>1. ASSUME \/ UNCHANGED pool
             \/ \E G : release_kept(s, G)
             \/ Remove(s, Expired(epoch))
             \/ \E g : Remove(s, Refound(s, g))
      PROVE  ~IsActive(pool[i])
  BY <1>1 DEF release_kept, Remove, Expired, Expires, Refound, Named, IsKept, Kept, IsActive
<1>2. ASSUME NEW g \in {lease[s], old[s]}, NEW quit, NEW policy,
             mark_failed(s, g) \/ drop_lease(s, g, quit, policy)
      PROVE  \/ ~IsActive(pool[i])
             \/ pool[i].gen \in {lease[s], old[s]} /\ pool[i].life.refs <= 1
  <2>1. CASE mark_failed(s, g)
    BY <1>t, <1>2, <2>1 DEF mark_failed, Remove, Named, States
  <2>2. CASE drop_lease(s, g, quit, policy)
    <3>1. /\ pool[i].gen = g
          /\ TearsDown(pool[i].life, now, LingerOf(pool[i], quit, policy))
      BY <2>2 DEF drop_lease, Named
    <3>2. ASSUME NEW st \in States, NEW l, st.refs > 1 PROVE ~TearsDown(st, now, l)
      BY <3>2 DEF TearsDown, release, Active, States
    <3>3. ~(pool[i].life.refs > 1)
      BY <1>t, <3>1, <3>2
    <3>4. QED
      BY <1>t, <3>1, <3>3 DEF States
  <2>3. QED
    BY <1>2, <2>1, <2>2
<1>3. ASSUME NEW r \in host.requests, Begin(s, r) PROVE ~IsActive(pool[i])
  BY <1>1, <1>3 DEF Begin
<1>4. CASE TakeSlot(s) \/ SlotTimeout(s) \/ ParkHeld(s) \/ Probe(s) \/ Retire(s) \/ RetireOwn(s)
           \/ Evict(s) \/ ReleaseDoomed(s) \/ Create(s) \/ TellCreated(s) \/ SwapRetire(s)
  BY <1>1, <1>4 DEF TakeSlot, SlotTimeout, ParkHeld, Probe, Retire, RetireOwn, Evict, Doom,
                    ReleaseDoomed, Create, TellCreated, SwapRetire, poolVars
<1>5. CASE JoinLive(s) \/ Push(s)
  <2>1. DOMAIN pool \subseteq DOMAIN pool'
    BY <1>5 DEF JoinLive, Push
  <2>2. QED
    BY <2>1
<1>6. ASSUME NEW alive \in BOOLEAN, NEW resized \in BOOLEAN, Claim(s, alive, resized)
      PROVE  ~IsActive(pool[i])
  <2>1. DOMAIN pool' # DOMAIN pool
    OBVIOUS
  <2>2. Remove(s, Refound(s, mine[s]))
    BY <1>6, <2>1 DEF Claim
  <2>3. QED
    BY <1>1, <2>2
<1>7. CASE FirstFrame(s)
  BY <1>1, <1>2, <1>7 DEF FirstFrame, poolVars
<1>8. ASSUME NEW quit \in BOOLEAN, NEW policy \in host.policies,
             \/ JoinCast(s, quit, policy) \/ Attach(s, quit, policy) \/ DropFailed(s, quit, policy)
             \/ SwapDrop(s, quit, policy) \/ Leave(s, quit, policy) \/ Unpark(s, policy)
      PROVE  \/ ~IsActive(pool[i])
             \/ pool[i].gen \in {lease[s], old[s]} /\ pool[i].life.refs <= 1
  BY <1>1, <1>2, <1>8 DEF JoinCast, Attach, DropFailed, SwapDrop, Leave, Unpark, poolVars
<1>9. ~BadCast(s)
  BY DEF BadCast
<1>10. QED
  BY <1>3, <1>4, <1>5, <1>6, <1>7, <1>8, <1>9 DEF Works, Acts

(* A session hands what it took out to nobody else.                        *)
LEMMA OwnDying ==
  ASSUME Typed, NEW s \in Sessions, NEW t \in Threads \ {s},
         (\E r \in host.requests : Begin(s, r)) \/ Works(s) \/ Acts(s)
  PROVE  dying'[t] = dying[t]
<1>1. \/ UNCHANGED dying
      \/ \E T : dying' = [dying EXCEPT ![s] = @ \cup T]
  <2> USE DEF Remove, drop_lease, release_kept, mark_failed, poolVars
  <2>1. ASSUME NEW r \in host.requests, Begin(s, r)
        PROVE  UNCHANGED dying \/ \E T : dying' = [dying EXCEPT ![s] = @ \cup T]
    BY <2>1 DEF Begin
  <2>2. CASE TakeSlot(s) \/ SlotTimeout(s) \/ ParkHeld(s) \/ JoinLive(s) \/ Probe(s) \/ Retire(s)
             \/ RetireOwn(s) \/ Evict(s) \/ Create(s) \/ Push(s) \/ TellCreated(s)
    BY <2>2 DEF TakeSlot, SlotTimeout, ParkHeld, JoinLive, Probe, Retire, RetireOwn, Evict, Doom,
                Create, Push, TellCreated
  <2>3. CASE BadCast(s) \/ ReleaseDoomed(s) \/ FirstFrame(s) \/ SwapRetire(s)
    BY <2>3 DEF BadCast, ReleaseDoomed, FirstFrame, SwapRetire
  <2>4. ASSUME NEW alive \in BOOLEAN, NEW resized \in BOOLEAN, Claim(s, alive, resized)
        PROVE  UNCHANGED dying \/ \E T : dying' = [dying EXCEPT ![s] = @ \cup T]
    BY <2>4 DEF Claim
  <2>5. ASSUME NEW quit \in BOOLEAN, NEW policy \in host.policies,
               \/ JoinCast(s, quit, policy) \/ Attach(s, quit, policy) \/ DropFailed(s, quit, policy)
               \/ SwapDrop(s, quit, policy) \/ Leave(s, quit, policy) \/ Unpark(s, policy)
        PROVE  UNCHANGED dying \/ \E T : dying' = [dying EXCEPT ![s] = @ \cup T]
    BY <2>5 DEF JoinCast, Attach, DropFailed, SwapDrop, Leave, Unpark
  <2>6. QED
    BY <2>1, <2>2, <2>3, <2>4, <2>5 DEF Works, Acts
<1>2. QED
  BY <1>1 DEF Typed, TypeOK

(* The other threads take a held display only where they must: the watcher,*)
(* and the host that stops.                                                *)
LEMMA OthersDying ==
  ASSUME Typed, IInv, Others, NEW t \in Threads \ {Watcher}, stage' = stage,
         dying'[t] # dying[t], NEW i \in DOMAIN pool \ DOMAIN pool'
  PROVE  ~IsActive(pool[i])
<1>1. ~invalidate_backend
  BY DEF invalidate_backend, Remove, Typed, TypeOK
<1>2. ~teardown_all
  BY DEF teardown_all
<1>3. ~(Bump \/ Close \/ Exit \/ Tick \/ \E u \in Threads : Finish(u))
  BY DEF Bump, Close, Exit, Tick, Finish, poolVars
<1>4. CASE Reap \/ ForceRelease \/ ReleaseSeatGameMode
  <2>1. CASE Reap
    BY <2>1 DEF Reap, Remove, Expired, Expires, IsActive
  <2>2. CASE ForceRelease
    BY <2>2 DEF ForceRelease, release_kept, Remove, IsKept, Kept, IsActive
  <2>3. CASE ReleaseSeatGameMode
    BY <2>3 DEF ReleaseSeatGameMode, Remove, IsKept, Kept, IsActive
  <2> QED
    BY <1>4, <2>1, <2>2, <2>3
<1>5. QED
  BY <1>1, <1>2, <1>3, <1>4 DEF Others

LEMMA StepSpares ==
  ASSUME Typed, IInv, Next, NEW t \in Threads \ {Watcher}, stage' = stage, ~CastFailed(t)
  PROVE  ~TakesHeld(t)
<1> SUFFICES ASSUME NEW q \in Sessions \ {t}, NEW i \in DOMAIN pool \ DOMAIN pool',
                    dying'[t] # dying[t], pool[i].gen \in {lease[q], old[q]}
             PROVE  FALSE
  BY DEF TakesHeld
<1>1. IsActive(pool[i])
  BY Account DEF IInv
<1>2. ASSUME NEW s \in Sessions, (\E r \in host.requests : Begin(s, r)) \/ Works(s) \/ Acts(s)
      PROVE  FALSE
  <2>1. s = t /\ pc[s] # "badcast"
    BY <1>2, OwnDying DEF CastFailed
  <2>2. pool[i].gen \in {lease[s], old[s]} /\ pool[i].life.refs <= 1
    BY <1>1, <1>2, <2>1, OwnTakes
  <2>3. QED
    BY <2>1, <2>2, SoleHold
<1>3. CASE Others
  BY <1>1, <1>3, OthersDying
<1>4. QED
  BY <1>2, <1>3 DEF Next, Others

(* No thread takes out of the pool a display another session streams, in   *)
(* any step of any run, but for a compositor that went, a host that stops  *)
(* and the failed cast that SharedCastSurvives is about.                   *)
THEOREM HeldSurvives == Spec => HeldDisplaySurvives
<1>1. Typed /\ IInv /\ [Next]_vars =>
        [\A t \in Threads \ {Watcher} :
           stage' = stage /\ ~CastFailed(t) => ~TakesHeld(t)]_vars
  BY StepSpares
<1>2. QED
  BY <1>1, Invariant, PTL DEF Spec, HeldDisplaySurvives

-----------------------------------------------------------------------------
(* What a claim claims.                                                    *)
LEMMA OwnRenames ==
  ASSUME Typed, NEW s \in Sessions,
         (\E r \in host.requests : Begin(s, r)) \/ Works(s) \/ Acts(s),
         NEW i \in DOMAIN pool \cap DOMAIN pool', pool'[i].gen # pool[i].gen
  PROVE  \E alive, resized \in BOOLEAN : Claim(s, alive, resized)
<1>d. DOMAIN pool \subseteq 1..pushed /\ pushed \in Nat /\ pool[i] \in Entry
  BY DEF Typed, TypeOK
<1>1. ~(UNCHANGED pool \/ \E I : Remove(s, I))
  BY DEF Remove
<1>2. ASSUME NEW g, NEW quit, NEW policy PROVE ~drop_lease(s, g, quit, policy)
  BY <1>d DEF drop_lease, Entry
<1>3. ASSUME NEW r \in host.requests PROVE ~Begin(s, r)
  BY <1>1 DEF Begin
<1>4. ~(TakeSlot(s) \/ SlotTimeout(s) \/ ParkHeld(s) \/ Probe(s) \/ Retire(s) \/ RetireOwn(s)
        \/ Evict(s) \/ ReleaseDoomed(s) \/ Create(s) \/ TellCreated(s) \/ SwapRetire(s)
        \/ BadCast(s) \/ FirstFrame(s))
  BY <1>1 DEF TakeSlot, SlotTimeout, ParkHeld, Probe, Retire, RetireOwn, Evict, Doom, ReleaseDoomed,
              Create, TellCreated, SwapRetire, BadCast, FirstFrame, release_kept, mark_failed, poolVars
<1>5. ~JoinLive(s) /\ ~Push(s)
  BY <1>d DEF JoinLive, Push, Entry
<1>6. ASSUME NEW quit \in BOOLEAN, NEW policy \in host.policies
      PROVE  ~(\/ JoinCast(s, quit, policy) \/ Attach(s, quit, policy) \/ DropFailed(s, quit, policy)
               \/ SwapDrop(s, quit, policy) \/ Leave(s, quit, policy) \/ Unpark(s, policy))
  BY <1>1, <1>2 DEF JoinCast, Attach, DropFailed, SwapDrop, Leave, Unpark, poolVars
<1>7. QED
  BY <1>3, <1>4, <1>5, <1>6 DEF Works, Acts

LEMMA StepClaims ==
  ASSUME Typed, IInv, Next, NEW i \in DOMAIN pool \cap DOMAIN pool', pool'[i].gen # pool[i].gen
  PROVE  \E s \in Sessions :
           /\ lease'[s] = pool'[i].gen
           /\ IsKept(pool[i])
           /\ pool[i].req.backend = req[s].backend /\ pool[i].req.seat = req[s].seat
           /\ pool[i].req.hdr = req[s].hdr /\ pool[i].req.cursor = req[s].cursor
           /\ pool[i].req.spawned \/ pool[i].epoch = seen[s]
           /\ pool[i].req.spawned \/ pool[i].req.owner \in {None, req[s].owner}
<1>1. ~Others
  BY OthersTake
<1>2. PICK s \in Sessions : (\E r \in host.requests : Begin(s, r)) \/ Works(s) \/ Acts(s)
  BY <1>1 DEF Next, Others
<1>3. PICK alive \in BOOLEAN, resized \in BOOLEAN : Claim(s, alive, resized)
  BY <1>2, OwnRenames
<1> DEFINE I == Refound(s, mine[s])
<1>4. I # {} /\ resized
  BY <1>3 DEF Claim, Remove
<1>5. First(I) \in DOMAIN pool /\ IsKept(pool[First(I)]) /\ pool[First(I)].gen = mine[s]
  <2>1. I \in SUBSET Nat
    BY DEF Refound, Named, Typed, TypeOK
  <2>2. First(I) \in I
    BY <1>4, <2>1, FirstIsIn
  <2>3. QED
    BY <2>2 DEF Refound, Named
<1>6. /\ pool' = [pool EXCEPT ![First(I)] = [pool[First(I)] EXCEPT
                    !.life = acquire(@), !.gen = generation, !.parked = req[s].park,
                    !.req.mode = req[s].mode,
                    !.req.owner = IF @ = None THEN req[s].owner ELSE @]]
      /\ lease'[s] = generation /\ pc[s] = "claim"
  BY <1>3, <1>4 DEF Claim, Typed, TypeOK
<1> HIDE DEF I
<1>7. i = First(I) /\ pool'[i].gen = generation
  <2>1. pool[First(I)] \in Entry
    BY <1>5 DEF Typed, TypeOK
  <2>2. QED
    BY <1>5, <1>6, <2>1 DEF Entry
<1>8. /\ pool[i].req.backend = req[s].backend /\ pool[i].req.seat = req[s].seat
      /\ pool[i].req.hdr = req[s].hdr /\ pool[i].req.cursor = req[s].cursor
      /\ epoch_matches(pool[i], seen[s]) /\ accepts_kept(pool[i], req[s])
  BY <1>5, <1>6, <1>7 DEF IInv, Probed
<1>9. QED
  BY <1>5, <1>6, <1>7, <1>8 DEF epoch_matches, accepts_kept

(* A display changes its generation only in a claim, while it is kept, by  *)
(* an acquire all of whose keys it matches, although candidate and claim   *)
(* are two holds of the lock: what was probed still has the name it had.   *)
THEOREM Claims == Spec => ClaimKeyed
<1>1. Typed /\ IInv /\ [Next]_vars =>
        [\A i \in DOMAIN pool \cap DOMAIN pool' :
           pool'[i].gen # pool[i].gen =>
             \E s \in Sessions :
               /\ lease'[s] = pool'[i].gen
               /\ IsKept(pool[i])
               /\ pool[i].req.backend = req[s].backend /\ pool[i].req.seat = req[s].seat
               /\ pool[i].req.hdr = req[s].hdr /\ pool[i].req.cursor = req[s].cursor
               /\ pool[i].req.spawned \/ pool[i].epoch = seen[s]
               /\ pool[i].req.spawned \/ pool[i].req.owner \in {None, req[s].owner}]_vars
  BY StepClaims
<1>2. QED
  BY <1>1, Invariant, PTL DEF Spec, ClaimKeyed
=============================================================================
