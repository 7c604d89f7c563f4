---------------------------- MODULE AdmissionProofs ----------------------------
(***************************************************************************)
(* Proofs about Admission, for any connections, clients, policies, slots   *)
(* and display limits, in the steps' every order: the types, that a steal  *)
(* and a reject reach every older session, and that what left the table    *)
(* holds no display.                                                       *)
(*                                                                         *)
(* StealIsExclusive speaks of sessions past their admission.  What carries *)
(* it there is Reached, which follows one from its row on: between the     *)
(* decision and the flags, the older sessions are those it waits for, and  *)
(* no budget is asked with another client's session about under steal.     *)
(*                                                                         *)
(* BudgetPerClient charges a client for one of the displays it keeps at    *)
(* most.  What carries it is what the budget counted when a session was    *)
(* let in (Alone): once that session streams, its client is charged for    *)
(* its live display and for none it keeps, so whatever else is charged was *)
(* counted against the budget.                                             *)
(***************************************************************************)
EXTENDS Admission, FiniteSetTheorems, TLAPS

(* Where a session has opened no display yet.                              *)
Before == PCs \ {"streaming", "ended", "leave", "gone"}

Fresh == \A s \in Sessions : pc[s] \in Before => on[s] = None /\ life[s] = "none"

Held == \A s \in Sessions : on[s] # None => pc[s] = "streaming" \/ s \in stuck

Reached ==
  \A s, t \in Rows :
    row[s] < row[t] /\ ~same_client(client[s], client[t]) =>
      /\ conflict[client[t]] = "reject" => pc[t] = "refuse"
      /\ conflict[client[t]] = "steal" =>
           /\ pc[t] # "budget"
           /\ pc[t] = "steal" => s \in waiting[t]
           /\ pc[t] \in Admitted \cup {"waitsteal"} => stop[s]

TableInv == OneRowEach /\ next > 0 /\ Reached
DisplayInv == ActiveAreHeld /\ Fresh /\ Held

(* Let in, and with no display yet.                                        *)
Entering == {"bringup", "live"}

Counted(c) ==
  {d \in Displays : life[d] = "active" \/ (life[d] = "pinned" /\ ~same_client(owner[d], c))}

Alone ==
  /\ IsFiniteSet(Displays) /\ BudgetPerClient
  /\ ~crowded =>
       /\ \A s \in Sessions : pc[s] \notin {"steal", "waitsteal"}
       /\ \A s, t \in Sessions : pc[s] \in Entering /\ pc[t] \in Entering => s = t
       /\ \A s \in Sessions : pc[s] \in Entering => Cardinality(Counted(client[s])) < max_displays

-----------------------------------------------------------------------------
LEMMA DroppedShapes ==
  ASSUME Shapes, NEW s \in Sessions, DropLease(s)
  PROVE  /\ on' \in [Sessions -> Sessions \cup {None}]
         /\ life' \in [Sessions -> {"none", "active", "lingering", "pinned"}]
         /\ owner' = owner /\ made' = made
<1>1. PICK k \in IF Holders(on[s]) = {s} THEN Keeps ELSE {"active"} :
        life' = [life EXCEPT ![on[s]] = k]
  BY DEF DropLease
<1>2. k \in {"none", "active", "lingering", "pinned"}
  BY <1>1, AdmissionAssumption
<1> QED
  BY <1>1, <1>2 DEF DropLease, Shapes

(* What a create does to the pool: some kept displays go, its own comes.   *)
LEMMA CreateRemoves ==
  ASSUME NEW s \in Sessions, Create(s)
  PROVE  \E gone \in SUBSET Sessions, a \in Asks :
           /\ gone \subseteq Displays /\ \A d \in gone : life[d] # "active"
           /\ life' = [d \in Sessions |-> IF d \in gone THEN "none"
                                          ELSE IF d = s THEN "active" ELSE life[d]]
           /\ owner' = [Without(owner, gone) EXCEPT ![s] = client[s]]
           /\ made' = [Without(made, gone) EXCEPT ![s] = a]
<1>a. PICK a \in Asks : \E G \in SUBSET kept_to_evict(Displays \ retire_own_kept(s, a)) :
        /\ life' = [d \in Sessions |-> IF d \in retire_own_kept(s, a) \cup G THEN "none"
                                       ELSE IF d = s THEN "active" ELSE life[d]]
        /\ owner' = [Without(owner, retire_own_kept(s, a) \cup G) EXCEPT ![s] = client[s]]
        /\ made' = [Without(made, retire_own_kept(s, a) \cup G) EXCEPT ![s] = a]
  BY DEF Create
<1>1. PICK G \in SUBSET kept_to_evict(Displays \ retire_own_kept(s, a)) :
        /\ life' = [d \in Sessions |-> IF d \in retire_own_kept(s, a) \cup G THEN "none"
                                       ELSE IF d = s THEN "active" ELSE life[d]]
        /\ owner' = [Without(owner, retire_own_kept(s, a) \cup G) EXCEPT ![s] = client[s]]
        /\ made' = [Without(made, retire_own_kept(s, a) \cup G) EXCEPT ![s] = a]
  BY <1>a
<1> DEFINE gone == retire_own_kept(s, a) \cup G
<1>2. gone \subseteq Displays /\ \A d \in gone : life[d] # "active"
  BY DEF retire_own_kept, kept_to_evict
<1>3. gone \in SUBSET Sessions
  BY <1>2 DEF Displays
<1> HIDE DEF gone
<1> QED
  BY <1>1, <1>2, <1>3 DEF gone

(* The shapes of the variables.                                            *)
LEMMA ShapesHold == Spec => []Shapes
<1>1. Init => Shapes
  <2> SUFFICES ASSUME Init PROVE Shapes
    OBVIOUS
  <2>1. conflict \in [Clients -> Conflicts] /\ client \in [Sessions -> Clients]
    BY DEF Init
  <2>2. /\ pc \in [Sessions -> PCs] /\ row \in [Sessions -> Nat] /\ next \in Nat
        /\ waiting \in [Sessions -> SUBSET Sessions]
    BY DEF Init, PCs
  <2>3. /\ display \in [Sessions -> BOOLEAN] /\ stop \in [Sessions -> BOOLEAN]
        /\ joins \in [Sessions -> BOOLEAN] /\ crowded \in BOOLEAN
    BY DEF Init
  <2>4. /\ on \in [Sessions -> Sessions \cup {None}]
        /\ life \in [Sessions -> {"none", "active", "lingering", "pinned"}]
        /\ owner \in [Sessions -> Clients \cup {None}] /\ stuck \subseteq Sessions
        /\ made \in [Sessions -> Asks \cup {None}]
    BY DEF Init
  <2> QED
    BY <2>1, <2>2, <2>3, <2>4 DEF Shapes
<1>2. Shapes /\ [Next]_vars => Shapes'
  <2> SUFFICES ASSUME Shapes, [Next]_vars PROVE Shapes'
    OBVIOUS
  <2> USE AdmissionAssumption DEF Shapes, connects, table, displays, Go, Raise, Unlist, PCs
  <2>1. ASSUME NEW s \in Sessions, Knock(s) PROVE Shapes'
    BY <2>1 DEF Knock
  <2>2. ASSUME NEW s \in Sessions, TakeSlot(s) PROVE Shapes'
    BY <2>2 DEF TakeSlot
  <2>3. ASSUME NEW s \in Sessions, LeaveQueue(s) PROVE Shapes'
    BY <2>3 DEF LeaveQueue
  <2>4. ASSUME NEW s \in Sessions, Preempt(s) PROVE Shapes'
    BY <2>4 DEF Preempt, OwnZombies, Rows
  <2>5. ASSUME NEW s \in Sessions, Released(s) PROVE Shapes'
    BY <2>5 DEF Released, AfterWait
  <2>6. ASSUME NEW s \in Sessions, TimedOut(s) PROVE Shapes'
    BY <2>6 DEF TimedOut, AfterWait
  <2>7. ASSUME NEW s \in Sessions, Admit(s) PROVE Shapes'
    <3>1. decide(s) \in {"separate", "join", "steal", "reject"}
      BY DEF decide
    <3> QED
      BY <2>7, <3>1 DEF Admit, reserve, DecisionPC, Others, Rows
  <2>8. ASSUME NEW s \in Sessions, Budget(s) PROVE Shapes'
    BY <2>8 DEF Budget
  <2>9. ASSUME NEW s \in Sessions, Refuse(s) PROVE Shapes'
    BY <2>9 DEF Refuse
  <2>10. ASSUME NEW s \in Sessions, RaiseSteal(s) PROVE Shapes'
    BY <2>10 DEF RaiseSteal
  <2>11. ASSUME NEW s \in Sessions, GiveUp(s) PROVE Shapes'
    BY <2>11 DEF GiveUp
  <2>12. ASSUME NEW s \in Sessions, Register(s) PROVE Shapes'
    BY <2>12 DEF Register
  <2>13. ASSUME NEW s \in Sessions, Join(s) PROVE Shapes'
    BY <2>13 DEF Join, Hold, Displays
  <2>14. ASSUME NEW s \in Sessions, Reuse(s) PROVE Shapes'
    BY <2>14 DEF Reuse, Hold, Kept, Displays
  <2>15. ASSUME NEW s \in Sessions, Create(s) PROVE Shapes'
    BY <2>15, CreateRemoves DEF Create, Hold, Without
  <2>16. ASSUME NEW s \in Sessions, OpenFails(s) PROVE Shapes'
    BY <2>16 DEF OpenFails
  <2>17. ASSUME NEW s \in Sessions, LinkClosed(s) PROVE Shapes'
    BY <2>17 DEF LinkClosed
  <2>18. ASSUME NEW s \in Sessions, StreamEnds(s) PROVE Shapes'
    BY <2>18, DroppedShapes DEF StreamEnds
  <2>19. ASSUME NEW s \in Sessions, Wedge(s) PROVE Shapes'
    BY <2>19 DEF Wedge
  <2>20. ASSUME NEW s \in Sessions, Abandon(s) PROVE Shapes'
    BY <2>20 DEF Abandon
  <2>21. ASSUME NEW s \in Sessions, Returns(s) PROVE Shapes'
    BY <2>21, DroppedShapes DEF Returns
  <2>22. ASSUME NEW s \in Sessions, DropGuard(s) PROVE Shapes'
    BY <2>22 DEF DropGuard
  <2>23. ASSUME NEW s \in Sessions, FreeSlot(s) PROVE Shapes'
    BY <2>23 DEF FreeSlot
  <2>24. ASSUME NEW d \in Sessions, Forget(d) PROVE Shapes'
    BY <2>24 DEF Forget, Without
  <2>25. CASE UNCHANGED vars
    BY <2>25 DEF vars
  <2> QED
    BY <2>1, <2>2, <2>3, <2>4, <2>5, <2>6, <2>7, <2>8, <2>9, <2>10, <2>11, <2>12, <2>13, <2>14, <2>15, <2>16, <2>17, <2>18, <2>19, <2>20, <2>21, <2>22, <2>23, <2>24, <2>25 DEF Next, Step
<1> QED
  BY <1>1, <1>2, PTL DEF Spec

(* Rows, and who a takeover reaches.                                       *)
LEMMA TableHolds == Spec => []TableInv
<1>1. Init => TableInv
  BY DEF Init, TableInv, OneRowEach, Reached, Rows, Listed
<1>2. Shapes /\ TableInv /\ [Next]_vars => TableInv'
  <2> SUFFICES ASSUME Shapes, TableInv, [Next]_vars PROVE TableInv'
    OBVIOUS
  <2> USE DEF Shapes, TableInv, OneRowEach, Reached, Rows, Listed, Admitted, Go,
              connects, table
  <2>1. ASSUME NEW s \in Sessions, Knock(s) PROVE TableInv'
    BY <2>1 DEF Knock
  <2>2. ASSUME NEW s \in Sessions, TakeSlot(s) PROVE TableInv'
    BY <2>2 DEF TakeSlot
  <2>3. ASSUME NEW s \in Sessions, LeaveQueue(s) PROVE TableInv'
    BY <2>3 DEF LeaveQueue
  <2>4. ASSUME NEW s \in Sessions, Preempt(s) PROVE TableInv'
    BY <2>4 DEF Preempt, Raise
  <2>5. ASSUME NEW s \in Sessions, Released(s) PROVE TableInv'
    BY <2>5 DEF Released, AfterWait
  <2>6. ASSUME NEW s \in Sessions, TimedOut(s) PROVE TableInv'
    BY <2>6 DEF TimedOut, AfterWait
  <2>7. ASSUME NEW s \in Sessions, Admit(s) PROVE TableInv'
    <3>1. /\ pc[s] = "admit" /\ s \notin Rows
          /\ row' = [row EXCEPT ![s] = next] /\ next' = next + 1
          /\ pc' = [pc EXCEPT ![s] = DecisionPC[decide(s)]]
      BY <2>7 DEF Admit, reserve
    <3>2. decide(s) \in {"separate", "join", "steal", "reject"}
      BY AdmissionAssumption DEF decide
    <3>3. DecisionPC[decide(s)] \in {"budget", "bringup", "steal", "refuse"}
      BY <3>2 DEF DecisionPC
    <3>4. Rows' = Rows \cup {s}
      BY <3>1
    <3>5. OneRowEach' /\ next' > 0
      BY <3>1, <3>3, <3>4
    <3>6. ASSUME NEW u \in Rows, ~same_client(client[u], client[s])
          PROVE  /\ conflict[client[s]] = "reject" => pc'[s] = "refuse"
                 /\ conflict[client[s]] = "steal" => pc'[s] = "steal" /\ u \in waiting'[s]
      <4>1. u \in Others(s)
        BY <3>6 DEF Others
      <4>2. conflict[client[s]] \in {"reject", "steal"} => decide(s) = conflict[client[s]]
        BY <4>1 DEF decide
      <4> QED
        BY <2>7, <3>1, <4>1, <4>2 DEF Admit, DecisionPC
    <3>7. Reached'
      <4> SUFFICES ASSUME NEW u \in Rows', NEW t \in Rows', row'[u] < row'[t],
                          ~same_client(client[u], client[t])
                   PROVE  /\ conflict[client[t]] = "reject" => pc'[t] = "refuse"
                          /\ conflict[client[t]] = "steal" =>
                               /\ pc'[t] # "budget"
                               /\ pc'[t] = "steal" => u \in waiting'[t]
                               /\ pc'[t] \in Admitted \cup {"waitsteal"} => stop'[u]
        BY <2>7 DEF Admit
      <4>1. CASE t = s
        BY <3>1, <3>4, <3>6, <4>1
      <4>2. CASE t # s
        <5>1. u # s /\ u \in Rows /\ t \in Rows /\ row[u] < row[t]
          BY <3>1, <3>4, <4>2
        <5> QED
          BY <2>7, <3>1, <4>2, <5>1 DEF Admit
      <4> QED
        BY <4>1, <4>2
    <3> QED
      BY <3>5, <3>7
  <2>8. ASSUME NEW s \in Sessions, Budget(s) PROVE TableInv'
    BY <2>8 DEF Budget
  <2>9. ASSUME NEW s \in Sessions, Refuse(s) PROVE TableInv'
    BY <2>9 DEF Refuse, Raise, Unlist
  <2>10. ASSUME NEW s \in Sessions, RaiseSteal(s) PROVE TableInv'
    <3>1. /\ pc[s] = "steal" /\ pc' = [pc EXCEPT ![s] = "waitsteal"]
          /\ stop' = [t \in Sessions |-> stop[t] \/ t \in waiting[s]]
          /\ UNCHANGED <<conflict, client, row, next, waiting>>
      BY <2>10 DEF RaiseSteal, Raise
    <3>2. OneRowEach' /\ next' > 0
      BY <3>1
    <3>3. Reached'
      BY <3>1
    <3> QED
      BY <3>2, <3>3
  <2>11. ASSUME NEW s \in Sessions, GiveUp(s) PROVE TableInv'
    BY <2>11 DEF GiveUp, Raise, Unlist, Slotted
  <2>12. ASSUME NEW s \in Sessions, Register(s) PROVE TableInv'
    BY <2>12 DEF Register
  <2>13. ASSUME NEW s \in Sessions, Join(s) PROVE TableInv'
    BY <2>13 DEF Join, Hold
  <2>14. ASSUME NEW s \in Sessions, Reuse(s) PROVE TableInv'
    BY <2>14 DEF Reuse, Hold
  <2>15. ASSUME NEW s \in Sessions, Create(s) PROVE TableInv'
    BY <2>15 DEF Create, Hold
  <2>16. ASSUME NEW s \in Sessions, OpenFails(s) PROVE TableInv'
    BY <2>16 DEF OpenFails, Raise
  <2>17. ASSUME NEW s \in Sessions, LinkClosed(s) PROVE TableInv'
    BY <2>17 DEF LinkClosed, Raise
  <2>18. ASSUME NEW s \in Sessions, StreamEnds(s) PROVE TableInv'
    BY <2>18 DEF StreamEnds, Raise
  <2>19. ASSUME NEW s \in Sessions, Wedge(s) PROVE TableInv'
    BY <2>19 DEF Wedge
  <2>20. ASSUME NEW s \in Sessions, Abandon(s) PROVE TableInv'
    BY <2>20 DEF Abandon
  <2>21. ASSUME NEW s \in Sessions, Returns(s) PROVE TableInv'
    BY <2>21 DEF Returns
  <2>22. ASSUME NEW s \in Sessions, DropGuard(s) PROVE TableInv'
    BY <2>22 DEF DropGuard, Unlist
  <2>23. ASSUME NEW s \in Sessions, FreeSlot(s) PROVE TableInv'
    BY <2>23 DEF FreeSlot
  <2>24. ASSUME NEW d \in Sessions, Forget(d) PROVE TableInv'
    BY <2>24 DEF Forget
  <2>25. CASE UNCHANGED vars
    BY <2>25 DEF vars
  <2> QED
    BY <2>1, <2>2, <2>3, <2>4, <2>5, <2>6, <2>7, <2>8, <2>9, <2>10, <2>11, <2>12, <2>13, <2>14, <2>15, <2>16, <2>17, <2>18, <2>19, <2>20, <2>21, <2>22, <2>23, <2>24, <2>25 DEF Next, Step
<1> QED
  BY <1>1, <1>2, ShapesHold, PTL DEF Spec

(* A lease that goes: its display stays active exactly while another       *)
(* session holds it, and no other display changes.                         *)
LEMMA DroppedHolders ==
  ASSUME Shapes, ActiveAreHeld, NEW s \in Sessions, DropLease(s)
  PROVE  /\ ActiveAreHeld'
         /\ on' = [on EXCEPT ![s] = None]
         /\ \A d \in Sessions : life[d] = "none" => life'[d] = "none"
<1> USE AdmissionAssumption DEF Shapes
<1>1. PICK k \in IF Holders(on[s]) = {s} THEN Keeps ELSE {"active"} :
        life' = [life EXCEPT ![on[s]] = k]
  BY DEF DropLease
<1>2. on' = [on EXCEPT ![s] = None]
  BY DEF DropLease
<1>3. \A d \in Sessions : Holders(d)' = Holders(d) \ {s}
  BY <1>2 DEF Holders
<1>4. ASSUME NEW d \in Sessions PROVE life'[d] = "active" <=> Holders(d)' # {}
  <2>1. CASE d # on[s]
    <3>1. s \notin Holders(d) /\ life'[d] = life[d]
      BY <1>1, <2>1 DEF Holders
    <3> QED
      BY <1>3, <3>1 DEF ActiveAreHeld
  <2>2. CASE d = on[s]
    <3>1. s \in Holders(d) /\ life'[d] = k
      BY <1>1, <2>2 DEF Holders
    <3>2. CASE Holders(d) = {s}
      BY <1>1, <1>3, <2>2, <3>1, <3>2
    <3>3. CASE Holders(d) # {s}
      BY <1>1, <1>3, <2>2, <3>1, <3>3
    <3> QED
      BY <3>2, <3>3
  <2> QED
    BY <2>1, <2>2
<1>5. ASSUME NEW d \in Sessions, life[d] = "none" PROVE life'[d] = "none"
  <2>1. on[s] # d
    BY <1>5 DEF ActiveAreHeld, Holders
  <2> QED
    BY <1>1, <1>5, <2>1
<1> QED
  BY <1>2, <1>4, <1>5 DEF ActiveAreHeld

(* Who holds a display, and which displays are active.                     *)
LEMMA DisplaysHold == Spec => []DisplayInv
<1>1. Init => DisplayInv
  BY AdmissionAssumption DEF Init, DisplayInv, ActiveAreHeld, Fresh, Held, Holders
<1>2. Shapes /\ DisplayInv /\ [Next]_vars => DisplayInv'
  <2> SUFFICES ASSUME Shapes, DisplayInv, [Next]_vars PROVE DisplayInv'
    OBVIOUS
  <2> USE AdmissionAssumption DEF Shapes, DisplayInv, ActiveAreHeld, Fresh, Held, Holders,
              Before, Go, connects, displays, PCs
  <2>1. ASSUME NEW s \in Sessions, Knock(s) PROVE DisplayInv'
    BY <2>1 DEF Knock
  <2>2. ASSUME NEW s \in Sessions, TakeSlot(s) PROVE DisplayInv'
    BY <2>2 DEF TakeSlot
  <2>3. ASSUME NEW s \in Sessions, LeaveQueue(s) PROVE DisplayInv'
    BY <2>3 DEF LeaveQueue
  <2>4. ASSUME NEW s \in Sessions, Preempt(s) PROVE DisplayInv'
    BY <2>4 DEF Preempt
  <2>5. ASSUME NEW s \in Sessions, Released(s) PROVE DisplayInv'
    BY <2>5 DEF Released, AfterWait
  <2>6. ASSUME NEW s \in Sessions, TimedOut(s) PROVE DisplayInv'
    BY <2>6 DEF TimedOut, AfterWait
  <2>7. ASSUME NEW s \in Sessions, Admit(s) PROVE DisplayInv'
    <3>1. decide(s) \in {"separate", "join", "steal", "reject"}
      BY DEF decide
    <3>2. DecisionPC[decide(s)] \in Before
      BY <3>1 DEF DecisionPC
    <3>3. pc[s] \in Before /\ pc' = [pc EXCEPT ![s] = DecisionPC[decide(s)]]
          /\ UNCHANGED <<on, life, owner, stuck>>
      BY <2>7 DEF Admit
    <3> QED
      BY <3>2, <3>3
  <2>8. ASSUME NEW s \in Sessions, Budget(s) PROVE DisplayInv'
    BY <2>8 DEF Budget
  <2>9. ASSUME NEW s \in Sessions, Refuse(s) PROVE DisplayInv'
    BY <2>9 DEF Refuse
  <2>10. ASSUME NEW s \in Sessions, RaiseSteal(s) PROVE DisplayInv'
    BY <2>10 DEF RaiseSteal
  <2>11. ASSUME NEW s \in Sessions, GiveUp(s) PROVE DisplayInv'
    BY <2>11 DEF GiveUp, Slotted
  <2>12. ASSUME NEW s \in Sessions, Register(s) PROVE DisplayInv'
    BY <2>12 DEF Register
  <2>13. ASSUME NEW s \in Sessions, Join(s) PROVE DisplayInv'
    BY <2>13 DEF Join, Hold, Displays
  <2>14. ASSUME NEW s \in Sessions, Reuse(s) PROVE DisplayInv'
    BY <2>14 DEF Reuse, Hold, Kept, Displays
  <2>15. ASSUME NEW s \in Sessions, Create(s) PROVE DisplayInv'
    <3>1. PICK gone \in SUBSET Sessions, a \in Asks :
            /\ gone \subseteq Displays /\ \A d \in gone : life[d] # "active"
            /\ life' = [d \in Sessions |-> IF d \in gone THEN "none"
                                           ELSE IF d = s THEN "active" ELSE life[d]]
            /\ owner' = [Without(owner, gone) EXCEPT ![s] = client[s]]
            /\ made' = [Without(made, gone) EXCEPT ![s] = a]
      BY <2>15, CreateRemoves
    <3>2. /\ pc[s] = "live" /\ pc' = [pc EXCEPT ![s] = "streaming"]
          /\ on' = [on EXCEPT ![s] = s] /\ UNCHANGED stuck
      BY <2>15 DEF Create, Hold
    <3>3. on[s] = None /\ life[s] = "none" /\ s \notin gone
      BY <3>1, <3>2 DEF Displays
    <3>4. \A d \in Sessions : life'[d] = "active" <=> d = s \/ life[d] = "active"
      BY <3>1, <3>3
    <3>5. ActiveAreHeld'
      BY <3>2, <3>3, <3>4
    <3>6. Fresh'
      BY <3>1, <3>2
    <3>7. Held'
      BY <3>2
    <3> QED
      BY <3>5, <3>6, <3>7
  <2>16. ASSUME NEW s \in Sessions, OpenFails(s) PROVE DisplayInv'
    BY <2>16 DEF OpenFails
  <2>17. ASSUME NEW s \in Sessions, LinkClosed(s) PROVE DisplayInv'
    BY <2>17 DEF LinkClosed
  <2>18. ASSUME NEW s \in Sessions, StreamEnds(s) PROVE DisplayInv'
    <3>1. /\ ActiveAreHeld' /\ on' = [on EXCEPT ![s] = None]
          /\ \A d \in Sessions : life[d] = "none" => life'[d] = "none"
      BY <2>18, DroppedHolders DEF StreamEnds
    <3>2. Fresh' /\ Held'
      BY <2>18, <3>1 DEF StreamEnds
    <3> QED
      BY <3>1, <3>2
  <2>19. ASSUME NEW s \in Sessions, Wedge(s) PROVE DisplayInv'
    BY <2>19 DEF Wedge
  <2>20. ASSUME NEW s \in Sessions, Abandon(s) PROVE DisplayInv'
    BY <2>20 DEF Abandon
  <2>21. ASSUME NEW s \in Sessions, Returns(s) PROVE DisplayInv'
    <3>1. /\ ActiveAreHeld' /\ on' = [on EXCEPT ![s] = None]
          /\ \A d \in Sessions : life[d] = "none" => life'[d] = "none"
      BY <2>21, DroppedHolders DEF Returns
    <3>2. Fresh' /\ Held'
      BY <2>21, <3>1 DEF Returns
    <3> QED
      BY <3>1, <3>2
  <2>22. ASSUME NEW s \in Sessions, DropGuard(s) PROVE DisplayInv'
    BY <2>22 DEF DropGuard
  <2>23. ASSUME NEW s \in Sessions, FreeSlot(s) PROVE DisplayInv'
    BY <2>23 DEF FreeSlot
  <2>24. ASSUME NEW d \in Sessions, Forget(d) PROVE DisplayInv'
    BY <2>24 DEF Forget
  <2>25. CASE UNCHANGED vars
    BY <2>25 DEF vars
  <2> QED
    BY <2>1, <2>2, <2>3, <2>4, <2>5, <2>6, <2>7, <2>8, <2>9, <2>10, <2>11, <2>12, <2>13, <2>14, <2>15, <2>16, <2>17, <2>18, <2>19, <2>20, <2>21, <2>22, <2>23, <2>24, <2>25 DEF Next, Step
<1> QED
  BY <1>1, <1>2, ShapesHold, PTL DEF Spec

(* What a set of counted or charged displays comes to.                     *)
LEMMA CountedFinite ==
  ASSUME IsFiniteSet(Displays)
  PROVE  /\ \A S \in SUBSET Displays : IsFiniteSet(S) /\ Cardinality(S) \in Nat
         /\ \A c : Counted(c) \in SUBSET Displays
BY FS_Subset, FS_CardinalityType DEF Counted

(* Where displays only go or are let go of, and nobody is let in, no       *)
(* budget is overrun.                                                      *)
LEMMA AloneKept ==
  ASSUME Shapes, Alone, client' = client, crowded => crowded',
         \A d \in Displays' : /\ d \in Displays /\ owner'[d] = owner[d]
                              /\ life'[d] = life[d] \/ life[d] = "active",
         \A s \in Sessions : pc'[s] \in Entering => pc[s] \in Entering,
         ~crowded' => \A s \in Sessions : pc'[s] \notin {"steal", "waitsteal"}
  PROVE  Alone'
<1>1. IsFiniteSet(Displays')
  BY FS_Subset DEF Alone
<1>2. ASSUME NEW c \in Clients
      PROVE  /\ Cardinality(Counted(c)') <= Cardinality(Counted(c))
             /\ Cardinality(Counted(c)) \in Nat /\ Cardinality(Counted(c)') \in Nat
  <2>1. Counted(c)' \subseteq Counted(c) /\ Counted(c) \subseteq Displays
    BY DEF Counted, same_client
  <2>2. IsFiniteSet(Counted(c))
    BY <2>1, FS_Subset DEF Alone
  <2>3. IsFiniteSet(Counted(c)') /\ Cardinality(Counted(c)') <= Cardinality(Counted(c))
    BY <2>1, <2>2, FS_Subset
  <2> QED
    BY <2>2, <2>3, FS_CardinalityType
<1>3. BudgetPerClient'
  <2> SUFFICES ASSUME ~crowded',
                      NEW S \in SUBSET {d \in Displays' : life'[d] # "lingering"},
                      OneOfEach(S)'
               PROVE  Cardinality(S) <= max_displays
    BY DEF BudgetPerClient
  <2>1. S \in SUBSET {d \in Displays : life[d] # "lingering"}
    OBVIOUS
  <2>2. OneOfEach(S)
    BY DEF OneOfEach
  <2> QED
    BY <2>1, <2>2 DEF Alone, BudgetPerClient
<1> SUFFICES ASSUME ~crowded'
             PROVE  /\ \A s, t \in Sessions : pc'[s] \in Entering /\ pc'[t] \in Entering => s = t
                    /\ \A s \in Sessions : pc'[s] \in Entering =>
                         Cardinality(Counted(client[s])') < max_displays
  BY <1>1, <1>3 DEF Alone
<1>4. \A s, t \in Sessions : pc'[s] \in Entering /\ pc'[t] \in Entering => s = t
  BY DEF Alone
<1>5. ASSUME NEW s \in Sessions, pc'[s] \in Entering
      PROVE  Cardinality(Counted(client[s])') < max_displays
  <2>1. client[s] \in Clients /\ Cardinality(Counted(client[s])) < max_displays
    BY <1>5 DEF Alone, Shapes
  <2> QED
    BY <1>2, <2>1, AdmissionAssumption
<1> QED
  BY <1>4, <1>5

(* Where nothing a display is changed, neither did what is charged.        *)
LEMMA SameCharge ==
  ASSUME UNCHANGED <<client, life, owner>>
  PROVE  /\ Displays' = Displays /\ \A c : Counted(c)' = Counted(c)
         /\ crowded' = crowded => BudgetPerClient' = BudgetPerClient
<1>1. Displays' = Displays /\ \A c : Counted(c)' = Counted(c)
  BY DEF Displays, Counted
<1>2. \A S : OneOfEach(S)' = OneOfEach(S)
  BY DEF OneOfEach
<1> QED
  BY <1>1, <1>2 DEF BudgetPerClient

(* A lease that goes leaves its display as it was but for the hold.        *)
LEMMA DroppedOnly ==
  ASSUME Shapes, ActiveAreHeld, NEW s \in Sessions, DropLease(s)
  PROVE  \A d \in Displays' : /\ d \in Displays /\ owner'[d] = owner[d]
                              /\ life'[d] = life[d] \/ life[d] = "active"
<1>1. PICK k \in IF Holders(on[s]) = {s} THEN Keeps ELSE {"active"} :
        life' = [life EXCEPT ![on[s]] = k]
  BY DEF DropLease
<1>2. owner' = owner
  BY DEF DropLease
<1>3. \A d \in Sessions : life'[d] = life[d] \/ life[d] = "active"
  BY <1>1 DEF ActiveAreHeld, Holders, Shapes
<1> QED
  BY <1>2, <1>3 DEF Displays

(* A session that was let in under its budget streams: whatever else is    *)
(* charged with its display was counted against that budget, and no more   *)
(* is charged without it.                                                  *)
LEMMA StreamerCharged ==
  ASSUME Shapes, Alone, NEW s \in Sessions, NEW x \in Sessions, pc[s] = "live",
         UNCHANGED <<client, crowded>>, life'[x] = "active", owner'[x] = client[s],
         \A d \in Displays' : d # x =>
           d \in Displays /\ life'[d] = life[d] /\ owner'[d] = owner[d]
  PROVE  IsFiniteSet(Displays') /\ BudgetPerClient'
<1>1. IsFiniteSet(Displays \cup {x}) /\ Displays' \subseteq Displays \cup {x}
  BY FS_AddElement DEF Alone
<1>2. IsFiniteSet(Displays')
  BY <1>1, FS_Subset
<1>3. BudgetPerClient'
  <2> SUFFICES ASSUME ~crowded',
                      NEW S \in SUBSET {d \in Displays' : life'[d] # "lingering"},
                      OneOfEach(S)'
               PROVE  Cardinality(S) <= max_displays
    BY DEF BudgetPerClient
  <2>1. Cardinality(Counted(client[s])) < max_displays
    BY DEF Alone, Entering
  <2>2. CASE x \in S
    <3> DEFINE rest == S \ {x}
    <3>1. rest \subseteq Counted(client[s])
      <4> SUFFICES ASSUME NEW d \in rest PROVE d \in Counted(client[s])
        OBVIOUS
      <4>1. d \in Displays /\ life'[d] = life[d] /\ owner'[d] = owner[d] /\ d # x
        OBVIOUS
      <4>2. life[d] \in {"active", "pinned"}
        BY <4>1 DEF Displays, Shapes
      <4>3. life[d] = "pinned" => ~same_client(owner[d], client[s])
        BY <2>2, <4>1 DEF OneOfEach, same_client
      <4> QED
        BY <4>1, <4>2, <4>3 DEF Counted
    <3>2. IsFiniteSet(Counted(client[s])) /\ Cardinality(Counted(client[s])) \in Nat
      BY CountedFinite DEF Alone
    <3> HIDE DEF rest
    <3>3. IsFiniteSet(rest) /\ Cardinality(rest) \in Nat
          /\ Cardinality(rest) <= Cardinality(Counted(client[s]))
      BY <3>1, <3>2, FS_Subset, FS_CardinalityType
    <3>4. Cardinality(rest \cup {x}) = Cardinality(rest) + 1
      BY <3>3, FS_AddElement DEF rest
    <3>5. rest \cup {x} = S
      BY <2>2 DEF rest
    <3>6. Cardinality(S) = Cardinality(rest) + 1
      BY <3>4, <3>5
    <3>7. max_displays \in Nat
      BY AdmissionAssumption
    <3> QED
      BY <2>1, <3>2, <3>3, <3>6, <3>7
  <2>3. CASE x \notin S
    <3>1. S \in SUBSET {d \in Displays : life[d] # "lingering"}
      BY <2>3
    <3>2. OneOfEach(S)
      BY <2>3 DEF OneOfEach
    <3> QED
      BY <3>1, <3>2 DEF Alone, BudgetPerClient
  <2> QED
    BY <2>2, <2>3
<1> QED
  BY <1>2, <1>3

(* One connect at a time: the displays there are, and what the one that is *)
(* let in was counted against.                                             *)
LEMMA AloneHolds == Spec => []Alone
<1>1. Init => Alone
  <2> SUFFICES ASSUME Init PROVE Alone
    OBVIOUS
  <2>1. Displays = {}
    BY DEF Init, Displays
  <2>2. IsFiniteSet(Displays) /\ \A S \in SUBSET Displays : Cardinality(S) = 0
    BY <2>1, FS_EmptySet
  <2> QED
    BY <2>2, AdmissionAssumption DEF Init, Alone, Entering, BudgetPerClient
<1>2. Shapes /\ DisplayInv /\ Alone /\ [Next]_vars => Alone'
  <2> SUFFICES ASSUME Shapes, DisplayInv, Alone, [Next]_vars PROVE Alone'
    OBVIOUS
  <2> USE DEF Go, connects, displays, Entering
  <2>a. ASSUME NEW s \in Sessions, UNCHANGED <<client, life, owner, crowded>>,
               \A t \in Sessions : pc'[t] = pc[t] \/ pc'[t] \notin {"bringup", "live", "steal", "waitsteal"}
        PROVE  Alone'
    <3>1. Displays' = Displays
      BY <2>a DEF Displays
    <3>2. \A t \in Sessions : pc'[t] \in Entering => pc[t] \in Entering
      BY <2>a
    <3>3. ~crowded' => \A t \in Sessions : pc'[t] \notin {"steal", "waitsteal"}
      BY <2>a DEF Alone
    <3> QED
      BY <2>a, <3>1, <3>2, <3>3, AloneKept
  <2>1. ASSUME NEW s \in Sessions, Knock(s) PROVE Alone'
    BY <2>1, <2>a DEF Knock, Shapes
  <2>2. ASSUME NEW s \in Sessions, TakeSlot(s) PROVE Alone'
    BY <2>2, <2>a DEF TakeSlot, Shapes
  <2>3. ASSUME NEW s \in Sessions, LeaveQueue(s) PROVE Alone'
    BY <2>3, <2>a DEF LeaveQueue, Shapes
  <2>4. ASSUME NEW s \in Sessions, Preempt(s) PROVE Alone'
    BY <2>4, <2>a DEF Preempt, Shapes
  <2>5. ASSUME NEW s \in Sessions, Released(s) \/ TimedOut(s) PROVE Alone'
    <3>1. /\ UNCHANGED <<client, life, owner, crowded>>
          /\ pc[s] \in {"waitown", "waitsteal"} /\ pc' = [pc EXCEPT ![s] = AfterWait(s)]
      BY <2>5 DEF Released, TimedOut
    <3>2. CASE pc[s] = "waitown"
      BY <2>a, <3>1, <3>2 DEF AfterWait, Shapes
    <3>3. CASE pc[s] = "waitsteal"
      <4>1. crowded /\ crowded'
        BY <3>1, <3>3 DEF Alone
      <4>2. Displays' = Displays
        BY <3>1 DEF Displays
      <4> QED
        BY <4>1, <4>2 DEF Alone, BudgetPerClient
    <3> QED
      BY <3>1, <3>2, <3>3
  <2>7. ASSUME NEW s \in Sessions, Admit(s) PROVE Alone'
    <3>1. /\ UNCHANGED <<client, life, owner>> /\ pc' = [pc EXCEPT ![s] = DecisionPC[decide(s)]]
          /\ crowded' = (crowded \/ decide(s) \in {"join", "steal"})
      BY <2>7 DEF Admit
    <3>2. decide(s) \in {"separate", "join", "steal", "reject"}
      BY AdmissionAssumption DEF decide, Shapes
    <3>3. CASE decide(s) \in {"join", "steal"}
      <4>1. crowded' /\ Displays' = Displays
        BY <3>1, <3>3 DEF Displays
      <4> QED
        BY <4>1 DEF Alone, BudgetPerClient
    <3>4. CASE decide(s) \notin {"join", "steal"}
      <4>1. DecisionPC[decide(s)] \in {"budget", "refuse"}
        BY <3>2, <3>4 DEF DecisionPC
      <4>2. crowded' = crowded
        BY <3>1, <3>4 DEF Shapes
      <4> QED
        BY <2>a, <3>1, <4>1, <4>2 DEF Shapes
    <3> QED
      BY <3>3, <3>4
  <2>8. ASSUME NEW s \in Sessions, Budget(s) PROVE Alone'
    <3>1. /\ pc[s] = "budget" /\ UNCHANGED <<client, life, owner>>
          /\ pc' = [pc EXCEPT ![s] = IF Fits(s) THEN "bringup" ELSE "refuse"]
          /\ crowded' = (crowded \/ \E t \in Sessions \ {s} : pc[t] \in {"bringup", "live"})
      BY <2>8 DEF Budget
    <3>2. Displays' = Displays /\ \A c : Counted(c)' = Counted(c)
      BY <3>1, SameCharge
    <3>3. budget_count(client[s]) = Cardinality(Counted(client[s]))
      BY DEF budget_count, Counted
    <3> SUFFICES ASSUME ~crowded'
                 PROVE  Alone'
      BY <3>2 DEF Alone, BudgetPerClient
    <3>4. ~crowded /\ \A t \in Sessions \ {s} : pc[t] \notin Entering
      BY <3>1
    <3>5. \A t \in Sessions : pc'[t] \in Entering => t = s /\ Fits(s)
      BY <3>1, <3>4 DEF Shapes
    <3>6. \A t \in Sessions : pc'[t] \notin {"steal", "waitsteal"}
      BY <3>1, <3>4 DEF Alone, Shapes
    <3>7. \A t \in Sessions : pc'[t] \in Entering => Cardinality(Counted(client[t])') < max_displays
      <4> SUFFICES ASSUME NEW t \in Sessions, pc'[t] \in Entering
                   PROVE  Cardinality(Counted(client[t])') < max_displays
        OBVIOUS
      <4>1. t = s /\ Cardinality(Counted(client[s])) < max_displays
        BY <3>3, <3>5 DEF Fits
      <4>2. Counted(client[s])' = Counted(client[s])
        BY <3>1, <3>2 DEF Shapes
      <4> QED
        BY <3>1, <4>1, <4>2
    <3>8. BudgetPerClient'
      <4>1. crowded' = crowded
        BY <3>1, <3>4 DEF Shapes
      <4> QED
        BY <3>1, <4>1, SameCharge DEF Alone
    <3> QED
      BY <3>1, <3>2, <3>4, <3>5, <3>6, <3>7, <3>8 DEF Alone
  <2>9. ASSUME NEW s \in Sessions, Refuse(s) PROVE Alone'
    BY <2>9, <2>a DEF Refuse, Shapes
  <2>10. ASSUME NEW s \in Sessions, RaiseSteal(s) PROVE Alone'
    <3>1. crowded /\ crowded' /\ Displays' = Displays
      BY <2>10 DEF RaiseSteal, Alone, Displays
    <3> QED
      BY <3>1 DEF Alone, BudgetPerClient
  <2>11. ASSUME NEW s \in Sessions, GiveUp(s) PROVE Alone'
    BY <2>11, <2>a DEF GiveUp, Shapes
  <2>12. ASSUME NEW s \in Sessions, Register(s) PROVE Alone'
    <3>1. /\ UNCHANGED <<client, life, owner, crowded>> /\ pc[s] = "bringup"
          /\ pc' = [pc EXCEPT ![s] = "live"]
      BY <2>12 DEF Register
    <3>2. Displays' = Displays
      BY <3>1 DEF Displays
    <3>3. \A t \in Sessions : pc'[t] \in Entering => pc[t] \in Entering
      BY <3>1 DEF Shapes
    <3>4. ~crowded' => \A t \in Sessions : pc'[t] \notin {"steal", "waitsteal"}
      BY <3>1 DEF Alone, Shapes
    <3> QED
      BY <3>1, <3>2, <3>3, <3>4, AloneKept
  <2>13. ASSUME NEW s \in Sessions, Join(s) PROVE Alone'
    BY <2>13, <2>a DEF Join, Hold, Shapes
  <2>14. ASSUME NEW s \in Sessions, Reuse(s) PROVE Alone'
    <3>1. PICK a \in Asks : \E d \in Kept(s, a) :
            /\ life' = [life EXCEPT ![d] = "active"]
            /\ owner' = [owner EXCEPT ![d] = client[s]]
      BY <2>14 DEF Reuse
    <3>2. PICK d \in Displays :
            /\ life' = [life EXCEPT ![d] = "active"]
            /\ owner' = [owner EXCEPT ![d] = client[s]]
      BY <3>1 DEF Kept
    <3>3. /\ pc[s] = "live" /\ pc' = [pc EXCEPT ![s] = "streaming"] /\ UNCHANGED <<client, crowded>>
      BY <2>14 DEF Reuse, Hold
    <3>4. ~crowded => \A t \in Sessions : pc'[t] \notin Entering \cup {"steal", "waitsteal"}
      BY <3>3 DEF Alone, Shapes
    <3>5. d \in Sessions /\ life'[d] = "active" /\ owner'[d] = client[s]
      BY <3>2 DEF Displays, Shapes
    <3>6. \A e \in Displays' : e # d => e \in Displays /\ life'[e] = life[e] /\ owner'[e] = owner[e]
      BY <3>2 DEF Displays, Shapes
    <3>7. IsFiniteSet(Displays') /\ BudgetPerClient'
      BY <3>3, <3>5, <3>6, StreamerCharged
    <3> QED
      BY <3>3, <3>4, <3>7 DEF Alone
  <2>15. ASSUME NEW s \in Sessions, Create(s) PROVE Alone'
    <3>1. PICK gone \in SUBSET Sessions :
            /\ life' = [d \in Sessions |-> IF d \in gone THEN "none"
                                           ELSE IF d = s THEN "active" ELSE life[d]]
            /\ owner' = [Without(owner, gone) EXCEPT ![s] = client[s]]
            /\ gone \subseteq Displays
      BY <2>15, CreateRemoves
    <3>2. /\ pc[s] = "live" /\ pc' = [pc EXCEPT ![s] = "streaming"] /\ UNCHANGED <<client, crowded>>
      BY <2>15 DEF Create, Hold
    <3>3. ~crowded => \A t \in Sessions : pc'[t] \notin Entering \cup {"steal", "waitsteal"}
      BY <3>2 DEF Alone, Shapes
    <3>4. s \notin gone
      BY <3>1, <3>2 DEF DisplayInv, Fresh, Before, PCs, Displays
    <3>5. life'[s] = "active" /\ owner'[s] = client[s]
      BY <3>1, <3>4 DEF Without
    <3>6. \A e \in Displays' : e # s => e \in Displays /\ life'[e] = life[e] /\ owner'[e] = owner[e]
      BY <3>1 DEF Displays, Without
    <3>7. IsFiniteSet(Displays') /\ BudgetPerClient'
      BY <3>2, <3>5, <3>6, StreamerCharged
    <3> QED
      BY <3>2, <3>3, <3>7 DEF Alone
  <2>16. ASSUME NEW s \in Sessions, OpenFails(s) PROVE Alone'
    BY <2>16, <2>a DEF OpenFails, Shapes
  <2>17. ASSUME NEW s \in Sessions, LinkClosed(s) PROVE Alone'
    BY <2>17, <2>a DEF LinkClosed
  <2>18. ASSUME NEW s \in Sessions, StreamEnds(s) \/ Returns(s) PROVE Alone'
    <3>1. /\ DropLease(s) /\ UNCHANGED <<client, crowded>>
          /\ \A t \in Sessions : pc'[t] = pc[t] \/ pc'[t] = "ended"
      BY <2>18 DEF StreamEnds, Returns, Shapes
    <3>2. \A d \in Displays' : /\ d \in Displays /\ owner'[d] = owner[d]
                               /\ life'[d] = life[d] \/ life[d] = "active"
      BY <3>1, DroppedOnly DEF DisplayInv
    <3>3. \A t \in Sessions : pc'[t] \in Entering => pc[t] \in Entering
      BY <3>1
    <3>4. ~crowded' => \A t \in Sessions : pc'[t] \notin {"steal", "waitsteal"}
      BY <3>1 DEF Alone
    <3> QED
      BY <3>1, <3>2, <3>3, <3>4, AloneKept
  <2>19. ASSUME NEW s \in Sessions, Wedge(s) PROVE Alone'
    BY <2>19, <2>a DEF Wedge
  <2>20. ASSUME NEW s \in Sessions, Abandon(s) PROVE Alone'
    BY <2>20, <2>a DEF Abandon, Shapes
  <2>22. ASSUME NEW s \in Sessions, DropGuard(s) PROVE Alone'
    BY <2>22, <2>a DEF DropGuard, Shapes
  <2>23. ASSUME NEW s \in Sessions, FreeSlot(s) PROVE Alone'
    BY <2>23, <2>a DEF FreeSlot, Shapes
  <2>24. ASSUME NEW d \in Sessions, Forget(d) PROVE Alone'
    <3>1. /\ life' = [life EXCEPT ![d] = "none"] /\ UNCHANGED <<client, pc, crowded>>
          /\ owner' = Without(owner, {d})
      BY <2>24 DEF Forget
    <3>2. \A e \in Displays' : e \in Displays /\ owner'[e] = owner[e] /\ life'[e] = life[e]
      BY <3>1 DEF Displays, Without, Shapes
    <3>3. ~crowded' => \A t \in Sessions : pc'[t] \notin {"steal", "waitsteal"}
      BY <3>1 DEF Alone
    <3> QED
      BY <3>1, <3>2, <3>3, AloneKept
  <2>25. CASE UNCHANGED vars
    <3>1. Displays' = Displays /\ (\A c : Counted(c)' = Counted(c)) /\ BudgetPerClient' = BudgetPerClient
      BY <2>25, SameCharge DEF vars, connects
    <3> QED
      BY <2>25, <3>1 DEF vars, connects, Alone
  <2> QED
    BY <2>1, <2>2, <2>3, <2>4, <2>5, <2>7, <2>8, <2>9, <2>10, <2>11, <2>12, <2>13, <2>14, <2>15, <2>16, <2>17, <2>18, <2>19, <2>20, <2>22, <2>23, <2>24, <2>25 DEF Next, Step
<1> QED
  BY <1>1, <1>2, ShapesHold, DisplaysHold, PTL DEF Spec

-----------------------------------------------------------------------------
(* Every variable has its shape, a session one row, an active display its  *)
(* holders, for any connections, clients, policies and limits.             *)
THEOREM TypeCorrect == Spec => []TypeOK
<1>1. Shapes /\ TableInv /\ DisplayInv => TypeOK
  BY DEF TypeOK, TableInv, DisplayInv
<1> QED
  BY <1>1, ShapesHold, TableHolds, DisplaysHold, PTL

(* Past a steal's admission every older session of another client has been *)
(* told to stop, and nobody whose policy is reject passes beside one,      *)
(* however many connect at once.                                           *)
THEOREM TakeoversAreExclusive == Spec => []StealIsExclusive
<1>1. TableInv => StealIsExclusive
  BY DEF TableInv, Reached, StealIsExclusive, Admitted
<1> QED
  BY <1>1, TableHolds, PTL

(* A session that left the table holds no display, unless its stream       *)
(* thread was given up on.                                                 *)
THEOREM LeftMeansLetGo == Spec => []HoldersAreListed
<1>1. TableInv /\ DisplayInv => HoldersAreListed
  BY DEF TableInv, OneRowEach, DisplayInv, Held, HoldersAreListed, Listed
<1> QED
  BY <1>1, TableHolds, DisplaysHold, PTL

(* Connects that come one at a time stay within max_displays, a client     *)
(* charged for what it streams or else for one display pinned for it,      *)
(* whatever was kept before, at which mode and keys, and whoever takes it  *)
(* back.                                                                   *)
THEOREM BudgetIsKept == Spec => []BudgetPerClient
<1>1. Alone => BudgetPerClient
  BY DEF Alone
<1> QED
  BY <1>1, AloneHolds, PTL
=============================================================================
