------------------------- MODULE TopologyJournalProofs -------------------------
(***************************************************************************)
(* Proofs about TopologyJournal, for any sessions, heads and bounds: the   *)
(* types, that a head left dark is always named on disk, that every entry  *)
(* of heads stays in somebody's hands, and that no teardown leaves the     *)
(* desk blank.                                                             *)
(*                                                                         *)
(* DarkIsJournaled is not inductive: an entry may be on its way out of the *)
(* journal (its undo is done, its pass has not settled yet) while another  *)
(* session darkens the same heads.  What carries it is Covered: the entry  *)
(* that names a dark head is in no pass's undone set.  A session about to  *)
(* darken heads still holds the entry it wrote for them (Pending), and what*)
(* a session holds is in nobody else's hands (Apart), since seqs are fresh.*)
(*                                                                         *)
(* As the last output goes, every other session is gone and this one's    *)
(* pass is over (StandInv), and each entry of heads is in somebody's hands *)
(* (AllInHand): what names a dark head is owed by the watch or was given up*)
(***************************************************************************)
EXTENDS TopologyJournal, TLAPS

(* Seqs are given out once, owners once.                                   *)
Fresh ==
  /\ \A e \in journal : e.seq < next /\ e.owner <= host
  /\ \A s \in Sessions : \A q \in held[s] : q < next
  /\ \A t \in Threads : \A q \in todo[t] \cup undone[t] : q < next
  /\ \A t \in Threads : cur[t] # None => cur[t] < next
  /\ \A q \in DOMAIN owed : q < next

(* What a session holds is in nobody else's hands.                         *)
Apart ==
  /\ \A s, r \in Sessions : s # r => held[s] \cap held[r] = {}
  /\ \A s \in Sessions, t \in Threads :
       held[s] \cap (todo[t] \cup undone[t]) = {} /\ cur[t] \notin held[s]
  /\ \A s \in Sessions : held[s] \cap DOMAIN owed = {}

Dead == ~up => \A s \in Sessions : held[s] = {} /\ pc[s] = "idle"

(* Only a session in its undo has a pass.                                  *)
Idle == \A s \in Sessions : pc[s] # "undo" => todo[s] = {} /\ cur[s] = None

Bare == \A e \in journal : e.kind = "output" => e.heads = {}

Pending ==
  \A s \in Sessions : pc[s] = "darken" =>
    \E e \in journal : e.kind = "heads" /\ e.seq \in held[s] /\ plan[s] \subseteq e.heads

Covered ==
  \A h \in Heads : ~lit[h] =>
    \E e \in journal : h \in e.heads /\ \A t \in Threads : e.seq \notin undone[t]

IInv == Fresh /\ Apart /\ Dead /\ Idle /\ Bare /\ Pending /\ Covered

-----------------------------------------------------------------------------
(* The types hold in every reachable state.                                *)
THEOREM Typing == Spec => []TypeOK
<1>1. Init => TypeOK
  BY JournalAssumption DEF Init, TypeOK, Threads, PCs
<1>2. TypeOK /\ [Next]_vars => TypeOK'
  <2> SUFFICES ASSUME TypeOK, [Next]_vars PROVE TypeOK'
    OBVIOUS
  <2> USE JournalAssumption DEF TypeOK, desk, file, sess, pass
  <2>1. ASSUME NEW s \in Sessions, Create(s) PROVE TypeOK'
    BY <2>1 DEF Create, Ran, Spend, Go, push, Entry, PCs
  <2>2. ASSUME NEW s \in Sessions, NEW x \in BOOLEAN, ListHeads(s, x) PROVE TypeOK'
    BY <2>2 DEF ListHeads, Go, PCs
  <2>16. ASSUME NEW s \in Sessions, CreateFails(s) PROVE TypeOK'
    BY <2>16 DEF CreateFails, Go, PCs
  <2>3. ASSUME NEW s \in Sessions, JournalPlan(s) PROVE TypeOK'
    BY <2>3 DEF JournalPlan, Go, push, Entry, PCs
  <2>4. ASSUME NEW s \in Sessions, Darken(s) PROVE TypeOK'
    <3> PICK h \in plan[s] :
          /\ plan' = [plan EXCEPT ![s] = @ \ {h}]
          /\ Go(s, IF plan[s] = {h} THEN "pooled" ELSE "darken")
          /\ lit' \in {lit, [lit EXCEPT ![h] = lit[h] /\ h \notin listed]}
      BY <2>4 DEF Darken
    <3>1. lit' \in [Heads -> BOOLEAN]
      OBVIOUS
    <3> QED
      BY <2>4, <3>1 DEF Darken, Go, PCs
  <2>5. ASSUME NEW s \in Sessions, Leave(s) PROVE TypeOK'
    BY <2>5 DEF Leave, hand_off_undo, AfterPool, Go, PCs, Threads
  <2>6. ASSUME NEW s \in Sessions, Unplug(s) PROVE TypeOK'
    BY <2>6 DEF Unplug, Go, PCs, Spend
  <2>7. ASSUME NEW t \in Threads, Undo(t) PROVE TypeOK'
    <3> PICK q \in todo[t] : /\ todo' = [todo EXCEPT ![t] = @ \ {q}]
                             /\ EnableHeads(t, q) \/ RemoveOutput(t, q)
      BY <2>7 DEF Undo
    <3>1. lit' \in [Heads -> BOOLEAN]
      BY Zenon DEF EnableHeads, RemoveOutput
    <3> QED
      BY <2>7, <3>1 DEF Undo, EnableHeads, RemoveOutput
  <2>8. ASSUME NEW t \in Threads, UndoRefused(t) PROVE TypeOK'
    BY <2>8 DEF UndoRefused, Fails, TriesLeft, Spend
  <2>9. ASSUME NEW t \in Threads, ReadBack(t) PROVE TypeOK'
    BY <2>9 DEF ReadBack, Fails, TriesLeft
  <2>10. ASSUME NEW t \in Threads, Settle(t) PROVE TypeOK'
    BY <2>10 DEF Settle, settle, Go, PCs
  <2>11. ASSUME NEW q \in DOMAIN owed, Look(q) PROVE TypeOK'
    BY <2>11 DEF Look, Threads
  <2>12. CASE Crash
    <3>1. owed' = [q \in {} |-> 0] /\ spent' \in [{"creates", "crashes", "unplugs", "refusals"} -> Nat]
      BY <2>12 DEF Crash, Spend
    <3>2. pc' \in [Sessions -> PCs] /\ out' \in [Sessions -> Nat] /\ up' \in BOOLEAN
      BY <2>12 DEF Crash, PCs
    <3>3. /\ plan' \in [Sessions -> SUBSET Heads] /\ held' \in [Sessions -> SUBSET Nat]
          /\ todo' \in [Threads -> SUBSET Nat] /\ undone' \in [Threads -> SUBSET Nat]
          /\ cur' \in [Threads -> Nat \cup {None}]
      BY <2>12 DEF Crash
    <3> QED
      BY <2>12, <3>1, <3>2, <3>3 DEF Crash
  <2>13. CASE Restart
    <3>1. {e.seq : e \in journal} \subseteq Nat
      BY DEF Entry
    <3>2. todo' \in [Threads -> SUBSET Nat]
      BY <2>13, <3>1 DEF Restart
    <3> QED
      BY <2>13, <3>2 DEF Restart
  <2>14. ASSUME NEW h \in Heads, HeadGone(h) \/ HeadBack(h) PROVE TypeOK'
    BY <2>14 DEF HeadGone, HeadBack, Spend
  <2>15. CASE UNCHANGED vars
    BY <2>15 DEF vars
  <2> QED
    BY <2>1, <2>2, <2>3, <2>4, <2>5, <2>6, <2>7, <2>8, <2>9, <2>10, <2>11, <2>12, <2>13,
       <2>14, <2>15, <2>16 DEF Next, SessionStep, PassStep, LookStep
<1> QED
  BY <1>1, <1>2, PTL DEF Spec

-----------------------------------------------------------------------------
(* A step keeps IInv.                                                      *)
LEMMA Step == TypeOK /\ IInv /\ [Next]_vars => IInv'
<1> SUFFICES ASSUME TypeOK, IInv, [Next]_vars PROVE IInv'
  OBVIOUS
<1> USE JournalAssumption DEF TypeOK, IInv, PCs, Entry, Threads, desk, file, sess, pass
<1>1. ASSUME NEW s \in Sessions, Create(s) PROVE IInv'
  <2>1. Fresh'
    BY <1>1 DEF Create, push, Go, Fresh
  <2>2. Apart'
    BY <1>1 DEF Create, push, Go, Apart
  <2>3. Dead'
    BY <1>1 DEF Create, push, Go, Dead
  <2>4. Bare'
    BY <1>1 DEF Create, push, Go, Bare
  <2>5. Pending'
    BY <1>1 DEF Create, push, Go, Pending
  <2>6. Covered'
    BY <1>1 DEF Create, push, Go, Covered
  <2>7. Idle'
    BY <1>1 DEF Create, push, Go, Idle
  <2> QED
    BY <2>1, <2>2, <2>3, <2>4, <2>5, <2>6, <2>7
<1>2. ASSUME NEW s \in Sessions, NEW x \in BOOLEAN, ListHeads(s, x) PROVE IInv'
  <2>1. Fresh'
    BY <1>2 DEF ListHeads, Go, Fresh
  <2>2. Apart'
    BY <1>2 DEF ListHeads, Go, Apart
  <2>3. Dead'
    BY <1>2 DEF ListHeads, Go, Dead
  <2>4. Bare'
    BY <1>2 DEF ListHeads, Go, Bare
  <2>5. Pending'
    BY <1>2 DEF ListHeads, Go, Pending
  <2>6. Covered'
    BY <1>2 DEF ListHeads, Go, Covered
  <2>7. Idle'
    BY <1>2 DEF ListHeads, Go, Idle
  <2> QED
    BY <2>1, <2>2, <2>3, <2>4, <2>5, <2>6, <2>7
<1>16. ASSUME NEW s \in Sessions, CreateFails(s) PROVE IInv'
  BY <1>16 DEF CreateFails, Go, Fresh, Apart, Dead, Idle, Bare, Pending, Covered
<1>3. ASSUME NEW s \in Sessions, JournalPlan(s) PROVE IInv'
  <2>1. Fresh'
    BY <1>3 DEF JournalPlan, push, Go, Fresh
  <2>2. Apart'
    <3>1. \A r \in Sessions : r # s => held'[r] = held[r] /\ next \notin held[r]
      BY <1>3 DEF JournalPlan, Fresh
    <3>2. held'[s] = held[s] \cup {next}
      BY <1>3 DEF JournalPlan
    <3>3. \A t \in Threads : next \notin todo[t] \cup undone[t] /\ cur[t] # next
      BY DEF Fresh
    <3>4. next \notin DOMAIN owed
      BY DEF Fresh
    <3> QED
      BY <1>3, <3>1, <3>2, <3>3, <3>4 DEF JournalPlan, Apart
  <2>3. Dead'
    BY <1>3 DEF JournalPlan, push, Go, Dead
  <2>4. Bare'
    BY <1>3 DEF JournalPlan, push, Go, Bare
  <2>5. Pending'
    <3>1. [seq |-> next, owner |-> host, kind |-> "heads", heads |-> plan[s]] \in journal'
      BY <1>3 DEF JournalPlan, push
    <3>2. next \in held'[s] /\ plan' = plan
      BY <1>3 DEF JournalPlan
    <3>3. \A r \in Sessions : pc'[r] = "darken" /\ r # s => pc[r] = "darken" /\ held'[r] = held[r]
      BY <1>3 DEF JournalPlan, Go
    <3>4. journal \subseteq journal'
      BY <1>3 DEF JournalPlan, push
    <3> QED
      BY <3>1, <3>2, <3>3, <3>4 DEF Pending
  <2>6. Covered'
    BY <1>3 DEF JournalPlan, push, Go, Covered
  <2>7. Idle'
    BY <1>3 DEF JournalPlan, push, Go, Idle
  <2> QED
    BY <2>1, <2>2, <2>3, <2>4, <2>5, <2>6, <2>7
<1>4. ASSUME NEW s \in Sessions, Darken(s) PROVE IInv'
  <2>1. Fresh'
    BY <1>4 DEF Darken, Go, Fresh
  <2>2. Apart'
    BY <1>4 DEF Darken, Go, Apart
  <2>3. Dead'
    BY <1>4 DEF Darken, Go, Dead
  <2>4. Bare'
    BY <1>4 DEF Darken, Go, Bare
  <2>5. Pending'
    BY <1>4 DEF Darken, Go, Pending
  <2>6. Covered'
    <3>1. PICK h \in plan[s] : lit' \in {lit, [lit EXCEPT ![h] = lit[h] /\ h \notin listed]}
      BY <1>4 DEF Darken
    <3>2. PICK e \in journal : e.seq \in held[s] /\ plan[s] \subseteq e.heads
      BY <1>4 DEF Darken, Pending
    <3>3. \A t \in Threads : e.seq \notin undone[t]
      BY <3>2 DEF Apart
    <3>4. \A g \in Heads : ~lit'[g] => ~lit[g] \/ g = h
      BY <3>1
    <3>5. journal' = journal /\ undone' = undone
      BY <1>4 DEF Darken
    <3> QED
      BY <3>2, <3>3, <3>4, <3>5 DEF Covered
  <2>7. Idle'
    BY <1>4 DEF Darken, Go, Idle
  <2> QED
    BY <2>1, <2>2, <2>3, <2>4, <2>5, <2>6, <2>7
<1>5. ASSUME NEW s \in Sessions, Leave(s) PROVE IInv'
  <2>1. Fresh'
    BY <1>5 DEF Leave, hand_off_undo, AfterPool, Go, Fresh
  <2>2. Apart'
    <3> undone' = undone /\ cur' = cur /\ owed' = owed
      BY <1>5 DEF Leave
    <3>1. ASSUME NEW sib \in Sessions \ {s}, hand_off_undo(s, sib), todo' = todo PROVE Apart'
      <4>1. /\ held'[s] = {} /\ held'[sib] = held[sib] \cup held[s]
            /\ \A r \in Sessions \ {s, sib} : held'[r] = held[r]
        BY <3>1 DEF hand_off_undo
      <4> QED
        BY <3>1, <4>1 DEF Apart
    <3>2. ASSUME todo' = [todo EXCEPT ![s] = held[s]], held' = [held EXCEPT ![s] = {}] PROVE Apart'
      <4>1. /\ held'[s] = {} /\ todo'[s] = held[s]
            /\ \A r \in Sessions \ {s} : held'[r] = held[r]
            /\ \A t \in Threads \ {s} : todo'[t] = todo[t]
        BY <3>2
      <4> QED
        BY <4>1 DEF Apart
    <3> QED
      BY <1>5, <3>1, <3>2 DEF Leave
  <2>3. Dead'
    BY <1>5 DEF Leave, hand_off_undo, AfterPool, Go, Dead
  <2>4. Bare'
    BY <1>5 DEF Leave, hand_off_undo, AfterPool, Go, Bare
  <2>5. Pending'
    BY <1>5 DEF Leave, hand_off_undo, AfterPool, Go, Pending
  <2>6. Covered'
    BY <1>5 DEF Leave, hand_off_undo, AfterPool, Go, Covered
  <2>7. Idle'
    BY <1>5 DEF Leave, hand_off_undo, AfterPool, Go, Idle
  <2> QED
    BY <2>1, <2>2, <2>3, <2>4, <2>5, <2>6, <2>7
<1>6. ASSUME NEW s \in Sessions, Unplug(s) PROVE IInv'
  <2>1. Fresh'
    BY <1>6 DEF Unplug, Go, Fresh
  <2>2. Apart'
    BY <1>6 DEF Unplug, Go, Apart
  <2>3. Dead'
    BY <1>6 DEF Unplug, Go, Dead
  <2>4. Bare'
    BY <1>6 DEF Unplug, Go, Bare
  <2>5. Pending'
    BY <1>6 DEF Unplug, Go, Pending
  <2>6. Covered'
    <3>1. \A e \in journal : e.heads # {} => e \in journal'
      BY <1>6 DEF Unplug, Bare
    <3> QED
      BY <1>6, <3>1 DEF Unplug, Covered
  <2>7. Idle'
    BY <1>6 DEF Unplug, Go, Idle
  <2> QED
    BY <2>1, <2>2, <2>3, <2>4, <2>5, <2>6, <2>7
<1>7. ASSUME NEW t \in Threads, Undo(t) PROVE IInv'
  <2>1. Fresh'
    BY <1>7 DEF Undo, EnableHeads, RemoveOutput, EntryOf, Go, Fresh
  <2>2. Apart'
    BY <1>7 DEF Undo, EnableHeads, RemoveOutput, EntryOf, Go, Apart
  <2>3. Dead'
    BY <1>7 DEF Undo, EnableHeads, RemoveOutput, EntryOf, Go, Dead
  <2>4. Bare'
    BY <1>7 DEF Undo, EnableHeads, RemoveOutput, EntryOf, Go, Bare
  <2>5. Pending'
    BY <1>7 DEF Undo, EnableHeads, RemoveOutput, EntryOf, Go, Pending
  <2>6. Covered'
    <3> PICK q \in todo[t] : EnableHeads(t, q) \/ RemoveOutput(t, q)
      BY <1>7 DEF Undo
    <3>1. journal' = journal
      BY <1>7 DEF Undo
    <3>2. \A h \in Heads : ~lit'[h] => ~lit[h]
      BY Zenon DEF EnableHeads, RemoveOutput
    <3>3. \A e \in journal, r \in Threads :
            e.heads # {} /\ e.seq \notin undone[r] => e.seq \notin undone'[r]
      BY DEF EnableHeads, RemoveOutput, EntryOf, Bare
    <3> QED
      BY <3>1, <3>2, <3>3 DEF Covered
  <2>7. Idle'
    BY <1>7 DEF Undo, Runs, EnableHeads, RemoveOutput, Go, Idle
  <2> QED
    BY <2>1, <2>2, <2>3, <2>4, <2>5, <2>6, <2>7
<1>8. ASSUME NEW t \in Threads, UndoRefused(t) PROVE IInv'
  <2>1. Fresh'
    BY <1>8 DEF UndoRefused, Fails, Go, Fresh
  <2>2. Apart'
    BY <1>8 DEF UndoRefused, Fails, Go, Apart
  <2>3. Dead'
    BY <1>8 DEF UndoRefused, Fails, Go, Dead
  <2>4. Bare'
    BY <1>8 DEF UndoRefused, Fails, Go, Bare
  <2>5. Pending'
    BY <1>8 DEF UndoRefused, Fails, Go, Pending
  <2>6. Covered'
    BY <1>8 DEF UndoRefused, Fails, Go, Covered
  <2>7. Idle'
    BY <1>8 DEF UndoRefused, Runs, Go, Idle
  <2> QED
    BY <2>1, <2>2, <2>3, <2>4, <2>5, <2>6, <2>7
<1>9. ASSUME NEW t \in Threads, ReadBack(t) PROVE IInv'
  <2>1. Fresh'
    BY <1>9 DEF ReadBack, Fails, StillDark, Gone, NamedBy, EntryOf, Go, Fresh
  <2>2. Apart'
    BY <1>9 DEF ReadBack, Fails, StillDark, Gone, NamedBy, EntryOf, Go, Apart
  <2>3. Dead'
    BY <1>9 DEF ReadBack, Fails, StillDark, Gone, NamedBy, EntryOf, Go, Dead
  <2>4. Bare'
    BY <1>9 DEF ReadBack, Fails, StillDark, Gone, NamedBy, EntryOf, Go, Bare
  <2>5. Pending'
    BY <1>9 DEF ReadBack, Fails, StillDark, Gone, NamedBy, EntryOf, Go, Pending
  <2>6. Covered'
    BY <1>9 DEF ReadBack, Fails, StillDark, Gone, NamedBy, EntryOf, Go, Covered
  <2>7. Idle'
    BY <1>9 DEF ReadBack, Go, Idle
  <2> QED
    BY <2>1, <2>2, <2>3, <2>4, <2>5, <2>6, <2>7
<1>10. ASSUME NEW t \in Threads, Settle(t) PROVE IInv'
  <2>1. Fresh'
    BY <1>10 DEF Settle, settle, Go, Fresh
  <2>2. Apart'
    BY <1>10 DEF Settle, settle, Go, Apart
  <2>3. Dead'
    BY <1>10 DEF Settle, settle, Go, Dead
  <2>4. Bare'
    BY <1>10 DEF Settle, settle, Go, Bare
  <2>5. Pending'
    <3>1. held' = held /\ plan' = plan /\ \A r \in Sessions : pc'[r] = "darken" => pc[r] = "darken"
      BY <1>10 DEF Settle, Go
    <3>2. \A r \in Sessions, e \in journal : e.seq \in held[r] => e \in journal'
      BY <1>10 DEF Settle, settle, Apart
    <3> QED
      BY <3>1, <3>2 DEF Pending
  <2>6. Covered'
    BY <1>10 DEF Settle, settle, Go, Covered
  <2>7. Idle'
    BY <1>10 DEF Settle, Ran, Go, Idle
  <2> QED
    BY <2>1, <2>2, <2>3, <2>4, <2>5, <2>6, <2>7
<1>11. ASSUME NEW q \in DOMAIN owed, Look(q) PROVE IInv'
  <2>1. Fresh'
    BY <1>11 DEF Look, Go, Fresh
  <2>2. Apart'
    BY <1>11 DEF Look, Go, Apart
  <2>3. Dead'
    BY <1>11 DEF Look, Go, Dead
  <2>4. Bare'
    BY <1>11 DEF Look, Go, Bare
  <2>5. Pending'
    BY <1>11 DEF Look, Go, Pending
  <2>6. Covered'
    BY <1>11 DEF Look, Go, Covered
  <2>7. Idle'
    BY <1>11 DEF Look, Go, Idle
  <2> QED
    BY <2>1, <2>2, <2>3, <2>4, <2>5, <2>6, <2>7
<1>12. CASE Crash
  BY <1>12 DEF Crash, Fresh, Apart, Dead, Idle, Bare, Pending, Covered
<1>13. CASE Restart
  BY <1>13 DEF Restart, Fresh, Apart, Dead, Idle, Bare, Pending, Covered
<1>14. ASSUME NEW h \in Heads, HeadGone(h) \/ HeadBack(h) PROVE IInv'
  BY <1>14 DEF HeadGone, HeadBack, Fresh, Apart, Dead, Idle, Bare, Pending, Covered
<1>15. CASE UNCHANGED vars
  BY <1>15 DEF vars, Fresh, Apart, Dead, Idle, Bare, Pending, Covered
<1> QED
  BY <1>1, <1>2, <1>3, <1>4, <1>5, <1>6, <1>7, <1>8, <1>9, <1>10, <1>11, <1>12, <1>13, <1>14, <1>15, <1>16
     DEF Next, SessionStep, PassStep, LookStep

(* From the first state on, IInv holds with the types.                     *)
LEMMA Inductive == Spec => [](TypeOK /\ IInv)
<1>1. Init => IInv
  BY JournalAssumption
     DEF Init, IInv, Fresh, Apart, Dead, Idle, Bare, Pending, Covered, Threads
<1> QED
  BY <1>1, Typing, Step, PTL DEF Spec

(* At whatever step the host dies, a head some stream left dark is named by*)
(* an entry on disk, so the next host can light it.                        *)
THEOREM DarkHeadsAreJournaled == Spec => []DarkIsJournaled
<1>1. IInv => DarkIsJournaled
  BY DEF IInv, Covered, DarkIsJournaled
<1> QED
  BY <1>1, Inductive, PTL

-----------------------------------------------------------------------------
(* No step drops an entry of heads, this host's or a dead one's: a step    *)
(* that takes its seq from one hand puts it into another, or the entry     *)
(* leaves the journal.                                                     *)
AllInHand == \A e \in journal : up /\ e.kind = "heads" => InHand(e.seq)

LEMMA HandsStep ==
  TypeOK /\ IInv /\ AllInHand /\ [Next]_vars => AllInHand'
<1> SUFFICES ASSUME TypeOK, IInv, AllInHand, [Next]_vars PROVE AllInHand'
  OBVIOUS
<1> USE JournalAssumption DEF TypeOK, AllInHand, InHand, Threads, desk, file, sess, pass
<1>1. ASSUME NEW s \in Sessions, Create(s) PROVE AllInHand'
  BY <1>1 DEF Create, push
<1>2. ASSUME NEW s \in Sessions, NEW x \in BOOLEAN, ListHeads(s, x) PROVE AllInHand'
  BY <1>2 DEF ListHeads
<1>16. ASSUME NEW s \in Sessions, CreateFails(s) PROVE AllInHand'
  BY <1>16 DEF CreateFails
<1>3. ASSUME NEW s \in Sessions, JournalPlan(s) PROVE AllInHand'
  BY <1>3 DEF JournalPlan, push
<1>4. ASSUME NEW s \in Sessions, Darken(s) PROVE AllInHand'
  BY <1>4 DEF Darken
<1>5. ASSUME NEW s \in Sessions, Leave(s) PROVE AllInHand'
  <2>1. /\ UNCHANGED <<journal, up, host, kept, owed, undone, cur>>
        /\ \A r \in Sessions \ {s} : held[r] \subseteq held'[r]
        /\ \A t \in Threads \ {s} : todo[t] \subseteq todo'[t]
    BY <1>5 DEF Leave, hand_off_undo
  <2>2. ASSUME NEW sib \in Sessions \ {s}, hand_off_undo(s, sib), todo' = todo
        PROVE  AllInHand'
    BY <2>1, <2>2 DEF hand_off_undo
  <2>3. ASSUME todo' = [todo EXCEPT ![s] = held[s]], held' = [held EXCEPT ![s] = {}]
        PROVE  AllInHand'
    <3>1. todo'[s] = held[s]
      BY <2>3
    <3>2. todo[s] = {}
      BY <1>5 DEF Leave, IInv, Idle
    <3> QED
      BY <2>1, <2>3, <3>1, <3>2
  <2> QED
    BY <1>5, <2>2, <2>3 DEF Leave
<1>6. ASSUME NEW s \in Sessions, Unplug(s) PROVE AllInHand'
  BY <1>6 DEF Unplug
<1>7. ASSUME NEW t \in Threads, Undo(t) PROVE AllInHand'
  <2> PICK q \in todo[t] : /\ todo' = [todo EXCEPT ![t] = @ \ {q}]
                           /\ EnableHeads(t, q) \/ RemoveOutput(t, q)
    BY <1>7 DEF Undo
  <2>1. UNCHANGED <<journal, up, host, kept, owed, held>> /\ cur[t] = None
    BY <1>7 DEF Undo, Runs
  <2>2. \A r \in Threads : todo[r] \ {q} \subseteq todo'[r] /\ undone[r] \subseteq undone'[r]
    BY DEF EnableHeads, RemoveOutput
  <2>3. q \in undone'[t] \cup {cur'[t]}
    BY DEF EnableHeads, RemoveOutput
  <2>4. \A r \in Threads : cur[r] # None => cur'[r] = cur[r]
    BY <2>1 DEF EnableHeads, RemoveOutput
  <2>5. \A p \in Nat : InHand(p) => InHand(p)'
    BY <2>1, <2>2, <2>3, <2>4
  <2> QED
    BY <2>1, <2>5 DEF Entry
<1>8. ASSUME NEW t \in Threads, UndoRefused(t) PROVE AllInHand'
  BY <1>8 DEF UndoRefused, Fails
<1>9. ASSUME NEW t \in Threads, ReadBack(t) PROVE AllInHand'
  BY <1>9 DEF ReadBack, Fails
<1>10. ASSUME NEW t \in Threads, Settle(t) PROVE AllInHand'
  BY <1>10 DEF Settle, settle
<1>11. ASSUME NEW q \in DOMAIN owed, Look(q) PROVE AllInHand'
  <2>1. UNCHANGED <<journal, up, host, kept, owed, held, undone>>
    BY <1>11 DEF Look
  <2>2. \A r \in Threads : todo[r] \subseteq todo'[r] /\ (cur[r] # None => cur'[r] = cur[r])
    BY <1>11 DEF Look, Ran
  <2>3. \A p \in Nat : InHand(p) => InHand(p)'
    BY <2>1, <2>2
  <2> QED
    BY <2>1, <2>3 DEF Entry
<1>12. CASE Crash
  BY <1>12 DEF Crash
<1>13. CASE Restart
  BY <1>13 DEF Restart, IInv, Fresh, Entry
<1>14. ASSUME NEW h \in Heads, HeadGone(h) \/ HeadBack(h) PROVE AllInHand'
  BY <1>14 DEF HeadGone, HeadBack
<1>15. CASE UNCHANGED vars
  BY <1>15 DEF vars
<1> QED
  BY <1>1, <1>2, <1>3, <1>4, <1>5, <1>6, <1>7, <1>8, <1>9, <1>10, <1>11, <1>12, <1>13, <1>14, <1>15, <1>16
     DEF Next, SessionStep, PassStep, LookStep

LEMMA InEveryHand == Spec => []AllInHand
<1>1. Init => AllInHand
  BY DEF Init, AllInHand
<1> QED
  BY <1>1, Inductive, HandsStep, PTL DEF Spec

(* Every entry of heads the running host wrote stays with a session, a     *)
(* pass or the watch until it is settled or given up.                      *)
THEOREM EntriesStayInHand == Spec => []NoEntryForgotten
<1>1. AllInHand => NoEntryForgotten
  BY DEF AllInHand, NoEntryForgotten
<1> QED
  BY <1>1, InEveryHand, PTL

-----------------------------------------------------------------------------
(* What a teardown may rely on.  A session that has an output has one of   *)
(* its own, and the reclaim is over (Outputs); passes of sessions and of   *)
(* the watch are over entries of heads (OnlyHeads), held by sessions whose *)
(* heads are dark (Holds); and what the watch looks at it owes (Watched).  *)
Outputs ==
  /\ \A s \in Sessions : pc[s] # "idle" => out[s] \in outputs /\ out[s] < next
  /\ \A s, r \in Sessions : pc[s] # "idle" /\ pc[r] # "idle" /\ out[s] = out[r] => s = r
  /\ (\E s \in Sessions : pc[s] # "idle") => Ran(Reclaimer) /\ undone[Reclaimer] = {}

OnlyHeads ==
  \A e \in journal : e.kind = "output" =>
    /\ e.seq \notin DOMAIN owed
    /\ \A s \in Sessions : e.seq \notin held[s]
    /\ \A t \in Threads \ {Reclaimer} : e.seq \notin todo[t] /\ e.seq # cur[t]

Holds == \A s \in Sessions : held[s] # {} => pc[s] \in {"darken", "pooled"}

Watched ==
  /\ \A p, q \in todo[Watch] : p = q
  /\ cur[Watch] # None => todo[Watch] = {}
  /\ \A e \in journal : e.seq \in todo[Watch] \cup {cur[Watch]} => e.seq \in DOMAIN owed

StandInv == Outputs /\ OnlyHeads /\ Holds /\ Watched

LEMMA StandStep == TypeOK /\ IInv /\ StandInv /\ [Next]_vars => StandInv'
<1> SUFFICES ASSUME TypeOK, IInv, StandInv, [Next]_vars PROVE StandInv'
  OBVIOUS
<1> USE JournalAssumption DEF TypeOK, StandInv, PCs, Entry, Threads, desk, file, sess, pass
<1>1. ASSUME NEW s \in Sessions, Create(s) PROVE StandInv'
  <2>1. Outputs'
    BY <1>1 DEF Create, push, Go, Ran, Outputs, Ran, IInv, Fresh
  <2>2. OnlyHeads'
    BY <1>1 DEF Create, push, Go, Ran, OnlyHeads, IInv, Fresh
  <2>3. Holds'
    BY <1>1 DEF Create, push, Go, Ran, Holds
  <2>4. Watched'
    BY <1>1 DEF Create, push, Go, Ran, Watched, Ran, IInv, Fresh
  <2> QED
    BY <2>1, <2>2, <2>3, <2>4
<1>2. ASSUME NEW s \in Sessions, NEW x \in BOOLEAN, ListHeads(s, x) PROVE StandInv'
  <2>1. Outputs'
    BY <1>2 DEF ListHeads, Go, Outputs, Ran, IInv, Fresh
  <2>2. OnlyHeads'
    BY <1>2 DEF ListHeads, Go, OnlyHeads, IInv, Fresh
  <2>3. Holds'
    BY <1>2 DEF ListHeads, Go, Holds
  <2>4. Watched'
    BY <1>2 DEF ListHeads, Go, Watched, Ran, IInv, Fresh
  <2> QED
    BY <2>1, <2>2, <2>3, <2>4
<1>3. ASSUME NEW s \in Sessions, CreateFails(s) PROVE StandInv'
  <2>1. Outputs'
    BY <1>3 DEF CreateFails, Go, Outputs, Ran, IInv, Fresh
  <2>2. OnlyHeads'
    BY <1>3 DEF CreateFails, Go, OnlyHeads, IInv, Fresh
  <2>3. Holds'
    BY <1>3 DEF CreateFails, Go, Holds
  <2>4. Watched'
    BY <1>3 DEF CreateFails, Go, Watched, Ran, IInv, Fresh
  <2> QED
    BY <2>1, <2>2, <2>3, <2>4
<1>4. ASSUME NEW s \in Sessions, JournalPlan(s) PROVE StandInv'
  <2>1. Outputs'
    BY <1>4 DEF JournalPlan, push, Go, Outputs, Ran, IInv, Fresh
  <2>2. OnlyHeads'
    BY <1>4 DEF JournalPlan, push, Go, OnlyHeads, IInv, Fresh
  <2>3. Holds'
    BY <1>4 DEF JournalPlan, push, Go, Holds
  <2>4. Watched'
    BY <1>4 DEF JournalPlan, push, Go, Watched, Ran, IInv, Fresh
  <2> QED
    BY <2>1, <2>2, <2>3, <2>4
<1>5. ASSUME NEW s \in Sessions, Darken(s) PROVE StandInv'
  <2>1. Outputs'
    BY <1>5 DEF Darken, Go, Outputs, Ran, IInv, Fresh
  <2>2. OnlyHeads'
    BY <1>5 DEF Darken, Go, OnlyHeads, IInv, Fresh
  <2>3. Holds'
    BY <1>5 DEF Darken, Go, Holds
  <2>4. Watched'
    BY <1>5 DEF Darken, Go, Watched, Ran, IInv, Fresh
  <2> QED
    BY <2>1, <2>2, <2>3, <2>4
<1>6. ASSUME NEW s \in Sessions, Leave(s) PROVE StandInv'
  <2>1. Outputs'
    BY <1>6 DEF Leave, hand_off_undo, AfterPool, Go, Outputs, Ran, IInv, Fresh
  <2>2. OnlyHeads'
    BY <1>6 DEF Leave, hand_off_undo, AfterPool, Go, OnlyHeads, IInv, Fresh
  <2>3. Holds'
    BY <1>6 DEF Leave, hand_off_undo, AfterPool, Go, Holds
  <2>4. Watched'
    BY <1>6 DEF Leave, hand_off_undo, AfterPool, Go, Watched, Ran, IInv, Fresh
  <2> QED
    BY <2>1, <2>2, <2>3, <2>4
<1>7. ASSUME NEW s \in Sessions, Unplug(s) PROVE StandInv'
  <2>1. Outputs'
    BY <1>7 DEF Unplug, Go, Outputs, Ran, IInv, Fresh
  <2>2. OnlyHeads'
    BY <1>7 DEF Unplug, Go, OnlyHeads, IInv, Fresh
  <2>3. Holds'
    BY <1>7 DEF Unplug, Go, Holds
  <2>4. Watched'
    BY <1>7 DEF Unplug, Go, Watched, Ran, IInv, Fresh
  <2> QED
    BY <2>1, <2>2, <2>3, <2>4
<1>8. ASSUME NEW t \in Threads, Undo(t) PROVE StandInv'
  <2>1. Outputs'
    <3>1. PICK q \in todo[t] : /\ todo' = [todo EXCEPT ![t] = @ \ {q}]
                               /\ EnableHeads(t, q) \/ RemoveOutput(t, q)
      BY <1>8 DEF Undo
    <3>2. UNCHANGED <<pc, out, next>>
      BY <1>8 DEF Undo
    <3>3. ASSUME NEW s \in Sessions, pc[s] # "idle"
          PROVE  /\ outputs' = outputs
                 /\ todo'[Reclaimer] = {} /\ cur'[Reclaimer] = None /\ undone'[Reclaimer] = {}
      <4>1. todo[Reclaimer] = {} /\ cur[Reclaimer] = None /\ undone[Reclaimer] = {} /\ t # Reclaimer
        BY <3>1, <3>3 DEF Outputs, Ran
      <4>2. \A e \in journal : e.seq = q => e.kind = "heads"
        BY <4>1 DEF OnlyHeads
      <4> QED
        BY <3>1, <4>1, <4>2 DEF EnableHeads, RemoveOutput, EntryOf
    <3> QED
      BY <3>2, <3>3 DEF Outputs, Ran
  <2>2. OnlyHeads'
    BY <1>8 DEF Undo, Runs, EnableHeads, RemoveOutput, EntryOf, OnlyHeads, IInv, Fresh
  <2>3. Holds'
    BY <1>8 DEF Undo, Runs, EnableHeads, RemoveOutput, EntryOf, Holds
  <2>4. Watched'
    BY <1>8 DEF Undo, Runs, EnableHeads, RemoveOutput, EntryOf, Watched, Ran, IInv, Fresh
  <2> QED
    BY <2>1, <2>2, <2>3, <2>4
<1>9. ASSUME NEW t \in Threads, UndoRefused(t) PROVE StandInv'
  <2>1. Outputs'
    BY <1>9 DEF UndoRefused, Runs, Fails, TriesLeft, Outputs, Ran, IInv, Fresh
  <2>2. OnlyHeads'
    BY <1>9 DEF UndoRefused, Runs, Fails, TriesLeft, OnlyHeads, IInv, Fresh
  <2>3. Holds'
    BY <1>9 DEF UndoRefused, Runs, Fails, TriesLeft, Holds
  <2>4. Watched'
    BY <1>9 DEF UndoRefused, Runs, Fails, TriesLeft, Watched, Ran, IInv, Fresh
  <2> QED
    BY <2>1, <2>2, <2>3, <2>4
<1>10. ASSUME NEW t \in Threads, ReadBack(t) PROVE StandInv'
  <2>1. Outputs'
    BY <1>10 DEF ReadBack, Fails, TriesLeft, Outputs, Ran, IInv, Fresh
  <2>2. OnlyHeads'
    BY <1>10 DEF ReadBack, Fails, TriesLeft, OnlyHeads, IInv, Fresh
  <2>3. Holds'
    BY <1>10 DEF ReadBack, Fails, TriesLeft, Holds
  <2>4. Watched'
    BY <1>10 DEF ReadBack, Fails, TriesLeft, Watched, Ran, IInv, Fresh
  <2> QED
    BY <2>1, <2>2, <2>3, <2>4
<1>11. ASSUME NEW t \in Threads, Settle(t) PROVE StandInv'
  <2>1. Outputs'
    BY <1>11 DEF Settle, settle, Go, Outputs, Ran, IInv, Fresh
  <2>2. OnlyHeads'
    BY <1>11 DEF Settle, settle, Go, OnlyHeads, IInv, Fresh
  <2>3. Holds'
    BY <1>11 DEF Settle, settle, Go, Holds
  <2>4. Watched'
    BY <1>11 DEF Settle, settle, Go, Watched, Ran, IInv, Fresh
  <2> QED
    BY <2>1, <2>2, <2>3, <2>4
<1>12. ASSUME NEW q \in DOMAIN owed, Look(q) PROVE StandInv'
  <2>1. Outputs'
    BY <1>12 DEF Look, Outputs, Ran, IInv, Fresh
  <2>2. OnlyHeads'
    BY <1>12 DEF Look, OnlyHeads, IInv, Fresh
  <2>3. Holds'
    BY <1>12 DEF Look, Holds
  <2>4. Watched'
    BY <1>12 DEF Look, Watched, Ran, IInv, Fresh
  <2> QED
    BY <2>1, <2>2, <2>3, <2>4
<1>13. CASE Crash
  BY <1>13 DEF Crash, Outputs, OnlyHeads, Holds, Watched, Ran
<1>14. CASE Restart
  BY <1>14 DEF Restart, Outputs, OnlyHeads, Holds, Watched, Ran, IInv, Dead
<1>15. ASSUME NEW h \in Heads, HeadGone(h) \/ HeadBack(h) PROVE StandInv'
  BY <1>15 DEF HeadGone, HeadBack, Outputs, OnlyHeads, Holds, Watched, Ran
<1>16. CASE UNCHANGED vars
  BY <1>16 DEF vars, Outputs, OnlyHeads, Holds, Watched, Ran
<1> QED
  BY <1>1, <1>2, <1>3, <1>4, <1>5, <1>6, <1>7, <1>8, <1>9, <1>10, <1>11, <1>12, <1>13, <1>14, <1>15, <1>16
     DEF Next, SessionStep, PassStep, LookStep

LEMMA Stands == Spec => [](TypeOK /\ IInv /\ AllInHand /\ StandInv)
<1>1. Init => StandInv
  BY DEF Init, StandInv, Outputs, OnlyHeads, Holds, Watched, Threads, Ran
<1> QED
  BY <1>1, Inductive, InEveryHand, StandStep, PTL DEF Spec

(* No teardown leaves the desk blank: as the last output of ours goes,     *)
(* every other session is gone, and a head that is dark has an entry that  *)
(* somebody still looks after or gave up on.                               *)
THEOREM TeardownLightsTheDesk == Spec => TeardownNeverBlank
<1> DEFINE Never == \A s \in Sessions :
                      pc[s] = "unplug" /\ pc'[s] = "idle" /\ outputs # {} => ~Blank'
<1>1. TypeOK /\ IInv /\ AllInHand /\ StandInv /\ [Next]_vars => [Never]_vars
  <2> SUFFICES ASSUME TypeOK, IInv, AllInHand, StandInv, Next, NEW s \in Sessions,
                      pc[s] = "unplug", pc'[s] = "idle", outputs # {}, Blank'
               PROVE  FALSE
    BY DEF vars, sess
  <2>1. Unplug(s) \/ Crash
    <3>1. \A r \in Sessions : Unplug(r) => r = s
      BY DEF Unplug, Go, TypeOK, PCs
    <3>2. \A r \in Sessions : ~(Create(r) \/ CreateFails(r) \/ (\E x \in BOOLEAN : ListHeads(r, x))
                                \/ JournalPlan(r) \/ Darken(r) \/ Leave(r))
      BY DEF Create, CreateFails, ListHeads, JournalPlan, Darken, Leave, Go, AfterPool, TypeOK, PCs
    <3>3. \A t \in Threads : ~PassStep(t)
      BY DEF PassStep, Undo, UndoRefused, ReadBack, Settle, Go, sess, TypeOK, PCs
    <3>4. ~LookStep /\ ~Restart /\ \A h \in Heads : ~(HeadGone(h) \/ HeadBack(h))
      BY DEF LookStep, Look, Restart, HeadGone, HeadBack, sess
    <3> QED
      BY <3>1, <3>2, <3>3, <3>4 DEF Next, SessionStep
  <2>2. CASE Crash
    BY <2>2 DEF Crash, desk, Blank
  <2>3. CASE Unplug(s)
    <3>1. /\ outputs' = outputs \ {out[s]} /\ outputs' = {}
          /\ journal' = {e \in journal : ~(e.kind = "output" /\ e.seq = out[s])}
          /\ kept' = kept
      BY <2>3 DEF Unplug, Blank
    <3>2. UNCHANGED <<lit, listed, owed, up, held, todo, cur, undone>>
      BY <2>3 DEF Unplug, pass
    <3>3. \A r \in Sessions : r # s => pc[r] = "idle"
      BY <3>1 DEF StandInv, Outputs
    <3>4. \A r \in Sessions : held[r] = {} /\ todo[r] = {} /\ cur[r] = None
      BY <3>3 DEF StandInv, Holds, IInv, Idle, TypeOK
    <3>5. up /\ todo[Reclaimer] = {} /\ cur[Reclaimer] = None
      BY DEF StandInv, Outputs, Ran, IInv, Dead, TypeOK
    <3>6. PICK h \in listed : ~lit[h]
      BY <3>2 DEF Blank
    <3>7. PICK e \in journal : h \in e.heads /\ \A t \in Threads : e.seq \notin undone[t]
      BY <3>6 DEF IInv, Covered, TypeOK
    <3>8. e.kind = "heads" /\ e.seq # None
      BY <3>7, JournalAssumption DEF IInv, Bare, TypeOK, Entry
    <3>9. InHand(e.seq)
      BY <3>5, <3>8 DEF AllInHand
    <3>10. e.seq \in kept \cup DOMAIN owed
      BY <3>4, <3>5, <3>7, <3>8, <3>9 DEF InHand, Threads, StandInv, Watched
    <3>11. e \in journal'
      BY <3>1, <3>8
    <3> QED
      BY <3>1, <3>2, <3>6, <3>7, <3>10, <3>11 DEF Blank
  <2> QED
    BY <2>1, <2>2, <2>3
<1> QED
  BY <1>1, Stands, PTL DEF Spec, TeardownNeverBlank
=============================================================================
