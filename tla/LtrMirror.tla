----------------------------- MODULE LtrMirror -----------------------------
(* The mirror AMF and QSV keep of the hardware's two long-term slots           *)
(* (pf-encode-core/src/ltr.rs) with the policy it asks (rfi.rs).  A frame is    *)
(* named by its wire index, a positive number; NoFrame is an empty slot.       *)
EXTENDS Naturals, FiniteSetsExt

CONSTANTS LtrInterval,  \* frames between two marks
          LtrReach      \* LTR_ACKED_REACH: how far back a confirmed reference may be

ASSUME LtrAssumption == LtrInterval \in Nat \ {0} /\ LtrReach \in Nat

NoFrame == 0
NoSlot  == 2
Slots   == {0, 1}
Other(s) == 1 - s

NewMirror == [wire |-> [s \in Slots |-> NoFrame], tainted |-> [s \in Slots |-> FALSE],
              next |-> 0, force |-> NoSlot]

trusted(m, s)   == m.wire[s] # NoFrame /\ ~m.tainted[s]
trusted_view(m) == {s \in Slots : trusted(m, s)}
Newest(m, S)    == IF S = {} THEN NoSlot ELSE CHOOSE s \in S : \A t \in S : m.wire[t] <= m.wire[s]

\* A re-mark replaces the slot's picture and clears its taint.
M_mark_no_wrap(m, s, i) == [m EXCEPT !.wire[s] = i, !.tainted[s] = FALSE, !.next = s + 1]
mark(m, s, i) == [m EXCEPT !.wire[s] = i, !.tainted[s] = FALSE, !.next = Other(s)]
mark_slot(m)  == IF trusted(m, 0) /\ trusted(m, 1) THEN m.next
                 ELSE Min({s \in Slots : ~trusted(m, s)})

\* The slot a frame under a floor forces: the newest confirmed one within reach.
M_acked_any(m, floor, i) == Newest(m, {s \in trusted_view(m) : i - m.wire[s] <= LtrReach})
AckedSlot(m, floor, i) ==
  Newest(m, {s \in trusted_view(m) : m.wire[s] \in floor /\ i - m.wire[s] <= LtrReach})

\* A slot free for the mark of a frame under a floor.
Free(m, floor, i, f) ==
  {s \in Slots : ~trusted(m, s) \/ i - m.wire[s] > LtrReach
                 \/ (m.wire[s] <= Max(floor) /\ s # f)}

AckedMark(m, floor, i, keep) ==
  LET f    == AckedSlot(m, floor, i)
      free == Free(m, floor, i, f)
  IN IF f # NoSlot /\ ~keep THEN Other(f)
     ELSE IF m.next \in free THEN m.next ELSE IF free # {} THEN Other(m.next) ELSE NoSlot

\* One frame: the mirror after it, and the wire index it is forced onto (NoFrame when it
\* follows the chain or is an IDR).
StepIdr(i) == [m |-> mark(NewMirror, 0, i), ref |-> NoFrame]
StepAnchor(m, drop) ==
  [m   |-> [m EXCEPT !.force = NoSlot,
                     !.tainted = [s \in Slots |-> m.tainted[s] \/ (drop /\ s # m.force)]],
   ref |-> m.wire[m.force]]
StepAcked(m, floor, i, keep) ==
  LET f == AckedSlot(m, floor, i)
      s == AckedMark(m, floor, i, keep)
  IN [m |-> IF s = NoSlot THEN m ELSE mark(m, s, i), ref |-> IF f = NoSlot THEN NoFrame ELSE m.wire[f]]
StepChain(m, i) ==
  [m |-> IF i % LtrInterval = 0 THEN mark(m, mark_slot(m), i) ELSE m, ref |-> NoFrame]

step(m, idr, i, floor, keep, drop) ==
  LET calm == [m EXCEPT !.force = NoSlot]
  IN CASE idr                                         -> StepIdr(i)
       [] ~idr /\ m.force # NoSlot /\ trusted(m, m.force) -> StepAnchor(m, drop)
       [] OTHER -> IF floor # {} THEN StepAcked(calm, floor, i, keep) ELSE StepChain(calm, i)

\* A loss from frame first on: what it taints, and the anchor it queues.
Anchors(m, first, floor) ==
  {s \in trusted_view(m) : m.wire[s] < first /\ (floor = {} \/ m.wire[s] \in floor)}
invalidate(m, first, floor) ==
  [m EXCEPT !.tainted = [s \in Slots |-> m.tainted[s] \/ (trusted(m, s) /\ m.wire[s] >= first)],
            !.force   = Newest(m, Anchors(m, first, floor))]

distrust(m) == [m EXCEPT !.tainted = [s \in Slots |-> TRUE], !.force = NoSlot]
=============================================================================
