--------------------------- MODULE ClientRecovery ---------------------------
(* The client's half of loss recovery (punktfunk-core client/recovery.rs and   *)
(* reanchor.rs) as operators on records: the RFI asks and their one window, the *)
(* freeze gate, what is admitted to the decoder, and the feedback datagram.    *)
(* The hosts modelled here have no intra-refresh wave, so a mark never comes.  *)
EXTENDS Integers, FiniteSetsExt

CONSTANTS RfiThrottle, FreezeMax, DropCreditWindow, AskGiveUp,
          RfiMaxWidth   \* the longest range asked for as a range, RFI_MAX_RANGE on this end

ASSUME ClientAssumption ==
  /\ {RfiThrottle, DropCreditWindow, AskGiveUp, RfiMaxWidth} \subseteq Nat
  /\ FreezeMax \in Nat \ {0}

NoAsk    == [kind |-> "none", range |-> {}]
Keyframe == [kind |-> "keyframe", range |-> {}]
Rfi(S)   == [kind |-> "rfi", range |-> S]
Hull(S)  == IF S = {} THEN {} ELSE Min(S)..Max(S)

NewRfi  == [next |-> 0, request |-> -1000, pending |-> {}, asked |-> {}, anchored |-> 0]
NewGate == [awaiting |-> FALSE, deadline |-> 0, dropped |-> 0, credit |-> 0, expiry |-> 0]

(* ------------------------------------------------------------- RfiRecovery *)
window_open(r, now) == now - r.request >= RfiThrottle
widen(r, lost)      == [r EXCEPT !.pending = Hull(@ \union lost)]
unasked(r, lost)    == Hull(lost \ r.asked)

flush(r, now) ==
  IF r.pending # {} /\ window_open(r, now)
  THEN [r   |-> [r EXCEPT !.pending = {}, !.request = now],
        ask |-> IF Cardinality(r.pending) > RfiMaxWidth THEN Keyframe ELSE Rfi(r.pending)]
  ELSE [r |-> r, ask |-> NoAsk]

\* A frame in receive order: how far it jumped, or that it is behind (gap -1).
Jump(r, i) == IF r.next = 0 THEN 0 ELSE IF i < r.next THEN -1 ELSE i - r.next
Seen(r, i) ==
  LET lost == unasked(r, r.next .. i - 1)
  IN IF Jump(r, i) < 0 THEN r
     ELSE [(IF Jump(r, i) > 0 /\ r.anchored # i THEN widen(r, lost) ELSE r) EXCEPT !.next = i + 1]
observe(r, i, now) == flush(Seen(r, i), now)

tail_short(r, i, now) ==
  IF r.next > i \/ i \in r.asked THEN flush(r, now)
  ELSE flush(widen([r EXCEPT !.asked = @ \union {i}], {i}), now)

\* A keyframe through the one window.
keyframe(r, now) ==
  IF window_open(r, now) THEN [r |-> [r EXCEPT !.pending = {}, !.request = now], ask |-> Keyframe]
  ELSE [r |-> r, ask |-> NoAsk]

(* ------------------------------------------------------------ ReanchorGate *)
arm(g, now) == [g EXCEPT !.awaiting = TRUE, !.deadline = now + FreezeMax]
M_arm_uncredited(g, now, gap) == arm(g, now)
arm_expecting_drops(g, now, gap) ==
  [arm(g, now) EXCEPT !.credit = @ + gap, !.expiry = now + DropCreditWindow]

Climb(g, n)        == n - g.dropped
Credited(g, n, now) == IF now >= g.expiry THEN 0 ELSE Min({Climb(g, n), g.credit})
Booked(g, n, now) ==
  IF Climb(g, n) = 0 THEN g
  ELSE [g EXCEPT !.dropped = n, !.credit = IF now >= g.expiry THEN 0 ELSE @ - Credited(g, n, now)]
NewLoss(g, n, now) == Climb(g, n) > Credited(g, n, now)
M_never_overdue(g, n, now) == FALSE
Overdue(g, n, now) == ~NewLoss(g, n, now) /\ g.awaiting /\ now >= g.deadline
poll(g, n, now) ==
  IF NewLoss(g, n, now) \/ Overdue(g, n, now) THEN arm(Booked(g, n, now), now) ELSE Booked(g, n, now)

\* A decoded picture; damaged is the ledger's word, FALSE on a lane that has none.
lifts(f, damaged) == f.idr \/ (f.anchor /\ ~damaged)
on_decoded(g, f, damaged, now) ==
  IF lifts(f, damaged) THEN [g EXCEPT !.awaiting = FALSE]
  ELSE IF damaged /\ ~g.awaiting THEN arm(g, now) ELSE g

(* ------------------------------------------------- AuAdmission, FeedbackOut *)
withholds(w, gap, f) == (w \/ gap > 0) /\ ~f.idr /\ ~f.anchor

NewFeedback == [n |-> 0, open |-> NoAsk, after |-> 0, until |-> 0, newest |-> 0,
                prev |-> 0, clean |-> FALSE, acks |-> {}]

\* A new ask under a new number replaces the open one.
ask(o, a, now) == IF a = NoAsk THEN o
                  ELSE [o EXCEPT !.n = @ + 1, !.open = a, !.after = o.newest, !.until = now + AskGiveUp]
resend(o, now) == IF o.open # NoAsk /\ now >= o.until THEN [o EXCEPT !.open = NoAsk] ELSE o
stamp(o)       == [ask |-> IF o.open = NoAsk THEN 0 ELSE o.n, kind |-> o.open.kind,
                   range |-> o.open.range, acked |-> {}]
\* An acknowledgement never carries an ask.
Ack(S)         == [ask |-> 0, kind |-> "none", range |-> {}, acked |-> S]
Answers(o, f)  == o.open # NoAsk /\ f.i > o.after /\ (f.idr \/ (f.anchor /\ o.open.kind = "rfi"))
on_frame(o, f) == [o EXCEPT !.newest = Max({@, f.i}), !.open = IF Answers(o, f) THEN NoAsk ELSE @]

\* AckChain::decoded: the frames taken clean, the newest and the sixteen before it.
M_always_clean(o, f) == TRUE
TakenClean(o, f) == f.idr \/ f.anchor \/ (o.prev + 1 = f.i /\ o.clean)
taken(o, f) ==
  IF f.i <= o.prev THEN o
  ELSE [o EXCEPT !.prev = f.i, !.clean = TakenClean(o, f),
                 !.acks = IF TakenClean(o, f) THEN {a \in @ : f.i - a <= 16} \union {f.i} ELSE @]
=============================================================================
