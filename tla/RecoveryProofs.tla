----------------------------- MODULE RecoveryProofs -----------------------------
(***************************************************************************)
(* Proofs about loss recovery end to end, for any horizon, any number of   *)
(* troubles, any length of the windows and cooldowns, and any sessions.    *)
(***************************************************************************)
EXTENDS Recovery, FiniteSetTheorems, SequenceTheorems, WellFoundedInduction, TLAPS

Ticks  == 1 .. Horizon
Frames == [i : 0 .. Horizon, idr : BOOLEAN, anchor : BOOLEAN, ref : Nat]
Asks   == [kind : {"none", "keyframe", "rfi"}, range : SUBSET Ticks]
Rfis   == [next : Nat, request : Int, pending : SUBSET Ticks, asked : SUBSET Nat, anchored : Nat]
Gates  == [awaiting : BOOLEAN, deadline : Nat, dropped : Nat, credit : Nat, expiry : Nat]
Feedbacks == [n : Nat, open : Asks, after : Nat, until : Nat, newest : Nat,
              prev : Nat, clean : BOOLEAN, acks : SUBSET Ticks]
Mirrors   == [wire : [Slots -> 0 .. Horizon], tainted : [Slots -> BOOLEAN],
              next : Slots, force : Slots \union {NoSlot}]
Hosts     == [ltr : Mirrors, idr : BOOLEAN, last_idr : Int, last_rfi : Int, request : Int,
              echoes : Nat, unhealed : Nat, ask : Nat, kf : BOOLEAN, rfi : SUBSET Ticks,
              acked : SUBSET Ticks, floor : SUBSET Ticks]
Datagrams == [ask : Nat, kind : {"none", "keyframe", "rfi"}, range : SUBSET Ticks,
              acked : SUBSET Ticks]

Typed ==
  /\ conf \in Confs /\ now \in 1 .. Horizon + 1 /\ pc \in {"host", "wire", "pump", "decode"}
  /\ pc # "host" => now <= Horizon
  /\ host \in Hosts /\ sent \in Frames
  /\ inbox \in Seq(Frames) /\ late \in Seq(Frames)
  /\ due \in SUBSET Nat /\ short \in 0 .. Horizon
  /\ rfi \in Rfis /\ gate \in Gates /\ withheld \in BOOLEAN /\ on_anchors \in BOOLEAN
  /\ fb \in Feedbacks /\ dropped \in Nat
  /\ clean \in SUBSET Ticks /\ shown \in {"none", "held", "clean", "damaged"}
  /\ used \in 0 .. MaxTroubles /\ trouble \in Nat

(* The frames that left the encoder and no decoder has had yet, and the    *)
(* newest frame that left the wire.                                        *)
Members(q) == {q[k] : k \in 1 .. Len(q)}
Transit == Members(inbox) \union Members(late)
Flying  == IF pc = "wire" THEN Transit \union {sent} ELSE Transit
Left    == IF pc \in {"host", "wire"} THEN now - 1 ELSE now

(* Of a tick's frames the newest goes up first, at most one lags behind,   *)
(* and the window of asks moves with the chain of acknowledgements.        *)
Flow ==
  /\ pc \in {"host", "wire"} => inbox = <<>>
  /\ Len(late) <= 1 /\ Len(inbox) <= 2 /\ (inbox = <<>> \/ late = <<>>)
  /\ Len(inbox) = 2 => inbox[2].i < inbox[1].i
  /\ \A f \in Transit : f.i \in 1 .. Left
  /\ pc = "wire" => sent.i = now
  /\ \A f \in Flying : IF f.idr THEN ~f.anchor ELSE f.anchor \/ f.ref = f.i - 1
  /\ fb.prev <= Left
  /\ rfi.next = IF fb.prev = 0 THEN 0 ELSE fb.prev + 1

(* The opening tick loses nothing.                                         *)
Fresh == /\ rfi.next = 0 /\ fb.acks = {} /\ host.acked = {}
Opening ==
  /\ now = 1 =>
       /\ due = {} /\ late = <<>> /\ short = NoFrame /\ used = 0 /\ dropped = 0
       /\ rfi.pending = {} /\ ~gate.awaiting /\ gate.credit = 0 /\ ~withheld
       /\ fb.open = NoAsk /\ host.rfi = {} /\ host.floor = {}
       /\ pc = "host" => host.idr
       /\ \A f \in Flying : f.idr
       /\ pc \in {"host", "wire", "pump"} => Fresh
       /\ pc = "pump" => inbox # <<>>
       /\ pc = "decode" => \/ inbox # <<>> /\ Fresh
                           \/ inbox = <<>> /\ rfi.next = 2 /\ (conf.floor => host.acked # {})
  /\ now >= 2 =>
       /\ rfi.next >= 2
       /\ conf.floor => host.acked # {}
       /\ conf.floor /\ host.floor = {} => now = 2 /\ pc = "host" /\ host.rfi = {}

Freeze == /\ pc = "decode" /\ gate.awaiting => now < gate.deadline
          /\ pc = "host" /\ gate.awaiting => now <= gate.deadline

(* Drops still to be booked of frames the decoder has seen the gap of: the *)
(* gate has a credit for each, and it lasts until the last is booked.      *)
Foreseen == {d \in due : d - DropLag < rfi.next}
Credits ==
  /\ gate.dropped = dropped
  /\ due \subseteq now .. Left + DropLag
  /\ pc = "decode" => now \notin due
  /\ \A f \in Flying : f.i + DropLag \notin due
  /\ \A d \in Foreseen : d < gate.expiry
  /\ Cardinality(Foreseen) <= gate.credit

(* What goes wrong pays for every drop and every credit.                   *)
Unseen == IF inbox # <<>> /\ inbox[1].i = now THEN now - 1 ELSE Left
Paid ==
  /\ dropped + Cardinality(due) <= used
  /\ gate.credit <= used
  /\ rfi.next > 0 => gate.credit + Unseen + 1 - rfi.next <= used

(* Fed without a hole, the decoder holds the picture before the next frame.*)
Chain ==
  /\ conf.ledger => ~withheld
  /\ conf.floor =>
       /\ fb.clean => ~withheld /\ fb.prev \in clean
       /\ ~conf.ledger /\ ~withheld /\ rfi.next > 0 => rfi.next - 1 \in clean
       /\ \A f \in Flying : f.anchor /\ f.i >= rfi.next => f.ref \in clean

(* Since the last IDR the host sent, what it marks is that IDR or newer,   *)
(* and what is acknowledged of that is whole.                              *)
Based(base) ==
  /\ \A s \in Slots : host.ltr.wire[s] = NoFrame \/ host.ltr.wire[s] >= base
  /\ \A f \in Flying : f.idr => f.i <= base
  /\ \A a \in host.acked \union host.floor \union fb.acks :
       a <= fb.prev /\ (a >= base => a \in clean)
Acked == /\ host.ltr.force = NoSlot
         /\ conf.floor => \E base \in 0 .. now : Based(base)

IInv == Typed /\ Flow /\ Opening /\ Freeze /\ Credits /\ Paid /\ Chain /\ Acked
-----------------------------------------------------------------------------
(* Least and greatest of a set of ticks.                                   *)
LEMMA Least ==
  ASSUME NEW S \in SUBSET Nat, S # {}
  PROVE  \E x \in S : \A y \in S : x <= y
<1>1. IsWellFoundedOn(OpToRel(<, Nat), Nat)
  BY NatLessThanWellFounded
<1>2. PICK x \in S : \A y \in S : ~(<<y, x>> \in OpToRel(<, Nat))
  BY <1>1, WFMin
<1>3. \A y \in S : ~(y < x)
  BY <1>2 DEF OpToRel
<1>4. QED
  BY <1>3

LEMMA MinTicks ==
  ASSUME NEW S \in SUBSET Ticks, S # {}
  PROVE  Min(S) \in S /\ \A y \in S : Min(S) <= y
<1>1. \E x \in S : \A y \in S : x <= y
  BY Least, RecoveryAssumption DEF Ticks
<1>2. QED
  BY <1>1 DEF Min

LEMMA MaxTicks ==
  ASSUME NEW S \in SUBSET Ticks, S # {}
  PROVE  Max(S) \in S /\ \A y \in S : Max(S) >= y
<1> DEFINE R == {Horizon - x : x \in S}
<1>0. Horizon \in Nat
  BY RecoveryAssumption
<1>1. R \in SUBSET Nat /\ R # {}
  <2>1. \A x \in S : Horizon - x \in Nat
    BY <1>0 DEF Ticks
  <2>2. QED
    BY <2>1
<1>2. PICK r \in R : \A y \in R : r <= y
  BY <1>1, Least
<1>3. PICK x \in S : r = Horizon - x
  BY <1>2
<1>4. \A y \in S : Horizon - y \in R
  OBVIOUS
<1>5. \A y \in S : x >= y
  BY <1>0, <1>2, <1>3, <1>4 DEF Ticks
<1>6. QED
  BY <1>5 DEF Max

LEMMA HullTicks ==
  ASSUME NEW S \in SUBSET Ticks
  PROVE  Hull(S) \in SUBSET Ticks /\ (S = {} => Hull(S) = {})
<1>1. CASE S = {}
  BY <1>1 DEF Hull
<1>2. CASE S # {}
  <2>1. Min(S) \in Ticks /\ Max(S) \in Ticks
    BY <1>2, MinTicks, MaxTicks
  <2>2. Min(S) .. Max(S) \in SUBSET Ticks
    BY <2>1, RecoveryAssumption DEF Ticks
  <2>3. QED
    BY <1>2, <2>2 DEF Hull
<1>3. QED
  BY <1>1, <1>2
-----------------------------------------------------------------------------
(* The window of asks: only a frame moves it on, and nothing lost asks     *)
(* nothing.                                                                *)
LEMMA AskTypes == NoAsk \in Asks /\ Keyframe \in Asks /\ \A S \in SUBSET Ticks : Rfi(S) \in Asks
  BY DEF Asks, NoAsk, Keyframe, Rfi

LEMMA AskedType ==
  ASSUME NEW r \in Rfis, NEW t \in Nat
  PROVE  /\ [r EXCEPT !.pending = {}, !.request = t] \in Rfis
         /\ [r EXCEPT !.pending = {}, !.request = t].next = r.next
<1>1. t \in Int /\ {} \in SUBSET Ticks
  OBVIOUS
<1>2. QED
  BY <1>1 DEF Rfis

LEMMA FlushType ==
  ASSUME NEW r \in Rfis, NEW t \in Nat
  PROVE  /\ flush(r, t).r \in Rfis /\ flush(r, t).ask \in Asks
         /\ flush(r, t).r.next = r.next
         /\ r.pending = {} => flush(r, t).r = r /\ flush(r, t).ask = NoAsk
<1> DEFINE q == [r EXCEPT !.pending = {}, !.request = t]
<1>1. q \in Rfis /\ q.next = r.next
  BY AskedType
<1>2. Keyframe \in Asks /\ Rfi(r.pending) \in Asks /\ NoAsk \in Asks
  BY AskTypes DEF Rfis
<1> HIDE DEF q
<1>3. CASE r.pending # {} /\ window_open(r, t)
  BY <1>1, <1>2, <1>3 DEF flush, q
<1>4. CASE ~(r.pending # {} /\ window_open(r, t))
  BY <1>2, <1>4 DEF flush
<1>5. QED
  BY <1>3, <1>4

LEMMA WidenType ==
  ASSUME NEW r \in Rfis, NEW S \in SUBSET Ticks
  PROVE  widen(r, S) \in Rfis /\ widen(r, S).next = r.next
<1>1. Hull(r.pending \union S) \in SUBSET Ticks
  BY HullTicks DEF Rfis
<1>2. QED
  BY <1>1 DEF widen, Rfis

LEMMA SeenType ==
  ASSUME NEW r \in Rfis, NEW i \in Ticks
  PROVE  /\ Seen(r, i) \in Rfis
         /\ Seen(r, i).next = IF Jump(r, i) < 0 THEN r.next ELSE i + 1
         /\ Jump(r, i) = 0 => Seen(r, i).pending = r.pending
<1> DEFINE gone == (r.next .. i - 1) \ r.asked
           lost == unasked(r, r.next .. i - 1)
           q    == IF Jump(r, i) > 0 /\ r.anchored # i THEN widen(r, lost) ELSE r
<1>1. ASSUME Jump(r, i) > 0
      PROVE  lost \in SUBSET Ticks
  <2>1. gone \in SUBSET Ticks
    BY <1>1, RecoveryAssumption DEF Jump, Ticks, Rfis
  <2>2. QED
    BY <2>1, HullTicks DEF unasked
<1>2. q \in Rfis /\ q.next = r.next
  BY <1>1, WidenType
<1>3. Jump(r, i) = 0 => q = r
  OBVIOUS
<1>4. Seen(r, i) = IF Jump(r, i) < 0 THEN r ELSE [q EXCEPT !.next = i + 1]
  BY DEF Seen
<1>5. i + 1 \in Nat
  BY DEF Ticks
<1> HIDE DEF q, lost
<1>6. Seen(r, i) \in Rfis
  BY <1>2, <1>4, <1>5 DEF Rfis
<1>7. Seen(r, i).next = IF Jump(r, i) < 0 THEN r.next ELSE i + 1
  BY <1>2, <1>4 DEF Rfis
<1>8. Jump(r, i) = 0 => Seen(r, i).pending = r.pending
  BY <1>2, <1>3, <1>4 DEF Rfis
<1>9. QED
  BY <1>6, <1>7, <1>8

LEMMA ObserveType ==
  ASSUME NEW r \in Rfis, NEW i \in Ticks, NEW t \in Nat
  PROVE  /\ observe(r, i, t).r \in Rfis /\ observe(r, i, t).ask \in Asks
         /\ observe(r, i, t).r.next = IF Jump(r, i) < 0 THEN r.next ELSE i + 1
         /\ Jump(r, i) = 0 /\ r.pending = {} =>
              observe(r, i, t).r.pending = {} /\ observe(r, i, t).ask = NoAsk
  BY SeenType, FlushType DEF observe

LEMMA KeyframeType ==
  ASSUME NEW r \in Rfis, NEW t \in Nat
  PROVE  /\ keyframe(r, t).r \in Rfis /\ keyframe(r, t).ask \in Asks
         /\ keyframe(r, t).r.next = r.next
<1>1. CASE window_open(r, t)
  BY <1>1, AskTypes, AskedType DEF keyframe
<1>2. CASE ~window_open(r, t)
  BY <1>2, AskTypes DEF keyframe
<1>3. QED
  BY <1>1, <1>2

LEMMA TailShortType ==
  ASSUME NEW r \in Rfis, NEW i \in Ticks, NEW t \in Nat
  PROVE  /\ tail_short(r, i, t).r \in Rfis /\ tail_short(r, i, t).ask \in Asks
         /\ tail_short(r, i, t).r.next = r.next
<1> DEFINE q == [r EXCEPT !.asked = @ \union {i}]
<1>1. q \in Rfis /\ q.next = r.next
  BY DEF Rfis, Ticks
<1>2. widen(q, {i}) \in Rfis /\ widen(q, {i}).next = r.next
  BY <1>1, WidenType
<1> HIDE DEF q
<1>3. CASE r.next > i \/ i \in r.asked
  BY <1>3, FlushType DEF tail_short
<1>4. CASE ~(r.next > i \/ i \in r.asked)
  <2>1. tail_short(r, i, t) = flush(widen(q, {i}), t)
    BY <1>4 DEF tail_short, q
  <2>2. QED
    BY <1>2, <2>1, FlushType
<1>5. QED
  BY <1>3, <1>4
-----------------------------------------------------------------------------
(* The feedback datagram: what it says of asks, and of what was decoded.   *)
LEMMA AskType ==
  ASSUME NEW o \in Feedbacks, NEW a \in Asks, NEW t \in Nat
  PROVE  /\ ask(o, a, t) \in Feedbacks
         /\ ask(o, a, t).prev = o.prev /\ ask(o, a, t).clean = o.clean
         /\ ask(o, a, t).acks = o.acks
<1>1. t + AskGiveUp \in Nat /\ o.n + 1 \in Nat
  BY ClientAssumption DEF Feedbacks
<1>2. QED
  BY <1>1 DEF ask, Feedbacks

LEMMA ResendType ==
  ASSUME NEW o \in Feedbacks, NEW t \in Nat
  PROVE  /\ resend(o, t) \in Feedbacks
         /\ resend(o, t).prev = o.prev /\ resend(o, t).clean = o.clean
         /\ resend(o, t).acks = o.acks
         /\ o.open = NoAsk => resend(o, t).open = NoAsk
  BY AskTypes DEF resend, Feedbacks

LEMMA StampType ==
  ASSUME NEW o \in Feedbacks
  PROVE  /\ stamp(o) \in Datagrams /\ stamp(o).acked = {}
         /\ o.open = NoAsk => stamp(o).ask = 0
<1>1. o.open.kind \in {"none", "keyframe", "rfi"} /\ o.open.range \in SUBSET Ticks
  BY DEF Feedbacks, Asks
<1>2. QED
  BY <1>1 DEF stamp, Feedbacks, Datagrams

LEMMA AckType ==
  ASSUME NEW S \in SUBSET Ticks
  PROVE  Ack(S) \in Datagrams /\ Ack(S).ask = 0 /\ Ack(S).acked = S
  BY DEF Ack, Datagrams

LEMMA OnFrameType ==
  ASSUME NEW o \in Feedbacks, NEW f \in Frames
  PROVE  /\ on_frame(o, f) \in Feedbacks
         /\ on_frame(o, f).prev = o.prev /\ on_frame(o, f).clean = o.clean
         /\ on_frame(o, f).acks = o.acks
         /\ o.open = NoAsk => on_frame(o, f).open = NoAsk
<1>1. Max({o.newest, f.i}) \in Nat
  BY RecoveryAssumption DEF Max, Feedbacks, Frames
<1>2. QED
  BY <1>1, AskTypes DEF on_frame, Feedbacks

(* A frame behind the newest one changes nothing.                          *)
LEMMA TakenType ==
  ASSUME NEW o \in Feedbacks, NEW f \in Frames, f.i \in Ticks
  PROVE  /\ taken(o, f) \in Feedbacks /\ taken(o, f).open = o.open
         /\ f.i <= o.prev => taken(o, f) = o
         /\ f.i > o.prev =>
              /\ taken(o, f).prev = f.i
              /\ taken(o, f).clean <=> TakenClean(o, f)
              /\ ~TakenClean(o, f) => taken(o, f).acks = o.acks
              /\ TakenClean(o, f) => /\ taken(o, f).acks \subseteq o.acks \union {f.i}
                                     /\ f.i \in taken(o, f).acks
<1> DEFINE kept == {a \in o.acks : f.i - a <= 16} \union {f.i}
           c == TakenClean(o, f)
<1>1. kept \in SUBSET Ticks /\ kept \subseteq o.acks \union {f.i} /\ f.i \in kept
  BY DEF Feedbacks
<1>2. c \in BOOLEAN
  BY DEF TakenClean, Frames, Feedbacks
<1>3. f.i \in Nat
  BY DEF Ticks
<1>4. taken(o, f) = IF f.i <= o.prev THEN o
                    ELSE [o EXCEPT !.prev = f.i, !.clean = c, !.acks = IF c THEN kept ELSE @]
  BY DEF taken
<1> HIDE DEF kept, c
<1>5. CASE f.i <= o.prev
  BY <1>3, <1>4, <1>5 DEF Feedbacks
<1>6. CASE f.i > o.prev
  <2>1. taken(o, f) = [o EXCEPT !.prev = f.i, !.clean = c, !.acks = IF c THEN kept ELSE @]
    BY <1>3, <1>4, <1>6 DEF Feedbacks
  <2>2. /\ taken(o, f) \in Feedbacks /\ taken(o, f).open = o.open
        /\ taken(o, f).prev = f.i /\ taken(o, f).clean = c
        /\ taken(o, f).acks = IF c THEN kept ELSE o.acks
    BY <1>1, <1>2, <1>3, <2>1 DEF Feedbacks
  <2>3. QED
    BY <1>1, <1>3, <1>6, <2>2 DEF c, Feedbacks
<1>7. QED
  BY <1>3, <1>5, <1>6 DEF Feedbacks

LEMMA OnFeedbackType ==
  ASSUME NEW h \in Hosts, NEW d \in Datagrams
  PROVE  /\ on_feedback(h, d) \in Hosts
         /\ on_feedback(h, d).ltr = h.ltr /\ on_feedback(h, d).floor = h.floor
         /\ on_feedback(h, d).idr = h.idr
         /\ on_feedback(h, d).acked = IF d.acked = {} THEN h.acked ELSE d.acked
         /\ d.ask = 0 => on_feedback(h, d).rfi = h.rfi
<1> DEFINE new == d.ask > h.ask
           kf  == h.kf \/ (new /\ d.kind = "keyframe")
           ra  == IF new /\ d.kind = "rfi" THEN h.rfi \union d.range ELSE h.rfi
           ac  == IF d.acked = {} THEN h.acked ELSE d.acked
           an  == IF new THEN d.ask ELSE h.ask
<1>1. kf \in BOOLEAN /\ ra \in SUBSET Ticks /\ ac \in SUBSET Ticks /\ an \in Nat
  BY DEF Hosts, Datagrams
<1>2. d.ask = 0 => ra = h.rfi
  BY DEF Hosts
<1>3. on_feedback(h, d) = [h EXCEPT !.acked = ac, !.ask = an, !.kf = kf, !.rfi = ra]
  BY DEF on_feedback
<1> HIDE DEF kf, ra, ac, an
<1>4. on_feedback(h, d) \in Hosts
  BY <1>1, <1>3 DEF Hosts
<1>5. /\ on_feedback(h, d).ltr = h.ltr /\ on_feedback(h, d).floor = h.floor
      /\ on_feedback(h, d).idr = h.idr /\ on_feedback(h, d).acked = ac
      /\ on_feedback(h, d).rfi = ra
  BY <1>3 DEF Hosts
<1>6. QED
  BY <1>2, <1>4, <1>5 DEF ac
-----------------------------------------------------------------------------
(* The freeze.                                                             *)
LEMMA ArmType ==
  ASSUME NEW g \in Gates, NEW t \in Nat
  PROVE  /\ arm(g, t) \in Gates /\ arm(g, t).awaiting /\ arm(g, t).deadline = t + FreezeMax
         /\ arm(g, t).dropped = g.dropped /\ arm(g, t).credit = g.credit
         /\ arm(g, t).expiry = g.expiry
<1>1. t + FreezeMax \in Nat
  BY ClientAssumption
<1>2. QED
  BY <1>1 DEF arm, Gates

LEMMA ArmExpectingType ==
  ASSUME NEW g \in Gates, NEW t \in Nat, NEW k \in Nat
  PROVE  /\ arm_expecting_drops(g, t, k) \in Gates /\ arm_expecting_drops(g, t, k).awaiting
         /\ arm_expecting_drops(g, t, k).deadline = t + FreezeMax
         /\ arm_expecting_drops(g, t, k).dropped = g.dropped
         /\ arm_expecting_drops(g, t, k).credit = g.credit + k
         /\ arm_expecting_drops(g, t, k).expiry = t + DropCreditWindow
<1> DEFINE a == arm(g, t)
           c == g.credit + k
<1>1. t + DropCreditWindow \in Nat /\ c \in Nat
  BY ClientAssumption DEF Gates
<1>2. /\ a \in Gates /\ a.awaiting /\ a.deadline = t + FreezeMax
      /\ a.dropped = g.dropped /\ a.credit = g.credit
  BY ArmType
<1>3. arm_expecting_drops(g, t, k) = [a EXCEPT !.credit = c, !.expiry = t + DropCreditWindow]
  BY <1>2 DEF arm_expecting_drops
<1> HIDE DEF a
<1>4. QED
  BY <1>1, <1>2, <1>3 DEF Gates

DecodedTo(g, f, damaged, t, r) ==
  /\ r \in Gates /\ r.dropped = g.dropped /\ r.credit = g.credit /\ r.expiry = g.expiry
  /\ r.awaiting => \/ r.deadline = t + FreezeMax
                   \/ g.awaiting /\ r.deadline = g.deadline
  /\ damaged /\ ~f.idr => r.awaiting
  /\ f.idr => ~r.awaiting

LEMMA OnDecodedType ==
  ASSUME NEW g \in Gates, NEW f, NEW damaged, NEW t \in Nat
  PROVE  DecodedTo(g, f, damaged, t, on_decoded(g, f, damaged, t))
<1> USE DEF DecodedTo
<1>1. CASE lifts(f, damaged)
  BY <1>1 DEF on_decoded, Gates, lifts
<1>2. CASE ~lifts(f, damaged)
  <2>1. ~f.idr
    BY <1>2 DEF lifts
  <2>2. QED
    BY <1>2, <2>1, ArmType DEF on_decoded, Gates
<1>3. QED
  BY <1>1, <1>2

(* A booked drop spends a credit it finds.                                 *)
LEMMA PollType ==
  ASSUME NEW g \in Gates, NEW n \in Nat, NEW t \in Nat, n \in {g.dropped, g.dropped + 1}
  PROVE  /\ poll(g, n, t) \in Gates /\ poll(g, n, t).dropped = n
         /\ poll(g, n, t).expiry = g.expiry /\ poll(g, n, t).credit <= g.credit
         /\ n = g.dropped => poll(g, n, t).credit = g.credit /\ ~NewLoss(g, n, t)
         /\ n = g.dropped + 1 /\ t < g.expiry /\ g.credit > 0 =>
              poll(g, n, t).credit = g.credit - 1 /\ ~NewLoss(g, n, t)
         /\ n = g.dropped + 1 /\ t < g.expiry => poll(g, n, t).credit >= g.credit - 1
         /\ poll(g, n, t).awaiting => t < poll(g, n, t).deadline
         /\ ~g.awaiting /\ ~NewLoss(g, n, t) => ~poll(g, n, t).awaiting
<1> DEFINE c == Credited(g, n, t)
           left == IF t >= g.expiry THEN 0 ELSE g.credit - c
           b == Booked(g, n, t)
<1>1. /\ c \in Nat /\ c <= g.credit /\ left \in Nat /\ left <= g.credit
      /\ n = g.dropped => c = 0
      /\ n = g.dropped + 1 /\ t < g.expiry /\ g.credit > 0 => c = 1
      /\ t < g.expiry => left >= g.credit - 1
      /\ n = g.dropped + 1 /\ t < g.expiry /\ g.credit > 0 => left = g.credit - 1
  BY DEF Credited, Climb, Min, Gates
<1>2. NewLoss(g, n, t) <=> n - g.dropped > c
  BY DEF NewLoss, Climb
<1> HIDE DEF c
<1>3. /\ b \in Gates /\ b.dropped = n /\ b.expiry = g.expiry /\ b.credit <= g.credit
      /\ b.awaiting = g.awaiting /\ b.deadline = g.deadline
      /\ b.credit = IF n = g.dropped THEN g.credit ELSE left
  <2>1. CASE n = g.dropped
    BY <2>1 DEF Booked, Climb, Gates
  <2>2. CASE n = g.dropped + 1
    <3>1. b = [g EXCEPT !.dropped = n, !.credit = left]
      BY <2>2 DEF Booked, Climb, Gates, c
    <3>2. left \in Nat /\ left <= g.credit /\ n # g.dropped
      BY <1>1, <2>2 DEF Gates
    <3> HIDE DEF b, left
    <3>3. b \in Gates
      BY <3>1, <3>2 DEF Gates
    <3>4. /\ b.dropped = n /\ b.expiry = g.expiry /\ b.credit = left
          /\ b.awaiting = g.awaiting /\ b.deadline = g.deadline
      BY <3>1 DEF Gates
    <3>5. QED
      BY <3>2, <3>3, <3>4
  <2>3. QED
    BY <2>1, <2>2
<1>4. poll(g, n, t) = IF NewLoss(g, n, t) \/ Overdue(g, n, t) THEN arm(b, t) ELSE b
  BY DEF poll
<1> HIDE DEF b
<1>5. CASE NewLoss(g, n, t) \/ Overdue(g, n, t)
  <2>1. /\ poll(g, n, t) \in Gates /\ poll(g, n, t).deadline = t + FreezeMax
        /\ poll(g, n, t).dropped = n /\ poll(g, n, t).credit = b.credit
        /\ poll(g, n, t).expiry = g.expiry
    BY <1>3, <1>4, <1>5, ArmType
  <2>2. t < t + FreezeMax
    BY ClientAssumption
  <2>3. ~NewLoss(g, n, t) => g.awaiting
    BY <1>5 DEF Overdue
  <2>4. b.credit <= g.credit /\ (n = g.dropped => b.credit = g.credit /\ ~NewLoss(g, n, t))
    BY <1>1, <1>2, <1>3 DEF Gates
  <2>5. n = g.dropped + 1 /\ t < g.expiry /\ g.credit > 0 =>
          b.credit = g.credit - 1 /\ ~NewLoss(g, n, t)
    BY <1>1, <1>2, <1>3 DEF Gates
  <2>6. n = g.dropped + 1 /\ t < g.expiry => b.credit >= g.credit - 1
    BY <1>1, <1>3 DEF Gates
  <2>7. QED
    BY <2>1, <2>2, <2>3, <2>4, <2>5, <2>6
<1>6. CASE ~(NewLoss(g, n, t) \/ Overdue(g, n, t))
  BY <1>1, <1>2, <1>3, <1>4, <1>6 DEF Overdue, Gates
<1>7. QED
  BY <1>5, <1>6
-----------------------------------------------------------------------------
(* The mirror of the long-term slots.  Only the frame itself is marked, and*)
(* what a frame leans on is a slot's picture: the one forced by a loss, or *)
(* one of the floor.                                                       *)
LEMMA MarkType ==
  ASSUME NEW m \in Mirrors, NEW s \in Slots, NEW i \in Ticks
  PROVE  /\ mark(m, s, i) \in Mirrors /\ mark(m, s, i).force = m.force
         /\ \A t \in Slots : mark(m, s, i).wire[t] \in {m.wire[t], i}
<1>1. i \in 0 .. Horizon /\ Other(s) \in Slots
  BY DEF Ticks, Other, Slots
<1>2. QED
  BY <1>1 DEF mark, Mirrors

LEMMA NewestIn ==
  ASSUME NEW m \in Mirrors, NEW S \in SUBSET Slots
  PROVE  IF S = {} THEN Newest(m, S) = NoSlot ELSE Newest(m, S) \in S
<1>1. \A s \in Slots : m.wire[s] \in Nat
  BY RecoveryAssumption DEF Mirrors
<1>2. ASSUME S # {}
      PROVE  \E s \in S : \A t \in S : m.wire[t] <= m.wire[s]
  BY <1>1, <1>2 DEF Slots
<1>3. QED
  BY <1>2 DEF Newest

LEMMA AckedSlotType ==
  ASSUME NEW m \in Mirrors, NEW floor, NEW i
  PROVE  LET s == AckedSlot(m, floor, i)
         IN  s \in Slots \union {NoSlot}
             /\ (s # NoSlot => s \in Slots /\ m.wire[s] \in floor)
<1> DEFINE S == {s \in trusted_view(m) : m.wire[s] \in floor /\ i - m.wire[s] <= LtrReach}
<1>1. S \in SUBSET Slots /\ \A s \in S : m.wire[s] \in floor
  BY DEF trusted_view
<1>2. AckedSlot(m, floor, i) = Newest(m, S)
  BY DEF AckedSlot
<1> HIDE DEF S
<1>3. QED
  BY <1>1, <1>2, NewestIn

LEMMA AckedMarkType ==
  ASSUME NEW m \in Mirrors, NEW floor, NEW i, NEW keep
  PROVE  AckedMark(m, floor, i, keep) \in Slots \union {NoSlot}
<1>1. AckedSlot(m, floor, i) \in Slots \union {NoSlot}
  BY AckedSlotType
<1>2. m.next \in Slots /\ \A s \in Slots : Other(s) \in Slots
  BY DEF Mirrors, Other, Slots
<1>3. QED
  BY <1>1, <1>2 DEF AckedMark

LEMMA MarkSlotType ==
  ASSUME NEW m \in Mirrors
  PROVE  mark_slot(m) \in Slots
<1> DEFINE S == {s \in Slots : ~trusted(m, s)}
<1>1. CASE trusted(m, 0) /\ trusted(m, 1)
  BY <1>1 DEF mark_slot, Mirrors
<1>2. CASE ~(trusted(m, 0) /\ trusted(m, 1))
  <2>1. S # {} /\ S \subseteq {0, 1}
    BY <1>2 DEF Slots
  <2>2. \E x \in S : \A y \in S : x <= y
    BY <2>1
  <2>3. Min(S) \in S
    BY <2>2 DEF Min
  <2>4. QED
    BY <1>2, <2>3 DEF mark_slot
<1>3. QED
  BY <1>1, <1>2

LEMMA BlankMirror == NewMirror \in Mirrors /\ NewMirror.force = NoSlot
                     /\ \A s \in Slots : NewMirror.wire[s] = NoFrame
  BY RecoveryAssumption DEF NewMirror, Mirrors, NoFrame, Slots

SteppedFrom(m, idr, i, floor, r) ==
  /\ r.m \in Mirrors /\ r.m.force = NoSlot /\ r.ref \in 0 .. Horizon
  /\ \A s \in Slots : r.m.wire[s] \in {NoFrame, m.wire[s], i}
  /\ idr = TRUE => r.ref = NoFrame /\ \A s \in Slots : r.m.wire[s] \in {NoFrame, i}
  /\ r.ref # NoFrame => \E s \in Slots : /\ r.ref = m.wire[s]
                                         /\ s = m.force \/ m.wire[s] \in floor

LEMMA StepType ==
  ASSUME NEW m \in Mirrors, NEW idr, NEW i \in Ticks, NEW floor, NEW keep, NEW drop,
         NEW r, r = step(m, idr, i, floor, keep, drop)
  PROVE  SteppedFrom(m, idr, i, floor, r)
<1> USE DEF SteppedFrom
<1> DEFINE calm == [m EXCEPT !.force = NoSlot]
<1>1. calm \in Mirrors /\ calm.force = NoSlot /\ calm.wire = m.wire
  BY DEF Mirrors
<1>2. NoFrame \in 0 .. Horizon /\ \A s \in Slots : m.wire[s] \in 0 .. Horizon
  BY RecoveryAssumption DEF NoFrame, Mirrors
<1> HIDE DEF calm
<1>3. CASE idr
  <2>1. r = StepIdr(i)
    BY <1>3 DEF step
  <2>2. 0 \in Slots
    BY DEF Slots
  <2>3. r.m = mark(NewMirror, 0, i) /\ r.ref = NoFrame
    BY <2>1 DEF StepIdr
  <2>4. r.m \in Mirrors /\ r.m.force = NoSlot /\ \A s \in Slots : r.m.wire[s] \in {NoFrame, i}
    <3>1. NewMirror \in Mirrors /\ NewMirror.force = NoSlot
      BY BlankMirror
    <3>2. /\ mark(NewMirror, 0, i) \in Mirrors
          /\ mark(NewMirror, 0, i).force = NewMirror.force
          /\ \A s \in Slots : mark(NewMirror, 0, i).wire[s] \in {NewMirror.wire[s], i}
      BY <2>2, <3>1, MarkType
    <3>3. QED
      BY <2>3, <3>1, <3>2, BlankMirror
  <2>5. QED
    BY <1>2, <1>3, <2>3, <2>4
<1>4. CASE ~idr /\ m.force # NoSlot /\ trusted(m, m.force)
  <2> DEFINE t == [s \in Slots |-> m.tainted[s] \/ (drop /\ s # m.force)]
             w == [m EXCEPT !.force = NoSlot, !.tainted = t]
  <2>1. r = StepAnchor(m, drop)
    BY <1>4 DEF step
  <2>2. r.m = w /\ r.ref = m.wire[m.force]
    BY <2>1 DEF StepAnchor
  <2>3. t \in [Slots -> BOOLEAN]
    <3>1. \A s \in Slots : (m.tainted[s] \/ (drop /\ s # m.force)) \in BOOLEAN
      OBVIOUS
    <3>2. QED
      BY <3>1
  <2>4. m.force \in Slots
    BY <1>4 DEF Mirrors
  <2> HIDE DEF t
  <2>5. w \in Mirrors /\ w.force = NoSlot /\ w.wire = m.wire
    BY <2>3 DEF Mirrors
  <2>6. QED
    BY <1>2, <1>4, <2>2, <2>4, <2>5
<1>5. CASE ~idr /\ ~(m.force # NoSlot /\ trusted(m, m.force)) /\ floor # {}
  <2> DEFINE f == AckedSlot(calm, floor, i)
             k == AckedMark(calm, floor, i, keep)
  <2>1. r = StepAcked(calm, floor, i, keep)
    BY <1>5 DEF step, calm
  <2>2. /\ r.m = IF k = NoSlot THEN calm ELSE mark(calm, k, i)
        /\ r.ref = IF f = NoSlot THEN NoFrame ELSE calm.wire[f]
    BY <2>1 DEF StepAcked
  <2>3. /\ k \in Slots \union {NoSlot} /\ f \in Slots \union {NoSlot}
        /\ f # NoSlot => f \in Slots /\ calm.wire[f] \in floor
    BY <1>1, AckedMarkType, AckedSlotType
  <2> HIDE DEF f, k
  <2>4. r.m \in Mirrors /\ r.m.force = NoSlot /\ \A s \in Slots : r.m.wire[s] \in {m.wire[s], i}
    BY <1>1, <2>2, <2>3, MarkType
  <2>5. /\ r.ref \in 0 .. Horizon
        /\ r.ref # NoFrame => \E s \in Slots : r.ref = m.wire[s] /\ m.wire[s] \in floor
    BY <1>1, <1>2, <2>2, <2>3
  <2>6. QED
    BY <1>5, <2>4, <2>5
<1>6. CASE ~idr /\ ~(m.force # NoSlot /\ trusted(m, m.force)) /\ floor = {}
  <2>1. r = StepChain(calm, i)
    BY <1>6 DEF step, calm
  <2>2. /\ r.m = calm \/ r.m = mark(calm, mark_slot(calm), i)
        /\ r.ref = NoFrame
    BY <2>1 DEF StepChain
  <2>3. /\ mark(calm, mark_slot(calm), i) \in Mirrors
        /\ mark(calm, mark_slot(calm), i).force = calm.force
        /\ \A s \in Slots : mark(calm, mark_slot(calm), i).wire[s] \in {calm.wire[s], i}
    <3>1. mark_slot(calm) \in Slots
      BY <1>1, MarkSlotType
    <3>2. QED
      BY <1>1, <3>1, MarkType
  <2>4. r.m \in Mirrors /\ r.m.force = NoSlot /\ \A s \in Slots : r.m.wire[s] \in {m.wire[s], i}
    BY <1>1, <2>2, <2>3
  <2>5. QED
    BY <1>2, <1>6, <2>2, <2>4
<1>7. QED
  BY <1>3, <1>4, <1>5, <1>6

LEMMA InvalidateType ==
  ASSUME NEW m \in Mirrors, NEW first, NEW floor
  PROVE  LET r == invalidate(m, first, floor)
         IN  /\ r \in Mirrors /\ r.wire = m.wire
             /\ r.force # NoSlot => r.force \in Slots /\ (floor = {} \/ m.wire[r.force] \in floor)
<1> DEFINE S == Anchors(m, first, floor)
           t == [s \in Slots |-> m.tainted[s] \/ (trusted(m, s) /\ m.wire[s] >= first)]
           f == Newest(m, S)
<1>1. S \in SUBSET Slots /\ \A s \in S : floor = {} \/ m.wire[s] \in floor
  BY DEF Anchors, trusted_view
<1>2. f \in Slots \union {NoSlot} /\ (f # NoSlot => f \in S)
  BY <1>1, NewestIn
<1>3. t \in [Slots -> BOOLEAN]
  <2>1. \A s \in Slots : (m.tainted[s] \/ (trusted(m, s) /\ m.wire[s] >= first)) \in BOOLEAN
    OBVIOUS
  <2>2. QED
    BY <2>1
<1>4. invalidate(m, first, floor) = [m EXCEPT !.tainted = t, !.force = f]
  BY DEF invalidate
<1> HIDE DEF S, t, f
<1>5. QED
  BY <1>1, <1>2, <1>3, <1>4 DEF Mirrors

LEMMA DistrustType ==
  ASSUME NEW m \in Mirrors
  PROVE  distrust(m) \in Mirrors /\ distrust(m).wire = m.wire /\ distrust(m).force = NoSlot
  BY DEF distrust, Mirrors
-----------------------------------------------------------------------------
(* The host's answer to a loss marks nothing, acknowledges nothing, and    *)
(* forces a slot only for an ask with a range, onto the last floor.        *)
LEMMA EpisodeType ==
  ASSUME NEW h \in Hosts, NEW t \in Nat
  PROVE  /\ Episode(h, t) \in Hosts /\ Episode(h, t).ltr = h.ltr
         /\ Episode(h, t).acked = h.acked /\ Episode(h, t).floor = h.floor
         /\ Episode(h, t).idr = h.idr /\ Episode(h, t).rfi = h.rfi
<1>1. CASE Within(h.request, t, EpisodeReset + 1)
  BY <1>1 DEF Episode
<1>2. CASE ~Within(h.request, t, EpisodeReset + 1)
  <2>1. Never \in Int /\ 0 \in Nat
    BY DEF Never
  <2>2. QED
    BY <1>2, <2>1 DEF Episode, Hosts
<1>3. QED
  BY <1>1, <1>2

LEMMA ForceKeyframeType ==
  ASSUME NEW h \in Hosts, NEW t \in Nat, NEW declined \in BOOLEAN
  PROVE  LET r == force_keyframe(h, t, declined)
         IN  /\ r \in Hosts /\ r.acked = h.acked /\ r.floor = h.floor
             /\ r.ltr.wire = h.ltr.wire /\ r.ltr.force \in {h.ltr.force, NoSlot}
             /\ r.rfi = h.rfi /\ (h.idr => r.idr)
<1> DEFINE e == Episode(h, t)
           q == [e EXCEPT !.request = t]
           l == IF e.echoes > 0 THEN distrust(q.ltr) ELSE q.ltr
           u == IF Missed(e) THEN q.unhealed + 1 ELSE 0
           r == force_keyframe(h, t, declined)
<1>1. /\ e \in Hosts /\ e.ltr = h.ltr /\ e.acked = h.acked /\ e.floor = h.floor /\ e.idr = h.idr
      /\ e.rfi = h.rfi
  BY EpisodeType
<1> HIDE DEF e
<1>2. /\ q \in Hosts /\ q.ltr = h.ltr /\ q.acked = h.acked /\ q.floor = h.floor /\ q.idr = h.idr
      /\ q.rfi = h.rfi
  <2>1. t \in Int
    OBVIOUS
  <2>2. QED
    BY <1>1, <2>1 DEF Hosts
<1> HIDE DEF q
<1>3. /\ distrust(h.ltr) \in Mirrors /\ distrust(h.ltr).wire = h.ltr.wire
      /\ distrust(h.ltr).force = NoSlot
  BY DistrustType DEF Hosts
<1>4. l \in Mirrors /\ l.wire = h.ltr.wire /\ l.force \in {h.ltr.force, NoSlot} /\ u \in Nat
  BY <1>2, <1>3 DEF Hosts
<1>5. CASE r = [q EXCEPT !.ltr = distrust(@)]
  BY <1>2, <1>3, <1>5 DEF Hosts
<1>6. CASE r = [q EXCEPT !.echoes = @ + 1]
  <2> DEFINE k == q.echoes + 1
  <2>1. k \in Nat /\ r = [q EXCEPT !.echoes = k]
    BY <1>2, <1>6 DEF Hosts
  <2> HIDE DEF k
  <2>2. QED
    BY <1>2, <2>1 DEF Hosts
<1>7. CASE r = [q EXCEPT !.ltr = l, !.unhealed = u, !.echoes = 0, !.idr = TRUE, !.last_idr = t]
  <2>1. t \in Int /\ 0 \in Nat /\ TRUE \in BOOLEAN
    OBVIOUS
  <2> HIDE DEF l, u
  <2>2. QED
    BY <1>2, <1>4, <1>7, <2>1 DEF Hosts
<1>8. \/ r = [q EXCEPT !.ltr = distrust(@)]
      \/ r = [q EXCEPT !.echoes = @ + 1]
      \/ r = [q EXCEPT !.ltr = l, !.unhealed = u, !.echoes = 0, !.idr = TRUE, !.last_idr = t]
  <2>1. CASE Within(e.last_idr, t, idr_cooldown(e.unhealed))
    BY <2>1 DEF force_keyframe, e, q
  <2>2. CASE /\ ~Within(e.last_idr, t, idr_cooldown(e.unhealed))
             /\ ~declined /\ Within(e.last_rfi, t, RecoveryFlight) /\ e.echoes < EchoMax
    BY <2>2 DEF force_keyframe, e, q
  <2>3. CASE /\ ~Within(e.last_idr, t, idr_cooldown(e.unhealed))
             /\ ~(~declined /\ Within(e.last_rfi, t, RecoveryFlight) /\ e.echoes < EchoMax)
    BY <2>3 DEF force_keyframe, e, q
  <2>4. QED
    BY <2>1, <2>2, <2>3
<1>9. QED
  BY <1>5, <1>6, <1>7, <1>8

LEMMA RequestsType ==
  ASSUME NEW h \in Hosts, NEW t \in Nat, h.ltr.force = NoSlot
  PROVE  LET r == on_recovery_requests(h, t)
         IN  /\ r \in Hosts /\ r.acked = h.acked /\ r.floor = h.floor
             /\ r.ltr.wire = h.ltr.wire
             /\ r.rfi = {} /\ (h.idr => r.idr)
             /\ r.ltr.force # NoSlot => /\ h.rfi # {} /\ r.ltr.force \in Slots
                                        /\ h.floor = {} \/ h.ltr.wire[r.ltr.force] \in h.floor
<1> DEFINE idle     == [h EXCEPT !.kf = FALSE, !.rfi = {}]
           wide     == h.rfi # {} /\ Max(h.rfi) - Min(h.rfi) > RfiMaxRange
           lost     == h.rfi # {} /\ ~wide
           m        == invalidate(idle.ltr, Min(h.rfi), h.floor)
           tried    == IF lost THEN [idle EXCEPT !.ltr = m] ELSE idle
           declined == lost /\ ~(lost /\ tried.ltr.force # NoSlot)
           r        == on_recovery_requests(h, t)
<1>1. /\ idle \in Hosts /\ idle.ltr = h.ltr /\ idle.acked = h.acked /\ idle.floor = h.floor
      /\ idle.idr = h.idr /\ idle.rfi = {}
  <2>1. FALSE \in BOOLEAN /\ {} \in SUBSET Ticks
    OBVIOUS
  <2>2. QED
    BY <2>1 DEF Hosts
<1> HIDE DEF idle
<1>2. /\ m \in Mirrors /\ m.wire = h.ltr.wire
      /\ m.force # NoSlot => m.force \in Slots /\ (h.floor = {} \/ h.ltr.wire[m.force] \in h.floor)
  BY <1>1, InvalidateType DEF Hosts
<1> HIDE DEF m
<1>3. /\ tried \in Hosts /\ tried.acked = h.acked /\ tried.floor = h.floor
      /\ tried.ltr = (IF lost THEN m ELSE h.ltr) /\ tried.idr = h.idr
      /\ tried.rfi = {}
  BY <1>1, <1>2 DEF Hosts
<1>4. declined \in BOOLEAN
  OBVIOUS
<1>5. \/ r = tried \/ r = force_keyframe(tried, t, declined)
      \/ r = [tried EXCEPT !.last_rfi = t]
  BY DEF on_recovery_requests, idle, m
<1> HIDE DEF tried, lost, declined
<1>6. /\ tried.ltr.wire = h.ltr.wire
      /\ tried.ltr.force # NoSlot => /\ h.rfi # {} /\ tried.ltr.force \in Slots
                                     /\ h.floor = {} \/ h.ltr.wire[tried.ltr.force] \in h.floor
  BY <1>2, <1>3 DEF lost
<1>7. CASE r = tried
  BY <1>3, <1>6, <1>7
<1>8. CASE r = force_keyframe(tried, t, declined)
  <2>1. /\ r \in Hosts /\ r.acked = tried.acked /\ r.floor = tried.floor
        /\ r.ltr.wire = tried.ltr.wire /\ r.ltr.force \in {tried.ltr.force, NoSlot}
        /\ r.rfi = tried.rfi /\ (tried.idr => r.idr)
    BY <1>3, <1>4, <1>8, ForceKeyframeType
  <2>2. QED
    BY <1>3, <1>6, <2>1
<1>9. CASE r = [tried EXCEPT !.last_rfi = t]
  <2>1. r \in Hosts /\ r.acked = tried.acked /\ r.floor = tried.floor /\ r.ltr = tried.ltr
        /\ r.idr = tried.idr /\ r.rfi = tried.rfi
    <3>1. t \in Int
      OBVIOUS
    <3>2. QED
      BY <1>3, <1>9, <3>1 DEF Hosts
  <2>2. QED
    BY <1>3, <1>6, <2>1
<1>10. QED
  BY <1>5, <1>7, <1>8, <1>9
-----------------------------------------------------------------------------
(* Queues of frames.                                                       *)
LEMMA FrameType ==
  ASSUME NEW i \in 0 .. Horizon, NEW idr \in BOOLEAN, NEW ref \in 0 .. Horizon, i > 0 \/ idr
  PROVE  /\ Frame(i, idr, ref) \in Frames
         /\ Frame(i, idr, ref).i = i /\ Frame(i, idr, ref).idr = idr
         /\ Frame(i, idr, ref).anchor <=> ref # NoFrame /\ ~idr
         /\ Frame(i, idr, ref).anchor => Frame(i, idr, ref).ref = ref
         /\ ~idr /\ ~Frame(i, idr, ref).anchor => Frame(i, idr, ref).ref = i - 1
<1> DEFINE a == ref # NoFrame /\ ~idr
           r == IF idr THEN NoFrame ELSE IF ref # NoFrame THEN ref ELSE i - 1
<1>1. a \in BOOLEAN /\ r \in Nat
  BY RecoveryAssumption DEF NoFrame
<1>2. Frame(i, idr, ref) = [i |-> i, idr |-> idr, anchor |-> a, ref |-> r]
  BY DEF Frame
<1>3. /\ ~idr /\ ref # NoFrame => r = ref
      /\ ~idr /\ ref = NoFrame => r = i - 1
  OBVIOUS
<1> HIDE DEF a, r
<1>4. Frame(i, idr, ref) \in Frames
  BY <1>1, <1>2 DEF Frames
<1>5. /\ Frame(i, idr, ref).i = i /\ Frame(i, idr, ref).idr = idr
      /\ Frame(i, idr, ref).anchor = a /\ Frame(i, idr, ref).ref = r
  BY <1>2
<1>6. QED
  BY <1>3, <1>4, <1>5 DEF a

LEMMA Empty == <<>> \in Seq(Frames) /\ Len(<<>>) = 0 /\ Members(<<>>) = {}
  BY DEF Members

LEMMA Single ==
  ASSUME NEW f \in Frames
  PROVE  /\ <<f>> \in Seq(Frames) /\ Len(<<f>>) = 1 /\ <<f>>[1] = f /\ Members(<<f>>) = {f}
  BY DEF Members

LEMMA InFront ==
  ASSUME NEW f \in Frames, NEW q \in Seq(Frames)
  PROVE  LET r == <<f>> \o q
         IN  /\ r \in Seq(Frames) /\ r # <<>> /\ Len(r) = Len(q) + 1 /\ r[1] = f
             /\ Len(q) = 1 => r[2] = q[1]
             /\ Members(r) = Members(q) \union {f}
<1> DEFINE r == <<f>> \o q
<1>1. <<f>> \in Seq(Frames) /\ Len(<<f>>) = 1 /\ <<f>>[1] = f /\ Len(q) \in Nat
  BY Single, LenProperties
<1>2. /\ r \in Seq(Frames) /\ Len(r) = 1 + Len(q)
      /\ \A k \in 1 .. 1 + Len(q) : r[k] = IF k <= 1 THEN <<f>>[k] ELSE q[k - 1]
  BY <1>1, ConcatProperties
<1> HIDE DEF r
<1>3. r[1] = f /\ \A k \in 1 .. Len(q) : r[k + 1] = q[k]
  <2>1. r[1] = f
    BY <1>1, <1>2
  <2>2. ASSUME NEW k \in 1 .. Len(q)
        PROVE  r[k + 1] = q[k]
    <3>1. k + 1 \in 1 .. 1 + Len(q) /\ ~(k + 1 <= 1) /\ k + 1 - 1 = k
      BY <1>1
    <3>2. QED
      BY <1>2, <3>1
  <2>3. QED
    BY <2>1, <2>2
<1>4. Members(r) \subseteq Members(q) \union {f}
  <2> SUFFICES ASSUME NEW k \in 1 .. Len(r)
               PROVE  r[k] \in Members(q) \union {f}
    BY DEF Members
  <2>1. k = 1 \/ (k - 1 \in 1 .. Len(q) /\ k = (k - 1) + 1)
    BY <1>1, <1>2
  <2>2. QED
    BY <1>3, <2>1 DEF Members
<1>5. Members(q) \union {f} \subseteq Members(r)
  <2>1. 1 \in 1 .. Len(r) /\ \A k \in 1 .. Len(q) : k + 1 \in 1 .. Len(r)
    BY <1>1, <1>2
  <2>2. QED
    BY <1>3, <2>1 DEF Members
<1>6. r # <<>>
  BY <1>1, <1>2, Empty
<1>7. Len(q) = 1 => r[2] = q[1]
  BY <1>3
<1>8. QED
  BY <1>1, <1>2, <1>3, <1>4, <1>5, <1>6, <1>7 DEF r

LEMMA TakeOne ==
  ASSUME NEW q \in Seq(Frames), q # <<>>
  PROVE  /\ Head(q) \in Frames /\ Head(q) = q[1] /\ Head(q) \in Members(q)
         /\ Tail(q) \in Seq(Frames) /\ Len(Tail(q)) = Len(q) - 1 /\ Len(q) >= 1
         /\ Members(Tail(q)) \subseteq Members(q)
         /\ Len(q) <= 2 => Members(Tail(q)) \subseteq {q[2]}
         /\ Len(q) = 1 => Tail(q) = <<>>
         /\ Tail(q) # <<>> => Len(q) >= 2 /\ Tail(q)[1] = q[2]
<1>1. /\ Head(q) \in Frames /\ Tail(q) \in Seq(Frames) /\ Len(Tail(q)) = Len(q) - 1
      /\ \A k \in 1 .. Len(Tail(q)) : Tail(q)[k] = q[k + 1]
  BY HeadTailProperties
<1>2. Len(q) \in Nat \ {0} /\ Head(q) = q[1]
  BY EmptySeq
<1>3. \A k \in 1 .. Len(Tail(q)) : k + 1 \in 1 .. Len(q) /\ k \in Nat
  BY <1>1, <1>2
<1>4. Members(Tail(q)) \subseteq Members(q)
  BY <1>1, <1>3 DEF Members
<1>5. Len(q) <= 2 => Members(Tail(q)) \subseteq {q[2]}
  <2> SUFFICES ASSUME Len(q) <= 2, NEW k \in 1 .. Len(Tail(q))
               PROVE  Tail(q)[k] = q[2]
    BY DEF Members
  <2>1. k = 1
    BY <1>1, <1>2
  <2>2. QED
    BY <1>1, <2>1
<1>6. Len(q) = 1 => Tail(q) = <<>>
  <2>1. Len(q) = 1 => Len(Tail(q)) = 0
    BY <1>1
  <2>2. Tail(q) # <<>> => Len(Tail(q)) \in Nat \ {0}
    BY <1>1, EmptySeq
  <2>3. QED
    BY <2>1, <2>2
<1>7. Tail(q) # <<>> => Len(q) >= 2 /\ Tail(q)[1] = q[2]
  <2> SUFFICES ASSUME Tail(q) # <<>>
               PROVE  Len(q) >= 2 /\ Tail(q)[1] = q[2]
    OBVIOUS
  <2>1. Len(Tail(q)) \in Nat \ {0}
    BY <1>1, EmptySeq
  <2>2. 1 \in 1 .. Len(Tail(q)) /\ Len(q) >= 2
    BY <1>1, <1>2, <2>1
  <2>3. QED
    BY <1>1, <2>2
<1>8. 1 \in 1 .. Len(q) /\ Len(q) >= 1
  BY <1>2
<1>9. QED
  BY <1>1, <1>2, <1>4, <1>5, <1>6, <1>7, <1>8 DEF Members
-----------------------------------------------------------------------------
LEMMA ConfType == conf \in Confs => conf.floor \in BOOLEAN /\ conf.ledger \in BOOLEAN
  BY RecoveryAssumption

LEMMA InitInv == Init => IInv
<1> SUFFICES ASSUME Init
             PROVE  IInv
  OBVIOUS
<1>0. Horizon \in Nat /\ MaxTroubles \in Nat /\ 0 \in 0 .. Horizon /\ {} \in SUBSET Ticks
  BY RecoveryAssumption
<1>1. /\ sent \in Frames /\ sent.i = 0
  BY <1>0, FrameType DEF Init, NoFrame
<1>2. /\ inbox \in Seq(Frames) /\ late \in Seq(Frames) /\ Len(inbox) = 0 /\ Len(late) = 0
      /\ Transit = {} /\ Flying = {}
  BY Empty DEF Init, Transit, Flying
<1>3. /\ host \in Hosts /\ host.ltr = NewMirror /\ host.rfi = {} /\ host.floor = {}
      /\ host.acked = {} /\ host.idr
  <2>1. Never \in Int
    BY DEF Never
  <2>2. host = NewHost /\ NewMirror \in Mirrors
    BY BlankMirror DEF Init
  <2>3. QED
    BY <1>0, <2>1, <2>2 DEF NewHost, Hosts
<1>4. /\ rfi \in Rfis /\ rfi.next = 0 /\ rfi.pending = {}
  BY <1>0 DEF Init, NewRfi, Rfis
<1>5. gate \in Gates /\ ~gate.awaiting /\ gate.credit = 0 /\ gate.dropped = 0
  BY DEF Init, NewGate, Gates
<1>6. fb \in Feedbacks /\ fb.prev = 0 /\ ~fb.clean /\ fb.acks = {} /\ fb.open = NoAsk
  BY <1>0, AskTypes DEF Init, NewFeedback, Feedbacks
<1>7. Typed
  <2>1. /\ now \in 1 .. Horizon + 1 /\ used \in 0 .. MaxTroubles /\ short \in 0 .. Horizon
        /\ due \in SUBSET Nat /\ clean \in SUBSET Ticks /\ dropped \in Nat /\ trouble \in Nat
    BY <1>0 DEF Init, NoFrame
  <2>2. QED
    BY <1>1, <1>2, <1>3, <1>4, <1>5, <1>6, <2>1 DEF Init, Typed
<1>8. Flow
  BY <1>2, <1>4, <1>6 DEF Init, Flow, Left
<1>9. Opening
  BY <1>2, <1>3, <1>4, <1>5, <1>6 DEF Init, Opening, Fresh
<1>10. Freeze
  BY <1>5 DEF Init, Freeze
<1>11. Foreseen = {} /\ due = {}
  BY DEF Init, Foreseen
<1>12. Credits
  BY <1>2, <1>5, <1>11, FS_EmptySet DEF Init, Credits
<1>13. Paid
  BY <1>4, <1>5, <1>11, FS_EmptySet DEF Init, Paid
<1>14. Chain
  BY <1>2, <1>4, <1>6 DEF Init, Chain
<1>15. Acked
  <2>1. host.ltr.force = NoSlot /\ \A s \in Slots : host.ltr.wire[s] = NoFrame
    BY <1>3, BlankMirror
  <2>2. Based(0) /\ 0 \in 0 .. now
    BY <1>2, <1>3, <1>6, <2>1 DEF Based, Init
  <2>3. QED
    BY <2>1, <2>2 DEF Acked
<1>16. QED
  BY <1>7, <1>8, <1>9, <1>10, <1>12, <1>13, <1>14, <1>15 DEF IInv

(* A frame is encoded: an anchor of confirmed references leans on a picture*)
(* the client acknowledged since the last IDR, and holds.                  *)
LEMMA EncodeInv == IInv /\ Encode => IInv'
<1> SUFFICES ASSUME IInv, Encode
             PROVE  IInv'
  OBVIOUS
<1> USE DEF IInv
<1> DEFINE h == on_recovery_requests(host, now)
           s == step(h.ltr, h.idr, now, Floor(h), conf.keep, conf.drop)
<1>0. /\ pc = "host" /\ pc' = "wire" /\ now \in Ticks /\ now \in 0 .. Horizon /\ Horizon \in Nat
      /\ conf.floor \in BOOLEAN
  BY ConfType, RecoveryAssumption DEF Encode, Typed, Ticks
<1>1. /\ h \in Hosts /\ h.acked = host.acked /\ h.floor = host.floor /\ h.ltr.wire = host.ltr.wire
      /\ h.rfi = {} /\ (host.idr => h.idr)
      /\ h.ltr.force # NoSlot => /\ host.rfi # {} /\ h.ltr.force \in Slots
                                 /\ host.floor = {} \/ host.ltr.wire[h.ltr.force] \in host.floor
  <2>1. host \in Hosts /\ now \in Nat /\ host.ltr.force = NoSlot
    BY <1>0 DEF Typed, Acked, Ticks
  <2>2. QED
    BY <2>1, RequestsType
<1>2. sent' = Frame(now, h.idr, s.ref) /\ host' = [h EXCEPT !.ltr = s.m, !.idr = FALSE, !.floor = Floor(h)]
  BY DEF Encode
<1>3. UNCHANGED <<conf, now, inbox, late, due, short, rfi, gate, withheld, on_anchors, fb, dropped,
                  clean, shown, used, trouble>>
  BY DEF Encode, client
<1> HIDE DEF h
<1>4. Floor(h) \in SUBSET Ticks /\ Floor(h) = IF conf.floor THEN host.acked ELSE {}
  BY <1>1 DEF Floor, Hosts
<1>5. /\ s.m \in Mirrors /\ s.m.force = NoSlot /\ s.ref \in 0 .. Horizon
      /\ \A t \in Slots : s.m.wire[t] \in {NoFrame, host.ltr.wire[t], now}
      /\ h.idr => s.ref = NoFrame /\ \A t \in Slots : s.m.wire[t] \in {NoFrame, now}
      /\ s.ref # NoFrame => \E t \in Slots : /\ s.ref = host.ltr.wire[t]
                                             /\ t = h.ltr.force \/ s.ref \in Floor(h)
  <2>1. h.ltr \in Mirrors /\ now \in Ticks
    BY <1>0, <1>1 DEF Hosts
  <2>2. SteppedFrom(h.ltr, h.idr, now, Floor(h), s)
    <3> DEFINE g == h.idr
               k == conf.keep
               d == conf.drop
    <3>1. s = step(h.ltr, g, now, Floor(h), k, d)
      OBVIOUS
    <3> HIDE DEF s, g, k, d
    <3>2. SteppedFrom(h.ltr, g, now, Floor(h), s)
      BY <2>1, <3>1, StepType
    <3>3. QED
      BY <3>2 DEF g
  <2> HIDE DEF s
  <2>3. QED
    BY <1>1, <2>2 DEF SteppedFrom
<1> HIDE DEF s
<1>6. /\ sent' \in Frames /\ sent'.i = now /\ sent'.idr = h.idr
      /\ sent'.anchor <=> s.ref # NoFrame /\ ~h.idr
      /\ sent'.anchor => sent'.ref = s.ref
      /\ ~h.idr /\ ~sent'.anchor => sent'.ref = now - 1
  BY <1>0, <1>1, <1>2, <1>5, FrameType DEF Hosts, Ticks
<1>7. /\ host' \in Hosts /\ host'.ltr = s.m /\ host'.acked = host.acked /\ host'.rfi = {}
      /\ host'.floor = IF conf.floor THEN host.acked ELSE {}
  BY <1>1, <1>2, <1>4, <1>5 DEF Hosts
<1>8. Transit' = Transit /\ Flying' = Transit \union {sent'} /\ Flying = Transit /\ Left' = Left
      /\ Left = now - 1 /\ Unseen' = Unseen /\ Foreseen' = Foreseen
  BY <1>0, <1>3 DEF Transit, Flying, Left, Unseen, Foreseen
<1>9. Typed'
  BY <1>0, <1>3, <1>6, <1>7 DEF Typed, Ticks
<1>10. Flow'
  BY <1>0, <1>3, <1>6, <1>8 DEF Flow, Left
<1>11. Opening'
  <2>1. CASE now = 1
    BY <1>0, <1>1, <1>3, <1>6, <1>7, <1>8, <2>1 DEF Opening, Fresh
  <2>2. CASE now >= 2
    BY <1>0, <1>3, <1>7, <2>2 DEF Opening
  <2>3. QED
    BY <1>0, <2>1, <2>2 DEF Ticks
<1>12. Freeze'
  BY <1>0 DEF Freeze
<1>13. Credits'
  <2>1. now + DropLag \notin due
    BY <1>0, <1>8, RecoveryAssumption, ClientAssumption DEF Credits, Ticks
  <2>2. QED
    BY <1>0, <1>3, <1>6, <1>8, <2>1 DEF Credits
<1>14. Paid'
  BY <1>3, <1>8 DEF Paid
<1>15. ASSUME conf.floor
       PROVE  \E base \in 0 .. now : Based(base)' /\ (sent'.anchor => sent'.ref \in clean)
  <2>1. PICK base \in 0 .. now : Based(base)
    BY <1>15 DEF Acked
  <2>2. fb.prev < now /\ fb.prev \in Nat
    BY <1>0, <1>8 DEF Flow, Typed, Feedbacks, Ticks
  <2>3. \A a \in host.acked \union fb.acks : a \in Nat /\ a <= fb.prev
    <3>1. host.acked \subseteq Ticks /\ fb.acks \subseteq Ticks
      BY DEF Typed, Hosts, Feedbacks
    <3>2. \A a \in host.acked \union fb.acks : a <= fb.prev
      BY <2>1 DEF Based
    <3> QED
      BY <3>1, <3>2 DEF Ticks
  <2>4. CASE h.idr
    <3>0. PICK top \in 0 .. now : top = now
      BY <1>0 DEF Ticks
    <3>1. Based(top)'
      <4>1. \A t \in Slots : host'.ltr.wire[t] = NoFrame \/ host'.ltr.wire[t] >= top
        BY <1>0, <1>5, <1>7, <2>4, <3>0 DEF Ticks
      <4>2. \A f \in Flying' : f.idr => f.i <= top
        BY <1>0, <1>6, <1>8, <3>0 DEF Flow, Ticks
      <4>3. \A a \in host'.acked \union host'.floor \union fb'.acks :
               a <= fb'.prev /\ (a >= top => a \in clean')
        BY <1>0, <1>3, <1>7, <2>2, <2>3, <3>0 DEF Ticks
      <4>4. QED
        BY <4>1, <4>2, <4>3 DEF Based
    <3>2. ~sent'.anchor
      BY <1>5, <1>6, <2>4
    <3>3. QED
      BY <3>1, <3>2
  <2>5. CASE ~h.idr
    <3>1. Based(base)'
      <4>1. \A t \in Slots : host'.ltr.wire[t] = NoFrame \/ host'.ltr.wire[t] >= base
        BY <1>0, <1>5, <1>7, <2>1, <2>5 DEF Based, Ticks
      <4>2. \A f \in Flying' : f.idr => f.i <= base
        BY <1>6, <1>8, <2>1, <2>5 DEF Based
      <4>3. \A a \in host'.acked \union host'.floor \union fb'.acks :
               a <= fb'.prev /\ (a >= base => a \in clean')
        BY <1>3, <1>7, <2>1 DEF Based
      <4>4. QED
        BY <4>1, <4>2, <4>3 DEF Based
    <3>2. ASSUME sent'.anchor
          PROVE  sent'.ref \in clean
      <4>1. PICK t \in Slots : s.ref = host.ltr.wire[t] /\ (t = h.ltr.force \/ s.ref \in host.acked)
        BY <1>4, <1>5, <1>6, <1>15, <3>2
      <4>2. s.ref \in host.floor \union host.acked
        <5>1. t = h.ltr.force => h.ltr.force # NoSlot
          BY DEF Slots, NoSlot
        <5>2. host.rfi # {} => host.floor # {}
          <6>1. now = 1 \/ now >= 2
            BY <1>0 DEF Ticks
          <6>2. QED
            BY <1>15, <6>1 DEF Opening
        <5>3. QED
          BY <1>1, <4>1, <5>1, <5>2
      <4>3. s.ref >= base
        BY <1>6, <2>1, <3>2, <4>1 DEF Based
      <4>4. QED
        BY <1>6, <2>1, <3>2, <4>2, <4>3 DEF Based
    <3>3. QED
      BY <3>1, <3>2
  <2>6. QED
    BY <2>4, <2>5
<1>16. Chain'
  BY <1>3, <1>8, <1>15 DEF Chain
<1>17. Acked'
  BY <1>3, <1>5, <1>7, <1>15 DEF Acked
<1>18. QED
  BY <1>9, <1>10, <1>11, <1>12, <1>13, <1>14, <1>16, <1>17

(* The wire.                                                               *)
LEMMA WireType ==
  ASSUME IInv, pc = "wire"
  PROVE  /\ now \in Ticks /\ now \in Nat /\ now >= 1 /\ inbox = <<>> /\ sent \in Frames /\ sent.i = now
         /\ Left = now - 1 /\ Unseen = now - 1 /\ Flying = Transit \union {sent}
         /\ Transit = Members(late) /\ \A f \in Transit : f.i \in Nat /\ f.i < now
         /\ Len(late) \in Nat /\ (Len(late) = 1 => late[1] \in Transit)
<1>1. now \in Ticks /\ now \in Nat /\ now >= 1 /\ sent \in Frames /\ late \in Seq(Frames)
  BY RecoveryAssumption DEF IInv, Typed, Ticks
<1>2. inbox = <<>> /\ sent.i = now /\ \A f \in Transit : f.i \in 1 .. Left
  BY DEF IInv, Flow
<1>3. Left = now - 1 /\ Unseen = now - 1 /\ Flying = Transit \union {sent}
  BY <1>2 DEF Left, Unseen, Flying
<1>4. Transit = Members(late)
  BY <1>2, Empty DEF Transit
<1>5. Len(late) \in Nat /\ (Len(late) = 1 => late[1] \in Members(late))
  BY <1>1, LenProperties DEF Members
<1>6. QED
  BY <1>1, <1>2, <1>3, <1>4, <1>5

LEMMA DeliverInv == IInv /\ Deliver => IInv'
<1> SUFFICES ASSUME IInv, Deliver
             PROVE  IInv'
  OBVIOUS
<1> USE DEF IInv
<1>0. /\ pc = "wire" /\ pc' = "pump" /\ inbox' = <<sent>> \o late /\ late' = <<>>
      /\ UNCHANGED <<conf, now, host, sent, due, short, rfi, gate, withheld, on_anchors, fb,
                     dropped, clean, shown, used, trouble>>
  BY DEF Deliver, Passed, client
<1>1. /\ now \in Ticks /\ now \in Nat /\ now >= 1 /\ inbox = <<>> /\ sent \in Frames /\ sent.i = now
      /\ Left = now - 1 /\ Unseen = now - 1 /\ Flying = Transit \union {sent}
      /\ Transit = Members(late) /\ \A f \in Transit : f.i \in Nat /\ f.i < now
      /\ Len(late) \in Nat /\ (Len(late) = 1 => late[1] \in Transit)
  BY <1>0, WireType
<1>2. /\ inbox' \in Seq(Frames) /\ inbox' # <<>> /\ inbox'[1] = sent /\ Len(inbox') = Len(late) + 1
      /\ Len(late) = 1 => inbox'[2] = late[1]
      /\ Members(inbox') = Members(late) \union {sent}
  BY <1>0, <1>1, InFront DEF Typed
<1>3. Transit' = Flying /\ Flying' = Flying /\ Left' = now /\ Unseen' = Unseen /\ Foreseen' = Foreseen
  BY <1>0, <1>1, <1>2, Empty DEF Transit, Flying, Left, Unseen, Foreseen
<1>4. Typed'
  BY <1>0, <1>2, Empty DEF Typed
<1>5. Flow'
  <2>1. Len(late') <= 1 /\ Len(inbox') <= 2 /\ (Len(inbox') = 2 => inbox'[2].i < inbox'[1].i)
    BY <1>0, <1>1, <1>2, Empty DEF Flow
  <2>2. \A f \in Transit' : f.i \in 1 .. Left'
    BY <1>1, <1>3 DEF Flow
  <2>3. fb'.prev <= Left'
    BY <1>0, <1>1, <1>3 DEF Flow, Typed, Feedbacks
  <2>4. QED
    BY <1>0, <1>3, <2>1, <2>2, <2>3 DEF Flow
<1>6. Opening'
  BY <1>0, <1>1, <1>2, <1>3 DEF Opening, Fresh
<1>7. Freeze'
  BY <1>0 DEF Freeze
<1>8. Credits'
  <2>1. due' \subseteq now' .. Left' + DropLag
    BY <1>0, <1>1, <1>3, RecoveryAssumption, ClientAssumption DEF Credits
  <2>2. QED
    BY <1>0, <1>3, <2>1 DEF Credits
<1>9. Paid'
  BY <1>0, <1>3 DEF Paid
<1>10. Chain'
  BY <1>0, <1>3 DEF Chain
<1>11. Acked'
  <2>1. \A base : Based(base) => Based(base)'
    BY <1>0, <1>3 DEF Based
  <2>2. QED
    BY <1>0, <2>1 DEF Acked
<1>12. QED
  BY <1>4, <1>5, <1>6, <1>7, <1>8, <1>9, <1>10, <1>11

(* A trouble pays for the drop, and for the credit of the gap.             *)
LEMMA LoseInv == IInv /\ Lose => IInv'
<1> SUFFICES ASSUME IInv, Lose
             PROVE  IInv'
  OBVIOUS
<1> USE DEF IInv
<1>0. /\ pc = "wire" /\ pc' = "pump" /\ inbox' = late /\ late' = <<>> /\ due' = due \union {now + DropLag}
      /\ short' \in {NoFrame, now} /\ used < MaxTroubles /\ used' = used + 1 /\ trouble' = now
      /\ now \in 2 .. LastTrouble
      /\ UNCHANGED <<conf, now, host, sent, rfi, gate, withheld, on_anchors, fb, dropped, clean,
                     shown>>
  BY DEF Lose, Passed, Trouble, client
<1>1. /\ now \in Ticks /\ now \in Nat /\ now >= 1 /\ inbox = <<>> /\ sent \in Frames /\ sent.i = now
      /\ Left = now - 1 /\ Unseen = now - 1 /\ Flying = Transit \union {sent}
      /\ Transit = Members(late) /\ \A f \in Transit : f.i \in Nat /\ f.i < now
      /\ Len(late) \in Nat /\ (Len(late) = 1 => late[1] \in Transit)
  BY <1>0, WireType
<1>2. DropLag \in Nat /\ DropLag >= 1 /\ Horizon \in Nat /\ MaxTroubles \in Nat /\ used \in Nat
      /\ gate.credit \in Nat /\ dropped \in Nat /\ rfi.next \in Nat /\ now >= 2
  BY <1>0, RecoveryAssumption, ClientAssumption DEF Typed, Gates, Rfis
<1>3. /\ Transit' = Transit /\ Flying' = Transit /\ Left' = now
  BY <1>0, <1>1, Empty DEF Transit, Flying, Left
<1>4. Unseen' = now
  <2>1. ASSUME inbox' # <<>>
        PROVE  inbox'[1].i # now
    <3>1. Len(late) \in Nat \ {0}
      BY <1>0, <2>1, EmptySeq DEF Typed
    <3>2. Len(late) = 1
      <4>1. Len(late) <= 1
        BY DEF Flow
      <4>2. \A n \in Nat \ {0} : n <= 1 => n = 1
        OBVIOUS
      <4>3. QED
        BY <3>1, <4>1, <4>2
    <3>3. QED
      BY <1>0, <1>1, <3>2
  <2>2. QED
    BY <1>0, <1>3, <2>1 DEF Unseen
<1>5. rfi.next <= now /\ due \subseteq Nat /\ now + DropLag \notin due
  BY <1>1, <1>2 DEF Flow, Credits, Typed, Feedbacks
<1>6. Foreseen' = Foreseen
  BY <1>0, <1>2, <1>5, <1>1 DEF Foreseen
<1>7. IsFiniteSet(due)
  <2>1. IsFiniteSet(now .. Left + DropLag)
    BY <1>1, <1>2, FS_Interval
  <2>2. QED
    BY <2>1, FS_Subset DEF Credits
<1>8. Cardinality(due) \in Nat /\ Cardinality(due') = Cardinality(due) + 1
  BY <1>0, <1>5, <1>7, FS_AddElement, FS_CardinalityType
<1>9. Typed'
  BY <1>0, <1>1, <1>2, Empty DEF Typed, NoFrame, Ticks
<1>10. Flow'
  <2>0. Len(late) <= 1 /\ Len(inbox') = Len(late) /\ Len(late') = 0
    BY <1>0, Empty DEF Flow
  <2>1. Len(late') <= 1 /\ Len(inbox') <= 2 /\ ~(Len(inbox') = 2)
    BY <1>1, <2>0
  <2>2. \A f \in Transit' : f.i \in 1 .. Left'
    BY <1>1, <1>3 DEF Flow
  <2>3. fb'.prev <= Left'
    BY <1>0, <1>1, <1>3 DEF Flow, Typed, Feedbacks
  <2>4. QED
    BY <1>0, <1>1, <1>3, <2>1, <2>2, <2>3 DEF Flow
<1>11. Opening'
  BY <1>0, <1>2 DEF Opening
<1>12. Freeze'
  BY <1>0 DEF Freeze
<1>13. Credits'
  <2>1. due' \subseteq now' .. Left' + DropLag
    BY <1>0, <1>1, <1>2, <1>3 DEF Credits
  <2>2. \A f \in Flying' : f.i + DropLag \notin due'
    BY <1>0, <1>1, <1>2, <1>3 DEF Credits
  <2>3. QED
    BY <1>0, <1>6, <2>1, <2>2 DEF Credits
<1>14. Paid'
  <2>1. /\ dropped + Cardinality(due) <= used /\ gate.credit <= used
        /\ rfi.next > 0 => gate.credit + (now - 1) + 1 - rfi.next <= used
    BY <1>1 DEF Paid
  <2>2. /\ dropped + Cardinality(due') <= used' /\ gate.credit <= used'
        /\ rfi.next > 0 => gate.credit + now + 1 - rfi.next <= used'
    <3>1. /\ dropped + Cardinality(due) + 1 <= used + 1
          /\ gate.credit <= used + 1
      BY <1>2, <1>8, <2>1
    <3>2. rfi.next > 0 => gate.credit + now + 1 - rfi.next <= used + 1
      BY <1>1, <1>2, <2>1
    <3>3. dropped + (Cardinality(due) + 1) <= used + 1
      BY <1>2, <1>8, <3>1
    <3>4. QED
      BY <1>0, <1>8, <3>1, <3>2, <3>3
  <2>3. QED
    BY <1>0, <1>4, <2>2 DEF Paid
<1>15. Chain'
  BY <1>0, <1>1, <1>3 DEF Chain
<1>16. Acked'
  <2>1. \A base : Based(base) => Based(base)'
    BY <1>0, <1>1, <1>3 DEF Based
  <2>2. QED
    BY <1>0, <2>1 DEF Acked
<1>17. QED
  BY <1>9, <1>10, <1>11, <1>12, <1>13, <1>14, <1>15, <1>16

LEMMA DelayInv == IInv /\ Delay => IInv'
<1> SUFFICES ASSUME IInv, Delay
             PROVE  IInv'
  OBVIOUS
<1> USE DEF IInv
<1>0. /\ pc = "wire" /\ pc' = "pump" /\ late = <<>> /\ late' = <<sent>> /\ inbox' = <<>>
      /\ used < MaxTroubles /\ used' = used + 1 /\ trouble' = now /\ now \in 2 .. LastTrouble
      /\ UNCHANGED <<conf, now, host, sent, due, short, rfi, gate, withheld, on_anchors, fb,
                     dropped, clean, shown>>
  BY DEF Delay, Trouble, client
<1>1. /\ now \in Ticks /\ now \in Nat /\ now >= 1 /\ inbox = <<>> /\ sent \in Frames /\ sent.i = now
      /\ Left = now - 1 /\ Unseen = now - 1 /\ Flying = Transit \union {sent}
      /\ Transit = Members(late) /\ \A f \in Transit : f.i \in Nat /\ f.i < now
      /\ Len(late) \in Nat /\ (Len(late) = 1 => late[1] \in Transit)
  BY <1>0, WireType
<1>2. DropLag \in Nat /\ DropLag >= 1 /\ Horizon \in Nat /\ MaxTroubles \in Nat /\ used \in Nat
      /\ gate.credit \in Nat /\ dropped \in Nat /\ rfi.next \in Nat /\ now >= 2
  BY <1>0, RecoveryAssumption, ClientAssumption DEF Typed, Gates, Rfis
<1>3. /\ Transit' = Flying /\ Flying' = Flying /\ Left' = now /\ Unseen' = now
      /\ Foreseen' = Foreseen
  <2>1. Members(late) = {} /\ Members(late') = {sent} /\ Members(inbox') = {}
    BY <1>0, <1>1, Empty, Single
  <2>2. QED
    BY <1>0, <1>1, <2>1 DEF Transit, Flying, Left, Unseen, Foreseen
<1>4. late' \in Seq(Frames) /\ Len(late') = 1 /\ inbox' \in Seq(Frames) /\ Len(inbox') = 0
  BY <1>0, <1>1, Single, Empty
<1>5. IsFiniteSet(due) /\ Cardinality(due) \in Nat
  <2>1. IsFiniteSet(now .. Left + DropLag)
    BY <1>1, <1>2, FS_Interval
  <2>2. QED
    BY <2>1, FS_Subset, FS_CardinalityType DEF Credits
<1>6. Typed'
  BY <1>0, <1>1, <1>2, <1>4 DEF Typed, Ticks
<1>7. Flow'
  <2>1. \A f \in Transit' : f.i \in 1 .. Left'
    BY <1>1, <1>3 DEF Flow
  <2>2. fb'.prev <= Left'
    BY <1>0, <1>1, <1>3 DEF Flow, Typed, Feedbacks
  <2>3. QED
    BY <1>0, <1>3, <1>4, <2>1, <2>2 DEF Flow
<1>8. Opening'
  BY <1>0, <1>2 DEF Opening
<1>9. Freeze'
  BY <1>0 DEF Freeze
<1>10. Credits'
  <2>1. due' \subseteq now' .. Left' + DropLag
    BY <1>0, <1>1, <1>2, <1>3 DEF Credits
  <2>2. QED
    BY <1>0, <1>3, <2>1 DEF Credits
<1>11. Paid'
  <2>1. /\ due' = due /\ dropped' = dropped /\ gate' = gate /\ rfi' = rfi /\ used' = used + 1
        /\ Unseen' = Unseen + 1
    BY <1>0, <1>1, <1>2, <1>3
  <2>2. Unseen \in Int
    BY <1>1
  <2> QED
    BY <1>2, <1>5, <2>1, <2>2 DEF Paid
<1>12. Chain'
  BY <1>0, <1>3 DEF Chain
<1>13. Acked'
  <2>1. \A base : Based(base) => Based(base)'
    BY <1>0, <1>3 DEF Based
  <2>2. QED
    BY <1>0, <2>1 DEF Acked
<1>14. QED
  BY <1>6, <1>7, <1>8, <1>9, <1>10, <1>11, <1>12, <1>13

(* Time passes once the decoder has had what arrived.                      *)
LEMMA TickInv == IInv /\ Tick => IInv'
<1> SUFFICES ASSUME IInv, Tick
             PROVE  IInv'
  OBVIOUS
<1> USE DEF IInv
<1>0. /\ pc = "decode" /\ pc' = "host" /\ inbox = <<>> /\ now' = now + 1
      /\ UNCHANGED <<conf, host, sent, inbox, late, due, short, rfi, gate, withheld, on_anchors,
                     fb, dropped, clean, shown, used, trouble>>
  BY DEF Tick, client
<1>1. now \in Nat /\ now >= 1 /\ now <= Horizon /\ Horizon \in Nat /\ DropLag \in Nat
  BY <1>0, RecoveryAssumption, ClientAssumption DEF Typed
<1>2. /\ Transit' = Transit /\ Flying' = Transit /\ Flying = Transit /\ Left = now /\ Left' = now
      /\ Unseen = now /\ Unseen' = now /\ Foreseen' = Foreseen
  BY <1>0, <1>1 DEF Transit, Flying, Left, Unseen, Foreseen
<1>3. Typed'
  BY <1>0, <1>1 DEF Typed
<1>4. Flow'
  BY <1>0, <1>2 DEF Flow
<1>5. Opening'
  BY <1>0, <1>1 DEF Opening
<1>6. Freeze'
  BY <1>0, <1>1 DEF Freeze, Typed, Gates
<1>7. Credits'
  <2>1. due' \subseteq now' .. Left' + DropLag
    BY <1>0, <1>1, <1>2 DEF Credits
  <2>2. QED
    BY <1>0, <1>2, <2>1 DEF Credits
<1>8. Paid'
  BY <1>0, <1>2 DEF Paid
<1>9. Chain'
  BY <1>0, <1>2 DEF Chain
<1>10. Acked'
  <2>1. \A base : Based(base) => Based(base)'
    BY <1>0, <1>2 DEF Based
  <2>2. \A base \in 0 .. now : base \in 0 .. now'
    BY <1>0, <1>1
  <2>3. QED
    BY <1>0, <2>1, <2>2 DEF Acked
<1>11. QED
  BY <1>3, <1>4, <1>5, <1>6, <1>7, <1>8, <1>9, <1>10
-----------------------------------------------------------------------------
(* What the host makes of two datagrams, and of none.                      *)
LEMMA SendType ==
  ASSUME Typed, NEW d \in Datagrams, NEW e \in Datagrams, Send(d, e)
  PROVE  /\ host' \in Hosts /\ host'.ltr = host.ltr /\ host'.floor = host.floor
         /\ host'.acked \subseteq host.acked \union d.acked \union e.acked
         /\ host.acked # {} => host'.acked # {}
         /\ used' \in 0 .. MaxTroubles /\ used <= used' /\ trouble' \in Nat
         /\ now = 1 => /\ used' = used
                       /\ d.ask = 0 /\ e.ask = 0 => host'.rfi = host.rfi
                       /\ d.acked = {} /\ e.acked = {} => host'.acked = host.acked
                       /\ d.acked # {} => host'.acked # {}
<1>1. CASE host' = on_feedback(on_feedback(host, d), e) /\ UNCHANGED <<used, trouble>>
  <2> DEFINE h == on_feedback(host, d)
             k == on_feedback(h, e)
  <2>1. /\ h \in Hosts /\ h.ltr = host.ltr /\ h.floor = host.floor
        /\ h.acked = IF d.acked = {} THEN host.acked ELSE d.acked
        /\ d.ask = 0 => h.rfi = host.rfi
    BY OnFeedbackType DEF Typed
  <2> HIDE DEF h
  <2>2. /\ k \in Hosts /\ k.ltr = h.ltr /\ k.floor = h.floor
        /\ k.acked = IF e.acked = {} THEN h.acked ELSE e.acked
        /\ e.ask = 0 => k.rfi = h.rfi
    BY <2>1, OnFeedbackType
  <2>3. host' = k
    BY <1>1 DEF h
  <2> HIDE DEF k
  <2>4. used' \in 0 .. MaxTroubles /\ used <= used' /\ used' = used /\ trouble' \in Nat
    BY <1>1, RecoveryAssumption DEF Typed
  <2>5. QED
    BY <2>1, <2>2, <2>3, <2>4
<1>2. CASE Trouble /\ UNCHANGED host
  <2>1. now # 1 /\ now \in Nat /\ used + 1 \in 0 .. MaxTroubles /\ used <= used + 1
    BY <1>2, RecoveryAssumption DEF Trouble, Typed
  <2>2. QED
    BY <1>2, <2>1 DEF Trouble, Typed
<1>3. QED
  BY <1>1, <1>2 DEF Send

LEMMA ShortTailType ==
  ASSUME Typed, now \in Nat
  PROVE  /\ ShortTail.r \in Rfis /\ ShortTail.ask \in Asks /\ ShortTail.r.next = rfi.next
         /\ short = NoFrame => ShortTail.r = rfi /\ ShortTail.ask = NoAsk
<1>1. CASE short # NoFrame /\ ~on_anchors
  <2>1. short \in Ticks
    BY <1>1, RecoveryAssumption DEF Typed, Ticks, NoFrame
  <2>2. QED
    BY <1>1, <2>1, TailShortType DEF ShortTail, Typed
<1>2. CASE ~(short # NoFrame /\ ~on_anchors)
  <2>1. ShortTail = [r |-> rfi, ask |-> NoAsk]
    BY <1>2 DEF ShortTail
  <2>2. QED
    BY <1>2, <2>1, AskTypes DEF Typed
<1>3. QED
  BY <1>1, <1>2

LEMMA TickedType ==
  ASSUME now \in Nat, NEW r \in Rfis, NEW n
  PROVE  /\ Ticked(r, n).r \in Rfis /\ Ticked(r, n).ask \in Asks /\ Ticked(r, n).r.next = r.next
         /\ ~NewLoss(gate, n, now) /\ ~gate.awaiting /\ r.pending = {} =>
              Ticked(r, n).r = r /\ Ticked(r, n).ask = NoAsk
<1> DEFINE asked == NewLoss(gate, n, now) \/ Overdue(gate, n, now)
           k     == IF asked THEN keyframe(r, now) ELSE [r |-> r, ask |-> NoAsk]
<1>1. k.r \in Rfis /\ k.ask \in Asks /\ k.r.next = r.next
  BY KeyframeType, AskTypes
<1>2. ~asked => k.r = r /\ k.ask = NoAsk
  OBVIOUS
<1>3. Ticked(r, n) = IF k.ask = NoAsk THEN flush(k.r, now) ELSE k
  BY DEF Ticked
<1>4. ~NewLoss(gate, n, now) /\ ~gate.awaiting => ~asked
  BY DEF Overdue
<1> HIDE DEF k, asked
<1>5. /\ flush(k.r, now).r \in Rfis /\ flush(k.r, now).ask \in Asks
      /\ flush(k.r, now).r.next = k.r.next
      /\ k.r.pending = {} => flush(k.r, now).r = k.r /\ flush(k.r, now).ask = NoAsk
  BY <1>1, FlushType
<1>6. QED
  BY <1>1, <1>2, <1>3, <1>4, <1>5

(* What the pump's pass does to each part of the client.                   *)
PumpDoes ==
  /\ rfi' \in Rfis /\ rfi'.next = rfi.next
  /\ fb' \in Feedbacks /\ fb'.prev = fb.prev /\ fb'.clean = fb.clean /\ fb'.acks = fb.acks
  /\ host' \in Hosts /\ host'.ltr = host.ltr /\ host'.floor = host.floor
  /\ host'.acked \subseteq host.acked /\ (host.acked # {} => host'.acked # {})
  /\ used' \in 0 .. MaxTroubles /\ used <= used' /\ trouble' \in Nat
  /\ gate' = poll(gate, dropped', now)
  /\ dropped' = IF now \in due THEN dropped + 1 ELSE dropped
  /\ now = 1 => /\ used' = used /\ host'.rfi = {} /\ host'.acked = host.acked
                /\ fb'.open = NoAsk /\ rfi'.pending = {}

LEMMA PumpType == IInv /\ Pump => PumpDoes
<1> SUFFICES ASSUME IInv, Pump
             PROVE  PumpDoes
  OBVIOUS
<1> DEFINE n  == dropped + (IF now \in due THEN 1 ELSE 0)
           a  == ask(fb, ShortTail.ask, now)
           o  == resend(a, now)
           t  == Ticked(ShortTail.r, n)
           o2 == ask(o, t.ask, now)
<1>0. /\ pc = "pump" /\ rfi' = t.r /\ gate' = poll(gate, n, now) /\ fb' = o2 /\ dropped' = n
      /\ Send(stamp(o), stamp(o2)) /\ now \in Nat /\ dropped \in Nat
  BY RecoveryAssumption DEF Pump, IInv, Typed
<1>1. Typed /\ fb \in Feedbacks
  BY DEF IInv, Typed
<1>2. /\ ShortTail.r \in Rfis /\ ShortTail.ask \in Asks /\ ShortTail.r.next = rfi.next
      /\ short = NoFrame => ShortTail.r = rfi /\ ShortTail.ask = NoAsk
  BY <1>0, <1>1, ShortTailType
<1>3. /\ t.r \in Rfis /\ t.ask \in Asks /\ t.r.next = rfi.next
      /\ ~NewLoss(gate, n, now) /\ ~gate.awaiting /\ ShortTail.r.pending = {} =>
           t.r = ShortTail.r /\ t.ask = NoAsk
  BY <1>0, <1>2, TickedType
<1> HIDE DEF t
<1>4. /\ a \in Feedbacks /\ a.prev = fb.prev /\ a.clean = fb.clean /\ a.acks = fb.acks
      /\ ShortTail.ask = NoAsk => a = fb
  <2>1. ShortTail.ask = NoAsk => a = fb
    BY DEF ask
  <2>2. QED
    BY <1>0, <1>1, <1>2, <2>1, AskType
<1> HIDE DEF a
<1>5. /\ o \in Feedbacks /\ o.prev = fb.prev /\ o.clean = fb.clean /\ o.acks = fb.acks
      /\ a.open = NoAsk => o.open = NoAsk
  BY <1>0, <1>4, ResendType
<1> HIDE DEF o
<1>6. /\ o2 \in Feedbacks /\ o2.prev = fb.prev /\ o2.clean = fb.clean /\ o2.acks = fb.acks
      /\ t.ask = NoAsk => o2 = o
  <2>1. t.ask = NoAsk => o2 = o
    BY DEF ask
  <2>2. QED
    BY <1>0, <1>3, <1>5, <2>1, AskType
<1> HIDE DEF o2
<1>7. /\ stamp(o) \in Datagrams /\ stamp(o).acked = {} /\ (o.open = NoAsk => stamp(o).ask = 0)
      /\ stamp(o2) \in Datagrams /\ stamp(o2).acked = {} /\ (o2.open = NoAsk => stamp(o2).ask = 0)
  BY <1>5, <1>6, StampType
<1>8. /\ host' \in Hosts /\ host'.ltr = host.ltr /\ host'.floor = host.floor
      /\ host'.acked \subseteq host.acked
      /\ host.acked # {} => host'.acked # {}
      /\ used' \in 0 .. MaxTroubles /\ used <= used' /\ trouble' \in Nat
      /\ now = 1 => /\ used' = used
                    /\ stamp(o).ask = 0 /\ stamp(o2).ask = 0 => host'.rfi = host.rfi
                    /\ host'.acked = host.acked
  <2> DEFINE d == stamp(o)
             e == stamp(o2)
  <2>1. d \in Datagrams /\ e \in Datagrams /\ Send(d, e) /\ d.acked = {} /\ e.acked = {}
    BY <1>0, <1>7
  <2> HIDE DEF d, e
  <2>2. /\ host' \in Hosts /\ host'.ltr = host.ltr /\ host'.floor = host.floor
        /\ host'.acked \subseteq host.acked
        /\ host.acked # {} => host'.acked # {}
        /\ used' \in 0 .. MaxTroubles /\ used <= used' /\ trouble' \in Nat
        /\ now = 1 => /\ used' = used
                      /\ d.ask = 0 /\ e.ask = 0 => host'.rfi = host.rfi
                      /\ host'.acked = host.acked
    BY <1>1, <2>1, SendType
  <2>3. QED
    BY <2>2 DEF d, e
<1>9. n = IF now \in due THEN dropped + 1 ELSE dropped
  BY <1>0
<1>10. ASSUME now = 1
       PROVE  host'.rfi = {} /\ o2.open = NoAsk /\ t.r.pending = {}
  <2>1. /\ due = {} /\ short = NoFrame /\ rfi.pending = {} /\ ~gate.awaiting /\ gate.credit = 0
        /\ fb.open = NoAsk /\ host.rfi = {}
    BY <1>10 DEF IInv, Opening
  <2>2. n = gate.dropped /\ gate \in Gates
    BY <1>0, <2>1 DEF IInv, Credits, Typed
  <2>3. ~NewLoss(gate, n, now)
    <3>1. n \in Nat /\ n \in {gate.dropped, gate.dropped + 1}
      BY <1>0, <2>1, <2>2
    <3> HIDE DEF n
    <3>2. QED
      BY <1>0, <2>2, <3>1, PollType
  <2>4. ShortTail.r = rfi /\ ShortTail.ask = NoAsk /\ t.r = ShortTail.r /\ t.ask = NoAsk
    BY <1>2, <1>3, <2>1, <2>3
  <2>5. o.open = NoAsk /\ o2 = o
    BY <1>4, <1>5, <1>6, <2>1, <2>4
  <2>6. QED
    BY <1>7, <1>8, <1>10, <2>1, <2>4, <2>5
<1>11. QED
  BY <1>0, <1>3, <1>6, <1>8, <1>9, <1>10 DEF PumpDoes

LEMMA DueType ==
  ASSUME IInv
  PROVE  /\ IsFiniteSet(due) /\ Cardinality(due) \in Nat /\ due \subseteq Nat
         /\ IsFiniteSet(Foreseen) /\ Cardinality(Foreseen) \in Nat /\ Foreseen \subseteq due
         /\ now \in Nat /\ now >= 1 /\ Left \in Nat /\ DropLag \in Nat /\ rfi.next \in Nat
         /\ gate.credit \in Nat /\ gate.expiry \in Nat /\ gate.dropped = dropped /\ dropped \in Nat
         /\ used \in Nat /\ Unseen \in Int
<1>1. /\ now \in Nat /\ now >= 1 /\ Left \in Nat /\ DropLag \in Nat /\ rfi.next \in Nat
      /\ gate.credit \in Nat /\ gate.expiry \in Nat /\ dropped \in Nat /\ used \in Nat
  BY RecoveryAssumption, ClientAssumption DEF IInv, Typed, Left, Gates, Rfis
<1>2. IsFiniteSet(now .. Left + DropLag)
  BY <1>1, FS_Interval
<1>3. IsFiniteSet(due) /\ due \subseteq Nat /\ gate.dropped = dropped
  BY <1>2, FS_Subset DEF IInv, Credits, Typed
<1>4. Foreseen \subseteq due
  BY DEF Foreseen
<1>5. Unseen \in Int
  BY <1>1 DEF Unseen
<1>6. QED
  BY <1>1, <1>3, <1>4, <1>5, FS_Subset, FS_CardinalityType

(* A drop the decoder has seen the gap of is booked against a credit that  *)
(* is there, and still lasts: drops are booked in the order of their loss. *)
LEMMA PumpCredits ==
  ASSUME IInv, Pump
  PROVE  /\ gate' \in Gates /\ gate'.dropped = dropped' /\ gate'.expiry = gate.expiry
         /\ gate'.credit <= gate.credit
         /\ gate'.awaiting => now < gate'.deadline
         /\ Foreseen' = Foreseen \ {now} /\ Cardinality(Foreseen') <= gate'.credit
         /\ now \in Foreseen /\ ~gate.awaiting => ~gate'.awaiting
         /\ dropped' \in Nat /\ dropped' + Cardinality(due') = dropped + Cardinality(due)
         /\ now = 1 => ~gate'.awaiting
<1>0. PumpDoes /\ due' = due \ {now} /\ now' = now
  BY PumpType DEF Pump
<1>1. /\ IsFiniteSet(due) /\ Cardinality(due) \in Nat /\ due \subseteq Nat
      /\ IsFiniteSet(Foreseen) /\ Cardinality(Foreseen) \in Nat /\ Foreseen \subseteq due
      /\ now \in Nat /\ now >= 1 /\ Left \in Nat /\ DropLag \in Nat /\ rfi.next \in Nat
      /\ gate.credit \in Nat /\ gate.expiry \in Nat /\ gate.dropped = dropped /\ dropped \in Nat
  BY DueType
<1>2. dropped' = (IF now \in due THEN dropped + 1 ELSE dropped) /\ rfi'.next = rfi.next
      /\ gate' = poll(gate, dropped', now)
  BY <1>0 DEF PumpDoes
<1>3. gate \in Gates /\ dropped' \in Nat /\ dropped' \in {gate.dropped, gate.dropped + 1}
  BY <1>1, <1>2 DEF IInv, Typed
<1>4. /\ gate' \in Gates /\ gate'.dropped = dropped'
      /\ gate'.expiry = gate.expiry /\ gate'.credit <= gate.credit
      /\ dropped' = gate.dropped => gate'.credit = gate.credit /\ ~NewLoss(gate, dropped', now)
      /\ dropped' = gate.dropped + 1 /\ now < gate.expiry /\ gate.credit > 0 =>
           gate'.credit = gate.credit - 1 /\ ~NewLoss(gate, dropped', now)
      /\ gate'.awaiting => now < gate'.deadline
      /\ ~gate.awaiting /\ ~NewLoss(gate, dropped', now) => ~gate'.awaiting
  <2> DEFINE n == dropped'
             g == poll(gate, n, now)
  <2>1. n \in Nat /\ n \in {gate.dropped, gate.dropped + 1}
    BY <1>3
  <2> HIDE DEF n
  <2>2. /\ g \in Gates /\ g.dropped = n
        /\ g.expiry = gate.expiry /\ g.credit <= gate.credit
        /\ n = gate.dropped => g.credit = gate.credit /\ ~NewLoss(gate, n, now)
        /\ n = gate.dropped + 1 /\ now < gate.expiry /\ gate.credit > 0 =>
             g.credit = gate.credit - 1 /\ ~NewLoss(gate, n, now)
        /\ g.awaiting => now < g.deadline
        /\ ~gate.awaiting /\ ~NewLoss(gate, n, now) => ~g.awaiting
    <3>1. now \in Nat /\ gate \in Gates
      BY <1>1, <1>3
    <3> QED
      BY <2>1, <3>1, PollType
  <2>3. gate' = g
    BY <1>2 DEF n
  <2> HIDE DEF g
  <2>4. QED
    BY <2>2, <2>3 DEF n
<1>5. Foreseen' = Foreseen \ {now}
  BY <1>0, <1>2 DEF Foreseen
<1>6. ASSUME now \in Foreseen
      PROVE  /\ Cardinality(Foreseen') <= gate'.credit
             /\ ~gate.awaiting => ~gate'.awaiting
  <2>1. Cardinality(Foreseen') = Cardinality(Foreseen) - 1
    BY <1>1, <1>5, <1>6, FS_RemoveElement
  <2>2. Cardinality(Foreseen) # 0
    BY <1>1, <1>6, FS_EmptySet
  <2>3. now < gate.expiry /\ gate.credit > 0 /\ Cardinality(Foreseen) <= gate.credit
    BY <1>1, <1>6, <2>2 DEF IInv, Credits
  <2>4. dropped' = gate.dropped + 1
    BY <1>1, <1>2, <1>6
  <2>5. QED
    BY <1>1, <1>4, <2>1, <2>3, <2>4
<1>7. ASSUME now \notin Foreseen
      PROVE  Cardinality(Foreseen') <= gate'.credit
  <2>1. Foreseen' = Foreseen
    BY <1>5, <1>7
  <2>2. CASE Foreseen = {}
    <3>1. Cardinality(Foreseen') = 0 /\ gate'.credit \in Nat
      BY <1>4, <2>1, <2>2, FS_EmptySet DEF Gates
    <3>2. QED
      BY <3>1
  <2>3. CASE Foreseen # {}
    <3>1. PICK d \in Foreseen : TRUE
      BY <2>3
    <3>2. d \in Nat /\ now <= d /\ d - DropLag < rfi.next
      BY <1>1 DEF Foreseen, IInv, Credits
    <3>3. now - DropLag < rfi.next
      BY <1>1, <3>2
    <3>4. now \notin due
      BY <1>7, <3>3 DEF Foreseen
    <3>5. gate'.credit = gate.credit
      BY <1>1, <1>2, <1>4, <3>4
    <3>6. QED
      BY <2>1, <3>5 DEF IInv, Credits
  <2>4. QED
    BY <2>2, <2>3
<1>8. dropped' + Cardinality(due') = dropped + Cardinality(due)
  <2>1. Cardinality(due') = IF now \in due THEN Cardinality(due) - 1 ELSE Cardinality(due)
    BY <1>0, <1>1, FS_RemoveElement
  <2>2. QED
    BY <1>1, <1>2, <2>1
<1>9. now = 1 => ~gate'.awaiting
  BY <1>1, <1>2, <1>4 DEF IInv, Opening
<1>10. QED
  BY <1>3, <1>4, <1>5, <1>6, <1>7, <1>8, <1>9

LEMMA PumpInv == IInv /\ Pump => IInv'
<1> SUFFICES ASSUME IInv, Pump
             PROVE  IInv'
  OBVIOUS
<1> USE DEF IInv
<1>0. /\ pc = "pump" /\ pc' = "decode" /\ due' = due \ {now} /\ short' = NoFrame
      /\ UNCHANGED <<conf, now, sent, inbox, late, withheld, on_anchors, clean, shown>>
  BY DEF Pump
<1>1. PumpDoes
  BY PumpType
<1>2. /\ gate' \in Gates /\ gate'.dropped = dropped' /\ gate'.expiry = gate.expiry
      /\ gate'.credit <= gate.credit
      /\ gate'.awaiting => now < gate'.deadline
      /\ Foreseen' = Foreseen \ {now} /\ Cardinality(Foreseen') <= gate'.credit
      /\ dropped' \in Nat /\ dropped' + Cardinality(due') = dropped + Cardinality(due)
      /\ now = 1 => ~gate'.awaiting
  BY PumpCredits
<1>3. /\ now \in Nat /\ now >= 1 /\ used \in Nat /\ gate.credit \in Nat /\ rfi.next \in Nat
      /\ dropped \in Nat /\ Cardinality(due) \in Nat /\ Unseen \in Int /\ due \subseteq Nat
  BY DueType
<1>4. /\ Transit' = Transit /\ Flying' = Transit /\ Flying = Transit /\ Left' = Left
      /\ Unseen' = Unseen
  BY <1>0 DEF Transit, Flying, Left, Unseen
<1>5. Typed'
  <2>1. due' \in SUBSET Nat /\ short' \in 0 .. Horizon
    BY <1>0, <1>3, RecoveryAssumption DEF NoFrame
  <2>2. QED
    BY <1>0, <1>1, <1>2, <2>1 DEF Typed, PumpDoes
<1>6. Flow'
  BY <1>0, <1>1, <1>4 DEF Flow, PumpDoes
<1>7. Opening'
  <2>1. CASE now = 1
    <3>1. rfi'.next = 0 /\ fb'.acks = {} /\ host'.acked = {} /\ host'.floor = {}
      BY <1>0, <1>1, <2>1 DEF Opening, Fresh, PumpDoes
    <3>2. due' = {} /\ dropped' = 0 /\ gate'.credit = 0 /\ used' = 0
      BY <1>0, <1>1, <1>2, <1>3, <2>1 DEF Opening, PumpDoes, Gates
    <3>3. QED
      BY <1>0, <1>1, <1>2, <1>4, <2>1, <3>1, <3>2 DEF Opening, Fresh, PumpDoes
  <2>2. CASE now >= 2
    BY <1>0, <1>1, <2>2 DEF Opening, PumpDoes
  <2>3. QED
    BY <1>3, <2>1, <2>2
<1>8. Freeze'
  BY <1>0, <1>2 DEF Freeze
<1>9. Credits'
  BY <1>0, <1>2, <1>4 DEF Credits
<1>10. Paid'
  <2>1. used <= used' /\ used' \in Nat /\ rfi'.next = rfi.next
    BY <1>1, RecoveryAssumption DEF PumpDoes
  <2>2. gate'.credit \in Nat
    BY <1>2 DEF Gates
  <2>3. gate'.credit <= used'
    BY <1>2, <1>3, <2>1, <2>2 DEF Paid
  <2>4. dropped' + Cardinality(due') <= used'
    BY <1>2, <1>3, <2>1 DEF Paid
  <2>5. rfi.next > 0 => gate'.credit + Unseen + 1 - rfi.next <= used'
    BY <1>2, <1>3, <2>1, <2>2 DEF Paid
  <2>6. QED
    BY <1>4, <2>1, <2>3, <2>4, <2>5 DEF Paid
<1>11. Chain'
  BY <1>0, <1>1, <1>4 DEF Chain, PumpDoes
<1>12. Acked'
  <2>1. \A base : Based(base) => Based(base)'
    BY <1>0, <1>1, <1>4 DEF Based, PumpDoes
  <2>2. QED
    BY <1>0, <1>1, <2>1 DEF Acked, PumpDoes
<1>13. QED
  BY <1>5, <1>6, <1>7, <1>8, <1>9, <1>10, <1>11, <1>12

(* The decoder's own keyframe.                                             *)
LEMMA NeedKeyframeInv == IInv /\ NeedKeyframe => IInv'
<1> SUFFICES ASSUME IInv, NeedKeyframe
             PROVE  IInv'
  OBVIOUS
<1> USE DEF IInv
<1> DEFINE k == keyframe(rfi, now)
           o == ask(fb, k.ask, now)
<1>0. /\ pc = "pump" /\ used < MaxTroubles /\ now \in 2 .. LastTrouble /\ used' = used + 1
      /\ trouble' = now /\ rfi' = k.r /\ fb' = o
      /\ gate' = (IF gate.awaiting THEN gate ELSE arm(gate, now))
      /\ host' = on_feedback(host, stamp(o))
      /\ UNCHANGED <<conf, now, pc, sent, inbox, late, due, short, withheld, on_anchors, dropped,
                     clean, shown>>
  BY DEF NeedKeyframe, Trouble
<1>1. /\ now \in Nat /\ now >= 1 /\ used \in Nat /\ gate.credit \in Nat /\ rfi.next \in Nat
      /\ dropped \in Nat /\ Cardinality(due) \in Nat /\ Unseen \in Int
  BY DueType
<1>2. k.r \in Rfis /\ k.ask \in Asks /\ k.r.next = rfi.next
  BY <1>1, KeyframeType DEF Typed
<1> HIDE DEF k
<1>3. o \in Feedbacks /\ o.prev = fb.prev /\ o.clean = fb.clean /\ o.acks = fb.acks
  BY <1>1, <1>2, AskType DEF Typed
<1> HIDE DEF o
<1>4. /\ host' \in Hosts /\ host'.ltr = host.ltr /\ host'.floor = host.floor
      /\ host'.acked = host.acked
  BY <1>0, <1>3, StampType, OnFeedbackType DEF Typed
<1>5. /\ gate' \in Gates /\ gate'.dropped = gate.dropped /\ gate'.credit = gate.credit
      /\ gate'.expiry = gate.expiry
  BY <1>0, <1>1, ArmType DEF Typed
<1>6. /\ Transit' = Transit /\ Flying' = Flying /\ Left' = Left /\ Unseen' = Unseen
      /\ Foreseen' = Foreseen
  BY <1>0, <1>2 DEF Transit, Flying, Left, Unseen, Foreseen
<1>7. Typed'
  <2>1. used' \in 0 .. MaxTroubles /\ trouble' \in 0 .. LastTrouble
    BY <1>0, <1>1, RecoveryAssumption
  <2> QED
    BY <1>0, <1>2, <1>3, <1>4, <1>5, <2>1 DEF Typed
<1>8. Flow'
  BY <1>0, <1>2, <1>3, <1>6 DEF Flow
<1>9. Opening'
  BY <1>0, <1>2, <1>4 DEF Opening
<1>10. Freeze'
  BY <1>0 DEF Freeze
<1>11. Credits'
  BY <1>0, <1>5, <1>6 DEF Credits
<1>12. Paid'
  BY <1>0, <1>1, <1>2, <1>5, <1>6 DEF Paid
<1>13. Chain'
  BY <1>0, <1>2, <1>3, <1>6 DEF Chain
<1>14. Acked'
  <2>1. \A base : Based(base) => Based(base)'
    BY <1>0, <1>3, <1>4, <1>6 DEF Based
  <2>2. QED
    BY <1>0, <1>4, <2>1 DEF Acked
<1>15. QED
  BY <1>7, <1>8, <1>9, <1>10, <1>11, <1>12, <1>13, <1>14
-----------------------------------------------------------------------------
(* A frame is ahead of the window, or behind it; ahead, it may leave a gap;*)
(* it is fed to the decoder unless it is withheld; and it is whole if what *)
(* it predicts from is.                                                    *)
Ahead(f) == rfi.next = 0 \/ f.i >= rfi.next
Gap(f)   == IF rfi.next = 0 \/ f.i < rfi.next THEN 0 ELSE f.i - rfi.next
Fed(f)   == Ahead(f) /\ IF conf.ledger THEN ~withheld ELSE ~withholds(withheld, Gap(f), f)
Whole(f) == f.idr \/ f.ref \in clean

(* What decoding a frame does to each part of the client.                  *)
DecodeDoes(f) ==
  /\ rfi' \in Rfis /\ rfi'.next = IF Ahead(f) THEN f.i + 1 ELSE rfi.next
  /\ fb' \in Feedbacks /\ fb'.prev = IF f.i > fb.prev THEN f.i ELSE fb.prev
  /\ f.i > fb.prev => (fb'.clean <=> TakenClean(fb, f))
  /\ f.i <= fb.prev => fb'.clean = fb.clean /\ fb'.acks = fb.acks
  /\ fb'.acks \subseteq fb.acks \union {f.i} /\ (f.i \in fb'.acks \ fb.acks => fb'.clean)
  /\ gate' \in Gates /\ gate'.dropped = gate.dropped /\ gate'.credit = gate.credit + Gap(f)
  /\ gate'.expiry = IF Gap(f) > 0 THEN now + DropCreditWindow ELSE gate.expiry
  /\ gate'.awaiting => \/ gate'.deadline = now + FreezeMax
                       \/ gate.awaiting /\ gate'.deadline = gate.deadline
  /\ withheld' \in BOOLEAN /\ on_anchors' \in BOOLEAN
  /\ Ahead(f) /\ ~conf.ledger => (withheld' <=> withholds(withheld, Gap(f), f))
  /\ ~(Ahead(f) /\ ~conf.ledger) => withheld' = withheld
  /\ clean' = IF Fed(f) /\ Whole(f) THEN (IF f.idr THEN {f.i} ELSE clean \union {f.i}) ELSE clean
  /\ shown' \in {"held", "clean", "damaged"}
  /\ shown' = "damaged" => Fed(f) /\ ~Whole(f) /\ ~conf.ledger
  /\ host' \in Hosts /\ host'.ltr = host.ltr /\ host'.floor = host.floor
  /\ host'.acked \subseteq host.acked \union fb'.acks /\ (host.acked # {} => host'.acked # {})
  /\ used' \in 0 .. MaxTroubles /\ used <= used' /\ trouble' \in Nat
  /\ now = 1 => /\ used' = used /\ host'.rfi = {} /\ host'.acked # {} /\ fb'.open = NoAsk
                /\ rfi'.pending = {} /\ ~gate'.awaiting /\ ~withheld'

LEMMA DecodedFrame ==
  ASSUME IInv, pc = "decode", inbox # <<>>
  PROVE  /\ now \in Nat /\ now >= 1 /\ now <= Horizon /\ Horizon \in Nat /\ Left = now
         /\ Head(inbox) \in Frames /\ Head(inbox) = inbox[1] /\ Head(inbox) \in Transit
         /\ Head(inbox).i \in Ticks /\ Head(inbox).i \in Nat /\ Head(inbox).i >= 1
         /\ Head(inbox).i <= now
         /\ late = <<>> /\ Flying = Transit /\ Transit = Members(inbox)
         /\ Tail(inbox) \in Seq(Frames) /\ Len(Tail(inbox)) <= 1
         /\ Members(Tail(inbox)) \subseteq Transit
         /\ \A g \in Members(Tail(inbox)) : g.i < Head(inbox).i
         /\ Tail(inbox) # <<>> => Tail(inbox)[1].i < Head(inbox).i
         /\ now = 1 => rfi.next = 0 /\ Head(inbox).idr
<1> USE DEF IInv
<1>1. now \in Nat /\ now >= 1 /\ now <= Horizon /\ Horizon \in Nat /\ Left = now /\ inbox \in Seq(Frames)
  BY RecoveryAssumption DEF Typed, Left
<1>2. /\ Head(inbox) \in Frames /\ Head(inbox) = inbox[1] /\ Head(inbox) \in Members(inbox)
      /\ Tail(inbox) \in Seq(Frames) /\ Len(Tail(inbox)) = Len(inbox) - 1 /\ Len(inbox) >= 1
      /\ Members(Tail(inbox)) \subseteq Members(inbox)
      /\ Len(inbox) <= 2 => Members(Tail(inbox)) \subseteq {inbox[2]}
      /\ Len(inbox) = 1 => Tail(inbox) = <<>>
      /\ Tail(inbox) # <<>> => Len(inbox) >= 2 /\ Tail(inbox)[1] = inbox[2]
  BY <1>1, TakeOne
<1>3. Len(inbox) \in Nat /\ Len(inbox) <= 2 /\ late = <<>>
      /\ (Len(inbox) = 2 => inbox[2].i < inbox[1].i)
  BY <1>1, LenProperties DEF Flow
<1>4. Flying = Transit /\ Transit = Members(inbox)
  BY <1>3, Empty DEF Flying, Transit
<1>5. Head(inbox).i \in 1 .. now
  BY <1>1, <1>2, <1>4 DEF Flow
<1>6. /\ Len(Tail(inbox)) <= 1
      /\ \A g \in Members(Tail(inbox)) : g.i < Head(inbox).i
      /\ Tail(inbox) # <<>> => Tail(inbox)[1].i < Head(inbox).i
  <2>1. CASE Len(inbox) = 1
    <3>1. Tail(inbox) = <<>> /\ Members(Tail(inbox)) = {} /\ Len(Tail(inbox)) = 0
      BY <1>2, <2>1, Empty
    <3>2. QED
      BY <3>1
  <2>2. CASE Len(inbox) = 2
    <3>1. Members(Tail(inbox)) \subseteq {inbox[2]} /\ inbox[2].i < Head(inbox).i
      BY <1>2, <1>3, <2>2
    <3>2. Len(Tail(inbox)) <= 1
      <4>1. Len(Tail(inbox)) = 2 - 1
        BY <1>2, <2>2, Zenon
      <4>2. \A n : n = 2 - 1 => n <= 1
        OBVIOUS
      <4>3. QED
        BY <4>1, <4>2, Zenon
    <3>3. \A g \in Members(Tail(inbox)) : g.i < Head(inbox).i
      BY <3>1
    <3>4. Tail(inbox) # <<>> => Tail(inbox)[1].i < Head(inbox).i
      BY <1>2, <3>1
    <3>5. QED
      BY <3>2, <3>3, <3>4
  <2>3. Len(inbox) = 1 \/ Len(inbox) = 2
    <3>1. \A n \in Nat : n >= 1 /\ n <= 2 => n = 1 \/ n = 2
      OBVIOUS
    <3>2. QED
      BY <1>2, <1>3, <3>1
  <2>4. QED
    BY <2>1, <2>2, <2>3
<1>7. now = 1 => rfi.next = 0 /\ Head(inbox).idr
  BY <1>2, <1>4 DEF Opening, Fresh
<1>8. QED
  BY <1>1, <1>2, <1>3, <1>4, <1>5, <1>6, <1>7 DEF Ticks

LEMMA DecodeType == IInv /\ Decode => DecodeDoes(Head(inbox))
<1> SUFFICES ASSUME IInv, Decode
             PROVE  DecodeDoes(Head(inbox))
  OBVIOUS
<1> DEFINE f       == Head(inbox)
           took    == taken(on_frame(fb, f), f)
           acks    == IF took.prev = f.i /\ took.clean THEN took.acks ELSE {}
           r       == IF f.anchor THEN [rfi EXCEPT !.anchored = f.i] ELSE rfi
           jump    == Jump(r, f.i)
           seen    == observe(r, f.i, now)
           armed   == IF jump > 0 THEN arm_expecting_drops(gate, now, jump) ELSE gate
           holding == IF jump >= 0 /\ ~conf.ledger THEN withholds(withheld, jump, f) ELSE withheld
           fed     == jump >= 0 /\ ~holding
           whole   == f.idr \/ f.ref \in clean
           damaged == fed /\ conf.ledger /\ ~whole
           folded  == IF fed THEN on_decoded(armed, f, damaged, now) ELSE armed
           want    == damaged /\ ~armed.awaiting
           k       == IF want THEN keyframe(seen.r, now) ELSE [r |-> seen.r, ask |-> NoAsk]
           o       == ask(ask(took, seen.ask, now), k.ask, now)
           second  == IF o.n > took.n THEN stamp(o) ELSE Ack({})
<1>0. /\ pc = "decode" /\ inbox # <<>> /\ inbox' = Tail(inbox)
      /\ rfi' = k.r /\ gate' = folded /\ withheld' = holding /\ fb' = o /\ on_anchors' = f.anchor
      /\ clean' = IF ~fed \/ ~whole THEN clean ELSE IF f.idr THEN {f.i} ELSE clean \union {f.i}
      /\ shown' = IF ~fed \/ folded.awaiting THEN "held" ELSE IF whole THEN "clean" ELSE "damaged"
      /\ Send(Ack(acks), second)
  BY DEF Decode
<1>1. /\ now \in Nat /\ now >= 1 /\ f \in Frames /\ f.i \in Ticks /\ f.i \in Nat /\ f.i >= 1
      /\ now = 1 => rfi.next = 0 /\ f.idr
  BY <1>0, DecodedFrame
<1>2. Typed /\ rfi \in Rfis /\ gate \in Gates /\ fb \in Feedbacks /\ withheld \in BOOLEAN
      /\ rfi.next \in Nat /\ fb.prev \in Nat /\ conf.ledger \in BOOLEAN /\ f.idr \in BOOLEAN
  BY <1>1, ConfType DEF IInv, Typed, Rfis, Feedbacks, Frames
<1> HIDE DEF f
<1>3. /\ took \in Feedbacks /\ took.prev = (IF f.i > fb.prev THEN f.i ELSE fb.prev)
      /\ f.i > fb.prev => (took.clean <=> TakenClean(fb, f))
      /\ f.i <= fb.prev => took.clean = fb.clean /\ took.acks = fb.acks
      /\ took.acks \subseteq fb.acks \union {f.i} /\ (f.i \in took.acks \ fb.acks => took.clean)
      /\ f.i > fb.prev /\ f.idr => f.i \in took.acks /\ took.clean
      /\ fb.open = NoAsk => took.open = NoAsk
  <2> DEFINE w == on_frame(fb, f)
  <2>1. /\ w \in Feedbacks /\ w.prev = fb.prev /\ w.clean = fb.clean /\ w.acks = fb.acks
        /\ fb.open = NoAsk => w.open = NoAsk
    BY <1>1, <1>2, OnFrameType
  <2> HIDE DEF w
  <2>2. TakenClean(w, f) <=> TakenClean(fb, f)
    BY <2>1 DEF TakenClean
  <2>3. /\ taken(w, f) \in Feedbacks /\ taken(w, f).open = w.open
        /\ f.i <= w.prev => taken(w, f) = w
        /\ f.i > w.prev =>
             /\ taken(w, f).prev = f.i
             /\ taken(w, f).clean <=> TakenClean(w, f)
             /\ ~TakenClean(w, f) => taken(w, f).acks = w.acks
             /\ TakenClean(w, f) => /\ taken(w, f).acks \subseteq w.acks \union {f.i}
                                    /\ f.i \in taken(w, f).acks
    BY <1>1, <2>1, TakenType
  <2>4. took = taken(w, f)
    BY DEF w
  <2> HIDE DEF took
  <2>5. f.idr => TakenClean(w, f)
    BY DEF TakenClean
  <2>6. CASE f.i > fb.prev
    BY <1>1, <1>2, <2>1, <2>2, <2>3, <2>4, <2>5, <2>6
  <2>7. CASE f.i <= fb.prev
    BY <1>1, <1>2, <2>1, <2>3, <2>4, <2>7
  <2>8. QED
    BY <1>1, <1>2, <2>6, <2>7
<1> HIDE DEF took
<1>4. acks \in SUBSET Ticks /\ acks \subseteq took.acks
  BY <1>3 DEF Feedbacks
<1>5. /\ r \in Rfis /\ r.next = rfi.next /\ r.pending = rfi.pending
  BY <1>1, <1>2 DEF Rfis
<1> HIDE DEF r, acks
<1>6. /\ jump = (IF rfi.next = 0 THEN 0 ELSE IF f.i < rfi.next THEN -1 ELSE f.i - rfi.next)
      /\ jump \in Int /\ (jump >= 0 <=> Ahead(f)) /\ (jump < 0 <=> ~Ahead(f))
      /\ jump >= 0 => jump = Gap(f) /\ jump \in Nat
      /\ jump < 0 => Gap(f) = 0
      /\ jump > 0 <=> Gap(f) > 0
  <2>1. jump = IF rfi.next = 0 THEN 0 ELSE IF f.i < rfi.next THEN -1 ELSE f.i - rfi.next
    BY <1>5 DEF Jump
  <2> HIDE DEF jump
  <2>2. QED
    BY <1>1, <1>2, <2>1 DEF Ahead, Gap
<1>7. /\ seen.r \in Rfis /\ seen.ask \in Asks
      /\ seen.r.next = IF Ahead(f) THEN f.i + 1 ELSE rfi.next
      /\ jump = 0 /\ rfi.pending = {} => seen.r.pending = {} /\ seen.ask = NoAsk
  <2>1. /\ seen.r \in Rfis /\ seen.ask \in Asks
        /\ seen.r.next = IF jump < 0 THEN r.next ELSE f.i + 1
        /\ jump = 0 /\ r.pending = {} => seen.r.pending = {} /\ seen.ask = NoAsk
    BY <1>1, <1>5, ObserveType
  <2> HIDE DEF seen, jump
  <2>2. QED
    BY <1>5, <1>6, <2>1
<1> HIDE DEF jump, seen
<1>8. /\ armed \in Gates /\ armed.dropped = gate.dropped /\ armed.credit = gate.credit + Gap(f)
      /\ armed.expiry = IF Gap(f) > 0 THEN now + DropCreditWindow ELSE gate.expiry
      /\ armed.awaiting => \/ armed.deadline = now + FreezeMax
                           \/ gate.awaiting /\ armed.deadline = gate.deadline
  <2>1. CASE jump > 0
    <3>1. jump \in Nat /\ jump = Gap(f) /\ Gap(f) > 0
      BY <1>6, <2>1
    <3> DEFINE g == Gap(f)
               a == arm_expecting_drops(gate, now, g)
    <3>2. armed = a /\ g \in Nat
      BY <2>1, <3>1
    <3> HIDE DEF g
    <3>3. /\ a \in Gates /\ a.awaiting /\ a.deadline = now + FreezeMax
          /\ a.dropped = gate.dropped /\ a.credit = gate.credit + g
          /\ a.expiry = now + DropCreditWindow
      BY <1>1, <1>2, <3>2, ArmExpectingType
    <3> HIDE DEF armed, a
    <3>4. QED
      BY <3>1, <3>2, <3>3 DEF g
  <2>2. CASE ~(jump > 0)
    <3>1. Gap(f) = 0 /\ gate.credit \in Nat
      BY <1>2, <1>6, <2>2 DEF Gates
    <3>2. QED
      BY <1>2, <2>2, <3>1
  <2>3. QED
    BY <2>1, <2>2
<1> HIDE DEF armed
<1>9. /\ holding \in BOOLEAN
      /\ Ahead(f) /\ ~conf.ledger => (holding <=> withholds(withheld, Gap(f), f))
      /\ ~(Ahead(f) /\ ~conf.ledger) => holding = withheld
  <2>1. withholds(withheld, jump, f) \in BOOLEAN
    BY DEF withholds
  <2>2. CASE Ahead(f) /\ ~conf.ledger
    BY <1>6, <2>1, <2>2
  <2>3. CASE ~(Ahead(f) /\ ~conf.ledger)
    BY <1>2, <1>6, <2>3
  <2>4. QED
    BY <2>2, <2>3
<1> HIDE DEF holding
<1>10. fed <=> Fed(f)
  BY <1>6, <1>9 DEF Fed
<1>11. whole <=> Whole(f)
  BY DEF Whole
<1> HIDE DEF fed, whole
<1>12. damaged \in BOOLEAN /\ (damaged <=> Fed(f) /\ conf.ledger /\ ~Whole(f))
  BY <1>10, <1>11
<1> HIDE DEF damaged
<1>13. /\ folded \in Gates /\ folded.dropped = armed.dropped /\ folded.credit = armed.credit
       /\ folded.expiry = armed.expiry
       /\ folded.awaiting => \/ folded.deadline = now + FreezeMax
                             \/ armed.awaiting /\ folded.deadline = armed.deadline
       /\ damaged => folded.awaiting
       /\ fed /\ f.idr => ~folded.awaiting
  <2>1. CASE fed
    <3>1. damaged => ~f.idr
      BY <1>12 DEF Whole
    <3>2. folded = on_decoded(armed, f, damaged, now)
      BY <2>1
    <3> HIDE DEF folded
    <3>3. DecodedTo(armed, f, damaged, now, folded)
      BY <1>1, <1>8, <3>2, OnDecodedType
    <3>4. QED
      BY <2>1, <3>1, <3>3 DEF DecodedTo
  <2>2. CASE ~fed
    BY <1>8, <1>10, <1>12, <2>2
  <2>3. QED
    BY <2>1, <2>2
<1> HIDE DEF folded
<1>14. /\ k.r \in Rfis /\ k.ask \in Asks /\ k.r.next = seen.r.next
       /\ ~damaged => k.r = seen.r /\ k.ask = NoAsk
  <2>1. CASE want
    BY <1>1, <1>7, <2>1, KeyframeType
  <2>2. CASE ~want
    BY <1>7, <2>2, AskTypes
  <2>3. QED
    BY <2>1, <2>2
<1> HIDE DEF k
<1>15. /\ o \in Feedbacks /\ o.prev = took.prev /\ o.clean = took.clean /\ o.acks = took.acks
       /\ seen.ask = NoAsk /\ k.ask = NoAsk => o = took
  <2> DEFINE p == ask(took, seen.ask, now)
  <2>1. /\ p \in Feedbacks /\ p.prev = took.prev /\ p.clean = took.clean /\ p.acks = took.acks
    BY <1>1, <1>3, <1>7, AskType
  <2>2. seen.ask = NoAsk => p = took
    BY DEF ask
  <2> HIDE DEF p
  <2>3. o = ask(p, k.ask, now)
    BY DEF p
  <2>4. k.ask = NoAsk => o = p
    BY <2>3 DEF ask
  <2> HIDE DEF o
  <2>5. QED
    BY <1>1, <1>14, <2>1, <2>2, <2>3, <2>4, AskType
<1> HIDE DEF o
<1>16. /\ second \in Datagrams /\ second.acked = {}
       /\ o = took => second.ask = 0
  <2>1. stamp(o) \in Datagrams /\ stamp(o).acked = {}
    BY <1>15, StampType
  <2>2. Ack({}) \in Datagrams /\ Ack({}).acked = {} /\ Ack({}).ask = 0
    BY AckType
  <2>3. o = took => ~(o.n > took.n)
    BY <1>3 DEF Feedbacks
  <2>4. QED
    BY <2>1, <2>2, <2>3
<1> HIDE DEF second
<1>17. /\ host' \in Hosts /\ host'.ltr = host.ltr /\ host'.floor = host.floor
       /\ host'.acked \subseteq host.acked \union acks
       /\ host.acked # {} => host'.acked # {}
       /\ used' \in 0 .. MaxTroubles /\ used <= used' /\ trouble' \in Nat
       /\ now = 1 => /\ used' = used
                     /\ second.ask = 0 => host'.rfi = host.rfi
                     /\ acks # {} => host'.acked # {}
  <2> DEFINE d == Ack(acks)
  <2>1. d \in Datagrams /\ d.ask = 0 /\ d.acked = acks /\ Send(d, second)
    BY <1>0, <1>4, AckType
  <2> HIDE DEF d
  <2>2. /\ host' \in Hosts /\ host'.ltr = host.ltr /\ host'.floor = host.floor
        /\ host'.acked \subseteq host.acked \union d.acked \union second.acked
        /\ host.acked # {} => host'.acked # {}
        /\ used' \in 0 .. MaxTroubles /\ used <= used' /\ trouble' \in Nat
        /\ now = 1 => /\ used' = used
                      /\ d.ask = 0 /\ second.ask = 0 => host'.rfi = host.rfi
                      /\ d.acked # {} => host'.acked # {}
    BY <1>2, <1>16, <2>1, SendType
  <2>3. QED
    BY <1>16, <2>1, <2>2
<1>18. ASSUME now = 1
       PROVE  /\ used' = used /\ host'.rfi = {} /\ host'.acked # {} /\ fb'.open = NoAsk
              /\ rfi'.pending = {} /\ ~gate'.awaiting /\ ~withheld'
  <2>1. /\ rfi.next = 0 /\ f.idr /\ fb.open = NoAsk /\ rfi.pending = {} /\ host.rfi = {}
        /\ ~withheld
    BY <1>1, <1>18 DEF IInv, Opening
  <2>2. jump = 0 /\ Ahead(f) /\ Gap(f) = 0
    BY <1>6, <2>1 DEF Ahead, Gap
  <2>3. ~holding
    BY <1>9, <2>1 DEF withholds
  <2>4. Fed(f) /\ Whole(f) /\ ~damaged
    BY <1>9, <1>12, <2>1, <2>2, <2>3 DEF Fed, Whole, withholds
  <2>5. ~folded.awaiting
    BY <1>10, <1>13, <2>1, <2>4
  <2>6. seen.r.pending = {} /\ seen.ask = NoAsk /\ k.r = seen.r /\ k.ask = NoAsk /\ o = took
    BY <1>7, <1>14, <1>15, <2>1, <2>2, <2>4
  <2>7. f.i > fb.prev
    BY <1>0, <1>1, <1>18, <2>1 DEF IInv, Flow, Typed, Feedbacks
  <2>8. f.i \in acks
    BY <1>3, <2>1, <2>7 DEF acks
  <2>9. used' = used /\ host'.rfi = {} /\ host'.acked # {}
    BY <1>16, <1>17, <1>18, <2>1, <2>6, <2>8
  <2>10. fb'.open = NoAsk /\ rfi'.pending = {} /\ ~gate'.awaiting /\ ~withheld'
    BY <1>0, <1>3, <2>1, <2>3, <2>5, <2>6
  <2>11. QED
    BY <2>9, <2>10
<1>19. /\ clean' = IF Fed(f) /\ Whole(f) THEN (IF f.idr THEN {f.i} ELSE clean \union {f.i}) ELSE clean
       /\ shown' \in {"held", "clean", "damaged"}
       /\ shown' = "damaged" => Fed(f) /\ ~Whole(f) /\ ~conf.ledger
  BY <1>0, <1>10, <1>11, <1>12, <1>13
<1>20. /\ rfi' \in Rfis /\ rfi'.next = IF Ahead(f) THEN f.i + 1 ELSE rfi.next
  BY <1>0, <1>7, <1>14
<1>21. /\ fb' \in Feedbacks /\ fb'.prev = IF f.i > fb.prev THEN f.i ELSE fb.prev
       /\ f.i > fb.prev => (fb'.clean <=> TakenClean(fb, f))
       /\ f.i <= fb.prev => fb'.clean = fb.clean /\ fb'.acks = fb.acks
       /\ fb'.acks \subseteq fb.acks \union {f.i} /\ (f.i \in fb'.acks \ fb.acks => fb'.clean)
       /\ acks \subseteq fb'.acks
  BY <1>0, <1>3, <1>4, <1>15
<1>22. /\ gate' \in Gates /\ gate'.dropped = gate.dropped /\ gate'.credit = gate.credit + Gap(f)
       /\ gate'.expiry = IF Gap(f) > 0 THEN now + DropCreditWindow ELSE gate.expiry
       /\ gate'.awaiting => \/ gate'.deadline = now + FreezeMax
                            \/ gate.awaiting /\ gate'.deadline = gate.deadline
  BY <1>0, <1>8, <1>13
<1>23. /\ withheld' \in BOOLEAN
       /\ Ahead(f) /\ ~conf.ledger => (withheld' <=> withholds(withheld, Gap(f), f))
       /\ ~(Ahead(f) /\ ~conf.ledger) => withheld' = withheld
  BY <1>0, <1>9
<1>24. on_anchors' \in BOOLEAN
  BY <1>0, <1>1 DEF Frames
<1>25. DecodeDoes(f)
  BY <1>17, <1>18, <1>19, <1>20, <1>21, <1>22, <1>23, <1>24 DEF DecodeDoes
<1>26. QED
  BY <1>25 DEF f

(* What a frame that goes up leaves behind it: only older frames wait.     *)
DecodeLeaves(f) ==
  /\ pc = "decode" /\ inbox # <<>> /\ f = Head(inbox) /\ inbox' = Tail(inbox)
  /\ UNCHANGED <<conf, now, pc, sent, late, due, short, dropped>>
  /\ now \in Nat /\ now >= 1 /\ f \in Frames /\ f \in Flying /\ f.i \in Ticks /\ f.i \in 1 .. now
  /\ Left = now /\ Left' = now /\ late = <<>> /\ Flying' = Transit' /\ Flying' \subseteq Flying
  /\ \A g \in Flying' : g.i < f.i /\ g.i \in 1 .. now
  /\ Unseen' = now /\ Unseen = IF f.i = now THEN now - 1 ELSE now
  /\ Len(inbox') <= 1 /\ inbox' \in Seq(Frames)
  /\ now = 1 => inbox' = <<>> /\ rfi.next = 0 /\ f.idr /\ f.i = 1 /\ due = {}
  /\ rfi.next = 0 <=> now = 1
  /\ rfi.next \in Nat /\ fb.prev \in Nat /\ fb.prev <= now
  /\ rfi.next = IF fb.prev = 0 THEN 0 ELSE fb.prev + 1
  /\ Ahead(f) <=> f.i > fb.prev

LEMMA DecodeStep == IInv /\ Decode => DecodeLeaves(Head(inbox))
<1> SUFFICES ASSUME IInv, Decode
             PROVE  DecodeLeaves(Head(inbox))
  OBVIOUS
<1> USE DEF IInv
<1> DEFINE f == Head(inbox)
<1>0. /\ pc = "decode" /\ inbox # <<>> /\ inbox' = Tail(inbox)
      /\ UNCHANGED <<conf, now, pc, sent, late, due, short, dropped>>
  BY DEF Decode
<1>1. /\ now \in Nat /\ now >= 1 /\ Left = now /\ f \in Frames /\ f = inbox[1] /\ f \in Transit
      /\ f.i \in Ticks /\ f.i \in Nat /\ f.i >= 1 /\ f.i <= now
      /\ late = <<>> /\ Flying = Transit /\ Transit = Members(inbox)
      /\ Tail(inbox) \in Seq(Frames) /\ Len(Tail(inbox)) <= 1
      /\ Members(Tail(inbox)) \subseteq Transit
      /\ \A g \in Members(Tail(inbox)) : g.i < f.i
      /\ Tail(inbox) # <<>> => Tail(inbox)[1].i < f.i
      /\ now = 1 => rfi.next = 0 /\ f.idr
  BY <1>0, DecodedFrame
<1> HIDE DEF f
<1>2. Left' = now /\ Transit' = Members(Tail(inbox)) /\ Flying' = Transit'
  BY <1>0, <1>1, Empty DEF Left, Transit, Flying
<1>3. \A g \in Flying' : g.i < f.i /\ g.i \in 1 .. now
  BY <1>1, <1>2 DEF Flow
<1>4. Unseen = IF f.i = now THEN now - 1 ELSE now
  BY <1>0, <1>1 DEF Unseen
<1>5. Unseen' = now
  <2>1. inbox' # <<>> => inbox'[1].i < f.i
    BY <1>0, <1>1
  <2>2. inbox' # <<>> => inbox'[1].i \in 1 .. now
    <3>1. Tail(inbox) # <<>> => Tail(inbox)[1] \in Members(Tail(inbox))
      BY <1>1, TakeOne
    <3>2. QED
      BY <1>0, <1>2, <1>3, <3>1
  <2>3. QED
    BY <1>0, <1>1, <1>2, <2>1, <2>2 DEF Unseen
<1>6. rfi.next \in Nat /\ fb.prev \in Nat /\ fb.prev <= now
      /\ rfi.next = IF fb.prev = 0 THEN 0 ELSE fb.prev + 1
  BY <1>1 DEF Typed, Rfis, Feedbacks, Flow
<1>7. rfi.next = 0 <=> now = 1
  BY <1>1, <1>6 DEF Opening
<1>8. Ahead(f) <=> f.i > fb.prev
  BY <1>1, <1>6 DEF Ahead
<1>9. now = 1 => inbox' = <<>> /\ f.i = 1 /\ due = {}
  <2>1. now = 1 => f.i = 1 /\ due = {}
    BY <1>1 DEF Opening
  <2>2. inbox' # <<>> => inbox'[1] \in Flying'
    <3>1. Tail(inbox) # <<>> => Tail(inbox)[1] \in Members(Tail(inbox))
      BY <1>1, TakeOne
    <3>2. QED
      BY <1>0, <1>2, <3>1
  <2>3. QED
    BY <1>3, <2>1, <2>2
<1>10. DecodeLeaves(f)
  BY <1>0, <1>1, <1>2, <1>3, <1>4, <1>5, <1>6, <1>7, <1>8, <1>9 DEF DecodeLeaves, f
<1>11. QED
  BY <1>10 DEF f

(* Under confirmed references a frame taken clean is fed and whole, and so *)
(* is every frame that is fed on a lane without a ledger.                  *)
LEMMA FedIsWhole ==
  ASSUME IInv, NEW f, DecodeLeaves(f), conf.floor, Ahead(f)
  PROVE  /\ TakenClean(fb, f) => Fed(f) /\ Whole(f) /\ ~withholds(withheld, Gap(f), f)
         /\ ~conf.ledger /\ Fed(f) => Whole(f)
<1>1. IF f.idr THEN ~f.anchor ELSE f.anchor \/ f.ref = f.i - 1
  BY DEF IInv, Flow, DecodeLeaves
<1>2. /\ conf.ledger => ~withheld
      /\ fb.clean => ~withheld /\ fb.prev \in clean
      /\ ~conf.ledger /\ ~withheld /\ rfi.next > 0 => rfi.next - 1 \in clean
      /\ f.anchor /\ f.i >= rfi.next => f.ref \in clean
  BY DEF IInv, Chain, DecodeLeaves
<1>3. /\ f.i \in Nat /\ rfi.next \in Nat /\ fb.prev \in Nat /\ now \in Nat
      /\ rfi.next = IF fb.prev = 0 THEN 0 ELSE fb.prev + 1
      /\ rfi.next = 0 => f.idr
  BY DEF DecodeLeaves
<1>4. f.i >= rfi.next
  BY <1>3 DEF Ahead
<1>5. f.idr \/ f.anchor => Whole(f) /\ ~withholds(withheld, Gap(f), f)
  BY <1>2, <1>4 DEF Whole, withholds
<1>6. ASSUME ~f.idr, ~f.anchor, ~withheld, Gap(f) = 0
      PROVE  f.ref = rfi.next - 1 /\ rfi.next > 0 /\ f.i = fb.prev + 1
  <2>1. f.i = rfi.next
    BY <1>3, <1>4, <1>6 DEF Gap
  <2>2. QED
    BY <1>1, <1>3, <1>6, <2>1
<1>7. ASSUME ~f.idr, ~f.anchor, TakenClean(fb, f)
      PROVE  Whole(f) /\ ~withholds(withheld, Gap(f), f)
  <2>1. f.i = fb.prev + 1 /\ fb.clean
    BY <1>7 DEF TakenClean
  <2>2. Gap(f) = 0
    BY <1>3, <2>1 DEF Gap
  <2>3. f.ref = fb.prev
    BY <1>1, <1>3, <1>7, <2>1
  <2>4. QED
    BY <1>2, <2>1, <2>2, <2>3 DEF Whole, withholds
<1>8. TakenClean(fb, f) => Fed(f) /\ Whole(f) /\ ~withholds(withheld, Gap(f), f)
  BY <1>2, <1>5, <1>7 DEF Fed
<1>9. ASSUME ~conf.ledger, Fed(f)
      PROVE  Whole(f)
  <2>1. CASE f.idr \/ f.anchor
    BY <1>5, <2>1
  <2>2. CASE ~f.idr /\ ~f.anchor
    <3>1. ~withheld /\ ~(Gap(f) > 0)
      BY <1>9, <2>2 DEF Fed, withholds
    <3>2. Gap(f) = 0
      BY <1>3, <1>4, <3>1 DEF Gap
    <3>3. QED
      BY <1>2, <1>6, <1>9, <2>2, <3>1, <3>2 DEF Whole
  <2>3. QED
    BY <2>1, <2>2
<1>10. QED
  BY <1>8, <1>9

(* A gap is credited once for each frame missing in it, and the credit     *)
(* outlasts the last drop they can book.                                   *)
LEMMA DecodeForesees ==
  ASSUME IInv, NEW f, DecodeLeaves(f), DecodeDoes(f)
  PROVE  /\ \A d \in Foreseen' : d < gate'.expiry
         /\ Cardinality(Foreseen') <= gate'.credit
<1>1. /\ IsFiniteSet(due) /\ due \subseteq Nat
      /\ IsFiniteSet(Foreseen) /\ Cardinality(Foreseen) \in Nat /\ Foreseen \subseteq due
      /\ now \in Nat /\ now >= 1 /\ DropLag \in Nat /\ rfi.next \in Nat
      /\ gate.credit \in Nat /\ gate.expiry \in Nat
  BY DueType
<1>2. /\ \A d \in Foreseen : d < gate.expiry
      /\ Cardinality(Foreseen) <= gate.credit
  BY DEF IInv, Credits
<1>3. /\ due' = due /\ f.i \in Nat /\ f.i <= now /\ f.i + DropLag \notin due
      /\ rfi.next = 0 => due = {}
  BY DEF DecodeLeaves, IInv, Credits
<1>4. /\ rfi'.next = IF Ahead(f) THEN f.i + 1 ELSE rfi.next
      /\ gate'.credit = gate.credit + Gap(f)
      /\ gate'.expiry = IF Gap(f) > 0 THEN now + DropCreditWindow ELSE gate.expiry
  BY DEF DecodeDoes
<1>5. /\ Foreseen' = {d \in due : d - DropLag < rfi'.next}
      /\ Foreseen = {d \in due : d - DropLag < rfi.next}
  BY <1>3 DEF Foreseen
<1>6. CASE ~Ahead(f)
  <2>1. Gap(f) = 0
    BY <1>1, <1>3, <1>6 DEF Ahead, Gap
  <2>2. Foreseen' = Foreseen
    BY <1>4, <1>5, <1>6
  <2>3. QED
    BY <1>1, <1>2, <1>4, <2>1, <2>2
<1>7. CASE Ahead(f) /\ rfi.next = 0
  <2>1. Gap(f) = 0
    BY <1>7 DEF Gap
  <2>2. Foreseen' = Foreseen
    BY <1>3, <1>5, <1>7
  <2>3. QED
    BY <1>1, <1>2, <1>4, <2>1, <2>2
<1>8. CASE Ahead(f) /\ rfi.next > 0
  <2>1. f.i >= rfi.next /\ Gap(f) = f.i - rfi.next /\ Gap(f) \in Nat
    BY <1>1, <1>3, <1>8 DEF Ahead, Gap
  <2>2. \A d \in Foreseen' : d \in due /\ d \in Nat /\ d < f.i + DropLag
    <3>1. \A d \in Foreseen' : d \in due /\ d \in Nat /\ d - DropLag < f.i + 1 /\ d # f.i + DropLag
      BY <1>1, <1>3, <1>4, <1>5, <1>8
    <3>2. QED
      BY <1>1, <1>3, <3>1
  <2>3. CASE Gap(f) = 0
    <3>1. f.i = rfi.next
      BY <1>1, <1>3, <2>1, <2>3
    <3>2. \A d \in due : d - DropLag < rfi.next <=> d - DropLag < f.i + 1
      <4> SUFFICES ASSUME NEW d \in due
                   PROVE  d - DropLag < rfi.next <=> d - DropLag < f.i + 1
        OBVIOUS
      <4>1. d \in Nat /\ d # f.i + DropLag
        BY <1>1, <1>3
      <4>2. QED
        BY <1>1, <1>3, <3>1, <4>1
    <3>3. rfi'.next = f.i + 1
      BY <1>4, <1>8
    <3>4. Foreseen' = Foreseen
      BY <1>5, <3>2, <3>3
    <3>5. QED
      BY <1>1, <1>2, <1>4, <2>3, <3>4
  <2>4. CASE Gap(f) > 0
    <3> DEFINE lo   == rfi.next + DropLag
               hi   == f.i + DropLag - 1
               Fell == lo .. hi
    <3>1. lo \in Nat /\ hi \in Nat /\ hi >= lo /\ hi - lo + 1 = Gap(f)
      BY <1>1, <1>3, <2>1, <2>4
    <3>2. IsFiniteSet(Fell) /\ Cardinality(Fell) = Gap(f)
      <4> HIDE DEF lo, hi
      <4>1. IsFiniteSet(lo .. hi) /\ Cardinality(lo .. hi) = IF lo > hi THEN 0 ELSE hi - lo + 1
        BY <3>1, FS_Interval
      <4>2. QED
        BY <3>1, <4>1
    <3>3. Foreseen' \subseteq Foreseen \union Fell
      <4> SUFFICES ASSUME NEW d \in Foreseen', d \notin Foreseen
                   PROVE  d \in Fell
        OBVIOUS
      <4>1. d \in Nat /\ d < f.i + DropLag /\ ~(d - DropLag < rfi.next)
        BY <1>5, <2>2
      <4>2. QED
        BY <1>1, <1>3, <4>1
    <3> HIDE DEF Fell
    <3>4. /\ IsFiniteSet(Foreseen \union Fell)
          /\ Cardinality(Foreseen \union Fell) <= Cardinality(Foreseen) + Gap(f)
      <4>1. /\ IsFiniteSet(Foreseen \union Fell) /\ IsFiniteSet(Foreseen \cap Fell)
            /\ Cardinality(Foreseen \union Fell) =
                 Cardinality(Foreseen) + Cardinality(Fell) - Cardinality(Foreseen \cap Fell)
        BY <1>1, <3>2, FS_Union, FS_Intersection
      <4>2. Cardinality(Foreseen \cap Fell) \in Nat
        BY <4>1, FS_CardinalityType
      <4>3. QED
        BY <1>1, <2>1, <3>2, <4>1, <4>2
    <3>5. IsFiniteSet(Foreseen') /\ Cardinality(Foreseen') <= Cardinality(Foreseen \union Fell)
      BY <3>3, <3>4, FS_Subset
    <3>6. Cardinality(Foreseen') \in Nat /\ Cardinality(Foreseen \union Fell) \in Nat
      BY <3>4, <3>5, FS_CardinalityType
    <3>7. Cardinality(Foreseen') <= gate'.credit
      BY <1>1, <1>2, <1>4, <2>1, <3>4, <3>5, <3>6
    <3>8. \A d \in Foreseen' : d < gate'.expiry
      BY <1>1, <1>3, <1>4, <2>2, <2>4, RecoveryAssumption, ClientAssumption
    <3>9. QED
      BY <3>7, <3>8
  <2>5. QED
    BY <2>1, <2>3, <2>4
<1>9. QED
  BY <1>1, <1>6, <1>7, <1>8

(* What a gap credits was already paid for by the frames lost in it.       *)
LEMMA DecodePaid ==
  ASSUME IInv, NEW f, DecodeLeaves(f), DecodeDoes(f)
  PROVE  Paid'
<1>1. /\ now \in Nat /\ now >= 1 /\ f.i \in Nat /\ f.i <= now /\ f.i >= 1
      /\ rfi.next \in Nat /\ (rfi.next = 0 <=> now = 1)
      /\ Unseen' = now /\ Unseen = IF f.i = now THEN now - 1 ELSE now
      /\ rfi.next <= now + 1
      /\ UNCHANGED <<due, dropped>>
  BY DEF DecodeLeaves
<1>2. gate.credit \in Nat /\ used \in Nat /\ used' \in Nat /\ used <= used'
      /\ dropped \in Nat /\ Cardinality(due) \in Nat
  BY DueType, RecoveryAssumption DEF DecodeDoes
<1>3. /\ rfi'.next = IF Ahead(f) THEN f.i + 1 ELSE rfi.next
      /\ gate'.credit = gate.credit + Gap(f)
  BY DEF DecodeDoes
<1>4. /\ dropped + Cardinality(due) <= used
      /\ gate.credit <= used
      /\ rfi.next > 0 => gate.credit + Unseen + 1 - rfi.next <= used
  BY DEF IInv, Paid
<1>5. dropped' + Cardinality(due') <= used'
  BY <1>1, <1>2, <1>4
<1>6. /\ gate'.credit <= used'
      /\ rfi'.next > 0 => gate'.credit + now + 1 - rfi'.next <= used'
  <2>1. CASE ~Ahead(f)
    <3>1. Gap(f) = 0 /\ rfi.next > 0 /\ f.i < rfi.next
      BY <1>1, <2>1 DEF Ahead, Gap
    <3>2. f.i = now => rfi.next = now + 1
      BY <1>1, <3>1
    <3>3. QED
      BY <1>1, <1>2, <1>3, <1>4, <2>1, <3>1, <3>2
  <2>2. CASE rfi.next = 0
    <3>1. Gap(f) = 0 /\ Ahead(f) /\ gate.credit = 0 /\ f.i = now
      BY <1>1, <2>2 DEF Ahead, Gap, IInv, Opening
    <3>2. QED
      BY <1>1, <1>2, <1>3, <3>1
  <2>3. CASE Ahead(f) /\ rfi.next > 0
    <3>1. Gap(f) = f.i - rfi.next /\ f.i >= rfi.next
      BY <1>1, <2>3 DEF Ahead, Gap
    <3>2. gate.credit + now - rfi.next <= used
      BY <1>1, <1>2, <1>4, <2>3
    <3>3. QED
      BY <1>1, <1>2, <1>3, <2>3, <3>1, <3>2
  <2>4. QED
    BY <1>1, <2>1, <2>2, <2>3
<1>7. QED
  BY <1>1, <1>5, <1>6 DEF Paid

(* What is acknowledged is whole, and what comes after it finds it whole.  *)
LEMMA DecodeChain ==
  ASSUME IInv, NEW f, DecodeLeaves(f), DecodeDoes(f)
  PROVE  Chain' /\ Acked'
<1>1. /\ conf' = conf /\ now' = now /\ f.i \in Nat /\ rfi.next \in Nat /\ fb.prev \in Nat /\ now \in Nat
      /\ f \in Flying /\ Flying' \subseteq Flying /\ \A g \in Flying' : g.i \in Nat /\ g.i < f.i
      /\ Ahead(f) <=> f.i > fb.prev
      /\ rfi.next = IF fb.prev = 0 THEN 0 ELSE fb.prev + 1
  BY DEF DecodeLeaves
<1>2. /\ rfi'.next = IF Ahead(f) THEN f.i + 1 ELSE rfi.next
      /\ fb'.prev = IF Ahead(f) THEN f.i ELSE fb.prev
      /\ Ahead(f) => (fb'.clean <=> TakenClean(fb, f))
      /\ ~Ahead(f) => fb'.clean = fb.clean /\ fb'.acks = fb.acks
      /\ fb'.acks \subseteq fb.acks \union {f.i} /\ (f.i \in fb'.acks \ fb.acks => fb'.clean)
      /\ Ahead(f) /\ ~conf.ledger => (withheld' <=> withholds(withheld, Gap(f), f))
      /\ ~(Ahead(f) /\ ~conf.ledger) => withheld' = withheld
      /\ clean' = IF Fed(f) /\ Whole(f) THEN (IF f.idr THEN {f.i} ELSE clean \union {f.i}) ELSE clean
      /\ host'.ltr = host.ltr /\ host'.floor = host.floor
      /\ host'.acked \subseteq host.acked \union fb'.acks
  BY <1>1 DEF DecodeDoes
<1>3. /\ conf.ledger => ~withheld
      /\ conf.floor => /\ fb.clean => ~withheld /\ fb.prev \in clean
                       /\ ~conf.ledger /\ ~withheld /\ rfi.next > 0 => rfi.next - 1 \in clean
  BY DEF IInv, Chain
<1>4. Fed(f) => Ahead(f)
  BY DEF Fed
<1>5. conf.floor /\ Ahead(f) =>
        /\ TakenClean(fb, f) => Fed(f) /\ Whole(f) /\ ~withholds(withheld, Gap(f), f)
        /\ ~conf.ledger /\ Fed(f) => Whole(f)
  BY FedIsWhole
<1>6. conf.ledger => ~withheld'
  BY <1>2, <1>3
<1>7. ASSUME conf.floor, fb'.clean
      PROVE  ~withheld' /\ fb'.prev \in clean'
  <2>1. CASE Ahead(f)
    <3>1. Fed(f) /\ Whole(f) /\ ~withholds(withheld, Gap(f), f)
      BY <1>2, <1>5, <1>7, <2>1
    <3>2. f.i \in clean'
      BY <1>2, <3>1
    <3>3. ~withheld'
      BY <1>2, <1>3, <2>1, <3>1
    <3>4. QED
      BY <1>2, <2>1, <3>2, <3>3
  <2>2. CASE ~Ahead(f)
    <3>1. fb'.prev = fb.prev /\ fb'.clean = fb.clean /\ withheld' = withheld /\ clean' = clean
      BY <1>2, <1>4, <2>2
    <3>2. QED
      BY <1>3, <1>7, <3>1
  <2>3. QED
    BY <2>1, <2>2
<1>8. ASSUME conf.floor, ~conf.ledger, ~withheld', rfi'.next > 0
      PROVE  rfi'.next - 1 \in clean'
  <2>1. CASE Ahead(f)
    <3>1. Fed(f) /\ Whole(f)
      BY <1>2, <1>5, <1>8, <2>1 DEF Fed
    <3>2. rfi'.next - 1 = f.i /\ f.i \in clean'
      BY <1>1, <1>2, <2>1, <3>1
    <3>3. QED
      BY <3>2
  <2>2. CASE ~Ahead(f)
    BY <1>2, <1>3, <1>4, <1>8, <2>2
  <2>3. QED
    BY <2>1, <2>2
<1>9. \A g \in Flying' : ~(g.i >= rfi'.next)
  BY <1>1, <1>2 DEF Ahead
<1>10. Chain'
  BY <1>1, <1>6, <1>7, <1>8, <1>9 DEF Chain
<1>11. ASSUME NEW base \in 0 .. now, Based(base), conf.floor
       PROVE  Based(base)'
  <2>1. \A a \in host.acked \union host.floor \union fb.acks :
          a \in Nat /\ a <= fb.prev /\ (a >= base => a \in clean)
    <3>1. host.acked \subseteq Ticks /\ host.floor \subseteq Ticks /\ fb.acks \subseteq Ticks
      BY DEF IInv, Typed, Hosts, Feedbacks
    <3>2. \A a \in Ticks : a \in Nat
      BY RecoveryAssumption DEF Ticks
    <3>3. QED
      BY <1>11, <3>1, <3>2 DEF Based
  <2>2. fb.prev <= fb'.prev
    BY <1>1, <1>2
  <2>3. \A a \in host.acked \union host.floor \union fb.acks :
          a <= fb'.prev /\ (a >= base => a \in clean')
    <3> SUFFICES ASSUME NEW a \in host.acked \union host.floor \union fb.acks
                 PROVE  a <= fb'.prev /\ (a >= base => a \in clean')
      OBVIOUS
    <3>1. a \in Nat /\ a <= fb.prev /\ (a >= base => a \in clean)
      BY <2>1
    <3>2. a <= fb'.prev
      BY <1>1, <1>2, <3>1
    <3>3. Fed(f) /\ f.idr => ~(a >= base)
      BY <1>1, <1>4, <1>11, <3>1 DEF Based
    <3>4. QED
      BY <1>2, <3>1, <3>2, <3>3
  <2>4. f.i \in fb'.acks \ fb.acks => f.i <= fb'.prev /\ f.i \in clean'
    BY <1>1, <1>2, <1>7, <1>11
  <2>5. \A a \in host'.acked \union host'.floor \union fb'.acks :
          a <= fb'.prev /\ (a >= base => a \in clean')
    <3> SUFFICES ASSUME NEW a \in host'.acked \union host'.floor \union fb'.acks
                 PROVE  a <= fb'.prev /\ (a >= base => a \in clean')
      OBVIOUS
    <3>1. a \in host.acked \union host.floor \union fb.acks \/ (a = f.i /\ a \in fb'.acks \ fb.acks)
      BY <1>2
    <3>2. QED
      BY <2>3, <2>4, <3>1
  <2>6. /\ \A s \in Slots : host'.ltr.wire[s] = NoFrame \/ host'.ltr.wire[s] >= base
        /\ \A g \in Flying' : g.idr => g.i <= base
    BY <1>1, <1>2, <1>11 DEF Based
  <2>7. QED
    BY <2>5, <2>6 DEF Based
<1>12. Acked'
  BY <1>1, <1>2, <1>11 DEF IInv, Acked
<1>13. QED
  BY <1>10, <1>12

LEMMA DecodeInv == IInv /\ Decode => IInv'
<1> SUFFICES ASSUME IInv, Decode
             PROVE  IInv'
  OBVIOUS
<1> USE DEF IInv
<1>1. PICK f : DecodeLeaves(f) /\ DecodeDoes(f)
  BY DecodeStep, DecodeType
<1>2. /\ pc = "decode" /\ UNCHANGED <<conf, now, pc, sent, late, due, short, dropped>>
      /\ now \in Nat /\ now >= 1 /\ f \in Flying /\ f.i \in Ticks /\ f.i \in 1 .. now
      /\ Left = now /\ Left' = now /\ late = <<>> /\ Flying' = Transit' /\ Flying' \subseteq Flying
      /\ \A g \in Flying' : g.i < f.i /\ g.i \in 1 .. now
      /\ inbox' \in Seq(Frames) /\ Len(inbox') <= 1
      /\ now = 1 => inbox' = <<>> /\ rfi.next = 0 /\ f.idr /\ f.i = 1 /\ due = {}
      /\ rfi.next \in Nat /\ fb.prev \in Nat /\ fb.prev <= now
      /\ rfi.next = IF fb.prev = 0 THEN 0 ELSE fb.prev + 1
      /\ Ahead(f) <=> f.i > fb.prev
  BY <1>1 DEF DecodeLeaves
<1>3. /\ rfi' \in Rfis /\ rfi'.next = IF Ahead(f) THEN f.i + 1 ELSE rfi.next
      /\ fb' \in Feedbacks /\ fb'.prev = IF f.i > fb.prev THEN f.i ELSE fb.prev
      /\ gate' \in Gates /\ gate'.dropped = gate.dropped /\ gate'.credit = gate.credit + Gap(f)
      /\ gate'.awaiting => \/ gate'.deadline = now + FreezeMax
                           \/ gate.awaiting /\ gate'.deadline = gate.deadline
      /\ withheld' \in BOOLEAN /\ on_anchors' \in BOOLEAN /\ shown' \in {"held", "clean", "damaged"}
      /\ clean' = IF Fed(f) /\ Whole(f) THEN (IF f.idr THEN {f.i} ELSE clean \union {f.i}) ELSE clean
      /\ host' \in Hosts /\ host'.floor = host.floor /\ (host.acked # {} => host'.acked # {})
      /\ used' \in 0 .. MaxTroubles /\ trouble' \in Nat
      /\ now = 1 => /\ used' = used /\ host'.rfi = {} /\ host'.acked # {} /\ fb'.open = NoAsk
                    /\ rfi'.pending = {} /\ ~gate'.awaiting /\ ~withheld'
  BY <1>1 DEF DecodeDoes
<1>4. Typed'
  BY <1>2, <1>3 DEF Typed
<1>5. Flow'
  <2>1. Len(inbox') \in Nat /\ Len(inbox') <= 2 /\ Len(inbox') # 2
    <3>1. \A n \in Nat : n <= 1 => n <= 2 /\ n # 2
      OBVIOUS
    <3>2. QED
      BY <1>2, <3>1, LenProperties
  <2>2. \A g \in Flying' : IF g.idr THEN ~g.anchor ELSE g.anchor \/ g.ref = g.i - 1
    BY <1>2 DEF Flow
  <2>3. fb'.prev <= Left' /\ rfi'.next = IF fb'.prev = 0 THEN 0 ELSE fb'.prev + 1
    BY <1>2, <1>3
  <2>4. Len(late') <= 1 /\ late' = <<>>
    BY <1>2 DEF Flow
  <2>5. QED
    BY <1>2, <2>1, <2>2, <2>3, <2>4 DEF Flow
<1>6. Opening'
  <2>1. CASE now = 1
    <3>1. Gap(f) = 0 /\ Ahead(f) /\ rfi'.next = 2
      BY <1>2, <1>3, <2>1 DEF Gap, Ahead
    <3>2. gate'.credit = 0
      BY <1>3, <2>1, <3>1 DEF Opening
    <3>3. \A g \in Flying' : g.idr
      BY <1>2, <2>1 DEF Opening
    <3>4. QED
      <4>1. /\ due = {} /\ late = <<>> /\ short = NoFrame /\ used = 0 /\ dropped = 0
            /\ host.floor = {}
        BY <2>1 DEF Opening
      <4>2. /\ now' = 1 /\ pc' = "decode" /\ due' = {} /\ late' = <<>> /\ short' = NoFrame
            /\ used' = 0 /\ dropped' = 0 /\ host'.floor = {} /\ inbox' = <<>>
        BY <1>2, <1>3, <2>1, <4>1
      <4>3. /\ host'.rfi = {} /\ host'.acked # {} /\ fb'.open = NoAsk
            /\ rfi'.pending = {} /\ ~gate'.awaiting /\ ~withheld'
        BY <1>3, <2>1
      <4>4. ~(now' >= 2)
        BY <4>2
      <4>5. QED
        BY <3>1, <3>2, <3>3, <4>2, <4>3, <4>4 DEF Opening
  <2>2. CASE now >= 2
    <3>1. rfi'.next >= 2
      BY <1>2, <1>3, <2>2 DEF Opening, Ahead
    <3>2. QED
      BY <1>2, <1>3, <2>2, <3>1 DEF Opening
  <2>3. QED
    BY <1>2, <2>1, <2>2
<1>7. Freeze'
  <2>1. now < now + FreezeMax
    BY <1>2, ClientAssumption
  <2>2. QED
    BY <1>2, <1>3, <2>1 DEF Freeze
<1>8. Credits'
  <2>1. (\A d \in Foreseen' : d < gate'.expiry) /\ Cardinality(Foreseen') <= gate'.credit
    BY <1>1, DecodeForesees
  <2>2. QED
    BY <1>2, <1>3, <2>1 DEF Credits
<1>9. Paid'
  BY <1>1, DecodePaid
<1>10. Chain' /\ Acked'
  BY <1>1, DecodeChain
<1>11. QED
  BY <1>4, <1>5, <1>6, <1>7, <1>8, <1>9, <1>10
-----------------------------------------------------------------------------
(* Every step keeps the invariant, and every behaviour.                    *)
LEMMA StepInv == IInv /\ [Next]_vars => IInv'
<1> SUFFICES ASSUME IInv, [Next]_vars
             PROVE  IInv'
  OBVIOUS
<1>1. CASE Encode
  BY <1>1, EncodeInv
<1>2. CASE Deliver
  BY <1>2, DeliverInv
<1>3. CASE Lose
  BY <1>3, LoseInv
<1>4. CASE Delay
  BY <1>4, DelayInv
<1>5. CASE Pump
  BY <1>5, PumpInv
<1>6. CASE NeedKeyframe
  BY <1>6, NeedKeyframeInv
<1>7. CASE Decode
  BY <1>7, DecodeInv
<1>8. CASE Tick
  BY <1>8, TickInv
<1>9. CASE UNCHANGED vars
  <2> USE DEF IInv
  <2>0. UNCHANGED <<conf, now, pc, host, sent, inbox, late, due, short, rfi, gate, withheld,
                    on_anchors,
                    fb, dropped, clean, shown, used, trouble>>
    BY <1>9 DEF vars, client
  <2>1. Flying' = Flying /\ Transit' = Transit /\ Left' = Left /\ Foreseen' = Foreseen /\ Unseen' = Unseen
    BY <2>0 DEF Flying, Transit, Left, Foreseen, Unseen
  <2>2. Typed' /\ Freeze'
    BY <2>0 DEF Typed, Freeze
  <2>3. Flow'
    BY <2>0, <2>1 DEF Flow
  <2>4. Opening'
    BY <2>0, <2>1 DEF Opening, Fresh
  <2>5. Credits' /\ Paid' /\ Chain'
    BY <2>0, <2>1 DEF Credits, Paid, Chain
  <2>6. \A base : Based(base) => Based(base)'
    BY <2>0, <2>1 DEF Based
  <2>7. Acked'
    BY <2>0, <2>6 DEF Acked
  <2>8. QED
    BY <2>2, <2>3, <2>4, <2>5, <2>7
<1>10. QED
  BY <1>1, <1>2, <1>3, <1>4, <1>5, <1>6, <1>7, <1>8, <1>9 DEF Next, Done

LEMMA Invariance == Spec => []IInv
<1>1. Init => IInv
  BY InitInv
<1>2. IInv /\ [Next]_vars => IInv'
  BY StepInv
<1>3. QED
  BY <1>1, <1>2, PTL DEF Spec

(* Every value keeps its type, and no tick books more drops, and no gate   *)
(* holds more credit, than the troubles there were.                        *)
THEOREM Typing == Spec => []TypeOK
<1>1. IInv => TypeOK
  <2> SUFFICES ASSUME IInv
               PROVE  TypeOK
    OBVIOUS
  <2> USE DEF IInv
  <2>1. gate.credit \in 0 .. MaxTroubles /\ dropped \in 0 .. MaxTroubles
    <3>1. /\ gate.credit \in Nat /\ dropped \in Nat /\ used \in Nat /\ Cardinality(due) \in Nat
      BY DueType
    <3>2. used <= MaxTroubles /\ MaxTroubles \in Nat
      BY RecoveryAssumption DEF Typed
    <3>3. QED
      BY <3>1, <3>2 DEF Paid
  <2>2. host.ltr \in Mirrors /\ gate.awaiting \in BOOLEAN /\ rfi.pending \in SUBSET Ticks
    BY DEF Typed, Hosts, Gates, Rfis
  <2>3. QED
    BY <2>1, <2>2 DEF TypeOK, Typed, Mirrors, Ticks
<1>2. QED
  BY <1>1, Invariance, PTL

(* Under confirmed references every frame tagged as an anchor names a      *)
(* picture the client decoded from a whole chain, whichever frames, asks   *)
(* and acknowledgements are lost (LtrMirror::step_acked over AckChain).    *)
THEOREM AnchorsAreClean == Spec => []ConfirmedAnchorIsClean
<1>1. IInv => ConfirmedAnchorIsClean
  <2> SUFFICES ASSUME IInv, conf.floor, pc = "wire", sent.anchor
               PROVE  sent.ref \in clean
    BY DEF ConfirmedAnchorIsClean
  <2> USE DEF IInv
  <2>1. sent \in Flying /\ sent.i = now /\ now \in Nat /\ now >= 1
    BY DEF Flying, Flow, Typed
  <2>2. rfi.next <= now
    BY <2>1 DEF Flow, Typed, Feedbacks, Left
  <2>3. QED
    BY <2>1, <2>2 DEF Chain
<1>2. QED
  BY <1>1, Invariance, PTL

(* No picture is shown that predicts from one that was never decoded, with *)
(* confirmed references or on a lane that keeps a ledger of its chain.     *)
THEOREM NothingDamagedShown == Spec => []ShownIsClean
<1>1. Init => ShownIsClean
  BY DEF Init, ShownIsClean
<1>2. IInv /\ ShownIsClean /\ [Next]_vars => ShownIsClean'
  <2> SUFFICES ASSUME IInv, ShownIsClean, [Next]_vars, (conf.floor \/ conf.ledger)', shown' = "damaged"
               PROVE  FALSE
    BY DEF ShownIsClean
  <2>1. CASE Decode
    <3>1. PICK f : DecodeLeaves(f) /\ DecodeDoes(f)
      BY <2>1, DecodeStep, DecodeType
    <3>2. Fed(f) /\ ~Whole(f) /\ ~conf.ledger /\ conf' = conf
      BY <3>1 DEF DecodeDoes, DecodeLeaves
    <3>3. conf.floor /\ Ahead(f)
      BY <3>2 DEF Fed
    <3>4. QED
      BY <3>1, <3>2, <3>3, FedIsWhole
  <2>2. CASE UNCHANGED <<conf, shown>>
    BY <2>2 DEF ShownIsClean
  <2>3. Decode \/ UNCHANGED <<conf, shown>>
    BY DEF Next, Encode, Deliver, Lose, Delay, Passed, Pump, NeedKeyframe, Tick, Done, vars
  <2>4. QED
    BY <2>1, <2>2, <2>3
<1>3. QED
  BY <1>1, <1>2, Invariance, PTL DEF Spec

(* A client that is frozen as a tick begins has an ask out, a range that   *)
(* waits for the window, or a deadline still ahead of it.                  *)
THEOREM FreezesAreServed == Spec => []FreezeIsServed
<1>1. IInv => FreezeIsServed
  BY DEF IInv, Freeze, FreezeIsServed
<1>2. QED
  BY <1>1, Invariance, PTL

(* A drop booked after the decoder saw its gap never freezes a client that *)
(* has healed meanwhile: its credit is there and has not expired.          *)
THEOREM GapsCountOnce == Spec => GapCountedOnce
<1> DEFINE Once == pc = "pump" /\ pc' = "decode" /\ now \in due /\ now - DropLag < rfi.next
                   /\ ~gate.awaiting => ~gate'.awaiting
<1>1. IInv /\ [Next]_vars => [Once]_vars
  <2> SUFFICES ASSUME IInv, [Next]_vars, pc = "pump", pc' = "decode", now \in due,
                      now - DropLag < rfi.next, ~gate.awaiting
               PROVE  ~gate'.awaiting
    OBVIOUS
  <2>1. Pump
    BY DEF Next, Encode, Deliver, Lose, Delay, NeedKeyframe, Decode, Tick, Done, vars
  <2>2. now \in Foreseen
    BY DEF Foreseen
  <2>3. QED
    BY <2>1, <2>2, PumpCredits
<1>2. QED
  BY <1>1, Invariance, PTL DEF Spec, GapCountedOnce
-----------------------------------------------------------------------------
(* How long the last trouble keeps asks coming, how long a host may decline *)
(* one, and the tick from which an ask is sure of an IDR.                  *)
Most(a, b) == IF a >= b THEN a ELSE b
Quiet   == Most(DropLag, RfiThrottle + 2)
Longest == Most(Most(IdrCooldownMax, RecoveryFlight), RfiThrottle)
Sure    == trouble + Quiet + Longest

(* The last tick the pump has had its pass of, and an IDR about to land.   *)
Stepped == IF pc = "decode" THEN now ELSE now - 1
Landing == \/ pc = "wire" /\ sent.idr
           \/ pc \in {"pump", "decode"} /\ inbox # <<>> /\ inbox[1].idr

(* Nothing is dated ahead of the clock; a range waits only while the window*)
(* is shut, and a freeze only for a deadline ahead.                        *)
Clocks ==
  /\ trouble <= now /\ rfi.request <= now
  /\ host.last_rfi <= now /\ host.last_idr <= now /\ host.ask <= fb.n
  /\ rfi.pending # {} => Stepped - rfi.request < RfiThrottle
  /\ gate.awaiting => gate.deadline <= now + FreezeMax
  /\ gate.awaiting /\ pc # "decode" => now <= gate.deadline

(* Unfrozen, nothing is withheld, and a ledger's lane has its last picture.*)
Lifted ==
  /\ withheld => gate.awaiting
  /\ conf.ledger /\ ~gate.awaiting /\ rfi.next > 0 => rfi.next - 1 \in clean

(* What a trouble leaves on its way is gone a little later.                *)
Clears ==
  /\ late # <<>> => Left <= trouble
  /\ \A f \in Members(inbox) : f.i = now \/ now <= trouble + 1
  /\ short # NoFrame => pc = "pump" /\ now <= trouble
  /\ \A d \in due : d <= trouble + DropLag
  /\ Unseen > trouble => rfi.next = Unseen + 1

(* So are the ranges asked for it, and the anchors that answer them; later,*)
(* an open ask is one the host has, and only an ended freeze moved the window. *)
Asked ==
  /\ rfi.pending # {} => rfi.request <= trouble + 1
  /\ fb.open # NoAsk /\ Stepped > trouble => host.ask = fb.n
  /\ host.rfi # {} => Stepped <= trouble + RfiThrottle + 1
  /\ host.rfi # {} /\ pc \in {"wire", "pump"} => now <= trouble
  /\ host.last_rfi <= trouble + RfiThrottle + 2
  /\ ~conf.floor => \A f \in Flying : f.anchor => f.i <= trouble + RfiThrottle + 2
  /\ gate.awaiting => \/ rfi.request <= gate.deadline - FreezeMax
                      \/ rfi.request <= trouble + RfiThrottle + 1

(* A later IDR lifts the freeze when it lands, and the first ask of a      *)
(* freeze that runs out once an IDR is sure brings one.                    *)
Paced == gate.awaiting => host.last_idr <= trouble + Quiet \/ Landing
Served ==
  gate.awaiting =>
    \/ gate.deadline <= Sure + FreezeMax
    \/ now <= Sure + FreezeMax + 1 /\ Landing
    \/ pc = "decode" /\ host.kf /\ Sure < now /\ now <= Sure + FreezeMax
    \/ pc = "host" /\ host.kf /\ Sure < now /\ now <= Sure + FreezeMax + 1

HInv == Clocks /\ Lifted /\ Clears /\ Asked /\ Paced /\ Served

LEMMA Spans ==
  /\ RfiThrottle \in Nat /\ DropLag \in Nat /\ FreezeMax \in Nat /\ FreezeMax >= 1
  /\ RecoveryFlight \in Nat /\ IdrCooldownMax \in Nat
  /\ Quiet \in Nat /\ Quiet >= DropLag /\ Quiet >= RfiThrottle + 2
  /\ Longest \in Nat /\ Longest >= IdrCooldownMax /\ Longest >= RecoveryFlight
  /\ Longest >= RfiThrottle
<1>1. /\ RfiThrottle \in Nat /\ DropLag \in Nat /\ FreezeMax \in Nat /\ FreezeMax >= 1
      /\ RecoveryFlight \in Nat /\ IdrCooldownMax \in Nat
  BY ClientAssumption, HostAssumption, RecoveryAssumption
<1>2. QED
  BY <1>1 DEF Quiet, Longest, Most

(* In the tick of a trouble everything dated from the last one holds.      *)
Struck == trouble = now /\ (short # NoFrame => pc = "pump")

LEMMA StruckNow == IInv /\ Clocks /\ Lifted /\ Struck => HInv
<1> SUFFICES ASSUME IInv, Clocks, Lifted, Struck
             PROVE  HInv
  OBVIOUS
<1> USE DEF Struck
<1>1. /\ now \in Nat /\ rfi.request \in Int /\ host.last_rfi \in Int /\ host.last_idr \in Int
      /\ gate.deadline \in Nat /\ Left <= now /\ Stepped <= now /\ Left \in Int /\ Stepped \in Int
      /\ due \subseteq now .. Left + DropLag
      /\ \A f \in Flying : f.i \in Nat /\ f.i <= now
  <2>1. /\ now \in Nat /\ rfi.request \in Int /\ host.last_rfi \in Int /\ host.last_idr \in Int
        /\ gate.deadline \in Nat /\ due \subseteq now .. Left + DropLag
    BY RecoveryAssumption DEF IInv, Typed, Credits, Rfis, Hosts, Gates
  <2>2. Left <= now /\ Stepped <= now /\ Left \in Int /\ Stepped \in Int
    BY <2>1 DEF Left, Stepped
  <2>3. \A f \in Flying : f.i \in Nat /\ f.i <= now
    BY <2>1, <2>2 DEF IInv, Flow, Flying
  <2>4. QED
    BY <2>1, <2>2, <2>3
<1>2. Clears
  <2>1. \A d \in due : d <= now + DropLag
    BY <1>1, Spans
  <2>2. ~(Unseen > now)
    BY <1>1 DEF Unseen
  <2>3. QED
    BY <1>1, <2>1, <2>2 DEF Clears
<1>3. Asked
  BY <1>1, Spans DEF Clocks, Asked
<1>4. Paced
  BY <1>1, Spans DEF Clocks, Paced
<1>5. Served
  BY <1>1, Spans DEF Clocks, Served, Sure
<1>6. QED
  BY <1>2, <1>3, <1>4, <1>5 DEF HInv

LEMMA StruckThen == IInv' /\ Clocks' /\ Lifted' /\ Struck' => HInv'
  BY StruckNow, PTL

(* What the invariants say of a state, as numbers.                         *)
HealTypes ==
  /\ now \in Nat /\ now >= 1 /\ trouble \in Nat /\ Left \in Int /\ Stepped \in Int /\ Unseen \in Int
  /\ rfi.request \in Int /\ rfi.next \in Nat /\ host.last_rfi \in Int /\ host.last_idr \in Int
  /\ host.ask \in Nat /\ fb.n \in Nat /\ gate.deadline \in Nat /\ due \subseteq Nat
  /\ \A f \in Flying : f.i \in Nat

LEMMA HealNumbers == IInv => HealTypes
<1> SUFFICES ASSUME IInv
             PROVE  HealTypes
  OBVIOUS
<1>1. /\ now \in Nat /\ now >= 1 /\ Left \in Int /\ Unseen \in Int /\ due \subseteq Nat
  BY DueType
<1>2. /\ trouble \in Nat /\ rfi.request \in Int /\ rfi.next \in Nat /\ host.last_rfi \in Int
      /\ host.last_idr \in Int /\ host.ask \in Nat /\ fb.n \in Nat /\ gate.deadline \in Nat
  BY DEF IInv, Typed, Rfis, Hosts, Feedbacks, Gates
<1>3. Stepped \in Int
  BY <1>1 DEF Stepped
<1>4. \A f \in Flying : f.i \in Nat
  BY <1>1 DEF IInv, Flow, Flying
<1>5. QED
  BY <1>1, <1>2, <1>3, <1>4 DEF HealTypes

LEMMA HealNumbersThen == IInv' => HealTypes'
  BY HealNumbers, PTL
-----------------------------------------------------------------------------
(* The wire.  A frame it keeps back or loses is a trouble of this tick.    *)
LEMMA LoseHeals == IInv /\ HInv /\ (Lose \/ Delay) => HInv'
<1> SUFFICES ASSUME IInv, HInv, Lose \/ Delay
             PROVE  HInv'
  OBVIOUS
<1>1. IInv'
  BY LoseInv, DelayInv
<1>2. /\ pc = "wire" /\ pc' = "pump" /\ trouble' = now
      /\ UNCHANGED <<conf, now, host, rfi, gate, withheld, fb, clean>>
  BY DEF Lose, Delay, Passed, Trouble, client
<1>3. short' = short \/ pc' = "pump"
  BY <1>2
<1>4. Clocks'
  <2>1. Stepped' = Stepped
    BY <1>2 DEF Stepped
  <2>2. QED
    BY <1>2, <2>1, HealNumbers DEF HInv, Clocks, HealTypes
<1>5. Lifted'
  BY <1>2 DEF HInv, Lifted
<1>6. Struck'
  BY <1>2 DEF Struck
<1>7. QED
  BY <1>1, <1>4, <1>5, <1>6, StruckThen

LEMMA DeliverHeals == IInv /\ HInv /\ Deliver => HInv'
<1> SUFFICES ASSUME IInv, HInv, Deliver
             PROVE  HInv'
  OBVIOUS
<1> USE DEF HInv
<1>1. /\ pc = "wire" /\ pc' = "pump" /\ inbox' = <<sent>> \o late /\ late' = <<>>
      /\ UNCHANGED <<conf, now, host, sent, due, short, rfi, gate, withheld, fb, clean, trouble>>
  BY DEF Deliver, Passed, client
<1>2. HealTypes
  BY HealNumbers
<1>3. /\ inbox = <<>> /\ sent.i = now /\ sent \in Frames /\ late \in Seq(Frames)
  BY <1>1 DEF IInv, Flow, Typed
<1>4. /\ inbox' # <<>> /\ inbox'[1] = sent /\ Members(inbox') = Members(late) \union {sent}
      /\ (late = <<>> => Members(late) = {})
  BY <1>1, <1>3, InFront, Empty
<1>5. /\ Left = now - 1 /\ Stepped' = Stepped /\ Unseen' = now - 1 /\ Unseen = now - 1
      /\ Flying' \subseteq Flying
  <2>1. Left = now - 1 /\ Left' = now /\ Stepped' = Stepped
    BY <1>1 DEF Left, Stepped
  <2>2. Unseen' = now - 1 /\ Unseen = now - 1
    BY <1>1, <1>3, <1>4, <2>1 DEF Unseen
  <2>3. Flying' \subseteq Flying
    BY <1>1, <1>4, Empty DEF Flying, Transit
  <2>4. QED
    BY <2>1, <2>2, <2>3
<1>6. Clocks' /\ Lifted'
  BY <1>1, <1>2, <1>5 DEF Clocks, Lifted
<1>7. Clears'
  <2>1. \A f \in Members(late) : now <= trouble + 1
    BY <1>2, <1>4, <1>5 DEF Clears, HealTypes
  <2>2. short = NoFrame
    BY <1>1 DEF Clears
  <2>3. QED
    BY <1>1, <1>3, <1>4, <1>5, <2>1, <2>2 DEF Clears
<1>8. Asked'
  BY <1>1, <1>5 DEF Asked
<1>9. sent.idr => Landing'
  BY <1>1, <1>4 DEF Landing
<1>10. Landing => Landing'
  BY <1>1, <1>9 DEF Landing
<1>11. Paced'
  BY <1>1, <1>10 DEF Paced
<1>12. Served'
  BY <1>1, <1>10 DEF Served, Sure
<1>13. QED
  BY <1>6, <1>7, <1>8, <1>11, <1>12

(* The next tick.                                                          *)
LEMMA TickHeals == IInv /\ HInv /\ Tick => HInv'
<1> SUFFICES ASSUME IInv, HInv, Tick
             PROVE  HInv'
  OBVIOUS
<1> USE DEF HInv
<1>1. /\ pc = "decode" /\ pc' = "host" /\ inbox = <<>> /\ now' = now + 1
      /\ UNCHANGED <<conf, host, sent, inbox, late, due, short, rfi, gate, withheld, fb, clean, trouble>>
  BY DEF Tick, client
<1>2. HealTypes
  BY HealNumbers
<1>3. /\ Stepped' = Stepped /\ Left' = Left /\ Unseen' = Unseen /\ Flying' = Flying
      /\ Stepped = now
  BY <1>1, <1>2 DEF Stepped, Left, Unseen, Flying, Transit, HealTypes
<1>4. Clocks'
  <2>1. gate.awaiting => now + 1 <= gate.deadline
    BY <1>1, <1>2 DEF IInv, Freeze, HealTypes
  <2>2. gate.awaiting => gate.deadline <= now + 1 + FreezeMax
    BY <1>2, Spans DEF Clocks, HealTypes
  <2>3. trouble <= now' /\ rfi.request <= now' /\ host.last_rfi <= now' /\ host.last_idr <= now'
    BY <1>1, <1>2 DEF Clocks, HealTypes
  <2>4. QED
    BY <1>1, <1>3, <2>1, <2>2, <2>3 DEF Clocks
<1>5. Lifted'
  BY <1>1 DEF Lifted
<1>6. Clears'
  <2>1. Members(inbox') = {} /\ short = NoFrame
    BY <1>1, Empty DEF Clears
  <2>2. QED
    BY <1>1, <1>3, <2>1 DEF Clears
<1>7. Asked'
  BY <1>1, <1>3 DEF Asked
<1>8. ~Landing
  BY <1>1 DEF Landing
<1>9. Paced'
  BY <1>1, <1>8 DEF Paced
<1>10. Served'
  BY <1>1, <1>2, <1>8, Spans DEF Served, Sure, HealTypes
<1>11. QED
  BY <1>4, <1>5, <1>6, <1>7, <1>9, <1>10
-----------------------------------------------------------------------------
(* The host's gate.  An IDR is dated when it is forced, and one is forced  *)
(* once the cooldown of the last and the flight of the last anchor are over.*)
LEMMA CooldownBound ==
  ASSUME NEW u \in Nat
  PROVE  idr_cooldown(u) \in Nat /\ idr_cooldown(u) <= IdrCooldownMax
<1> DEFINE k == IdrCooldown * (CASE u = 0 -> 1 [] u = 1 -> 2 [] OTHER -> 4)
<1>1. k \in Nat /\ IdrCooldownMax \in Nat
  <2>1. k \in {IdrCooldown * 1, IdrCooldown * 2, IdrCooldown * 4}
    OBVIOUS
  <2>2. IdrCooldown \in Nat /\ IdrCooldownMax \in Nat
    BY HostAssumption
  <2> HIDE DEF k
  <2>3. QED
    BY <2>1, <2>2
<1>2. idr_cooldown(u) = Min({IdrCooldownMax, k})
  BY DEF idr_cooldown
<1> HIDE DEF k
<1>3. Min({IdrCooldownMax, k}) \in {IdrCooldownMax, k} /\ Min({IdrCooldownMax, k}) <= IdrCooldownMax
  BY <1>1 DEF Min
<1>4. QED
  BY <1>1, <1>2, <1>3

ForcesIdr(h, t, r) ==
  /\ r.ask = h.ask /\ r.last_rfi = h.last_rfi
  /\ r.last_idr = h.last_idr \/ (r.last_idr = t /\ r.idr)
  /\ t - h.last_idr >= IdrCooldownMax /\ t - h.last_rfi >= RecoveryFlight => r.idr

LEMMA ForceKeyframeSays ==
  ASSUME NEW h \in Hosts, NEW t \in Nat, NEW declined \in BOOLEAN
  PROVE  ForcesIdr(h, t, force_keyframe(h, t, declined))
<1> DEFINE e == Episode(h, t)
           q == [e EXCEPT !.request = t]
           l == IF e.echoes > 0 THEN distrust(q.ltr) ELSE q.ltr
           u == IF Missed(e) THEN q.unhealed + 1 ELSE 0
           d == distrust(q.ltr)
           n == q.echoes + 1
           r == force_keyframe(h, t, declined)
<1>1. e \in Hosts /\ e.ask = h.ask /\ e.last_rfi = h.last_rfi /\ e.last_idr = h.last_idr
  <2>1. e \in Hosts
    BY EpisodeType
  <2>2. e.ask = h.ask /\ e.last_rfi = h.last_rfi /\ e.last_idr = h.last_idr
    BY DEF Episode, Hosts
  <2>3. QED
    BY <2>1, <2>2
<1> HIDE DEF e
<1>2. q.ask = h.ask /\ q.last_rfi = h.last_rfi /\ q.last_idr = h.last_idr
  BY <1>1 DEF Hosts
<1>3. DOMAIN q = DOMAIN e /\ {"ask", "last_rfi", "last_idr", "idr"} \subseteq DOMAIN q
  BY <1>1 DEF Hosts
<1> HIDE DEF l, u, d, n
<1>4. CASE Within(e.last_idr, t, idr_cooldown(e.unhealed))
  <2>1. r = [q EXCEPT !.ltr = d]
    BY <1>4 DEF force_keyframe, e, q, d
  <2> HIDE DEF q
  <2>2. r.ask = h.ask /\ r.last_rfi = h.last_rfi /\ r.last_idr = h.last_idr
    BY <1>2, <2>1
  <2>3. ~(t - h.last_idr >= IdrCooldownMax)
    <3>1. idr_cooldown(e.unhealed) \in Nat /\ idr_cooldown(e.unhealed) <= IdrCooldownMax
      BY <1>1, CooldownBound DEF Hosts
    <3>2. h.last_idr \in Int /\ IdrCooldownMax \in Nat
      BY HostAssumption DEF Hosts
    <3>3. QED
      BY <1>1, <1>4, <3>1, <3>2 DEF Within
  <2>4. QED
    BY <2>2, <2>3 DEF ForcesIdr
<1>5. CASE /\ ~Within(e.last_idr, t, idr_cooldown(e.unhealed))
           /\ ~declined /\ Within(e.last_rfi, t, RecoveryFlight) /\ e.echoes < EchoMax
  <2>1. r = [q EXCEPT !.echoes = n]
    BY <1>5 DEF force_keyframe, e, q, n
  <2> HIDE DEF q
  <2>2. r.ask = h.ask /\ r.last_rfi = h.last_rfi /\ r.last_idr = h.last_idr
    BY <1>2, <2>1
  <2>3. ~(t - h.last_rfi >= RecoveryFlight)
    <3>1. h.last_rfi \in Int /\ RecoveryFlight \in Nat
      BY HostAssumption DEF Hosts
    <3>2. QED
      BY <1>1, <1>5, <3>1 DEF Within
  <2>4. QED
    BY <2>2, <2>3 DEF ForcesIdr
<1>6. CASE /\ ~Within(e.last_idr, t, idr_cooldown(e.unhealed))
           /\ ~(~declined /\ Within(e.last_rfi, t, RecoveryFlight) /\ e.echoes < EchoMax)
  <2>1. r = [q EXCEPT !.ltr = l, !.unhealed = u, !.echoes = 0, !.idr = TRUE, !.last_idr = t]
    BY <1>6 DEF force_keyframe, e, q, l, u
  <2> HIDE DEF q
  <2>2. r.ask = h.ask /\ r.last_rfi = h.last_rfi /\ r.last_idr = t /\ r.idr
    BY <1>2, <1>3, <2>1
  <2>3. QED
    BY <2>2 DEF ForcesIdr
<1>7. QED
  BY <1>4, <1>5, <1>6

LEMMA RequestsSay ==
  ASSUME NEW h \in Hosts, NEW t \in Nat
  PROVE  LET r == on_recovery_requests(h, t)
         IN  /\ r.ask = h.ask
             /\ r.last_rfi = h.last_rfi \/ (r.last_rfi = t /\ h.rfi # {})
             /\ r.last_idr = h.last_idr \/ (r.last_idr = t /\ r.idr)
             /\ h.rfi = {} /\ h.kf /\ t - h.last_idr >= IdrCooldownMax
                  /\ t - h.last_rfi >= RecoveryFlight => r.idr
<1> DEFINE idle     == [h EXCEPT !.kf = FALSE, !.rfi = {}]
           wide     == h.rfi # {} /\ Max(h.rfi) - Min(h.rfi) > RfiMaxRange
           lost     == h.rfi # {} /\ ~wide
           m        == invalidate(idle.ltr, Min(h.rfi), h.floor)
           tried    == IF lost THEN [idle EXCEPT !.ltr = m] ELSE idle
           anchored == lost /\ tried.ltr.force # NoSlot
           declined == lost /\ ~anchored
           r        == on_recovery_requests(h, t)
<1>1. /\ idle \in Hosts /\ idle.ltr = h.ltr /\ idle.ask = h.ask
      /\ idle.last_rfi = h.last_rfi /\ idle.last_idr = h.last_idr
  <2>1. FALSE \in BOOLEAN /\ {} \in SUBSET Ticks
    OBVIOUS
  <2>2. QED
    BY <2>1 DEF Hosts
<1> HIDE DEF idle
<1>2. m \in Mirrors
  BY <1>1, InvalidateType DEF Hosts
<1> HIDE DEF m
<1>3. /\ tried \in Hosts /\ tried.ask = h.ask /\ tried.last_rfi = h.last_rfi
      /\ tried.last_idr = h.last_idr
  BY <1>1, <1>2 DEF Hosts
<1>4. declined \in BOOLEAN /\ (h.rfi = {} => ~lost /\ ~wide /\ ~anchored)
  OBVIOUS
<1>5. r = IF anchored THEN [tried EXCEPT !.last_rfi = t]
          ELSE IF wide \/ declined \/ h.kf THEN force_keyframe(tried, t, declined)
          ELSE tried
  BY DEF on_recovery_requests, idle, m
<1> HIDE DEF tried, lost, declined, wide, anchored
<1>6. CASE anchored
  <2>1. r = [tried EXCEPT !.last_rfi = t]
    BY <1>5, <1>6
  <2>2. r.ask = h.ask /\ r.last_rfi = t /\ r.last_idr = h.last_idr
    BY <1>3, <2>1 DEF Hosts
  <2>3. QED
    BY <1>4, <1>6, <2>2
<1>7. CASE ~anchored /\ (wide \/ declined \/ h.kf)
  <2>1. r = force_keyframe(tried, t, declined)
    BY <1>5, <1>7
  <2>2. ForcesIdr(tried, t, r)
    BY <1>3, <1>4, <2>1, ForceKeyframeSays
  <2>3. /\ r.ask = h.ask /\ r.last_rfi = h.last_rfi
        /\ r.last_idr = h.last_idr \/ (r.last_idr = t /\ r.idr)
        /\ t - h.last_idr >= IdrCooldownMax /\ t - h.last_rfi >= RecoveryFlight => r.idr
    <3> HIDE DEF r
    <3>1. QED
      BY <1>3, <2>2 DEF ForcesIdr
  <2>4. QED
    BY <2>3
<1>8. CASE ~anchored /\ ~(wide \/ declined \/ h.kf)
  BY <1>3, <1>5, <1>8
<1>9. QED
  BY <1>6, <1>7, <1>8

(* What a pass of the stream loop dates, and what it encodes.              *)
LEMMA EncodeSays ==
  ASSUME IInv, Encode
  PROVE  /\ pc = "host" /\ pc' = "wire" /\ sent'.i = now
         /\ UNCHANGED <<conf, now, inbox, late, due, short, rfi, gate, withheld, fb, clean, trouble>>
         /\ host'.ask = host.ask /\ host'.rfi = {}
         /\ host'.last_rfi = host.last_rfi \/ (host'.last_rfi = now /\ host.rfi # {})
         /\ host'.last_idr = host.last_idr \/ (host'.last_idr = now /\ sent'.idr)
         /\ ~conf.floor /\ sent'.anchor => host.rfi # {}
         /\ host.rfi = {} /\ host.kf /\ now - host.last_idr >= IdrCooldownMax
              /\ now - host.last_rfi >= RecoveryFlight => sent'.idr
<1> DEFINE h == on_recovery_requests(host, now)
           s == step(h.ltr, h.idr, now, Floor(h), conf.keep, conf.drop)
           fl == Floor(h)
<1>1. /\ pc = "host" /\ pc' = "wire" /\ sent' = Frame(now, h.idr, s.ref)
      /\ host' = [h EXCEPT !.ltr = s.m, !.idr = FALSE, !.floor = fl]
      /\ UNCHANGED <<conf, now, inbox, late, due, short, rfi, gate, withheld, fb, clean, trouble>>
  BY DEF Encode, client
<1>2. host \in Hosts /\ now \in Nat /\ now \in Ticks /\ host.ltr.force = NoSlot
  BY RecoveryAssumption DEF IInv, Typed, Acked, Ticks, Encode
<1>3. /\ h \in Hosts /\ h.rfi = {} /\ (h.ltr.force # NoSlot => host.rfi # {})
  BY <1>2, RequestsType
<1>4. /\ h.ask = host.ask
      /\ h.last_rfi = host.last_rfi \/ (h.last_rfi = now /\ host.rfi # {})
      /\ h.last_idr = host.last_idr \/ (h.last_idr = now /\ h.idr)
      /\ host.rfi = {} /\ host.kf /\ now - host.last_idr >= IdrCooldownMax
           /\ now - host.last_rfi >= RecoveryFlight => h.idr
  BY <1>2, RequestsSay
<1> HIDE DEF h
<1>5. ~conf.floor /\ s.ref # NoFrame => h.ltr.force # NoSlot
  <2>1. h.ltr \in Mirrors
    BY <1>3 DEF Hosts
  <2>2. SteppedFrom(h.ltr, h.idr, now, Floor(h), s)
    <3> DEFINE g == h.idr
               k == conf.keep
               d == conf.drop
    <3>1. s = step(h.ltr, g, now, Floor(h), k, d)
      OBVIOUS
    <3> HIDE DEF s, g, k, d
    <3>2. SteppedFrom(h.ltr, g, now, Floor(h), s)
      BY <1>2, <2>1, <3>1, StepType
    <3>3. QED
      BY <3>2 DEF g
  <2> HIDE DEF s
  <2>3. \A t \in Slots : t # NoSlot
    BY DEF Slots, NoSlot
  <2>4. ~conf.floor => Floor(h) = {}
    BY DEF Floor
  <2>5. s.ref # NoFrame => \E t \in Slots : t = h.ltr.force \/ h.ltr.wire[t] \in Floor(h)
    BY <2>2 DEF SteppedFrom
  <2>6. QED
    BY <2>3, <2>4, <2>5
<1> HIDE DEF s, fl
<1>6. sent'.i = now /\ sent'.idr = h.idr /\ (sent'.anchor => s.ref # NoFrame)
  BY <1>1 DEF Frame
<1>7. /\ host'.ask = h.ask /\ host'.rfi = h.rfi
      /\ host'.last_rfi = h.last_rfi /\ host'.last_idr = h.last_idr
  BY <1>1, <1>3 DEF Hosts
<1>8. QED
  BY <1>1, <1>3, <1>4, <1>5, <1>6, <1>7

LEMMA EncodeHeals == IInv /\ HInv /\ Encode => HInv'
<1> SUFFICES ASSUME IInv, HInv, Encode
             PROVE  HInv'
  OBVIOUS
<1> USE DEF HInv
<1>1. /\ pc = "host" /\ pc' = "wire" /\ sent'.i = now
      /\ UNCHANGED <<conf, now, inbox, late, due, short, rfi, gate, withheld, fb, clean, trouble>>
      /\ host'.ask = host.ask /\ host'.rfi = {}
      /\ host'.last_rfi = host.last_rfi \/ (host'.last_rfi = now /\ host.rfi # {})
      /\ host'.last_idr = host.last_idr \/ (host'.last_idr = now /\ sent'.idr)
      /\ ~conf.floor /\ sent'.anchor => host.rfi # {}
      /\ host.rfi = {} /\ host.kf /\ now - host.last_idr >= IdrCooldownMax
           /\ now - host.last_rfi >= RecoveryFlight => sent'.idr
  BY EncodeSays
<1>2. HealTypes
  BY HealNumbers
<1>3. /\ Stepped' = Stepped /\ Left' = Left /\ Unseen' = Unseen /\ Flying' = Flying \union {sent'}
      /\ Stepped = now - 1 /\ inbox = <<>>
  BY <1>1 DEF Stepped, Left, Unseen, Flying, Transit, IInv, Flow
<1>4. Clocks'
  <2>1. host'.last_rfi <= now /\ host'.last_idr <= now
    BY <1>1, <1>2 DEF Clocks, HealTypes
  <2>2. QED
    BY <1>1, <1>3, <2>1 DEF Clocks
<1>5. Lifted' /\ Clears'
  BY <1>1, <1>3 DEF Lifted, Clears
<1>6. host.rfi # {} => now <= trouble + RfiThrottle + 2
  <2>1. host.rfi # {} => now - 1 <= trouble + RfiThrottle + 1
    BY <1>3 DEF Asked
  <2>2. now \in Nat /\ trouble \in Nat
    BY <1>2 DEF HealTypes
  <2>3. QED
    BY <2>1, <2>2, Spans
<1>7. Asked'
  <2>1. ~conf.floor => \A f \in Flying' : f.anchor => f.i <= trouble + RfiThrottle + 2
    BY <1>1, <1>3, <1>6 DEF Asked
  <2>2. host'.last_rfi <= trouble + RfiThrottle + 2
    BY <1>1, <1>6 DEF Asked
  <2>3. QED
    BY <1>1, <1>3, <2>1, <2>2 DEF Asked
<1>8. ~Landing /\ (sent'.idr => Landing')
  BY <1>1 DEF Landing
<1>9. Paced'
  BY <1>1, <1>8 DEF Paced
<1>10. ASSUME gate.awaiting, host.kf, Sure < now
       PROVE  sent'.idr
  <2>1. host.last_idr <= trouble + Quiet /\ host.last_rfi <= trouble + RfiThrottle + 2
    BY <1>8, <1>10 DEF Paced, Asked
  <2>2. host.rfi = {}
    BY <1>2, <1>6, <1>10, Spans DEF HealTypes, Sure
  <2>3. now - host.last_idr >= IdrCooldownMax /\ now - host.last_rfi >= RecoveryFlight
    BY <1>2, <1>10, <2>1, Spans DEF HealTypes, Sure
  <2>4. QED
    BY <1>1, <1>10, <2>2, <2>3
<1>11. Served'
  BY <1>1, <1>8, <1>10 DEF Served, Sure
<1>12. QED
  BY <1>4, <1>5, <1>7, <1>9, <1>11
-----------------------------------------------------------------------------
(* The one window of asks: a range goes out as soon as it opens, and an ask*)
(* shuts it.                                                               *)
LEMMA FlushSays ==
  ASSUME NEW r \in Rfis, NEW t \in Nat
  PROVE  LET s == flush(r, t).r
             a == flush(r, t).ask
         IN  /\ s.pending # {} => t - s.request < RfiThrottle /\ r.pending # {} /\ s.request = r.request
             /\ s.request = r.request \/ (s.request = t /\ r.pending # {})
             /\ r.pending = {} => a = NoAsk
             /\ a = NoAsk => s = r
<1> DEFINE q == [r EXCEPT !.pending = {}, !.request = t]
<1>1. q.pending = {} /\ q.request = t
  BY DEF Rfis
<1>2. Keyframe # NoAsk /\ Rfi(r.pending) # NoAsk
  BY DEF Keyframe, Rfi, NoAsk
<1> HIDE DEF q
<1>3. CASE r.pending # {} /\ window_open(r, t)
  <2>1. /\ flush(r, t).r = q
        /\ flush(r, t).ask \in {Keyframe, Rfi(r.pending)}
    BY <1>3 DEF flush, q
  <2>2. QED
    BY <1>1, <1>2, <1>3, <2>1
<1>4. CASE ~(r.pending # {} /\ window_open(r, t))
  <2>1. flush(r, t) = [r |-> r, ask |-> NoAsk]
    BY <1>4 DEF flush
  <2>2. r.pending # {} => t - r.request < RfiThrottle
    <3>1. r.request \in Int /\ RfiThrottle \in Nat
      BY ClientAssumption DEF Rfis
    <3>2. QED
      BY <1>4, <3>1 DEF window_open
  <2>3. QED
    BY <2>1, <2>2
<1>5. QED
  BY <1>3, <1>4

LEMMA KeyframeSays ==
  ASSUME NEW r \in Rfis, NEW t \in Nat
  PROVE  LET s == keyframe(r, t).r
             a == keyframe(r, t).ask
         IN  \/ s = r /\ a = NoAsk /\ t - r.request < RfiThrottle
             \/ s.pending = {} /\ s.request = t /\ a = Keyframe
<1> DEFINE q == [r EXCEPT !.pending = {}, !.request = t]
<1>1. q.pending = {} /\ q.request = t
  BY DEF Rfis
<1> HIDE DEF q
<1>2. r.request \in Int /\ RfiThrottle \in Nat
  BY ClientAssumption DEF Rfis
<1>3. CASE window_open(r, t)
  <2>1. keyframe(r, t) = [r |-> q, ask |-> Keyframe]
    BY <1>3 DEF keyframe, q
  <2>2. QED
    BY <1>1, <2>1
<1>4. CASE ~window_open(r, t)
  <2>1. keyframe(r, t) = [r |-> r, ask |-> NoAsk]
    BY <1>4 DEF keyframe
  <2>2. t - r.request < RfiThrottle
    BY <1>2, <1>4 DEF window_open
  <2>3. QED
    BY <2>1, <2>2
<1>5. QED
  BY <1>3, <1>4

LEMMA AskKinds == Keyframe # NoAsk /\ Keyframe.kind = "keyframe" /\ NoAsk.kind = "none"
  BY DEF Keyframe, NoAsk

(* An ask takes the next number; a repeat takes none.                      *)
LEMMA AskSays ==
  ASSUME NEW o \in Feedbacks, NEW a \in Asks, NEW t \in Nat
  PROVE  /\ a = NoAsk => ask(o, a, t) = o
         /\ a # NoAsk => ask(o, a, t).n = o.n + 1 /\ ask(o, a, t).open = a
<1>1. a # NoAsk => ask(o, a, t).n = o.n + 1 /\ ask(o, a, t).open = a
  <2> DEFINE n == o.n + 1
             q == [o EXCEPT !.n = n, !.open = a, !.after = o.newest, !.until = t + AskGiveUp]
  <2>1. q.n = n /\ q.open = a
    <3> HIDE DEF n
    <3>1. QED
      BY DEF Feedbacks
  <2>2. a # NoAsk => ask(o, a, t) = q
    BY DEF ask
  <2> HIDE DEF q
  <2>3. QED
    BY <2>1, <2>2
<1>2. QED
  BY <1>1 DEF ask

LEMMA ResendSays ==
  ASSUME NEW o \in Feedbacks, NEW t \in Nat
  PROVE  resend(o, t).n = o.n /\ resend(o, t).open \in {o.open, NoAsk}
  BY DEF resend, Feedbacks

LEMMA StampSays ==
  ASSUME NEW o \in Feedbacks
  PROVE  /\ stamp(o).ask = IF o.open = NoAsk THEN 0 ELSE o.n
         /\ stamp(o).kind = o.open.kind
  BY DEF stamp

(* What the host learns of two datagrams, if the troubles spare them.      *)
Heard(g, h, d) ==
  /\ g.last_rfi = h.last_rfi /\ g.last_idr = h.last_idr
  /\ g.ask = IF d.ask > h.ask THEN d.ask ELSE h.ask
  /\ h.kf => g.kf
  /\ d.ask > h.ask /\ d.kind = "keyframe" => g.kf
  /\ g.rfi # {} => h.rfi # {} \/ (d.ask > h.ask /\ d.kind = "rfi")

LEMMA OnFeedbackSays ==
  ASSUME NEW h \in Hosts, NEW d \in Datagrams
  PROVE  Heard(on_feedback(h, d), h, d)
<1> DEFINE new == d.ask > h.ask
           kf  == h.kf \/ (new /\ d.kind = "keyframe")
           ra  == IF new /\ d.kind = "rfi" THEN h.rfi \union d.range ELSE h.rfi
           ac  == IF d.acked = {} THEN h.acked ELSE d.acked
           an  == IF new THEN d.ask ELSE h.ask
           g   == on_feedback(h, d)
<1>1. g = [h EXCEPT !.acked = ac, !.ask = an, !.kf = kf, !.rfi = ra]
  BY DEF on_feedback
<1> HIDE DEF kf, ra, ac, an, g
<1>2. /\ g.last_rfi = h.last_rfi /\ g.last_idr = h.last_idr
      /\ g.ask = an /\ g.kf = kf /\ g.rfi = ra
  BY <1>1 DEF Hosts
<1>3. Heard(g, h, d)
  BY <1>2 DEF Heard, kf, ra, an
<1>4. QED
  BY <1>3 DEF g

HeardBoth(d, e) ==
  /\ host'.ask >= host.ask /\ host'.ask >= d.ask /\ host'.ask >= e.ask
  /\ host.kf => host'.kf
  /\ e.ask > host.ask /\ e.ask > d.ask /\ e.kind = "keyframe" => host'.kf
  /\ host'.rfi # {} => \/ host.rfi # {}
                       \/ d.ask > host.ask /\ d.kind = "rfi"
                       \/ e.ask > host.ask /\ e.ask > d.ask /\ e.kind = "rfi"

LEMMA SendSays ==
  ASSUME Typed, NEW d \in Datagrams, NEW e \in Datagrams, Send(d, e)
  PROVE  /\ host'.last_rfi = host.last_rfi /\ host'.last_idr = host.last_idr
         /\ host'.ask \in {host.ask, d.ask, e.ask}
         /\ trouble' # now => trouble' = trouble /\ HeardBoth(d, e)
<1>0. host \in Hosts
  BY DEF Typed
<1>1. CASE host' = on_feedback(on_feedback(host, d), e) /\ UNCHANGED <<used, trouble>>
  <2> DEFINE h == on_feedback(host, d)
  <2>1. h \in Hosts /\ Heard(h, host, d)
    BY <1>0, OnFeedbackType, OnFeedbackSays
  <2>2. host' = on_feedback(h, e)
    BY <1>1
  <2> HIDE DEF h
  <2>3. Heard(host', h, e)
    BY <2>1, <2>2, OnFeedbackSays
  <2>4. /\ host.ask \in Nat /\ d.ask \in Nat /\ e.ask \in Nat
    BY <1>0 DEF Hosts, Datagrams
  <2>5. /\ host'.last_rfi = host.last_rfi /\ host'.last_idr = host.last_idr
        /\ host.kf => host'.kf
    BY <2>1, <2>3 DEF Heard
  <2>6. /\ h.ask = IF d.ask > host.ask THEN d.ask ELSE host.ask
        /\ host'.ask = IF e.ask > h.ask THEN e.ask ELSE h.ask
    BY <2>1, <2>3 DEF Heard
  <2>7. /\ host'.ask \in {host.ask, d.ask, e.ask}
        /\ host'.ask >= host.ask /\ host'.ask >= d.ask /\ host'.ask >= e.ask
        /\ e.ask > h.ask <=> e.ask > host.ask /\ e.ask > d.ask
    BY <2>4, <2>6
  <2>8. e.ask > host.ask /\ e.ask > d.ask /\ e.kind = "keyframe" => host'.kf
    BY <2>3, <2>7 DEF Heard
  <2>9. host'.rfi # {} => \/ host.rfi # {}
                          \/ d.ask > host.ask /\ d.kind = "rfi"
                          \/ e.ask > host.ask /\ e.ask > d.ask /\ e.kind = "rfi"
    BY <2>1, <2>3, <2>7 DEF Heard
  <2>10. trouble' = trouble
    BY <1>1
  <2>11. /\ host'.ask \in {host.ask, d.ask, e.ask}
         /\ host'.ask >= host.ask /\ host'.ask >= d.ask /\ host'.ask >= e.ask
    BY <2>7
  <2>12. HeardBoth(d, e)
    BY <2>5, <2>8, <2>9, <2>11 DEF HeardBoth
  <2>13. QED
    BY <2>5, <2>10, <2>11, <2>12
<1>2. CASE Trouble /\ UNCHANGED host
  BY <1>2 DEF Trouble
<1>3. QED
  BY <1>1, <1>2 DEF Send
-----------------------------------------------------------------------------
(* What the pump's pass makes of the window of asks.                       *)
Wanted(n) == NewLoss(gate, n, now) \/ Overdue(gate, n, now)

LEMMA TickedSays ==
  ASSUME now \in Nat, NEW r \in Rfis, NEW n
  PROVE  LET s == Ticked(r, n).r
             a == Ticked(r, n).ask
         IN  /\ s.pending # {} => now - s.request < RfiThrottle /\ r.pending # {} /\ s.request = r.request
             /\ s.request = r.request \/ (s.request = now /\ (r.pending # {} \/ Wanted(n)))
             /\ a.kind = "rfi" => r.pending # {}
             /\ Wanted(n) /\ now - r.request >= RfiThrottle => a = Keyframe
<1> DEFINE w == Wanted(n)
           k == IF w THEN keyframe(r, now) ELSE [r |-> r, ask |-> NoAsk]
           s == Ticked(r, n).r
           a == Ticked(r, n).ask
<1>1. Ticked(r, n) = IF k.ask = NoAsk THEN flush(k.r, now) ELSE k
  BY DEF Ticked, Wanted
<1>2. w => \/ k.r = r /\ k.ask = NoAsk /\ now - r.request < RfiThrottle
           \/ k.r.pending = {} /\ k.r.request = now /\ k.ask = Keyframe
  BY KeyframeSays
<1>3. ~w => k.r = r /\ k.ask = NoAsk
  OBVIOUS
<1>4. r.request \in Int /\ RfiThrottle \in Nat
  BY ClientAssumption DEF Rfis
<1> HIDE DEF k, w
<1>5. CASE k.ask = NoAsk
  <2>1. s = flush(r, now).r /\ a = flush(r, now).ask /\ (w => now - r.request < RfiThrottle)
    BY <1>1, <1>2, <1>3, <1>5, AskKinds
  <2> HIDE DEF s, a
  <2>2. /\ s.pending # {} => now - s.request < RfiThrottle /\ r.pending # {} /\ s.request = r.request
        /\ s.request = r.request \/ (s.request = now /\ r.pending # {})
        /\ r.pending = {} => a = NoAsk
    BY <2>1, FlushSays
  <2>3. w => ~(now - r.request >= RfiThrottle)
    BY <1>4, <2>1
  <2>4. a.kind = "rfi" => r.pending # {}
    BY <2>2, AskKinds
  <2>5. QED
    BY <2>2, <2>3, <2>4 DEF w, s, a
<1>6. CASE k.ask # NoAsk
  <2>1. w /\ s.pending = {} /\ s.request = now /\ a = Keyframe
    BY <1>1, <1>2, <1>3, <1>6
  <2>2. QED
    BY <2>1, AskKinds DEF w
<1>7. QED
  BY <1>5, <1>6

(* A freeze is armed anew, or is the one there was and still runs.         *)
LEMMA PollSays ==
  ASSUME NEW g \in Gates, NEW n \in Nat, NEW t \in Nat
  PROVE  /\ poll(g, n, t).awaiting => \/ poll(g, n, t).deadline = t + FreezeMax
                                      \/ g.awaiting /\ poll(g, n, t).deadline = g.deadline
         /\ ~NewLoss(g, n, t) /\ ~Overdue(g, n, t) =>
              poll(g, n, t).awaiting = g.awaiting /\ poll(g, n, t).deadline = g.deadline
         /\ NewLoss(g, n, t) \/ Overdue(g, n, t) =>
              poll(g, n, t).awaiting /\ poll(g, n, t).deadline = t + FreezeMax
<1> DEFINE b == Booked(g, n, t)
           c == IF t >= g.expiry THEN 0 ELSE g.credit - Credited(g, n, t)
<1>1. b = g \/ b = [g EXCEPT !.dropped = n, !.credit = c]
  BY DEF Booked
<1> HIDE DEF b, c
<1>2. /\ b.awaiting = g.awaiting /\ b.deadline = g.deadline
      /\ arm(b, t).awaiting /\ arm(b, t).deadline = t + FreezeMax
  BY <1>1 DEF Gates, arm
<1>3. poll(g, n, t) = IF NewLoss(g, n, t) \/ Overdue(g, n, t) THEN arm(b, t) ELSE b
  BY DEF poll, b
<1>4. QED
  BY <1>2, <1>3

LEMMA SeenSays ==
  ASSUME NEW r \in Rfis, NEW i \in Ticks
  PROVE  /\ Seen(r, i).request = r.request
         /\ Jump(r, i) <= 0 => Seen(r, i).pending = r.pending
<1> DEFINE p == Hull(r.pending \union unasked(r, r.next .. i - 1))
           q == [r EXCEPT !.pending = p]
           j == i + 1
<1>1. q.request = r.request
  BY DEF Rfis
<1>2. Seen(r, i) \in {r, [r EXCEPT !.next = j], [q EXCEPT !.next = j]}
  BY DEF Seen, widen
<1>3. Jump(r, i) <= 0 => Seen(r, i) \in {r, [r EXCEPT !.next = j]}
  <2>1. Jump(r, i) \in Int
    BY RecoveryAssumption DEF Jump, Rfis, Ticks
  <2>2. Jump(r, i) <= 0 => ~(Jump(r, i) > 0)
    BY <2>1
  <2>3. QED
    BY <2>2 DEF Seen
<1> HIDE DEF q, j, p
<1>4. /\ [r EXCEPT !.next = j].request = r.request /\ [r EXCEPT !.next = j].pending = r.pending
  BY DEF Rfis
<1>5. [q EXCEPT !.next = j].request = r.request
  BY <1>1 DEF q, Rfis
<1>6. QED
  BY <1>2, <1>3, <1>4, <1>5

LEMMA ShortTailSays ==
  ASSUME Typed, now \in Nat
  PROVE  ShortTail.r.request = rfi.request \/ ShortTail.r.request = now
<1> DEFINE q == [rfi EXCEPT !.asked = @ \union {short}]
           w == widen(q, {short})
<1>0. rfi \in Rfis
  BY DEF Typed
<1>1. CASE short # NoFrame /\ ~on_anchors
  <2>1. short \in Ticks
    BY <1>1, RecoveryAssumption DEF Typed, Ticks, NoFrame
  <2>2. q \in Rfis /\ q.request = rfi.request
    BY <1>0, <2>1, RecoveryAssumption DEF Rfis, Ticks
  <2> HIDE DEF q
  <2>3. w \in Rfis /\ w.request = rfi.request
    <3>1. w \in Rfis
      BY <2>1, <2>2, WidenType
    <3>2. w.request = rfi.request
      BY <2>2 DEF widen, Rfis
    <3>3. QED
      BY <3>1, <3>2
  <2>4. ShortTail.r \in {flush(rfi, now).r, flush(w, now).r}
    BY <1>1 DEF ShortTail, tail_short, q
  <2> HIDE DEF w
  <2>5. QED
    BY <1>0, <2>3, <2>4, FlushSays
<1>2. CASE ~(short # NoFrame /\ ~on_anchors)
  BY <1>2 DEF ShortTail
<1>3. QED
  BY <1>1, <1>2

(* What the pump's pass does to asks, and what it does to them when no     *)
(* trouble comes in its tick: nothing new is lost, and the datagrams arrive.*)
PumpAsks ==
  /\ rfi'.request = rfi.request \/ rfi'.request = now
  /\ rfi'.pending # {} => now - rfi'.request < RfiThrottle
  /\ host'.last_rfi = host.last_rfi /\ host'.last_idr = host.last_idr /\ host'.ask <= fb'.n
  /\ gate'.awaiting => \/ gate'.deadline = now + FreezeMax
                       \/ gate.awaiting /\ gate'.deadline = gate.deadline
  /\ gate.awaiting => gate'.awaiting

PumpCalm ==
  /\ trouble' = trouble
  /\ rfi'.pending # {} => rfi.pending # {} /\ rfi'.request = rfi.request
  /\ fb'.open # NoAsk => host'.ask = fb'.n
  /\ host'.rfi # {} => host.rfi # {} \/ rfi.pending # {} \/ (fb.open # NoAsk /\ host.ask < fb.n)
  /\ rfi'.request = rfi.request \/ rfi.pending # {} \/ gate'.deadline = now + FreezeMax
  /\ gate'.awaiting => \/ now \in due
                       \/ gate.awaiting /\ gate'.deadline = gate.deadline
                       \/ /\ gate.awaiting /\ now >= gate.deadline
                          /\ now - rfi.request >= RfiThrottle => host'.kf

LEMMA PumpSays ==
  ASSUME IInv, Clocks, Clears, Pump
  PROVE  PumpAsks /\ (trouble' # now => PumpCalm)
<1> DEFINE n  == dropped + (IF now \in due THEN 1 ELSE 0)
           a  == ask(fb, ShortTail.ask, now)
           o  == resend(a, now)
           t  == Ticked(ShortTail.r, n)
           o2 == ask(o, t.ask, now)
           d  == stamp(o)
           e  == stamp(o2)
<1>0. /\ rfi' = t.r /\ gate' = poll(gate, n, now) /\ fb' = o2 /\ Send(d, e)
  BY DEF Pump
<1>1. /\ Typed /\ now \in Nat /\ fb \in Feedbacks /\ rfi \in Rfis /\ gate \in Gates
      /\ n \in Nat /\ n \in {gate.dropped, gate.dropped + 1} /\ (now \notin due => n = gate.dropped)
      /\ host.ask \in Nat /\ fb.n \in Nat /\ trouble \in Nat
  <2>1. Typed /\ now \in Nat /\ dropped \in Nat /\ gate.dropped = dropped
    BY DueType DEF IInv
  <2>2. QED
    BY <2>1, HealNumbers DEF Typed, HealTypes
<1> HIDE DEF n
<1>2. /\ ShortTail.r \in Rfis /\ ShortTail.ask \in Asks
      /\ ShortTail.r.request = rfi.request \/ ShortTail.r.request = now
      /\ short = NoFrame => ShortTail.r = rfi /\ ShortTail.ask = NoAsk
  BY <1>1, ShortTailType, ShortTailSays
<1>3. /\ t.r \in Rfis /\ t.ask \in Asks
      /\ t.r.pending # {} => /\ now - t.r.request < RfiThrottle
                             /\ ShortTail.r.pending # {} /\ t.r.request = ShortTail.r.request
      /\ t.r.request = ShortTail.r.request
           \/ (t.r.request = now /\ (ShortTail.r.pending # {} \/ Wanted(n)))
      /\ t.ask.kind = "rfi" => ShortTail.r.pending # {}
      /\ Wanted(n) /\ now - ShortTail.r.request >= RfiThrottle => t.ask = Keyframe
  BY <1>1, <1>2, TickedType, TickedSays
<1> HIDE DEF t
<1>4. /\ gate'.awaiting => \/ gate'.deadline = now + FreezeMax
                           \/ gate.awaiting /\ gate'.deadline = gate.deadline
      /\ ~Wanted(n) => gate'.awaiting = gate.awaiting /\ gate'.deadline = gate.deadline
      /\ Wanted(n) => gate'.awaiting /\ gate'.deadline = now + FreezeMax
      /\ Wanted(n) => now \in due \/ (gate.awaiting /\ now >= gate.deadline)
  <2>1. now \notin due => ~NewLoss(gate, n, now)
    BY <1>1, PollType
  <2>2. Overdue(gate, n, now) => gate.awaiting /\ now >= gate.deadline
    BY DEF Overdue
  <2>3. QED
    BY <1>0, <1>1, <2>1, <2>2, PollSays DEF Wanted
<1>5. /\ a \in Feedbacks /\ (ShortTail.ask = NoAsk => a = fb) /\ a.n >= fb.n
  <2>1. a \in Feedbacks
    BY <1>1, <1>2, AskType
  <2>2. /\ ShortTail.ask = NoAsk => a = fb
        /\ ShortTail.ask # NoAsk => a.n = fb.n + 1
    BY <1>1, <1>2, AskSays
  <2> HIDE DEF a
  <2>3. QED
    BY <1>1, <2>1, <2>2
<1> HIDE DEF a
<1>6. o \in Feedbacks /\ o.n = a.n /\ o.open \in {a.open, NoAsk}
  BY <1>1, <1>5, ResendType, ResendSays
<1> HIDE DEF o
<1>7. /\ o2 \in Feedbacks
      /\ t.ask = NoAsk => o2 = o
      /\ t.ask # NoAsk => o2.n = o.n + 1 /\ o2.open = t.ask
  <2>1. o2 \in Feedbacks
    BY <1>1, <1>3, <1>6, AskType
  <2>2. /\ t.ask = NoAsk => o2 = o
        /\ t.ask # NoAsk => o2.n = o.n + 1 /\ o2.open = t.ask
    BY <1>1, <1>3, <1>6, AskSays
  <2>3. QED
    BY <2>1, <2>2
<1> HIDE DEF o2
<1>8. /\ d \in Datagrams /\ d.ask = (IF o.open = NoAsk THEN 0 ELSE o.n) /\ d.kind = o.open.kind
      /\ e \in Datagrams /\ e.ask = (IF o2.open = NoAsk THEN 0 ELSE o2.n) /\ e.kind = o2.open.kind
      /\ t.ask = NoAsk => e = d
  BY <1>6, <1>7, StampType, StampSays
<1> HIDE DEF d, e
<1>9. /\ host'.last_rfi = host.last_rfi /\ host'.last_idr = host.last_idr
      /\ host'.ask \in {host.ask, d.ask, e.ask}
      /\ trouble' # now => trouble' = trouble /\ HeardBoth(d, e)
  BY <1>0, <1>1, <1>8, SendSays
<1>10. /\ host.ask <= fb.n /\ fb.n <= o.n /\ o.n <= o2.n
       /\ o.n \in Nat /\ o2.n \in Nat /\ d.ask \in Nat /\ e.ask \in Nat
       /\ d.ask <= o.n /\ e.ask <= o2.n
  <2>1. host.ask <= fb.n /\ fb.n \in Nat /\ a.n \in Nat /\ o.n \in Nat /\ o2.n \in Nat
    BY <1>1, <1>5, <1>6, <1>7 DEF Clocks, Feedbacks
  <2>2. o2.n = o.n \/ o2.n = o.n + 1
    BY <1>7
  <2>3. QED
    BY <1>5, <1>6, <1>8, <2>1, <2>2
<1>11. host'.ask <= fb'.n
  BY <1>0, <1>1, <1>9, <1>10
<1>12. PumpAsks
  <2>1. rfi'.request = rfi.request \/ rfi'.request = now
    BY <1>0, <1>2, <1>3
  <2>2. rfi'.pending # {} => now - rfi'.request < RfiThrottle
    BY <1>0, <1>3
  <2>3. gate.awaiting => gate'.awaiting
    BY <1>4
  <2>4. QED
    BY <1>4, <1>9, <1>11, <2>1, <2>2, <2>3 DEF PumpAsks
<1>13. ASSUME trouble' # now
       PROVE  PumpCalm
  <2>1. trouble' = trouble /\ HeardBoth(d, e)
    BY <1>9, <1>13
  <2>2. short = NoFrame
    BY <1>1, <1>13, <2>1 DEF Clocks, Clears
  <2>3. /\ ShortTail.r = rfi /\ a = fb /\ o.n = fb.n /\ o.open \in {fb.open, NoAsk}
    BY <1>2, <1>5, <1>6, <2>2
  <2>4. fb'.open # NoAsk => host'.ask = fb'.n
    <3>1. o2.open # NoAsk => e.ask = o2.n
      BY <1>8
    <3>2. host'.ask >= e.ask /\ host'.ask \in Nat
      BY <1>1, <1>9, <1>10, <2>1 DEF HeardBoth
    <3>3. QED
      BY <1>0, <1>10, <1>11, <3>1, <3>2
  <2>5. host'.rfi # {} => host.rfi # {} \/ rfi.pending # {} \/ (fb.open # NoAsk /\ host.ask < fb.n)
    <3>1. ASSUME d.ask > host.ask
          PROVE  fb.open # NoAsk /\ host.ask < fb.n
      BY <1>1, <1>8, <2>3, <3>1
    <3>2. ASSUME e.ask > d.ask, e.kind = "rfi"
          PROVE  rfi.pending # {}
      <4>1. t.ask # NoAsk
        BY <1>8, <1>10, <3>2
      <4>2. QED
        BY <1>3, <1>7, <1>8, <2>3, <3>2, <4>1
    <3>3. QED
      BY <2>1, <3>1, <3>2 DEF HeardBoth
  <2>6. ASSUME Wanted(n), now - rfi.request >= RfiThrottle
        PROVE  host'.kf
    <3>1. t.ask = Keyframe
      BY <1>3, <2>3, <2>6
    <3>2. e.kind = "keyframe" /\ e.ask = fb.n + 1
      BY <1>7, <1>8, <2>3, <3>1, AskKinds
    <3>3. e.ask > host.ask /\ e.ask > d.ask
      BY <1>1, <1>10, <2>3, <3>2
    <3>4. QED
      BY <2>1, <3>2, <3>3 DEF HeardBoth
  <2>7. rfi'.request = rfi.request \/ rfi.pending # {} \/ gate'.deadline = now + FreezeMax
    BY <1>0, <1>3, <1>4, <2>3
  <2>8. rfi'.pending # {} => rfi.pending # {} /\ rfi'.request = rfi.request
    BY <1>0, <1>3, <2>3
  <2>9. gate'.awaiting => \/ now \in due
                          \/ gate.awaiting /\ gate'.deadline = gate.deadline
                          \/ /\ gate.awaiting /\ now >= gate.deadline
                             /\ now - rfi.request >= RfiThrottle => host'.kf
    BY <1>4, <2>6
  <2>10. QED
    BY <2>1, <2>4, <2>5, <2>7, <2>8, <2>9 DEF PumpCalm
<1>14. QED
  BY <1>12, <1>13

LEMMA PumpHeals == IInv /\ HInv /\ RfiThrottle <= FreezeMax /\ Pump => HInv'
<1> SUFFICES ASSUME IInv, HInv, RfiThrottle <= FreezeMax, Pump
             PROVE  HInv'
  OBVIOUS
<1> USE DEF HInv
<1>1. /\ pc = "pump" /\ pc' = "decode" /\ due' = due \ {now} /\ short' = NoFrame
      /\ UNCHANGED <<conf, now, sent, inbox, late, withheld, clean>>
  BY DEF Pump
<1>2. PumpAsks /\ (trouble' # now => PumpCalm)
  BY PumpSays
<1>3. HealTypes /\ IInv' /\ HealTypes' /\ rfi'.next = rfi.next
  BY HealNumbers, PumpInv, HealNumbersThen, PumpType DEF PumpDoes
<1>4. /\ Stepped = now - 1 /\ Stepped' = now /\ Left' = Left /\ Unseen' = Unseen
      /\ Flying' = Flying /\ Members(inbox') = Members(inbox) /\ trouble <= now
  BY <1>1 DEF Stepped, Left, Unseen, Flying, Transit, Clocks
<1>5. Clocks'
  <2>1. trouble' <= now
    BY <1>2, <1>3, <1>4 DEF PumpCalm, HealTypes
  <2>2. /\ rfi'.request <= now /\ host'.last_rfi <= now /\ host'.last_idr <= now
        /\ host'.ask <= fb'.n /\ (rfi'.pending # {} => Stepped' - rfi'.request < RfiThrottle)
    BY <1>2, <1>3, <1>4 DEF PumpAsks, Clocks, HealTypes
  <2>3. gate'.awaiting => gate'.deadline <= now + FreezeMax
    BY <1>2, <1>3, Spans DEF PumpAsks, Clocks, HealTypes
  <2>4. QED
    BY <1>1, <2>1, <2>2, <2>3 DEF Clocks
<1>6. Lifted'
  BY <1>1, <1>2, <1>3 DEF Lifted, PumpAsks
<1>7. CASE trouble' = now
  BY <1>1, <1>3, <1>5, <1>6, <1>7, StruckThen DEF Struck
<1>8. CASE trouble' # now
  <2>1. PumpCalm /\ trouble' = trouble /\ trouble < now
    BY <1>2, <1>3, <1>4, <1>8 DEF PumpCalm, HealTypes
  <2>2. Clears'
    BY <1>1, <1>3, <1>4, <2>1 DEF Clears
  <2>3. now \in due => now <= trouble + Quiet
    BY <1>3, Spans DEF Clears, HealTypes
  <2>4. rfi.pending # {} => now <= trouble + RfiThrottle + 1
    BY <1>3, <1>4, Spans DEF Clocks, Asked, HealTypes
  <2>5. Asked'
    <3>1. rfi'.pending # {} => rfi'.request <= trouble + 1
      BY <2>1 DEF Asked, PumpCalm
    <3>2. fb'.open # NoAsk => host'.ask = fb'.n
      BY <2>1 DEF PumpCalm
    <3>3. host'.rfi # {} => now <= trouble + RfiThrottle + 1
      <4>1. host.rfi = {}
        BY <1>1, <1>3, <2>1 DEF Asked, HealTypes
      <4>2. fb.open # NoAsk /\ host.ask < fb.n => now <= trouble + 1
        BY <1>3, <1>4 DEF Asked, HealTypes
      <4>3. QED
        BY <1>3, <2>1, <2>4, <4>1, <4>2, Spans DEF PumpCalm, HealTypes
    <3>4. host'.last_rfi <= trouble + RfiThrottle + 2
      BY <1>2 DEF Asked, PumpAsks
    <3>5. ~conf.floor => \A f \in Flying' : f.anchor => f.i <= trouble + RfiThrottle + 2
      BY <1>4 DEF Asked
    <3>6. gate'.awaiting => \/ rfi'.request <= gate'.deadline - FreezeMax
                            \/ rfi'.request <= trouble + RfiThrottle + 1
      <4>1. CASE gate'.deadline = now + FreezeMax
        BY <1>1, <1>3, <1>5, <4>1, Spans DEF Clocks, HealTypes
      <4>2. CASE gate.awaiting /\ gate'.deadline = gate.deadline /\ rfi'.request = rfi.request
        BY <4>2 DEF Asked
      <4>3. CASE rfi.pending # {}
        <5>1. rfi'.request <= now
          BY <1>1, <1>5 DEF Clocks
        <5>2. QED
          BY <1>3, <2>4, <4>3, <5>1, Spans DEF HealTypes
      <4>4. QED
        BY <1>2, <2>1, <4>1, <4>2, <4>3 DEF PumpAsks, PumpCalm
    <3>7. QED
      BY <1>1, <1>4, <2>1, <3>1, <3>2, <3>3, <3>4, <3>5, <3>6 DEF Asked
  <2>6. Landing => Landing'
    BY <1>1 DEF Landing
  <2>7. Paced'
    <3>1. host'.last_idr = host.last_idr /\ host.last_idr <= now
      BY <1>2 DEF PumpAsks, Clocks
    <3>2. CASE gate.awaiting
      BY <2>1, <2>6, <3>1, <3>2 DEF Paced
    <3>3. CASE ~gate.awaiting /\ gate'.awaiting
      <4>1. now <= trouble + Quiet
        BY <2>1, <2>3, <3>3 DEF PumpCalm
      <4>2. QED
        BY <1>3, <2>1, <3>1, <4>1, Spans DEF Paced, HealTypes
    <3>4. QED
      BY <3>2, <3>3 DEF Paced
  <2>8. ASSUME gate'.awaiting, now <= Sure
        PROVE  gate'.deadline <= Sure + FreezeMax \/ Landing'
    <3>1. gate'.deadline = now + FreezeMax => gate'.deadline <= Sure + FreezeMax
      BY <1>3, <2>8, Spans DEF HealTypes, Sure
    <3>2. gate.awaiting => gate.deadline <= Sure + FreezeMax \/ Landing
      BY <1>1, <1>3, <2>8, Spans DEF Served, HealTypes, Sure
    <3>3. QED
      BY <1>2, <2>6, <2>8, <3>1, <3>2 DEF PumpAsks
  <2>9. ASSUME gate'.awaiting, ~(now <= Sure), gate.awaiting, gate.deadline <= Sure + FreezeMax
        PROVE  \/ gate'.deadline <= Sure + FreezeMax
               \/ host'.kf /\ Sure < now /\ now <= Sure + FreezeMax
    <3>1. now <= gate.deadline /\ Sure < now /\ now <= Sure + FreezeMax
      BY <1>1, <1>3, <2>9, Spans DEF Clocks, HealTypes, Sure
    <3>2. now \notin due
      BY <1>3, <2>3, <3>1, Spans DEF HealTypes, Sure
    <3>3. ASSUME now >= gate.deadline
          PROVE  now - rfi.request >= RfiThrottle
      BY <1>3, <2>9, <3>1, <3>3, Spans DEF Asked, HealTypes, Sure
    <3>4. QED
      BY <2>1, <2>9, <3>1, <3>2, <3>3 DEF PumpCalm
  <2>10. ASSUME gate'.awaiting, ~(now <= Sure)
         PROVE  gate.awaiting
    <3>1. now \notin due
      BY <1>3, <2>3, <2>10, Spans DEF HealTypes, Sure
    <3>2. QED
      BY <2>1, <2>10, <3>1 DEF PumpCalm
  <2>11. Sure' = Sure
    BY <2>1 DEF Sure
  <2>12. Served'
    <3> SUFFICES ASSUME gate'.awaiting
                 PROVE  \/ gate'.deadline <= Sure + FreezeMax
                        \/ now <= Sure + FreezeMax + 1 /\ Landing'
                        \/ host'.kf /\ Sure < now /\ now <= Sure + FreezeMax
      BY <1>1, <2>11 DEF Served
    <3>1. CASE now <= Sure
      BY <1>3, <2>8, <3>1, Spans DEF HealTypes, Sure
    <3>2. CASE ~(now <= Sure)
      <4>1. \/ gate.deadline <= Sure + FreezeMax
            \/ now <= Sure + FreezeMax + 1 /\ Landing
        BY <1>1, <2>10, <3>2 DEF Served
      <4>2. QED
        BY <2>6, <2>9, <2>10, <3>2, <4>1
    <3>3. QED
      BY <3>1, <3>2
  <2>13. QED
    BY <1>5, <1>6, <2>2, <2>5, <2>7, <2>12
<1>9. QED
  BY <1>7, <1>8

(* A keyframe the decoder asks for is itself a trouble of its tick.        *)
LEMMA NeedKeyframeHeals == IInv /\ HInv /\ NeedKeyframe => HInv'
<1> SUFFICES ASSUME IInv, HInv, NeedKeyframe
             PROVE  HInv'
  OBVIOUS
<1> USE DEF HInv
<1> DEFINE k == keyframe(rfi, now)
           o == ask(fb, k.ask, now)
           d == stamp(o)
<1>1. /\ pc = "pump" /\ pc' = "pump" /\ trouble' = now /\ rfi' = k.r /\ fb' = o
      /\ gate' = (IF gate.awaiting THEN gate ELSE arm(gate, now))
      /\ host' = on_feedback(host, d)
      /\ UNCHANGED <<conf, now, pc, short, withheld, clean>>
  BY DEF NeedKeyframe, Trouble
<1>2. HealTypes /\ IInv' /\ rfi \in Rfis /\ fb \in Feedbacks /\ gate \in Gates /\ host \in Hosts
  BY HealNumbers, NeedKeyframeInv DEF IInv, Typed
<1>3. k.r.next = rfi.next /\ k.ask \in Asks
  BY <1>2, KeyframeType DEF HealTypes
<1>4. \/ k.r = rfi
      \/ k.r.pending = {} /\ k.r.request = now
  BY <1>2, KeyframeSays DEF HealTypes
<1> HIDE DEF k
<1>5. o \in Feedbacks /\ fb.n <= o.n /\ o.n \in Nat
  <2>1. o \in Feedbacks
    BY <1>2, <1>3, AskType DEF HealTypes
  <2>2. o = fb \/ o.n = fb.n + 1
    BY <1>2, <1>3, AskSays DEF HealTypes
  <2> HIDE DEF o
  <2>3. QED
    BY <1>2, <2>1, <2>2 DEF HealTypes, Feedbacks
<1> HIDE DEF o
<1>6. d \in Datagrams /\ d.ask \in {0, o.n}
  BY <1>5, StampType, StampSays
<1> HIDE DEF d
<1>7. host'.last_rfi = host.last_rfi /\ host'.last_idr = host.last_idr /\ host'.ask <= o.n
  <2>1. Heard(host', host, d)
    BY <1>1, <1>2, <1>6, OnFeedbackSays
  <2>2. host.ask <= fb.n
    BY DEF Clocks
  <2>3. QED
    BY <1>2, <1>5, <1>6, <2>1, <2>2 DEF Heard, HealTypes
<1>8. gate'.awaiting /\ (gate' = gate \/ gate'.deadline = now + FreezeMax)
  BY <1>1, <1>2, ArmType DEF HealTypes
<1>9. Clocks'
  <2>1. Stepped' = Stepped
    BY <1>1 DEF Stepped
  <2>2. gate'.deadline <= now + FreezeMax /\ now <= gate'.deadline
    BY <1>1, <1>2, <1>8, Spans DEF Clocks, HealTypes
  <2>3. rfi'.request <= now /\ (rfi'.pending # {} => Stepped - rfi'.request < RfiThrottle)
    BY <1>1, <1>2, <1>4 DEF Clocks, HealTypes
  <2>4. QED
    BY <1>1, <1>2, <1>7, <2>1, <2>2, <2>3 DEF Clocks, HealTypes
<1>10. Lifted'
  BY <1>1, <1>8 DEF Lifted
<1>11. Struck'
  BY <1>1 DEF Struck
<1>12. QED
  BY <1>2, <1>9, <1>10, <1>11, StruckThen
-----------------------------------------------------------------------------
(* What a frame that goes up makes of the window of asks.                  *)
LEMMA ObserveSays ==
  ASSUME NEW r \in Rfis, NEW i \in Ticks, NEW t \in Nat
  PROVE  LET s == observe(r, i, t).r
             a == observe(r, i, t).ask
         IN  /\ s.pending # {} => t - s.request < RfiThrottle /\ s.request = r.request
             /\ s.request = r.request \/ s.request = t
             /\ Jump(r, i) <= 0 => /\ s.pending # {} => r.pending # {}
                                   /\ s.request = r.request \/ r.pending # {}
                                   /\ r.pending = {} => a = NoAsk
<1> DEFINE q == Seen(r, i)
<1>1. /\ q \in Rfis /\ q.request = r.request
      /\ Jump(r, i) <= 0 => q.pending = r.pending
  BY SeenType, SeenSays
<1>2. observe(r, i, t) = flush(q, t)
  BY DEF observe
<1> HIDE DEF q
<1>3. LET s == flush(q, t).r
          a == flush(q, t).ask
      IN  /\ s.pending # {} => t - s.request < RfiThrottle /\ q.pending # {} /\ s.request = q.request
          /\ s.request = q.request \/ (s.request = t /\ q.pending # {})
          /\ q.pending = {} => a = NoAsk
  BY <1>1, FlushSays
<1>4. QED
  BY <1>1, <1>2, <1>3

LEMMA OnDecodedSays ==
  ASSUME NEW g \in Gates, NEW f, NEW damaged, NEW t \in Nat
  PROVE  LET r == on_decoded(g, f, damaged, t)
         IN  /\ r.awaiting => \/ g.awaiting /\ r.deadline = g.deadline
                              \/ damaged /\ ~g.awaiting
             /\ damaged /\ ~f.idr /\ ~g.awaiting => r.deadline = t + FreezeMax
<1>1. CASE lifts(f, damaged)
  BY <1>1 DEF on_decoded, Gates, lifts
<1>2. CASE ~lifts(f, damaged) /\ damaged /\ ~g.awaiting
  BY <1>2, ArmType DEF on_decoded
<1>3. CASE ~lifts(f, damaged) /\ ~(damaged /\ ~g.awaiting)
  BY <1>3 DEF on_decoded
<1>4. QED
  BY <1>1, <1>2, <1>3

LEMMA TakenSays ==
  ASSUME NEW o \in Feedbacks, NEW f \in Frames
  PROVE  /\ taken(on_frame(o, f), f).n = o.n
         /\ taken(on_frame(o, f), f).open \in {o.open, NoAsk}
<1> DEFINE w == on_frame(o, f)
           c == TakenClean(w, f)
           a == IF c THEN {x \in w.acks : f.i - x <= 16} \union {f.i} ELSE w.acks
<1>1. w.n = o.n /\ w.open \in {o.open, NoAsk} /\ w \in Feedbacks
  BY OnFrameType DEF on_frame, Feedbacks
<1>2. taken(w, f) \in {w, [w EXCEPT !.prev = f.i, !.clean = c, !.acks = a]}
  BY DEF taken
<1> HIDE DEF w, c, a
<1>3. taken(w, f).n = w.n /\ taken(w, f).open = w.open
  BY <1>1, <1>2 DEF Feedbacks
<1>4. QED
  BY <1>1, <1>3 DEF w

DecodeAsks(f) ==
  /\ rfi'.request = rfi.request \/ rfi'.request = now
  /\ rfi'.pending # {} => now - rfi'.request < RfiThrottle
  /\ host'.last_rfi = host.last_rfi /\ host'.last_idr = host.last_idr /\ host'.ask <= fb'.n
  /\ Fed(f) /\ conf.ledger /\ ~Whole(f) => gate'.awaiting
  /\ Fed(f) /\ f.idr => ~gate'.awaiting
  /\ ~Fed(f) /\ (gate.awaiting \/ Gap(f) > 0) => gate'.awaiting
  /\ Gap(f) = 0 /\ gate'.awaiting => \/ gate.awaiting /\ gate'.deadline = gate.deadline
                                     \/ ~gate.awaiting /\ Fed(f) /\ conf.ledger /\ ~Whole(f)

DecodeCalm(f) ==
  /\ trouble' = trouble /\ (host.kf => host'.kf)
  /\ fb'.open # NoAsk => \/ host'.ask = fb'.n
                         \/ fb.open # NoAsk /\ fb'.n = fb.n /\ host'.ask = host.ask
  /\ Gap(f) = 0 => /\ rfi'.pending # {} => rfi.pending # {} /\ rfi'.request = rfi.request
                   /\ host'.rfi # {} => host.rfi # {} \/ rfi.pending # {}
                   /\ \/ rfi'.request = rfi.request \/ rfi.pending # {}
                      \/ gate'.deadline = now + FreezeMax

LEMMA DecodeSays ==
  ASSUME IInv, Clocks, Decode
  PROVE  DecodeAsks(Head(inbox)) /\ (trouble' # now => DecodeCalm(Head(inbox)))
<1> DEFINE f       == Head(inbox)
           took    == taken(on_frame(fb, f), f)
           acks    == IF took.prev = f.i /\ took.clean THEN took.acks ELSE {}
           r       == IF f.anchor THEN [rfi EXCEPT !.anchored = f.i] ELSE rfi
           jump    == Jump(r, f.i)
           seen    == observe(r, f.i, now)
           armed   == IF jump > 0 THEN arm_expecting_drops(gate, now, jump) ELSE gate
           holding == IF jump >= 0 /\ ~conf.ledger THEN withholds(withheld, jump, f) ELSE withheld
           fed     == jump >= 0 /\ ~holding
           whole   == f.idr \/ f.ref \in clean
           damaged == fed /\ conf.ledger /\ ~whole
           folded  == IF fed THEN on_decoded(armed, f, damaged, now) ELSE armed
           want    == damaged /\ ~armed.awaiting
           k       == IF want THEN keyframe(seen.r, now) ELSE [r |-> seen.r, ask |-> NoAsk]
           p       == ask(took, seen.ask, now)
           o       == ask(p, k.ask, now)
           first   == Ack(acks)
           second  == IF o.n > took.n THEN stamp(o) ELSE Ack({})
<1>0. /\ pc = "decode" /\ inbox # <<>> /\ rfi' = k.r /\ gate' = folded /\ fb' = o
      /\ Send(first, second)
  BY DEF Decode
<1>1. /\ now \in Nat /\ f \in Frames /\ f.i \in Ticks /\ f.i \in Nat
      /\ Typed /\ rfi \in Rfis /\ gate \in Gates /\ fb \in Feedbacks /\ host \in Hosts
      /\ conf.ledger \in BOOLEAN /\ rfi.next \in Nat /\ host.ask \in Nat /\ fb.n \in Nat
      /\ host.ask <= fb.n /\ withheld \in BOOLEAN
  BY <1>0, DecodedFrame, ConfType DEF IInv, Typed, Rfis, Hosts, Feedbacks, Clocks
<1> HIDE DEF f
<1>2. took \in Feedbacks /\ took.n = fb.n /\ took.open \in {fb.open, NoAsk}
  BY <1>1, OnFrameType, TakenType, TakenSays
<1>3. first \in Datagrams /\ first.ask = 0
  <2>1. acks \in SUBSET Ticks
    BY <1>2 DEF Feedbacks
  <2> HIDE DEF acks
  <2>2. QED
    BY <2>1, AckType
<1> HIDE DEF took, acks, first
<1>4. r \in Rfis /\ r.next = rfi.next /\ r.pending = rfi.pending /\ r.request = rfi.request
  BY <1>1 DEF Rfis
<1> HIDE DEF r
<1>5. /\ jump \in Int /\ (jump >= 0 <=> Ahead(f)) /\ (jump > 0 <=> Gap(f) > 0)
      /\ jump >= 0 => jump = Gap(f) /\ jump \in Nat
      /\ Gap(f) = 0 => jump <= 0
      /\ Gap(f) = 0 \/ Gap(f) > 0
  <2>1. jump = IF rfi.next = 0 THEN 0 ELSE IF f.i < rfi.next THEN -1 ELSE f.i - rfi.next
    BY <1>4 DEF Jump
  <2> HIDE DEF jump
  <2>2. QED
    BY <1>1, <2>1 DEF Ahead, Gap
<1>6. /\ seen.r \in Rfis /\ seen.ask \in Asks
      /\ seen.r.pending # {} => now - seen.r.request < RfiThrottle /\ seen.r.request = rfi.request
      /\ seen.r.request = rfi.request \/ seen.r.request = now
      /\ jump <= 0 => /\ seen.r.pending # {} => rfi.pending # {}
                      /\ seen.r.request = rfi.request \/ rfi.pending # {}
                      /\ rfi.pending = {} => seen.ask = NoAsk
  BY <1>1, <1>4, ObserveType, ObserveSays
<1> HIDE DEF seen, jump
<1>7. /\ armed \in Gates /\ (Gap(f) = 0 => armed = gate)
      /\ Gap(f) > 0 => armed.awaiting
  <2> HIDE DEF jump
  <2>1. CASE jump > 0
    <3>1. jump \in Nat /\ armed = arm_expecting_drops(gate, now, jump)
      BY <1>5, <2>1
    <3> HIDE DEF armed
    <3>2. armed \in Gates /\ armed.awaiting
      BY <1>1, <3>1, ArmExpectingType
    <3>3. QED
      BY <1>5, <2>1, <3>2
  <2>2. CASE ~(jump > 0)
    BY <1>1, <1>5, <2>2
  <2>3. QED
    BY <2>1, <2>2
<1> HIDE DEF armed
<1>8. fed <=> Fed(f)
  <2>1. CASE Ahead(f)
    BY <1>1, <1>5, <2>1 DEF Fed
  <2>2. CASE ~Ahead(f)
    BY <1>1, <1>5, <2>2 DEF Fed
  <2>3. QED
    BY <2>1, <2>2
<1>9. whole <=> Whole(f)
  BY DEF Whole
<1> HIDE DEF fed, whole, holding
<1>10. damaged <=> Fed(f) /\ conf.ledger /\ ~Whole(f)
  BY <1>8, <1>9
<1> HIDE DEF damaged
<1>11. /\ fed /\ f.idr => ~folded.awaiting
       /\ damaged => folded.awaiting
       /\ ~fed => folded = armed
       /\ folded.awaiting => \/ armed.awaiting /\ folded.deadline = armed.deadline
                             \/ damaged /\ ~armed.awaiting
       /\ want => folded.deadline = now + FreezeMax
  <2>1. damaged => ~f.idr /\ fed
    BY <1>8, <1>10 DEF Whole
  <2>2. CASE fed
    <3>1. folded = on_decoded(armed, f, damaged, now)
      BY <2>2
    <3> HIDE DEF folded
    <3>2. DecodedTo(armed, f, damaged, now, folded)
      BY <1>1, <1>7, <3>1, OnDecodedType
    <3>3. /\ folded.awaiting => \/ armed.awaiting /\ folded.deadline = armed.deadline
                                \/ damaged /\ ~armed.awaiting
          /\ damaged /\ ~f.idr /\ ~armed.awaiting => folded.deadline = now + FreezeMax
      BY <1>1, <1>7, <3>1, OnDecodedSays
    <3>4. QED
      BY <2>1, <2>2, <3>2, <3>3 DEF DecodedTo
  <2>3. CASE ~fed
    BY <2>1, <2>3
  <2>4. QED
    BY <2>2, <2>3
<1> HIDE DEF folded
<1>12. /\ k.ask \in Asks /\ k.r \in Rfis
       /\ ~want => k.r = seen.r /\ k.ask = NoAsk
       /\ \/ k.r = seen.r /\ k.ask = NoAsk
          \/ k.r.pending = {} /\ k.r.request = now /\ k.ask = Keyframe
  <2>1. CASE want
    BY <1>1, <1>6, <2>1, KeyframeType, KeyframeSays
  <2>2. CASE ~want
    BY <1>6, <2>2, AskTypes
  <2>3. QED
    BY <2>1, <2>2
<1> HIDE DEF k, want
<1>13. /\ p \in Feedbacks /\ (seen.ask = NoAsk => p = took)
       /\ seen.ask # NoAsk => p.n = took.n + 1 /\ p.open = seen.ask
  <2>1. p \in Feedbacks
    BY <1>1, <1>2, <1>6, AskType
  <2>2. /\ seen.ask = NoAsk => p = took
        /\ seen.ask # NoAsk => p.n = took.n + 1 /\ p.open = seen.ask
    BY <1>1, <1>2, <1>6, AskSays
  <2>3. QED
    BY <2>1, <2>2
<1> HIDE DEF p
<1>14. /\ o \in Feedbacks /\ (k.ask = NoAsk => o = p)
       /\ k.ask # NoAsk => o.n = p.n + 1 /\ o.open = k.ask
  <2>1. o \in Feedbacks
    BY <1>1, <1>12, <1>13, AskType
  <2>2. /\ k.ask = NoAsk => o = p
        /\ k.ask # NoAsk => o.n = p.n + 1 /\ o.open = k.ask
    BY <1>1, <1>12, <1>13, AskSays
  <2>3. QED
    BY <2>1, <2>2
<1> HIDE DEF o
<1>15. /\ o.n \in Nat /\ o.n >= fb.n
       /\ seen.ask = NoAsk /\ k.ask = NoAsk => o = took
       /\ ~(o.n > took.n) => o = took
       /\ o.n > took.n /\ o.open.kind = "rfi" => seen.ask # NoAsk
  <2>1. took.n \in Nat /\ p.n \in Nat /\ o.n \in Nat
    BY <1>2, <1>13, <1>14 DEF Feedbacks
  <2>2. QED
    BY <1>1, <1>2, <1>12, <1>13, <1>14, <2>1, AskKinds
<1>16. /\ second \in Datagrams
       /\ o.n > took.n => second.ask = (IF o.open = NoAsk THEN 0 ELSE o.n) /\ second.kind = o.open.kind
       /\ ~(o.n > took.n) => second.ask = 0
  <2>1. /\ stamp(o) \in Datagrams /\ stamp(o).ask = (IF o.open = NoAsk THEN 0 ELSE o.n)
        /\ stamp(o).kind = o.open.kind
    BY <1>14, StampType, StampSays
  <2>2. Ack({}) \in Datagrams /\ Ack({}).ask = 0
    BY AckType
  <2>3. QED
    BY <2>1, <2>2
<1> HIDE DEF second
<1>17. /\ host'.last_rfi = host.last_rfi /\ host'.last_idr = host.last_idr
       /\ host'.ask \in {host.ask, first.ask, second.ask}
       /\ trouble' # now => trouble' = trouble /\ HeardBoth(first, second)
  BY <1>0, <1>1, <1>3, <1>16, SendSays
<1>18. host'.ask <= o.n
  BY <1>1, <1>3, <1>15, <1>16, <1>17
<1>19. DecodeAsks(f)
  <2>1. rfi'.request = rfi.request \/ rfi'.request = now
    BY <1>0, <1>6, <1>12
  <2>2. rfi'.pending # {} => now - rfi'.request < RfiThrottle
    BY <1>0, <1>6, <1>12
  <2>3. /\ Fed(f) /\ conf.ledger /\ ~Whole(f) => gate'.awaiting
        /\ Fed(f) /\ f.idr => ~gate'.awaiting
    BY <1>0, <1>8, <1>10, <1>11
  <2>4. ~Fed(f) /\ (gate.awaiting \/ Gap(f) > 0) => gate'.awaiting
    BY <1>0, <1>5, <1>7, <1>8, <1>11
  <2>5. Gap(f) = 0 /\ gate'.awaiting => \/ gate.awaiting /\ gate'.deadline = gate.deadline
                                        \/ ~gate.awaiting /\ Fed(f) /\ conf.ledger /\ ~Whole(f)
    BY <1>0, <1>7, <1>10, <1>11
  <2>6. QED
    BY <1>0, <1>17, <1>18, <2>1, <2>2, <2>3, <2>4, <2>5 DEF DecodeAsks
<1>20. ASSUME trouble' # now
       PROVE  DecodeCalm(f)
  <2>1. trouble' = trouble /\ HeardBoth(first, second)
    BY <1>17, <1>20
  <2>2. ASSUME o.n > took.n
        PROVE  /\ fb'.open # NoAsk => host'.ask = fb'.n
               /\ Gap(f) = 0 /\ host'.rfi # {} => host.rfi # {} \/ rfi.pending # {}
    <3>1. fb'.open # NoAsk => host'.ask = fb'.n
      <4>1. o.open # NoAsk => second.ask = o.n
        BY <1>16, <2>2
      <4>2. host'.ask >= second.ask /\ host'.ask \in Nat
        BY <1>1, <1>3, <1>16, <1>17, <2>1 DEF HeardBoth, Datagrams
      <4>3. QED
        BY <1>0, <1>15, <1>18, <4>1, <4>2
    <3>2. Gap(f) = 0 /\ host'.rfi # {} => host.rfi # {} \/ rfi.pending # {}
      <4>1. ~(first.ask > host.ask)
        BY <1>1, <1>3
      <4>2. second.kind = "rfi" => seen.ask # NoAsk
        BY <1>15, <1>16, <2>2
      <4>3. QED
        BY <1>5, <1>6, <2>1, <4>1, <4>2 DEF HeardBoth
    <3>3. QED
      BY <3>1, <3>2
  <2>3. ASSUME ~(o.n > took.n)
        PROVE  /\ fb'.open # NoAsk => fb.open # NoAsk /\ fb'.n = fb.n /\ host'.ask = host.ask
               /\ host'.rfi # {} => host.rfi # {}
    <3>1. host'.ask = host.ask
      BY <1>1, <1>3, <1>16, <1>17, <2>1, <2>3 DEF HeardBoth
    <3>2. fb'.open # NoAsk => fb.open # NoAsk /\ fb'.n = fb.n
      BY <1>0, <1>2, <1>15, <2>3
    <3>3. host'.rfi # {} => host.rfi # {}
      BY <1>1, <1>3, <1>16, <2>1, <2>3 DEF HeardBoth
    <3>4. QED
      BY <3>1, <3>2, <3>3
  <2>4. ASSUME Gap(f) = 0
        PROVE  /\ rfi'.pending # {} => rfi.pending # {} /\ rfi'.request = rfi.request
               /\ \/ rfi'.request = rfi.request \/ rfi.pending # {}
                  \/ gate'.deadline = now + FreezeMax
    <3>1. rfi'.pending # {} => rfi.pending # {} /\ rfi'.request = rfi.request
      BY <1>0, <1>5, <1>6, <1>12, <2>4
    <3>2. want => gate'.deadline = now + FreezeMax
      BY <1>0, <1>11
    <3>3. ~want => rfi'.request = rfi.request \/ rfi.pending # {}
      BY <1>0, <1>5, <1>6, <1>12, <2>4
    <3>4. QED
      BY <3>1, <3>2, <3>3
  <2>5. host.kf => host'.kf
    BY <2>1 DEF HeardBoth
  <2>6. QED
    BY <2>1, <2>2, <2>3, <2>4, <2>5 DEF DecodeCalm
<1>21. QED
  BY <1>19, <1>20 DEF f

(* Two ticks after the last trouble a frame goes up in its own tick and    *)
(* leaves no gap, an IDR ends the freeze, and no frame starts one.         *)
LEMMA DecodeInOrder ==
  ASSUME IInv, HInv, NEW f, DecodeLeaves(f), now > trouble + 1
  PROVE  /\ f.i = now /\ rfi.next = now /\ Ahead(f) /\ Gap(f) = 0
         /\ f.idr => Fed(f)
         /\ ~gate.awaiting /\ conf.ledger /\ Fed(f) /\ ~Whole(f) => now <= trouble + Quiet
<1>1. /\ pc = "decode" /\ inbox # <<>> /\ f = Head(inbox) /\ f \in Flying
      /\ now \in Nat /\ now >= 1 /\ trouble \in Nat /\ rfi.next \in Nat
      /\ Unseen = IF f.i = now THEN now - 1 ELSE now
  BY HealNumbers DEF DecodeLeaves, HealTypes
<1>2. f.i = now
  <2>1. f \in Members(inbox)
    BY <1>1, DecodedFrame
  <2>2. QED
    BY <1>1, <2>1 DEF HInv, Clears
<1>3. rfi.next = now
  BY <1>1, <1>2 DEF HInv, Clears
<1>4. Ahead(f) /\ Gap(f) = 0
  BY <1>1, <1>2, <1>3 DEF Ahead, Gap
<1>5. f.idr => Fed(f)
  BY <1>4, ConfType DEF IInv, Typed, Chain, Fed, withholds
<1>6. ASSUME ~gate.awaiting, conf.ledger, ~Whole(f)
      PROVE  now <= trouble + Quiet
  <2>1. ~f.idr /\ f.ref \notin clean
    BY <1>6 DEF Whole
  <2>2. now - 1 \in clean
    BY <1>1, <1>3, <1>6 DEF HInv, Lifted
  <2>3. f.anchor
    BY <1>1, <1>2, <2>1, <2>2 DEF IInv, Flow
  <2>4. ~conf.floor
    BY <1>1, <1>2, <1>3, <2>1, <2>3 DEF IInv, Chain
  <2>5. now <= trouble + RfiThrottle + 2
    BY <1>1, <1>2, <2>3, <2>4 DEF HInv, Asked
  <2>6. QED
    BY <1>1, <2>5, Spans
<1>7. QED
  BY <1>2, <1>3, <1>4, <1>5, <1>6

LEMMA DecodeHeals == IInv /\ HInv /\ Decode => HInv'
<1> SUFFICES ASSUME IInv, HInv, Decode
             PROVE  HInv'
  OBVIOUS
<1> USE DEF HInv
<1>1. PICK f : /\ f = Head(inbox) /\ DecodeLeaves(f) /\ DecodeDoes(f) /\ DecodeAsks(f)
               /\ trouble' # now => DecodeCalm(f)
  BY DecodeStep, DecodeType, DecodeSays
<1>2. /\ pc = "decode" /\ pc' = "decode" /\ inbox # <<>> /\ inbox' = Tail(inbox) /\ inbox[1] = f
      /\ UNCHANGED <<conf, now, pc, late, due, short>>
      /\ Stepped = now /\ Stepped' = now /\ late = <<>> /\ short = NoFrame
      /\ Flying' \subseteq Flying /\ Members(inbox') \subseteq Members(inbox)
      /\ Unseen' = now /\ Unseen = IF f.i = now THEN now - 1 ELSE now
      /\ f.i \in 1 .. now /\ rfi.next = (IF fb.prev = 0 THEN 0 ELSE fb.prev + 1)
      /\ fb.prev \in Nat /\ fb.prev <= now /\ (Ahead(f) <=> f.i > fb.prev)
  <2>1. pc = "decode" /\ inbox # <<>> /\ short = NoFrame
    BY <1>1 DEF DecodeLeaves, Clears
  <2>2. Head(inbox) = inbox[1] /\ Members(Tail(inbox)) \subseteq Members(inbox)
    BY <2>1, DecodedFrame
  <2>3. QED
    BY <1>1, <2>1, <2>2 DEF DecodeLeaves, Stepped
<1>3. HealTypes /\ IInv' /\ HealTypes' /\ trouble <= now
  BY HealNumbers, DecodeInv, HealNumbersThen DEF Clocks
<1>4. Clocks'
  <2>1. trouble' <= now
    BY <1>1, <1>3 DEF DecodeCalm, HealTypes
  <2>2. /\ rfi'.request <= now /\ host'.last_rfi <= now /\ host'.last_idr <= now
        /\ host'.ask <= fb'.n /\ (rfi'.pending # {} => now - rfi'.request < RfiThrottle)
    BY <1>1, <1>3 DEF DecodeAsks, Clocks, HealTypes
  <2>3. gate'.awaiting => gate'.deadline <= now + FreezeMax
    BY <1>1, <1>3, Spans DEF DecodeDoes, Clocks, HealTypes
  <2>4. QED
    BY <1>2, <2>1, <2>2, <2>3 DEF Clocks
<1>5. ~Ahead(f) => ~Fed(f)
  BY DEF Fed
<1>6. Lifted'
  <2>1. conf.ledger => ~withheld
    BY DEF IInv, Chain
  <2>2. ASSUME withheld'
        PROVE  gate'.awaiting
    <3>1. CASE Ahead(f) /\ ~conf.ledger
      <4>1. withholds(withheld, Gap(f), f) /\ ~Fed(f)
        BY <1>1, <2>2, <3>1 DEF DecodeDoes, Fed
      <4>2. QED
        BY <1>1, <4>1 DEF withholds, Lifted, DecodeAsks
    <3>2. CASE ~(Ahead(f) /\ ~conf.ledger)
      <4>1. withheld
        BY <1>1, <2>2, <3>2 DEF DecodeDoes
      <4>2. QED
        BY <1>1, <1>5, <2>1, <3>2, <4>1 DEF Lifted, DecodeAsks
    <3>3. QED
      BY <3>1, <3>2
  <2>3. ASSUME conf.ledger, ~gate'.awaiting, rfi'.next > 0
        PROVE  rfi'.next - 1 \in clean'
    <3>1. CASE Ahead(f)
      <4>1. Fed(f)
        BY <2>1, <2>3, <3>1 DEF Fed
      <4>2. Whole(f)
        BY <1>1, <2>3, <4>1 DEF DecodeAsks
      <4>3. rfi'.next - 1 = f.i
        BY <1>1, <1>2, <1>3, <3>1 DEF DecodeDoes, HealTypes
      <4>4. QED
        BY <1>1, <4>1, <4>2, <4>3 DEF DecodeDoes
    <3>2. CASE ~Ahead(f)
      <4>1. rfi'.next = rfi.next /\ clean' = clean /\ ~gate.awaiting
        BY <1>1, <1>5, <2>3, <3>2 DEF DecodeDoes, DecodeAsks
      <4>2. QED
        BY <2>3, <4>1 DEF Lifted
    <3>3. QED
      BY <3>1, <3>2
  <2>4. QED
    BY <1>2, <2>2, <2>3 DEF Lifted
<1>7. CASE trouble' = now
  BY <1>2, <1>3, <1>4, <1>6, <1>7, StruckThen DEF Struck
<1>8. CASE trouble' # now
  <2>1. DecodeCalm(f) /\ trouble' = trouble /\ trouble < now
    BY <1>1, <1>3, <1>8 DEF DecodeCalm, HealTypes
  <2>2. Clears'
    <3>1. rfi'.next = now + 1
      <4>1. CASE f.i = now
        <5>1. rfi'.next = IF Ahead(f) THEN now + 1 ELSE rfi.next
          BY <1>1, <4>1 DEF DecodeDoes
        <5>2. ~Ahead(f) => fb.prev = now /\ now # 0
          <6>1. now \in Nat /\ now >= 1
            BY <1>3 DEF HealTypes
          <6>2. fb.prev \in Nat /\ fb.prev <= now /\ (Ahead(f) <=> now > fb.prev)
            BY <1>2, <4>1
          <6>3. QED
            BY <6>1, <6>2
        <5>3. ~Ahead(f) => rfi.next = now + 1
          BY <1>2, <5>2
        <5>4. QED
          BY <5>1, <5>3
      <4>2. CASE f.i # now
        <5>1. rfi.next = now + 1
          BY <1>2, <1>3, <2>1, <4>2 DEF Clears
        <5>2. fb.prev = now /\ f.i <= now
          <6>1. now \in Nat /\ fb.prev \in Nat /\ f.i \in 1 .. now
            BY <1>2, <1>3 DEF HealTypes
          <6>2. now + 1 = IF fb.prev = 0 THEN 0 ELSE fb.prev + 1
            BY <1>2, <5>1
          <6>3. QED
            BY <6>1, <6>2
        <5>3. ~Ahead(f)
          <6>1. now \in Nat /\ f.i \in 1 .. now
            BY <1>2, <1>3 DEF HealTypes
          <6>2. Ahead(f) <=> f.i > now
            BY <1>2, <5>2
          <6>3. QED
            BY <6>1, <6>2
        <5>4. QED
          BY <1>1, <5>1, <5>3 DEF DecodeDoes
      <4>3. QED
        BY <4>1, <4>2
    <3>2. QED
      BY <1>2, <2>1, <3>1 DEF Clears
  <2>3. /\ fb'.open # NoAsk => host'.ask = fb'.n
        /\ host'.last_rfi <= trouble + RfiThrottle + 2
        /\ ~conf.floor => \A g \in Flying' : g.anchor => g.i <= trouble + RfiThrottle + 2
        /\ rfi'.request <= now /\ host'.last_idr = host.last_idr /\ host.last_idr <= now
    <3>1. fb.open # NoAsk => host.ask = fb.n
      BY <1>2, <2>1 DEF Asked
    <3>2. rfi'.request <= now /\ host.last_idr <= now
      BY <1>2, <1>4 DEF Clocks
    <3>3. QED
      BY <1>1, <1>2, <2>1, <3>1, <3>2 DEF DecodeCalm, DecodeAsks, Asked
  <2>4. Sure' = Sure
    BY <2>1 DEF Sure
  <2>5. CASE now <= trouble + 1
    <3>1. /\ now <= trouble + RfiThrottle + 1 /\ now <= trouble + Quiet
          /\ now + FreezeMax <= Sure + FreezeMax
      BY <1>3, <2>5, Spans DEF HealTypes, Sure
    <3>2. /\ rfi'.request <= trouble + 1 /\ rfi'.request <= trouble + RfiThrottle + 1
          /\ host'.last_idr <= trouble + Quiet
          /\ gate'.awaiting => gate'.deadline <= Sure + FreezeMax
      <4>1. now \in Nat /\ trouble \in Nat /\ rfi'.request \in Int /\ host'.last_idr \in Int
        BY <1>3, <2>3 DEF HealTypes
      <4>2. rfi'.request <= trouble + 1 /\ rfi'.request <= trouble + RfiThrottle + 1
        BY <2>3, <2>5, <3>1, <4>1, Spans
      <4>3. host'.last_idr <= trouble + Quiet
        BY <2>3, <3>1, <4>1, Spans
      <4>4. gate'.awaiting => gate'.deadline \in Nat /\ gate'.deadline <= now + FreezeMax
        BY <1>2, <1>3, <1>4 DEF Clocks, HealTypes
      <4>5. gate'.awaiting => gate'.deadline <= Sure + FreezeMax
        BY <3>1, <4>1, <4>4, Spans DEF Sure
      <4>6. QED
        BY <4>2, <4>3, <4>5
    <3>3. Asked'
      BY <1>2, <2>1, <2>3, <3>1, <3>2 DEF Asked
    <3>4. Paced' /\ Served'
      BY <2>1, <2>4, <3>2 DEF Paced, Served
    <3>5. QED
      BY <1>4, <1>6, <2>2, <3>3, <3>4
  <2>6. CASE now > trouble + 1
    <3>1. /\ Gap(f) = 0 /\ (f.idr => Fed(f))
          /\ ~gate.awaiting /\ conf.ledger /\ Fed(f) /\ ~Whole(f) => now <= trouble + Quiet
      BY <1>1, <2>6, DecodeInOrder
    <3>2. rfi.pending # {} => now <= trouble + RfiThrottle + 1
      <4>1. now \in Nat /\ trouble \in Nat /\ rfi.request \in Int
        BY <1>3 DEF HealTypes
      <4>2. rfi.pending # {} => now - rfi.request < RfiThrottle /\ rfi.request <= trouble + 1
        BY <1>2 DEF Clocks, Asked
      <4>3. QED
        BY <4>1, <4>2, Spans
    <3>3. gate'.awaiting =>
            \/ gate.awaiting /\ gate'.deadline = gate.deadline
            \/ gate'.deadline = now + FreezeMax /\ now <= trouble + Quiet
      BY <1>1, <3>1 DEF DecodeDoes, DecodeAsks
    <3>4. gate'.awaiting => ~Landing
      BY <1>1, <1>2, <3>1 DEF DecodeAsks, Landing
    <3>5. Asked'
      <4>1. rfi'.pending # {} => rfi'.request <= trouble + 1
        BY <2>1, <3>1 DEF DecodeCalm, Asked
      <4>2. host'.rfi # {} => now <= trouble + RfiThrottle + 1
        BY <1>2, <2>1, <3>1, <3>2 DEF DecodeCalm, Asked
      <4>3. gate'.awaiting => \/ rfi'.request <= gate'.deadline - FreezeMax
                              \/ rfi'.request <= trouble + RfiThrottle + 1
        <5>1. CASE gate'.deadline = now + FreezeMax
          BY <1>3, <2>3, <5>1, Spans DEF HealTypes
        <5>2. CASE gate.awaiting /\ gate'.deadline = gate.deadline /\ rfi'.request = rfi.request
          BY <5>2 DEF Asked
        <5>3. CASE rfi.pending # {}
          BY <1>3, <2>3, <3>2, <5>3, Spans DEF HealTypes
        <5>4. QED
          BY <2>1, <3>1, <3>3, <5>1, <5>2, <5>3 DEF DecodeCalm
      <4>4. QED
        BY <1>2, <2>1, <2>3, <4>1, <4>2, <4>3 DEF Asked
    <3>6. Paced'
      <4>1. now <= trouble + Quiet => host'.last_idr <= trouble + Quiet
        BY <1>3, <2>3, Spans DEF HealTypes
      <4>2. QED
        BY <2>1, <2>3, <3>3, <3>4, <4>1 DEF Paced
    <3>7. Served'
      <4>1. now <= trouble + Quiet => now + FreezeMax <= Sure + FreezeMax
        BY <1>3, Spans DEF HealTypes, Sure
      <4>2. host.kf => host'.kf
        BY <2>1 DEF DecodeCalm
      <4>3. QED
        BY <1>2, <2>4, <3>3, <3>4, <4>1, <4>2 DEF Served
    <3>8. QED
      BY <1>4, <1>6, <2>2, <3>5, <3>6, <3>7
  <2>7. QED
    BY <1>3, <2>5, <2>6 DEF HealTypes
<1>9. QED
  BY <1>7, <1>8
-----------------------------------------------------------------------------
LEMMA InitHeals == Init => HInv
<1> SUFFICES ASSUME Init
             PROVE  HInv
  OBVIOUS
<1>1. /\ now = 1 /\ pc = "host" /\ inbox = <<>> /\ late = <<>> /\ due = {} /\ short = NoFrame
      /\ rfi.next = 0 /\ rfi.request = -1000 /\ rfi.pending = {}
      /\ ~gate.awaiting /\ ~withheld /\ fb.open = NoAsk /\ fb.n = 0 /\ trouble = 0
      /\ host.last_rfi = -1000 /\ host.last_idr = -1000 /\ host.ask = 0 /\ host.rfi = {}
  BY DEF Init, NewRfi, NewGate, NewFeedback, NewHost, Never
<1>2. Members(inbox) = {} /\ Flying = {} /\ Unseen = 0 /\ Left = 0 /\ Stepped = 0
  BY <1>1, Empty DEF Flying, Transit, Unseen, Left, Stepped
<1>3. QED
  BY <1>1, <1>2, Spans DEF HInv, Clocks, Lifted, Clears, Asked, Paced, Served

LEMMA StepHeals == IInv /\ HInv /\ RfiThrottle <= FreezeMax /\ [Next]_vars => HInv'
<1> SUFFICES ASSUME IInv, HInv, RfiThrottle <= FreezeMax, [Next]_vars
             PROVE  HInv'
  OBVIOUS
<1>1. CASE UNCHANGED vars
  <2>0. UNCHANGED <<conf, now, pc, host, sent, inbox, late, due, short, rfi, gate, withheld, fb,
                    dropped, clean, shown, used, trouble>>
    BY <1>1 DEF vars, client
  <2>1. /\ Flying' = Flying /\ Left' = Left /\ Unseen' = Unseen /\ Stepped' = Stepped
        /\ Landing' = Landing /\ Sure' = Sure /\ Members(inbox') = Members(inbox)
    BY <2>0 DEF Flying, Transit, Left, Unseen, Stepped, Landing, Sure
  <2>2. QED
    BY <2>0, <2>1 DEF HInv, Clocks, Lifted, Clears, Asked, Paced, Served
<1>2. QED
  BY <1>1, EncodeHeals, DeliverHeals, LoseHeals, PumpHeals, NeedKeyframeHeals, DecodeHeals, TickHeals
     DEF Next, Done

(* Once nothing has gone wrong for as long as the last trouble keeps asks  *)
(* coming, a host may decline one, and a freeze may wait for its deadline, *)
(* the client neither holds nor withholds, whichever asks, anchors and IDRs *)
(* were lost before (ReanchorGate::poll, KeyframeGate::decide).  The window *)
(* for another ask reopens within a freeze: 100 ms and 500 ms in the code. *)
THEOREM FreezesHeal ==
  ASSUME RfiThrottle <= FreezeMax, HealBound >= Quiet + Longest + FreezeMax + 1
  PROVE  Spec => []Heals
<1>1. Init => HInv
  BY InitHeals
<1>2. IInv /\ HInv /\ [Next]_vars => HInv'
  BY StepHeals
<1>3. IInv /\ HInv => Heals
  <2> SUFFICES ASSUME IInv, HInv, pc = "host", now - trouble > HealBound
               PROVE  ~gate.awaiting /\ ~withheld
    BY DEF Heals
  <2>1. HealTypes /\ HealBound \in Nat
    BY HealNumbers, RecoveryAssumption
  <2>2. now > Sure + FreezeMax + 1
    BY <2>1, Spans DEF HealTypes, Sure
  <2>3. ~gate.awaiting
    <3>1. gate.awaiting => now <= gate.deadline
      BY DEF HInv, Clocks
    <3>2. QED
      BY <2>1, <2>2, <3>1, Spans DEF HInv, Served, Landing, HealTypes, Sure
  <2>4. QED
    BY <2>3 DEF HInv, Lifted
<1>4. QED
  BY <1>1, <1>2, <1>3, Invariance, PTL DEF Spec
=============================================================================
