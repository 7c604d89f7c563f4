------------------------------ MODULE Recovery ------------------------------
(* Loss recovery end to end: a host encodes one frame a tick on an infinite    *)
(* GOP, the wire loses, cuts short or delays it, the client withholds, freezes   *)
(* and asks, its feedback datagrams are lost too, and the host answers with an  *)
(* anchor or an IDR.  A frame's index is the tick it was encoded in.           *)
EXTENDS HostRecovery, ClientRecovery, Sequences

CONSTANTS Horizon,        \* bound: ticks of a behaviour
          MaxTroubles,    \* bound: what goes wrong in a behaviour, each one of
                          \*   a frame lost or delayed, a client step whose datagrams are
                          \*   all lost, a keyframe the decoder asks for with nothing lost
          LastTrouble,    \* bound: the last tick something goes wrong
          DropLag,        \* ticks until the reassembler books a lost frame
          HealBound,      \* ticks a freeze may outlive the last trouble
          Confs           \* what a session may be: [floor, ledger, keep, drop]

ASSUME RecoveryAssumption ==
  /\ {Horizon, MaxTroubles, LastTrouble, HealBound} \subseteq Nat
  /\ DropLag \in 1..DropCreditWindow
  /\ Confs \subseteq [floor : BOOLEAN, ledger : BOOLEAN, keep : BOOLEAN, drop : BOOLEAN]

VARIABLES conf,    \* floor: confirmed references; ledger: the lane knows its chain; keep, drop: the encoder
          now, pc, \* the tick, and whose turn it is in it
          host, sent,            \* the host, and the frame it just sent
          inbox, late, due,      \* frames for the decoder, delayed ones, ticks that book a drop
          short,                 \* the frame whose last shard came short, NoFrame for none
          rfi, gate, withheld, fb, dropped,   \* the client
          on_anchors,            \* the newest whole frame the pump handed up was an anchor
          clean, shown,          \* pictures decoded from a whole chain; what the last one was
          used, trouble          \* troubles so far, and the last tick something went wrong

client == <<rfi, gate, withheld, fb, dropped, on_anchors>>
vars == <<conf, now, pc, host, sent, inbox, late, due, short, client, clean, shown, used, trouble>>

Frame(i, idr, ref) == [i |-> i, idr |-> idr, anchor |-> ref # NoFrame /\ ~idr,
                       ref |-> IF idr THEN NoFrame ELSE IF ref # NoFrame THEN ref ELSE i - 1]

Init ==
  /\ conf \in Confs
  /\ now = 1 /\ pc = "host"
  /\ host = NewHost /\ sent = Frame(0, TRUE, NoFrame)
  /\ inbox = <<>> /\ late = <<>> /\ due = {} /\ short = NoFrame
  /\ rfi = NewRfi /\ gate = NewGate /\ withheld = FALSE /\ fb = NewFeedback /\ dropped = 0
  /\ on_anchors = FALSE
  /\ clean = {} /\ shown = "none"
  /\ used = 0 /\ trouble = 0

(* ------------------------------------------------------------------- host *)
Floor(h) == IF conf.floor THEN h.acked ELSE {}

\* One pass of the stream loop: the asks that wait, then a frame.
Encode ==
  LET h == on_recovery_requests(host, now)
      s == step(h.ltr, h.idr, now, Floor(h), conf.keep, conf.drop)
  IN /\ pc = "host" /\ now <= Horizon
     /\ sent' = Frame(now, h.idr, s.ref)
     /\ host' = [h EXCEPT !.ltr = s.m, !.idr = FALSE, !.floor = Floor(h)]
     /\ pc' = "wire"
     /\ UNCHANGED <<conf, now, inbox, late, due, short, client, clean, shown, used, trouble>>

(* ------------------------------------------------------------------- wire *)
\* The opening tick loses nothing: the IDR and its acknowledgement arrive.
Trouble == /\ used < MaxTroubles /\ now \in 2..LastTrouble
           /\ used' = used + 1 /\ trouble' = now
Passed == /\ late' = <<>> /\ pc' = "pump"
          /\ UNCHANGED <<conf, now, host, sent, client, clean, shown>>

Deliver == /\ pc = "wire" /\ inbox' = <<sent>> \o late /\ Passed
           /\ UNCHANGED <<due, short, used, trouble>>
Lose == /\ pc = "wire" /\ Trouble
        /\ inbox' = late /\ due' = due \union {now + DropLag}
        /\ short' \in {NoFrame, now} /\ Passed
Delay == /\ pc = "wire" /\ late = <<>> /\ Trouble
         /\ late' = <<sent>> /\ inbox' = <<>> /\ pc' = "pump"
         /\ UNCHANGED <<conf, now, host, sent, due, short, client, clean, shown>>

(* ----------------------------------------------------------------- client *)
\* The two datagrams of one client step reach the host, or are lost together.
Tells(d) == d.ask # 0 \/ (conf.floor /\ d.acked # {})
Send(first, second) ==
  \/ /\ host' = on_feedback(on_feedback(host, first), second) /\ UNCHANGED <<used, trouble>>
  \/ /\ Tells(first) \/ Tells(second)
     /\ Trouble /\ UNCHANGED host

\* The pump's pass: a short tail asks (unless the whole frame before it was an anchor), an open
\* ask repeats, and the tick folds the drop count, the overdue freeze and a deferred range.
ShortTail == IF short # NoFrame /\ ~on_anchors THEN tail_short(rfi, short, now) ELSE [r |-> rfi, ask |-> NoAsk]
Ticked(r, n) == LET asked == NewLoss(gate, n, now) \/ Overdue(gate, n, now)
                    k     == IF asked THEN keyframe(r, now) ELSE [r |-> r, ask |-> NoAsk]
                IN IF k.ask = NoAsk THEN flush(k.r, now) ELSE k
Pump ==
  LET n  == dropped + (IF now \in due THEN 1 ELSE 0)
      o  == resend(ask(fb, ShortTail.ask, now), now)
      t  == Ticked(ShortTail.r, n)
      o2 == ask(o, t.ask, now)
  IN /\ pc = "pump" /\ pc' = "decode"
     /\ rfi' = t.r /\ gate' = poll(gate, n, now) /\ fb' = o2 /\ dropped' = n
     /\ due' = due \ {now} /\ short' = NoFrame
     /\ Send(stamp(o), stamp(o2))
     /\ UNCHANGED <<conf, now, sent, inbox, late, withheld, on_anchors, clean, shown>>

\* The decoder asks for a keyframe of its own: a rebuild, a demotion.
NeedKeyframe ==
  LET k == keyframe(rfi, now)
      o == ask(fb, k.ask, now)
  IN /\ pc = "pump" /\ Trouble
     /\ rfi' = k.r /\ fb' = o /\ gate' = IF gate.awaiting THEN gate ELSE arm(gate, now)
     /\ host' = on_feedback(host, stamp(o))
     /\ UNCHANGED <<conf, now, pc, sent, inbox, late, due, short, withheld, dropped, on_anchors,
                    clean, shown>>

\* One frame goes up: popped and acknowledged, folded in receive order, withheld or decoded.
Decode ==
  LET f       == Head(inbox)
      took    == taken(on_frame(fb, f), f)
      acks    == IF took.prev = f.i /\ took.clean THEN took.acks ELSE {}
      r       == IF f.anchor THEN [rfi EXCEPT !.anchored = f.i] ELSE rfi
      jump    == Jump(r, f.i)
      seen    == observe(r, f.i, now)
      armed   == IF jump > 0 THEN arm_expecting_drops(gate, now, jump) ELSE gate
      holding == IF jump >= 0 /\ ~conf.ledger THEN withholds(withheld, jump, f) ELSE withheld
      fed     == jump >= 0 /\ ~holding
      whole   == f.idr \/ f.ref \in clean
      damaged == fed /\ conf.ledger /\ ~whole
      folded  == IF fed THEN on_decoded(armed, f, damaged, now) ELSE armed
      want    == damaged /\ ~armed.awaiting
      k       == IF want THEN keyframe(seen.r, now) ELSE [r |-> seen.r, ask |-> NoAsk]
      o       == ask(ask(took, seen.ask, now), k.ask, now)
  IN /\ pc = "decode" /\ inbox # <<>>
     /\ inbox' = Tail(inbox)
     /\ rfi' = k.r /\ gate' = folded /\ withheld' = holding /\ fb' = o
     /\ on_anchors' = f.anchor
     /\ clean' = IF ~fed \/ ~whole THEN clean ELSE IF f.idr THEN {f.i} ELSE clean \union {f.i}
     /\ shown' = IF ~fed \/ folded.awaiting THEN "held" ELSE IF whole THEN "clean" ELSE "damaged"
     /\ Send(Ack(acks), IF o.n > took.n THEN stamp(o) ELSE Ack({}))
     /\ UNCHANGED <<conf, now, pc, sent, late, due, short, dropped>>

Tick == /\ pc = "decode" /\ inbox = <<>> /\ now' = now + 1 /\ pc' = "host"
        /\ UNCHANGED <<conf, host, sent, inbox, late, due, short, client, clean, shown, used, trouble>>

Done == pc = "host" /\ now > Horizon /\ UNCHANGED vars

Next == Encode \/ Deliver \/ Lose \/ Delay \/ Pump \/ NeedKeyframe \/ Decode \/ Tick \/ Done
Spec == Init /\ [][Next]_vars
(* ------------------------------------------------------------- properties *)
TypeOK ==
  /\ conf \in Confs /\ now \in 1..Horizon + 1 /\ pc \in {"host", "wire", "pump", "decode"}
  /\ host.ltr \in [wire : [Slots -> 0..Horizon], tainted : [Slots -> BOOLEAN],
                   next : Slots, force : Slots \union {NoSlot}]
  /\ gate.awaiting \in BOOLEAN /\ gate.credit \in 0..MaxTroubles /\ {withheld, on_anchors} \subseteq BOOLEAN
  /\ rfi.pending \subseteq 1..Horizon /\ dropped \in 0..MaxTroubles
  /\ clean \subseteq 1..Horizon /\ shown \in {"none", "held", "clean", "damaged"}

\* Under confirmed references every frame the host tags as an anchor names a picture the
\* client decoded from a whole chain, whatever frames, acknowledgements and asks are lost
\* (LtrMirror::step_acked over AckChain).
ConfirmedAnchorIsClean ==
  conf.floor /\ pc = "wire" /\ sent.anchor => sent.ref \in clean

\* A picture reaches the screen only if every picture it predicts from was decoded, with
\* confirmed references or on a lane that keeps a ledger of its chain.
ShownIsClean == conf.floor \/ conf.ledger => shown # "damaged"

\* The freeze ends: once nothing has gone wrong for HealBound ticks the client neither holds
\* nor withholds, whichever asks and anchors were lost before.
Heals == pc = "host" /\ now - trouble > HealBound => ~gate.awaiting /\ ~withheld

\* No ask is forgotten: frozen, the client has an ask out, a range that waits for the window,
\* or a deadline ahead of it.
FreezeIsServed == pc = "host" /\ gate.awaiting => fb.open # NoAsk \/ rfi.pending # {} \/ now <= gate.deadline

\* One loss freezes once: a drop the reassembler books after the decoder saw its gap leaves a
\* client that has healed meanwhile alone (drop_credit in reanchor.rs).
GapCountedOnce ==
  [][pc = "pump" /\ pc' = "decode" /\ now \in due /\ now - DropLag < rfi.next /\ ~gate.awaiting
     => ~gate'.awaiting]_vars

\* An anchor leads back to a picture the client holds: what the packet header says of
\* USER_FLAG_RECOVERY_ANCHOR, for every session.  No run asks it: a short tail behind a frame
\* lost whole breaks it in a session without confirmed references.
AnchorIsKnownGood == pc = "wire" /\ sent.anchor => sent.ref \in clean
=============================================================================
