------------------------------- MODULE Reassembler -------------------------------
(***************************************************************************)
(* The client's reassembly of access units from shards,                    *)
(* crates/core/punktfunk-core/src/packet/reassemble.rs: one index space    *)
(* (the video stream's).  A shard is one unit of memory, an offset counts  *)
(* shards, a payload is nothing but where it belongs.                      *)
(*                                                                         *)
(* A packet is what decode_v2 makes of one: its frame's index, pts, epoch  *)
(* and chunk flag, its block, the block's base, k and m, its shard, and    *)
(* whether the block is the frame's last, which alone tells the totals.    *)
(* Packets are the host's own (they are authenticated), so the header      *)
(* firewall and the checks against contradicting headers pass.             *)
(***************************************************************************)
EXTENDS Integers, FiniteSets, FiniteSetsExt

CONSTANTS
  IndexMod,           \* 2^32: what frame indices count to
  LOSS_WINDOW,        \* capture time an incomplete frame may fall behind
  PARTIAL_WINDOW,     \* the same for a frame that may go up partial
  HARD_LOSS_WINDOW,   \* indices it may fall behind
  REORDER_WINDOW,     \* indices a terminated frame is remembered for
  BlockCost(_, _),    \* block_state_bytes: what a block charges beside its shards
  Budget,             \* IN_FLIGHT_BUF_FACTOR * max_frame_bytes
  NoFrame             \* None where an index may stand

(* An index is remembered for as long as its shards may come.              *)
ASSUME WindowAssumption ==
  /\ IndexMod \in Nat \ {0} /\ Budget \in Nat
  /\ HARD_LOSS_WINDOW \in Nat /\ REORDER_WINDOW \in Nat
  /\ REORDER_WINDOW >= HARD_LOSS_WINDOW

VARIABLES
  deliver,    \* the opt-ins: "partial", "parts"
  frames,     \* frames in flight, by index
  completed,  \* terminated frames: the AU shards parity restored and nobody brought
  newest,     \* the loss window's anchor, an index and a pts
  parked,     \* pending_partial
  hold,       \* partial_hold: the frame a NACK is out for
  in_flight,  \* units of memory committed
  dropped,    \* frames_dropped
  fec         \* fec_recovered_shards and fec_late_shards

rvars == <<deliver, frames, completed, newest, parked, hold, in_flight, dropped, fec>>

Behind(n, i) == (n - i) % IndexMod
Forward(n, i) == 2 * Behind(n, i) < IndexMod

SumOver(f) == MapThenSumSet(LAMBDA x : f[x], DOMAIN f)

(* A block's shards, and what it takes.                                    *)
NewBlock(p) == [k |-> p.k, m |-> p.m, base |-> p.base, have |-> {}, parity |-> {},
                done |-> FALSE, reconstructed |-> FALSE]
frame_cost(f) ==
  f.len + SumOver([b \in DOMAIN f.blocks |-> BlockCost(f.blocks[b].k, f.blocks[b].m)])
held_parity(f) == SumOver([b \in DOMAIN f.blocks |-> Cardinality(f.blocks[b].parity)])
M_forget_parity(f) == frame_cost(f)
Committed(f) == frame_cost(f) + held_parity(f)
M_restored_all(f) ==
  UNION {{f.blocks[b].base + i : i \in 0 .. f.blocks[b].k - 1} :
           b \in {x \in DOMAIN f.blocks : f.blocks[x].reconstructed}}
(* The AU shards parity restored and nobody brought yet.                   *)
Restored(f) ==
  UNION {{f.blocks[b].base + i : i \in (0 .. f.blocks[b].k - 1) \ f.blocks[b].have} :
           b \in {x \in DOMAIN f.blocks : f.blocks[x].reconstructed}}

head_whole(f) == \E b \in DOMAIN f.blocks : f.blocks[b].base = 0 /\ f.blocks[b].done
CanGoUp(f) == f.chunk /\ f.total > 0

(* hand_up_partial: the newest of what goes up and what is parked stays.   *)
Park(F, ups) ==
  LET old  == IF parked = NoFrame THEN {} ELSE {parked.idx}
      best == CHOOSE c \in ups \cup old : \A d \in ups \cup old : Forward(c, d)
  IN  IF ups = {} \/ best \notin ups THEN parked
      ELSE [idx |-> best, epoch |-> F[best].epoch, len |-> F[best].total]

(***************************************************************************)
(* advance_window: a packet of a newer frame than any before it moves the  *)
(* anchor, retires the frames that fell out of the loss window and forgets *)
(* what fell out of the reorder window.                                    *)
(***************************************************************************)
Opens(p) ==
  newest = NoFrame \/ (p.idx # newest.idx /\ Forward(p.idx, newest.idx))

Chunked(f) == "partial" \in deliver /\ f.chunk
Overtaken(p, i) == Chunked(frames[i]) /\ i \notin {p.idx, hold} /\ frames[i].total > 0
InWindow(p, i) ==
  /\ Behind(p.idx, i) <= HARD_LOSS_WINDOW
  /\ p.pts - frames[i].pts
       <= IF Chunked(frames[i]) THEN PARTIAL_WINDOW ELSE LOSS_WINDOW
Retired(p) == {i \in DOMAIN frames : Overtaken(p, i) \/ ~InWindow(p, i)}

M_remember_less(p, C) == {i \in C : Behind(p.idx, i) < HARD_LOSS_WINDOW}
Remembered(p, C) == {i \in C : Behind(p.idx, i) <= REORDER_WINDOW}
(* What the window is once the packet's index has been seen.               *)
Advanced(p) ==
  IF Opens(p)
  THEN LET out  == Retired(p)
           ups  == {i \in out : "partial" \in deliver /\ CanGoUp(frames[i])}
           dead == {i \in out : i \notin ups \/ ~head_whole(frames[i])}
       IN [frames    |-> [i \in DOMAIN frames \ out |-> frames[i]],
           completed |-> [i \in Remembered(p, DOMAIN completed \cup out) |->
                            IF i \in out THEN Restored(frames[i]) ELSE completed[i]],
           newest    |-> [idx |-> p.idx, pts |-> p.pts],
           parked    |-> Park(frames, ups),
           in_flight |-> in_flight - SumOver([i \in out |-> Committed(frames[i])]),
           dead      |-> dead]
  ELSE [frames |-> frames, completed |-> completed, newest |-> newest,
        parked |-> parked, in_flight |-> in_flight, dead |-> {}]

is_stale(p, n) ==
  /\ Forward(n.idx, p.idx)
  /\ Behind(n.idx, p.idx) > HARD_LOSS_WINDOW \/ n.pts - p.pts > LOSS_WINDOW

Counted(recovered, late) ==
  fec' = [recovered |-> fec.recovered + recovered, late |-> fec.late + late]

(* A shard of a terminated frame: a data shard parity had restored nets    *)
(* out of the recovered ones, once.                                        *)
Straggle(p, w) ==
  LET shard == p.base + p.shard
      late  == p.shard < p.k /\ shard \in w.completed[p.idx]
  IN  /\ p.idx \in DOMAIN w.completed
      /\ completed' = [w.completed EXCEPT ![p.idx] = IF late THEN @ \ {shard} ELSE @]
      /\ frames' = w.frames /\ in_flight' = w.in_flight
      /\ Counted(0, IF late THEN 1 ELSE 0)

TooLate(p, w) ==
  /\ p.idx \notin DOMAIN w.completed
  /\ is_stale(p, w.newest)
  /\ frames' = w.frames /\ completed' = w.completed /\ in_flight' = w.in_flight
  /\ Counted(0, 0)

(* A frame's first packet opens it at the extent that packet proves.       *)
NewFrame(p) ==
  [total |-> 0, count |-> 0, pts |-> p.pts, chunk |-> p.chunk, epoch |-> p.epoch,
   parts |-> 0, delivered |-> 0, len |-> 0, blocks |-> [b \in {} |-> 0]]
(* pin_totals: the last block tells what the frame is.                     *)
Pinned(f, p) ==
  IF p.last THEN [f EXCEPT !.total = p.base + p.k, !.count = p.block + 1] ELSE f
Frame(p, w) == Pinned(IF p.idx \in DOMAIN w.frames THEN w.frames[p.idx] ELSE NewFrame(p), p)
Block(p, f) == IF p.block \in DOMAIN f.blocks THEN f.blocks[p.block] ELSE NewBlock(p)

Put(f, p, b) == [f EXCEPT !.len = IF p.base + p.k > @ THEN p.base + p.k ELSE @,
                          !.blocks = [x \in DOMAIN @ \cup {p.block} |->
                                        IF x = p.block THEN b ELSE @[x]]]
With(F, i, f) == [x \in DOMAIN F \cup {i} |-> IF x = i THEN f ELSE F[x]]
Without(F, i) == [x \in DOMAIN F \ {i} |-> F[x]]

(* The three charges a packet may make, in their order.                    *)
GrowCost(p, f) == IF p.base + p.k > f.len THEN p.base + p.k - f.len ELSE 0
BlockCharge(p, f) == IF p.block \in DOMAIN f.blocks THEN 0 ELSE BlockCost(p.k, p.m)
ParityCost(p, f) ==
  IF p.shard >= p.k /\ ~Block(p, f).done /\ p.shard - p.k \notin Block(p, f).parity
  THEN 1 ELSE 0
Charge(p, f) == GrowCost(p, f) + BlockCharge(p, f) + ParityCost(p, f)
Lands(p, w) == p.idx \notin DOMAIN w.completed /\ ~is_stale(p, w.newest)

(* The charge that crosses the budget drops the packet; what it had done   *)
(* to the frame before stays.                                              *)
Refused(p, w) ==
  LET f    == Frame(p, w)
      room == Budget - w.in_flight
      grown == [f EXCEPT !.len = IF p.base + p.k > @ THEN p.base + p.k ELSE @]
  IN  /\ Lands(p, w)
      /\ completed' = w.completed
      /\ Counted(0, 0)
      /\ \/ /\ GrowCost(p, f) > room
            /\ frames' = IF p.idx \in DOMAIN w.frames THEN With(w.frames, p.idx, f)
                         ELSE w.frames
            /\ in_flight' = w.in_flight
         \/ /\ GrowCost(p, f) <= room
            /\ GrowCost(p, f) + BlockCharge(p, f) > room
            /\ frames' = With(w.frames, p.idx, grown)
            /\ in_flight' = w.in_flight + GrowCost(p, f)
         \/ /\ GrowCost(p, f) + BlockCharge(p, f) <= room
            /\ Charge(p, f) > room
            /\ frames' = With(w.frames, p.idx, Put(f, p, Block(p, f)))
            /\ in_flight' = w.in_flight + GrowCost(p, f) + BlockCharge(p, f)

Fits(p, w) == Lands(p, w) /\ Charge(p, Frame(p, w)) <= Budget - w.in_flight

(* A data shard of a block that is already rebuilt.                        *)
Surplus(p, w) ==
  LET f    == Frame(p, w)
      b    == Block(p, f)
      late == b.reconstructed /\ p.shard < b.k /\ p.shard \notin b.have
  IN  /\ Fits(p, w) /\ b.done
      /\ frames' = With(w.frames, p.idx,
                        Put(f, p, IF late THEN [b EXCEPT !.have = @ \cup {p.shard}] ELSE b))
      /\ completed' = w.completed /\ in_flight' = w.in_flight
      /\ Counted(0, IF late THEN 1 ELSE 0)

(* The block with the packet's shard in it.                                *)
Filled(p, f) ==
  LET b == Block(p, f)
  IN  IF p.shard < b.k THEN [b EXCEPT !.have = @ \cup {p.shard}]
      ELSE [b EXCEPT !.parity = @ \cup {p.shard - b.k}]
Enough(b) == Cardinality(b.have) + Cardinality(b.parity) >= b.k

Keep(p, w) ==
  LET f == Frame(p, w)
  IN  /\ Fits(p, w) /\ ~Block(p, f).done /\ ~Enough(Filled(p, f))
      /\ frames' = With(w.frames, p.idx, Put(f, p, Filled(p, f)))
      /\ in_flight' = w.in_flight + Charge(p, f)
      /\ completed' = w.completed
      /\ Counted(0, 0)

M_closed_keeps_parity(p, w) ==
  LET f == Frame(p, w)
      b == Filled(p, f)
  IN  Put(f, p, [b EXCEPT !.done = TRUE, !.reconstructed = Cardinality(b.have) < b.k])
(* The frame once the packet's shard closed its block.                     *)
Closed(p, w) ==
  LET f == Frame(p, w)
      b == Filled(p, f)
  IN  Put(f, p, [b EXCEPT !.parity = {}, !.done = TRUE,
                          !.reconstructed = Cardinality(b.have) < b.k])
blocks_ok(f) == Cardinality({b \in DOMAIN f.blocks : f.blocks[b].done})
tiles(f) ==
  /\ DOMAIN f.blocks = 0 .. f.count - 1
  /\ \A b \in DOMAIN f.blocks :
       f.blocks[b].base = IF b = 0 THEN 0 ELSE f.blocks[b - 1].base + f.blocks[b - 1].k
  /\ f.blocks[f.count - 1].base + f.blocks[f.count - 1].k = f.total
Whole(f) == f.count # 0 /\ blocks_ok(f) = f.count
M_prefix_any(f) ==
  Max({0} \cup {b + 1 : b \in {x \in DOMAIN f.blocks : f.blocks[x].done /\ x + 1 # f.count}})
(* The leading blocks a slice-progressive consumer may have: whole ones in *)
(* a row, short of the last.                                               *)
PrefixBlocks(f) ==
  Max({n \in 0 .. Cardinality(DOMAIN f.blocks) :
         \A b \in 0 .. n - 1 : /\ b \in DOMAIN f.blocks /\ f.blocks[b].done
                               /\ f.count = 0 \/ b + 1 < f.count})
Progressed(f) ==
  LET n == PrefixBlocks(f)
  IN  IF "parts" \notin deliver \/ n = 0 THEN f
      ELSE [f EXCEPT !.parts = n, !.delivered = f.blocks[n - 1].base + f.blocks[n - 1].k]

CloseBlock(p, w) ==
  LET f == Closed(p, w)
      b == f.blocks[p.block]
      spent == Cardinality(Filled(p, Frame(p, w)).parity)
      held == w.in_flight + Charge(p, Frame(p, w)) - spent
  IN  /\ Fits(p, w) /\ ~Block(p, Frame(p, w)).done /\ Enough(Filled(p, Frame(p, w)))
      /\ IF Whole(f)
         THEN /\ frames' = Without(w.frames, p.idx)
              /\ completed' = With(w.completed, p.idx, Restored(f))
              /\ in_flight' = held - Committed(f)
         ELSE /\ frames' = With(w.frames, p.idx, Progressed(f))
              /\ completed' = w.completed
              /\ in_flight' = held
      /\ Counted(b.k - Cardinality(b.have), 0)

(* What the packet sends up: the frame it completes (what no prefix part   *)
(* took of it), or the prefix it unlocks.                                  *)
Up(f, i, lo, hi, kind) == [idx |-> i, epoch |-> f.epoch, lo |-> lo, hi |-> hi, kind |-> kind]
Emitted(p, w) ==
  LET f == Closed(p, w)
      g == Progressed(f)
  IN  IF \/ ~Fits(p, w) \/ Block(p, Frame(p, w)).done \/ ~Enough(Filled(p, Frame(p, w)))
         \/ ~Whole(f) /\ g.delivered = f.delivered
      THEN NoFrame
      ELSE IF Whole(f) THEN Up(f, p.idx, f.delivered, f.total, "whole")
           ELSE Up(f, p.idx, f.delivered, g.delivered, "part")

(* push: one packet, whatever becomes of it.                               *)
Push(p, w) ==
  /\ newest' = w.newest
  /\ UNCHANGED <<deliver, hold>>
  /\ \/ Straggle(p, w)
     \/ TooLate(p, w)
     \/ Refused(p, w)
     \/ Surplus(p, w)
     \/ Keep(p, w)
     \/ CloseBlock(p, w)

(* release_partial: a frame goes up as it is, ahead of its loss window.    *)
ReleasePartial(i, need_head) ==
  /\ "partial" \in deliver
  /\ i \in DOMAIN frames /\ CanGoUp(frames[i])
  /\ need_head => head_whole(frames[i])
  /\ frames' = Without(frames, i)
  /\ completed' = With(completed, i, Restored(frames[i]))
  /\ parked' = Park(frames, {i})
  /\ in_flight' = in_flight - Committed(frames[i])
  /\ dropped' = dropped + IF head_whole(frames[i]) THEN 0 ELSE 1
  /\ UNCHANGED <<deliver, newest, hold, fec>>

SetPartialHold(h) ==
  /\ hold' = h
  /\ UNCHANGED <<deliver, frames, completed, newest, parked, in_flight, dropped, fec>>

(* Stragglers of what a flush tore stay stragglers, with nothing owed.     *)
Forgotten == [i \in DOMAIN frames \cup DOMAIN completed |-> {}]
Reset ==
  /\ frames' = [i \in {} |-> 0]
  /\ completed' = Forgotten
  /\ newest' = NoFrame /\ parked' = NoFrame
  /\ in_flight' = 0
  /\ UNCHANGED <<deliver, hold, dropped, fec>>
=============================================================================
