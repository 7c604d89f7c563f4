--------------------------------- MODULE Receive ---------------------------------
(***************************************************************************)
(* The client's receive path, crates/core/punktfunk-core/src/session.rs    *)
(* (poll_frame): datagrams come in any order or never, their numbers go    *)
(* through the replay window, their packets into the reassembler, and what *)
(* comes out goes up unless its epoch is over.  The host's side is what it *)
(* sends: packet/packetize.rs.                                             *)
(*                                                                         *)
(* Plan is the stream the host sends: per frame its index, pts, epoch,     *)
(* chunk flag and blocks (k data and m parity shards each).  The network   *)
(* loses, reorders and duplicates: any datagram of the wire may arrive at  *)
(* any time, any number of times.                                          *)
(***************************************************************************)
EXTENDS Reassembler, ReplayWindow, SequencesExt

CONSTANTS
  Plan,
  Resent,     \* places on the wire whose packet the host seals once more
  FirstSeq,   \* the number of the first packet
  EpochMod,   \* 2^8
  MaxFlushes, \* bound on jumps to live
  Options     \* the opt-ins a client may have chosen

VARIABLES
  replay,
  epoch,      \* newest_epoch
  flushes,
  accepted,   \* history: the numbers that passed the replay window
  opened,     \* history: the frames that were ever in flight
  flushed,    \* history: the frames a flush tore or had finished
  lost,       \* history: how often a frame was counted dead
  got         \* history: what went up of a frame

history == <<accepted, opened, flushed, lost, got>>
vars == <<rvars, replay, epoch, flushes, history>>

(***************************************************************************)
(* The wire.                                                               *)
(***************************************************************************)
block_start(f, b) == SumOver([x \in 1 .. b |-> f.blocks[x].k])
Packet(f, b, i) ==
  [idx |-> f.idx, pts |-> f.pts, epoch |-> f.epoch, chunk |-> f.chunk,
   block |-> b, base |-> block_start(f, b), k |-> f.blocks[b + 1].k,
   m |-> f.blocks[b + 1].m, shard |-> i, last |-> b + 1 = Len(f.blocks)]
(* Every block's data, then every block's parity.                          *)
emit_data(f) ==
  FlattenSeq([x \in DOMAIN f.blocks |->
                [i \in 1 .. f.blocks[x].k |-> Packet(f, x - 1, i - 1)]])
emit_parity(f) ==
  FlattenSeq([x \in DOMAIN f.blocks |->
                [i \in 1 .. f.blocks[x].m |-> Packet(f, x - 1, f.blocks[x].k + i - 1)]])
packetize == FlattenSeq([x \in DOMAIN Plan |-> emit_data(Plan[x]) \o emit_parity(Plan[x])])
(* reseal: a resend is the packet under a number of its own.               *)
Wire == packetize \o [x \in DOMAIN Resent |-> packetize[Resent[x]]]
Seqs == {FirstSeq + n - 1 : n \in DOMAIN Wire}

Indices == {Plan[x].idx : x \in DOMAIN Plan}
Total(i) == LET f == Plan[CHOOSE x \in DOMAIN Plan : Plan[x].idx = i]
            IN  block_start(f, Len(f.blocks))

Plans == [idx : 0 .. IndexMod - 1, pts : Nat, epoch : 0 .. EpochMod - 1, chunk : BOOLEAN,
          blocks : Seq([k : Nat \ {0}, m : Nat])]
Anchors  == [idx : 0 .. IndexMod - 1, pts : Nat]
Pictures == [idx : 0 .. IndexMod - 1, epoch : 0 .. EpochMod - 1, len : Nat]
Pieces   == [idx : 0 .. IndexMod - 1, epoch : 0 .. EpochMod - 1, lo : Nat, hi : Nat,
             kind : {"part", "whole", "partial"}]

(* A stretch of a stream that spans less than half the indices and epochs. *)
(* Partials are for PyroWave and parts for the other codecs                *)
(* (client/pump/handshake.rs:386).                                         *)
ASSUME PlanAssumption ==
  /\ FirstSeq \in Nat /\ EpochMod \in Nat \ {0}
  /\ Plan \in Seq(Plans) /\ Resent \in Seq(DOMAIN packetize)
  /\ \A x \in DOMAIN Plan :
       /\ Plan[x].blocks # <<>>
       /\ \A b \in DOMAIN Plan[x].blocks : BlockCost(Plan[x].blocks[b].k, Plan[x].blocks[b].m) \in Nat
  /\ \A x, y \in DOMAIN Plan : Plan[x].idx = Plan[y].idx => x = y
  /\ \E i \in 0 .. IndexMod - 1 : \A x \in DOMAIN Plan : Forward(Plan[x].idx, i)
  /\ \E e \in 0 .. EpochMod - 1 :
       \A x \in DOMAIN Plan : 2 * ((Plan[x].epoch - e) % EpochMod) < EpochMod
  /\ \A o \in Options : o \subseteq {"partial", "parts"} /\ o # {"partial", "parts"}
  /\ NoFrame \notin Nat \cup Anchors \cup Pictures \cup Pieces

Init ==
  /\ deliver \in Options
  /\ frames = [i \in {} |-> 0] /\ completed = [i \in {} |-> {}]
  /\ newest = NoFrame /\ parked = NoFrame /\ hold = NoFrame
  /\ in_flight = 0 /\ dropped = 0
  /\ fec = [recovered |-> 0, late |-> 0]
  /\ replay = NoneSeen
  /\ epoch = NoFrame
  /\ flushes = 0
  /\ accepted = {} /\ opened = {} /\ flushed = {}
  /\ lost = [i \in Indices |-> 0] /\ got = [i \in Indices |-> <<>>]

behind_epoch(e) == epoch # NoFrame /\ 2 * ((e - epoch) % EpochMod) >= EpochMod

(* poll_frame hands the frame to the pump, or counts it dropped.           *)
Deliver(u) ==
  IF behind_epoch(u.epoch)
  THEN UNCHANGED <<epoch, got>>
  ELSE epoch' = u.epoch /\ got' = [got EXCEPT ![u.idx] = Append(@, u)]
Stale(u) == IF behind_epoch(u.epoch) THEN 1 ELSE 0
Dead(D) == lost' = [i \in Indices |-> IF i \in D THEN lost[i] + 1 ELSE lost[i]]
Picture(q) == Up(q, q.idx, 0, q.len, "partial")

(* Authenticated under the number it expands to, worth opening, unseen.    *)
Readable(seq) ==
  LET n == expand_seq(reference(replay), seq % LowMod)
  IN  n = seq /\ plausible(replay, n) /\ accepts(replay, n)

(* One datagram.  A poll takes what is parked before it reads.             *)
Receive(seq) ==
  /\ parked = NoFrame
  /\ Readable(seq)
  /\ replay' = accept(replay, seq)
  /\ accepted' = accepted \cup {seq}
  /\ LET p == Wire[seq - FirstSeq + 1]
         w == Advanced(p)
         u == Emitted(p, w)
     IN  /\ Push(p, w)
         /\ opened' = opened \cup DOMAIN frames'
         /\ Dead(w.dead)
         /\ \/ /\ u # NoFrame
               /\ parked' = w.parked
               /\ Deliver(u)
               /\ dropped' = dropped + Cardinality(w.dead) + Stale(u)
            \/ /\ u = NoFrame /\ w.parked # NoFrame
               /\ parked' = NoFrame
               /\ Deliver(Picture(w.parked))
               /\ dropped' = dropped + Cardinality(w.dead) + Stale(w.parked)
            \/ /\ u = NoFrame /\ w.parked = NoFrame
               /\ parked' = NoFrame
               /\ dropped' = dropped + Cardinality(w.dead)
               /\ UNCHANGED <<epoch, got>>
  /\ UNCHANGED <<flushes, flushed>>

(* What is parked goes up before anything newer is read.                   *)
TakePartial ==
  /\ parked # NoFrame
  /\ parked' = NoFrame
  /\ Deliver(Picture(parked))
  /\ dropped' = dropped + Stale(parked)
  /\ UNCHANGED <<deliver, frames, completed, newest, hold, in_flight, fec, replay, flushes,
                 accepted, opened, flushed, lost>>

(* The pump, between polls: it lets a frame go up as it is, or names the   *)
(* frame it asked shards for.                                              *)
Release ==
  /\ \E i \in DOMAIN frames, need_head \in BOOLEAN :
       /\ ReleasePartial(i, need_head)
       /\ Dead(IF head_whole(frames[i]) THEN {} ELSE {i})
  /\ UNCHANGED <<replay, epoch, flushes, accepted, opened, flushed, got>>

Hold ==
  /\ "partial" \in deliver
  /\ \E h \in (DOMAIN frames \cup {NoFrame}) \ {hold} : SetPartialHold(h)
  /\ UNCHANGED <<replay, epoch, flushes, history>>

(* Jump to live: what is queued is lost like any datagram.                 *)
flush_backlog ==
  /\ flushes < MaxFlushes
  /\ flushes' = flushes + 1
  /\ Reset
  /\ flushed' = opened \cup {i \in Indices : got[i] # <<>>}
  /\ UNCHANGED <<replay, epoch, accepted, opened, lost, got>>

Next ==
  \/ \E seq \in Seqs : Receive(seq)
  \/ TakePartial
  \/ Release
  \/ Hold
  \/ flush_backlog

Spec == Init /\ [][Next]_vars

(***************************************************************************)
(* Properties.                                                             *)
(***************************************************************************)
(* The shapes of what the path keeps; a block that is done holds no parity *)
(* and one that is not cannot be done with what it has.                    *)
TypeOK ==
  /\ DOMAIN frames \subseteq Indices /\ DOMAIN completed \subseteq Indices
  /\ \A i \in DOMAIN frames :
       LET f == frames[i]
       IN  /\ f.len \in 1 .. Total(i) /\ f.total \in {0, Total(i)}
           /\ \A b \in DOMAIN f.blocks :
                LET x == f.blocks[b]
                IN  /\ x.base + x.k <= f.len
                    /\ x.have \subseteq 0 .. x.k - 1 /\ x.parity \subseteq 0 .. x.m - 1
                    /\ IF x.done THEN x.parity = {} ELSE ~Enough(x)
  /\ parked = NoFrame \/ parked.idx \in Indices
  /\ accepted \subseteq Seqs

(* The ring of bits is the set of numbers it stands for: a number on the   *)
(* wire, as far ahead as its low half tells and the next key seals, is read*)
(* exactly if it was not read before and is no older than the window,      *)
(* across wraps of its low half and jumps longer than the window.          *)
KeyOf(seq) == seq \div MEDIA_KEY_PACKETS
ReplayExact ==
  \A seq \in Seqs : LET ref == reference(replay) IN
    /\ Readable(seq) => seq \notin accepted
    /\ seq - ref < LowMod \div 2 /\ KeyOf(seq) <= KeyOf(ref) + 1 =>
         (Readable(seq) <=> seq \notin accepted /\ ref - seq < REPLAY_WINDOW)

(* A frame no flush tore or came after goes up once: its prefixes in order,*)
(* each from where the last ended and with no hole in it, then what is     *)
(* left; or whole; or as a partial; and nothing of it afterwards, whatever *)
(* straggles in.                                                           *)
GoesUpOnce ==
  \A i \in Indices \ flushed : LET g == got[i] IN
    /\ \A n \in 1 .. Len(g) - 1 : g[n].kind = "part" /\ g[n].hi = g[n + 1].lo
    /\ g # <<>> => g[1].lo = 0 /\ (g[Len(g)].kind = "whole" => g[Len(g)].hi = Total(i))
    /\ g # <<>> /\ g[Len(g)].kind # "part" => i \notin DOMAIN frames
    /\ g # <<>> /\ i \in DOMAIN frames =>
         \A shard \in 0 .. g[Len(g)].hi - 1 : \E b \in DOMAIN frames[i].blocks :
           LET x == frames[i].blocks[b] IN x.done /\ shard - x.base \in 0 .. x.k - 1

(* frames_dropped counts a frame no flush tore at most once, and never one *)
(* that went up whole.                                                     *)
CountedOnce ==
  \A i \in Indices \ flushed :
    lost[i] <= IF \E n \in DOMAIN got[i] : got[i][n].kind = "whole" THEN 0 ELSE 1

(* A shard still on the wire for a frame a flush tore, or had finished, is *)
(* a straggler, not a frame lost on the link.                              *)
FlushedNotLost == [][\A i \in flushed : lost'[i] = lost[i]]_vars

(* The memory charged is the memory held, and within the budget.           *)
Metered ==
  /\ in_flight = SumOver([i \in DOMAIN frames |-> Committed(frames[i])])
  /\ in_flight <= Budget

(* A shard counted late was counted recovered before, and no shard is late *)
(* twice: what is recovered and not late is what parity still stands for.  *)
LateIsNetted == fec.late <= fec.recovered
=============================================================================
