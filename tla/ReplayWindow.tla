------------------------------ MODULE ReplayWindow ------------------------------
(***************************************************************************)
(* The anti-replay window over the packet number of the media plane,       *)
(* crates/core/punktfunk-core/src/session/replay.rs, and the expansion of  *)
(* the low half a packet carries, packet/v2.rs.                            *)
(*                                                                         *)
(* The bitmap is a ring of REPLAY_WINDOW bits: here the set of the slots   *)
(* that are set.                                                           *)
(***************************************************************************)
EXTENDS Integers

CONSTANTS
  REPLAY_WINDOW,     \* sequences the ring remembers
  LowMod,            \* 2^32: what the low half of a packet number counts to
  MEDIA_KEY_PACKETS  \* packets sealed under one key

ASSUME ReplayAssumption ==
  /\ REPLAY_WINDOW \in Nat \ {0} /\ MEDIA_KEY_PACKETS \in Nat \ {0}
  /\ LowMod \in Nat /\ LowMod >= 2 * REPLAY_WINDOW

slot(seq) == seq % REPLAY_WINDOW

NoneSeen == [seen |-> FALSE, highest |-> 0, bits |-> {}]

reference(w) == IF w.seen THEN w.highest ELSE 0

(* The number nearest the reference whose low half is low: the difference  *)
(* of the low halves is read as a signed one.                              *)
expand_seq(ref, low) ==
  LET ahead == (low - ref) % LowMod
      delta == IF 2 * ahead < LowMod THEN ahead ELSE ahead - LowMod
  IN  IF ref + delta >= 0 THEN ref + delta ELSE low

(* Worth an open: at most one key ahead, and not behind the window.        *)
plausible(w, seq) ==
  /\ seq \div MEDIA_KEY_PACKETS <= reference(w) \div MEDIA_KEY_PACKETS + 1
  /\ reference(w) - seq < REPLAY_WINDOW

M_slide_none(w, seq) == w.bits
(* Slots that slid in still hold the bits of a full window ago.            *)
Slide(w, seq) ==
  IF seq - w.highest >= REPLAY_WINDOW THEN {}
  ELSE w.bits \ {slot(s) : s \in w.highest + 1 .. seq - 1}
accepts(w, seq) ==
  \/ ~w.seen
  \/ seq > w.highest
  \/ w.highest - seq < REPLAY_WINDOW /\ slot(seq) \notin w.bits

(* The window after it accepted seq.                                       *)
accept(w, seq) ==
  [seen    |-> TRUE,
   highest |-> IF ~w.seen \/ seq > w.highest THEN seq ELSE w.highest,
   bits    |-> (IF w.seen /\ seq > w.highest THEN Slide(w, seq) ELSE w.bits)
               \cup {slot(seq)}]
=============================================================================
