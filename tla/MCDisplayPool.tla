---------------------------- MODULE MCDisplayPool ----------------------------
(* Small hosts for TLC: the requests their clients make.                   *)
EXTENDS DisplayPool, TLC

Plain == [backend |-> "kwin", spawned |-> FALSE, seat |-> None, mode |-> 1, hdr |-> FALSE,
          cursor |-> FALSE, owner |-> "alice", join |-> FALSE, park |-> FALSE,
          resize |-> FALSE, cast |-> FALSE]

(* Two clients of one desktop, one of which may join the other; the first  *)
(* also asks for another mode, which the backend cannot resize to.         *)
DeskRequests ==
  {Plain, [Plain EXCEPT !.mode = 2], [Plain EXCEPT !.owner = "bob", !.join = TRUE, !.cast = TRUE]}

(* A seat: a pre-warm and its client at another mode, on a nested          *)
(* compositor that resizes.                                                *)
Nested == [Plain EXCEPT !.backend = "gamescope", !.spawned = TRUE, !.seat = "seat1",
                        !.resize = TRUE]
SeatRequests ==
  {[Nested EXCEPT !.park = TRUE, !.owner = None], [Nested EXCEPT !.mode = 2]}

(* A desktop whose sessions carry their own cast, which can fail.          *)
CastRequests ==
  {[Plain EXCEPT !.cast = TRUE], [Plain EXCEPT !.cast = TRUE, !.owner = "bob", !.join = TRUE]}

(* A desktop whose sessions carry their own cast and that restarts, beside *)
(* a seat's own Game Mode display.                                         *)
EpochRequests ==
  {[Plain EXCEPT !.cast = TRUE],
   [Plain EXCEPT !.backend = "gamescope", !.spawned = TRUE, !.owner = "bob"]}

Host == [requests |-> DeskRequests, policies |-> {For(1), Forever}, max_displays |-> 2,
         seat_game_mode |-> FALSE, stops |-> FALSE, restarts |-> 0]

(* A desktop; a client's own desktop that is stopped; a host with room for *)
(* one display, a seat in Game Mode, whose compositor restarts.            *)
DeskAndEpoch ==
  {Host,
   [Host EXCEPT !.requests = {Plain}, !.policies = {For(1)}, !.stops = TRUE],
   [Host EXCEPT !.requests = EpochRequests, !.policies = {For(1)}, !.max_displays = 1,
                !.seat_game_mode = TRUE, !.restarts = 1]}
Seat == {[Host EXCEPT !.requests = SeatRequests, !.policies = {For(1)}]}
Shared == {[Host EXCEPT !.requests = CastRequests, !.policies = {Immediate, For(1), Forever}]}
Stopped == {[Host EXCEPT !.stops = TRUE, !.policies = {For(1)}]}

(* Sessions are interchangeable: each makes every request.                 *)
Symmetry == Permutations(Sessions)
==============================================================================
