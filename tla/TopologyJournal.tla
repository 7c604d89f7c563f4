---------------------------- MODULE TopologyJournal ----------------------------
(***************************************************************************)
(* The write-ahead journal of what exclusive displays change on the desk.  *)
(* crates/host/pf-vdisplay/src/vdisplay/topology_journal.rs, with the      *)
(* darkening that writes to it (monitors.rs, linux/wlroots.rs) and the     *)
(* display group that hands its seqs on and runs them (registry.rs).       *)
(*                                                                         *)
(* Sessions of one host create headless outputs on one compositor, darken  *)
(* the physical heads, and leave.  The host crashes at any point and the   *)
(* next one reclaims its file.  Heads are unplugged and come back as they  *)
(* were left.  An entry is named by its seq; an output by its entry's.     *)
(***************************************************************************)
EXTENDS Naturals

CONSTANTS
  Sessions,
  Heads,       \* the physical heads
  Reclaimer,   \* the host's startup
  Watch,       \* the topology-owed threads, taken as one
  None,
  OWED_TRIES,  \* failed looks before an owed entry is left to the next host
  MaxCreates, MaxCrashes, MaxUnplugs, MaxRefusals  \* bounds

Threads == Sessions \cup {Reclaimer, Watch}

ASSUME JournalAssumption ==
  /\ OWED_TRIES \in Nat \ {0}
  /\ MaxCreates \in Nat /\ MaxCrashes \in Nat /\ MaxUnplugs \in Nat /\ MaxRefusals \in Nat
  /\ None \notin Nat
  /\ Reclaimer \notin Sessions /\ Watch \notin Sessions /\ Reclaimer # Watch

VARIABLES
  lit,      \* the compositor: is a head enabled; an unplugged one keeps it
  listed,   \* the heads plugged in
  outputs,  \* the headless outputs, by the seq of their entry
  journal,  \* the entries on disk, of every host's file
  next,     \* Journal.next, never reused by a later host here
  host,     \* which host process is the current one
  up,       \* it runs
  pc,       \* per session: where its create or teardown stands
  out,      \* per session: its output
  plan,     \* per session: the heads its create is about to darken
  held,     \* per session: the seqs its backend or its pool entry holds
  todo,     \* per thread: entries of its pass still to run
  cur,      \* per thread: the entry whose heads it is about to read back
  undone,   \* per thread: entries of its pass whose undo is done
  owed,     \* entries the watch looks after -> its failed looks at each
  kept,     \* history: entries some pass left for a later host
  spent     \* bounds: creates, crashes, unplugs and refusals so far

desk == <<lit, listed, outputs>>
file == <<journal, next>>
sess == <<pc, out, plan, held>>
pass == <<todo, cur, undone>>
vars == <<desk, file, host, up, sess, pass, owed, kept, spent>>

(* EnableHeads names heads; RemoveOutput the output with the entry's seq.  *)
Entry == [seq : Nat, owner : Nat, kind : {"heads", "output"}, heads : SUBSET Heads]

PCs == {"idle", "created", "planned", "darken", "pooled", "undo", "unplug"}

TypeOK ==
  /\ lit \in [Heads -> BOOLEAN] /\ listed \subseteq Heads /\ outputs \subseteq Nat
  /\ journal \subseteq Entry /\ next \in Nat /\ host \in Nat /\ up \in BOOLEAN
  /\ pc \in [Sessions -> PCs] /\ out \in [Sessions -> Nat]
  /\ plan \in [Sessions -> SUBSET Heads] /\ held \in [Sessions -> SUBSET Nat]
  /\ todo \in [Threads -> SUBSET Nat] /\ undone \in [Threads -> SUBSET Nat]
  /\ cur \in [Threads -> Nat \cup {None}]
  /\ DOMAIN owed \subseteq Nat /\ owed \in [DOMAIN owed -> 0 .. OWED_TRIES - 1]
  /\ kept \subseteq Nat
  /\ spent \in [{"creates", "crashes", "unplugs", "refusals"} -> Nat]

Init ==
  /\ lit = [h \in Heads |-> TRUE] /\ listed = Heads /\ outputs = {}
  /\ journal = {} /\ next = 1 /\ host = 1 /\ up = TRUE
  /\ pc = [s \in Sessions |-> "idle"] /\ out = [s \in Sessions |-> 0]
  /\ plan = [s \in Sessions |-> {}] /\ held = [s \in Sessions |-> {}]
  /\ todo = [t \in Threads |-> {}] /\ undone = [t \in Threads |-> {}]
  /\ cur = [t \in Threads |-> None]
  /\ owed = [q \in {} |-> 0] /\ kept = {}
  /\ spent = [k \in {"creates", "crashes", "unplugs", "refusals"} |-> 0]

-----------------------------------------------------------------------------
EntryOf(q) == {e \in journal : e.seq = q}
NamedBy(q) == UNION {e.heads : e \in EntryOf(q)}

settle(Q) == {e \in journal : e.seq \notin Q}

push(k, H) == journal \cup {[seq |-> next, owner |-> host, kind |-> k, heads |-> H]}

Spend(k) == spent' = [spent EXCEPT ![k] = @ + 1]

Go(s, where) == pc' = [pc EXCEPT ![s] = where]

(* A pass is over when nothing is left to run or to read back.             *)
Ran(t) == todo[t] = {} /\ cur[t] = None

-----------------------------------------------------------------------------
(* A session's create.                                                     *)

(* The compositor names a new output, which is journaled at once.  A host  *)
(* reclaims before it serves.                                              *)
Create(s) ==
  /\ up /\ pc[s] = "idle" /\ Ran(Reclaimer) /\ undone[Reclaimer] = {}
  /\ spent["creates"] < MaxCreates /\ Spend("creates")
  /\ outputs' = outputs \cup {next}
  /\ journal' = push("output", {})
  /\ next' = next + 1
  /\ out' = [out EXCEPT ![s] = next]
  /\ Go(s, "created")
  /\ UNCHANGED <<lit, listed, host, up, plan, held, pass, owed, kept>>

(* A step after the output was made fails, before any head goes dark.      *)
CreateFails(s) ==
  /\ pc[s] = "created"
  /\ Go(s, "unplug")
  /\ UNCHANGED <<desk, file, host, up, out, plan, held, pass, owed, kept, spent>>

(* heads_to_darken, of the listing: every lit head.  With nothing to       *)
(* darken, or an extend topology, the display goes straight to the pool.   *)
ListHeads(s, exclusive) ==
  LET H == IF exclusive THEN {h \in listed : lit[h]} ELSE {}
  IN /\ pc[s] = "created"
     /\ plan' = [plan EXCEPT ![s] = H]
     /\ Go(s, IF H = {} THEN "pooled" ELSE "planned")
     /\ UNCHANGED <<desk, file, host, up, out, held, pass, owed, kept, spent>>

(* The whole plan is journaled before the first head goes dark.            *)
M_journal_first(s) ==
  /\ pc[s] = "planned"
  /\ \E h \in plan[s] : journal' = push("heads", {h})
  /\ next' = next + 1
  /\ held' = [held EXCEPT ![s] = @ \cup {next}]
  /\ Go(s, "darken")
  /\ UNCHANGED <<desk, host, up, out, plan, pass, owed, kept, spent>>
JournalPlan(s) ==
  /\ pc[s] = "planned"
  /\ journal' = push("heads", plan[s])
  /\ next' = next + 1
  /\ held' = [held EXCEPT ![s] = @ \cup {next}]
  /\ Go(s, "darken")
  /\ UNCHANGED <<desk, host, up, out, plan, pass, owed, kept, spent>>

(* One head is disabled, or refuses and stays lit.                         *)
Darken(s) ==
  /\ pc[s] = "darken"
  /\ \E h \in plan[s] :
       /\ plan' = [plan EXCEPT ![s] = @ \ {h}]
       /\ Go(s, IF plan[s] = {h} THEN "pooled" ELSE "darken")
       /\ lit' \in {lit, [lit EXCEPT ![h] = lit[h] /\ h \notin listed]}
  /\ UNCHANGED <<listed, outputs, file, host, up, out, held, pass, owed, kept, spent>>

-----------------------------------------------------------------------------
(* Its teardown: the entry leaves the pool and its seqs go to a sibling, or*)
(* are run here, outside the pool lock, before the output is dropped.      *)

M_replace_seqs(s, sib) == held' = [held EXCEPT ![sib] = held[s], ![s] = {}]
hand_off_undo(s, sib)  == held' = [held EXCEPT ![sib] = @ \cup held[s], ![s] = {}]

M_drop_first(s) == "unplug"
AfterPool(s) == "undo"

Leave(s) ==
  LET siblings == {q \in Sessions \ {s} : pc[q] = "pooled"}
  IN /\ pc[s] = "pooled"
     /\ \/ \E sib \in siblings :
             /\ hand_off_undo(s, sib)
             /\ Go(s, "unplug")
             /\ UNCHANGED todo
        \/ /\ siblings = {}
           /\ todo' = [todo EXCEPT ![s] = held[s]]
           /\ held' = [held EXCEPT ![s] = {}]
           /\ Go(s, AfterPool(s))
     /\ UNCHANGED <<desk, file, host, up, out, plan, cur, undone, owed, kept, spent>>

(* OutputGuard::drop: the output goes and its entry is settled, or the     *)
(* unplug is refused and the entry waits for the next host.                *)
Unplug(s) ==
  /\ pc[s] = "unplug"
  /\ \/ /\ outputs' = outputs \ {out[s]}
        /\ journal' = {e \in journal : ~(e.kind = "output" /\ e.seq = out[s])}
        /\ UNCHANGED <<kept, spent>>
     \/ /\ spent["refusals"] < MaxRefusals /\ Spend("refusals")
        /\ kept' = kept \cup {out[s]}
        /\ UNCHANGED <<outputs, journal>>
  /\ Go(s, "idle")
  /\ UNCHANGED <<lit, listed, next, host, up, out, plan, held, pass, owed>>

-----------------------------------------------------------------------------
(* A pass over entries: run, newest first within a file.                   *)

Newest(t, q) ==
  /\ q \in todo[t]
  /\ \A e \in EntryOf(q), f \in journal :
       f.seq \in todo[t] /\ f.owner = e.owner => f.seq <= q

Runs(t) == up /\ cur[t] = None /\ (t \in Sessions => pc[t] = "undo")

(* EnableHeads: its heads that are listed are enabled, and read back next. *)
EnableHeads(t, q) ==
  /\ \E e \in EntryOf(q) : e.kind = "heads"
  /\ lit' = [h \in Heads |-> lit[h] \/ (h \in NamedBy(q) /\ h \in listed)]
  /\ cur' = [cur EXCEPT ![t] = q]
  /\ UNCHANGED <<outputs, undone>>

(* RemoveOutput: its output is unplugged.  An entry that is gone is nothing*)
(* to do.                                                                  *)
RemoveOutput(t, q) ==
  /\ ~\E e \in EntryOf(q) : e.kind = "heads"
  /\ outputs' = IF EntryOf(q) = {} THEN outputs ELSE outputs \ {q}
  /\ undone' = [undone EXCEPT ![t] = @ \cup {q}]
  /\ UNCHANGED <<lit, cur>>

Undo(t) ==
  /\ Runs(t)
  /\ \E q \in todo[t] :
       /\ Newest(t, q)
       /\ todo' = [todo EXCEPT ![t] = @ \ {q}]
       /\ EnableHeads(t, q) \/ RemoveOutput(t, q)
  /\ UNCHANGED <<listed, file, host, up, sess, owed, kept, spent>>

M_one_try_more(q) == owed[q] + 1 <= OWED_TRIES
TriesLeft(q)      == owed[q] + 1 < OWED_TRIES

(* What a pass does with an entry whose undo failed: the watch looks again *)
(* a few times, any other pass leaves it to the next host.                 *)
Fails(t, q) ==
  IF t = Watch /\ q \in DOMAIN owed /\ TriesLeft(q)
  THEN owed' = [owed EXCEPT ![q] = @ + 1] /\ UNCHANGED kept
  ELSE /\ owed' = [p \in DOMAIN owed \ (IF t = Watch THEN {q} ELSE {}) |-> owed[p]]
       /\ kept' = kept \cup {q}

(* The compositor refuses some of it, or cannot be reached.                *)
UndoRefused(t) ==
  /\ Runs(t)
  /\ spent["refusals"] < MaxRefusals /\ Spend("refusals")
  /\ \E q \in todo[t] :
       /\ Newest(t, q) /\ EntryOf(q) # {}
       /\ todo' = [todo EXCEPT ![t] = @ \ {q}]
       /\ \E H \in SUBSET (NamedBy(q) \cap listed) :
            lit' = [h \in Heads |-> lit[h] \/ h \in H]
       /\ Fails(t, q)
  /\ UNCHANGED <<listed, outputs, file, host, up, sess, cur, undone>>

(* settled: heads still dark fail the entry; one that is not listed leaves *)
(* it owed, or in a dead host's file; all lit settle it.                   *)
StillDark(q)     == \E h \in NamedBy(q) : h \in listed /\ ~lit[h]
M_gone_is_lit(q) == {}
Gone(q)          == NamedBy(q) \ listed

ReadBack(t) ==
  LET q == cur[t]
  IN /\ up /\ q # None
     /\ cur' = [cur EXCEPT ![t] = None]
     /\ \/ /\ StillDark(q)
           /\ Fails(t, q)
           /\ UNCHANGED undone
        \/ /\ ~StillDark(q) /\ Gone(q) # {}
           /\ IF t = Reclaimer
              THEN kept' = kept \cup {q} /\ UNCHANGED owed
              ELSE /\ owed' = [p \in DOMAIN owed \cup {q} |->
                                 IF p \in DOMAIN owed THEN owed[p] ELSE 0]
                   /\ UNCHANGED kept
           /\ UNCHANGED undone
        \/ /\ ~StillDark(q) /\ Gone(q) = {}
           /\ undone' = [undone EXCEPT ![t] = @ \cup {q}]
           /\ UNCHANGED <<owed, kept>>
     /\ UNCHANGED <<desk, file, host, up, sess, todo, spent>>

(* The pass is over: what it undid leaves the journal.                     *)
Settle(t) ==
  /\ up /\ Ran(t)
  /\ IF t \in Sessions THEN pc[t] = "undo" ELSE undone[t] # {}
  /\ journal' = settle(undone[t])
  /\ undone' = [undone EXCEPT ![t] = {}]
  /\ IF t \in Sessions THEN Go(t, "unplug") ELSE UNCHANGED pc
  /\ owed' = [p \in DOMAIN owed \ undone[t] |-> owed[p]]
  /\ UNCHANGED <<desk, next, host, up, out, plan, held, todo, cur, kept, spent>>

(* watch_owed: an entry is looked at while no managed output is listed, and*)
(* its undo runs only when a head it names is listed dark.                 *)
Look(q) ==
  /\ up /\ q \in DOMAIN owed /\ outputs = {}
  /\ Ran(Watch) /\ undone[Watch] = {}
  /\ IF StillDark(q)
     THEN todo' = [todo EXCEPT ![Watch] = {q}] /\ UNCHANGED cur
     ELSE cur' = [cur EXCEPT ![Watch] = q] /\ UNCHANGED todo
  /\ UNCHANGED <<desk, file, host, up, sess, undone, owed, kept, spent>>

-----------------------------------------------------------------------------
(* The host dies: its memory goes, the desk and the files stay.            *)
Crash ==
  /\ up /\ spent["crashes"] < MaxCrashes /\ Spend("crashes")
  /\ up' = FALSE
  /\ pc' = [s \in Sessions |-> "idle"] /\ out' = [s \in Sessions |-> 0]
  /\ plan' = [s \in Sessions |-> {}] /\ held' = [s \in Sessions |-> {}]
  /\ todo' = [t \in Threads |-> {}] /\ undone' = [t \in Threads |-> {}]
  /\ cur' = [t \in Threads |-> None]
  /\ owed' = [q \in {} |-> 0]
  /\ UNCHANGED <<desk, file, host, kept>>

(* reclaim: every file of a dead owner.                                    *)
Restart ==
  /\ ~up
  /\ up' = TRUE /\ host' = host + 1
  /\ todo' = [todo EXCEPT ![Reclaimer] = {e.seq : e \in journal}]
  /\ kept' = {}
  /\ UNCHANGED <<desk, file, sess, cur, undone, owed, spent>>

(* A head is switched off or unplugged, and comes back as it was left.     *)
HeadGone(h) ==
  /\ h \in listed /\ spent["unplugs"] < MaxUnplugs /\ Spend("unplugs")
  /\ listed' = listed \ {h}
  /\ UNCHANGED <<lit, outputs, file, host, up, sess, pass, owed, kept>>
HeadBack(h) ==
  /\ h \notin listed
  /\ listed' = listed \cup {h}
  /\ UNCHANGED <<lit, outputs, file, host, up, sess, pass, owed, kept, spent>>

-----------------------------------------------------------------------------
SessionStep(s) ==
  \/ CreateFails(s)
  \/ \E exclusive \in BOOLEAN : ListHeads(s, exclusive)
  \/ JournalPlan(s) \/ Darken(s) \/ Leave(s) \/ Unplug(s)
PassStep(t) == Undo(t) \/ UndoRefused(t) \/ ReadBack(t) \/ Settle(t)
LookStep == \E q \in DOMAIN owed : Look(q)

Next ==
  \/ \E s \in Sessions : Create(s) \/ SessionStep(s)
  \/ \E t \in Threads : PassStep(t)
  \/ LookStep
  \/ Crash \/ Restart
  \/ \E h \in Heads : HeadGone(h) \/ HeadBack(h)

Spec == Init /\ [][Next]_vars

(* Sessions end in the end, what a thread can do it does, and a host that  *)
(* died is started again.  Nobody has to plug a head back in.              *)
FairSpec ==
  /\ Spec
  /\ \A s \in Sessions : WF_vars(SessionStep(s))
  /\ \A t \in Threads : WF_vars(PassStep(t))
  /\ WF_vars(LookStep) /\ WF_vars(Restart)

-----------------------------------------------------------------------------
(* A head a stream darkened is always named by an entry on disk: whatever  *)
(* step the host dies at, the next one can find it.  An entry leaves only  *)
(* once its heads read back lit, and a session that darkens them again     *)
(* meanwhile journaled its own.                                            *)
DarkIsJournaled ==
  \A h \in Heads : ~lit[h] => \E e \in journal : h \in e.heads

(* Every entry of heads that this host wrote is in somebody's hands: its   *)
(* session's, the sibling's it was handed to, a pass's, the watch's, or a  *)
(* pass gave up on it.                                                     *)
InHand(q) ==
  \/ q \in kept \cup DOMAIN owed
  \/ \E s \in Sessions : q \in held[s]
  \/ \E t \in Threads : q \in todo[t] \cup undone[t] \cup {cur[t]}

NoEntryForgotten ==
  \A e \in journal : up /\ e.kind = "heads" /\ e.owner = host => InHand(e.seq)

(* A desk nobody can see: no output of ours, and no head plugged in is lit,*)
(* though no undo of one failed or waits for a head to come back.          *)
Blank ==
  /\ outputs = {} /\ listed # {}
  /\ \A h \in listed :
       ~lit[h] /\ \A e \in journal : h \in e.heads => e.seq \notin kept \cup DOMAIN owed

(* No session's teardown leaves the desk blank: the heads an exclusive     *)
(* session darkened are lit again before the last output that stood in for *)
(* them is dropped, whichever of the sessions leaves last and whoever of   *)
(* them darkened the heads.                                                *)
TeardownNeverBlank ==
  [][\A s \in Sessions :
       pc[s] = "unplug" /\ pc'[s] = "idle" /\ outputs # {} => ~Blank']_vars

(* linux/wlroots.rs:778 "sway must not see zero enabled outputs", of every *)
(* step, the reclaim of a dead host's journal among them.                  *)
NeverBlank == [][outputs # {} => ~Blank']_vars

LitOrGivenUp(h) == lit[h] \/ \E e \in journal : h \in e.heads /\ e.seq \in kept

(* When the sessions are over, every head that is plugged in ends up lit,  *)
(* through crashes and unplugs, unless a pass gave up on an entry for it,  *)
(* or an output of ours that would not unplug still stands in for it.      *)
DeskComesBack == <>[](kept \cap outputs = {} => \A h \in listed : LitOrGivenUp(h))
=============================================================================
