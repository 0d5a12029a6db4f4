----------------------------- MODULE SharedStats ----------------------------
(***************************************************************************)
(* The statistics page that the sidecar and the demo's terminal interface  *)
(* share (common/src/shared_stats.rs): a spin lock, a Stats struct and the *)
(* flag should_reset.  The sidecar publishes its counters with update and  *)
(* clears them if the interface asked for that; the interface calls reset  *)
(* and read.  Every access to the page is a step of its own, and the       *)
(* struct is copied in two halves, as a copy of 15 words is not atomic.    *)
(* Memory is sequentially consistent: the sidecar runs on x86_64 only      *)
(* (timer/src/lib.rs), where compare_exchange is a full barrier, and the   *)
(* compiler moves no access across one that releases.                      *)
(*                                                                         *)
(* Either process may die at any step and be started again: the page       *)
(* outlives it, and so does the lock if it held it, as nothing else ever   *)
(* frees it ("the locks used in here are not robust").                     *)
(***************************************************************************)
EXTENDS Naturals

CONSTANTS
  MaxCount,   \* bound on the events the sidecar counts
  MaxCrashes  \* bound on the processes that die

ASSUME BoundsAssumption == MaxCount \in Nat /\ MaxCrashes \in Nat

VARIABLES
  lock,          \* Lock: 0 or 1
  page,          \* SharedStats.stats, as two halves [lo, hi]
  should_reset,
  pc,            \* per process, its place in the call it is in
  stats,         \* the sidecar's own counters
  seen,          \* what the interface read last
  asked,         \* update's local should_reset
  born,          \* history: resets done when the sidecar's stats began
  epoch,         \* history: the resets done so far
  written,       \* history: born of the counters that are on the page
  counted,       \* number of events so far
  holder,        \* history: who holds the lock: "none", a process, or a "dead" one
  crashes        \* number of deaths so far

vars == <<lock, page, should_reset, pc, stats, seen, asked, born, epoch, written,
          counted, holder, crashes>>

mutex == <<lock, holder>>
shared == <<page, should_reset, written>>
own == <<stats, asked, born, counted>>       \* the sidecar's memory
view == <<seen, epoch>>                      \* the interface's

Zero == [lo |-> 0, hi |-> 0]

Init ==
  /\ lock = 0 /\ page = Zero /\ should_reset = 0
  /\ pc = [qos |-> "run", tui |-> "start"]
  /\ stats = 0 /\ seen = Zero /\ asked = 0
  /\ born = 0 /\ epoch = 0 /\ written = 0 /\ counted = 0
  /\ holder = "none" /\ crashes = 0

Goto(p, from, to) == pc[p] = from /\ pc' = [pc EXCEPT ![p] = to]

\* A plausible slip: a lock whose holder died is taken over.
TakeOver(p) ==
  /\ lock = 0 \/ holder = "dead"
  /\ lock' = 1 /\ holder' = p

\* compare_exchange(0, 1), retried until it succeeds.
Take(p) == lock = 0 /\ lock' = 1 /\ holder' = p

\* compare_exchange(1, 0).
Release == lock = 1 /\ lock' = 0 /\ holder' = "none"

-----------------------------------------------------------------------------
(* The sidecar                                                             *)

CountEvent ==
  /\ pc["qos"] = "run" /\ counted < MaxCount
  /\ counted' = counted + 1 /\ stats' = stats + 1
  /\ UNCHANGED <<mutex, shared, pc, asked, born, view, crashes>>

UpdateTake ==
  /\ Goto("qos", "run", "test") /\ Take("qos")
  /\ UNCHANGED <<shared, own, view, crashes>>

UpdateTest ==
  /\ Goto("qos", "test", IF should_reset = 0 THEN "copy_lo" ELSE "clear")
  /\ asked' = should_reset
  /\ UNCHANGED <<mutex, shared, stats, born, counted, view, crashes>>

UpdateCopyLo ==
  /\ Goto("qos", "copy_lo", "copy_hi")
  /\ page' = [page EXCEPT !.lo = stats] /\ written' = born
  /\ UNCHANGED <<mutex, should_reset, own, view, crashes>>

UpdateCopyHi ==
  /\ Goto("qos", "copy_hi", "clear")
  /\ page' = [page EXCEPT !.hi = stats]
  /\ UNCHANGED <<mutex, should_reset, written, own, view, crashes>>

UpdateClear ==
  /\ Goto("qos", "clear", "release")
  /\ should_reset' = 0
  /\ UNCHANGED <<mutex, page, written, own, view, crashes>>

\* A plausible slip: update returns with the lock taken.
UpdateKeepsLock ==
  /\ Goto("qos", "release", "return")
  /\ UNCHANGED <<mutex, shared, own, view, crashes>>

UpdateRelease ==
  /\ Goto("qos", "release", "return") /\ Release
  /\ UNCHANGED <<shared, own, view, crashes>>

\* A plausible slip: main ignores the result of update.
KeepStats == stats

\* main: if SharedStats::update(..) { stats = Stats::default(); }
AfterUpdate == IF asked = 0 THEN stats ELSE 0

UpdateReturn ==
  /\ Goto("qos", "return", "run")
  /\ stats' = AfterUpdate
  /\ born' = IF AfterUpdate = 0 THEN epoch ELSE born
  /\ UNCHANGED <<mutex, shared, asked, counted, view, crashes>>

Update ==
  \/ UpdateTake \/ UpdateTest \/ UpdateCopyLo \/ UpdateCopyHi
  \/ UpdateClear \/ UpdateRelease \/ UpdateReturn

Sidecar == CountEvent \/ Update

-----------------------------------------------------------------------------
(* The terminal interface resets once, when it starts, and then reads      *)

ResetTake ==
  /\ Goto("tui", "start", "reset_flag") /\ Take("tui")
  /\ UNCHANGED <<shared, own, view, crashes>>

ResetFlag ==
  /\ Goto("tui", "reset_flag", "reset_lo")
  /\ should_reset' = 1 /\ epoch' = epoch + 1
  /\ UNCHANGED <<mutex, page, written, own, seen, crashes>>

ResetLo ==
  /\ Goto("tui", "reset_lo", "reset_hi")
  /\ page' = [page EXCEPT !.lo = 0]
  /\ UNCHANGED <<mutex, should_reset, written, own, view, crashes>>

ResetHi ==
  /\ Goto("tui", "reset_hi", "release")
  /\ page' = [page EXCEPT !.hi = 0]
  /\ UNCHANGED <<mutex, should_reset, written, own, view, crashes>>

\* A plausible slip: read does not take the lock.
ReadUnlocked ==
  /\ Goto("tui", "run", "read_lo")
  /\ UNCHANGED <<mutex, shared, own, view, crashes>>

ReadTake ==
  /\ Goto("tui", "run", "read_lo") /\ Take("tui")
  /\ UNCHANGED <<shared, own, view, crashes>>

ReadLo ==
  /\ Goto("tui", "read_lo", "read_hi")
  /\ seen' = [seen EXCEPT !.lo = page.lo]
  /\ UNCHANGED <<mutex, shared, own, epoch, crashes>>

ReadHi ==
  /\ Goto("tui", "read_hi", "release")
  /\ seen' = [seen EXCEPT !.hi = page.hi]
  /\ UNCHANGED <<mutex, shared, own, epoch, crashes>>

TuiRelease ==
  /\ Goto("tui", "release", "run") /\ Release
  /\ UNCHANGED <<shared, own, view, crashes>>

Interface ==
  \/ ResetTake \/ ResetFlag \/ ResetLo \/ ResetHi
  \/ ReadTake \/ ReadLo \/ ReadHi \/ TuiRelease

-----------------------------------------------------------------------------
(* Deaths and restarts                                                     *)

\* A process is killed or panics; the lock keeps its value.
Crash(p) ==
  /\ crashes < MaxCrashes /\ crashes' = crashes + 1
  /\ pc[p] # "dead" /\ pc' = [pc EXCEPT ![p] = "dead"]
  /\ holder' = IF holder = p THEN "dead" ELSE holder
  /\ UNCHANGED <<lock, shared, own, view>>

\* Shmem::open_or_create maps the page that is there; the counters start at zero.
RestartSidecar ==
  /\ Goto("qos", "dead", "run")
  /\ stats' = 0 /\ asked' = 0 /\ born' = epoch
  /\ UNCHANGED <<mutex, shared, counted, view, crashes>>

RestartInterface ==
  /\ Goto("tui", "dead", "start")
  /\ seen' = Zero
  /\ UNCHANGED <<mutex, shared, own, epoch, crashes>>

Faults ==
  \/ Crash("qos") \/ Crash("tui")
  \/ RestartSidecar \/ RestartInterface

Next == Sidecar \/ Interface \/ Faults

\* A process that is in a call goes on with it: neither blocks anywhere but in
\* the loop of take, which need not succeed while the lock keeps changing hands.
\* No fairness is assumed of the events the sidecar counts, of deaths or restarts.
Fairness == WF_vars(Update) /\ WF_vars(Interface)

Spec == Init /\ [][Next]_vars /\ Fairness

-----------------------------------------------------------------------------
(* Properties                                                              *)

\* What read returned is a snapshot: both halves of the struct come from one
\* update or one reset, even if the sidecar died halfway through the copy and
\* was started again.
SnapshotConsistent ==
  pc["tui"] \in {"start", "run"} => seen.lo = seen.hi

\* A reset is never undone: whenever the lock is free, the page is zero or shows
\* counters that were begun after the last reset, even if the sidecar was about
\* to publish older ones when the reset came, or died before it dropped them.
ResetNotUndone ==
  lock = 0 => page = Zero \/ written = epoch

\* A process that took the lock frees it, unless it dies first; so a reader or a
\* writer that spins in take is only ever stuck behind a dead process.
LockReleased == \A p \in {"qos", "tui"} : holder = p ~> holder # p

\* An update, a reset or a read takes effect with its first access to the struct:
\* nobody else sees the struct before the last one.  The sidecar drops its counters
\* when it clears the flag, as it does not publish them before it has.
PageValue ==
  CASE pc["qos"] = "copy_hi" -> [lo |-> stats, hi |-> stats]
    [] pc["tui"] \in {"reset_lo", "reset_hi"} -> Zero
    [] OTHER -> page

LiveCount ==
  IF pc["qos"] = "dead" \/ (asked = 1 /\ pc["qos"] \in {"release", "return"})
    THEN 0 ELSE stats

LastShown ==
  CASE pc["tui"] = "dead" -> Zero
    [] pc["tui"] = "read_hi" -> [lo |-> seen.lo, hi |-> page.hi]
    [] OTHER -> seen

Atomic == INSTANCE StatsPage WITH
  value <- PageValue, pending <- should_reset = 1, count <- LiveCount,
  shown <- LastShown, jammed <- holder = "dead"

\* The calls of the two processes on the page have the effect of atomic ones,
\* whoever dies in which of them: the spin lock and the order of the accesses
\* implement StatsPage.
ImplementsStatsPage == Atomic!Spec
=============================================================================
