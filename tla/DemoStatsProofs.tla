--------------------------- MODULE DemoStatsProofs --------------------------
(***************************************************************************)
(* What the statistics of the demo promise, for any number of events,      *)
(* packets and crashes and any batch size.  The page: the inductive        *)
(* invariant says who is in a call (PageMutex), what each place in a call  *)
(* knows of the two halves (PageWhole) and of the last reset (PageFresh).  *)
(* The counters: what each place of a publication has left to add.         *)
(***************************************************************************)
EXTENDS DemoStats, TLAPS

Halves == [lo : Nat, hi : Nat]

SidecarAt == {"run", "test", "copy_lo", "copy_hi", "clear", "release", "return", "dead"}

InterfaceAt == {"start", "run", "reset_flag", "reset_lo", "reset_hi", "read_lo",
                "read_hi", "release", "dead"}

PageType ==
  /\ lock \in {0, 1} /\ should_reset \in {0, 1} /\ asked \in {0, 1}
  /\ page \in Halves /\ seen \in Halves
  /\ pc \in [qos : SidecarAt, tui : InterfaceAt]
  /\ stats \in Nat /\ born \in Nat /\ epoch \in Nat /\ written \in Nat
  /\ counted \in Nat /\ crashes \in Nat
  /\ holder \in {"none", "qos", "tui", "dead"}

SidecarInCall == pc["qos"] \in {"test", "copy_lo", "copy_hi", "clear", "release"}

InterfaceInCall ==
  pc["tui"] \in {"reset_flag", "reset_lo", "reset_hi", "read_lo", "read_hi", "release"}

PageMutex ==
  /\ lock = 0 <=> holder = "none"
  /\ SidecarInCall => holder = "qos"
  /\ InterfaceInCall => holder = "tui"

Whole == page.lo = page.hi

PageWhole ==
  /\ lock = 0 => Whole
  /\ SidecarInCall => IF pc["qos"] = "copy_hi" THEN page.lo = stats ELSE Whole
  /\ InterfaceInCall => IF pc["tui"] = "reset_hi" THEN page.lo = 0 ELSE Whole
  /\ pc["tui"] = "read_hi" => seen.lo = page.lo
  /\ pc["tui"] \notin {"read_hi", "dead"} => seen.lo = seen.hi

Fresh == page = Zero \/ written = epoch

\* The sidecar's counters are older than the last reset only as long as it is
\* going to drop them.
PageFresh ==
  /\ \/ born = epoch
     \/ should_reset = 1
     \/ asked = 1 /\ pc["qos"] \in {"clear", "release", "return"}
     \/ pc["qos"] = "dead"
  /\ pc["qos"] \in {"copy_lo", "copy_hi"} => born = epoch
  /\ pc["qos"] = "copy_hi" => written = epoch
  /\ pc["qos"] = "clear" => asked = 1 \/ born = epoch
  /\ lock = 0 => Fresh
  /\ SidecarInCall => Fresh
  /\ pc["tui"] \in {"reset_flag", "read_lo", "read_hi", "release"} => Fresh

PageInv == PageType /\ PageMutex /\ PageWhole /\ PageFresh

USE DEF Halves, SidecarAt, InterfaceAt

\* The shared page starts in its invariant.
LEMMA PageInit == Init => PageInv
  BY DEF Init, PageInv, PageType, PageMutex, PageWhole, PageFresh, Whole, Fresh, Zero,
         SidecarInCall, InterfaceInCall

\* Every step of the two processes keeps the types of the page.
LEMMA PageTypeStep == PageType /\ [Next]_vars => PageType'
  <1> SUFFICES ASSUME PageType, [Next]_vars PROVE PageType'
      OBVIOUS
  <1> USE DEF PageType, Goto, Take, Release, mutex, shared, own, view, Zero
  <1>1. CASE CountEvent BY <1>1 DEF CountEvent
  <1>2. CASE UpdateTake BY <1>2 DEF UpdateTake
  <1>3. CASE UpdateTest BY <1>3 DEF UpdateTest
  <1>4. CASE UpdateCopyLo BY <1>4 DEF UpdateCopyLo
  <1>5. CASE UpdateCopyHi BY <1>5 DEF UpdateCopyHi
  <1>6. CASE UpdateClear BY <1>6 DEF UpdateClear
  <1>7. CASE UpdateRelease BY <1>7 DEF UpdateRelease
  <1>8. CASE UpdateReturn BY <1>8 DEF UpdateReturn, AfterUpdate
  <1>9. CASE ResetTake BY <1>9 DEF ResetTake
  <1>10. CASE ResetFlag BY <1>10 DEF ResetFlag
  <1>11. CASE ResetLo BY <1>11 DEF ResetLo
  <1>12. CASE ResetHi BY <1>12 DEF ResetHi
  <1>13. CASE ReadTake BY <1>13 DEF ReadTake
  <1>14. CASE ReadLo BY <1>14 DEF ReadLo
  <1>15. CASE ReadHi BY <1>15 DEF ReadHi
  <1>16. CASE TuiRelease BY <1>16 DEF TuiRelease
  <1>17. CASE Crash("qos") BY <1>17 DEF Crash
  <1>18. CASE Crash("tui") BY <1>18 DEF Crash
  <1>19. CASE RestartSidecar BY <1>19 DEF RestartSidecar
  <1>20. CASE RestartInterface BY <1>20 DEF RestartInterface
  <1>21. CASE UNCHANGED vars BY <1>21 DEF vars
  <1> HIDE DEF PageType, Goto, Take, Release, mutex, shared, own, view, Zero
  <1> QED BY Zenon, <1>1, <1>2, <1>3, <1>4, <1>5, <1>6, <1>7, <1>8, <1>9, <1>10, <1>11,
             <1>12, <1>13, <1>14, <1>15, <1>16, <1>17, <1>18, <1>19, <1>20, <1>21
          DEF Next, Sidecar, Update, Interface, Faults

\* Taking, releasing and dying keep the lock exclusive.
LEMMA PageMutexStep == PageType /\ PageMutex /\ [Next]_vars => PageMutex'
  <1> SUFFICES ASSUME PageType, PageMutex, [Next]_vars PROVE PageMutex'
      OBVIOUS
  <1> USE DEF PageType, PageMutex, SidecarInCall, InterfaceInCall,
              Goto, Take, Release, mutex, shared, own, view, Zero
  <1>1. CASE CountEvent BY <1>1 DEF CountEvent
  <1>2. CASE UpdateTake BY <1>2 DEF UpdateTake
  <1>3. CASE UpdateTest BY <1>3 DEF UpdateTest
  <1>4. CASE UpdateCopyLo BY <1>4 DEF UpdateCopyLo
  <1>5. CASE UpdateCopyHi BY <1>5 DEF UpdateCopyHi
  <1>6. CASE UpdateClear BY <1>6 DEF UpdateClear
  <1>7. CASE UpdateRelease BY <1>7 DEF UpdateRelease
  <1>8. CASE UpdateReturn BY <1>8 DEF UpdateReturn, AfterUpdate
  <1>9. CASE ResetTake BY <1>9 DEF ResetTake
  <1>10. CASE ResetFlag BY <1>10 DEF ResetFlag
  <1>11. CASE ResetLo BY <1>11 DEF ResetLo
  <1>12. CASE ResetHi BY <1>12 DEF ResetHi
  <1>13. CASE ReadTake BY <1>13 DEF ReadTake
  <1>14. CASE ReadLo BY <1>14 DEF ReadLo
  <1>15. CASE ReadHi BY <1>15 DEF ReadHi
  <1>16. CASE TuiRelease BY <1>16 DEF TuiRelease
  <1>17. CASE Crash("qos") BY <1>17 DEF Crash
  <1>18. CASE Crash("tui") BY <1>18 DEF Crash
  <1>19. CASE RestartSidecar BY <1>19 DEF RestartSidecar
  <1>20. CASE RestartInterface BY <1>20 DEF RestartInterface
  <1>21. CASE UNCHANGED vars BY <1>21 DEF vars
  <1> HIDE DEF PageType, PageMutex, SidecarInCall, InterfaceInCall, Goto, Take, Release,
               mutex, shared, own, view, Zero
  <1> QED BY Zenon, <1>1, <1>2, <1>3, <1>4, <1>5, <1>6, <1>7, <1>8, <1>9, <1>10, <1>11,
             <1>12, <1>13, <1>14, <1>15, <1>16, <1>17, <1>18, <1>19, <1>20, <1>21
          DEF Next, Sidecar, Update, Interface, Faults

\* The page is torn only by a writer inside the lock.
LEMMA PageWholeStep == PageType /\ PageMutex /\ PageWhole /\ [Next]_vars => PageWhole'
  <1> SUFFICES ASSUME PageType, PageMutex, PageWhole, [Next]_vars PROVE PageWhole'
      OBVIOUS
  <1> USE DEF PageType, PageMutex, PageWhole, Whole, SidecarInCall, InterfaceInCall,
              Goto, Take, Release, mutex, shared, own, view, Zero
  <1>1. CASE CountEvent BY <1>1 DEF CountEvent
  <1>2. CASE UpdateTake BY <1>2 DEF UpdateTake
  <1>3. CASE UpdateTest BY <1>3 DEF UpdateTest
  <1>4. CASE UpdateCopyLo BY <1>4 DEF UpdateCopyLo
  <1>5. CASE UpdateCopyHi BY <1>5 DEF UpdateCopyHi
  <1>6. CASE UpdateClear BY <1>6 DEF UpdateClear
  <1>7. CASE UpdateRelease BY <1>7 DEF UpdateRelease
  <1>8. CASE UpdateReturn BY <1>8 DEF UpdateReturn, AfterUpdate
  <1>9. CASE ResetTake BY <1>9 DEF ResetTake
  <1>10. CASE ResetFlag BY <1>10 DEF ResetFlag
  <1>11. CASE ResetLo BY <1>11 DEF ResetLo
  <1>12. CASE ResetHi BY <1>12 DEF ResetHi
  <1>13. CASE ReadTake BY <1>13 DEF ReadTake
  <1>14. CASE ReadLo BY <1>14 DEF ReadLo
  <1>15. CASE ReadHi BY <1>15 DEF ReadHi
  <1>16. CASE TuiRelease BY <1>16 DEF TuiRelease
  <1>17. CASE Crash("qos") BY <1>17 DEF Crash
  <1>18. CASE Crash("tui") BY <1>18 DEF Crash
  <1>19. CASE RestartSidecar BY <1>19 DEF RestartSidecar
  <1>20. CASE RestartInterface BY <1>20 DEF RestartInterface
  <1>21. CASE UNCHANGED vars BY <1>21 DEF vars
  <1> HIDE DEF PageType, PageMutex, PageWhole, Whole, SidecarInCall, InterfaceInCall,
               Goto, Take, Release, mutex, shared, own, view, Zero
  <1> QED BY Zenon, <1>1, <1>2, <1>3, <1>4, <1>5, <1>6, <1>7, <1>8, <1>9, <1>10, <1>11,
             <1>12, <1>13, <1>14, <1>15, <1>16, <1>17, <1>18, <1>19, <1>20, <1>21
          DEF Next, Sidecar, Update, Interface, Faults

\* Old counters are published only while the flag is set.
LEMMA PageFreshStep == PageInv /\ [Next]_vars => PageFresh'
  <1> SUFFICES ASSUME PageInv, [Next]_vars PROVE PageFresh'
      OBVIOUS
  <1> USE DEF PageInv, PageType, PageMutex, PageWhole, PageFresh, Whole, Fresh,
              SidecarInCall, InterfaceInCall,
              Goto, Take, Release, mutex, shared, own, view, Zero
  <1>1. CASE CountEvent BY <1>1 DEF CountEvent
  <1>2. CASE UpdateTake BY <1>2 DEF UpdateTake
  <1>3. CASE UpdateTest BY <1>3 DEF UpdateTest
  <1>4. CASE UpdateCopyLo BY <1>4 DEF UpdateCopyLo
  <1>5. CASE UpdateCopyHi BY <1>5 DEF UpdateCopyHi
  <1>6. CASE UpdateClear BY <1>6 DEF UpdateClear
  <1>7. CASE UpdateRelease BY <1>7 DEF UpdateRelease
  <1>8. CASE UpdateReturn BY <1>8 DEF UpdateReturn, AfterUpdate
  <1>9. CASE ResetTake BY <1>9 DEF ResetTake
  <1>10. CASE ResetFlag BY <1>10 DEF ResetFlag
  <1>11. CASE ResetLo BY <1>11 DEF ResetLo
  <1>12. CASE ResetHi BY <1>12 DEF ResetHi
  <1>13. CASE ReadTake BY <1>13 DEF ReadTake
  <1>14. CASE ReadLo BY <1>14 DEF ReadLo
  <1>15. CASE ReadHi BY <1>15 DEF ReadHi
  <1>16. CASE TuiRelease BY <1>16 DEF TuiRelease
  <1>17. CASE Crash("qos") BY <1>17 DEF Crash
  <1>18. CASE Crash("tui") BY <1>18 DEF Crash
  <1>19. CASE RestartSidecar BY <1>19 DEF RestartSidecar
  <1>20. CASE RestartInterface BY <1>20 DEF RestartInterface
  <1>21. CASE UNCHANGED vars BY <1>21 DEF vars
  <1> HIDE DEF PageInv, PageType, PageMutex, PageWhole, PageFresh, Whole, Fresh,
               SidecarInCall, InterfaceInCall, Goto, Take, Release, mutex, shared, own,
               view, Zero
  <1> QED BY Zenon, <1>1, <1>2, <1>3, <1>4, <1>5, <1>6, <1>7, <1>8, <1>9, <1>10, <1>11,
             <1>12, <1>13, <1>14, <1>15, <1>16, <1>17, <1>18, <1>19, <1>20, <1>21
          DEF Next, Sidecar, Update, Interface, Faults

\* Every step keeps the invariant of the page.
LEMMA PageStep == PageInv /\ [Next]_vars => PageInv'
  BY PageTypeStep, PageMutexStep, PageWholeStep, PageFreshStep DEF PageInv

\* The composition adds threads and an order to the steps on the page, and no step.
LEMMA DemoKeepsPageSteps == [DemoNext]_demoVars => [Next]_vars
  <1> SUFFICES ASSUME [DemoNext]_demoVars PROVE [Next]_vars
      OBVIOUS
  <1>1. CASE Sidecar /\ UNCHANGED engineVars BY <1>1 DEF Next
  <1>2. CASE Validator
        BY <1>2 DEF Validator, Draw, ReadReturn, OtherInterface, LoadStats, Next, Interface
  <1>3. CASE DemoFaults BY <1>3 DEF DemoFaults, ValidatorRestarts, Next, Faults
  <1>4. CASE UNCHANGED demoVars BY <1>4 DEF demoVars
  <1> QED BY <1>1, <1>2, <1>3, <1>4 DEF DemoNext

\* The invariant of the page holds in the composition.
LEMMA DemoPage == DemoSpec => []PageInv
  <1>1. DemoInit => PageInv BY PageInit DEF DemoInit
  <1>2. PageInv /\ [DemoNext]_demoVars => PageInv' BY PageStep, DemoKeepsPageSteps
  <1> QED BY <1>1, <1>2, PTL DEF DemoSpec

\* Whatever dies and restarts when, SharedStats::read never returns a struct of
\* which one half is older than the other.
THEOREM ReadsAreSnapshots == DemoSpec => []SnapshotConsistent
  <1>1. PageInv => SnapshotConsistent
        BY DEF PageInv, PageType, PageWhole, SnapshotConsistent
  <1> QED BY <1>1, DemoPage, PTL

\* No update of the sidecar ever brings back counters from before the interface's
\* last reset.
THEOREM ResetsAreNotUndone == DemoSpec => []ResetNotUndone
  <1>1. PageInv => ResetNotUndone
        BY DEF PageInv, PageFresh, Fresh, ResetNotUndone
  <1> QED BY <1>1, DemoPage, PTL

-----------------------------------------------------------------------------
(* The page as an atomic one                                               *)

\* What update has learnt of the flag is still true when it acts on it.
PageFlag ==
  /\ pc["qos"] \in {"copy_lo", "copy_hi"} => should_reset = 0 /\ asked = 0
  /\ pc["qos"] = "clear" => should_reset = asked

\* Only the holder of the lock touches the flag.
LEMMA PageFlagStep == PageType /\ PageMutex /\ PageFlag /\ [Next]_vars => PageFlag'
  <1> SUFFICES ASSUME PageType, PageMutex, PageFlag, [Next]_vars PROVE PageFlag'
      OBVIOUS
  <1> USE DEF PageType, PageMutex, PageFlag, SidecarInCall, InterfaceInCall,
              Goto, mutex, shared, own, view
  <1>1. CASE CountEvent BY <1>1 DEF CountEvent
  <1>2. CASE UpdateTake BY <1>2 DEF UpdateTake
  <1>3. CASE UpdateTest BY <1>3 DEF UpdateTest
  <1>4. CASE UpdateCopyLo BY <1>4 DEF UpdateCopyLo
  <1>5. CASE UpdateCopyHi BY <1>5 DEF UpdateCopyHi
  <1>6. CASE UpdateClear BY <1>6 DEF UpdateClear
  <1>7. CASE UpdateRelease BY <1>7 DEF UpdateRelease
  <1>8. CASE UpdateReturn BY <1>8 DEF UpdateReturn, AfterUpdate
  <1>9. CASE ResetTake BY <1>9 DEF ResetTake
  <1>10. CASE ResetFlag BY <1>10 DEF ResetFlag
  <1>11. CASE ResetLo BY <1>11 DEF ResetLo
  <1>12. CASE ResetHi BY <1>12 DEF ResetHi
  <1>13. CASE ReadTake BY <1>13 DEF ReadTake
  <1>14. CASE ReadLo BY <1>14 DEF ReadLo
  <1>15. CASE ReadHi BY <1>15 DEF ReadHi
  <1>16. CASE TuiRelease BY <1>16 DEF TuiRelease
  <1>17. CASE Crash("qos") BY <1>17 DEF Crash
  <1>18. CASE Crash("tui") BY <1>18 DEF Crash
  <1>19. CASE RestartSidecar BY <1>19 DEF RestartSidecar
  <1>20. CASE RestartInterface BY <1>20 DEF RestartInterface
  <1>21. CASE UNCHANGED vars BY <1>21 DEF vars
  <1> HIDE DEF PageType, PageMutex, PageFlag, SidecarInCall, InterfaceInCall,
               Goto, mutex, shared, own, view
  <1> QED BY Zenon, <1>1, <1>2, <1>3, <1>4, <1>5, <1>6, <1>7, <1>8, <1>9, <1>10, <1>11,
             <1>12, <1>13, <1>14, <1>15, <1>16, <1>17, <1>18, <1>19, <1>20, <1>21
          DEF Next, Sidecar, Update, Interface, Faults

\* A free page nobody has used maps to the initial atomic page.
LEMMA AtomicInit == Init => Atomic!Init
  BY DEF Init, Atomic!Init, Atomic!Copy, PageValue, LiveCount, LastShown, Zero

\* Every access to the page is one of the atomic calls or changes nothing there.
LEMMA AtomicStep == PageInv /\ PageFlag /\ [Next]_vars => [Atomic!Next]_(Atomic!vars)
  <1> SUFFICES ASSUME PageInv, PageFlag, [Next]_vars PROVE [Atomic!Next]_(Atomic!vars)
      OBVIOUS
  <1> USE DEF PageInv, PageType, PageMutex, PageWhole, PageFlag, Whole, SidecarInCall,
              InterfaceInCall, Goto, Take, Release, mutex, shared, own, view, Zero,
              PageValue, LiveCount, LastShown, Atomic!vars, Atomic!Next
  <1>1. CASE CountEvent BY <1>1 DEF CountEvent, Atomic!CountEvent
  <1>2. CASE UpdateTake BY <1>2 DEF UpdateTake
  <1>3. CASE UpdateTest BY <1>3 DEF UpdateTest
  <1>4. CASE UpdateCopyLo BY <1>4 DEF UpdateCopyLo, Atomic!Publish, Atomic!Copy
  <1>5. CASE UpdateCopyHi BY <1>5 DEF UpdateCopyHi
  <1>6. CASE UpdateClear BY <1>6 DEF UpdateClear, Atomic!TakeReset
  <1>7. CASE UpdateRelease BY <1>7 DEF UpdateRelease
  <1>8. CASE UpdateReturn BY <1>8 DEF UpdateReturn, AfterUpdate
  <1>9. CASE ResetTake BY <1>9 DEF ResetTake
  <1>10. CASE ResetFlag BY <1>10 DEF ResetFlag, Atomic!Reset, Atomic!Copy
  <1>11. CASE ResetLo BY <1>11 DEF ResetLo
  <1>12. CASE ResetHi BY <1>12 DEF ResetHi
  <1>13. CASE ReadTake BY <1>13 DEF ReadTake
  <1>14. CASE ReadLo BY <1>14 DEF ReadLo, Atomic!Read
  <1>15. CASE ReadHi BY <1>15 DEF ReadHi
  <1>16. CASE TuiRelease BY <1>16 DEF TuiRelease
  <1>17. CASE Crash("qos") BY <1>17 DEF Crash, Atomic!SidecarDies, Atomic!Jam, Atomic!Structs
  <1>18. CASE Crash("tui") BY <1>18 DEF Crash, Atomic!InterfaceDies, Atomic!Jam, Atomic!Structs, Atomic!Copy
  <1>19. CASE RestartSidecar BY <1>19 DEF RestartSidecar
  <1>20. CASE RestartInterface BY <1>20 DEF RestartInterface
  <1>21. CASE UNCHANGED vars BY <1>21 DEF vars
  <1> HIDE DEF PageInv, PageType, PageMutex, PageWhole, PageFlag, Whole, SidecarInCall,
               InterfaceInCall, Goto, Take, Release, mutex, shared, own, view, Zero,
               PageValue, LiveCount, LastShown, Atomic!vars, Atomic!Next
  <1> QED BY Zenon, <1>1, <1>2, <1>3, <1>4, <1>5, <1>6, <1>7, <1>8, <1>9, <1>10, <1>11,
             <1>12, <1>13, <1>14, <1>15, <1>16, <1>17, <1>18, <1>19, <1>20, <1>21
          DEF Next, Sidecar, Update, Interface, Faults

\* The calls on the shared page are linearizable: SharedStats with its spin lock,
\* its copies by halves and its deaths in the middle of a call implements StatsPage.
THEOREM CallsAreAtomic == DemoSpec => ImplementsStatsPage
  <1>1. DemoInit => PageFlag /\ Atomic!Init
        BY AtomicInit DEF DemoInit, Init, PageFlag
  <1>2. PageInv /\ PageFlag /\ [DemoNext]_demoVars => PageFlag' /\ [Atomic!Next]_(Atomic!vars)
        BY DemoKeepsPageSteps, PageFlagStep, AtomicStep DEF PageInv
  <1> QED BY <1>1, <1>2, DemoPage, PTL DEF DemoSpec, ImplementsStatsPage, Atomic!Spec

-----------------------------------------------------------------------------
(* The counters of the mock validator                                      *)

CountsType ==
  /\ STATS \in [Counters -> Nat] /\ local \in [Counters -> Nat]
  /\ popped \in [Counters -> Nat] /\ loaded \in [Counters -> Nat]
  /\ bankAt \in Counters \cup {"pop"} /\ loadAt \in Counters \cup {"draw"}

CountsExact == popped = Plus(STATS, local)

\* What the locals still hold, place by place.
LocalsOrdered ==
  /\ bankAt \in {"pop", "recvs"} =>
       /\ local["sends"] + local["sched"] <= local["recvs"]
       /\ STATS["sends"] + STATS["sched"] <= STATS["recvs"]
  /\ bankAt \in {"sends", "sched"} =>
       /\ local["recvs"] = 0
       /\ STATS["sends"] + local["sends"] + STATS["sched"] + local["sched"] <= STATS["recvs"]
  /\ bankAt = "sched" => local["sends"] = 0

LoadsBehind ==
  /\ loadAt # "recvs" => loaded["recvs"] <= STATS["recvs"]
  /\ loadAt \in {"sched", "draw"} => loaded["sends"] <= STATS["sends"]
  /\ loadAt = "draw" => loaded["sched"] <= STATS["sched"]

CountsInv == CountsType /\ CountsExact /\ LocalsOrdered /\ LoadsBehind

\* The counters start in their invariant.
LEMMA CountsInit == EngineInit => CountsInv
  BY DEF EngineInit, CountsInv, CountsType, CountsExact, LocalsOrdered, LoadsBehind,
         NoCounts, Plus, Counters

\* Every kind of message adds no more sends and schedulings than receptions.
LEMMA KindsType ==
  \A kind \in Kinds : /\ kind \in [Counters -> Nat]
                      /\ kind["sends"] + kind["sched"] <= kind["recvs"]
  BY DEF Kinds, Counters

\* A pop of the banking thread keeps the invariant of the counters.
LEMMA MockPopStep == CountsInv /\ MockPop => CountsInv'
  <1> SUFFICES ASSUME CountsInv, MockPop PROVE CountsInv'
      OBVIOUS
  <1> USE DEF CountsInv, CountsType, Counters
  <1>1. PICK kind \in Kinds : local' = Plus(local, kind) /\ popped' = Plus(popped, kind)
        BY DEF MockPop
  <1>2. /\ kind \in [Counters -> Nat] /\ kind["sends"] + kind["sched"] <= kind["recvs"]
        BY KindsType
  <1>3. UNCHANGED <<STATS, loadVars>> /\ bankAt = "pop" /\ bankAt' \in {"pop", "recvs"}
        BY DEF MockPop, AddsNext
  <1>4. CountsType' BY <1>1, <1>2, <1>3 DEF Plus, loadVars
  <1>5. CountsExact' BY <1>1, <1>2, <1>3 DEF Plus, CountsExact
  <1>6. LocalsOrdered' BY <1>1, <1>2, <1>3 DEF Plus, LocalsOrdered
  <1>7. LoadsBehind' BY <1>3 DEF LoadsBehind, loadVars
  <1> QED BY <1>4, <1>5, <1>6, <1>7

\* So does each fetch_add.
LEMMA MockAddStep == ASSUME NEW c \in Counters, CountsInv, MockAdd(c) PROVE CountsInv'
  <1> USE DEF CountsInv, CountsType, Counters, MockAdd
  <1>1. CountsType' BY DEF AddsNext, loadVars
  <1>2. CountsExact' BY DEF CountsExact, Plus
  <1>3. LocalsOrdered'
    <2>1. CASE c = "recvs" BY <2>1 DEF LocalsOrdered, AddsNext
    <2>2. CASE c = "sends" BY <2>2 DEF LocalsOrdered, AddsNext
    <2>3. CASE c = "sched" BY <2>3 DEF LocalsOrdered, AddsNext
    <2> QED BY <2>1, <2>2, <2>3
  <1>4. LoadsBehind' BY DEF LoadsBehind, loadVars
  <1> QED BY <1>1, <1>2, <1>3, <1>4

\* So does each load of a publication.
LEMMA LoadStep == ASSUME NEW c \in Counters, CountsInv, Load(c) PROVE CountsInv'
  BY DEF CountsInv, CountsType, Counters, Load, LoadsNext, CountsExact, Plus,
         LocalsOrdered, LoadsBehind, bankVars

\* Every step of the composition keeps the invariant of the counters.
LEMMA CountsStep == CountsInv /\ [DemoNext]_demoVars => CountsInv'
  <1> SUFFICES ASSUME CountsInv, [DemoNext]_demoVars PROVE CountsInv'
      OBVIOUS
  <1>1. CASE UNCHANGED engineVars
        BY <1>1 DEF CountsInv, CountsType, CountsExact, Plus, LocalsOrdered, LoadsBehind,
                    engineVars, bankVars, loadVars
  <1>2. CASE MockPop BY <1>2, MockPopStep
  <1>3. CASE MockIdle
        BY <1>3 DEF MockIdle, AddsNext, CountsInv, CountsType, CountsExact, Plus,
                    LocalsOrdered, LoadsBehind, loadVars, Counters
  <1>4. ASSUME NEW c \in Counters, MockAdd(c) PROVE CountsInv' BY <1>4, MockAddStep
  <1>5. ASSUME NEW c \in Counters, Load(c) PROVE CountsInv' BY <1>5, LoadStep
  <1>6. CASE Forget
        BY <1>6 DEF Forget, NoCounts, CountsInv, CountsType, CountsExact, Plus,
                    LocalsOrdered, LoadsBehind, bankVars, Counters
  <1>7. CASE ValidatorRestarts
        BY <1>7 DEF ValidatorRestarts, CountsInv, CountsType, CountsExact, LocalsOrdered,
                    LoadsBehind, NoCounts, Plus, Counters
  <1>8. CASE UNCHANGED demoVars BY <1>8, <1>1 DEF demoVars
  <1> QED BY <1>1, <1>2, <1>3, <1>4, <1>5, <1>6, <1>7, <1>8
          DEF DemoNext, Validator, MockBanking, LoadStats, Draw, ReadReturn,
              OtherInterface, DemoFaults

\* The invariant of the counters holds in the composition.
LEMMA DemoCounts == DemoSpec => []CountsInv
  <1>1. DemoInit => CountsInv BY CountsInit DEF DemoInit
  <1> QED BY <1>1, CountsStep, PTL DEF DemoSpec

\* Every packet is in exactly one place, a local or an atomic, and the order of the
\* three fetch_adds keeps the atomics consistent.
THEOREM CountersStayConsistent == DemoSpec => []CountersConsistent
  <1>1. CountsInv => CountersConsistent
        BY DEF CountsInv, CountsType, CountsExact, LocalsOrdered, CountersConsistent, Counters
  <1> QED BY <1>1, DemoCounts, PTL

\* The interface shows a difference that wrapped around only in a frame during
\* which a batch was published.
THEOREM WrapsAreTorn == DemoSpec => []WrapsOnlyWhenTorn
  <1>1. CountsInv => WrapsOnlyWhenTorn
        BY DEF CountsInv, CountsType, LocalsOrdered, LoadsBehind, WrapsOnlyWhenTorn, Counters
  <1> QED BY <1>1, DemoCounts, PTL
=============================================================================
