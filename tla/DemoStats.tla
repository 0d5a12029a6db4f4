------------------------------ MODULE DemoStats -----------------------------
(***************************************************************************)
(* The statistics of the demo together: the sidecar and the mock validator *)
(* as two processes that may die and restart, and the two threads of the   *)
(* latter, mockBanking and the interface.  For every frame the interface   *)
(* loads the validator's own counters, then reads the page it shares with  *)
(* the sidecar (run and draw of engine-ipc/src/tui.rs).  The counters are  *)
(* static data of the validator and die with it; the page does not.        *)
(***************************************************************************)
EXTENDS SharedStats, EngineStats

demoVars == <<vars, engineVars>>

DemoInit == Init /\ EngineInit

\* STATS.load()
LoadStats(c) == pc["tui"] = "run" /\ Load(c) /\ UNCHANGED vars

\* draw: the differences are computed, then the page is read.
Draw == loadAt = "draw" /\ ReadTake /\ UNCHANGED engineVars

\* The frame is done once the page has been read.
ReadReturn == TuiRelease /\ (IF loadAt = "draw" THEN Forget ELSE UNCHANGED engineVars)

OtherInterface ==
  /\ ResetTake \/ ResetFlag \/ ResetLo \/ ResetHi \/ ReadLo \/ ReadHi
  /\ UNCHANGED engineVars

Validator ==
  \/ pc["tui"] # "dead" /\ MockBanking /\ UNCHANGED vars
  \/ \E c \in Counters : LoadStats(c)
  \/ Draw
  \/ ReadReturn
  \/ OtherInterface

\* A restarted validator begins with new counters.
ValidatorRestarts ==
  /\ RestartInterface
  /\ STATS' = NoCounts /\ local' = NoCounts /\ popped' = NoCounts
  /\ bankAt' = "pop" /\ loaded' = NoCounts /\ loadAt' = "recvs"

DemoFaults ==
  \/ (Crash("qos") \/ Crash("tui") \/ RestartSidecar) /\ UNCHANGED engineVars
  \/ ValidatorRestarts

DemoNext ==
  \/ Sidecar /\ UNCHANGED engineVars
  \/ Validator
  \/ DemoFaults

DemoFairness ==
  /\ WF_demoVars(Update /\ UNCHANGED engineVars)
  /\ WF_demoVars(Draw \/ ReadReturn \/ OtherInterface)

DemoSpec == DemoInit /\ [][DemoNext]_demoVars /\ DemoFairness
=============================================================================
