------------------------------- MODULE Funnel -------------------------------
(***************************************************************************)
(* A traffic engine of engine/src/lib.rs in the demo that Startup brings   *)
(* up: generator threads push every packet twice into a ring each;         *)
(* Engine::funnel_into_ipc pops from all rings through the consumer of     *)
(* mpsc/src/lib.rs, in rounds of Batch pops, and pushes into one           *)
(* shared-memory channel for as long as the sidecar shows a heartbeat.  A  *)
(* pop visits one ring per step, so that others push and pop in between.   *)
(*                                                                         *)
(* Both engines of the demo are given the same rings (see                  *)
(* RingsHaveOneConsumer of Startup).  The funnel of one of them is         *)
(* modelled in full.  Of the other one, its generators push into the rings *)
(* as this one's do, and its funnel may at any time take an entry out of   *)
(* any of them.  A push and a pop (crate que) are one step each.           *)
(***************************************************************************)
EXTENDS Startup, Functions, FiniteSets

CONSTANTS
  ChannelCap, \* CAP_PER_CHANNEL (8192)
  Batch,      \* pops per round (16)
  MaxPushes   \* bound on the pushes of all generators

ASSUME FunnelAssumption ==
  /\ ChannelCap \in Nat \ {0} /\ Batch \in Nat \ {0} /\ MaxPushes \in Nat

Channels == 1..Senders

VARIABLES
  queue,     \* the rings: the numbers of the pushes that are still in it
  pushes,    \* number of pushes into each ring, by either engine
  lost,      \* history: pushes into a ring that were overwritten
  taken,     \* history: pushes into a ring that the other engine's funnel took
  pc,        \* "waiting", "head", "pop", "sync" or "stopped"
  last,      \* the field of the mpsc consumer
  visited,   \* channels the running pop has visited
  round,     \* pops made in this round
  sends,     \* of them, the ones that returned a packet
  spsc,      \* history: what was pushed into the shared-memory channel, by
             \* ring
  counted,   \* STATS.tpu_sends or STATS.fwd_sends
  began,     \* history: pushes when the running pop began
  due,       \* timer.elapsed_ms() / 5000 > last_check
  beat       \* the sidecar has beaten since consumer_heartbeat last looked

popVars == <<last, visited, round, sends, spsc, began>>

ringVars == <<queue, pushes, lost, taken>>

vars == <<ringVars, pc, popVars, counted, due, beat, startVars>>

-----------------------------------------------------------------------------
(* The generators, the other engine, the clock and the sidecar's heartbeat. *)

\* A producer never waits: a full ring loses its oldest entry.
Produce(q, x) ==
  LET full == Append(q, x)
  IN  IF Len(full) > ChannelCap THEN Tail(full) ELSE full

Pushed == FoldFunction(LAMBDA m, n : m + n, 0, pushes)

\* A push evicts the oldest entry.
Overwrites(q) == Len(q) = ChannelCap

\* One of the two pushes in the loop of an engine's generator g, which waits for
\* START.
Generate(g) ==
  /\ Running("engine")
  /\ Pushed < MaxPushes
  /\ queue' = [queue EXCEPT ![g] = Produce(@, pushes[g])]
  /\ pushes' = [pushes EXCEPT ![g] = @ + 1]
  /\ lost' = [lost EXCEPT ![g] =
                IF Overwrites(queue[g]) THEN @ \cup {Head(queue[g])} ELSE @]
  /\ UNCHANGED <<taken, pc, popVars, counted, due, beat, startVars>>

\* The consumer.pop() of the other engine's funnel finds an entry in ring g.
OtherPop(g) ==
  /\ Running("engine")
  /\ queue[g] # <<>>
  /\ queue' = [queue EXCEPT ![g] = Tail(@)]
  /\ taken' = [taken EXCEPT ![g] = @ \cup {Head(queue[g])}]
  /\ UNCHANGED <<pushes, lost, pc, popVars, counted, due, beat, startVars>>

\* The timer is set when the wait for the sidecar is over.
FiveSeconds ==
  /\ pc # "waiting"
  /\ ~due /\ due' = TRUE
  /\ UNCHANGED <<ringVars, pc, popVars, counted, beat, startVars>>

Beat ==
  /\ Running("qos")
  /\ ~beat /\ beat' = TRUE
  /\ UNCHANGED <<ringVars, pc, popVars, counted, due, startVars>>

-----------------------------------------------------------------------------
(* funnel_into_ipc                                                         *)

WaitForConsumer ==
  /\ Running("engine")
  /\ pc = "waiting"
  /\ beat
  /\ beat' = FALSE
  /\ pc' = "head"
  /\ UNCHANGED <<ringVars, popVars, counted, due, startVars>>

BeginPop == visited' = 0 /\ began' = pushes

CheckConsumer ==
  /\ pc = "head"
  /\ due' = FALSE
  /\ beat' = (beat /\ ~due)
  /\ pc' = IF due /\ ~beat THEN "stopped" ELSE "pop"
  /\ round' = 0 /\ sends' = 0
  /\ BeginPop
  /\ UNCHANGED <<ringVars, last, spsc, counted, startVars>>

\* A plausible slip: only the second half of the split is visited.
VisitOrderSecondHalf == [i \in 1..(Senders - last) |-> last + i]

\* The channels in the order that pop visits them: the two halves of
\* split_at_mut(last), one after the other.
VisitOrder ==
  [i \in 1..last |-> i] \o [i \in 1..(Senders - last) |-> last + i]

\* A plausible slip: the index is not reduced.
NextLastUnreduced(seen) == last + seen

NextLast(seen) == (last + seen) % Senders

EndPop(seen) ==
  /\ last' = NextLast(seen)
  /\ round' = round + 1
  /\ pc' = IF round + 1 = Batch THEN "sync" ELSE "pop"
  /\ BeginPop

\* A plausible slip: map and find instead of find_map on a collected vector, so
\* that the rings not yet visited are popped as well and the results dropped.
PopPacketEager ==
  /\ pc = "pop"
  /\ visited < Len(VisitOrder)
  /\ LET c == VisitOrder[visited + 1]
         left == {VisitOrder[i] : i \in (visited + 1)..Len(VisitOrder)}
     IN  /\ queue[c] # <<>>
         /\ queue' = [d \in Channels |->
                        IF d \in left /\ queue[d] # <<>> THEN Tail(queue[d]) ELSE queue[d]]
         /\ spsc' = [spsc EXCEPT ![c] = Append(@, Head(queue[c]))]
  /\ sends' = sends + 1
  /\ EndPop(visited + 1)
  /\ UNCHANGED <<pushes, lost, taken, counted, due, beat, startVars>>

\* find_map reaches a channel that has a packet, which goes into the spsc.
PopPacket ==
  /\ pc = "pop"
  /\ visited < Len(VisitOrder)
  /\ LET c == VisitOrder[visited + 1]
     IN  /\ queue[c] # <<>>
         /\ queue' = [queue EXCEPT ![c] = Tail(@)]
         /\ spsc' = [spsc EXCEPT ![c] = Append(@, Head(queue[c]))]
  /\ sends' = sends + 1
  /\ EndPop(visited + 1)
  /\ UNCHANGED <<pushes, lost, taken, counted, due, beat, startVars>>

\* find_map reaches an empty channel and goes on to the next.
VisitEmpty ==
  /\ pc = "pop"
  /\ visited < Len(VisitOrder)
  /\ queue[VisitOrder[visited + 1]] = <<>>
  /\ visited' = visited + 1
  /\ UNCHANGED <<ringVars, pc, last, round, sends, spsc, counted, began, due,
                 beat, startVars>>

\* find_map has visited every channel: pop returns None.
PopNone ==
  /\ pc = "pop"
  /\ visited = Len(VisitOrder)
  /\ EndPop(visited)
  /\ UNCHANGED <<ringVars, sends, spsc, counted, due, beat, startVars>>

\* The number of packets pushed into the shared-memory channel.
Sent == Cardinality(UNION {{c} \X DOMAIN spsc[c] : c \in Channels})

\* A plausible slip: the sends of an earlier round are counted again.
SyncAll ==
  /\ pc = "sync"
  /\ counted' = counted + Sent
  /\ pc' = "head"
  /\ UNCHANGED <<ringVars, popVars, due, beat, startVars>>

\* The end of a round: sync, beat and the statistics.
Sync ==
  /\ pc = "sync"
  /\ counted' = counted + sends
  /\ pc' = "head"
  /\ UNCHANGED <<ringVars, popVars, due, beat, startVars>>

Funnel == WaitForConsumer \/ CheckConsumer \/ PopPacket \/ VisitEmpty \/ PopNone \/ Sync

Init ==
  /\ StartupInit
  /\ queue = [c \in Channels |-> <<>>]
  /\ pushes = [c \in Channels |-> 0]
  /\ lost = [c \in Channels |-> {}] /\ taken = lost
  /\ pc = "waiting"
  /\ last = 0 /\ visited = 0 /\ round = 0 /\ sends = 0
  /\ spsc = queue /\ counted = 0
  /\ began = pushes
  /\ due = FALSE /\ beat = FALSE

funnelVars == <<ringVars, pc, popVars, counted, due, beat>>

Programs == StartupNext /\ UNCHANGED funnelVars

Next ==
  \/ \E g \in Channels : Generate(g) \/ OtherPop(g)
  \/ FiveSeconds \/ Beat
  \/ Funnel
  \/ Programs

\* The programs are not descheduled for good while they start.
Fairness == \A p \in Processes : WF_vars(Proceed(p) /\ UNCHANGED funnelVars)

Spec == Init /\ [][Next]_vars /\ Fairness

-----------------------------------------------------------------------------
(* Properties                                                              *)

\* last stays a valid argument of split_at_mut (which panics beyond the length),
\* whatever number of channels each pop visits.
TypeOK ==
  /\ \A c \in Channels : Len(queue[c]) <= ChannelCap
  /\ last \in 0..(Senders - 1)
  /\ visited \in 0..Senders
  /\ round \in 0..Batch /\ sends \in 0..round

\* When pop is about to return None, what the channels hold was pushed after it
\* was called: no packet that waits at the call is overlooked, wherever last
\* splits the channels and whatever arrives behind the scan.
PopOverlooksNothing ==
  pc = "pop" /\ visited = Len(VisitOrder) =>
    \A c \in Channels : \A k \in 1..Len(queue[c]) : queue[c][k] >= began[c]

\* Across pops that start and end at different rings, what was pushed into a ring
\* reaches the spsc in that order, each push at most once, so that the packets of
\* one generator do too; and exactly those pushes are missing that were
\* overwritten in a full ring or that the other engine's funnel took.
GeneratorOrderKept ==
  \A g \in Channels :
    LET seen == spsc[g] \o queue[g]
    IN  /\ \A i \in 1..(Len(seen) - 1) : seen[i] < seen[i + 1]
        /\ Range(seen) = (0..(pushes[g] - 1)) \ (lost[g] \cup taken[g])

\* The statistics lag behind what was pushed by the sends of the running round
\* only, also when the funnel has stopped.
SendsCounted ==
  counted + (IF pc \in {"pop", "sync"} THEN sends ELSE 0) = Sent
=============================================================================
