------------------------------- MODULE Startup ------------------------------
(***************************************************************************)
(* How the programs of the demo find each other: the channel creator       *)
(* (cli/src/main.rs), the sidecar (qos/src/main.rs) and the mock validator *)
(* with its two traffic engines (engine-ipc/src/main.rs, engine/src/lib.rs *)
(* and mpsc/src/lib.rs) each run through a fixed sequence of shared-memory *)
(* joins and creations, drop their privileges and then run.  They are      *)
(* started in any order, a failed unwrap ends them, and they are started   *)
(* again; the shared memory outlives them.  The running sidecar may also   *)
(* be killed.                                                              *)
(***************************************************************************)
EXTENDS Integers, Sequences

CONSTANTS
  Senders,   \* threads_per_generator
  MaxKills   \* bound on the times that the running sidecar is killed

ASSUME StartupAssumption == Senders \in Nat \ {0} /\ MaxKills \in Nat

Processes == {"cli", "qos", "engine"}

VARIABLES
  huge,     \* --use-huge-pages, given to the sidecar and the mock validator
  sudo,     \* whether they are started with sudo
  exists,   \* <<page, name>> of the shared memory that has been created
  at,       \* number of the next step of each process, 0 if it is not running
  uid, gid, \* of each process, "root" or "user"
  ends,     \* [engine, ring]: consumer ends of the generators' rings
  kills     \* number of kills so far

configVars == <<huge, sudo>>

startVars == <<configVars, exists, at, uid, gid, ends, kills>>

-----------------------------------------------------------------------------
(* The programs                                                            *)

\* A step on the shared memory of these names.
Op(kind, page, names) == [op |-> kind, page |-> page, names |-> names]

\* join_shmem and join_or_create_shmem with the page size of the argument.
\* Consecutive joins are one step: what exists only grows, so that they succeed
\* if all channels are there at the last and fail if one is missing at its turn.
Join(names) == Op("join", "arg", names)

Create(name) == Op("create", "arg", {name})

\* initialize_huge!
Cli ==
  [i \in 1..8 |-> Op("create", "huge",
     {<<"fwd_to_qos", "tpu_to_qos", "re1_to_qos", "re2_to_qos", "qos_to_sig",
        "sig_to_qos", "sch_to_qos", "status_cache">>[i]})]

OpenStats == << Op("create", "standard", {"qos_stats"}) >>

\* A plausible slip: the group is kept.
DropUserOnly == << Op("setuid", "", {}) >>

\* A plausible slip: the user goes before the group.
DropUserFirst == << Op("setuid", "", {}), Op("setgid", "", {}) >>

\* checked_drop_privileges
DropPrivileges == << Op("setgid", "", {}), Op("setuid", "", {}) >>

Inbound == {"tpu_to_qos", "fwd_to_qos", "re1_to_qos", "re2_to_qos"}

Signals == {"sig_to_qos", "sch_to_qos"}

JoinIpc == << Join(Inbound \cup Signals), Create("qos_to_sig"), Join({"status_cache"}) >>

\* Engine::initialize: the generators' rings, whatever the engine, under the
\* same name, and then the engine's own channel.
InitializeEngine(name) == << Op("bounded", "tpu_engine", {name}), Create(name) >>

Qos == JoinIpc \o OpenStats \o DropPrivileges

EngineIpc ==
  InitializeEngine("tpu_to_qos") \o InitializeEngine("fwd_to_qos")
    \o << Create("status_cache") >> \o OpenStats
    \o << Join({"qos_to_sig"}), Create("sig_to_qos"), Create("sch_to_qos") >>
    \o DropPrivileges

Program == [cli |-> Cli, qos |-> Qos, engine |-> EngineIpc]

-----------------------------------------------------------------------------
(* The steps of a process                                                  *)

Running(p) == at[p] > Len(Program[p])

\* p is about to do an operation of this kind.
Doing(p, kind) == at[p] \in DOMAIN Program[p] /\ Program[p][at[p]].op = kind

Places(o) ==
  LET page == IF o.page # "arg" THEN o.page ELSE IF huge THEN "huge" ELSE "standard"
  IN  {page} \X o.names

Advance(p) == at' = [at EXCEPT ![p] = @ + 1]

Panic(p) == at' = [at EXCEPT ![p] = 0]

JoinShmem(p) ==
  /\ Doing(p, "join")
  /\ IF Places(Program[p][at[p]]) \subseteq exists THEN Advance(p) ELSE Panic(p)
  /\ UNCHANGED <<configVars, exists, uid, gid, ends, kills>>

CreateShmem(p) ==
  /\ Doing(p, "create")
  /\ exists' = exists \cup Places(Program[p][at[p]])
  /\ Advance(p)
  /\ UNCHANGED <<configVars, uid, gid, ends, kills>>

\* mpsc::bounded: for each sender a ring is created and joined at once.
Bounded(p) ==
  /\ Doing(p, "bounded")
  /\ LET o == Program[p][at[p]]
         rings == {<<o.page, i>> : i \in 0..(Senders - 1)}
     IN  /\ exists' = exists \cup {<<"standard", r[1], r[2]>> : r \in rings}
         /\ ends' = ends \cup {[engine |-> o.names, ring |-> r] : r \in rings}
  /\ Advance(p)
  /\ UNCHANGED <<configVars, uid, gid, kills>>

\* SUDO_USER names the user; only root may change to it.
SetGid(p) ==
  /\ Doing(p, "setgid")
  /\ IF sudo /\ uid[p] = "root"
       THEN gid' = [gid EXCEPT ![p] = "user"] /\ Advance(p)
       ELSE Panic(p) /\ UNCHANGED gid
  /\ UNCHANGED <<configVars, exists, uid, ends, kills>>

SetUid(p) ==
  /\ Doing(p, "setuid")
  /\ IF sudo /\ uid[p] = "root"
       THEN uid' = [uid EXCEPT ![p] = "user"] /\ Advance(p)
       ELSE Panic(p) /\ UNCHANGED uid
  /\ UNCHANGED <<configVars, exists, gid, ends, kills>>

Step(p) == JoinShmem(p) \/ CreateShmem(p) \/ Bounded(p) \/ SetGid(p) \/ SetUid(p)

Starter == IF sudo THEN "root" ELSE "user"

\* The consumer ends of an earlier life are gone.
Start(p) ==
  /\ at[p] = 0
  /\ Advance(p)
  /\ uid' = [uid EXCEPT ![p] = Starter] /\ gid' = [gid EXCEPT ![p] = Starter]
  /\ ends' = IF p = "engine" THEN {} ELSE ends
  /\ UNCHANGED <<configVars, exists, kills>>

Kill ==
  /\ Running("qos") /\ kills < MaxKills
  /\ kills' = kills + 1
  /\ Panic("qos")
  /\ UNCHANGED <<configVars, exists, uid, gid, ends>>

StartupInit ==
  /\ huge \in BOOLEAN /\ sudo \in BOOLEAN
  /\ exists = {} /\ ends = {} /\ kills = 0
  /\ at = [p \in Processes |-> 0]
  /\ uid = [p \in Processes |-> Starter] /\ gid = uid

StartupNext == Kill \/ \E p \in Processes : Start(p) \/ Step(p)

StartupSpec == StartupInit /\ [][StartupNext]_startVars

\* A program runs, and is started again when it has failed; a killed sidecar may
\* stay down.
Proceed(p) == Step(p) \/ ((p # "qos" \/ kills = 0) /\ Start(p))

StartupFairSpec == StartupSpec /\ \A p \in Processes : WF_startVars(Proceed(p))

-----------------------------------------------------------------------------
(* Properties                                                              *)

\* "privileges are dropped after joining the IPC channels": whatever failures and
\* restarts came before, what runs has neither root's user id nor root's primary
\* group id, the two that checked_drop_privileges sets.
RunsUnprivileged ==
  \A p \in {"qos", "engine"} : Running(p) => uid[p] = "user" /\ gid[p] = "user"

\* With huge pages and sudo, the sidecar and the mock validator come up, in
\* whatever order they and the creator were started and however often they failed
\* because a channel was not there yet.
ComesUp ==
  (huge /\ sudo) ~> (Running("engine") /\ (Running("qos") \/ kills > 0))

\* The creator "is only necessary if using huge pages. Otherwise, the sidecar will
\* use /dev/shmem/" (README.md): on standard pages, for which the creator does
\* nothing, the sidecar and the mock validator come up as well.
StandardPagesSuffice ==
  (~huge /\ sudo) ~> (Running("engine") /\ (Running("qos") \/ kills > 0))

\* "all the consumer ends held by a single consumer": no ring of the generators
\* has a second consumer.
RingsHaveOneConsumer ==
  \A e, f \in ends : e.ring = f.ring => e.engine = f.engine
=============================================================================
