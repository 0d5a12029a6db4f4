---------------------------- MODULE IpSignerModel ---------------------------
(***************************************************************************)
(* The QoS model of model/src/models/ip_signer.rs: a score table for ips   *)
(* and one for signers, updated with a batch of completed transactions,    *)
(* pruned at its root entries, and lowered for an ip that sends invalid    *)
(* transactions.  The loops of prune are one step per iteration; no other  *)
(* call is made before they end (phase).  The model starts empty, as main  *)
(* makes it.                                                               *)
(***************************************************************************)
EXTENDS ScoreTable, FiniteSetsExt

CONSTANTS
  MAX_IPS,      \* const generic: capacity of the ip trees
  MAX_SIGNERS,  \* const generic: capacity of the signer trees
  Metas,        \* completed transactions [ip, signer, value]
  MaxRepeat,    \* bound: how often one of Metas occurs in a batch
  max_ips,      \* --max-ips: what prune leaves of the ip table
  max_signers,  \* --max-signers: what prune leaves of the signer table
  MinCount,     \* transactions per batch that make a score count (5)
  MaxCalls      \* bound on the number of calls

ASSUME ModelAssumption ==
  /\ MAX_IPS \in Nat /\ MAX_SIGNERS \in Nat
  /\ IsFiniteSet(Metas)
  /\ \A m \in Metas : m.ip \in Int /\ m.signer \in Int /\ m.value \in Nat
  /\ MaxRepeat \in Nat /\ MaxCalls \in Nat
  /\ max_ips \in Nat /\ max_signers \in Nat
  /\ MinCount \in Nat \ {0}

VARIABLES
  ips,        \* ip_score and ip_score_inverse
  signers,    \* signer_score and signer_score_inverse
  phase,      \* "idle", or the loop of prune that is running
  unpruned,   \* history: the inverse trees when prune was called
  calls       \* number of calls so far

vars == <<ips, signers, phase, unpruned, calls>>

Ips == {m.ip : m \in Metas}

Signers == {m.signer : m \in Metas}

\* ScoreUpdateCandidate, for the transactions m of the batch with m[field] = id.
Candidates(batch, field) ==
  LET seen == {m \in Metas : batch[m] > 0}
      With(id) == {m \in seen : m[field] = id}
      Count(id) == MapThenSumSet(LAMBDA m : batch[m], With(id))
      Sum(id) == MapThenSumSet(LAMBDA m : batch[m] * m.value, With(id))
  IN  [id \in {m[field] : m \in seen} |->
         [count |-> Count(id), average |-> Sum(id) \div Count(id)]]

Init ==
  /\ ips = EmptyTable /\ signers = EmptyTable
  /\ phase = "idle"
  /\ unpruned = [ips |-> {}, signers |-> {}]
  /\ calls = 0

Call ==
  /\ phase = "idle"
  /\ calls < MaxCalls
  /\ calls' = calls + 1

IpFeedback(ip) ==
  /\ Call
  /\ ips' = Feedback(ips, ip)
  /\ UNCHANGED <<signers, phase, unpruned>>

AddIpScore(ip, s) ==
  /\ Call
  /\ ips' = AddScore(ips, ip, s, MAX_IPS)
  /\ UNCHANGED <<signers, phase, unpruned>>

AddSignerScore(signer, s) ==
  /\ Call
  /\ signers' = AddScore(signers, signer, s, MAX_SIGNERS)
  /\ UNCHANGED <<ips, phase, unpruned>>

\* forward only reads: the product of two lookups.
Forward(ip, signer) ==
  /\ phase = "idle"
  /\ \E i \in Lookups(ips, ip), j \in Lookups(signers, signer) : i * j \in Nat
  /\ UNCHANGED vars

\* update_model up to the call of prune.
UpdateModel(batch) ==
  /\ Call
  /\ \E ip_median \in Medians(ips.inverse), signer_median \in Medians(signers.inverse) :
       /\ ips' = Update(ips, Candidates(batch, "ip"), ip_median,
                        MinCount, MAX_IPS)
       /\ signers' = Update(signers, Candidates(batch, "signer"),
                            signer_median, MinCount, MAX_SIGNERS)
  /\ phase' = "prune_ips"
  /\ unpruned' = [ips |-> ips'.inverse, signers |-> signers'.inverse]

\* A plausible slip: prune's two arguments are swapped.
PruneArgsSwapped == [num_ips |-> max_signers, num_signers |-> max_ips]

\* self.prune(prune_ips, prune_signers); main gives the two to update_model in the
\* other order.
PruneArgs == [num_ips |-> max_ips, num_signers |-> max_signers]

PruneIps ==
  /\ phase = "prune_ips"
  /\ \/ /\ Cardinality(ips.inverse) > PruneArgs.num_ips
        /\ ips' \in Prunes(ips)
        /\ UNCHANGED phase
     \/ /\ Cardinality(ips.inverse) <= PruneArgs.num_ips
        /\ phase' = "prune_signers"
        /\ UNCHANGED ips
  /\ UNCHANGED <<signers, unpruned, calls>>

PruneSigners ==
  /\ phase = "prune_signers"
  /\ \/ /\ Cardinality(signers.inverse) > PruneArgs.num_signers
        /\ signers' \in Prunes(signers)
        /\ UNCHANGED phase
     \/ /\ Cardinality(signers.inverse) <= PruneArgs.num_signers
        /\ phase' = "idle"
        /\ UNCHANGED signers
  /\ UNCHANGED <<ips, unpruned, calls>>

Next ==
  \/ \E ip \in Ips : IpFeedback(ip)
  \/ \E ip \in Ips, signer \in Signers : Forward(ip, signer)
  \/ \E m \in Metas : AddIpScore(m.ip, m.value)
  \/ \E m \in Metas : AddSignerScore(m.signer, m.value)
  \/ \E batch \in [Metas -> 0..MaxRepeat] : UpdateModel(batch)
  \/ PruneIps
  \/ PruneSigners

Spec == Init /\ [][Next]_vars

-----------------------------------------------------------------------------
(* Properties                                                              *)

\* _forward scores an unknown ip or signer by the root of the inverse tree and
\* prune decides by the inverse tree what leaves the score tree, so a stale or
\* missing inverse entry would give strangers the score of a sender long gone,
\* or prune the wrong one.  Between any two calls and prune iterations the two
\* trees of each table hold the same entries.
InverseMirrorsScores == Mirrored(ips) /\ Mirrored(signers)

\* Both trees of a table have at most n entries.
AtMost(t, n) == Cardinality(Ids(t)) <= n /\ Cardinality(t.inverse) <= n

WithinCapacity == AtMost(ips, MAX_IPS) /\ AtMost(signers, MAX_SIGNERS)

WithinLimits == AtMost(ips, max_ips) /\ AtMost(signers, max_signers)

\* The step in which update_model returns.
UpdateReturns == phase = "prune_signers" /\ phase' = "idle"

\* The trees of both tables respect their capacities at all times, and whenever an
\* update returns, those of the ips have at most --max-ips and those of the
\* signers at most --max-signers entries, although prune only measures the
\* inverse trees and its limits pass through two calls that order them
\* differently.
SizesBounded ==
  /\ []WithinCapacity
  /\ [][UpdateReturns => WithinLimits']_vars

ExtremesKept(before, t, limit) ==
  limit >= 2 => \A e \in before :
    (\A f \in before \ {e} : Below(e, f)) \/ (\A f \in before \ {e} : Below(f, e))
      => e \in t.inverse

\* prune removes from the middle: the best and the worst entry survive however
\* many roots it takes, if it is to leave at least two (the doc of prune).
PruneKeepsExtremes ==
  /\ phase # "idle" => ExtremesKept(unpruned.ips, ips, max_ips)
  /\ phase = "prune_signers" => ExtremesKept(unpruned.signers, signers, max_signers)

MaxScore == Max({m.value : m \in Metas} \cup {0})

\* However often scores are averaged, decayed and lowered, they stay between
\* zero and the best value ever seen.
ScoresWithinValues ==
  \A t \in {ips, signers} : \A id \in Ids(t) : t.score[id] \in 0..MaxScore
=============================================================================
