------------------------- MODULE IpSignerStakeModel -------------------------
(***************************************************************************)
(* The QoS model of model/src/models/ip_signer_stake.rs.  Its tables and   *)
(* every operation on them are those of ip_signer.rs, so that its actions  *)
(* are the ones of IpSignerModel; it adds the stakes of the ips, given     *)
(* anew with every batch and stored after the tables have been pruned, and *)
(* weighs the sum of the two scores with them.                             *)
(***************************************************************************)
EXTENDS IpSignerModel

CONSTANT
  Stakings      \* what callers pass: [total_stake, stake_lookup]

\* Callers pass the total of a cluster that the tabled ips are a part of.
ASSUME StakingsAssumption ==
  \A s \in Stakings :
    /\ s.total_stake \in Nat \ {0}
    /\ \A ip \in DOMAIN s.stake_lookup : s.stake_lookup[ip] \in 0..s.total_stake

VARIABLES
  total_stake,   \* the field
  stake_lookup,  \* the field, a function from some of the ips
  update_meta    \* argument of the running update_model

stakeVars == <<total_stake, stake_lookup, update_meta>>

svars == <<vars, stakeVars>>

StakeOf(ip) == IF ip \in DOMAIN stake_lookup THEN stake_lookup[ip] ELSE 0

\* stake_score as a fraction: numerator and denominator.
StakeScore(stake, total) == <<stake + total, total>>

SInit ==
  /\ Init
  /\ update_meta \in Stakings
  /\ total_stake = update_meta.total_stake
  /\ stake_lookup = update_meta.stake_lookup

SIpFeedback(ip) == IpFeedback(ip) /\ UNCHANGED stakeVars

SAddIpScore(ip, s) == AddIpScore(ip, s) /\ UNCHANGED stakeVars

SAddSignerScore(signer, s) == AddSignerScore(signer, s) /\ UNCHANGED stakeVars

\* The scores forward may return, times total_stake.
ForwardScores(ip, signer) ==
  {(i + j) * StakeScore(StakeOf(ip), total_stake)[1] :
     i \in Lookups(ips, ip), j \in Lookups(signers, signer)}

SForward(ip, signer) ==
  /\ phase = "idle"
  /\ ForwardScores(ip, signer) # {}
  /\ UNCHANGED svars

SUpdateModel(batch, meta) ==
  /\ UpdateModel(batch)
  /\ update_meta' = meta
  /\ UNCHANGED <<total_stake, stake_lookup>>

SPruneIps == PruneIps /\ UNCHANGED stakeVars

\* A plausible slip: an update stores the new total and keeps the old lookup.
StoreTotalOnly ==
  /\ total_stake' = update_meta.total_stake
  /\ UNCHANGED stake_lookup

\* The end of update_model.
StoreStakes ==
  /\ total_stake' = update_meta.total_stake
  /\ stake_lookup' = update_meta.stake_lookup

SPruneSigners ==
  /\ PruneSigners
  /\ IF phase' = "idle" THEN StoreStakes ELSE UNCHANGED <<total_stake, stake_lookup>>
  /\ UNCHANGED update_meta

SNext ==
  \/ \E ip \in Ips : SIpFeedback(ip)
  \/ \E ip \in Ips, signer \in Signers : SForward(ip, signer)
  \/ \E m \in Metas : SAddIpScore(m.ip, m.value)
  \/ \E m \in Metas : SAddSignerScore(m.signer, m.value)
  \/ \E batch \in [Metas -> 0..MaxRepeat], meta \in Stakings : SUpdateModel(batch, meta)
  \/ SPruneIps
  \/ SPruneSigners

SSpec == SInit /\ [][SNext]_svars

-----------------------------------------------------------------------------
(* Properties                                                              *)

\* "Multiplier bounded between 1 and 2" (the comment on stake_score).  It is the
\* quotient of two fields that every update replaces one after the other, so it
\* holds only if a total never meets the stakes of another cluster state.
MultiplierBounded ==
  \A ip \in Ips :
    LET m == StakeScore(StakeOf(ip), total_stake)
    IN  m[2] > 0 /\ m[2] <= m[1] /\ m[1] <= 2 * m[2]
=============================================================================
