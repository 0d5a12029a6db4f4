------------------------ MODULE MCIpSignerStakeModel ------------------------
(* Instance of IpSignerStakeModel for TLC: four ips, of which three fit and *)
(* two survive an update, and four signers, of whom three survive.  The     *)
(* stake moves from one ip to another while the total shrinks, and one ip   *)
(* is staked in one state only.                                             *)
EXTENDS IpSignerStakeModel

Meta(ip, signer, value) == [ip |-> ip, signer |-> signer, value |-> value]

ConstMetas ==
  {Meta(1, 1, 300), Meta(2, 2, 500), Meta(3, 3, 500), Meta(4, 4, 700)}

Before == [ip \in {1, 2} |-> IF ip = 1 THEN 9 ELSE 1]

After == [ip \in {2, 3} |-> IF ip = 2 THEN 3 ELSE 1]

ConstStakings ==
  {[total_stake |-> 10, stake_lookup |-> Before],
   [total_stake |-> 4, stake_lookup |-> After]}
=============================================================================
