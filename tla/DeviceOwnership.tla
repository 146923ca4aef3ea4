---------------------------- MODULE DeviceOwnership ----------------------------
(***************************************************************************)
(* What binding a device promises across the two databases: a device has   *)
(* one owner at a time, who took it when it was free and gives it back.    *)
(***************************************************************************)
CONSTANTS Devices, Users, Nobody

VARIABLE owner    \* owner[d]: the user who holds the device, or Nobody

OwnershipInit == owner \in [Devices -> Users \cup {Nobody}]

Take(d, u) ==
  /\ owner[d] = Nobody
  /\ owner' = [owner EXCEPT ![d] = u]

GiveBack(d) ==
  /\ owner[d] # Nobody
  /\ owner' = [owner EXCEPT ![d] = Nobody]

OwnershipNext == \E d \in Devices : GiveBack(d) \/ \E u \in Users : Take(d, u)

OwnershipSpec == OwnershipInit /\ [][OwnershipNext]_owner

=============================================================================
