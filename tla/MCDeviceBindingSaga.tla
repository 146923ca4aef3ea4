-------------------------- MODULE MCDeviceBindingSaga --------------------------
(***************************************************************************)
(* Instances of DeviceBindingSaga for TLC.  Users, request ids, calls and  *)
(* consumers are interchangeable in the safety runs.                       *)
(***************************************************************************)
EXTENDS DeviceBindingSaga, TLC

Interchangeable ==
  Permutations(Users) \cup Permutations(Requests)
    \cup Permutations(Clients) \cup Permutations(Consumers)

=============================================================================
