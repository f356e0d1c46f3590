----------------------------- MODULE MCSessions -----------------------------
(* Sessions on two users and two slots, which are interchangeable.         *)
EXTENDS Sessions, TLC
CONSTANTS ada, bob, s1, s2
MCUsers == {ada, bob}
MCSlots == {s1, s2}
(* Requests of different workloads meet in no table, or in ways that one of *)
(* the workloads already has.                                              *)
MCWorkloads == {{"login", "refresh", "logout", "updateUser"},
                {"login", "refresh", "deleteUser", "revokeSessions"},
                {"createUser", "updateUser", "deleteUser", "setUserRoles", "removeUserRole"},
                {"createAccount", "updateAccount", "rotateSecret", "deleteAccount", "serviceToken"}}
Symmetry == Permutations(MCUsers) \cup Permutations(MCSlots)
=============================================================================
