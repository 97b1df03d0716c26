--------------------------- MODULE AccessControl ---------------------------
(***************************************************************************)
(* AccessControl.sol: two roles, handed out and taken away by the admins.   *)
(* A call by anyone else is reverted.                                      *)
(***************************************************************************)
CONSTANTS
    Accounts,
    Deployer        \* who deploys the contract

VARIABLES admins, managers

rolesVars == <<admins, managers>>

RolesInit == admins = {Deployer} /\ managers = {}

adminOnly(sender) == sender \in admins

(* The internal calls of removeManager and removeAdmin have the same sender *)
(* and pass the same check; an admin who makes himself a manager is an      *)
(* admin no longer.                                                        *)
addAdmin(sender, newAdmin) ==
    /\ adminOnly(sender)
    /\ admins' = admins \cup {newAdmin}
    /\ managers' = managers \ {newAdmin}

addManager(sender, newManager) ==
    /\ adminOnly(sender)
    /\ admins' = admins \ {newManager}
    /\ managers' = managers \cup {newManager}

removeAdmin(sender, oldAdmin) ==
    /\ adminOnly(sender)
    /\ admins' = admins \ {oldAdmin}
    /\ UNCHANGED managers

removeManager(sender, oldManager) ==
    /\ adminOnly(sender)
    /\ managers' = managers \ {oldManager}
    /\ UNCHANGED admins

RolesNext ==
    \E sender, a \in Accounts :
        addAdmin(sender, a) \/ addManager(sender, a) \/ removeAdmin(sender, a) \/ removeManager(sender, a)

RolesSpec == RolesInit /\ [][RolesNext]_rolesVars

(* Nobody holds both roles, whatever the order in which they are handed out *)
(* and taken away (AccessControl.sol:24-44).                                *)
OneRole == admins \cap managers = {}

(* Managers have no say: once the last admin has left or become a manager,  *)
(* the roles never change again (AccessControl.sol:8-18, 31-44).             *)
LockedWithoutAdmins == [][admins # {}]_rolesVars
=============================================================================
