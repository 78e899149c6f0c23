----------------------------- MODULE Permissions -----------------------------
(***************************************************************************)
(* The system roles and what each may do.                                  *)
(*                                                                         *)
(* The contract lists 49 permissions and the table of those every role     *)
(* holds.  Authority is only ever compared by set inclusion, so the        *)
(* permissions that exactly the same roles hold are one permission here:   *)
(* nine classes, each named for one of its members, under which a role's   *)
(* permissions include another's exactly when they do in the contract.     *)
(***************************************************************************)

PERMISSIONS == {"organization.delete",           \* billing.manage
                "organization.manage_members",   \* manage_roles, update, ...
                "audit.read", "apikey.read",     \* billing.read; webhook.read
                "scope.update", "scan.create",   \* finding.accept_risk; asset.create
                "integration.read", "evidence.read",
                "organization.read"}             \* what every role holds

ROLE_PERMISSIONS ==
    [OWNER         |-> PERMISSIONS,
     ADMIN         |-> PERMISSIONS \ {"organization.delete"},
     SECURITY_LEAD |-> {"apikey.read", "scope.update", "scan.create", "integration.read",
                        "evidence.read", "organization.read"},
     MEMBER        |-> {"scan.create", "integration.read", "evidence.read",
                        "organization.read"},
     VIEWER        |-> {"integration.read", "evidence.read", "organization.read"},
     AUDITOR       |-> {"audit.read", "apikey.read", "integration.read", "organization.read"},
     GUEST         |-> {"evidence.read", "organization.read"}]

SYSTEM_ROLES == DOMAIN ROLE_PERMISSIONS

\* assertActorMayGrant: inclusion of the sets, not a ranking of the roles.
MayGrant(actor, granted) == ROLE_PERMISSIONS[granted] \subseteq ROLE_PERMISSIONS[actor]
=============================================================================
