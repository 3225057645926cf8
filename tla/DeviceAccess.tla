---------------------------- MODULE DeviceAccess ----------------------------
(***************************************************************************)
(* Accounts and who may see and do what: the User rows, the per-device grants *)
(* (DevicePermission), the role helpers, the access matrix of                 *)
(* can_access_device, the permission classes and querysets the REST views are *)
(* built from, and the requests that change accounts and grants.              *)
(***************************************************************************)
EXTENDS Naturals

CONSTANTS
    User,       \* ids of accounts
    Organization,
    None,       \* Python's None: no organization
    Devices,    \* the devices that exist
    DeviceOrg,  \* DeviceOrg[d]: the organization of device d
    UserRows,   \* the User rows registration and edits may leave
    Founders,   \* the accounts there may be at the start, sets of ids
    FirstRow,   \* FirstRow[u]: the row of founder u
    FirstGrant, \* FirstGrant[u][d]: the grants of the founders
    MaxEdits    \* bound: requests that change accounts, grants or channels

Role == {"super_admin", "org_admin", "engineer", "operator", "viewer", "device"}

UserRow == [role : Role, is_superuser : BOOLEAN, org : Organization \union {None},
            is_active : BOOLEAN, is_service_account : BOOLEAN]

\* DevicePermission, at most one per user and device: none, view only, can_control.
Grant == {"none", "view", "control"}

ASSUME AccountsAssumption ==
    /\ None \notin User
    /\ UserRows \subseteq UserRow
    /\ Founders \subseteq SUBSET User
    /\ FirstRow \in [User -> UserRow]
    /\ FirstGrant \in [User -> [Devices -> Grant]]
ASSUME FleetAssumption ==
    /\ None \notin Organization
    /\ DeviceOrg \in [Devices -> Organization]
ASSUME EditsAssumption == MaxEdits \in Nat

VARIABLES
    accounts,  \* the ids that have a User row
    user,      \* the User rows
    grant,     \* the DevicePermission rows
    edits      \* requests that changed accounts, grants or channels (bounded)

accessVars == <<accounts, user, grant, edits>>

-----------------------------------------------------------------------------
(* Role helpers and the access matrix; u is a User instance, g its grants *)

is_platform_admin(u) == u.is_superuser \/ u.role \in {"super_admin", "org_admin"}

can_configure(u) == is_platform_admin(u) \/ u.role = "engineer"

can_control(u) == can_configure(u) \/ u.role = "operator"

\* Faulty form: a member of the organization views its devices without a grant.
can_access_deviceMember(u, g, d, control) ==
    \/ is_platform_admin(u)
    \/ /\ DeviceOrg[d] = u.org
       /\ control => u.role = "engineer" \/ g[d] = "control"

can_access_device(u, g, d, control) ==
    \/ is_platform_admin(u)
    \/ /\ DeviceOrg[d] = u.org
       /\ IF control THEN u.role = "engineer" \/ g[d] = "control"
                     ELSE u.role \in {"engineer", "operator"} \/ g[d] # "none"

-----------------------------------------------------------------------------
(* Permission classes and querysets of the REST views *)

\* JWTAuthentication: the account exists and is active.
is_authenticated(a) == a \in accounts /\ user[a].is_active

IsAdmin(a) == is_authenticated(a) /\ is_platform_admin(user[a])

SafeMethod == {"GET", "HEAD", "OPTIONS"}

HasDeviceAccess(u, g, d, method) ==
    is_platform_admin(u) \/ can_access_device(u, g, d, method \notin SafeMethod)

\* OrgScopedMixin.scope, the same in three apps: rows of organization org are in
\* the queryset.
InScope(u, org) == u.is_superuser \/ u.role = "super_admin" \/ org = u.org

\* UserViewSet and DevicePermissionViewSet: org admins stay in their tenant.
InTenant(u, org) == u.role = "org_admin" /\ u.org # None => org = u.org

\* OrganizationViewSet.get_queryset
OrganizationSeen(u, org) == u.role = "super_admin" \/ u.is_superuser \/ org = u.org

\* POST devices/<d>/command/: get_object with its object check, the view's own
\* check, the argument, the device's declared commands.
CommandAccepted(u, g, d, command, declared) ==
    /\ InScope(u, DeviceOrg[d])
    /\ HasDeviceAccess(u, g, d, "POST")
    /\ can_access_device(u, g, d, TRUE)
    /\ command # None
    /\ declared # {} => command \in declared

-----------------------------------------------------------------------------
(* Requests that change accounts and grants *)

AccessInit ==
    /\ accounts \in Founders
    /\ user = FirstRow
    /\ grant = [u \in User |-> IF u \in accounts THEN FirstGrant[u]
                               ELSE [d \in Devices |-> "none"]]
    /\ edits = 0

CountEdit == edits < MaxEdits /\ edits' = edits + 1

\* UserManager.create_user
create_user(role, org) ==
    [role |-> role, is_superuser |-> FALSE, org |-> org, is_active |-> TRUE,
     is_service_account |-> FALSE]

\* RegisterView: anyone, with a role and an organization or the defaults.
Register(u, row) ==
    /\ u \notin accounts
    /\ row = create_user(row.role, row.org)
    /\ accounts' = accounts \union {u}
    /\ user' = [user EXCEPT ![u] = row]
    /\ UNCHANGED <<grant, edits>>

\* UserSerializer: is_superuser is not among the fields.
Patched(u, row) == row # u /\ row.is_superuser = u.is_superuser

\* UserViewSet, PATCH.
EditUser(a, u, row) ==
    /\ IsAdmin(a)
    /\ u \in accounts
    /\ InTenant(user[a], user[u].org)
    /\ Patched(user[u], row)
    /\ CountEdit
    /\ user' = [user EXCEPT ![u] = row]
    /\ UNCHANGED <<accounts, grant>>

\* DevicePermissionViewSet: a new grant, or one in the admin's queryset changed
\* or deleted.
EditGrant(a, u, d, g) ==
    /\ IsAdmin(a)
    /\ u \in accounts
    /\ g # grant[u][d]
    /\ grant[u][d] = "none" \/ InTenant(user[a], DeviceOrg[d])
    /\ CountEdit
    /\ grant' = [grant EXCEPT ![u][d] = g]
    /\ UNCHANGED <<accounts, user>>

AccessNext ==
    \/ \E u \in User, row \in UserRows : Register(u, row)
    \/ \E a, u \in User, row \in UserRows : EditUser(a, u, row)
    \/ \E a, u \in User, d \in Devices, g \in Grant : EditGrant(a, u, d, g)

AccessTypeOK ==
    /\ accounts \subseteq User
    /\ user \in [User -> UserRow]
    /\ grant \in [User -> [Devices -> Grant]]
    /\ edits \in 0..MaxEdits
=============================================================================
