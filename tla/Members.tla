------------------------------- MODULE Members -------------------------------
(***************************************************************************)
(* The members of one organization and everything that writes their        *)
(* status and their roles: invitations and role assignment by              *)
(* administrators (members.service.ts), custom roles (roles.controller.ts),*)
(* the acceptance of invitations (auth.service.ts), SCIM provisioning      *)
(* (packages/db/src/scim.ts) and sign-in through an identity provider      *)
(* (sso.ts; saml.ts does the same).  A request reads, checks and later     *)
(* writes in a READ COMMITTED transaction that locks nothing it has read.  *)
(* What it has written others do not see, and wait for, until it commits.  *)
(* X_Fault is the definition X with a plausible bug (see README.md).       *)
(***************************************************************************)
EXTENDS Integers, FiniteSets

CONSTANTS
    User, Client, Invitation, Group, Name,
    Admin,       \* organization_admin
    BuiltIn,     \* the roles every organization has, Admin among them
    Custom,      \* keys of custom roles
    Assignment,  \* the sets of roles that are asked for
    Config,      \* SCIM configurations: [default, mapping]
    SsoRoles,    \* what the identity provider's claims map to
    None,
    MaxCalls     \* bound: requests, what has provisioned everybody among them

MembersAssumption == None \notin Name /\ MaxCalls \in Nat \ {0}

VARIABLES
    role,        \* keys of the role rows
    member,      \* membership: status and membership_role rows
    invitation,  \* invitation rows
    config,      \* scim_config row
    scimUser,    \* scim_user rows: "none", "active" or "inactive"
    group,       \* scim_group rows: name (None if absent) and members
    provider,    \* identity_provider row: "none", "on" or "off"
    request,     \* what each client's request has read
    calls,
    unguarded,   \* history: did an administrator go in a way no check covers?
    rejoined,    \* history: status changed by other means than SCIM
    drifted,     \* history: roles not decided by SCIM, or from outdated rows
    outdated     \* history: invitations and roles written on an outdated check

vars == <<role, member, invitation, config, scimUser, group, provider, request,
          calls, unguarded, rejoined, drifted, outdated>>
rows == <<role, member, invitation, config, scimUser, group, provider>>
history == <<unguarded, rejoined, drifted, outdated>>

Idle == [op |-> "idle"]
NoMember == [status |-> "none", roles |-> {}]
NoGroup == [name |-> None, members |-> {}]

-----------------------------------------------------------------------------
(* What SCIM makes of groups: default roles, and those of the mapping.  A   *)
(* group's mapping key stands for its displayName and its externalId.       *)
Mapped(cf, keys) == UNION {cf.mapping[n] : n \in keys}
ResolveScimRoleKeys(cf, keys) == cf.default \cup Mapped(cf, keys)
ScimManagedRoleKeys(cf) == cf.default \cup Mapped(cf, Name)
GroupKeys(u, groups) == {groups[g].name : g \in {h \in Group : u \in groups[h].members}}
Wanted(cf, u, groups) == ResolveScimRoleKeys(cf, GroupKeys(u, groups))

(* A provisioned organization: the first user is its administrator.  Others *)
(* may be administrators as well, or SCIM has put them in every group.  The *)
(* only invitations are those the seed leaves (see Invite).                 *)
Administrators(users) ==
    /\ scimUser = [u \in User |-> "none"]
    /\ group = [g \in Group |-> NoGroup]
    /\ member = [u \in User |->
                    IF u \in users THEN [status |-> "active", roles |-> {Admin}] ELSE NoMember]
Provisioned(first, users, called) ==
    /\ config # None
    /\ scimUser = [u \in User |-> IF u \in users THEN "active" ELSE "none"]
    /\ group = [g \in Group |-> [name |-> called[g], members |-> users]]
    /\ member = [u \in User |->
                    CASE u = first -> [status |-> "active", roles |-> {Admin}]
                      [] u \in users -> [status |-> "active",
                                        roles |-> role \cap Wanted(config, u, group)]
                      [] OTHER -> NoMember]
Init ==
    /\ role = BuiltIn \cup Custom
    /\ config \in Config \cup {None}
    /\ \E first \in User : \E others \in SUBSET (User \ {first}) :
         \/ Administrators({first} \cup others) /\ calls = 0
         \/ \E called \in [Group -> Name] :
              /\ \A g, h \in Group : called[g] = called[h] => g = h
              /\ Provisioned(first, others, called) /\ calls = 1
    /\ \E seeded \in SUBSET Invitation, u \in {v \in User : member[v] = NoMember} \cup {None},
          keys \in {a \in Assignment : a \subseteq BuiltIn} :
         invitation = [i \in Invitation |->
                         IF i \in seeded /\ u # None
                         THEN [status |-> "pending", user |-> u, roles |-> keys]
                         ELSE [status |-> "none", user |-> None, roles |-> {}]]
    /\ provider = "on"
    /\ request = [c \in Client |-> Idle]
    /\ unguarded = FALSE /\ rejoined = {} /\ drifted = {} /\ outdated = {}

-----------------------------------------------------------------------------
(* A request reads and checks; its later step writes and commits.           *)
Opens(c, r) ==
    /\ request[c] = Idle /\ calls < MaxCalls
    /\ request' = [request EXCEPT ![c] = r]
    /\ calls' = calls + 1
    /\ UNCHANGED <<rows, history>>
Closes(c, op) ==
    /\ request[c].op = op
    /\ request' = [request EXCEPT ![c] = Idle]
    /\ UNCHANGED calls
AtOnce == calls < MaxCalls /\ calls' = calls + 1 /\ UNCHANGED request

(* An error or a lost client: the transaction is rolled back.               *)
Abort(c) ==
    /\ request[c] # Idle
    /\ request' = [request EXCEPT ![c] = Idle]
    /\ UNCHANGED <<rows, calls, history>>

Admins == {u \in User : member[u].status = "active" /\ Admin \in member[u].roles}
ScimUsers == {u \in User : scimUser[u] # "none"}

-----------------------------------------------------------------------------
(* Invitations.  A new one is never committed: its link token is inserted   *)
(* on a connection of its own, where the foreign key does not see the       *)
(* invitation yet, and the error rolls the transaction back.                *)
Outdates(stale, is) == outdated' = IF stale THEN outdated \cup is ELSE outdated
PendingFor(u) == {i \in Invitation : invitation[i].status = "pending" /\ invitation[i].user = u}
Invite(u, keys) ==
    /\ AtOnce
    /\ keys \subseteq role \cap BuiltIn
    /\ member[u].status # "active"
    /\ PendingFor(u) = {}
    /\ UNCHANGED <<rows, history>>

BeginRevoke(c, i) ==
    /\ invitation[i].status = "pending"
    /\ Opens(c, [op |-> "revoke", inv |-> i, saw |-> invitation[i].status])
RevokeInvitation(c) ==
    LET i == request[c].inv
    IN  /\ Closes(c, "revoke")
        /\ invitation' = [invitation EXCEPT ![i].status = "revoked"]
        /\ Outdates(invitation[i].status # request[c].saw, {i})
        /\ UNCHANGED <<role, member, config, scimUser, group, provider,
                       unguarded, rejoined, drifted>>

(* acceptInvitation reads the invitation before its transaction, with no    *)
(* organization set: only on a connection that bypasses row-level security  *)
(* does it find it.                                                         *)
Joins(u, keys) ==
    /\ member' = [member EXCEPT ![u] =
                    [status |-> "active", roles |-> @.roles \cup (keys \cap role)]]
    /\ rejoined' = rejoined \cup {u}
    /\ drifted' = drifted \cup {u}
BeginAccept_AnyStatus(c, i) ==
    /\ invitation[i].status # "none"
    /\ Opens(c, [op |-> "accept", inv |-> i, saw |-> invitation[i].status])
BeginAccept(c, i) ==
    /\ invitation[i].status = "pending"
    /\ Opens(c, [op |-> "accept", inv |-> i, saw |-> invitation[i].status])
AcceptInvitation(c) ==
    LET i == request[c].inv
    IN  /\ Closes(c, "accept")
        /\ Joins(invitation[i].user, invitation[i].roles)
        /\ invitation' = [invitation EXCEPT ![i].status = "accepted"]
        /\ Outdates(invitation[i].status # request[c].saw, {i})
        /\ UNCHANGED <<role, config, scimUser, group, provider, unguarded>>

-----------------------------------------------------------------------------
(* Role assignment.  The roles written replace all the member has.          *)
LastAdmin_CountsSuspended(u, keys) ==
    /\ Admin \in member[u].roles \ keys
    /\ Cardinality({v \in User : Admin \in member[v].roles}) <= 1
LastAdmin(u, keys) ==
    Admin \in member[u].roles \ keys /\ Cardinality(Admins) <= 1
BeginSetRoles(c, u, keys) ==
    /\ member[u].status # "none"
    /\ keys \subseteq role
    /\ ~LastAdmin(u, keys)
    /\ Opens(c, [op |-> "setRoles", user |-> u, roles |-> keys, saw |-> Admins])
SetRoles(c) ==
    LET u == request[c].user
        keys == request[c].roles
    IN  /\ Closes(c, "setRoles")
        /\ keys \subseteq role
        /\ member' = [member EXCEPT ![u].roles = keys]
        /\ unguarded' = (unguarded \/ (Admins' = {} /\ Admins # request[c].saw))
        /\ drifted' = drifted \cup {u}
        /\ UNCHANGED <<role, invitation, config, scimUser, group, provider,
                       rejoined, outdated>>

-----------------------------------------------------------------------------
(* Custom roles.  Built-in ones can be neither edited nor deleted.          *)
HeldBy(k) == {u \in User : k \in member[u].roles}
CreateRole(k) ==
    /\ AtOnce
    /\ k \in Custom \ role
    /\ role' = role \cup {k}
    /\ drifted' = User
    /\ UNCHANGED <<member, invitation, config, scimUser, group, provider,
                   unguarded, rejoined, outdated>>
BeginRemoveRole(c, k) ==
    /\ k \in Custom \cap role
    /\ HeldBy(k) = {}
    /\ Opens(c, [op |-> "removeRole", role |-> k])
RemoveRole(c) ==
    LET k == request[c].role
    IN  /\ Closes(c, "removeRole")
        /\ k \in role
        /\ role' = role \ {k}
        /\ member' = [u \in User |-> [member[u] EXCEPT !.roles = @ \ {k}]]
        /\ UNCHANGED <<invitation, config, scimUser, group, provider, history>>

-----------------------------------------------------------------------------
(* SCIM.  A call loads the configuration and its row, writes the row and    *)
(* the links, and reconciles one user after the other: it reads his links,  *)
(* then his roles, then the role rows, each as they are committed by then   *)
(* but for its own writes.                                                  *)
UpsertScimConfig(cf) ==
    /\ AtOnce
    /\ ScimManagedRoleKeys(cf) \subseteq role
    /\ config' = cf
    /\ drifted' = drifted \cup ScimUsers
    /\ UNCHANGED <<role, member, invitation, scimUser, group, provider,
                   unguarded, rejoined, outdated>>

StatusOf(active) == IF active THEN "active" ELSE "suspended"
UserRow(active) == IF active THEN "active" ELSE "inactive"
Unseen == [u \in User |-> [links |-> {}, held |-> {}, known |-> {}]]

BeginUser(c, u, what, active) ==
    /\ config # None
    /\ what \in {"createUser", "updateUser", "deleteUser"}
    /\ what = "createUser" <=> scimUser[u] = "none"
    /\ what = "deleteUser" => ~active
    /\ Opens(c, [op |-> what, user |-> u, active |-> active, was |-> "none", cf |-> config,
                 step |-> "write", users |-> {}, todo |-> {}, now |-> None, saw |-> Unseen])
BeginGroup(c, g, n, ids) ==
    /\ config # None
    /\ \A h \in Group \ {g} : group[h].name # n
    /\ Opens(c, [op |-> "putGroup", group |-> g, name |-> n, ids |-> ids, added |-> {},
                 was |-> group[g], cf |-> config,
                 step |-> "write", users |-> {}, todo |-> {}, now |-> None, saw |-> Unseen])
BeginDeleteGroup(c, g) ==
    /\ config # None /\ group[g].name # None
    /\ Opens(c, [op |-> "deleteGroup", group |-> g, was |-> group[g], cf |-> config,
                 step |-> "write", users |-> {}, todo |-> {}, now |-> None, saw |-> Unseen])

(* The groups as they are once a request commits, and the rows that are     *)
(* locked until then.                                                       *)
After(r) ==
    CASE r.op = "putGroup" ->
           [group EXCEPT ![r.group] =
              [name |-> r.name, members |-> (@.members \cup r.added) \ (r.users \ r.added)]]
      [] r.op = "deleteGroup" -> [group EXCEPT ![r.group] = NoGroup]
      [] OTHER -> group
Has(c, ops) == request[c].op \in ops /\ request[c].step # "write"
LockedGroups == {request[c].group : c \in {d \in Client : Has(d, {"putGroup", "deleteGroup"})}}
LockedUsers == {request[c].user : c \in {d \in Client : Has(d, {"createUser", "updateUser"})}}
LockedLinks ==
    {u \in User : \E c \in Client, g \in Group :
       /\ Has(c, {"putGroup", "deleteGroup"})
       /\ (u \in group[g].members) # (u \in After(request[c])[g].members)}

Goes(c, r) ==
    /\ request' = [request EXCEPT ![c] = r]
    /\ UNCHANGED <<rows, calls, history>>
WriteUser(c) ==
    LET r == request[c]
    IN  /\ r.op \in {"createUser", "updateUser"} /\ r.step = "write"
        /\ r.op = "createUser" <=> scimUser[r.user] = "none"
        /\ r.user \notin LockedUsers
        /\ Goes(c, [r EXCEPT !.step = "links", !.users = {r.user}, !.todo = {r.user},
                             !.was = member[r.user].status])
(* The members become `ids'; those added or removed since the row was read  *)
(* are linked, unlinked and reconciled.                                     *)
WriteGroup(c) ==
    LET r == request[c]
        final == r.ids \cap ScimUsers
        added == final \ r.was.members
        users == added \cup (r.was.members \ final)
    IN  /\ r.op = "putGroup" /\ r.step = "write"
        /\ (r.was.name = None) = (group[r.group].name = None)
        /\ r.group \notin LockedGroups
        /\ added \cap group[r.group].members = {}
        /\ Goes(c, [r EXCEPT !.step = "links", !.ids = final, !.added = added,
                             !.users = users, !.todo = users])
WriteDeletion(c) ==
    LET r == request[c]
    IN  /\ r.op = "deleteGroup" /\ r.step = "write"
        /\ group[r.group].name # None /\ r.group \notin LockedGroups
        /\ Goes(c, [r EXCEPT !.step = "links", !.users = r.was.members, !.todo = r.was.members])

(* Links that the request itself has written, and those that others have    *)
(* committed.                                                               *)
OwnLinks(r, u) == IF r.op = "putGroup" /\ u \in r.added THEN {r.name} ELSE {}
OtherLinks(r, u) ==
    IF r.op \in {"putGroup", "deleteGroup"}
    THEN GroupKeys(u, [group EXCEPT ![r.group] = NoGroup]) ELSE GroupKeys(u, group)
FindLinks(c, u) ==
    LET r == request[c]
        found == [r EXCEPT !.todo = @ \ {u}]
    IN  /\ r.op \in {"createUser", "updateUser", "putGroup", "deleteGroup"}
        /\ r.step = "links" /\ u \in r.todo
        /\ IF u \in ScimUsers \/ r.op = "createUser"
           THEN Goes(c, [found EXCEPT !.step = "membership", !.now = u,
                                      !.saw[u].links = OtherLinks(r, u)])
           ELSE Goes(c, found)
FindMembership(c) ==
    LET r == request[c]
    IN  /\ Has(c, {"createUser", "updateUser", "putGroup", "deleteGroup"}) /\ r.step = "membership"
        /\ Goes(c, [r EXCEPT !.step = "roles", !.saw[r.now].held = member[r.now].roles])
FindRoles(c) ==
    LET r == request[c]
    IN  /\ Has(c, {"createUser", "updateUser", "putGroup", "deleteGroup"}) /\ r.step = "roles"
        /\ Goes(c, [r EXCEPT !.step = "links", !.now = None, !.saw[r.now].known = role])

(* Only managed roles are given and taken.  A role that has gone, or that   *)
(* somebody else has given, fails the transaction.                          *)
ReconcileMemberRoles_Owns(r, u) ==
    LET saw == r.saw[u]
        wanted == ResolveScimRoleKeys(r.cf, OwnLinks(r, u) \cup saw.links)
    IN  [gives |-> (saw.known \cap wanted) \ saw.held, takes |-> saw.held \ wanted]
ReconcileMemberRoles(r, u) ==
    LET saw == r.saw[u]
        wanted == ResolveScimRoleKeys(r.cf, OwnLinks(r, u) \cup saw.links)
    IN  [gives |-> (saw.known \cap wanted) \ saw.held,
         takes |-> saw.held \cap (ScimManagedRoleKeys(r.cf) \ wanted)]
RolesFrom(r, u) ==
    LET change == ReconcileMemberRoles(r, u)
    IN  IF u \in r.users THEN (member[u].roles \ change.takes) \cup change.gives
        ELSE member[u].roles
Reconciled(r) ==
    /\ r.step = "links" /\ r.todo = {}
    /\ \A u \in r.users : ReconcileMemberRoles(r, u).gives \subseteq role \ member[u].roles

(* Does what the request has read of a user still hold when it commits?     *)
(* The keys of `others' change although they are not reconciled.            *)
Settled(r) ==
    {u \in r.users :
       /\ r.cf = config
       /\ r.saw[u] = [links |-> OtherLinks(r, u), held |-> member[u].roles, known |-> role]}
Resettles(r, others) == drifted' = (drifted \cup r.users \cup others) \ Settled(r)
TakesLastAdmin == unguarded' = (unguarded \/ (Admins # {} /\ Admins' = {}))

(* A user is created, replaced or patched; a status that is as wanted is    *)
(* left alone.                                                              *)
ApplyMembershipStatus_NewOnly(r) ==
    IF r.was # "none" THEN member[r.user].status ELSE StatusOf(r.active)
ApplyMembershipStatus(r) ==
    IF r.was = StatusOf(r.active) THEN member[r.user].status ELSE StatusOf(r.active)
Provisions(r) ==
    LET u == r.user
    IN  /\ Reconciled(r)
        /\ r.was = "none" => member[u].status = "none"
        /\ scimUser' = [scimUser EXCEPT ![u] = UserRow(r.active)]
        /\ member' = [member EXCEPT ![u] = [status |-> ApplyMembershipStatus(r),
                                            roles |-> RolesFrom(r, u)]]
        /\ rejoined' = IF r.was = StatusOf(r.active) /\ member[u].status # r.was
                       THEN rejoined \cup {u} ELSE rejoined \ {u}
        /\ Resettles(r, {})
        /\ TakesLastAdmin
        /\ UNCHANGED <<role, invitation, config, group, provider, outdated>>
ScimCreateUser(c) ==
    LET r == request[c]
    IN  Closes(c, "createUser") /\ scimUser[r.user] = "none" /\ Provisions(r)
ScimUpdateUser(c) ==
    LET r == request[c]
    IN  Closes(c, "updateUser") /\ scimUser[r.user] # "none" /\ Provisions(r)
ScimDeleteUser(c) ==
    LET u == request[c].user
    IN  /\ Closes(c, "deleteUser")
        /\ scimUser[u] # "none"
        /\ u \notin LockedUsers \cup LockedLinks
        /\ scimUser' = [scimUser EXCEPT ![u] = "none"]
        /\ group' = [g \in Group |-> [group[g] EXCEPT !.members = @ \ {u}]]
        /\ member' = [member EXCEPT ![u] =
                        [status |-> "suspended",
                         roles |-> @.roles \ ScimManagedRoleKeys(request[c].cf)]]
        /\ TakesLastAdmin
        /\ UNCHANGED <<role, invitation, config, provider, rejoined, drifted, outdated>>

(* A group is created, replaced, patched or deleted.                        *)
Regroups(r) ==
    /\ Reconciled(r)
    /\ group' = After(r)
    /\ member' = [u \in User |-> [member[u] EXCEPT !.roles = RolesFrom(r, u)]]
    /\ TakesLastAdmin
    /\ UNCHANGED <<role, invitation, config, scimUser, provider, rejoined, outdated>>
SetGroupMembers(c) ==
    LET r == request[c]
    IN  /\ Closes(c, "putGroup")
        /\ \A h \in Group \ {r.group} : group[h].name # r.name
        /\ r.added \subseteq ScimUsers
        /\ Regroups(r)
        /\ Resettles(r, IF r.name = group[r.group].name THEN {} ELSE group'[r.group].members)
ScimDeleteGroup(c) ==
    LET r == request[c]
    IN  /\ Closes(c, "deleteGroup")
        /\ Regroups(r)
        /\ Resettles(r, group[r.group].members)

(* "Remove the SCIM connection (provisioned members are kept ...)".         *)
DeleteScimConfig ==
    /\ AtOnce
    /\ config # None
    /\ LockedUsers \cap ScimUsers = {} /\ LockedLinks = {}
    /\ \A g \in LockedGroups : group[g].name = None
    /\ config' = None
    /\ scimUser' = [u \in User |-> "none"]
    /\ group' = [g \in Group |-> NoGroup]
    /\ UNCHANGED <<role, member, invitation, provider, history>>

-----------------------------------------------------------------------------
(* Sign-in through the identity provider: its row is read, the provider is  *)
(* asked, and only a person without a membership is given roles.            *)
UpsertIdentityProvider(p) ==
    /\ AtOnce
    /\ p \in {"on", "off", "none"} \ {provider}
    /\ provider' = p
    /\ UNCHANGED <<role, member, invitation, config, scimUser, group, history>>
BeginSsoLogin(c, u) ==
    /\ provider = "on"
    /\ Opens(c, [op |-> "sso", user |-> u])
CompleteSsoLogin(c) ==
    LET u == request[c].user
    IN  /\ Closes(c, "sso")
        /\ provider # "none"
        /\ SsoRoles \cap role # {}
        /\ CASE member[u].status = "none" -> Joins(u, SsoRoles)
             [] member[u].status = "suspended" -> Joins(u, {})
             [] OTHER -> UNCHANGED <<member, rejoined, drifted>>
        /\ UNCHANGED <<role, invitation, config, scimUser, group, provider,
                       unguarded, outdated>>

-----------------------------------------------------------------------------
Next ==
    \/ \E c \in Client :
         \/ Abort(c)
         \/ \E u \in User, keys \in Assignment : BeginSetRoles(c, u, keys)
         \/ SetRoles(c)
         \/ \E i \in Invitation : BeginRevoke(c, i) \/ BeginAccept(c, i)
         \/ RevokeInvitation(c)
         \/ AcceptInvitation(c)
         \/ \E k \in Custom : BeginRemoveRole(c, k)
         \/ RemoveRole(c)
         \/ \E u \in User, active \in BOOLEAN :
              \E what \in {"createUser", "updateUser", "deleteUser"} :
                BeginUser(c, u, what, active)
         \/ ScimCreateUser(c)
         \/ ScimUpdateUser(c)
         \/ ScimDeleteUser(c)
         \/ \E g \in Group :
              \/ \E n \in Name, ids \in SUBSET User : BeginGroup(c, g, n, ids)
              \/ BeginDeleteGroup(c, g)
         \/ WriteUser(c) \/ WriteGroup(c) \/ WriteDeletion(c)
         \/ \E u \in User : FindLinks(c, u)
         \/ FindMembership(c) \/ FindRoles(c)
         \/ SetGroupMembers(c)
         \/ ScimDeleteGroup(c)
         \/ \E u \in User : BeginSsoLogin(c, u)
         \/ CompleteSsoLogin(c)
    \/ \E u \in User, keys \in Assignment : Invite(u, keys)
    \/ \E k \in Custom : CreateRole(k)
    \/ \E cf \in Config : UpsertScimConfig(cf)
    \/ DeleteScimConfig
    \/ \E p \in {"on", "off", "none"} : UpsertIdentityProvider(p)

Spec == Init /\ [][Next]_vars

-----------------------------------------------------------------------------
(* Types of the rows; only existing roles are held.                         *)
TypeOK ==
    /\ role \subseteq BuiltIn \cup Custom /\ BuiltIn \subseteq role
    /\ \A u \in User :
         /\ member[u].status \in {"none", "active", "suspended"}
         /\ member[u].roles \subseteq role
    /\ \A i \in Invitation :
         invitation[i].status \in {"none", "pending", "accepted", "revoked"}
    /\ config \in Config \cup {None}
    /\ scimUser \in [User -> {"none", "active", "inactive"}]
    /\ \A g \in Group :
         /\ group[g].name \in Name \cup {None}
         /\ group[g].members \subseteq ScimUsers
    /\ provider \in {"none", "on", "off"}
    /\ calls \in 0..MaxCalls

(* "This is the last Organization Admin" (members.service.ts:188): whatever *)
(* role changes, invitations and sign-ins interleave, an active             *)
(* administrator remains, unless two assignments overlapped or SCIM, which  *)
(* has no such check, took the last one.                                    *)
AdministratorRemains == unguarded \/ Admins # {}

(* "active mirrors the membership status" (scim.ts:25), until the person    *)
(* signs in through the provider or accepts an invitation, which both       *)
(* reactivate what SCIM has suspended, be it under a request that found the *)
(* status as wanted.                                                        *)
ScimMirrorsMembership ==
    \A u \in ScimUsers \ rejoined :
       member[u].status = StatusOf(scimUser[u] = "active")

(* A provisioned member's managed roles are those of all his groups, unless *)
(* somebody else assigned roles, a group was renamed or the configuration   *)
(* changed since his last reconciliation, or a request committed one that   *)
(* had read links or roles which another request has changed meanwhile.     *)
GroupsDecideRoles ==
    config # None =>
      \A u \in ScimUsers \ drifted :
         member[u].roles \cap ScimManagedRoleKeys(config)
            = Wanted(config, u, group) \cap role

(* "roles assigned by hand are never removed" (docs/data-model.md:976): a   *)
(* SCIM call leaves every role outside the managed set where it was.        *)
ScimStep(c) == request[c] # Idle /\ "cf" \in DOMAIN request[c] /\ request'[c] = Idle
HandRolesKept ==
    [][\A c \in Client :
         ScimStep(c) =>
           \A u \in User :
              member[u].roles \ ScimManagedRoleKeys(request[c].cf)
                \subseteq member'[u].roles]_vars
ScimKeepsToItsRoles == []GroupsDecideRoles /\ HandRolesKept

(* An invitation that was accepted or revoked stays so, unless another      *)
(* request had changed what the writing request checked.                    *)
InvitationsHold ==
    [][\A i \in Invitation \ outdated' :
            invitation[i].status \in {"accepted", "revoked"}
              => invitation'[i].status = invitation[i].status]_vars
=============================================================================
