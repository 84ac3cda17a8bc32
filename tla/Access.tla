------------------------------- MODULE Access --------------------------------
(***************************************************************************)
(* What a request may do, and where: AuthGuard resolves a session or an    *)
(* API key into an actor with an organization and permissions,             *)
(* PermissionsGuard checks them, the handler acts later in the actor's     *)
(* organization.  Meanwhile memberships, roles and keys change.            *)
(* The permissions of the catalog fall into three classes: to read, to     *)
(* write, and to administer (API_KEY_FORBIDDEN_PERMISSIONS).               *)
(***************************************************************************)
EXTENDS Integers

CONSTANTS
    Person, Organization,
    Key,        \* API keys
    Request,
    Grants,     \* sets of permissions a custom role is given
    None,
    MaxChanges  \* bound: changes of memberships, roles and keys

AccessAssumption == Person \cap Key = {} /\ MaxChanges \in Nat

Permission == {"read", "write", "administer"}
Forbidden == {"administer"}

VARIABLES
    member,   \* memberships: status and role, by organization and person
    grants,   \* role_permission rows of each organization's custom role
    key,      \* api_key rows
    request,  \* what each request has resolved
    changes,
    held,     \* history: what each request's actor held since it began
    moved     \* history: the requests whose membership changed as they read it

vars == <<member, grants, key, request, changes, held, moved>>

Role == {"organization_admin", "auditor", "custom"}
NoKey == [state |-> "none", organization |-> None, scopes |-> {}, by |-> None]
Idle == [step |-> "idle"]
Done == [step |-> "done"]
UnderWay(q) == q \notin {Idle, Done}

(* An organization exists once it has a membership row, its creator's: rows *)
(* are suspended and never deleted.                                         *)
Administrator == [status |-> "active", role |-> "organization_admin"]
Exists(o) == \E p \in Person : member[o][p].status # "none"

Init ==
    /\ member \in [Organization -> [Person -> [status : {"active"}, role : {"organization_admin", "auditor"}]
                                              \cup {[status |-> "none", role |-> "auditor"]}]]
    /\ \A o \in Organization : Exists(o) => \E p \in Person : member[o][p] = Administrator
    /\ grants = [o \in Organization |-> {"read"}]
    /\ key = [k \in Key |-> NoKey]
    /\ request = [r \in Request |-> Idle]
    /\ changes = 0
    /\ held = [r \in Request |-> {}] /\ moved = {}

-----------------------------------------------------------------------------
(* Permissions: of the roles, and of the scopes of a key.                   *)
RolePermissions(g) ==
    [organization_admin |-> Permission, auditor |-> {"read"}, custom |-> g]
ResolvePermissions(m, g) == IF m.status = "active" THEN RolePermissions(g)[m.role] ELSE {}
ScopePermissions == [readAll |-> {"read"}, evidenceWrite |-> {"read", "write"}]
ExpandApiKeyScopes(scopes) == (UNION {ScopePermissions[s] : s \in scopes}) \ Forbidden
KeyPermissions(k) == IF k.state = "active" THEN ExpandApiKeyScopes(k.scopes) ELSE {}

(* What an actor holds, as pairs; and the requests whose membership changed *)
(* after they read it, before they read what its role grants.               *)
Holds(a, members, granted, keys) ==
    IF a \in Person
    THEN UNION {{o} \X ResolvePermissions(members[o][a], granted[o]) : o \in Organization}
    ELSE {keys[a].organization} \X KeyPermissions(keys[a])
HistoryFollows ==
    /\ held' = [r \in Request |-> IF ~UnderWay(request'[r]) THEN {}
                   ELSE held[r] \cup Holds(request'[r].actor, member', grants', key')]
    /\ moved' = {r \in Request :
                   \/ r \in moved /\ UnderWay(request'[r])
                   \/ /\ request[r].step = "grant" /\ request'[r] = request[r]
                      /\ member'[request[r].organization][request[r].actor]
                           # member[request[r].organization][request[r].actor]}

-----------------------------------------------------------------------------
(* Changes.  Those that administrators make are the acts of their requests. *)
Changes ==
    /\ changes < MaxChanges /\ changes' = changes + 1
    /\ UNCHANGED request
Expire(k) ==
    /\ key[k].state = "active"
    /\ key' = [key EXCEPT ![k].state = "expired"]
    /\ Changes /\ UNCHANGED <<member, grants>>
(* SCIM, and the provider's sign-in, write the status of a membership.      *)
SetStatus(o, p, s) ==
    /\ Exists(o) /\ member[o][p].status # s
    /\ member' = [member EXCEPT ![o][p].status = s]
    /\ Changes /\ UNCHANGED <<grants, key>>

-----------------------------------------------------------------------------
(* AuthGuard.  The session is in SignIn.  The statuses are read first, then *)
(* the membership, then what its role grants; a key's row is read once.    *)
Steps(r, from, to) ==
    /\ request[r].step = from
    /\ request' = [request EXCEPT ![r] = to]
    /\ UNCHANGED changes
ResolveActor(r, p, o) ==
    /\ Steps(r, "idle", [step |-> "pick", actor |-> p, asked |-> o])
    /\ UNCHANGED <<member, grants, key>>
IsActive(o, p) == member[o][p].status = "active"
PickOrganization(r, o) ==
    LET q == request[r]
    IN  /\ Steps(r, "pick", [step |-> "load", actor |-> q.actor, organization |-> o])
        /\ IsActive(o, q.actor)
        /\ IsActive(q.asked, q.actor) => o = q.asked
        /\ UNCHANGED <<member, grants, key>>
(* The user of the session is an active member of no organization.          *)
PickNone(r) ==
    /\ Steps(r, "pick", [step |-> "act", actor |-> request[r].actor, organization |-> None,
                         may |-> {}])
    /\ \A o \in Organization : ~IsActive(o, request[r].actor)
    /\ UNCHANGED <<member, grants, key>>
LoadMembership(r) ==
    LET q == request[r]
    IN  /\ Steps(r, "load", [step |-> "grant", actor |-> q.actor, organization |-> q.organization,
                             membership |-> member[q.organization][q.actor]])
        /\ UNCHANGED <<member, grants, key>>
LoadPermissions(r) ==
    LET q == request[r]
    IN  /\ Steps(r, "grant", [step |-> "act", actor |-> q.actor, organization |-> q.organization,
                              may |-> ResolvePermissions(q.membership, grants[q.organization])])
        /\ UNCHANGED <<member, grants, key>>
AuthenticateApiKey(r, k) ==
    /\ key[k].state = "active"
    /\ Steps(r, "idle", [step |-> "act", actor |-> k, organization |-> key[k].organization,
                         may |-> ExpandApiKeyScopes(key[k].scopes)])
    /\ UNCHANGED <<member, grants, key>>

-----------------------------------------------------------------------------
(* PermissionsGuard lets the handler run, which then acts; a request that   *)
(* it refuses goes no further.  A route that declares no permission is open *)
(* to every actor.                                                          *)
Undeclared == "none"
Permits(q, needed) == needed = Undeclared \/ needed \in q.may
Acts(r, needed) ==
    /\ request[r].step = "act" /\ Permits(request[r], needed)
    /\ changes < MaxChanges /\ changes' = changes + 1
    /\ request' = [request EXCEPT ![r] = Done]
(* actor.userId: of a key, who created it.                                  *)
User(a) == IF a \in Person THEN a ELSE key[a].by
CreateApiKey(r, k, scopes) ==
    /\ Acts(r, "administer")
    /\ key[k] = NoKey /\ scopes # {}
    /\ key' = [key EXCEPT ![k] = [state |-> "active", scopes |-> scopes,
                                  organization |-> request[r].organization,
                                  by |-> User(request[r].actor)]]
    /\ UNCHANGED <<member, grants>>
RevokeApiKey(r, k) ==
    /\ Acts(r, "administer")
    /\ key[k].organization = request[r].organization
    /\ key[k].state # "revoked"
    /\ key' = [key EXCEPT ![k].state = "revoked"]
    /\ UNCHANGED <<member, grants>>
UpdateRole(r, ps) ==
    /\ Acts(r, "administer")
    /\ grants' = [grants EXCEPT ![request[r].organization] = ps]
    /\ UNCHANGED <<member, key>>
SetRole(r, p, k) ==
    LET o == request[r].organization
    IN  /\ Acts(r, "administer")
        /\ member[o][p].status # "none"
        /\ member' = [member EXCEPT ![o][p].role = k]
        /\ UNCHANGED <<grants, key>>
(* POST /organizations declares no permission: provisionOrganization        *)
(* creates the organization, its roles and its administrator, the user.     *)
CreateOrganization(r, o) ==
    /\ Acts(r, Undeclared)
    /\ ~Exists(o)
    /\ member' = [member EXCEPT ![o][User(request[r].actor)] = Administrator]
    /\ UNCHANGED <<grants, key>>

-----------------------------------------------------------------------------
(* What the API offers those who manage keys.                               *)
KeyNext(r) ==
    \E k \in Key :
       \/ RevokeApiKey(r, k)
       \/ \E scopes \in SUBSET DOMAIN ScopePermissions : CreateApiKey(r, k, scopes)
Next ==
    /\ \/ \E k \in Key : Expire(k)
       \/ \E o \in Organization, p \in Person, s \in {"active", "suspended"} : SetStatus(o, p, s)
       \/ \E r \in Request :
            \/ \E p \in Person, o \in Organization : ResolveActor(r, p, o)
            \/ \E o \in Organization : PickOrganization(r, o) \/ CreateOrganization(r, o)
            \/ PickNone(r) \/ LoadMembership(r) \/ LoadPermissions(r)
            \/ \E k \in Key : AuthenticateApiKey(r, k)
            \/ KeyNext(r)
            \/ \E ps \in Grants : UpdateRole(r, ps)
            \/ \E p \in Person, k \in Role : SetRole(r, p, k)
    /\ HistoryFollows

Spec == Init /\ [][Next]_vars

-----------------------------------------------------------------------------
(* A request that may act in an organization may do there only what its     *)
(* actor was entitled to there at some moment since the request began,      *)
(* whatever was switched, suspended or edited between its reads; unless the *)
(* membership changed between the read of it and of its role's permissions. *)
ActsWithinItsOrganization ==
    \A r \in Request \ moved :
       request[r].step = "act" =>
         \A n \in request[r].may : <<request[r].organization, n>> \in held[r]

(* "A leaked key must never be able to escalate or persist itself"          *)
(* (scopes.ts:11): no request of a key changes keys, or the roles or        *)
(* memberships of an organization that exists.  (It may found another one,  *)
(* for the user who created the key.)                                       *)
TouchesOnlyNew(user) ==
    /\ UNCHANGED <<grants, key>>
    /\ \A o \in Organization, p \in Person :
         member'[o][p] # member[o][p] => ~Exists(o) /\ p = user
KeysDoNotAdminister ==
    [][\A r \in Request :
         UnderWay(request[r]) /\ request[r].actor \in Key /\ request'[r] = Done
           => TouchesOnlyNew(key[request[r].actor].by)]_vars
=============================================================================
