---------------------------- MODULE ScimDirectory ----------------------------
(***************************************************************************)
(* The SCIM resources as the identity provider sees them (controllers of   *)
(* modules/scim, packages/domain/src/access/scim.ts): requests are         *)
(* authenticated, parsed, patched and answered one at a time; a request    *)
(* whose answer was lost is sent again, and lists are read page by page.   *)
(* What a request does to memberships, and how requests interleave, is in  *)
(* Members.  A user row stands for its e-mail address; its names and       *)
(* externalId behave as displayName does.                                  *)
(***************************************************************************)
EXTENDS Integers, FiniteSets, SequencesExt

CONSTANTS
    User, Group,
    Text,        \* user names, display names
    UserPatch, GroupPatch,  \* sequences of [op, path, value] that are sent
    Count,       \* the page size asked for; with 0 only the total is
    None,
    MaxCalls     \* bound: requests and configuration changes

UserRow == [userName : Text, active : BOOLEAN, displayName : Text \cup {None}]
GroupRow == [name : Text, members : SUBSET User]

ScimDirectoryAssumption ==
    /\ Count \in Nat \ {0} /\ MaxCalls \in Nat
    /\ (\A r \in UserRow : r # None) /\ \A r \in GroupRow : r # None
    /\ None \notin Text \cup {"userName", "active", "members", "members[value eq]"}
    /\ \A active \in BOOLEAN : active # None

VARIABLES
    scim,    \* scim_config: configured, enabled, the token's number (0: none)
    row,     \* scim_user rows
    created, \* the moment each row was created; 0 without a row
    group,   \* scim_group rows
    last,    \* the last request that was carried out
    walk,    \* a provider's reading of the list of users
    calls

vars == <<scim, row, created, group, last, walk, calls>>
rows == <<row, created, group>>
NoWalk == [filter |-> "none", next |-> 0, seen |-> {}, throughout |-> {},
           shrunk |-> FALSE, tied |-> FALSE]

Init ==
    /\ scim = [configured |-> TRUE, enabled |-> TRUE, token |-> 1]
    /\ \E us \in SUBSET User :
         /\ created \in {f \in [User -> 0..Cardinality(us)] :
                          \A u \in User : f[u] = 0 <=> u \notin us}
         /\ row = [u \in User |-> IF u \in us
                     THEN [userName |-> u, active |-> TRUE, displayName |-> None] ELSE None]
    /\ group = [g \in Group |-> None]
    /\ last = None /\ walk = NoWalk /\ calls = 0

Spends == calls < MaxCalls /\ calls' = calls + 1

-----------------------------------------------------------------------------
(* The connection.  A new token takes the place of the old one; removing    *)
(* the connection removes the rows.                                         *)
UpsertScimConfig(on) ==
    /\ Spends
    /\ scim' = [configured |-> TRUE, enabled |-> on,
                token |-> IF scim.configured THEN scim.token ELSE 0]
    /\ UNCHANGED <<rows, last, walk>>
RotateScimToken ==
    /\ Spends /\ scim.configured
    /\ scim' = [scim EXCEPT !.token = calls + 2]
    /\ UNCHANGED <<rows, last, walk>>
Authenticated(token) ==
    scim.configured /\ scim.enabled /\ token # 0 /\ token = scim.token

-----------------------------------------------------------------------------
(* Lists.  A filter that is not `attribute eq "value"' is no filter, one on *)
(* an attribute the service does not know matches nothing.                  *)
Matches(filter, user) ==
    CASE filter = "none" -> TRUE
      [] filter = "active" -> user.active
      [] OTHER -> FALSE
Listed(filter) == {u \in User : row[u] # None /\ Matches(filter, row[u])}
(* A list is ordered by createdAt and by nothing else: rows of one moment   *)
(* may come in either order, and in another in the next answer.             *)
Firsts(all, k) ==
    {f \in SUBSET all : /\ Cardinality(f) = k \/ (f = all /\ Cardinality(all) < k)
                        /\ \A u \in f, v \in all \ f : created[u] <= created[v]}
Ties(f, all) == \E u \in f, v \in all \ f : created[u] = created[v]
Cuts(all, startIndex, count) ==
    {cut \in Firsts(all, startIndex - 1) \X Firsts(all, startIndex - 1 + count) :
        cut[1] \subseteq cut[2]}

(* The provider goes on by as many as it was given, until totalResults.     *)
BeginWalk(token, filter) ==
    /\ Authenticated(token) /\ walk.next = 0 /\ walk.seen = {}
    /\ walk' = [NoWalk EXCEPT !.filter = filter, !.next = 1,
                              !.throughout = Listed(filter)]
    /\ UNCHANGED <<scim, rows, last, calls>>
ScimListUsers(token) ==
    LET all == Listed(walk.filter)
    IN  /\ Authenticated(token) /\ walk.next > 0
        /\ \E cut \in Cuts(all, walk.next, Count) :
             LET page == cut[2] \ cut[1]
                 after == walk.next + Cardinality(page)
             IN  walk' = [walk EXCEPT
                            !.seen = @ \cup page,
                            !.next = IF page = {} \/ after > Cardinality(all) THEN 0 ELSE after,
                            !.tied = @ \/ Ties(cut[1], all)]
        /\ UNCHANGED <<scim, rows, last, calls>>
WalkFollows ==
    LET was == Listed(walk.filter)
        is == {u \in User : row'[u] # None /\ Matches(walk.filter, row'[u])}
    IN  walk' = IF walk.next = 0 THEN walk
                ELSE [walk EXCEPT !.throughout = @ \cap is,
                                  !.shrunk = @ \/ ~(was \subseteq is)]

-----------------------------------------------------------------------------
(* PATCH.  An operation on a path assigns one attribute, one without a path *)
(* those of its value; None stands for a value of a wrong type.             *)
NormalizeScimPatch(ops) ==
    /\ ops # <<>>
    /\ \A i \in DOMAIN ops :
         /\ ops[i].op \in {"add", "remove", "replace"}
         /\ ops[i].op = "remove" => ops[i].path # None
Given(o) ==
    IF o.path = None THEN o.value
    ELSE [a \in {o.path} |-> IF o.op # "remove" \/ a = "userName" THEN o.value
                             ELSE IF a = "active" THEN FALSE ELSE None]
ApplyUserOperation(m, o) ==
    LET v == Given(o)
        has(a) == a \in DOMAIN v /\ v[a] # None
    IN  [userName |-> IF has("userName") THEN v.userName ELSE m.userName,
         active |-> IF has("active") THEN v.active ELSE m.active,
         displayName |-> IF "displayName" \in DOMAIN v THEN v.displayName ELSE m.displayName]
ApplyScimUserPatch(m, ops) == FoldLeft(ApplyUserOperation, m, ops)

(* members[value eq "id"] removes one member, whatever the operation is     *)
(* unless it adds; `remove' of no members in particular removes all.        *)
ApplyMembers(op, members, ids) ==
    CASE op = "replace" -> ids
      [] op = "add" -> members \cup ids
      [] op = "remove" -> IF ids = {} THEN {} ELSE members \ ids
ApplyGroupOperation(s, o) ==
    LET v == IF o.path = None THEN o.value ELSE [a \in {o.path} |-> o.value]
    IN  IF o.path = "members[value eq]"
        THEN IF o.op = "add" THEN s ELSE [s EXCEPT !.members = @ \ o.value]
        ELSE [name |-> IF "displayName" \in DOMAIN v /\ v.displayName # None /\ o.op # "remove"
                       THEN v.displayName ELSE s.name,
              members |-> IF "members" \in DOMAIN v
                          THEN ApplyMembers(o.op, s.members, v.members) ELSE s.members]
ApplyScimGroupPatch(s, ops) == FoldLeft(ApplyGroupOperation, s, ops)

-----------------------------------------------------------------------------
(* Requests.  One that is refused changes nothing.                          *)
Serves(token, request) ==
    /\ Authenticated(token)
    /\ Spends
    /\ last' = request
    /\ UNCHANGED scim
NameIsFree(u, n) == \A v \in User \ {u} : row[v] # None => row[v].userName # n
PersistUser(u, next) ==
    /\ next.userName # row[u].userName => NameIsFree(u, next.userName)
    /\ row' = [row EXCEPT ![u] = next]
    /\ UNCHANGED <<created, group>>

ScimCreateUser(token, u, n) ==
    /\ Serves(token, [op |-> "createUser", user |-> u, name |-> n])
    /\ NameIsFree(u, n) /\ row[u] = None
    /\ row' = [row EXCEPT ![u] = [userName |-> n, active |-> TRUE, displayName |-> None]]
    /\ \E v \in User : \E now \in {created[v], created[v] + 1} \ {0} :
         /\ \A w \in User : created[w] <= now
         /\ created' = [created EXCEPT ![u] = now]
    /\ UNCHANGED group
    /\ WalkFollows
ScimReplaceUser(token, u, n, active) ==
    /\ Serves(token, [op |-> "replaceUser", user |-> u, name |-> n, active |-> active])
    /\ row[u] # None
    /\ PersistUser(u, [userName |-> n, active |-> active, displayName |-> None])
    /\ WalkFollows
ScimPatchUser(token, u, ops) ==
    /\ NormalizeScimPatch(ops)
    /\ Serves(token, [op |-> "patchUser", user |-> u, ops |-> ops])
    /\ row[u] # None
    /\ PersistUser(u, ApplyScimUserPatch(row[u], ops))
    /\ WalkFollows
ScimDeleteUser(token, u) ==
    /\ Serves(token, [op |-> "deleteUser", user |-> u])
    /\ row[u] # None
    /\ row' = [row EXCEPT ![u] = None]
    /\ created' = [created EXCEPT ![u] = 0]
    /\ group' = [g \in Group |-> IF group[g] = None THEN None
                                 ELSE [group[g] EXCEPT !.members = @ \ {u}]]
    /\ WalkFollows

(* A group keeps the members that are users of the organization.            *)
Valid(ids) == {u \in ids : row[u] # None}
GroupIs(g, s) ==
    /\ \A h \in Group \ {g} : group[h] # None => group[h].name # s.name
    /\ group' = [group EXCEPT ![g] = [s EXCEPT !.members = Valid(@)]]
    /\ UNCHANGED <<row, created, walk>>
ScimCreateGroup(token, g, n, ids) ==
    /\ Serves(token, [op |-> "createGroup", group |-> g, name |-> n, ids |-> ids])
    /\ group[g] = None
    /\ \A h \in Group : group[h] # None => group[h].name # n
    /\ GroupIs(g, [name |-> n, members |-> ids])
ScimReplaceGroup(token, g, n, ids) ==
    /\ Serves(token, [op |-> "replaceGroup", group |-> g, name |-> n, ids |-> ids])
    /\ group[g] # None
    /\ GroupIs(g, [name |-> n, members |-> ids])
ScimPatchGroup(token, g, ops) ==
    /\ NormalizeScimPatch(ops)
    /\ Serves(token, [op |-> "patchGroup", group |-> g, ops |-> ops])
    /\ group[g] # None
    /\ GroupIs(g, ApplyScimGroupPatch(group[g], ops))
ScimDeleteGroup(token, g) ==
    /\ Serves(token, [op |-> "deleteGroup", group |-> g])
    /\ group[g] # None
    /\ group' = [group EXCEPT ![g] = None]
    /\ UNCHANGED <<row, created, walk>>

DeleteScimConfig ==
    /\ Spends /\ scim.configured
    /\ scim' = [configured |-> FALSE, enabled |-> FALSE, token |-> 0]
    /\ row' = [u \in User |-> None] /\ created' = [u \in User |-> 0]
    /\ group' = [g \in Group |-> None]
    /\ last' = None
    /\ WalkFollows

-----------------------------------------------------------------------------
(* What the API offers those who manage security.                           *)
SettingsNext ==
    \/ \E on \in BOOLEAN : UpsertScimConfig(on)
    \/ RotateScimToken
    \/ DeleteScimConfig
Next ==
    \/ SettingsNext
    \/ \E token \in 0..MaxCalls + 1 :
         \/ \E f \in {"none", "active", "unknown"} : BeginWalk(token, f)
         \/ ScimListUsers(token)
         \/ \E u \in User :
              \/ \E n \in Text : ScimCreateUser(token, u, n)
              \/ \E n \in Text, active \in BOOLEAN : ScimReplaceUser(token, u, n, active)
              \/ \E ops \in UserPatch : ScimPatchUser(token, u, ops)
              \/ ScimDeleteUser(token, u)
         \/ \E g \in Group :
              \/ \E n \in Text, ids \in SUBSET User :
                   ScimCreateGroup(token, g, n, ids) \/ ScimReplaceGroup(token, g, n, ids)
              \/ \E ops \in GroupPatch : ScimPatchGroup(token, g, ops)
              \/ ScimDeleteGroup(token, g)

Spec == Init /\ [][Next]_vars

-----------------------------------------------------------------------------
(* Rows: names are unique, what is in the list has a date, and groups hold  *)
(* users of the organization.                                               *)
Sound ==
    /\ \A u \in User :
         /\ row[u] # None => NameIsFree(u, row[u].userName)
         /\ row[u] = None <=> created[u] = 0
    /\ \A g \in Group : group[g] # None => group[g].members \subseteq {u \in User : row[u] # None}

(* `startIndex' and `count' (docs/data-model.md:956): a provider that has   *)
(* read all pages has seen every user that matched throughout, unless one   *)
(* dropped out meanwhile and moved the rest up by a place, or a page began  *)
(* between two users of one moment, whose order is not settled.             *)
PagesAreComplete ==
    walk.next = 0 /\ ~walk.shrunk /\ ~walk.tied => walk.throughout \subseteq walk.seen

(* A request the provider repeats, having got no answer, changes nothing    *)
(* that its first delivery had not changed.                                 *)
RepeatsChangeNothing == [][last # None /\ last' = last => UNCHANGED rows]_vars
=============================================================================
