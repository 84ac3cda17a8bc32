--------------------------- MODULE IdentityProofs ----------------------------
(***************************************************************************)
(* What Members, SignIn, ScimDirectory and FederatedLogin keep for any     *)
(* number of users, requests, invitations, tickets, sessions, directory    *)
(* rows, patches and answers.                                              *)
(***************************************************************************)
EXTENDS Identity, FiniteSetTheorems, TLAPS

identityVars == <<focus, memberVars, signInVars, scimVars, federatedVars>>

(* A step of the whole is a step of each part, or leaves the part alone.    *)
LEMMA Parts ==
    ASSUME [Next]_identityVars
    PROVE  [M!Next]_(M!vars) /\ [S!Next]_(S!vars) /\ [F!Next]_(F!vars)
<1>1. UNCHANGED memberVars => UNCHANGED M!vars
  BY DEF memberVars, M!vars
<1>2. UNCHANGED signInVars => UNCHANGED S!vars
  BY DEF signInVars, S!vars
<1>3. UNCHANGED federatedVars => UNCHANGED F!vars
  BY DEF federatedVars, F!vars
<1>4. UNCHANGED identityVars => UNCHANGED <<memberVars, signInVars, federatedVars>>
  BY DEF identityVars
<1> QED BY <1>1, <1>2, <1>3, <1>4 DEF Next

-----------------------------------------------------------------------------
(* Members.  A request to assign roles that saw one administrator, the user *)
(* it is for, leaves him one; the only roles removed are custom ones; an    *)
(* invitation is answered by a request that saw it pending; and a SCIM      *)
(* request reconciles the user it writes, and whoever it adds to a group.   *)
IsMember(m) == m = [status |-> m.status, roles |-> m.roles]
ScimOps == {"createUser", "updateUser", "deleteUser", "putGroup", "deleteGroup"}
Working(r) ==
    r.op \in ScimOps =>
      /\ {"op", "cf", "was", "step", "users", "todo", "now", "saw"} \subseteq DOMAIN r
      /\ r.op \in {"createUser", "updateUser"} =>
           /\ "user" \in DOMAIN r
           /\ r.step # "write" => r.users = {r.user}
      /\ r.op \in {"putGroup", "deleteGroup"} => "group" \in DOMAIN r
      /\ r.op = "putGroup" =>
           {"name", "ids", "added"} \subseteq DOMAIN r /\ r.added \subseteq r.users
Checked(r) ==
    /\ Working(r)
    /\ r.op = "setRoles" => (r.saw = {r.user} => "admin" \in r.roles)
    /\ r.op = "removeRole" => r.role = "lead"
    /\ r.op \in {"revoke", "accept"} => r.saw = "pending"
MembersInv ==
    /\ DOMAIN member = User /\ \A u \in User : IsMember(member[u])
    /\ DOMAIN request = Client /\ \A c \in Client : Checked(request[c])
    /\ M!AdministratorRemains

(* Nobody stops to be an administrator.                                     *)
Keeps == M!Admins \subseteq M!Admins'

(* A request that is opened with what the code has checked, or closed,      *)
(* leaves every request checked.                                            *)
LEMMA RequestsStayChecked ==
    ASSUME MembersInv, NEW c \in Client, NEW r, Checked(r),
           request' = [request EXCEPT ![c] = r]
    PROVE  DOMAIN request' = Client /\ \A d \in Client : Checked(request'[d])
BY DEF MembersInv

(* A client without a request is checked.                                   *)
LEMMA IdleIsChecked == Checked(M!Idle)
BY DEF Checked, Working, ScimOps, M!Idle

(* A reconciliation that goes on is of the same request.                    *)
Follows(r, old) ==
    /\ old.op \in ScimOps /\ DOMAIN r = DOMAIN old /\ r.op = old.op /\ Working(r)
    /\ old.op \in {"createUser", "updateUser"} => r.user = old.user
    /\ old.op # "deleteUser"
    /\ old.op \in {"putGroup", "deleteGroup"} => r.group = old.group
    /\ old.op = "putGroup" => r.name = old.name
LEMMA GoesOn ==
    ASSUME NEW c \in Client, Working(request[c]),
           \/ M!WriteUser(c) \/ M!WriteGroup(c) \/ M!WriteDeletion(c)
           \/ (\E u \in User : M!FindLinks(c, u))
           \/ M!FindMembership(c) \/ M!FindRoles(c)
    PROVE  \E r : M!Goes(c, r) /\ Follows(r, request[c])
<1> DEFINE old == request[c]
<1>1. CASE M!WriteUser(c)
  <2> DEFINE r == [old EXCEPT !.step = "links", !.users = {old.user}, !.todo = {old.user},
                              !.was = member[old.user].status]
  <2>1. M!Goes(c, r) /\ old.op \in {"createUser", "updateUser"}
    BY <1>1 DEF M!WriteUser
  <2>2. Follows(r, old)
    BY <2>1 DEF Follows, Working, ScimOps
  <2> QED BY <2>1, <2>2
<1>2. CASE M!WriteGroup(c)
  <2> DEFINE final == old.ids \cap M!ScimUsers
             added == final \ old.was.members
             users == added \cup (old.was.members \ final)
             r == [old EXCEPT !.step = "links", !.ids = final, !.added = added,
                              !.users = users, !.todo = users]
  <2>1. M!Goes(c, r) /\ old.op = "putGroup" /\ added \subseteq users
    BY <1>2 DEF M!WriteGroup
  <2>2. Follows(r, old)
    <3> HIDE DEF final, added, users
    <3> QED BY <2>1 DEF Follows, Working, ScimOps
  <2> QED BY <2>1, <2>2
<1>3. CASE M!WriteDeletion(c)
  <2> DEFINE users == old.was.members
             r == [old EXCEPT !.step = "links", !.users = users, !.todo = users]
  <2>1. M!Goes(c, r) /\ old.op = "deleteGroup"
    BY <1>3 DEF M!WriteDeletion
  <2>2. Follows(r, old)
    <3> HIDE DEF users
    <3> QED BY <2>1 DEF Follows, Working, ScimOps
  <2> QED BY <2>1, <2>2
<1>4. ASSUME NEW u \in User, M!FindLinks(c, u)
      PROVE  \E r : M!Goes(c, r) /\ Follows(r, request[c])
  <2> DEFINE found == [old EXCEPT !.todo = @ \ {u}]
             r == [found EXCEPT !.step = "membership", !.now = u,
                                !.saw[u].links = M!OtherLinks(old, u)]
  <2>1. /\ M!Goes(c, r) \/ M!Goes(c, found)
        /\ old.op \in {"createUser", "updateUser", "putGroup", "deleteGroup"}
        /\ old.step = "links"
    BY <1>4 DEF M!FindLinks
  <2>2. Follows(found, old) /\ Follows(r, old)
    BY <2>1 DEF Follows, Working, ScimOps
  <2> QED BY <2>1, <2>2
<1>5. CASE M!FindMembership(c)
  <2> DEFINE r == [old EXCEPT !.step = "roles", !.saw[old.now].held = member[old.now].roles]
  <2>1. /\ M!Goes(c, r)
        /\ old.op \in {"createUser", "updateUser", "putGroup", "deleteGroup"}
        /\ old.step = "membership"
    BY <1>5 DEF M!FindMembership, M!Has
  <2>2. Follows(r, old)
    BY <2>1 DEF Follows, Working, ScimOps
  <2> QED BY <2>1, <2>2
<1>6. CASE M!FindRoles(c)
  <2> DEFINE r == [old EXCEPT !.step = "links", !.now = None, !.saw[old.now].known = role]
  <2>1. /\ M!Goes(c, r)
        /\ old.op \in {"createUser", "updateUser", "putGroup", "deleteGroup"}
        /\ old.step = "roles"
    BY <1>6 DEF M!FindRoles, M!Has
  <2>2. Follows(r, old)
    BY <2>1 DEF Follows, Working, ScimOps
  <2> QED BY <2>1, <2>2
<1> QED BY <1>1, <1>2, <1>3, <1>4, <1>5, <1>6

(* A status and a set of roles make a membership.                           *)
LEMMA IsARecord == \A a, b : IsMember([status |-> a, roles |-> b])
BY DEF IsMember

(* Assigning roles leaves the status of a membership.                       *)
LEMMA WithRoles ==
    ASSUME NEW m, IsMember(m), NEW x
    PROVE  [m EXCEPT !.roles = x] = [status |-> m.status, roles |-> x]
<1>1. m = [status |-> m.status, roles |-> m.roles]
  BY DEF IsMember
<1> DEFINE s == m.status  r == m.roles
<1>2. [[status |-> s, roles |-> r] EXCEPT !.roles = x] = [status |-> s, roles |-> x]
  OBVIOUS
<1> QED BY <1>1, <1>2, Zenon

(* The organization starts with an administrator and no request under way.  *)
LEMMA MembersInit == Init => MembersInv
<1> SUFFICES ASSUME Init PROVE MembersInv
  OBVIOUS
<1>1. M!Init
  BY DEF Init
<1>2. PICK first \in User, others \in SUBSET User :
        first \notin others /\ (\/ M!Administrators({first} \cup others)
                                \/ \E called : M!Provisioned(first, others, called))
  BY <1>1 DEF M!Init
<1> DEFINE Founded ==
             /\ DOMAIN member = User /\ member[first] = [status |-> "active", roles |-> {"admin"}]
             /\ \A u \in User : \E a, b : member[u] = [status |-> a, roles |-> b]
<1>6. Founded
  <2>1. CASE M!Administrators({first} \cup others)
    BY <2>1 DEF M!Administrators, M!NoMember
  <2>2. ASSUME NEW called, M!Provisioned(first, others, called) PROVE Founded
    <3> DEFINE kept(u) == role \cap M!Wanted(config, u, group)
    <3>1. member = [u \in User |->
                     CASE u = first -> [status |-> "active", roles |-> {"admin"}]
                       [] u \in others -> [status |-> "active", roles |-> kept(u)]
                       [] OTHER -> M!NoMember]
      BY <2>2 DEF M!Provisioned
    <3> HIDE DEF kept
    <3>2. ASSUME NEW u \in User
          PROVE  \/ member[u] = [status |-> "active", roles |-> {"admin"}]
                 \/ member[u] = [status |-> "active", roles |-> kept(u)] /\ u # first
                 \/ member[u] = M!NoMember /\ u # first
      <4>1. member[u] = CASE u = first -> [status |-> "active", roles |-> {"admin"}]
                          [] u \in others -> [status |-> "active", roles |-> kept(u)]
                          [] OTHER -> M!NoMember
        BY <3>1
      <4>2. CASE u = first
        BY <1>2, <4>1, <4>2
      <4>3. CASE u # first /\ u \in others
        BY <4>1, <4>3
      <4>4. CASE u # first /\ u \notin others
        BY <4>1, <4>4
      <4> QED BY <4>2, <4>3, <4>4
    <3>3. \A u \in User :
            \/ member[u] = [status |-> "active", roles |-> {"admin"}]
            \/ member[u] = [status |-> "active", roles |-> kept(u)]
            \/ member[u] = M!NoMember
      BY <3>2
    <3>4. member[first] = [status |-> "active", roles |-> {"admin"}]
      BY <3>2
    <3> QED BY <3>1, <3>3, <3>4 DEF M!NoMember
  <2> QED BY <1>2, <2>1, <2>2
<1>3. \A u \in User : IsMember(member[u])
  BY <1>6, IsARecord
<1>4. first \in M!Admins
  BY <1>6 DEF M!Admins
<1>5. DOMAIN request = Client /\ \A c \in Client : request[c] = M!Idle
  BY <1>1 DEF M!Init
<1> QED BY <1>3, <1>4, <1>5, <1>6, IdleIsChecked DEF MembersInv, M!AdministratorRemains

(* Accepting an invitation adds roles: it takes no administrator away.      *)
LEMMA AcceptsKeep ==
    ASSUME MembersInv, NEW u, NEW keys, M!Joins(u, keys)
    PROVE  Keeps /\ DOMAIN member' = User /\ \A v \in User : IsMember(member'[v])
<1>1. member' = [member EXCEPT ![u] =
                    [status |-> "active", roles |-> member[u].roles \cup (keys \cap role)]]
  BY DEF M!Joins
<1>2. DOMAIN member' = User /\ \A v \in User : IsMember(member'[v])
  BY <1>1 DEF MembersInv, IsMember
<1>3. ASSUME NEW v \in M!Admins PROVE v \in M!Admins'
  <2>1. CASE v = u
    <3>1. member'[v].status = "active" /\ member[v].roles \subseteq member'[v].roles
      BY <1>1, <2>1 DEF MembersInv, M!Admins
    <3> QED BY <3>1 DEF M!Admins
  <2>2. CASE v # u
    BY <1>1, <2>2 DEF MembersInv, M!Admins
  <2> QED BY <2>1, <2>2
<1> QED BY <1>2, <1>3 DEF Keeps

(* Each step of Members keeps the invariant.                                *)
LEMMA MembersStep ==
    ASSUME MembersInv, [M!Next]_(M!vars)
    PROVE  MembersInv'
<1> DEFINE Shape == DOMAIN member = User /\ \A u \in User : IsMember(member[u])
           Requests == DOMAIN request = Client /\ \A c \in Client : Checked(request[c])
           Guarded == unguarded' = (unguarded \/ (M!Admins # {} /\ M!Admins' = {}))
<1>0. Shape /\ Requests /\ M!AdministratorRemains
  BY DEF MembersInv
<1>a. ASSUME Shape', Requests', Keeps, unguarded => unguarded' PROVE MembersInv'
  BY <1>0, <1>a DEF MembersInv, Keeps, M!AdministratorRemains
<1>b. ASSUME Shape', Requests', Guarded PROVE MembersInv'
  BY <1>0, <1>b DEF MembersInv, M!AdministratorRemains
<1>c. ASSUME member' = member PROVE Shape' /\ Keeps
  BY <1>0, <1>c DEF Keeps, M!Admins
<1>d. ASSUME NEW c \in Client, NEW r, M!Opens(c, r), Checked(r) PROVE MembersInv'
  <2>1. Requests'
    BY <1>d, RequestsStayChecked DEF M!Opens
  <2>2. member' = member /\ unguarded' = unguarded
    BY <1>d DEF M!Opens, M!rows, M!history
  <2> QED BY <2>1, <2>2, <1>a, <1>c
<1>e. ASSUME NEW c \in Client, NEW op, M!Closes(c, op) PROVE Requests'
  BY <1>e, IdleIsChecked, RequestsStayChecked DEF M!Closes
<1>f. ASSUME M!AtOnce PROVE Requests'
  BY <1>0, <1>f DEF M!AtOnce

<1>1. CASE UNCHANGED M!vars
  <2>1. UNCHANGED <<member, request, unguarded>>
    BY <1>1 DEF M!vars
  <2> QED BY <2>1, <1>0, <1>a, <1>c
<1>2. ASSUME NEW c \in Client, M!Abort(c) PROVE MembersInv'
  <2>1. Requests'
    BY <1>2, IdleIsChecked, RequestsStayChecked DEF M!Abort
  <2>2. UNCHANGED <<member, unguarded>>
    BY <1>2 DEF M!Abort, M!rows, M!history
  <2> QED BY <2>1, <2>2, <1>a, <1>c
<1>3. ASSUME NEW c \in Client, NEW u \in User, NEW keys, M!BeginSetRoles(c, u, keys)
      PROVE  MembersInv'
  <2> DEFINE r == [op |-> "setRoles", user |-> u, roles |-> keys, saw |-> M!Admins]
  <2>1. M!Opens(c, r) /\ ~M!LastAdmin(u, keys)
    BY <1>3 DEF M!BeginSetRoles
  <2>2. ASSUME M!Admins = {u} PROVE "admin" \in keys
    <3>1. M!Cardinality(M!Admins) = 1
      BY <2>2, FS_Singleton DEF M!Cardinality, Cardinality
    <3>2. "admin" \in member[u].roles
      BY <2>2 DEF M!Admins
    <3> QED BY <2>1, <3>1, <3>2 DEF M!LastAdmin
  <2>3. Checked(r)
    BY <2>2 DEF Checked, Working, ScimOps
  <2> HIDE DEF r
  <2> QED BY <2>1, <2>3, <1>d
<1>4. ASSUME NEW c \in Client, M!SetRoles(c) PROVE MembersInv'
  <2> DEFINE u == request[c].user  keys == request[c].roles
  <2>1. member' = [member EXCEPT ![u].roles = keys]
        /\ unguarded' = (unguarded \/ (M!Admins' = {} /\ M!Admins # request[c].saw))
        /\ request[c].op = "setRoles"
    BY <1>4 DEF M!SetRoles, M!Closes
  <2>2. Checked(request[c])
    BY <1>0
  <2>3. Shape'
    BY <1>0, <2>1 DEF IsMember
  <2>4. Requests'
    BY <1>4, <1>e DEF M!SetRoles
  <2>5. M!AdministratorRemains'
    <3> SUFFICES ASSUME ~unguarded', M!Admins' = {} PROVE FALSE
      BY DEF M!AdministratorRemains
    <3>1. M!Admins # {} /\ M!Admins = request[c].saw
      BY <1>0, <2>1 DEF M!AdministratorRemains
    <3>2. ASSUME NEW v \in M!Admins, v # u PROVE FALSE
      <4>1. member'[v] = member[v] /\ v \in User
        BY <1>0, <2>1, <3>2 DEF M!Admins
      <4>2. v \in M!Admins'
        BY <3>2, <4>1 DEF M!Admins
      <4> QED BY <4>2
    <3>3. M!Admins = {u} /\ u \in User
      BY <3>1, <3>2 DEF M!Admins
    <3>4. "admin" \in keys
      BY <2>1, <2>2, <3>1, <3>3 DEF Checked
    <3>5. member'[u].roles = keys /\ member'[u].status = member[u].status
      BY <1>0, <2>1, <3>3 DEF IsMember
    <3>6. u \in M!Admins'
      BY <3>3, <3>4, <3>5 DEF M!Admins
    <3> QED BY <3>6
  <2> QED BY <2>3, <2>4, <2>5 DEF MembersInv
<1>5. ASSUME NEW c \in Client, NEW i, M!BeginRevoke(c, i) \/ M!BeginAccept(c, i)
      PROVE  MembersInv'
  <2>1. Checked([op |-> "revoke", inv |-> i, saw |-> "pending"])
    BY DEF Checked, Working, ScimOps
  <2>2. Checked([op |-> "accept", inv |-> i, saw |-> "pending"])
    BY DEF Checked, Working, ScimOps
  <2>3. CASE M!BeginRevoke(c, i)
    <3>1. M!Opens(c, [op |-> "revoke", inv |-> i, saw |-> "pending"])
      BY <2>3 DEF M!BeginRevoke
    <3> QED BY <2>1, <3>1, <1>d
  <2>4. CASE M!BeginAccept(c, i)
    <3>1. M!Opens(c, [op |-> "accept", inv |-> i, saw |-> "pending"])
      BY <2>4 DEF M!BeginAccept
    <3> QED BY <2>2, <3>1, <1>d
  <2> QED BY <1>5, <2>3, <2>4
<1>6. ASSUME NEW c \in Client, M!RevokeInvitation(c) PROVE MembersInv'
  <2>1. Requests' /\ UNCHANGED <<member, unguarded>>
    BY <1>6, <1>e DEF M!RevokeInvitation
  <2> QED BY <2>1, <1>a, <1>c
<1>7. ASSUME NEW c \in Client, M!AcceptInvitation(c) PROVE MembersInv'
  <2>1. Requests' /\ UNCHANGED unguarded
    BY <1>7, <1>e DEF M!AcceptInvitation
  <2>2. Shape' /\ Keeps
    BY <1>7, AcceptsKeep DEF M!AcceptInvitation
  <2> QED BY <2>1, <2>2, <1>a
<1>8. ASSUME NEW c \in Client, NEW k \in {"lead"}, M!BeginRemoveRole(c, k) PROVE MembersInv'
  <2>1. M!Opens(c, [op |-> "removeRole", role |-> k])
    BY <1>8 DEF M!BeginRemoveRole
  <2>2. Checked([op |-> "removeRole", role |-> k])
    BY DEF Checked, Working, ScimOps
  <2> QED BY <2>1, <2>2, <1>d
<1>9. ASSUME NEW c \in Client, M!RemoveRole(c) PROVE MembersInv'
  <2>1. Requests' /\ UNCHANGED unguarded
    BY <1>9, <1>e DEF M!RemoveRole, M!history
  <2>2. request[c].role = "lead"
    BY <1>0, <1>9 DEF M!RemoveRole, M!Closes, Checked
  <2>3. member' = [u \in User |-> [member[u] EXCEPT !.roles = @ \ {"lead"}]]
    BY <1>9, <2>2 DEF M!RemoveRole
  <2>4. DOMAIN member' = User
        /\ \A u \in User : member'[u] = [status |-> member[u].status,
                                         roles |-> member[u].roles \ {"lead"}]
    <3>1. ASSUME NEW u \in User
          PROVE  member'[u] = [status |-> member[u].status, roles |-> member[u].roles \ {"lead"}]
      <4>1. IsMember(member[u])
        BY <1>0
      <4>2. member'[u] = [member[u] EXCEPT !.roles = member[u].roles \ {"lead"}]
        BY <2>3
      <4> QED BY <4>1, <4>2, WithRoles
    <3> QED BY <2>3, <3>1
  <2>5. Shape'
    BY <2>4, IsARecord
  <2>6. Keeps
    BY <2>4 DEF Keeps, M!Admins
  <2> QED BY <2>1, <2>5, <2>6, <1>a

<1>10. ASSUME NEW c \in Client, NEW u, NEW active,
              NEW what \in {"createUser", "updateUser", "deleteUser"},
              M!BeginUser(c, u, what, active)
       PROVE  MembersInv'
  <2> DEFINE r == [op |-> what, user |-> u, active |-> active, was |-> "none", cf |-> config,
                   step |-> "write", users |-> {}, todo |-> {}, now |-> None, saw |-> M!Unseen]
  <2>1. M!Opens(c, r)
    BY <1>10 DEF M!BeginUser
  <2>2. Checked(r)
    BY DEF Checked, Working, ScimOps
  <2> HIDE DEF r
  <2> QED BY <2>1, <2>2, <1>d
<1>11. ASSUME NEW c \in Client, M!ScimCreateUser(c) \/ M!ScimUpdateUser(c) PROVE MembersInv'
  <2> DEFINE u == request[c].user
  <2>1. Requests'
    BY <1>11, <1>e DEF M!ScimCreateUser, M!ScimUpdateUser
  <2>2. M!Provisions(request[c])
    BY <1>11 DEF M!ScimCreateUser, M!ScimUpdateUser
  <2>3. Guarded
    BY <2>2 DEF M!Provisions, M!TakesLastAdmin
  <2>4. \E a, b : member' = [member EXCEPT ![u] = [status |-> a, roles |-> b]]
    BY <2>2 DEF M!Provisions
  <2>5. Shape'
    BY <1>0, <2>4, IsARecord
  <2> QED BY <2>1, <2>3, <2>5, <1>b
<1>12. ASSUME NEW c \in Client, M!ScimDeleteUser(c) PROVE MembersInv'
  <2> DEFINE u == request[c].user
  <2>1. Requests' /\ Guarded
    BY <1>12, <1>e DEF M!ScimDeleteUser, M!TakesLastAdmin
  <2>2. \E a, b : member' = [member EXCEPT ![u] = [status |-> a, roles |-> b]]
    BY <1>12 DEF M!ScimDeleteUser
  <2>3. Shape'
    BY <1>0, <2>2, IsARecord
  <2> QED BY <2>1, <2>3, <1>b
<1>13. ASSUME NEW c \in Client, NEW g, NEW n, NEW ids, M!BeginGroup(c, g, n, ids)
       PROVE  MembersInv'
  <2> DEFINE r == [op |-> "putGroup", group |-> g, name |-> n, ids |-> ids, added |-> {},
                   was |-> group[g], cf |-> config,
                   step |-> "write", users |-> {}, todo |-> {}, now |-> None, saw |-> M!Unseen]
  <2>1. M!Opens(c, r)
    BY <1>13 DEF M!BeginGroup
  <2>2. Checked(r)
    BY DEF Checked, Working, ScimOps
  <2> HIDE DEF r
  <2> QED BY <2>1, <2>2, <1>d
<1>14. ASSUME NEW c \in Client, NEW g, M!BeginDeleteGroup(c, g) PROVE MembersInv'
  <2> DEFINE r == [op |-> "deleteGroup", group |-> g, was |-> group[g], cf |-> config,
                   step |-> "write", users |-> {}, todo |-> {}, now |-> None, saw |-> M!Unseen]
  <2>1. M!Opens(c, r)
    BY <1>14 DEF M!BeginDeleteGroup
  <2>2. Checked(r)
    BY DEF Checked, Working, ScimOps
  <2> HIDE DEF r
  <2> QED BY <2>1, <2>2, <1>d
<1>15. ASSUME NEW r, M!Regroups(r) PROVE Shape' /\ Guarded
  <2>1. DOMAIN member' = User /\ Guarded
    BY <1>15 DEF M!Regroups, M!TakesLastAdmin
  <2>2. ASSUME NEW u \in User PROVE IsMember(member'[u])
    <3> DEFINE x == M!RolesFrom(r, u)
    <3>1. member'[u] = [member[u] EXCEPT !.roles = x]
      BY <1>15 DEF M!Regroups
    <3>2. IsMember(member[u])
      BY <1>0
    <3> HIDE DEF x
    <3>3. [member[u] EXCEPT !.roles = x] = [status |-> member[u].status, roles |-> x]
      BY <3>2, WithRoles
    <3>4. IsMember([status |-> member[u].status, roles |-> x])
      BY IsARecord, Zenon
    <3> QED BY <3>1, <3>3, <3>4, Zenon
  <2> QED BY <2>1, <2>2
<1>16. ASSUME NEW c \in Client, M!SetGroupMembers(c) \/ M!ScimDeleteGroup(c) PROVE MembersInv'
  <2>1. Requests' /\ M!Regroups(request[c])
    BY <1>16, <1>e DEF M!SetGroupMembers, M!ScimDeleteGroup
  <2>2. Shape' /\ Guarded
    <3> DEFINE r == request[c]
    <3>1. M!Regroups(r)
      BY <2>1
    <3> HIDE DEF r
    <3> QED BY <3>1, <1>15
  <2> QED BY <2>1, <2>2, <1>b
<1>17. ASSUME NEW c \in Client,
              \/ M!WriteUser(c) \/ M!WriteGroup(c) \/ M!WriteDeletion(c)
              \/ (\E u \in User : M!FindLinks(c, u))
              \/ M!FindMembership(c) \/ M!FindRoles(c)
       PROVE  MembersInv'
  <2>1. PICK r : M!Goes(c, r) /\ Follows(r, request[c])
    BY <1>0, <1>17, GoesOn DEF Checked
  <2>2. Checked(r)
    BY <2>1 DEF Follows, Checked, ScimOps
  <2>3. request' = [request EXCEPT ![c] = r] /\ UNCHANGED <<member, unguarded>>
    BY <2>1 DEF M!Goes, M!rows, M!history
  <2>4. Requests'
    BY <2>2, <2>3, RequestsStayChecked
  <2> QED BY <2>3, <2>4, <1>a, <1>c
<1>18. ASSUME NEW c \in Client, NEW u, M!BeginSsoLogin(c, u) PROVE MembersInv'
  <2>1. M!Opens(c, [op |-> "sso", user |-> u])
    BY <1>18 DEF M!BeginSsoLogin
  <2>2. Checked([op |-> "sso", user |-> u])
    BY DEF Checked, Working, ScimOps
  <2> QED BY <2>1, <2>2, <1>d
<1>19. ASSUME NEW c \in Client, M!CompleteSsoLogin(c) PROVE MembersInv'
  <2>1. Requests' /\ UNCHANGED unguarded
    BY <1>19, <1>e DEF M!CompleteSsoLogin
  <2>2. \/ \E u, keys : M!Joins(u, keys)
        \/ UNCHANGED member
    BY <1>19 DEF M!CompleteSsoLogin
  <2>3. Shape' /\ Keeps
    BY <2>2, <1>c, AcceptsKeep
  <2> QED BY <2>1, <2>3, <1>a
<1>20. ASSUME UNCHANGED member, UNCHANGED unguarded, M!AtOnce PROVE MembersInv'
  BY <1>20, <1>a, <1>c, <1>f
<1>21. ASSUME NEW u, NEW keys, M!Invite(u, keys) PROVE MembersInv'
  BY <1>21, <1>20 DEF M!Invite, M!rows, M!history
<1>22. ASSUME NEW k, M!CreateRole(k) PROVE MembersInv'
  BY <1>22, <1>20 DEF M!CreateRole
<1>23. ASSUME NEW cf, M!UpsertScimConfig(cf) PROVE MembersInv'
  BY <1>23, <1>20 DEF M!UpsertScimConfig
<1>24. ASSUME M!DeleteScimConfig PROVE MembersInv'
  BY <1>24, <1>20 DEF M!DeleteScimConfig, M!history
<1>25. ASSUME NEW p, M!UpsertIdentityProvider(p) PROVE MembersInv'
  BY <1>25, <1>20 DEF M!UpsertIdentityProvider, M!history
<1>26. ASSUME M!Next PROVE MembersInv'
  BY <1>26, <1>2, <1>3, <1>4, <1>5, <1>6, <1>7, <1>8, <1>9, <1>10, <1>11, <1>12, <1>13, <1>14,
     <1>16, <1>17, <1>18, <1>19, <1>21, <1>22, <1>23, <1>24, <1>25 DEF M!Next
<1> QED BY <1>1, <1>26

(* An active administrator remains, unless role assignments overlapped or   *)
(* SCIM took the last one (M!AdministratorRemains).                         *)
THEOREM OneAdministratorRemains == Spec => []AdministratorRemains
<1>1. MembersInv /\ [Next]_identityVars => MembersInv'
  BY Parts, MembersStep
<1>2. MembersInv => AdministratorRemains
  BY DEF MembersInv, AdministratorRemains
<1> QED BY MembersInit, <1>1, <1>2, PTL DEF Spec, identityVars

(* An invitation that was accepted or revoked stays so, unless the request  *)
(* that answers it had read it before (M!InvitationsHold).                  *)
AnswerHolds ==
    \A i \in Invitation \ outdated' :
       invitation[i].status \in {"accepted", "revoked"}
         => invitation'[i].status = invitation[i].status

(* Only an answer of a request that had read another status changes an      *)
(* answered invitation.                                                     *)
LEMMA AnswersHold ==
    ASSUME MembersInv, [M!Next]_(M!vars)
    PROVE  AnswerHolds
<1>1. ASSUME UNCHANGED invitation PROVE AnswerHolds
  BY <1>1 DEF AnswerHolds
<1>2. ASSUME NEW c \in Client, M!RevokeInvitation(c) \/ M!AcceptInvitation(c) PROVE AnswerHolds
  <2> DEFINE j == request[c].inv
  <2>1. request[c].saw = "pending"
    BY <1>2 DEF M!RevokeInvitation, M!AcceptInvitation, M!Closes, MembersInv, Checked
  <2>2. M!Outdates(invitation[j].status # "pending", {j})
    BY <1>2, <2>1 DEF M!RevokeInvitation, M!AcceptInvitation
  <2>3. \E x : invitation' = [invitation EXCEPT ![j].status = x]
    BY <1>2 DEF M!RevokeInvitation, M!AcceptInvitation
  <2>4. ASSUME NEW i \in Invitation, i \notin outdated',
               invitation[i].status \in {"accepted", "revoked"}
        PROVE  invitation'[i] = invitation[i]
    <3>1. i # j
      BY <2>2, <2>4 DEF M!Outdates
    <3> QED BY <2>3, <3>1
  <2> QED BY <2>4 DEF AnswerHolds
<1>3. CASE UNCHANGED M!vars
  BY <1>1, <1>3 DEF M!vars
<1>4. ASSUME M!Next PROVE AnswerHolds
  <2>1. ASSUME NEW c, NEW r, M!Opens(c, r) PROVE UNCHANGED invitation
    BY <2>1 DEF M!Opens, M!rows
  <2>2. ASSUME NEW c \in Client,
               \/ M!Abort(c)
               \/ \E u \in User, keys \in {{"admin"}, {"member"}, {"lead"}} : M!BeginSetRoles(c, u, keys)
               \/ \E i \in Invitation : M!BeginRevoke(c, i) \/ M!BeginAccept(c, i)
               \/ \E k \in {"lead"} : M!BeginRemoveRole(c, k)
               \/ \E u \in User, active \in BOOLEAN :
                    \E what \in {"createUser", "updateUser", "deleteUser"} :
                      M!BeginUser(c, u, what, active)
               \/ \E u \in User : M!BeginSsoLogin(c, u)
               \/ M!WriteUser(c) \/ M!WriteGroup(c) \/ M!WriteDeletion(c)
               \/ \E u \in User : M!FindLinks(c, u)
               \/ M!FindMembership(c) \/ M!FindRoles(c)
        PROVE  UNCHANGED invitation
    BY <2>1, <2>2 DEF M!Abort, M!rows, M!BeginSetRoles, M!BeginRevoke, M!BeginAccept,
       M!BeginRemoveRole, M!BeginUser, M!BeginSsoLogin, M!Goes, M!WriteUser, M!WriteGroup,
       M!WriteDeletion, M!FindLinks, M!FindMembership, M!FindRoles
  <2>3. ASSUME NEW c \in Client, NEW g \in Group,
               \/ \E n \in {"g", "h"}, ids \in SUBSET User : M!BeginGroup(c, g, n, ids)
               \/ M!BeginDeleteGroup(c, g)
        PROVE  UNCHANGED invitation
    BY <2>1, <2>3 DEF M!BeginGroup, M!BeginDeleteGroup
  <2>4. ASSUME NEW c \in Client,
               \/ M!SetRoles(c) \/ M!RemoveRole(c) \/ M!ScimCreateUser(c) \/ M!ScimUpdateUser(c)
               \/ M!ScimDeleteUser(c) \/ M!SetGroupMembers(c) \/ M!ScimDeleteGroup(c)
               \/ M!CompleteSsoLogin(c)
        PROVE  UNCHANGED invitation
    BY <2>4, Zenon DEF M!SetRoles, M!RemoveRole, M!ScimCreateUser, M!ScimUpdateUser,
       M!ScimDeleteUser, M!SetGroupMembers, M!ScimDeleteGroup, M!CompleteSsoLogin,
       M!Provisions, M!Regroups
  <2>5. ASSUME \/ \E u \in User, keys \in {{"admin"}, {"member"}, {"lead"}} : M!Invite(u, keys)
               \/ \E k \in {"lead"} : M!CreateRole(k)
               \/ \E cf \in ScimConfigs : M!UpsertScimConfig(cf)
               \/ M!DeleteScimConfig
               \/ \E p \in {"on", "off", "none"} : M!UpsertIdentityProvider(p)
        PROVE  UNCHANGED invitation
    BY <2>5 DEF M!Invite, M!CreateRole, M!UpsertScimConfig, M!DeleteScimConfig,
       M!UpsertIdentityProvider, M!rows
  <2>6. (\E c \in Client : M!RevokeInvitation(c) \/ M!AcceptInvitation(c)) \/ UNCHANGED invitation
    BY <1>4, <2>2, <2>3, <2>4, <2>5 DEF M!Next
  <2> QED BY <2>6, <1>1, <1>2
<1> QED BY <1>3, <1>4

(* An invitation that was accepted or revoked stays so, however many        *)
(* answers are under way, unless the writing request had checked a status   *)
(* that changed since (M!InvitationsHold).                                  *)
THEOREM InvitationsAreAnsweredOnce == Spec => InvitationsHold
<1>1. MembersInv /\ [Next]_identityVars => MembersInv'
  BY Parts, MembersStep
<1>2. MembersInv /\ [Next]_identityVars => [AnswerHolds]_(M!vars)
  BY Parts, AnswersHold
<1> QED BY MembersInit, <1>1, <1>2, PTL
   DEF Spec, identityVars, InvitationsHold, M!InvitationsHold, AnswerHolds

-----------------------------------------------------------------------------
(* SignIn.  Types of the rows and of the requests.                          *)
SignInTypes ==
    /\ S!TypeOK
    /\ mfa \in [secret : Nat, confirmed : BOOLEAN, codes : SUBSET (S!Secret \X Code)]
    /\ spent \in [calls : Nat, secrets : 0..MaxSecrets]
    /\ accepted \in [S!Secret \X Code -> Nat]
    /\ DOMAIN work = Caller

(* A ticket that no two requests used at a time is consumed as soon as a    *)
(* request is past it or a session came of it, and there is one of them.    *)
PastTicket(c) == work[c].op \in {"enter", "accept", "session"}
Sole(t) == t \notin raced \cup {None}
TicketsInv ==
    /\ \A c \in Caller :
         /\ work[c].op \in {"ticket", "enter", "accept", "session"} => work[c].t \in S!Ticket
         /\ work[c].op = "ticket" => work[c].saw = "fresh"
         /\ work[c].op \in {"accept", "session"} => account
         /\ PastTicket(c) /\ Sole(work[c].t) => ticket[work[c].t] = "consumed"
         /\ \A d \in Caller :
              PastTicket(c) /\ PastTicket(d) /\ work[c].t = work[d].t /\ Sole(work[c].t) => c = d
    /\ \A s \in Session :
         /\ session[s].from # None => account
         /\ Sole(session[s].from) => ticket[session[s].from] = "consumed"
         /\ \A r \in Session :
              session[s].from = session[r].from /\ Sole(session[s].from) => s = r
         /\ \A c \in Caller :
              ~ (PastTicket(c) /\ work[c].t = session[s].from /\ Sole(work[c].t))

(* The codes of a row, as it is or as it was read, are those of its secret, *)
(* but for overlapping requests; an enrolment begins on a row that is not   *)
(* confirmed, is confirmed after a code was presented for it, and a         *)
(* challenge reads a confirmed row.                                         *)
Own(m) ==
    /\ m.secret \in 0..spent.secrets
    /\ m.codes \subseteq S!Secret \X Code
    /\ \A k \in m.codes : k[1] <= spent.secrets /\ k[1] \in {m.secret} \cup raced
Reads(w) ==
    /\ w.op = "enroll" => ~w.saw.confirmed
    /\ w.op = "confirm" => ~w.saw.confirmed /\ w.saw.secret \in proven
    /\ w.op = "challenge" => /\ w.saw.confirmed /\ Own(w.saw)
                             /\ w.code \in w.saw.codes \cup {None}
                             /\ w.goal \in {"pass", "disable"}
(* What was accepted is of a secret that was issued, of one in force only   *)
(* if it is confirmed, and no longer among the codes.                       *)
Spent(k) ==
    /\ accepted[k] > 0 => k[1] <= spent.secrets
    /\ accepted[k] > 0 /\ k[1] = mfa.secret /\ k[1] \notin raced => mfa.confirmed
    /\ accepted[k] > 0 /\ k[1] \notin raced => k \notin mfa.codes
    /\ accepted[k] > 1 => k[1] \in raced
CodesInv ==
    /\ Own(mfa)
    /\ \A k \in S!Secret \X Code : Spent(k)
    /\ \A c \in Caller : Reads(work[c])
    /\ S!ConfirmedWasProven

SignInInv == SignInTypes /\ TicketsInv /\ CodesInv

-----------------------------------------------------------------------------
(* At the start at most the first secret is enrolled, and nothing was       *)
(* accepted.                                                                *)
LEMMA SignInInit == Init => SignInInv
<1> SUFFICES ASSUME Init PROVE SignInInv
  OBVIOUS
<1>1. S!Init /\ MaxSecrets \in Nat \ {0}
  BY IdentityAssumption DEF Init, S!SignInAssumption
<1>2. mfa \in {S!NoMfa, [secret |-> 1, confirmed |-> TRUE, codes |-> S!Issued(1)]}
  BY <1>1 DEF S!Init
<1>3. S!Issued(1) \subseteq S!Secret \X Code /\ \A k \in S!Issued(1) : k[1] = 1
  BY <1>1 DEF S!Issued, S!Secret
<1>4. /\ mfa \in [secret : Nat, confirmed : BOOLEAN, codes : SUBSET (S!Secret \X Code)]
      /\ mfa.secret \in 0..1 /\ \A k \in mfa.codes : k[1] = mfa.secret
  <2>1. CASE mfa = S!NoMfa
    BY <2>1 DEF S!NoMfa
  <2>2. CASE mfa = [secret |-> 1, confirmed |-> TRUE, codes |-> S!Issued(1)]
    BY <2>2, <1>3
  <2> QED BY <2>1, <2>2, <1>2
<1>5. spent = [calls |-> 0, secrets |-> mfa.secret]
  BY <1>1 DEF S!Init
<1>6. \A s \in Session : session[s].from = None
  BY <1>1 DEF S!Init
<1>7. \A c \in Caller : work[c].op = "idle"
  BY <1>1 DEF S!Init, S!Idle
<1>8. accepted = [k \in S!Secret \X Code |-> 0] /\ raced = {} /\ mfa.secret \in proven
  BY <1>1 DEF S!Init
<1>9. SignInTypes
  <2>1. session \in [Session -> [state : {"none", "live", "over"}, passed : BOOLEAN,
                                 from : S!Ticket \cup {None}]]
    BY <1>1 DEF S!Init
  <2>2. account \in BOOLEAN /\ flagged \in BOOLEAN /\ mandate \in BOOLEAN
    BY <1>1, <1>4 DEF S!Init
  <2>3. invited \in {"none", "pending", "accepted", "ended"}
        /\ ticket \in [S!Ticket -> {"none", "fresh", "consumed", "expired"}]
    BY <1>1 DEF S!Init
  <2>4. mfa.secret \in S!Secret \cup {0}
    BY <1>1, <1>4 DEF S!Secret
  <2>5. DOMAIN work = Caller
    BY <1>1 DEF S!Init
  <2>6. S!TypeOK
    BY <2>1, <2>2, <2>3, <2>4, <1>4 DEF S!TypeOK
  <2> QED BY <2>5, <2>6, <1>1, <1>4, <1>5, <1>8 DEF SignInTypes
<1>10. TicketsInv
  BY <1>6, <1>7 DEF TicketsInv, PastTicket, Sole
<1>11. CodesInv
  <2>1. Own(mfa)
    BY <1>4, <1>5 DEF Own
  <2>2. \A k \in S!Secret \X Code : Spent(k)
    BY <1>8 DEF Spent
  <2>3. \A c \in Caller : Reads(work[c])
    BY <1>7 DEF Reads
  <2> QED BY <2>1, <2>2, <2>3, <1>8 DEF CodesInv, S!ConfirmedWasProven
<1> QED BY <1>9, <1>10, <1>11 DEF SignInInv

(* Whatever leaves tickets, sessions and the requests past a ticket alone   *)
(* keeps TicketsInv.                                                        *)
TicketOp == {"ticket", "enter", "accept", "session"}
LEMMA TicketsFrame ==
    ASSUME TicketsInv, account => account', raced \subseteq raced',
           \A t : ticket[t] = "consumed" => ticket'[t] = "consumed",
           \A s \in Session : session'[s].from = session[s].from,
           \A c \in Caller : work'[c] = work[c] \/ work'[c].op \notin TicketOp
    PROVE  TicketsInv'
BY DEF TicketsInv, PastTicket, Sole, TicketOp

(* Whatever leaves the row and the accepted codes alone keeps CodesInv.     *)
LEMMA CodesFrame ==
    ASSUME SignInTypes, SignInTypes', CodesInv, raced \subseteq raced', proven \subseteq proven',
           mfa' = mfa, accepted' = accepted, spent'.secrets = spent.secrets,
           \A c \in Caller : work'[c] = work[c] \/ Reads(work[c])'
    PROVE  CodesInv'
<1>1. Own(mfa)'
  BY DEF CodesInv, Own
<1>2. ASSUME NEW k \in S!Secret \X Code PROVE Spent(k)'
  <2>1. Spent(k)
    BY DEF CodesInv
  <2> QED BY <2>1 DEF Spent
<1>3. ASSUME NEW c \in Caller PROVE Reads(work[c])'
  <2>1. Reads(work[c])
    BY DEF CodesInv
  <2> QED BY <2>1 DEF Reads, Own
<1>4. S!ConfirmedWasProven'
  BY DEF CodesInv, S!ConfirmedWasProven
<1> QED BY <1>1, <1>2, <1>3, <1>4 DEF CodesInv

(* How a request goes on.                                                   *)
Turns(c, r) ==
    /\ DOMAIN work' = Caller /\ work'[c] = r
    /\ \A d \in Caller : d # c => work'[d] = work[d]
    /\ spent' \in [calls : Nat, secrets : 0..MaxSecrets]
    /\ spent'.secrets = spent.secrets

(* A request that begins leaves those of the other callers.                 *)
LEMMA OpensTurns ==
    ASSUME SignInTypes, NEW c \in Caller, NEW r, S!Opens(c, r)
    PROVE  Turns(c, r)
BY DEF SignInTypes, S!Opens, Turns

(* So does one that goes from one statement to the next.                    *)
LEMMA GoesTurns ==
    ASSUME SignInTypes, NEW c \in Caller, NEW from, NEW r, S!Goes(c, from, r)
    PROVE  Turns(c, r) /\ work[c].op = from
BY DEF SignInTypes, S!Goes, Turns

(* The types, when the rows of the second factor do not change.             *)
LEMMA TypesFrame ==
    ASSUME SignInTypes, UNCHANGED <<mfa, accepted>>, raced \subseteq raced',
           DOMAIN work' = Caller, spent' \in [calls : Nat, secrets : 0..MaxSecrets],
           account' \in BOOLEAN, flagged' \in BOOLEAN, mandate' \in BOOLEAN,
           invited' \in {"none", "pending", "accepted", "ended"},
           ticket' \in [S!Ticket -> {"none", "fresh", "consumed", "expired"}],
           session' \in [Session -> [state : {"none", "live", "over"}, passed : BOOLEAN,
                                     from : S!Ticket \cup {None}]]
    PROVE  SignInTypes'
BY DEF SignInTypes, S!TypeOK

(* Steps of the sign-in by a ticket.                                        *)
LEMMA TicketSteps ==
    ASSUME SignInInv, NEW c \in Caller,
           \/ \E t \in S!Ticket : S!ReadTicket(c, t)
           \/ S!ConsumeTicket(c) \/ S!EnterByLink(c) \/ S!EnterByProvider(c)
           \/ S!AcceptInvitation(c) \/ \E s \in Session : S!CreateSession(c, s)
    PROVE  SignInInv'
<1> USE DEF S!ticketVars, S!mfaVars
<1>0. SignInTypes /\ TicketsInv /\ CodesInv /\ S!TypeOK
  BY DEF SignInInv, SignInTypes
<1>a. ASSUME NEW r, Turns(c, r), r.op \notin {"enroll", "confirm", "challenge"},
             UNCHANGED <<mfa, accepted, proven>>, raced \subseteq raced', SignInTypes'
      PROVE  CodesInv'
  <2>1. \A d \in Caller : work'[d] = work[d] \/ Reads(work[d])'
    BY <1>a DEF Turns, Reads
  <2> QED BY <2>1, <1>0, <1>a, CodesFrame DEF Turns
<1>b. ASSUME NEW r, Turns(c, r), r.op \in {"accept", "session"}, r.t = work[c].t,
             PastTicket(c), account', UNCHANGED <<ticket, session, raced>>
      PROVE  TicketsInv'
  <2>1. \A d \in Caller : PastTicket(d)' => PastTicket(d) /\ work'[d].t = work[d].t
    BY <1>b DEF Turns, PastTicket
  <2>2. \A d \in Caller : work'[d].op \in TicketOp => work[d].op \in TicketOp /\ work'[d].t = work[d].t
    BY <1>b DEF Turns, PastTicket, TicketOp
  <2>3. \A d \in Caller : work'[d].op = "ticket" => work'[d] = work[d]
    BY <1>b DEF Turns
  <2> QED BY <1>0, <1>b, <2>1, <2>2, <2>3 DEF TicketsInv, Sole, TicketOp, PastTicket
<1>1. ASSUME NEW t \in S!Ticket, S!ReadTicket(c, t) PROVE SignInInv'
  <2> DEFINE r == [op |-> "ticket", t |-> t, saw |-> ticket[t]]
  <2>1. Turns(c, r) /\ ticket[t] = "fresh"
    BY <1>0, <1>1, OpensTurns DEF S!ReadTicket, S!Usable
  <2>2. UNCHANGED <<account, invited, ticket, session, mfa, flagged, accepted, proven, mandate, raced>>
    BY <1>1 DEF S!ReadTicket
  <2>3. SignInTypes'
    BY <1>0, <2>1, <2>2, TypesFrame DEF Turns, S!TypeOK
  <2>4. CodesInv'
    BY <2>1, <2>2, <2>3, <1>a
  <2>5. TicketsInv'
    <3>1. \A d \in Caller : d # c => work'[d] = work[d]
      BY <2>1 DEF Turns
    <3>2. work'[c].op = "ticket" /\ work'[c].t = t /\ work'[c].saw = "fresh"
      BY <2>1 DEF Turns
    <3> QED BY <1>0, <2>2, <3>1, <3>2 DEF TicketsInv, Sole, PastTicket
  <2> QED BY <2>3, <2>4, <2>5 DEF SignInInv
<1>2. CASE S!ConsumeTicket(c)
  <2> DEFINE t == work[c].t  r == [op |-> "enter", t |-> t]
  <2>1. Turns(c, r) /\ work[c].op = "ticket"
    BY <1>0, <1>2, GoesTurns DEF S!ConsumeTicket
  <2>2. /\ UNCHANGED <<account, invited, session, mfa, flagged, accepted, proven, mandate>>
        /\ ticket' = [ticket EXCEPT ![t] = "consumed"]
        /\ S!Races(ticket[t] # work[c].saw, t)
    BY <1>2 DEF S!ConsumeTicket
  <2>3. t \in S!Ticket /\ work[c].saw = "fresh"
    BY <1>0, <2>1 DEF TicketsInv
  <2>4. raced \subseteq raced' /\ (ticket[t] # "fresh" => t \in raced')
    BY <2>2, <2>3 DEF S!Races
  <2>5. ticket' \in [S!Ticket -> {"none", "fresh", "consumed", "expired"}]
        /\ ticket'[t] = "consumed" /\ \A u : ticket[u] = "consumed" => ticket'[u] = "consumed"
    BY <1>0, <2>2, <2>3 DEF S!TypeOK
  <2>6. SignInTypes'
    BY <1>0, <2>1, <2>2, <2>4, <2>5, TypesFrame DEF Turns, S!TypeOK
  <2>7. CodesInv'
    BY <2>1, <2>2, <2>4, <2>6, <1>a
  <2>8. TicketsInv'
    <3>1. \A d \in Caller : d # c => work'[d] = work[d]
      BY <2>1 DEF Turns
    <3>2. work'[c].op = "enter" /\ work'[c].t = t
      BY <2>1 DEF Turns
    <3> HIDE DEF t, r
    <3>3. ASSUME t \notin raced', t # None
          PROVE  /\ \A d \in Caller : ~ (PastTicket(d) /\ work[d].t = t)
                 /\ \A s \in Session : session[s].from # t
      BY <1>0, <2>4, <3>3 DEF TicketsInv, Sole
    <3>4. \A d \in Caller : d # c => (PastTicket(d)' <=> PastTicket(d))
      BY <3>1 DEF PastTicket
    <3>5. \A u : Sole(u)' => Sole(u)
      BY <2>4 DEF Sole
    <3>6. ASSUME NEW d \in Caller
          PROVE  /\ work'[d].op \in {"ticket", "enter", "accept", "session"} => work'[d].t \in S!Ticket
                 /\ work'[d].op = "ticket" => work'[d].saw = "fresh"
                 /\ work'[d].op \in {"accept", "session"} => account'
                 /\ PastTicket(d)' /\ Sole(work[d].t)' => ticket'[work'[d].t] = "consumed"
                 /\ \A e \in Caller :
                      PastTicket(d)' /\ PastTicket(e)' /\ work'[d].t = work'[e].t /\ Sole(work[d].t)'
                        => d = e
      BY <1>0, <2>2, <2>3, <2>5, <3>1, <3>2, <3>3, <3>4, <3>5 DEF TicketsInv, Sole
    <3>7. ASSUME NEW s \in Session
          PROVE  /\ session'[s].from # None => account'
                 /\ Sole(session[s].from)' => ticket'[session'[s].from] = "consumed"
                 /\ \A q \in Session :
                      session'[s].from = session'[q].from /\ Sole(session[s].from)' => s = q
                 /\ \A d \in Caller :
                      ~ (PastTicket(d)' /\ work'[d].t = session'[s].from /\ Sole(work[d].t)')
      BY <1>0, <2>2, <2>5, <3>1, <3>2, <3>3, <3>4, <3>5 DEF TicketsInv, Sole
    <3> QED BY <3>6, <3>7 DEF TicketsInv
  <2> QED BY <2>6, <2>7, <2>8 DEF SignInInv
<1>3. CASE S!EnterByLink(c) \/ S!EnterByProvider(c)
  <2>1. PICK op \in {"accept", "session"} : S!Goes(c, "enter", [op |-> op, t |-> work[c].t])
    BY <1>3 DEF S!EnterByLink, S!EnterByProvider
  <2> DEFINE r == [op |-> op, t |-> work[c].t]
  <2>2. Turns(c, r) /\ PastTicket(c)
    BY <1>0, <2>1, GoesTurns DEF PastTicket
  <2>3. UNCHANGED <<invited, ticket, session, mfa, flagged, accepted, proven, mandate, raced>>
        /\ account' = TRUE
    BY <1>3 DEF S!EnterByLink, S!EnterByProvider
  <2>4. SignInTypes'
    BY <1>0, <2>2, <2>3, TypesFrame DEF Turns, S!TypeOK
  <2>5. r.op = op /\ r.t = work[c].t
    OBVIOUS
  <2> HIDE DEF r
  <2>6. CodesInv'
    BY <2>2, <2>3, <2>4, <2>5, <1>a
  <2>7. TicketsInv'
    BY <2>2, <2>3, <2>5, <1>b
  <2> QED BY <2>4, <2>6, <2>7 DEF SignInInv
<1>4. CASE S!AcceptInvitation(c)
  <2> DEFINE r == [op |-> "session", t |-> work[c].t]
  <2>1. Turns(c, r) /\ work[c].op = "accept"
    BY <1>0, <1>4, GoesTurns DEF S!AcceptInvitation
  <2>2. UNCHANGED <<account, ticket, session, mfa, flagged, accepted, proven, mandate, raced>>
        /\ invited' \in {"accepted", invited}
    BY <1>4 DEF S!AcceptInvitation
  <2>3. PastTicket(c) /\ account
    BY <1>0, <2>1 DEF PastTicket, TicketsInv
  <2>4. SignInTypes'
    BY <1>0, <2>1, <2>2, TypesFrame DEF Turns, S!TypeOK
  <2>5. r.op = "session" /\ r.t = work[c].t
    OBVIOUS
  <2> HIDE DEF r
  <2>6. CodesInv'
    BY <2>1, <2>2, <2>4, <2>5, <1>a
  <2>7. TicketsInv'
    BY <2>1, <2>2, <2>3, <2>5, <1>b
  <2> QED BY <2>4, <2>6, <2>7 DEF SignInInv
<1>5. ASSUME NEW s \in Session, S!CreateSession(c, s) PROVE SignInInv'
  <2> DEFINE t == work[c].t
  <2>1. Turns(c, S!Idle) /\ work[c].op = "session"
    BY <1>0, <1>5, GoesTurns DEF S!CreateSession
  <2>2. UNCHANGED <<account, invited, ticket, mfa, flagged, accepted, proven, mandate, raced>>
        /\ session' = [session EXCEPT ![s] = [state |-> "live", passed |-> FALSE, from |-> t]]
    BY <1>5 DEF S!CreateSession
  <2>3. PastTicket(c) /\ account /\ t \in S!Ticket
    BY <1>0, <2>1 DEF PastTicket, TicketsInv
  <2>4. session' \in [Session -> [state : {"none", "live", "over"}, passed : BOOLEAN,
                                  from : S!Ticket \cup {None}]]
    BY <1>0, <2>2, <2>3 DEF S!TypeOK
  <2>5. SignInTypes'
    BY <1>0, <2>1, <2>2, <2>4, TypesFrame DEF Turns, S!TypeOK
  <2>6. CodesInv'
    <3>1. S!Idle.op = "idle"
      BY DEF S!Idle
    <3> QED BY <2>1, <2>2, <2>5, <3>1, <1>a
  <2>7. TicketsInv'
    <3>1. session'[s].from = t /\ \A q \in Session : q # s => session'[q] = session[q]
      BY <1>0, <2>2 DEF S!TypeOK
    <3>2. work'[c].op = "idle" /\ \A d \in Caller : d # c => work'[d] = work[d]
      BY <2>1 DEF Turns, S!Idle
    <3>3. \A d \in Caller : PastTicket(d)' => d # c /\ PastTicket(d)
      BY <3>2 DEF PastTicket
    <3> HIDE DEF t
    <3>4. t = work[c].t
      BY DEF t
    <3> QED BY <1>0, <2>2, <2>3, <3>1, <3>2, <3>3, <3>4 DEF TicketsInv, Sole
  <2> QED BY <2>5, <2>6, <2>7 DEF SignInInv
<1> QED BY <1>1, <1>2, <1>3, <1>4, <1>5

(* Steps that change neither the row of the second factor nor a ticket that *)
(* is consumed.                                                             *)
Elsewhere ==
    /\ UNCHANGED <<mfa, accepted, account, raced>>
    /\ proven \subseteq proven'
    /\ \A t : ticket[t] = "consumed" => ticket'[t] = "consumed"
    /\ \A s \in Session : session'[s].from = session[s].from
LEMMA ElsewhereKeeps ==
    ASSUME SignInInv, SignInTypes', Elsewhere, spent'.secrets = spent.secrets,
           \A c \in Caller : \/ work'[c] = work[c]
                             \/ work'[c].op \notin TicketOp /\ Reads(work[c])'
    PROVE  SignInInv'
<1>1. TicketsInv'
  BY TicketsFrame DEF SignInInv, Elsewhere
<1>2. CodesInv'
  BY CodesFrame DEF SignInInv, Elsewhere
<1> QED BY <1>1, <1>2 DEF SignInInv

SessionRow == [state : {"none", "live", "over"}, passed : BOOLEAN, from : S!Ticket \cup {None}]

(* Tickets that are issued or expire and sessions that end keep the         *)
(* invariant.                                                               *)
LEMMA QuietSteps ==
    ASSUME SignInInv,
           \/ \E t \in S!Ticket : S!RequestMagicLink(t) \/ S!BeginLogin(t) \/ S!Expire(t)
           \/ S!EndInvitation \/ \E s \in Session : S!Ends(s)
           \/ S!SetMandate
    PROVE  SignInInv'
<1> USE DEF S!ticketVars, S!mfaVars
<1>0. SignInTypes /\ S!TypeOK
  BY DEF SignInInv, SignInTypes
<1>1. ASSUME NEW t \in S!Ticket, S!RequestMagicLink(t) \/ S!BeginLogin(t) \/ S!Expire(t)
      PROVE  SignInInv'
  <2>1. /\ ticket[t] # "consumed"
        /\ \E x \in {"fresh", "expired"} : ticket' = [ticket EXCEPT ![t] = x]
        /\ UNCHANGED <<account, invited, session, mfa, flagged, accepted, proven, mandate, work,
                       spent, raced>>
    BY <1>1 DEF S!RequestMagicLink, S!BeginLogin, S!Expire
  <2>2. ticket' \in [S!Ticket -> {"none", "fresh", "consumed", "expired"}]
        /\ \A u : ticket[u] = "consumed" => ticket'[u] = "consumed"
    BY <1>0, <2>1 DEF S!TypeOK
  <2>3. SignInTypes'
    BY <1>0, <2>1, <2>2, TypesFrame DEF SignInTypes, S!TypeOK
  <2>4. Elsewhere
    BY <2>1, <2>2 DEF Elsewhere
  <2> QED BY <2>1, <2>3, <2>4, ElsewhereKeeps
<1>2. ASSUME S!EndInvitation \/ S!SetMandate PROVE SignInInv'
  <2>1. /\ UNCHANGED <<account, ticket, session, mfa, flagged, accepted, proven, work, raced>>
        /\ invited' \in {invited, "ended"} /\ mandate' \in {mandate, ~mandate}
        /\ spent' \in {spent, [spent EXCEPT !.calls = @ + 1]}
    BY <1>2 DEF S!EndInvitation, S!SetMandate
  <2>2. spent' \in [calls : Nat, secrets : 0..MaxSecrets] /\ spent'.secrets = spent.secrets
    BY <1>0, <2>1 DEF SignInTypes
  <2>3. mandate' \in BOOLEAN
    BY <1>0, <2>1 DEF S!TypeOK
  <2>4. SignInTypes'
    BY <1>0, <2>1, <2>2, <2>3, TypesFrame DEF SignInTypes, S!TypeOK
  <2>5. Elsewhere
    BY <2>1 DEF Elsewhere
  <2> QED BY <2>1, <2>2, <2>4, <2>5, ElsewhereKeeps
<1>3. ASSUME NEW s \in Session, S!Ends(s) PROVE SignInInv'
  <2>1. /\ UNCHANGED <<account, invited, ticket, mfa, flagged, accepted, proven, mandate, work,
                       spent, raced>>
        /\ session' = [session EXCEPT ![s].state = "over"]
    BY <1>3 DEF S!Ends
  <2>2. session' \in [Session -> SessionRow]
        /\ \A q \in Session : session'[q].from = session[q].from
    BY <1>0, <2>1 DEF S!TypeOK, SessionRow
  <2>3. SignInTypes'
    BY <1>0, <2>1, <2>2, TypesFrame DEF SignInTypes, S!TypeOK, SessionRow
  <2>4. Elsewhere
    BY <2>1, <2>2 DEF Elsewhere
  <2> QED BY <2>1, <2>3, <2>4, ElsewhereKeeps
<1> QED BY <1>1, <1>2, <1>3

(* So do the steps of the second factor that write neither its secret nor   *)
(* its codes.                                                               *)
LEMMA FactorSteps ==
    ASSUME SignInInv, NEW c \in Caller,
           \/ S!Dies(c) \/ S!FlagMfa(c) \/ S!PassSession(c) \/ S!UnflagMfa(c)
           \/ \E s \in Session :
                \/ S!BeginMfaEnrollment(c, s) \/ S!PresentCode(c, s)
                \/ \E code \in (S!Secret \X Code) \cup {None}, goal \in {"pass", "disable"} :
                     S!BeginChallenge(c, s, code, goal)
    PROVE  SignInInv'
<1> USE DEF S!ticketVars, S!mfaVars
<1>0. SignInTypes /\ CodesInv /\ S!TypeOK
  BY DEF SignInInv, SignInTypes
<1>a. ASSUME NEW r, Turns(c, r), r.op \notin TicketOp, Reads(work[c])', Elsewhere,
             flagged' \in BOOLEAN, UNCHANGED <<invited, mandate, ticket>>,
             session' \in [Session -> SessionRow]
      PROVE  SignInInv'
  <2>1. SignInTypes'
    BY <1>0, <1>a, TypesFrame DEF Turns, S!TypeOK, Elsewhere, SessionRow
  <2>2. \A d \in Caller : \/ work'[d] = work[d]
                          \/ work'[d].op \notin TicketOp /\ Reads(work[d])'
    BY <1>a DEF Turns
  <2> QED BY <2>1, <2>2, <1>a, ElsewhereKeeps DEF Turns
<1>b. ASSUME Turns(c, S!Idle), UNCHANGED <<account, invited, ticket, mfa, accepted, proven, mandate, raced>>,
             flagged' \in BOOLEAN,
             session' = session \/ \E s : session' = [session EXCEPT ![s].passed = TRUE]
      PROVE  SignInInv'
  <2>0. session \in [Session -> SessionRow]
    BY <1>0 DEF S!TypeOK, SessionRow
  <2>1. session' \in [Session -> SessionRow]
        /\ \A q \in Session : session'[q].from = session[q].from
    <3>1. CASE session' = session
      BY <2>0, <3>1
    <3>2. ASSUME NEW s, session' = [session EXCEPT ![s].passed = TRUE]
          PROVE  session' \in [Session -> SessionRow]
                 /\ \A q \in Session : session'[q].from = session[q].from
      <4>1. session' = [q \in Session |-> IF q = s THEN [session[q] EXCEPT !.passed = TRUE]
                                          ELSE session[q]]
        BY <2>0, <3>2
      <4>2. \A w \in SessionRow : [w EXCEPT !.passed = TRUE] \in SessionRow
                                 /\ [w EXCEPT !.passed = TRUE].from = w.from
        BY DEF SessionRow
      <4> QED BY <2>0, <4>1, <4>2
    <3> QED BY <1>b, <3>1, <3>2
  <2>2. Elsewhere
    BY <1>b, <2>1 DEF Elsewhere
  <2>3. S!Idle.op = "idle" /\ Reads(work[c])'
    BY <1>b DEF S!Idle, Reads, Turns
  <2>4. S!Idle.op \notin TicketOp
    BY <2>3 DEF TicketOp
  <2> QED BY <2>1, <2>2, <2>3, <2>4, <1>a, <1>b
<1>c. ASSUME NEW r, S!Opens(c, r), r.op \notin TicketOp, Reads(work[c])', proven \subseteq proven',
             UNCHANGED <<account, invited, ticket, session, mfa, flagged, accepted, mandate, raced>>
      PROVE  SignInInv'
  <2>1. Turns(c, r)
    BY <1>0, <1>c, OpensTurns
  <2>2. Elsewhere
    BY <1>c DEF Elsewhere
  <2>3. flagged' \in BOOLEAN /\ session' \in [Session -> SessionRow]
    BY <1>0, <1>c DEF S!TypeOK, SessionRow
  <2> QED BY <2>1, <2>2, <2>3, <1>a, <1>c
<1>1. CASE S!Dies(c)
  <2>1. Turns(c, S!Idle)
    BY <1>0, <1>1 DEF S!Dies, Turns, SignInTypes
  <2>2. flagged' \in BOOLEAN
    BY <1>0, <1>1 DEF S!Dies, S!TypeOK
  <2> QED BY <2>1, <2>2, <1>1, <1>b DEF S!Dies
<1>2. CASE S!FlagMfa(c) \/ S!PassSession(c) \/ S!UnflagMfa(c)
  <2>1. \E op : S!Goes(c, op, S!Idle)
    BY <1>2 DEF S!FlagMfa, S!PassSession, S!UnflagMfa
  <2>2. Turns(c, S!Idle)
    BY <1>0, <2>1, GoesTurns
  <2>3. flagged' \in BOOLEAN
    BY <1>0, <1>2 DEF S!FlagMfa, S!PassSession, S!UnflagMfa, S!TypeOK
  <2>4. session' = session \/ \E s : session' = [session EXCEPT ![s].passed = TRUE]
    BY <1>2 DEF S!FlagMfa, S!PassSession, S!UnflagMfa
  <2>5. UNCHANGED <<account, invited, ticket, mfa, accepted, proven, mandate, raced>>
    BY <1>2 DEF S!FlagMfa, S!PassSession, S!UnflagMfa
  <2> QED BY <2>2, <2>3, <2>4, <2>5, <1>b
<1>3. ASSUME NEW s \in Session, S!BeginMfaEnrollment(c, s) PROVE SignInInv'
  <2> DEFINE r == [op |-> "enroll", saw |-> mfa]
  <2>1. S!Opens(c, r) /\ ~mfa.confirmed
        /\ UNCHANGED <<account, invited, ticket, session, mfa, flagged, accepted, proven, mandate, raced>>
    BY <1>3 DEF S!BeginMfaEnrollment
  <2>2. work'[c] = r
    BY <1>0, <2>1, OpensTurns DEF Turns
  <2>3. r.op \notin TicketOp /\ Reads(work[c])'
    BY <2>1, <2>2 DEF Reads, TicketOp
  <2> HIDE DEF r
  <2> QED BY <2>1, <2>3, <1>c
<1>4. ASSUME NEW s \in Session, S!PresentCode(c, s) PROVE SignInInv'
  <2> DEFINE r == [op |-> "confirm", s |-> s, saw |-> mfa]
  <2>1. S!Opens(c, r) /\ ~mfa.confirmed /\ proven' = proven \cup {mfa.secret}
        /\ UNCHANGED <<account, invited, ticket, session, mfa, flagged, accepted, mandate, raced>>
    BY <1>4 DEF S!PresentCode, S!Confirmable
  <2>2. work'[c] = r
    BY <1>0, <2>1, OpensTurns DEF Turns
  <2>3. r.op \notin TicketOp /\ Reads(work[c])'
    BY <2>1, <2>2 DEF Reads, TicketOp
  <2> HIDE DEF r
  <2> QED BY <2>1, <2>3, <1>c
<1>5. ASSUME NEW s \in Session, NEW code, NEW goal \in {"pass", "disable"},
             S!BeginChallenge(c, s, code, goal)
      PROVE  SignInInv'
  <2> DEFINE r == [op |-> "challenge", s |-> s, code |-> code, goal |-> goal, saw |-> mfa]
  <2>1. S!Opens(c, r) /\ mfa.confirmed /\ code \in mfa.codes \cup {None}
        /\ UNCHANGED <<account, invited, ticket, session, mfa, flagged, accepted, proven, mandate, raced>>
    BY <1>5 DEF S!BeginChallenge
  <2>2. Turns(c, r)
    BY <1>0, <2>1, OpensTurns
  <2>3. Own(mfa)' /\ work'[c] = r
    BY <1>0, <2>1, <2>2 DEF CodesInv, Own, Turns
  <2>4. r.op \notin TicketOp /\ Reads(work[c])'
    BY <2>1, <2>3 DEF Reads, TicketOp, Own
  <2> HIDE DEF r
  <2> QED BY <2>1, <2>4, <1>c
<1> QED BY <1>1, <1>2, <1>3, <1>4, <1>5

(* What is written over the row of the second factor.                       *)
LEMMA RowSteps ==
    ASSUME SignInInv, NEW c \in Caller,
           S!StoreSecret(c) \/ S!ConfirmMfaEnrollment(c) \/ S!VerifyMfaChallenge(c) \/ S!DisableMfa(c)
    PROVE  SignInInv' /\ (mfa.confirmed => (mfa'.confirmed /\ mfa'.secret = mfa.secret) \/ S!Overtaken)
<1> USE DEF S!ticketVars, S!mfaVars
<1> DEFINE Row == [secret : Nat, confirmed : BOOLEAN, codes : SUBSET (S!Secret \X Code)]
           Stays == mfa.confirmed => (mfa'.confirmed /\ mfa'.secret = mfa.secret) \/ S!Overtaken
<1>0. SignInTypes /\ TicketsInv /\ CodesInv /\ S!TypeOK /\ mfa \in Row /\ MaxSecrets \in Nat
  BY IdentityAssumption DEF SignInInv, SignInTypes, S!SignInAssumption
<1>1. CASE S!StoreSecret(c)
  <2> DEFINE n == spent.secrets + 1
  <2>1. /\ work[c].op = "enroll" /\ spent.secrets < MaxSecrets
        /\ mfa' = [secret |-> n, confirmed |-> FALSE, codes |-> {}]
        /\ S!Races(mfa # work[c].saw, n)
        /\ work' = [work EXCEPT ![c] = S!Idle]
        /\ spent' = [spent EXCEPT !.secrets = n]
        /\ UNCHANGED <<account, invited, ticket, session, flagged, accepted, proven, mandate>>
    BY <1>1 DEF S!StoreSecret
  <2>2. n \in 1..MaxSecrets /\ spent.secrets \in Nat
        /\ spent' \in [calls : Nat, secrets : 0..MaxSecrets] /\ spent'.secrets = n
    BY <1>0, <2>1 DEF SignInTypes
  <2>3. mfa' \in Row /\ mfa'.secret = n /\ ~mfa'.confirmed /\ mfa'.codes = {}
    BY <2>1, <2>2
  <2>4. raced \subseteq raced' /\ (mfa # work[c].saw => n \in raced')
    BY <2>1 DEF S!Races
  <2>5. DOMAIN work' = Caller /\ work'[c].op = "idle" /\ \A d \in Caller : d # c => work'[d] = work[d]
    BY <1>0, <2>1 DEF SignInTypes, S!Idle
  <2>6. SignInTypes'
    BY <1>0, <2>1, <2>2, <2>3, <2>5 DEF SignInTypes, S!TypeOK, S!Secret
  <2>7. TicketsInv'
    BY <1>0, <2>1, <2>4, <2>5, TicketsFrame DEF TicketOp
  <2>8. CodesInv'
    <3>1. Own(mfa)'
      BY <2>2, <2>3 DEF Own
    <3>2. ASSUME NEW k \in S!Secret \X Code PROVE Spent(k)'
      <4>1. Spent(k) /\ k[1] \in Nat /\ accepted[k] \in Nat
        BY <1>0 DEF CodesInv, S!Secret, SignInTypes
      <4> QED BY <4>1, <2>1, <2>2, <2>3, <2>4 DEF Spent
    <3>3. ASSUME NEW d \in Caller PROVE Reads(work[d])'
      <4>1. CASE d = c
        BY <4>1, <2>5 DEF Reads
      <4>2. CASE d # c
        <5>1. Reads(work[d]) /\ work'[d] = work[d]
          BY <1>0, <4>2, <2>5 DEF CodesInv
        <5>2. ASSUME Own(work[d].saw) PROVE Own(work[d].saw)'
          <6>1. \A x : x \in 0..spent.secrets => x \in 0..spent'.secrets
            BY <2>2
          <6>2. \A k \in S!Secret \X Code : k[1] <= spent.secrets => k[1] <= spent'.secrets
            BY <1>0, <2>2 DEF S!Secret
          <6> QED BY <5>1, <5>2, <6>1, <6>2, <2>4 DEF Own
        <5> QED BY <5>1, <5>2, <2>1 DEF Reads
      <4> QED BY <4>1, <4>2
    <3> QED BY <3>1, <3>2, <3>3, <2>3 DEF CodesInv, S!ConfirmedWasProven
  <2>9. Stays
    BY <1>0, <2>1, <2>3, <2>4 DEF CodesInv, Reads, S!Overtaken
  <2> QED BY <2>6, <2>7, <2>8, <2>9 DEF SignInInv
<1>2. CASE S!ConfirmMfaEnrollment(c)
  <2> DEFINE n == mfa.secret
  <2>1. /\ n # 0
        /\ S!Goes(c, "confirm", [op |-> "flag", s |-> work[c].s])
        /\ mfa' = [mfa EXCEPT !.confirmed = TRUE, !.codes = S!Issued(n)]
        /\ S!Races(mfa # work[c].saw, n)
        /\ UNCHANGED <<account, invited, ticket, session, flagged, accepted, proven, mandate>>
    BY <1>2 DEF S!ConfirmMfaEnrollment
  <2>2. Turns(c, [op |-> "flag", s |-> work[c].s]) /\ work[c].op = "confirm"
    BY <1>0, <2>1, GoesTurns
  <2>3. n \in S!Secret /\ n \in 0..spent.secrets
    BY <1>0, <2>1 DEF S!TypeOK, CodesInv, Own
  <2>4. S!Issued(n) \subseteq S!Secret \X Code /\ \A k \in S!Issued(n) : k[1] = n
    BY <2>3 DEF S!Issued
  <2>5. mfa'.secret = n /\ mfa'.confirmed /\ mfa'.codes = S!Issued(n) /\ mfa' \in Row
    BY <1>0, <2>1, <2>4
  <2>6. raced \subseteq raced' /\ (mfa # work[c].saw => n \in raced')
    BY <2>1 DEF S!Races
  <2>7. DOMAIN work' = Caller /\ work'[c].op = "flag" /\ \A d \in Caller : d # c => work'[d] = work[d]
    BY <2>2 DEF Turns
  <2>8. SignInTypes'
    BY <1>0, <2>1, <2>2, <2>3, <2>4, <2>5, <2>7 DEF SignInTypes, S!TypeOK, Turns
  <2>9. TicketsInv'
    BY <1>0, <2>1, <2>6, <2>7, TicketsFrame DEF TicketOp
  <2>10. CodesInv'
    <3>0. spent'.secrets = spent.secrets /\ spent.secrets \in Nat
      BY <1>0, <2>2 DEF Turns, SignInTypes
    <3>1. Own(mfa)'
      BY <2>3, <2>4, <2>5, <3>0 DEF Own
    <3>2. ~work[c].saw.confirmed /\ work[c].saw.secret \in proven
      BY <1>0, <2>2 DEF CodesInv, Reads
    <3>3. ASSUME NEW k \in S!Secret \X Code PROVE Spent(k)'
      <4>1. Spent(k) /\ k[1] \in Nat /\ accepted[k] \in Nat
        BY <1>0 DEF CodesInv, S!Secret, SignInTypes
      <4>2. ASSUME accepted[k] > 0, k[1] \notin raced' PROVE k \notin mfa'.codes
        <5>1. CASE k[1] = n
          BY <4>1, <4>2, <5>1, <2>6, <3>2 DEF Spent
        <5>2. CASE k[1] # n
          BY <5>2, <2>4, <2>5
        <5> QED BY <5>1, <5>2
      <4> QED BY <4>1, <4>2, <2>1, <2>5, <2>6, <3>0 DEF Spent
    <3>4. ASSUME NEW d \in Caller PROVE Reads(work[d])'
      <4>1. CASE d = c
        BY <4>1, <2>7 DEF Reads
      <4>2. CASE d # c
        <5>1. Reads(work[d]) /\ work'[d] = work[d]
          BY <1>0, <4>2, <2>7 DEF CodesInv
        <5> QED BY <5>1, <3>0, <2>1, <2>6 DEF Reads, Own
      <4> QED BY <4>1, <4>2
    <3>5. S!ConfirmedWasProven'
      BY <2>1, <2>5, <2>6, <3>2 DEF S!ConfirmedWasProven
    <3> QED BY <3>1, <3>3, <3>4, <3>5 DEF CodesInv
  <2>11. Stays
    BY <2>5
  <2> QED BY <2>8, <2>9, <2>10, <2>11 DEF SignInInv
<1>3. CASE S!VerifyMfaChallenge(c)
  <2> DEFINE w == work[c]  code == w.code  n == w.saw.secret
  <2>1. /\ mfa.secret # 0
        /\ S!Goes(c, "challenge", [op |-> w.goal, s |-> w.s])
        /\ UNCHANGED <<account, invited, ticket, session, flagged, proven, mandate>>
        /\ \/ code = None /\ UNCHANGED <<mfa, accepted, raced>>
           \/ /\ code # None
              /\ mfa' = [mfa EXCEPT !.codes = w.saw.codes \ {code}]
              /\ accepted' = [accepted EXCEPT ![code] = @ + 1]
              /\ S!Races(mfa # w.saw, n)
    BY <1>3 DEF S!VerifyMfaChallenge, S!Remaining
  <2>2. /\ Turns(c, [op |-> w.goal, s |-> w.s]) /\ w.op = "challenge"
        /\ w.saw.confirmed /\ Own(w.saw) /\ w.code \in w.saw.codes \cup {None}
        /\ w.goal \in {"pass", "disable"}
    <3>1. Turns(c, [op |-> w.goal, s |-> w.s]) /\ w.op = "challenge"
      BY <1>0, <2>1, GoesTurns
    <3>2. Reads(w)
      BY <1>0 DEF CodesInv
    <3> QED BY <3>1, <3>2 DEF Reads
  <2>3. DOMAIN work' = Caller /\ work'[c].op \in {"pass", "disable"}
        /\ \A d \in Caller : d # c => work'[d] = work[d]
    BY <2>2 DEF Turns
  <2>4. spent'.secrets = spent.secrets /\ spent.secrets \in Nat
    BY <1>0, <2>2 DEF Turns, SignInTypes
  <2>5. mfa'.secret = mfa.secret /\ mfa'.confirmed = mfa.confirmed /\ raced \subseteq raced'
    BY <1>0, <2>1 DEF S!Races
  <2>6. Stays
    BY <2>5
  <2>7. TicketsInv'
    BY <1>0, <2>1, <2>3, <2>5, TicketsFrame DEF TicketOp
  <2>8. \A d \in Caller : work'[d] = work[d] \/ Reads(work[d])'
    BY <2>3 DEF Reads
  <2>9. CASE code = None /\ UNCHANGED <<mfa, accepted, raced>>
    <3>1. SignInTypes'
      BY <1>0, <2>1, <2>2, <2>3, <2>9 DEF SignInTypes, S!TypeOK, Turns
    <3>2. CodesInv'
      BY <1>0, <2>1, <2>4, <2>8, <2>9, <3>1, CodesFrame
    <3> QED BY <2>6, <2>7, <3>1, <3>2 DEF SignInInv
  <2>10. CASE /\ code # None
              /\ mfa' = [mfa EXCEPT !.codes = w.saw.codes \ {code}]
              /\ accepted' = [accepted EXCEPT ![code] = @ + 1]
              /\ S!Races(mfa # w.saw, n)
    <3>1. code \in w.saw.codes /\ code \in S!Secret \X Code /\ code[1] <= spent.secrets
          /\ code[1] \in {n} \cup raced
      BY <2>2, <2>10 DEF Own
    <3>2. mfa' \in Row /\ mfa'.codes = w.saw.codes \ {code}
      BY <1>0, <2>2, <2>10 DEF Own
    <3>3. accepted' \in [S!Secret \X Code -> Nat] /\ accepted'[code] = accepted[code] + 1
          /\ \A k \in S!Secret \X Code : k # code => accepted'[k] = accepted[k]
      BY <1>0, <2>10, <3>1 DEF SignInTypes
    <3>4. mfa = w.saw \/ n \in raced'
      BY <2>10 DEF S!Races
    <3>5. \A k \in mfa'.codes : k[1] <= spent.secrets /\ k[1] \in {mfa'.secret} \cup raced'
      <4> SUFFICES ASSUME NEW k \in mfa'.codes
                   PROVE  k[1] <= spent.secrets /\ k[1] \in {mfa'.secret} \cup raced'
        OBVIOUS
      <4>1. k[1] <= spent.secrets /\ k[1] \in {n} \cup raced
        BY <2>2, <3>2 DEF Own
      <4> QED BY <4>1, <3>4, <2>5
    <3>6. SignInTypes'
      BY <1>0, <2>1, <2>2, <2>3, <2>5, <3>2, <3>3, <3>5 DEF SignInTypes, S!TypeOK, Turns
    <3>7. Own(mfa)'
      BY <1>0, <2>4, <2>5, <3>2, <3>5 DEF Own, CodesInv
    <3>8. ASSUME NEW k \in S!Secret \X Code PROVE Spent(k)'
      <4>1. Spent(k) /\ accepted[k] \in Nat
        BY <1>0 DEF CodesInv, SignInTypes
      <4>2. accepted'[k] > 0 => k[1] <= spent'.secrets
        BY <4>1, <3>1, <3>3, <2>4 DEF Spent
      <4>3. accepted'[k] > 0 /\ k[1] = mfa'.secret /\ k[1] \notin raced' => mfa'.confirmed
        <5>1. CASE k = code
          BY <5>1, <3>1, <3>4, <2>2, <2>5
        <5>2. CASE k # code
          BY <5>2, <4>1, <3>3, <2>5 DEF Spent
        <5> QED BY <5>1, <5>2
      <4>4. accepted'[k] > 0 /\ k[1] \notin raced' => k \notin mfa'.codes
        <5>1. CASE k = code
          BY <5>1, <3>2
        <5>2. CASE k # code
          <6> SUFFICES ASSUME accepted[k] > 0, k[1] \notin raced', k \in w.saw.codes PROVE FALSE
            BY <5>2, <3>2, <3>3
          <6>1. k \notin mfa.codes
            BY <4>1, <2>5 DEF Spent
          <6>2. n \in raced' /\ k[1] \in {n} \cup raced
            BY <6>1, <3>4, <2>2 DEF Own
          <6> QED BY <6>2, <2>5
        <5> QED BY <5>1, <5>2
      <4>5. accepted'[k] > 1 => k[1] \in raced'
        <5>1. CASE k = code
          <6> SUFFICES ASSUME accepted[k] > 0, k[1] \notin raced' PROVE FALSE
            BY <5>1, <4>1, <3>3
          <6>1. k \notin mfa.codes
            BY <4>1, <2>5 DEF Spent
          <6>2. n \in raced'
            BY <5>1, <6>1, <3>1, <3>4
          <6> QED BY <5>1, <6>2, <3>1, <2>5
        <5>2. CASE k # code
          BY <5>2, <4>1, <3>3, <2>5 DEF Spent
        <5> QED BY <5>1, <5>2
      <4> QED BY <4>2, <4>3, <4>4, <4>5 DEF Spent
    <3>9. ASSUME NEW d \in Caller PROVE Reads(work[d])'
      <4>1. CASE d = c
        BY <4>1, <2>3 DEF Reads
      <4>2. CASE d # c
        <5>1. Reads(work[d]) /\ work'[d] = work[d]
          BY <1>0, <4>2, <2>3 DEF CodesInv
        <5> QED BY <5>1, <2>1, <2>4, <2>5 DEF Reads, Own
      <4> QED BY <4>1, <4>2
    <3>10. S!ConfirmedWasProven'
      BY <1>0, <2>1, <2>5 DEF CodesInv, S!ConfirmedWasProven
    <3>11. CodesInv'
      BY <3>7, <3>8, <3>9, <3>10 DEF CodesInv
    <3> QED BY <2>6, <2>7, <3>6, <3>11 DEF SignInInv
  <2> QED BY <2>1, <2>9, <2>10
<1>4. CASE S!DisableMfa(c)
  <2>1. /\ S!Goes(c, "disable", [op |-> "unflag"])
        /\ mfa' = S!NoMfa
        /\ UNCHANGED <<account, invited, ticket, session, flagged, accepted, proven, mandate, raced>>
    BY <1>4 DEF S!DisableMfa
  <2>2. Turns(c, [op |-> "unflag"]) /\ work[c].op = "disable"
    BY <1>0, <2>1, GoesTurns
  <2>3. DOMAIN work' = Caller /\ work'[c].op = "unflag" /\ \A d \in Caller : d # c => work'[d] = work[d]
    BY <2>2 DEF Turns
  <2>4. mfa' \in Row /\ mfa'.secret = 0 /\ ~mfa'.confirmed /\ mfa'.codes = {}
    BY <2>1 DEF S!NoMfa
  <2>5. SignInTypes'
    BY <1>0, <2>1, <2>2, <2>3, <2>4 DEF SignInTypes, S!TypeOK, Turns
  <2>6. TicketsInv'
    BY <1>0, <2>1, <2>3, TicketsFrame DEF TicketOp
  <2>7. CodesInv'
    <3>0. spent'.secrets = spent.secrets /\ spent.secrets \in Nat
      BY <1>0, <2>2 DEF Turns, SignInTypes
    <3>1. Own(mfa)'
      BY <2>4, <3>0 DEF Own
    <3>2. ASSUME NEW k \in S!Secret \X Code PROVE Spent(k)'
      <4>1. Spent(k) /\ k[1] # 0
        BY <1>0 DEF CodesInv, S!Secret
      <4> QED BY <4>1, <2>1, <2>4, <3>0 DEF Spent
    <3>3. ASSUME NEW d \in Caller PROVE Reads(work[d])'
      <4>1. CASE d = c
        BY <4>1, <2>3 DEF Reads
      <4>2. CASE d # c
        <5>1. Reads(work[d]) /\ work'[d] = work[d]
          BY <1>0, <4>2, <2>3 DEF CodesInv
        <5> QED BY <5>1, <3>0, <2>1 DEF Reads, Own
      <4> QED BY <4>1, <4>2
    <3> QED BY <3>1, <3>2, <3>3, <2>4 DEF CodesInv, S!ConfirmedWasProven
  <2>8. Stays
    BY <2>2 DEF S!Overtaken
  <2> QED BY <2>5, <2>6, <2>7, <2>8 DEF SignInInv
<1> QED BY <1>1, <1>2, <1>3, <1>4

(* Each step of SignIn keeps the invariant, and a confirmed second factor   *)
(* unless it was overtaken.                                                 *)
FactorStays == mfa.confirmed => (mfa'.confirmed /\ mfa'.secret = mfa.secret) \/ S!Overtaken
LEMMA SignInStep ==
    ASSUME SignInInv, [S!Next]_(S!vars)
    PROVE  SignInInv' /\ FactorStays
<1>1. ASSUME UNCHANGED mfa PROVE FactorStays
  BY <1>1 DEF FactorStays
<1>2. CASE UNCHANGED S!vars
  <2>1. UNCHANGED <<account, invited, ticket, session, mfa, flagged, mandate, work, spent,
                    accepted, proven, raced>>
    BY <1>2 DEF S!vars
  <2>2. SignInTypes'
    BY <2>1 DEF SignInInv, SignInTypes, S!TypeOK
  <2>3. Elsewhere
    BY <2>1 DEF Elsewhere
  <2> QED BY <2>1, <2>2, <2>3, <1>1, ElsewhereKeeps
<1>3. ASSUME \/ \E t \in S!Ticket : S!RequestMagicLink(t) \/ S!BeginLogin(t) \/ S!Expire(t)
             \/ S!EndInvitation \/ \E s \in Session : S!Ends(s)
             \/ S!SetMandate
      PROVE  SignInInv' /\ UNCHANGED mfa
  <2>1. SignInInv'
    BY <1>3, QuietSteps
  <2>2. UNCHANGED mfa
    BY <1>3 DEF S!RequestMagicLink, S!BeginLogin, S!Expire, S!EndInvitation, S!Ends,
       S!SetMandate, S!mfaVars
  <2> QED BY <2>1, <2>2
<1>4. ASSUME NEW c \in Caller,
             \/ \E t \in S!Ticket : S!ReadTicket(c, t)
             \/ S!ConsumeTicket(c) \/ S!EnterByLink(c) \/ S!EnterByProvider(c)
             \/ S!AcceptInvitation(c) \/ \E s \in Session : S!CreateSession(c, s)
      PROVE  SignInInv' /\ UNCHANGED mfa
  <2>1. SignInInv'
    BY <1>4, TicketSteps
  <2>2. UNCHANGED mfa
    BY <1>4 DEF S!ReadTicket, S!ConsumeTicket, S!EnterByLink, S!EnterByProvider,
       S!AcceptInvitation, S!CreateSession, S!mfaVars
  <2> QED BY <2>1, <2>2
<1>5. ASSUME NEW c \in Caller,
             \/ S!Dies(c) \/ S!FlagMfa(c) \/ S!PassSession(c) \/ S!UnflagMfa(c)
             \/ \E s \in Session :
                  \/ S!BeginMfaEnrollment(c, s) \/ S!PresentCode(c, s)
                  \/ \E code \in (S!Secret \X Code) \cup {None}, goal \in {"pass", "disable"} :
                       S!BeginChallenge(c, s, code, goal)
      PROVE  SignInInv' /\ UNCHANGED mfa
  <2>1. SignInInv'
    BY <1>5, FactorSteps
  <2>2. UNCHANGED mfa
    BY <1>5 DEF S!Dies, S!FlagMfa, S!PassSession, S!UnflagMfa, S!BeginMfaEnrollment,
       S!PresentCode, S!BeginChallenge, S!mfaVars
  <2> QED BY <2>1, <2>2
<1>6. ASSUME NEW c \in Caller,
             \/ S!StoreSecret(c) \/ S!ConfirmMfaEnrollment(c)
             \/ S!VerifyMfaChallenge(c) \/ S!DisableMfa(c)
      PROVE  SignInInv' /\ FactorStays
  BY <1>6, RowSteps DEF FactorStays
<1>7. CASE S!Next
  BY <1>7, <1>1, <1>3, <1>4, <1>5, <1>6 DEF S!Next, S!MfaNext
<1> QED BY <1>2, <1>7

(* What the invariant says of tickets, recovery codes and enrolments.       *)
LEMMA SignInSafe ==
    ASSUME SignInInv
    PROVE  S!OneSessionPerTicket /\ S!RecoveryCodesAreSingleUse /\ S!ConfirmedWasProven
<1>1. S!OneSessionPerTicket
  BY DEF SignInInv, TicketsInv, Sole, S!OneSessionPerTicket
<1>2. ASSUME NEW k \in S!Secret \X Code, k[1] \notin raced PROVE accepted[k] <= 1
  <2>1. accepted[k] \in Nat /\ Spent(k)
    BY DEF SignInInv, SignInTypes, CodesInv
  <2> QED BY <2>1, <1>2 DEF Spent
<1>3. S!ConfirmedWasProven
  BY DEF SignInInv, CodesInv
<1> QED BY <1>1, <1>2, <1>3 DEF S!RecoveryCodesAreSingleUse

-----------------------------------------------------------------------------
(* FederatedLogin.  What a callback carries: an answer that was issued, and *)
(* once it was verified, one to its own login request.                      *)
Carries(w) ==
    \/ w = F!Idle
    \/ /\ {"op", "login", "answer"} \subseteq DOMAIN w
       /\ w.op \in {"consume", "load", "verify", "admit"}
       /\ w.login \in Tab /\ w.answer \in answers
       /\ w.op = "admit" => w.answer.replyTo = w.login
(* The callbacks past the consumption of their login request: of a request  *)
(* that was consumed once there is one, no answer to it has been served     *)
(* yet, and it cannot be consumed again.                                    *)
Under(c, l) == callback[c].op \in {"load", "verify", "admit"} /\ callback[c].login = l
Gone(l) == login[l].state \in {"consumed", "pruned"}
ConsumedOnce(l) ==
    /\ \A c, d \in Caller : Under(c, l) /\ Under(d, l) => c = d
    /\ \A c \in Caller :
         Under(c, l) => Gone(l) /\ \A a \in answers : a.replyTo = l => served[a] = 0
    /\ \A a \in answers : a.replyTo = l /\ served[a] > 0 => Gone(l)
IsRequest(r) == r = [state |-> r.state, expires |-> r.expires]
FederationInv ==
    /\ DOMAIN callback = Caller /\ \A c \in Caller : Carries(callback[c])
    /\ DOMAIN login = Tab /\ \A l \in Tab : IsRequest(login[l])
    /\ served \in [answers -> Nat]
    /\ \A l \in Tab : l \notin crossed => ConsumedOnce(l)
    /\ F!AnswerServesOnce

(* No login request is open before anybody signs in.                        *)
LEMMA FederationInit == Init => FederationInv
<1> SUFFICES ASSUME Init PROVE FederationInv
  OBVIOUS
<1>1. /\ callback = [c \in Caller |-> F!Idle] /\ answers = {} /\ served = [a \in {} |-> 0]
      /\ login = [l \in Tab |-> [state |-> "none", expires |-> 0]]
  BY DEF Init, F!Init
<1>2. \A c \in Caller : Carries(callback[c])
  BY <1>1 DEF Carries
<1>3. \A l \in Tab : IsRequest(login[l])
  BY <1>1 DEF IsRequest
<1>4. \A c \in Caller : callback[c].op = "idle"
  BY <1>1 DEF F!Idle
<1>5. \A l \in Tab : ConsumedOnce(l)
  BY <1>1, <1>4 DEF ConsumedOnce, Under
<1> QED BY <1>1, <1>2, <1>3, <1>5 DEF FederationInv, F!AnswerServesOnce

(* Steps that consume no login request and serve no answer.                 *)
LEMMA FederationFrame ==
    ASSUME FederationInv, DOMAIN callback' = Caller, DOMAIN login' = Tab,
           \A c \in Caller : Carries(callback[c])',
           \A l \in Tab : IsRequest(login[l])' /\ (Gone(l) => Gone(l)'),
           answers \subseteq answers', served' \in [answers' -> Nat],
           \A a \in answers : served'[a] = served[a],
           \A a \in answers' \ answers : served'[a] = 0,
           crossed' = crossed,
           \A c \in Caller, l \in Tab : Under(c, l)' => Under(c, l)
    PROVE  FederationInv'
<1>1. ASSUME NEW l \in Tab, l \notin crossed' PROVE ConsumedOnce(l)'
  <2>1. ConsumedOnce(l)
    BY <1>1 DEF FederationInv
  <2>2. \A a \in answers' : served'[a] = 0 \/ (a \in answers /\ served'[a] = served[a])
    OBVIOUS
  <2>3. \A c \in Caller : Under(c, l)' => Under(c, l)
    OBVIOUS
  <2>4. Gone(l) => Gone(l)'
    OBVIOUS
  <2> QED BY <2>1, <2>2, <2>3, <2>4 DEF ConsumedOnce
<1>2. F!AnswerServesOnce'
  BY DEF FederationInv, F!AnswerServesOnce
<1> QED BY <1>1, <1>2 DEF FederationInv

(* A callback goes on.                                                      *)
Turned(c, w) ==
    DOMAIN callback' = Caller /\ callback'[c] = w /\ \A d \in Caller : d # c => callback'[d] = callback[d]

(* A callback's step starts where its last one ended and leaves the others. *)
LEMMA FederationGoes ==
    ASSUME FederationInv, NEW c \in Caller, NEW from, NEW w, F!Goes(c, from, w)
    PROVE  Turned(c, w) /\ callback[c].op = from
BY DEF FederationInv, F!Goes, Turned

(* Each step of FederatedLogin keeps the invariant: a login request is      *)
(* consumed before its answer is served.                                    *)
LEMMA FederationStep ==
    ASSUME FederationInv, [F!Next]_(F!vars)
    PROVE  FederationInv'
<1> USE DEF F!outside, F!people
<1>0. /\ DOMAIN callback = Caller /\ \A c \in Caller : Carries(callback[c])
      /\ DOMAIN login = Tab /\ \A l \in Tab : IsRequest(login[l])
      /\ served \in [answers -> Nat]
  BY DEF FederationInv
(* Only callbacks change, and none of them to the past of a consumption.    *)
<1>a. ASSUME NEW c \in Caller, NEW w, Turned(c, w), UNCHANGED <<login, answers, served, crossed>>,
             Carries(callback[c])', \A l \in Tab : Under(c, l)' => Under(c, l)
      PROVE  FederationInv'
  <2>1. \A d \in Caller : Carries(callback[d])' /\ \A l \in Tab : Under(d, l)' => Under(d, l)
    BY <1>0, <1>a DEF Turned, Carries, Under
  <2> QED BY <1>0, <1>a, <2>1, FederationFrame DEF Turned, Gone
<1>1. ASSUME UNCHANGED <<login, answers, callback, served, crossed>> PROVE FederationInv'
  <2>1. (\A c \in Caller : Carries(callback[c])') /\ \A c \in Caller, l \in Tab : Under(c, l)' => Under(c, l)
    BY <1>0, <1>1 DEF Carries, Under
  <2> QED BY <1>0, <1>1, <2>1, FederationFrame DEF Gone
<1>2. ASSUME NEW x, F!InForce(x), UNCHANGED <<login, answers, served, crossed>> PROVE FederationInv'
  <2>1. DOMAIN callback' = Caller
    BY <1>2 DEF F!InForce
  <2>2. ASSUME NEW c \in Caller
        PROVE  Carries(callback[c])' /\ \A l \in Tab : Under(c, l)' => Under(c, l)
    <3>1. CASE callback[c] = F!Idle
      <4>1. callback'[c] = F!Idle
        BY <1>2, <3>1 DEF F!InForce
      <4> QED BY <4>1 DEF Carries, Under, F!Idle
    <3>2. CASE callback[c] # F!Idle
      <4> DEFINE w == callback[c]
      <4>1. PICK y : callback'[c] = [w EXCEPT !.inForce = y]
        BY <1>2, <3>2 DEF F!InForce
      <4>2. {"op", "login", "answer"} \subseteq DOMAIN w
        BY <1>0, <3>2 DEF Carries
      <4>3. DOMAIN callback'[c] = DOMAIN w /\ callback'[c].op = w.op /\ callback'[c].login = w.login
            /\ callback'[c].answer = w.answer
        BY <4>1, <4>2
      <4> HIDE DEF w
      <4>4. w = callback[c]
        BY DEF w
      <4> QED BY <1>0, <1>2, <3>2, <4>2, <4>3, <4>4 DEF Carries, Under
    <3> QED BY <3>1, <3>2
  <2> QED BY <1>0, <1>2, <2>1, <2>2, FederationFrame DEF Gone
<1>3. ASSUME F!Tick \/ (\E k : F!RotateKey(k)) PROVE FederationInv'
  BY <1>3, <1>1 DEF F!Tick, F!RotateKey
<1>4. ASSUME (\E x : F!UpsertProvider(x)) \/ F!DeleteProvider PROVE FederationInv'
  <2>1. \E x : F!InForce(x)
    BY <1>4 DEF F!UpsertProvider, F!DeleteProvider
  <2>2. UNCHANGED <<login, answers, served, crossed>>
    BY <1>4 DEF F!UpsertProvider, F!DeleteProvider
  <2> QED BY <2>1, <2>2, <1>2
<1>5. ASSUME NEW l \in Tab, F!BeginLogin(l) PROVE FederationInv'
  <2>1. /\ login[l].state = "none" /\ UNCHANGED <<answers, callback, served, crossed>>
        /\ \E x : login' = [login EXCEPT ![l] = [state |-> "fresh", expires |-> x]]
    BY <1>5 DEF F!BeginLogin
  <2>2. DOMAIN login' = Tab /\ \A k \in Tab : IsRequest(login[k])' /\ (Gone(k) => Gone(k)')
    BY <1>0, <2>1 DEF IsRequest, Gone
  <2>3. (\A c \in Caller : Carries(callback[c])') /\ \A c \in Caller, k \in Tab : Under(c, k)' => Under(c, k)
    BY <1>0, <2>1 DEF Carries, Under
  <2> QED BY <1>0, <2>1, <2>2, <2>3, FederationFrame
<1>6. ASSUME F!PruneLoginRequests PROVE FederationInv'
  <2>1. UNCHANGED <<answers, callback, served, crossed>> /\ DOMAIN login' = Tab
        /\ \A l \in Tab : login'[l] = login[l] \/ login'[l] = [login[l] EXCEPT !.state = "pruned"]
    BY <1>6 DEF F!PruneLoginRequests
  <2>2. ASSUME NEW l \in Tab PROVE IsRequest(login[l])' /\ (Gone(l) => Gone(l)')
    <3> DEFINE r == login[l]
    <3>1. IsRequest(r)
      BY <1>0
    <3>2. [r EXCEPT !.state = "pruned"] = [state |-> "pruned", expires |-> r.expires]
      BY <3>1 DEF IsRequest
    <3>3. CASE login'[l] = login[l]
      BY <3>1, <3>3 DEF IsRequest, Gone
    <3>4. CASE login'[l] = [r EXCEPT !.state = "pruned"]
      BY <3>2, <3>4 DEF IsRequest, Gone
    <3> QED BY <2>1, <3>3, <3>4
  <2>3. (\A c \in Caller : Carries(callback[c])') /\ \A c \in Caller, k \in Tab : Under(c, k)' => Under(c, k)
    BY <1>0, <2>1 DEF Carries, Under
  <2> QED BY <1>0, <2>1, <2>2, <2>3, FederationFrame
<1>7. ASSUME NEW l, NEW s, NEW m, NEW i, NEW f, F!IssueAnswer(l, s, m, i, f) PROVE FederationInv'
  <2> DEFINE a == F!With(F!Sound(l, s, m, i), f)
  <2>1. /\ a \notin answers /\ answers' = answers \cup {a}
        /\ served' = [b \in answers \cup {a} |-> IF b \in answers THEN served[b] ELSE 0]
        /\ UNCHANGED <<login, callback, crossed>>
    BY <1>7 DEF F!IssueAnswer
  <2> HIDE DEF a
  <2>2. served' \in [answers' -> Nat] /\ (\A b \in answers : served'[b] = served[b])
        /\ \A b \in answers' \ answers : served'[b] = 0
    BY <1>0, <2>1
  <2>3. (\A c \in Caller : Carries(callback[c])') /\ \A c \in Caller, k \in Tab : Under(c, k)' => Under(c, k)
    BY <1>0, <2>1 DEF Carries, Under
  <2> QED BY <1>0, <2>1, <2>2, <2>3, FederationFrame DEF Gone
<1>8. ASSUME NEW c \in Caller, NEW l \in Tab, NEW a \in answers, F!FindRequest(c, l, a)
      PROVE  FederationInv'
  <2> DEFINE w == [op |-> "consume", login |-> l, answer |-> a, at |-> now, inForce |-> {connection}]
  <2>1. F!Goes(c, "idle", w) /\ UNCHANGED <<login, answers, served, crossed>>
    BY <1>8 DEF F!FindRequest
  <2>2. Turned(c, w)
    BY <2>1, FederationGoes
  <2>3. callback'[c].op = "consume" /\ Carries(callback[c])'
    BY <2>1, <2>2 DEF Turned, Carries
  <2> HIDE DEF w
  <2> QED BY <2>1, <2>2, <2>3, <1>a DEF Under
<1>9. ASSUME NEW c \in Caller, F!LoadProvider(c) PROVE FederationInv'
  <2> DEFINE v == callback[c]
             w == [op |-> "verify", login |-> v.login, answer |-> v.answer, at |-> v.at,
                   inForce |-> v.inForce, p |-> connection]
  <2>1. F!Goes(c, "load", w) /\ UNCHANGED <<login, answers, served, crossed>>
    BY <1>9 DEF F!LoadProvider
  <2>2. Turned(c, w) /\ v.op = "load"
    BY <2>1, FederationGoes
  <2>3. v.login \in Tab /\ v.answer \in answers
    BY <1>0, <2>2 DEF Carries, F!Idle
  <2>4. callback'[c].op = "verify" /\ callback'[c].login = v.login /\ Carries(callback[c])'
    BY <2>1, <2>2, <2>3 DEF Turned, Carries
  <2>5. \A l \in Tab : Under(c, l)' => Under(c, l)
    BY <2>2, <2>4 DEF Under
  <2> HIDE DEF w
  <2> QED BY <2>1, <2>2, <2>4, <2>5, <1>a
<1>10. ASSUME NEW c \in Caller, NEW groups, F!AcceptAnswer(c, groups) PROVE FederationInv'
  <2> DEFINE v == callback[c]  a == v.answer
             w == [op |-> "admit", answer |-> a, login |-> v.login, p |-> v.p, inForce |-> v.inForce,
                   roles |-> F!MapClaimsToRoleKeys(v.p, a.mail, groups)]
  <2>1. F!Goes(c, "verify", w) /\ UNCHANGED <<login, answers, served, crossed>>
        /\ a.replyTo = v.login
    BY <1>10 DEF F!AcceptAnswer, F!HasAddress, F!VerifySamlResponse, F!VerifyIdToken
  <2>2. Turned(c, w) /\ v.op = "verify"
    BY <2>1, FederationGoes
  <2>3. v.login \in Tab /\ a \in answers
    BY <1>0, <2>2 DEF Carries, F!Idle
  <2>4. callback'[c].op = "admit" /\ callback'[c].login = v.login /\ Carries(callback[c])'
    BY <2>1, <2>2, <2>3 DEF Turned, Carries
  <2>5. \A l \in Tab : Under(c, l)' => Under(c, l)
    BY <2>2, <2>4 DEF Under
  <2> HIDE DEF w
  <2> QED BY <2>1, <2>2, <2>4, <2>5, <1>a
<1>11. ASSUME NEW c \in Caller, F!Refuse(c) PROVE FederationInv'
  <2>1. Turned(c, F!Idle) /\ UNCHANGED <<login, answers, served, crossed>>
    BY <1>0, <1>11 DEF F!Refuse, Turned
  <2>2. callback'[c].op = "idle" /\ Carries(callback[c])'
    BY <2>1 DEF Turned, Carries, F!Idle
  <2> QED BY <2>1, <2>2, <1>a DEF Under
<1>12. ASSUME NEW c \in Caller, F!ConsumeRequest(c) PROVE FederationInv'
  <2> DEFINE v == callback[c]  k == v.login
             w == [v EXCEPT !.op = "load", !.inForce = {connection}]
  <2>1. /\ F!Goes(c, "consume", w) /\ UNCHANGED <<answers, served>>
        /\ login[k].state # "pruned"
        /\ login' = [login EXCEPT ![k].state = "consumed"]
        /\ crossed' = IF login[k].state = "consumed" THEN crossed \cup {k} ELSE crossed
    BY <1>12 DEF F!ConsumeRequest
  <2>2. Turned(c, w) /\ v.op = "consume"
    BY <2>1, FederationGoes
  <2>3. {"op", "login", "answer"} \subseteq DOMAIN v /\ k \in Tab /\ v.answer \in answers
    BY <1>0, <2>2 DEF Carries, F!Idle
  <2>4. DOMAIN callback'[c] = DOMAIN v /\ callback'[c].op = "load" /\ callback'[c].login = k
        /\ callback'[c].answer = v.answer
    BY <2>2, <2>3 DEF Turned
  <2> HIDE DEF w
  <2>5. ASSUME NEW d \in Caller PROVE Carries(callback[d])'
    <3>1. CASE d = c
      BY <2>1, <2>3, <2>4, <3>1 DEF Carries
    <3>2. CASE d # c
      BY <1>0, <2>1, <2>2, <3>2 DEF Carries, Turned
    <3> QED BY <3>1, <3>2
  <2>6. DOMAIN login' = Tab /\ (\A l \in Tab : IsRequest(login[l])') /\ login'[k].state = "consumed"
        /\ \A l \in Tab : l # k => login'[l] = login[l]
    <3> DEFINE r == login[k]
    <3>1. DOMAIN login' = Tab /\ (\A l \in Tab : l # k => login'[l] = login[l])
          /\ login'[k] = [r EXCEPT !.state = "consumed"]
      BY <1>0, <2>1, <2>3
    <3>2. IsRequest(r)
      BY <1>0, <2>3
    <3>3. [r EXCEPT !.state = "consumed"] = [state |-> "consumed", expires |-> r.expires]
      BY <3>2 DEF IsRequest
    <3>4. IsRequest(login'[k]) /\ login'[k].state = "consumed"
      BY <3>1, <3>3 DEF IsRequest
    <3>5. ASSUME NEW l \in Tab PROVE IsRequest(login[l])'
      <4>1. IsRequest(login[l])
        BY <1>0
      <4> QED BY <3>1, <3>4, <4>1 DEF IsRequest
    <3> QED BY <3>1, <3>4, <3>5
  <2>7. crossed \subseteq crossed'
    BY <2>1
  <2>8. ASSUME NEW l \in Tab, l \notin crossed' PROVE ConsumedOnce(l)'
    <3>1. ConsumedOnce(l)
      BY <2>7, <2>8 DEF FederationInv
    <3>2. CASE l = k
      <4>1. ~Gone(l)
        BY <2>1, <2>8, <3>2 DEF Gone
      <4>2. \A d \in Caller : Under(d, l)' => d = c
        BY <3>1, <4>1, <2>2 DEF ConsumedOnce, Turned, Under
      <4>3. \A a \in answers : a.replyTo = l => served[a] = 0
        <5>1. \A a \in answers : served[a] \in Nat
          BY <1>0
        <5> QED BY <3>1, <4>1, <5>1 DEF ConsumedOnce
      <4>4. Gone(l)'
        BY <2>6, <3>2 DEF Gone
      <4>5. \A a \in answers' : a.replyTo = l => served'[a] = 0
        BY <4>3, <2>1
      <4> QED BY <4>2, <4>4, <4>5 DEF ConsumedOnce
    <3>3. CASE l # k
      <4>1. \A d \in Caller : Under(d, l)' => Under(d, l)
        BY <2>2, <2>4, <3>3 DEF Turned, Under
      <4>2. Gone(l) => Gone(l)'
        BY <2>6, <3>3 DEF Gone
      <4> QED BY <3>1, <4>1, <4>2, <2>1 DEF ConsumedOnce
    <3> QED BY <3>2, <3>3
  <2>9. F!AnswerServesOnce'
    BY <2>1, <2>7 DEF FederationInv, F!AnswerServesOnce
  <2>10. served' \in [answers' -> Nat]
    BY <1>0, <2>1
  <2> QED BY <2>2, <2>5, <2>6, <2>8, <2>9, <2>10 DEF FederationInv, Turned
<1>13. ASSUME NEW c \in Caller, F!Admit(c) PROVE FederationInv'
  <2> DEFINE v == callback[c]  a == v.answer  k == v.login
  <2>1. /\ F!Goes(c, "admit", F!Idle) /\ UNCHANGED <<answers, login, crossed>>
        /\ served' = [served EXCEPT ![a] = @ + 1]
    BY <1>13 DEF F!Admit
  <2>2. Turned(c, F!Idle) /\ v.op = "admit"
    BY <2>1, FederationGoes
  <2>3. k \in Tab /\ a \in answers /\ a.replyTo = k
    BY <1>0, <2>2 DEF Carries, F!Idle
  <2>4. served' \in [answers' -> Nat] /\ served'[a] = served[a] + 1
        /\ \A b \in answers : b # a => served'[b] = served[b]
    BY <1>0, <2>1, <2>3
  <2>5. callback'[c].op = "idle" /\ \A d \in Caller : Carries(callback[d])'
    <3>1. Carries(callback[c])' /\ callback'[c].op = "idle"
      BY <2>2 DEF Turned, Carries, F!Idle
    <3>2. \A d \in Caller : d # c => Carries(callback[d])'
      BY <1>0, <2>1, <2>2 DEF Turned, Carries
    <3> QED BY <3>1, <3>2
  <2>6. Under(c, k)
    BY <2>2 DEF Under
  <2>7. \A d \in Caller, l \in Tab : Under(d, l)' => Under(d, l) /\ d # c
    BY <2>2, <2>5 DEF Turned, Under
  <2>8. ASSUME NEW l \in Tab, l \notin crossed'
        PROVE  ConsumedOnce(l)' /\ \A b \in answers : b.replyTo = l => served'[b] <= 1
    <3>1. ConsumedOnce(l) /\ \A b \in answers : b.replyTo = l => served[b] <= 1
      BY <2>1, <2>8 DEF FederationInv, F!AnswerServesOnce
    <3>2. CASE l = k
      <4>1. Gone(l) /\ \A b \in answers : b.replyTo = l => served[b] = 0
        BY <3>1, <3>2, <2>6 DEF ConsumedOnce
      <4>2. \A d \in Caller : ~Under(d, l)'
        BY <3>1, <3>2, <2>6, <2>7 DEF ConsumedOnce
      <4>3. Gone(l)'
        BY <4>1, <2>1 DEF Gone
      <4>4. \A b \in answers : b.replyTo = l => served'[b] <= 1
        BY <4>1, <2>4
      <4> QED BY <4>2, <4>3, <4>4 DEF ConsumedOnce
    <3>3. CASE l # k
      <4>1. \A b \in answers : b.replyTo = l => served'[b] = served[b]
        BY <3>3, <2>3, <2>4
      <4>2. \A d \in Caller : Under(d, l)' => Under(d, l)
        BY <2>7
      <4> QED BY <3>1, <4>1, <4>2, <2>1 DEF ConsumedOnce, Gone
    <3> QED BY <3>2, <3>3
  <2>9. F!AnswerServesOnce'
    <3> SUFFICES ASSUME NEW b \in answers, b.replyTo \notin crossed PROVE served'[b] <= 1
      BY <2>1 DEF F!AnswerServesOnce
    <3>1. CASE b = a
      BY <3>1, <2>1, <2>3, <2>8
    <3>2. CASE b # a
      BY <3>2, <2>4 DEF FederationInv, F!AnswerServesOnce
    <3> QED BY <3>1, <3>2
  <2> QED BY <1>0, <2>1, <2>2, <2>4, <2>5, <2>8, <2>9 DEF FederationInv, Turned, IsRequest
<1>14. CASE UNCHANGED F!vars
  BY <1>1, <1>14 DEF F!vars
<1>15. CASE F!Next
  BY <1>15, <1>3, <1>4, <1>5, <1>6, <1>7, <1>8, <1>9, <1>10, <1>11, <1>12, <1>13 DEF F!Next, F!SettingsNext
<1> QED BY <1>14, <1>15

-----------------------------------------------------------------------------
(* The invariants of sign-in and federation hold in every behaviour of the  *)
(* whole.                                                                   *)
LEMMA SafeSteps == [][Next]_identityVars /\ Init => [](SignInInv /\ FederationInv)
<1>1. SignInInv /\ FederationInv /\ [Next]_identityVars => (SignInInv /\ FederationInv)'
  BY Parts, SignInStep, FederationStep
<1> QED BY SignInInit, FederationInit, <1>1, PTL

(* A ticket opens one session, a recovery code is accepted once and an      *)
(* identity provider's answer completes one sign-in, unless two requests    *)
(* used them at a time (S!OneSessionPerTicket, S!RecoveryCodesAreSingleUse, *)
(* F!AnswerServesOnce).                                                     *)
THEOREM EverythingIsUsedOnce == Spec => []SingleUse
<1>1. SignInInv /\ FederationInv => SingleUse
  BY SignInSafe DEF SingleUse, FederationInv
<1> QED BY SafeSteps, <1>1, PTL DEF Spec, identityVars

(* A second factor is demanded only for a secret somebody presented a code  *)
(* of, and a confirmed one goes only with a code of it, unless requests     *)
(* overlapped (S!SecondFactorStands).                                       *)
THEOREM SecondFactorIsKept == Spec => SecondFactorStands
<1>1. SignInInv => S!ConfirmedWasProven
  BY SignInSafe
<1>2. SignInInv /\ [Next]_identityVars => [FactorStays]_(S!vars)
  BY Parts, SignInStep
<1> QED BY SafeSteps, <1>1, <1>2, PTL
   DEF Spec, identityVars, SecondFactorStands, S!SecondFactorStands, S!ConfirmedStays, FactorStays

-----------------------------------------------------------------------------
(* Members.  Types of the rows, the members of groups, and the requests     *)
(* that carry a SCIM configuration.                                         *)
RoleKeys == {"admin", "member", "lead"}
GroupNames == {"g", "h"}
IsGroup(s) ==
    /\ s = [name |-> s.name, members |-> s.members]
    /\ s.name \in GroupNames \cup {None}
    /\ s.members # {} => s.name \in GroupNames
MemberTypes ==
    /\ role \subseteq RoleKeys /\ {"admin", "member"} \subseteq role
    /\ DOMAIN member = User
    /\ \A u \in User :
         /\ IsMember(member[u])
         /\ member[u].status \in {"none", "active", "suspended"}
         /\ member[u].roles \subseteq role
    /\ DOMAIN invitation = Invitation
    /\ \A i \in Invitation :
         /\ invitation[i] = [status |-> invitation[i].status, user |-> invitation[i].user,
                             roles |-> invitation[i].roles]
         /\ invitation[i].status \in {"none", "pending", "accepted", "revoked"}
    /\ config \in ScimConfigs \cup {None}
    /\ scimUser \in [User -> {"none", "active", "inactive"}]
    /\ DOMAIN group = Group
    /\ \A g \in Group : IsGroup(group[g]) /\ group[g].members \subseteq M!ScimUsers
    /\ provider \in {"none", "on", "off"}
    /\ calls \in 0..MaxRequests

Provisioning(r) ==
    /\ Working(r)
    /\ "cf" \in DOMAIN r => r.op \in ScimOps
    /\ r.op = "removeRole" => r.role = "lead"
    /\ r.op \in {"createUser", "updateUser", "deleteUser"} => r.user \in User
    /\ r.op \in {"putGroup", "deleteGroup"} => r.group \in Group
    /\ r.op = "putGroup" => r.name \in GroupNames
ProvisioningInv ==
    /\ MemberTypes
    /\ DOMAIN request = Client /\ \A c \in Client : Provisioning(request[c])
    /\ M!ScimMirrorsMembership
    /\ M!GroupsDecideRoles

(* Group keys are configured names, so what a user's groups map to is       *)
(* managed.                                                                 *)
LEMMA WantedIsManaged ==
    ASSUME NEW groups, \A g \in Group : groups[g].members # {} => groups[g].name \in GroupNames,
           NEW u, NEW cf
    PROVE  M!Wanted(cf, u, groups) \subseteq M!ScimManagedRoleKeys(cf)
<1>1. M!GroupKeys(u, groups) \subseteq GroupNames
  BY DEF M!GroupKeys
<1> QED BY <1>1 DEF M!Wanted, M!ResolveScimRoleKeys, M!ScimManagedRoleKeys, M!Mapped, GroupNames

(* The links that a request has written and those that others have          *)
(* committed are the keys of the groups as the request leaves them.         *)
Reconciling == {"createUser", "updateUser", "putGroup", "deleteGroup"}
LEMMA LinksAreKeys ==
    ASSUME DOMAIN group = Group, NEW r, r.op \in Reconciling, Provisioning(r), NEW u, u \in r.users
    PROVE  M!OwnLinks(r, u) \cup M!OtherLinks(r, u) = M!GroupKeys(u, M!After(r))
<1> DEFINE g == r.group  own == M!OwnLinks(r, u)  other == M!OtherLinks(r, u)  after == M!After(r)
<1>1. CASE r.op \in {"createUser", "updateUser"}
  BY <1>1 DEF M!OwnLinks, M!OtherLinks, M!After
<1>2. CASE r.op \in {"putGroup", "deleteGroup"}
  <2> DEFINE without == [group EXCEPT ![g] = M!NoGroup]
  <2>1. g \in Group /\ other = M!GroupKeys(u, without)
    BY <1>2 DEF M!OtherLinks, Provisioning
  <2>2. \A h \in Group : u \in without[h].members <=> h # g /\ u \in group[h].members
    BY <2>1 DEF M!NoGroup
  <2>3. \A h \in Group \ {g} : without[h] = group[h]
    BY <2>1
  <2>4. \A h \in Group \ {g} : after[h] = group[h]
    BY <1>2, <2>1 DEF M!After
  <2>5. CASE r.op = "putGroup"
    <3>1. after[g].name = r.name /\ (u \in after[g].members <=> u \in r.added)
      BY <2>1, <2>5 DEF M!After
    <3>2. own = IF u \in r.added THEN {r.name} ELSE {}
      BY <2>5 DEF M!OwnLinks
    <3> HIDE DEF own, other, after, without
    <3>3. own \cup other = M!GroupKeys(u, after)
      BY <2>1, <2>2, <2>3, <2>4, <3>1, <3>2 DEF M!GroupKeys
    <3> QED BY <3>3 DEF own, other, after
  <2>6. CASE r.op = "deleteGroup"
    <3>1. after[g].members = {} /\ own = {}
      BY <2>1, <2>6 DEF M!After, M!OwnLinks, M!NoGroup
    <3> HIDE DEF own, other, after, without
    <3>2. own \cup other = M!GroupKeys(u, after)
      BY <2>1, <2>2, <2>3, <2>4, <3>1 DEF M!GroupKeys
    <3> QED BY <3>2 DEF own, other, after
  <2> QED BY <1>2, <2>5, <2>6
<1> QED BY <1>1, <1>2 DEF Reconciling

(* Group keys are configured names after a request as well.                 *)
LEMMA KeysAreNames ==
    ASSUME ProvisioningInv, NEW r, r.op \in Reconciling, Provisioning(r)
    PROVE  \A g \in Group : M!After(r)[g].members # {} => M!After(r)[g].name \in GroupNames
<1>1. DOMAIN group = Group /\ \A g \in Group : group[g].members # {} => group[g].name \in GroupNames
  BY DEF ProvisioningInv, MemberTypes, IsGroup
<1>2. r.op = "putGroup" => r.name \in GroupNames /\ r.group \in Group
  BY DEF Provisioning
<1>3. r.op = "deleteGroup" => r.group \in Group
  BY DEF Provisioning
<1> QED BY <1>1, <1>2, <1>3 DEF M!After, M!NoGroup, Reconciling

(* What a reconciliation leaves: only roles that exist, every role that is  *)
(* not managed, and, if what it has read still holds, of the managed ones   *)
(* those the groups map to.                                                 *)
LEMMA ReconciliationFollows ==
    ASSUME ProvisioningInv, NEW r, r.op \in Reconciling, Provisioning(r), M!Reconciled(r),
           NEW u \in User
    PROVE  /\ M!RolesFrom(r, u) \subseteq role
           /\ member[u].roles \ M!ScimManagedRoleKeys(r.cf) \subseteq M!RolesFrom(r, u)
           /\ u \notin r.users => M!RolesFrom(r, u) = member[u].roles
           /\ u \in M!Settled(r) =>
                M!RolesFrom(r, u) \cap M!ScimManagedRoleKeys(config)
                  = M!Wanted(config, u, M!After(r)) \cap role
<1> DEFINE kept == M!RolesFrom(r, u)  change == M!ReconcileMemberRoles(r, u)
           managed == M!ScimManagedRoleKeys(r.cf)
           links == M!OwnLinks(r, u) \cup r.saw[u].links
           wanted == M!ResolveScimRoleKeys(r.cf, links)
           held == r.saw[u].held  known == r.saw[u].known
<1>1. member[u].roles \subseteq role
  BY DEF ProvisioningInv, MemberTypes
<1>2. CASE u \notin r.users
  <2>1. kept = member[u].roles /\ u \notin M!Settled(r)
    BY <1>2 DEF M!RolesFrom, M!Settled
  <2> HIDE DEF kept
  <2> QED BY <1>1, <1>2, <2>1 DEF kept
<1>3. CASE u \in r.users
  <2>1. kept = (member[u].roles \ change.takes) \cup change.gives
    BY <1>3 DEF M!RolesFrom
  <2>2. change.gives = (known \cap wanted) \ held /\ change.takes = held \cap (managed \ wanted)
    BY DEF M!ReconcileMemberRoles
  <2>3. change.gives \subseteq role
    BY <1>3 DEF M!Reconciled
  <2>4. ASSUME u \in M!Settled(r)
        PROVE  kept \cap M!ScimManagedRoleKeys(config) = M!Wanted(config, u, M!After(r)) \cap role
    <3>1. /\ r.cf = config
          /\ r.saw[u] = [links |-> M!OtherLinks(r, u), held |-> member[u].roles, known |-> role]
      BY <2>4 DEF M!Settled
    <3>2. r.saw[u].links = M!OtherLinks(r, u) /\ held = member[u].roles /\ known = role
      BY <3>1
    <3>3. links = M!GroupKeys(u, M!After(r))
      <4>1. DOMAIN group = Group
        BY DEF ProvisioningInv, MemberTypes
      <4> QED BY <1>3, <3>2, <4>1, LinksAreKeys
    <3>4. wanted = M!Wanted(config, u, M!After(r))
      BY <3>1, <3>3 DEF M!Wanted
    <3>5. wanted \subseteq managed
      <4> DEFINE gs == M!After(r)  cf == r.cf
      <4>1. \A g \in Group : gs[g].members # {} => gs[g].name \in GroupNames
        BY KeysAreNames
      <4> HIDE DEF gs
      <4>2. M!Wanted(cf, u, gs) \subseteq M!ScimManagedRoleKeys(cf)
        BY <4>1, WantedIsManaged
      <4> QED BY <3>1, <3>4, <4>2 DEF gs
    <3>6. managed = M!ScimManagedRoleKeys(config)
      BY <3>1
    <3> HIDE DEF kept, change, managed, wanted, held, known
    <3>7. kept \cap managed = wanted \cap role
      BY <1>1, <2>1, <2>2, <3>2, <3>5
    <3> QED BY <3>4, <3>6, <3>7
  <2> HIDE DEF change, managed, wanted, held, known
  <2>5. kept \subseteq role /\ member[u].roles \ managed \subseteq kept
    <3> HIDE DEF kept
    <3> QED BY <1>1, <2>1, <2>2, <2>3
  <2> QED BY <1>3, <2>4, <2>5 DEF managed
<1> QED BY <1>2, <1>3

(* Roles are those of the groups if each member was reconciled or neither   *)
(* his roles nor his groups have changed.                                   *)
LEMMA RolesFollow ==
    ASSUME ProvisioningInv, role' = role, config' = config,
           config # None =>
           \A u \in M!ScimUsers' \ drifted' :
             \/ u \in M!ScimUsers \ drifted /\ member'[u].roles = member[u].roles
                /\ M!GroupKeys(u, group') = M!GroupKeys(u, group)
             \/ member'[u].roles \cap M!ScimManagedRoleKeys(config)
                  = M!Wanted(config, u, group') \cap role
    PROVE  M!GroupsDecideRoles'
<1> SUFFICES ASSUME config # None, NEW u \in M!ScimUsers' \ drifted'
             PROVE  member'[u].roles \cap M!ScimManagedRoleKeys(config)
                      = M!Wanted(config, u, group') \cap role
  <2>1. M!ScimManagedRoleKeys(config)' = M!ScimManagedRoleKeys(config)
    BY DEF M!ScimManagedRoleKeys, M!Mapped
  <2>2. \A u : M!Wanted(config, u, group)' = M!Wanted(config, u, group')
    BY DEF M!Wanted, M!ResolveScimRoleKeys, M!Mapped, M!GroupKeys
  <2> QED BY <2>1, <2>2 DEF M!GroupsDecideRoles
<1>1. CASE u \in M!ScimUsers \ drifted /\ member'[u].roles = member[u].roles
           /\ M!GroupKeys(u, group') = M!GroupKeys(u, group)
  <2>1. M!Wanted(config, u, group') = M!Wanted(config, u, group)
    BY <1>1 DEF M!Wanted
  <2>2. member[u].roles \cap M!ScimManagedRoleKeys(config) = M!Wanted(config, u, group) \cap role
    BY <1>1 DEF ProvisioningInv, M!GroupsDecideRoles
  <2> QED BY <1>1, <2>1, <2>2
<1> QED BY <1>1

(* Rows of the organization are as typed at the start; nobody is provisioned. *)
LEMMA ProvisioningInit == Init => ProvisioningInv
<1> SUFFICES ASSUME Init PROVE ProvisioningInv
  OBVIOUS
<1>1. M!Init
  BY DEF Init
<1>2. PICK first \in User, others \in SUBSET User : first \notin others /\
       (\/ M!Administrators({first} \cup others) /\ calls = 0
        \/ \E called \in [Group -> {"g", "h"}] : M!Provisioned(first, others, called) /\ calls = 1)
  BY <1>1 DEF M!Init
<1>3. role = {"admin", "member"} \cup {"lead"} /\ config \in ScimConfigs \cup {None}
      /\ provider = "on" /\ request = [c \in Client |-> M!Idle]
  BY <1>1 DEF M!Init
<1> DEFINE Provided ==
             /\ DOMAIN member = User
             /\ \A u \in User : \E a \in {"none", "active"}, k \in SUBSET role :
                  member[u] = [status |-> a, roles |-> k]
             /\ scimUser \in [User -> {"none", "active", "inactive"}]
             /\ DOMAIN group = Group
             /\ \A g \in Group : IsGroup(group[g]) /\ group[g].members \subseteq M!ScimUsers
             /\ calls \in {0, 1}
             /\ M!ScimMirrorsMembership /\ M!GroupsDecideRoles
<1>a. ASSUME M!Administrators({first} \cup others), calls = 0 PROVE Provided
  <2>1. /\ scimUser = [u \in User |-> "none"]
        /\ group = [g \in Group |-> [name |-> None, members |-> {}]]
    BY <1>a DEF M!Administrators, M!NoGroup
  <2>2. /\ DOMAIN member = User
        /\ \A u \in User : member[u] = [status |-> "active", roles |-> {"admin"}]
                           \/ member[u] = [status |-> "none", roles |-> {}]
    BY <1>a DEF M!Administrators, M!NoMember
  <2>3. {"admin"} \in SUBSET role /\ {} \in SUBSET role
    BY <1>3
  <2>4. \A u \in User : \E a \in {"none", "active"}, k \in SUBSET role :
          member[u] = [status |-> a, roles |-> k]
    BY <2>2, <2>3
  <2>5. M!ScimUsers = {}
    BY <2>1 DEF M!ScimUsers
  <2>6. M!ScimMirrorsMembership /\ M!GroupsDecideRoles
    BY <2>5 DEF M!ScimMirrorsMembership, M!GroupsDecideRoles
  <2>7. \A g \in Group : IsGroup(group[g]) /\ group[g].members \subseteq M!ScimUsers
    BY <2>1 DEF IsGroup
  <2>8. Provided
    BY <1>a, <2>1, <2>2, <2>4, <2>6, <2>7
  <2> QED BY <2>8
<1>b. ASSUME NEW called \in [Group -> {"g", "h"}], M!Provisioned(first, others, called), calls = 1
      PROVE  Provided
  <2> DEFINE kept(u) == role \cap M!Wanted(config, u, group)
  <2>1. /\ scimUser = [u \in User |-> IF u \in others THEN "active" ELSE "none"]
        /\ group = [g \in Group |-> [name |-> called[g], members |-> others]]
        /\ DOMAIN member = User
    BY <1>b DEF M!Provisioned
  <2>2. \A u \in User :
          \/ member[u] = [status |-> "active", roles |-> {"admin"}] /\ u = first
          \/ member[u] = [status |-> "active", roles |-> kept(u)] /\ u \in others
          \/ member[u] = M!NoMember /\ u \notin others
    <3>1. member = [u \in User |->
                     CASE u = first -> [status |-> "active", roles |-> {"admin"}]
                       [] u \in others -> [status |-> "active", roles |-> kept(u)]
                       [] OTHER -> M!NoMember]
      BY <1>b DEF M!Provisioned
    <3> HIDE DEF kept
    <3>2. ASSUME NEW u \in User
          PROVE  \/ member[u] = [status |-> "active", roles |-> {"admin"}] /\ u = first
                 \/ member[u] = [status |-> "active", roles |-> kept(u)] /\ u \in others
                 \/ member[u] = M!NoMember /\ u \notin others
      <4>1. member[u] = CASE u = first -> [status |-> "active", roles |-> {"admin"}]
                          [] u \in others -> [status |-> "active", roles |-> kept(u)]
                          [] OTHER -> M!NoMember
        BY <3>1
      <4>2. CASE u = first
        BY <1>2, <4>1, <4>2
      <4>3. CASE u # first /\ u \in others
        BY <4>1, <4>3
      <4>4. CASE u # first /\ u \notin others
        BY <4>1, <4>4
      <4> QED BY <4>2, <4>3, <4>4
    <3> QED BY <3>2
  <2>3. M!ScimUsers = others
    BY <2>1 DEF M!ScimUsers
  <2>4. \A g \in Group : IsGroup(group[g]) /\ group[g].members \subseteq M!ScimUsers
    BY <2>1, <2>3 DEF IsGroup, GroupNames
  <2>5. \A u : kept(u) \subseteq M!ScimManagedRoleKeys(config)
    <3>1. \A g \in Group : group[g].members # {} => group[g].name \in GroupNames
      BY <2>4 DEF IsGroup
    <3>2. ASSUME NEW u PROVE kept(u) \subseteq M!ScimManagedRoleKeys(config)
      <4> DEFINE gs == group  cf == config
      <4>1. M!Wanted(cf, u, gs) \subseteq M!ScimManagedRoleKeys(cf)
        BY <3>1, WantedIsManaged
      <4> QED BY <4>1
    <3> QED BY <3>2
  <2>6. {"admin"} \subseteq role /\ \A u : kept(u) \subseteq role
    BY <1>3
  <2>k. \A u : kept(u) = M!Wanted(config, u, group) \cap role
    OBVIOUS
  <2> HIDE DEF kept
  <2>m. ASSUME NEW u \in others
        PROVE  member[u].status = "active" /\ member[u].roles = kept(u) /\ u \in User
    <3>1. u \in User /\ member[u] = [status |-> "active", roles |-> kept(u)]
      BY <1>2, <2>2
    <3> DEFINE k == kept(u)
    <3>2. member[u] = [status |-> "active", roles |-> k]
      BY <3>1
    <3> HIDE DEF k
    <3>3. member[u].status = "active" /\ member[u].roles = k
      BY <3>2
    <3> QED BY <3>1, <3>3 DEF k
  <2>7. M!GroupsDecideRoles
    <3>1. \A u \in others : member[u].roles = kept(u)
      BY <2>m
    <3>3. \A u \in others :
            member[u].roles \cap M!ScimManagedRoleKeys(config) = M!Wanted(config, u, group) \cap role
      BY <2>5, <2>k, <3>1
    <3> QED BY <2>3, <3>3 DEF M!GroupsDecideRoles
  <2>8. M!ScimMirrorsMembership
    <3>1. \A u \in others : member[u].status = "active" /\ scimUser[u] = "active"
      BY <2>1, <2>m
    <3> QED BY <2>3, <3>1 DEF M!ScimMirrorsMembership, M!StatusOf
  <2>9. \A u \in User : \E a \in {"none", "active"}, k \in SUBSET role :
          member[u] = [status |-> a, roles |-> k]
    <3>1. {"admin"} \in SUBSET role /\ {} \in SUBSET role /\ \A u : kept(u) \in SUBSET role
      BY <2>6
    <3> QED BY <2>2, <3>1 DEF M!NoMember
  <2>10. scimUser \in [User -> {"none", "active", "inactive"}] /\ DOMAIN group = Group
    BY <2>1
  <2> QED BY <1>b, <2>1, <2>4, <2>7, <2>8, <2>9, <2>10
<1>4. Provided
  <2> HIDE DEF Provided
  <2> QED BY <1>2, <1>a, <1>b
<1>c. ASSUME NEW u \in User
      PROVE  /\ IsMember(member[u])
             /\ member[u].status \in {"none", "active", "suspended"}
             /\ member[u].roles \subseteq role
  <2>1. PICK a \in {"none", "active"}, k \in SUBSET role : member[u] = [status |-> a, roles |-> k]
    BY <1>4
  <2> QED BY <2>1 DEF IsMember
<1>5. DOMAIN invitation = Invitation
      /\ \A i \in Invitation :
           /\ invitation[i] = [status |-> invitation[i].status, user |-> invitation[i].user,
                               roles |-> invitation[i].roles]
           /\ invitation[i].status \in {"none", "pending", "accepted", "revoked"}
  <2>1. PICK seeded \in SUBSET Invitation, u \in {v \in User : member[v] = M!NoMember} \cup {None},
             keys \in {a \in {{"admin"}, {"member"}, {"lead"}} : a \subseteq {"admin", "member"}} :
            invitation = [i \in Invitation |->
                         IF i \in seeded /\ u # None
                         THEN [status |-> "pending", user |-> u, roles |-> keys]
                         ELSE [status |-> "none", user |-> None, roles |-> {}]]
    BY <1>1 DEF M!Init
  <2> QED BY <2>1
<1>6. MemberTypes
  <2>1. calls \in 0..MaxRequests
    <3>1. MaxRequests \in Nat \ {0}
      BY IdentityAssumption DEF M!MembersAssumption
    <3>2. calls \in {0, 1}
      BY <1>4
    <3> QED BY <3>1, <3>2
  <2> QED BY <1>3, <1>4, <1>c, <1>5, <2>1 DEF MemberTypes, RoleKeys
<1>7. \A c \in Client : Provisioning(request[c])
  BY <1>3 DEF Provisioning, Working, ScimOps, M!Idle
<1> QED BY <1>3, <1>4, <1>6, <1>7 DEF ProvisioningInv

MemberRows ==
    /\ DOMAIN member = User
    /\ \A u \in User :
         /\ IsMember(member[u])
         /\ member[u].status \in {"none", "active", "suspended"}
         /\ member[u].roles \subseteq role
RolesRight == M!ScimMirrorsMembership /\ M!GroupsDecideRoles
ScimStays == UNCHANGED <<role, config, scimUser, group>>

(* Roles that other means than SCIM write set the member apart.             *)
LEMMA OthersStay ==
    ASSUME ProvisioningInv, NEW u, DOMAIN member' = User, \A v \in User \ {u} : member'[v] = member[v],
           rejoined \subseteq rejoined', drifted' = drifted \cup {u}, ScimStays,
           u \in User => u \in rejoined' \/ member'[u].status = member[u].status
    PROVE  RolesRight'
<1>1. M!ScimMirrorsMembership'
  BY DEF ProvisioningInv, M!ScimMirrorsMembership, M!ScimUsers, ScimStays
<1>2. M!GroupsDecideRoles'
  <2>1. \A v \in M!ScimUsers' \ drifted' :
           v \in M!ScimUsers \ drifted /\ member'[v].roles = member[v].roles
           /\ M!GroupKeys(v, group') = M!GroupKeys(v, group)
    BY DEF M!ScimUsers, ScimStays
  <2> QED BY <2>1, RolesFollow DEF ScimStays
<1> QED BY <1>1, <1>2 DEF RolesRight

(* Accepting an invitation or signing in through the provider sets the      *)
(* member apart and gives him only roles that exist.                        *)
LEMMA JoinsKeep ==
    ASSUME ProvisioningInv, NEW u, NEW keys, M!Joins(u, keys), ScimStays
    PROVE  MemberRows' /\ RolesRight'
<1> DEFINE r == member[u].roles \cup (keys \cap role)
<1>1. member' = [member EXCEPT ![u] = [status |-> "active", roles |-> r]]
      /\ rejoined' = rejoined \cup {u} /\ drifted' = drifted \cup {u}
  BY DEF M!Joins
<1>2. u \in User => r \subseteq role
  BY DEF ProvisioningInv, MemberTypes
<1> HIDE DEF r
<1>3. MemberRows'
  BY <1>1, <1>2 DEF ProvisioningInv, MemberTypes, MemberRows, IsMember, ScimStays
<1>4. RolesRight'
  BY <1>1, OthersStay DEF ProvisioningInv, MemberTypes
<1> QED BY <1>3, <1>4

(* So does an administrator who assigns existing roles.                     *)
LEMMA SetRolesKeep ==
    ASSUME ProvisioningInv, NEW u, NEW keys, keys \subseteq role,
           member' = [member EXCEPT ![u].roles = keys],
           rejoined' = rejoined, drifted' = drifted \cup {u}, ScimStays
    PROVE  MemberRows' /\ RolesRight'
<1>1. u \in User => member'[u] = [status |-> member[u].status, roles |-> keys]
  BY DEF ProvisioningInv, MemberTypes, IsMember
<1>2. DOMAIN member' = User /\ \A v \in User \ {u} : member'[v] = member[v]
  BY DEF ProvisioningInv, MemberTypes
<1>3. MemberRows'
  BY <1>1, <1>2 DEF ProvisioningInv, MemberTypes, MemberRows, IsMember, ScimStays
<1>4. RolesRight'
  BY <1>1, <1>2, OthersStay
<1> QED BY <1>3, <1>4

(* A custom role that is removed is taken from members and from what groups *)
(* can map to alike.                                                        *)
LEMMA RemoveRoleKeeps ==
    ASSUME ProvisioningInv, role' = role \ {"lead"},
           member' = [u \in User |-> [member[u] EXCEPT !.roles = @ \ {"lead"}]],
           UNCHANGED <<config, scimUser, group, rejoined, drifted>>
    PROVE  MemberRows' /\ RolesRight'
<1>1. \A u \in User : member'[u] = [status |-> member[u].status, roles |-> member[u].roles \ {"lead"}]
  <2>1. ASSUME NEW u \in User
        PROVE  member'[u] = [status |-> member[u].status, roles |-> member[u].roles \ {"lead"}]
    <3>1. member'[u] = [member[u] EXCEPT !.roles = member[u].roles \ {"lead"}]
      OBVIOUS
    <3>2. IsMember(member[u])
      BY DEF ProvisioningInv, MemberTypes
    <3> QED BY <3>1, <3>2, WithRoles
  <2> QED BY <2>1
<1>2. \A u \in User : IsMember(member'[u]) /\ member'[u].status = member[u].status
                      /\ member'[u].roles = member[u].roles \ {"lead"}
  BY <1>1 DEF IsMember
<1>3. MemberRows'
  <2>1. \A u \in User : /\ member[u].status \in {"none", "active", "suspended"}
                        /\ member[u].roles \subseteq role
    BY DEF ProvisioningInv, MemberTypes
  <2>2. \A u \in User : /\ member'[u].status \in {"none", "active", "suspended"}
                        /\ member'[u].roles \subseteq role'
    BY <1>2, <2>1
  <2> QED BY <1>2, <2>2 DEF MemberRows
<1>4. M!ScimMirrorsMembership'
  BY <1>2 DEF ProvisioningInv, M!ScimMirrorsMembership, M!ScimUsers
<1>5. M!GroupsDecideRoles'
  <2> SUFFICES ASSUME config # None, NEW u \in M!ScimUsers \ drifted
               PROVE  member'[u].roles \cap M!ScimManagedRoleKeys(config)
                        = M!Wanted(config, u, group) \cap role'
    <3>1. M!ScimUsers' = M!ScimUsers /\ M!ScimManagedRoleKeys(config)' = M!ScimManagedRoleKeys(config)
      BY DEF M!ScimUsers, M!ScimManagedRoleKeys, M!Mapped
    <3>2. \A u : M!Wanted(config, u, group)' = M!Wanted(config, u, group)
      BY DEF M!Wanted, M!ResolveScimRoleKeys, M!Mapped, M!GroupKeys
    <3> QED BY <3>1, <3>2 DEF M!GroupsDecideRoles
  <2>1. member[u].roles \cap M!ScimManagedRoleKeys(config) = M!Wanted(config, u, group) \cap role
    BY DEF ProvisioningInv, M!GroupsDecideRoles
  <2>2. u \in User
    BY DEF M!ScimUsers
  <2> QED BY <1>2, <2>1, <2>2
<1> QED BY <1>3, <1>4, <1>5 DEF RolesRight, MemberRows

HandRolesLeft(cf) == \A v \in User : member[v].roles \ M!ScimManagedRoleKeys(cf) \subseteq member'[v].roles
GroupRows == DOMAIN group = Group /\ \A g \in Group : IsGroup(group[g]) /\ group[g].members \subseteq M!ScimUsers

(* A deleted user loses the managed roles and leaves all groups.            *)
LEMMA DeletionKeeps ==
    ASSUME ProvisioningInv, NEW u \in User, NEW cf,
           scimUser' = [scimUser EXCEPT ![u] = "none"],
           group' = [g \in Group |-> [group[g] EXCEPT !.members = @ \ {u}]],
           member' = [member EXCEPT ![u] = [status |-> "suspended",
                                            roles |-> @.roles \ M!ScimManagedRoleKeys(cf)]],
           UNCHANGED <<role, config, rejoined, drifted>>
    PROVE  MemberRows' /\ RolesRight' /\ GroupRows' /\ HandRolesLeft(cf)
           /\ scimUser' \in [User -> {"none", "active", "inactive"}]
<1> DEFINE left == member[u].roles \ M!ScimManagedRoleKeys(cf)
<1>1. member' = [member EXCEPT ![u] = [status |-> "suspended", roles |-> left]]
  OBVIOUS
<1>2. left \subseteq role
  BY DEF ProvisioningInv, MemberTypes
<1>3. /\ scimUser' \in [User -> {"none", "active", "inactive"}]
      /\ scimUser'[u] = "none" /\ \A v \in User \ {u} : scimUser'[v] = scimUser[v]
  BY DEF ProvisioningInv, MemberTypes
<1>4. M!ScimUsers' = M!ScimUsers \ {u}
  BY <1>3 DEF M!ScimUsers
<1>5. HandRolesLeft(cf)
  <2> HIDE DEF left
  <2>1. member'[u].roles = left /\ \A v \in User \ {u} : member'[v] = member[v]
    BY <1>1 DEF ProvisioningInv, MemberTypes
  <2> QED BY <2>1 DEF HandRolesLeft, left
<1> HIDE DEF left
<1>6. DOMAIN member' = User /\ member'[u].status = "suspended" /\ member'[u].roles = left
      /\ IsMember(member'[u]) /\ \A v \in User \ {u} : member'[v] = member[v]
  BY <1>1, IsARecord DEF ProvisioningInv, MemberTypes
<1>7. MemberRows'
  BY <1>2, <1>6 DEF ProvisioningInv, MemberTypes, MemberRows
<1>8. \A g \in Group : group'[g] = [name |-> group[g].name, members |-> group[g].members \ {u}]
  <2>1. ASSUME NEW g \in Group
        PROVE  group'[g] = [name |-> group[g].name, members |-> group[g].members \ {u}]
    <3>1. group'[g] = [group[g] EXCEPT !.members = group[g].members \ {u}]
      OBVIOUS
    <3>2. group[g] = [name |-> group[g].name, members |-> group[g].members]
      BY DEF ProvisioningInv, MemberTypes, IsGroup
    <3> DEFINE s == group[g]
    <3> HIDE DEF s
    <3>3. group'[g] = [s EXCEPT !.members = s.members \ {u}] /\ s = [name |-> s.name, members |-> s.members]
      BY <3>1, <3>2 DEF s
    <3>4. group'[g] = [name |-> s.name, members |-> s.members \ {u}]
      BY <3>3
    <3> QED BY <3>4 DEF s
  <2> QED BY <2>1
<1>9. \A g \in Group : group'[g].name = group[g].name /\ group'[g].members = group[g].members \ {u}
  BY <1>8
<1>10. GroupRows'
  <2>1. \A g \in Group : IsGroup(group'[g])
    BY <1>8, <1>9 DEF ProvisioningInv, MemberTypes, IsGroup
  <2>2. \A g \in Group : group'[g].members \subseteq M!ScimUsers'
    BY <1>4, <1>9 DEF ProvisioningInv, MemberTypes
  <2> QED BY <2>1, <2>2 DEF GroupRows
<1>11. M!ScimMirrorsMembership'
  BY <1>3, <1>4, <1>6 DEF ProvisioningInv, M!ScimMirrorsMembership, M!ScimUsers, M!StatusOf
<1>12. M!GroupsDecideRoles'
  <2>1. ASSUME NEW v \in M!ScimUsers' \ drifted'
        PROVE  v \in M!ScimUsers \ drifted /\ member'[v].roles = member[v].roles
               /\ M!GroupKeys(v, group') = M!GroupKeys(v, group)
    <3>1. v # u /\ v \in M!ScimUsers /\ v \in User
      BY <1>4 DEF M!ScimUsers
    <3>2. M!GroupKeys(v, group') = M!GroupKeys(v, group)
      BY <1>9, <3>1 DEF M!GroupKeys
    <3> QED BY <1>6, <3>1, <3>2
  <2> QED BY <2>1, RolesFollow
<1> QED BY <1>3, <1>5, <1>7, <1>10, <1>11, <1>12 DEF RolesRight, MemberRows, GroupRows

(* A created or updated user gets the status the call names, unless it was  *)
(* there when the call looked, and the managed roles of his groups; the     *)
(* others keep theirs.                                                      *)
LEMMA ProvisionsKeep ==
    ASSUME ProvisioningInv, NEW r, r.op \in {"createUser", "updateUser"}, Provisioning(r),
           M!Provisions(r)
    PROVE  /\ MemberRows' /\ RolesRight' /\ HandRolesLeft(r.cf)
           /\ scimUser' \in [User -> {"none", "active", "inactive"}] /\ M!ScimUsers \subseteq M!ScimUsers'
<1> DEFINE u == r.user  kept == M!RolesFrom(r, u)  status == M!ApplyMembershipStatus(r)
           set == M!StatusOf(r.active)
<1>1. /\ scimUser' = [scimUser EXCEPT ![u] = M!UserRow(r.active)]
      /\ member' = [member EXCEPT ![u] = [status |-> status, roles |-> kept]]
      /\ rejoined' = IF r.was = set /\ member[u].status # r.was
                     THEN rejoined \cup {u} ELSE rejoined \ {u}
      /\ M!Resettles(r, {}) /\ M!Reconciled(r)
      /\ UNCHANGED <<role, config, group>>
  BY DEF M!Provisions
<1>2. u \in User /\ r.users = {u} /\ r.op \in Reconciling
  BY <1>1 DEF Provisioning, Working, ScimOps, M!Reconciled, Reconciling
<1>3. /\ kept \subseteq role /\ member[u].roles \ M!ScimManagedRoleKeys(r.cf) \subseteq kept
      /\ u \in M!Settled(r) =>
           kept \cap M!ScimManagedRoleKeys(config) = M!Wanted(config, u, M!After(r)) \cap role
  BY <1>1, <1>2, ReconciliationFollows
<1>4. M!After(r) = group
  BY DEF M!After
<1>5. /\ set \in {"active", "suspended"} /\ M!UserRow(r.active) \in {"active", "inactive"}
      /\ set = M!StatusOf(M!UserRow(r.active) = "active")
  BY DEF M!StatusOf, M!UserRow
<1>6. status = IF r.was = set THEN member[u].status ELSE set
  BY DEF M!ApplyMembershipStatus
<1>7. u \notin rejoined' => status = set
  BY <1>1, <1>6
<1>8. status \in {"none", "active", "suspended"}
  BY <1>2, <1>5, <1>6 DEF ProvisioningInv, MemberTypes
<1> HIDE DEF kept, status, set, u
<1>9. DOMAIN member' = User /\ member'[u].status = status /\ member'[u].roles = kept
      /\ IsMember(member'[u]) /\ \A v \in User \ {u} : member'[v] = member[v]
  BY <1>1, <1>2, IsARecord DEF ProvisioningInv, MemberTypes
<1>10. /\ scimUser' \in [User -> {"none", "active", "inactive"}] /\ scimUser'[u] = M!UserRow(r.active)
       /\ \A v \in User \ {u} : scimUser'[v] = scimUser[v]
  BY <1>1, <1>2, <1>5 DEF ProvisioningInv, MemberTypes
<1>11. M!ScimUsers' = M!ScimUsers \cup {u}
  BY <1>2, <1>5, <1>10 DEF M!ScimUsers
<1>12. MemberRows'
  BY <1>1, <1>3, <1>8, <1>9 DEF ProvisioningInv, MemberTypes, MemberRows
<1>13. M!ScimMirrorsMembership'
  <2>1. \A v \in M!ScimUsers \ rejoined : v \in User /\ member[v].status = M!StatusOf(scimUser[v] = "active")
    BY DEF ProvisioningInv, M!ScimMirrorsMembership, M!ScimUsers
  <2>2. ASSUME NEW v \in M!ScimUsers' \ rejoined'
        PROVE  member'[v].status = M!StatusOf(scimUser'[v] = "active")
    <3>1. CASE v = u
      BY <1>5, <1>7, <1>9, <1>10, <2>2, <3>1
    <3>2. CASE v # u
      <4>1. v \in M!ScimUsers \ rejoined
        BY <1>1, <1>11, <2>2, <3>2
      <4> QED BY <1>9, <1>10, <2>1, <3>2, <4>1
    <3> QED BY <3>1, <3>2
  <2> QED BY <2>2 DEF M!ScimMirrorsMembership, M!StatusOf
<1>14. M!GroupsDecideRoles'
  <2>1. ASSUME NEW v \in M!ScimUsers' \ drifted'
        PROVE  \/ v \in M!ScimUsers \ drifted /\ member'[v].roles = member[v].roles
                  /\ M!GroupKeys(v, group') = M!GroupKeys(v, group)
               \/ member'[v].roles \cap M!ScimManagedRoleKeys(config)
                    = M!Wanted(config, v, group') \cap role
    <3>1. drifted' = (drifted \cup r.users) \ M!Settled(r)
      BY <1>1 DEF M!Resettles
    <3>2. CASE v = u
      <4>1. u \in M!Settled(r)
        BY <1>2, <2>1, <3>1, <3>2
      <4> QED BY <1>1, <1>3, <1>4, <1>9, <3>2, <4>1
    <3>3. CASE v # u
      <4>1. v \notin M!Settled(r)
        BY <1>2, <3>3 DEF M!Settled
      <4>2. v \in M!ScimUsers /\ v \notin drifted /\ v \in User
        BY <1>2, <1>11, <2>1, <3>1, <3>3, <4>1 DEF M!ScimUsers
      <4> QED BY <1>1, <1>9, <3>3, <4>2
    <3> QED BY <3>2, <3>3
  <2> QED BY <1>1, <2>1, RolesFollow
<1>15. HandRolesLeft(r.cf)
  BY <1>3, <1>9 DEF HandRolesLeft
<1> QED BY <1>10, <1>11, <1>12, <1>13, <1>14, <1>15 DEF RolesRight, MemberRows

(* Whoever comes to a group or leaves it is reconciled, and whoever else    *)
(* keeps his groups keeps his roles.                                        *)
LEMMA RegroupsKeep ==
    ASSUME ProvisioningInv, NEW r, r.op \in {"putGroup", "deleteGroup"}, Provisioning(r),
           M!Regroups(r), NEW others, M!Resettles(r, others),
           \A u \in User \ (r.users \cup others) : M!GroupKeys(u, M!After(r)) = M!GroupKeys(u, group)
    PROVE  MemberRows' /\ RolesRight' /\ HandRolesLeft(r.cf)
<1>1. /\ group' = M!After(r) /\ M!Reconciled(r)
      /\ member' = [u \in User |-> [member[u] EXCEPT !.roles = M!RolesFrom(r, u)]]
      /\ UNCHANGED <<role, config, scimUser, rejoined>>
      /\ drifted' = (drifted \cup r.users \cup others) \ M!Settled(r)
  BY DEF M!Regroups, M!Resettles
<1>2. r.op \in Reconciling
  BY DEF Reconciling
<1>3. ASSUME NEW u \in User
      PROVE  IsMember(member'[u]) /\ member'[u].status = member[u].status
             /\ member'[u].roles = M!RolesFrom(r, u)
  <2> DEFINE kept == M!RolesFrom(r, u)
  <2>1. member'[u] = [member[u] EXCEPT !.roles = kept] /\ IsMember(member[u])
    BY <1>1 DEF ProvisioningInv, MemberTypes
  <2> HIDE DEF kept
  <2>2. member'[u] = [status |-> member[u].status, roles |-> kept]
    BY <2>1, WithRoles
  <2>3. member'[u].status = member[u].status /\ member'[u].roles = kept /\ IsMember(member'[u])
    BY <2>2, IsARecord
  <2> QED BY <2>3 DEF kept
<1>4. \A u \in User :
        /\ M!RolesFrom(r, u) \subseteq role
        /\ member[u].roles \ M!ScimManagedRoleKeys(r.cf) \subseteq M!RolesFrom(r, u)
        /\ u \notin r.users => M!RolesFrom(r, u) = member[u].roles
        /\ u \in M!Settled(r) =>
             M!RolesFrom(r, u) \cap M!ScimManagedRoleKeys(config)
               = M!Wanted(config, u, M!After(r)) \cap role
  BY <1>1, <1>2, ReconciliationFollows
<1>5. DOMAIN member' = User
  BY <1>1
<1>6. MemberRows'
  BY <1>1, <1>3, <1>4, <1>5 DEF ProvisioningInv, MemberTypes, MemberRows
<1>7. M!ScimMirrorsMembership'
  BY <1>1, <1>3 DEF ProvisioningInv, M!ScimMirrorsMembership, M!ScimUsers, M!StatusOf
<1>8. HandRolesLeft(r.cf)
  BY <1>3, <1>4 DEF HandRolesLeft
<1>9. M!GroupsDecideRoles'
  <2>1. ASSUME NEW u \in M!ScimUsers' \ drifted'
        PROVE  \/ u \in M!ScimUsers \ drifted /\ member'[u].roles = member[u].roles
                  /\ M!GroupKeys(u, group') = M!GroupKeys(u, group)
               \/ member'[u].roles \cap M!ScimManagedRoleKeys(config)
                    = M!Wanted(config, u, group') \cap role
    <3>1. u \in M!ScimUsers /\ u \in User
      BY <1>1 DEF M!ScimUsers
    <3>2. CASE u \in M!Settled(r)
      BY <1>1, <1>3, <1>4, <3>1, <3>2
    <3>3. CASE u \notin M!Settled(r)
      <4>1. u \notin drifted /\ u \notin r.users /\ u \notin others
        BY <1>1, <2>1, <3>3
      <4> QED BY <1>1, <1>3, <1>4, <3>1, <4>1
    <3> QED BY <3>2, <3>3
  <2> QED BY <1>1, <2>1, RolesFollow
<1> QED BY <1>6, <1>7, <1>8, <1>9 DEF RolesRight, MemberRows

(* Who is not reconciled when a group is written keeps his groups, and if   *)
(* the group keeps its name, or he was none of its members, their keys.     *)
LEMMA SetGroupKeeps ==
    ASSUME ProvisioningInv, NEW c \in Client, M!SetGroupMembers(c)
    PROVE  MemberRows' /\ RolesRight' /\ GroupRows' /\ HandRolesLeft(request[c].cf)
<1> DEFINE r == request[c]  g == r.group
           others == IF r.name = group[g].name THEN {} ELSE group'[g].members
           ms == (group[g].members \cup r.added) \ (r.users \ r.added)
<1>1. r.op = "putGroup" /\ r.added \subseteq M!ScimUsers /\ M!Regroups(r) /\ M!Resettles(r, others)
  BY DEF M!SetGroupMembers, M!Closes
<1>2. g \in Group /\ r.name \in GroupNames /\ r.added \subseteq r.users /\ Provisioning(r)
  BY <1>1 DEF ProvisioningInv, Provisioning, Working, ScimOps
<1>3. group' = [group EXCEPT ![g] = [name |-> r.name, members |-> ms]] /\ group' = M!After(r)
      /\ UNCHANGED scimUser
  BY <1>1 DEF M!Regroups, M!After
<1>4. DOMAIN group = Group /\ \A h \in Group : IsGroup(group[h]) /\ group[h].members \subseteq M!ScimUsers
  BY DEF ProvisioningInv, MemberTypes
<1>5. ms \subseteq M!ScimUsers
  BY <1>1, <1>2, <1>4
<1>6. \A u : u \notin r.users => (u \in ms <=> u \in group[g].members)
  BY <1>2
<1> HIDE DEF ms
<1>7. DOMAIN group' = Group /\ group'[g].name = r.name /\ group'[g].members = ms /\ IsGroup(group'[g])
      /\ \A h \in Group \ {g} : group'[h] = group[h]
  BY <1>2, <1>3, <1>4 DEF IsGroup
<1>8. GroupRows'
  <2>1. M!ScimUsers' = M!ScimUsers
    BY <1>3 DEF M!ScimUsers
  <2> QED BY <1>4, <1>5, <1>7, <2>1 DEF GroupRows
<1>9. ASSUME NEW u \in User \ (r.users \cup others)
      PROVE  M!GroupKeys(u, M!After(r)) = M!GroupKeys(u, group)
  <2>1. \A h \in Group : /\ (u \in group'[h].members <=> u \in group[h].members)
                         /\ (u \in group[h].members => group'[h].name = group[h].name)
    BY <1>6, <1>7, <1>9
  <2> DEFINE gs == group'
  <2> HIDE DEF gs
  <2>2. gs = M!After(r) /\ \A h \in Group : /\ (u \in gs[h].members <=> u \in group[h].members)
                                            /\ (u \in group[h].members => gs[h].name = group[h].name)
    BY <1>3, <2>1 DEF gs
  <2>3. M!GroupKeys(u, gs) = M!GroupKeys(u, group)
    BY <2>2 DEF M!GroupKeys
  <2> QED BY <2>2, <2>3
<1> HIDE DEF others
<1>10. MemberRows' /\ RolesRight' /\ HandRolesLeft(r.cf)
  <2> HIDE DEF r
  <2> QED BY <1>1, <1>2, <1>9, RegroupsKeep
<1> QED BY <1>8, <1>10

(* Who is not reconciled when a group is deleted was none of its members,   *)
(* or is set apart.                                                         *)
LEMMA DeleteGroupKeeps ==
    ASSUME ProvisioningInv, NEW c \in Client, M!ScimDeleteGroup(c)
    PROVE  MemberRows' /\ RolesRight' /\ GroupRows' /\ HandRolesLeft(request[c].cf)
<1> DEFINE r == request[c]  g == r.group  others == group[g].members
<1>1. r.op = "deleteGroup" /\ M!Regroups(r) /\ M!Resettles(r, others)
  BY DEF M!ScimDeleteGroup, M!Closes
<1>2. g \in Group /\ Provisioning(r)
  BY <1>1 DEF ProvisioningInv, Provisioning
<1>3. group' = [group EXCEPT ![g] = [name |-> None, members |-> {}]] /\ group' = M!After(r)
      /\ UNCHANGED scimUser
  BY <1>1 DEF M!Regroups, M!After, M!NoGroup
<1>4. DOMAIN group = Group /\ \A h \in Group : IsGroup(group[h]) /\ group[h].members \subseteq M!ScimUsers
  BY DEF ProvisioningInv, MemberTypes
<1>5. DOMAIN group' = Group /\ group'[g].members = {} /\ IsGroup(group'[g])
      /\ \A h \in Group \ {g} : group'[h] = group[h]
  <2>1. DOMAIN group' = Group /\ group'[g] = [name |-> None, members |-> {}]
        /\ \A h \in Group \ {g} : group'[h] = group[h]
    BY <1>2, <1>3, <1>4
  <2>2. group'[g].name = None /\ group'[g].members = {}
    BY <2>1
  <2> QED BY <2>1, <2>2 DEF IsGroup
<1>6. GroupRows'
  <2>1. M!ScimUsers' = M!ScimUsers
    BY <1>3 DEF M!ScimUsers
  <2> QED BY <1>4, <1>5, <2>1 DEF GroupRows
<1>7. ASSUME NEW u \in User \ (r.users \cup others)
      PROVE  M!GroupKeys(u, M!After(r)) = M!GroupKeys(u, group)
  <2> DEFINE gs == group'
  <2> HIDE DEF gs
  <2>1. gs = M!After(r) /\ \A h \in Group : /\ (u \in gs[h].members <=> u \in group[h].members)
                                            /\ (u \in group[h].members => gs[h].name = group[h].name)
    BY <1>3, <1>5, <1>7 DEF gs
  <2>2. M!GroupKeys(u, gs) = M!GroupKeys(u, group)
    BY <2>1 DEF M!GroupKeys
  <2> QED BY <2>1, <2>2
<1> HIDE DEF others
<1>8. MemberRows' /\ RolesRight' /\ HandRolesLeft(r.cf)
  <2> HIDE DEF r
  <2> QED BY <1>1, <1>2, <1>7, RegroupsKeep
<1> QED BY <1>6, <1>8

ProvisioningRequests == DOMAIN request = Client /\ \A c \in Client : Provisioning(request[c])
OtherRows ==
    /\ role \subseteq RoleKeys /\ {"admin", "member"} \subseteq role
    /\ DOMAIN invitation = Invitation
    /\ \A i \in Invitation :
         /\ invitation[i] = [status |-> invitation[i].status, user |-> invitation[i].user,
                             roles |-> invitation[i].roles]
         /\ invitation[i].status \in {"none", "pending", "accepted", "revoked"}
    /\ config \in ScimConfigs \cup {None}
    /\ provider \in {"none", "on", "off"}
ScimRows == GroupRows /\ scimUser \in [User -> {"none", "active", "inactive"}]

(* The invariant by what the steps change.                                  *)
LEMMA InvParts ==
    /\ ProvisioningInv <=> (OtherRows /\ MemberRows /\ ScimRows /\ RolesRight
                            /\ ProvisioningRequests /\ calls \in 0..MaxRequests)
    /\ (ProvisioningInv <=> (OtherRows /\ MemberRows /\ ScimRows /\ RolesRight
                            /\ ProvisioningRequests /\ calls \in 0..MaxRequests))'
BY DEF ProvisioningInv, MemberTypes, OtherRows, MemberRows, ScimRows, GroupRows, RolesRight,
       ProvisioningRequests

(* What is not written stays right.                                         *)
LEMMA TablesStay ==
    ASSUME ProvisioningInv
    PROVE  /\ UNCHANGED <<role, member>> => MemberRows'
           /\ UNCHANGED <<scimUser, group>> => ScimRows'
           /\ UNCHANGED <<role, member, config, scimUser, group, rejoined, drifted>> => RolesRight'
           /\ UNCHANGED <<role, invitation, config, provider>> => OtherRows'
<1>1. OtherRows /\ MemberRows /\ ScimRows /\ RolesRight
  BY InvParts
<1>2. UNCHANGED <<role, member>> => MemberRows'
  BY <1>1 DEF MemberRows
<1>3. UNCHANGED <<scimUser, group>> => ScimRows'
  BY <1>1 DEF ScimRows, GroupRows, M!ScimUsers
<1>4. UNCHANGED <<role, member, config, scimUser, group, rejoined, drifted>> => RolesRight'
  BY <1>1 DEF RolesRight, M!ScimMirrorsMembership, M!GroupsDecideRoles, M!ScimUsers, M!StatusOf,
     M!ScimManagedRoleKeys, M!Mapped, M!Wanted, M!ResolveScimRoleKeys, M!GroupKeys
<1>5. UNCHANGED <<role, invitation, config, provider>> => OtherRows'
  BY <1>1 DEF OtherRows
<1> QED BY <1>2, <1>3, <1>4, <1>5

(* One client's request changes.                                            *)
LEMMA RequestsTurn ==
    ASSUME ProvisioningInv, NEW c \in Client, NEW r, Provisioning(r),
           request' = [request EXCEPT ![c] = r]
    PROVE  ProvisioningRequests' /\ request'[c] = r /\ \A d \in Client \ {c} : request'[d] = request[d]
BY DEF ProvisioningInv, ProvisioningRequests

(* No request carries no configuration.                                     *)
LEMMA IdleProvisions == Provisioning(M!Idle)
BY DEF Provisioning, Working, ScimOps, M!Idle

(* SCIM requests of one client that are finished leave unmanaged roles.     *)
HandRoles ==
    \A c \in Client :
      M!ScimStep(c) =>
        \A u \in User :
          member[u].roles \ M!ScimManagedRoleKeys(request[c].cf) \subseteq member'[u].roles

(* A request is opened: nothing is written.                                 *)
LEMMA OpensProvisions ==
    ASSUME ProvisioningInv, NEW c \in Client, NEW r, M!Opens(c, r), Provisioning(r)
    PROVE  ProvisioningInv' /\ HandRoles
<1>1. request' = [request EXCEPT ![c] = r] /\ calls' = calls + 1 /\ calls < MaxRequests
      /\ UNCHANGED <<role, member, invitation, config, scimUser, group, provider, rejoined, drifted>>
  BY DEF M!Opens, M!rows, M!history
<1>2. ProvisioningRequests'
  BY <1>1, RequestsTurn
<1>3. MaxRequests \in Nat
  BY IdentityAssumption DEF M!MembersAssumption
<1>4. calls' \in 0..MaxRequests
  BY <1>1, <1>3, InvParts
<1> QED BY <1>1, <1>2, <1>4, TablesStay, InvParts DEF HandRoles

(* A request is finished: only SCIM's carry a configuration, and those      *)
(* leave unmanaged roles.                                                   *)
LEMMA ClosesProvisions ==
    ASSUME ProvisioningInv, NEW c \in Client, NEW op, M!Closes(c, op),
           OtherRows', MemberRows', ScimRows', RolesRight',
           op \in ScimOps => HandRolesLeft(request[c].cf)
    PROVE  ProvisioningInv' /\ HandRoles
<1>1. request[c].op = op /\ request' = [request EXCEPT ![c] = M!Idle] /\ calls' = calls
  BY DEF M!Closes
<1>2. ProvisioningRequests' /\ \A d \in Client \ {c} : request'[d] = request[d]
  BY <1>1, RequestsTurn, IdleProvisions
<1>3. ProvisioningInv'
  BY <1>1, <1>2, InvParts
<1>4. HandRoles
  <2> SUFFICES ASSUME NEW d \in Client, M!ScimStep(d), NEW u \in User
               PROVE  member[u].roles \ M!ScimManagedRoleKeys(request[d].cf) \subseteq member'[u].roles
    BY DEF HandRoles
  <2>1. d = c /\ op \in ScimOps
    <3>1. d = c
      BY <1>2 DEF M!ScimStep
    <3>2. Provisioning(request[c])
      BY InvParts DEF ProvisioningRequests
    <3> QED BY <1>1, <3>1, <3>2 DEF M!ScimStep, Provisioning
  <2> QED BY <2>1 DEF HandRolesLeft
<1> QED BY <1>3, <1>4

(* A request of one step is none of SCIM's member calls.                    *)
LEMMA AtOnceProvisions ==
    ASSUME ProvisioningInv, M!AtOnce, OtherRows', MemberRows', ScimRows', RolesRight'
    PROVE  ProvisioningInv' /\ HandRoles
<1>1. UNCHANGED request /\ calls' = calls + 1 /\ calls < MaxRequests
  BY DEF M!AtOnce
<1>2. ProvisioningRequests'
  BY <1>1, InvParts DEF ProvisioningRequests
<1>3. MaxRequests \in Nat
  BY IdentityAssumption DEF M!MembersAssumption
<1>4. calls' \in 0..MaxRequests
  BY <1>1, <1>3, InvParts
<1>5. HandRoles
  BY <1>1 DEF HandRoles, M!ScimStep
<1> QED BY <1>2, <1>4, <1>5, InvParts

(* Each step of Members keeps rows and roles right.                         *)
LEMMA ProvisioningStep ==
    ASSUME ProvisioningInv, [M!Next]_(M!vars)
    PROVE  ProvisioningInv' /\ HandRoles
<1> DEFINE Good == ProvisioningInv' /\ HandRoles
<1>0. OtherRows /\ MemberRows /\ ScimRows /\ RolesRight /\ ProvisioningRequests
      /\ calls \in 0..MaxRequests
  BY InvParts
<1>1. CASE UNCHANGED M!vars
  <2>1. UNCHANGED <<role, member, invitation, config, scimUser, group, provider, rejoined,
                    drifted, request, calls>>
    BY <1>1 DEF M!vars
  <2>2. ProvisioningRequests' /\ calls' \in 0..MaxRequests
    BY <1>0, <2>1 DEF ProvisioningRequests
  <2> QED BY <2>1, <2>2, TablesStay, InvParts DEF HandRoles
<1>2. ASSUME NEW c \in Client, M!Abort(c) PROVE Good
  <2>1. /\ UNCHANGED <<role, member, invitation, config, scimUser, group, provider, rejoined,
                    drifted, calls>>
        /\ request' = [request EXCEPT ![c] = M!Idle]
    BY <1>2 DEF M!Abort, M!rows, M!history
  <2>2. ProvisioningRequests' /\ calls' \in 0..MaxRequests
    BY <1>0, <2>1, RequestsTurn, IdleProvisions
  <2> QED BY <2>1, <2>2, TablesStay, InvParts DEF HandRoles
<1>3. ASSUME NEW c \in Client, NEW u, NEW keys, M!BeginSetRoles(c, u, keys) PROVE Good
  <2> DEFINE r == [op |-> "setRoles", user |-> u, roles |-> keys, saw |-> M!Admins]
  <2>1. M!Opens(c, r) /\ Provisioning(r)
    BY <1>3 DEF M!BeginSetRoles, Provisioning, Working, ScimOps
  <2> HIDE DEF r
  <2> QED BY <2>1, OpensProvisions
<1>4. ASSUME NEW c \in Client, NEW i, M!BeginRevoke(c, i) \/ M!BeginAccept(c, i) PROVE Good
  <2> DEFINE r == [op |-> "revoke", inv |-> i, saw |-> invitation[i].status]
             s == [op |-> "accept", inv |-> i, saw |-> invitation[i].status]
  <2>1. (M!Opens(c, r) \/ M!Opens(c, s)) /\ Provisioning(r) /\ Provisioning(s)
    BY <1>4 DEF M!BeginRevoke, M!BeginAccept, Provisioning, Working, ScimOps
  <2> HIDE DEF r, s
  <2> QED BY <2>1, OpensProvisions
<1>5. ASSUME NEW c \in Client, NEW k \in {"lead"}, M!BeginRemoveRole(c, k) PROVE Good
  <2> DEFINE r == [op |-> "removeRole", role |-> k]
  <2>1. M!Opens(c, r) /\ Provisioning(r)
    BY <1>5 DEF M!BeginRemoveRole, Provisioning, Working, ScimOps
  <2> HIDE DEF r
  <2> QED BY <2>1, OpensProvisions
<1>6. ASSUME NEW c \in Client, NEW u \in User, NEW active,
             NEW what \in {"createUser", "updateUser", "deleteUser"},
             M!BeginUser(c, u, what, active)
      PROVE  Good
  <2> DEFINE r == [op |-> what, user |-> u, active |-> active, was |-> "none", cf |-> config,
                   step |-> "write", users |-> {}, todo |-> {}, now |-> None, saw |-> M!Unseen]
  <2>1. M!Opens(c, r) /\ Provisioning(r)
    BY <1>6 DEF M!BeginUser, Provisioning, Working, ScimOps
  <2> HIDE DEF r
  <2> QED BY <2>1, OpensProvisions
<1>7. ASSUME NEW c \in Client, NEW g \in Group, NEW n \in GroupNames, NEW ids, M!BeginGroup(c, g, n, ids)
      PROVE  Good
  <2> DEFINE r == [op |-> "putGroup", group |-> g, name |-> n, ids |-> ids, added |-> {},
                   was |-> group[g], cf |-> config,
                   step |-> "write", users |-> {}, todo |-> {}, now |-> None, saw |-> M!Unseen]
  <2>1. M!Opens(c, r) /\ Provisioning(r)
    BY <1>7 DEF M!BeginGroup, Provisioning, Working, ScimOps
  <2> HIDE DEF r
  <2> QED BY <2>1, OpensProvisions
<1>8. ASSUME NEW c \in Client, NEW g \in Group, M!BeginDeleteGroup(c, g) PROVE Good
  <2> DEFINE r == [op |-> "deleteGroup", group |-> g, was |-> group[g], cf |-> config,
                   step |-> "write", users |-> {}, todo |-> {}, now |-> None, saw |-> M!Unseen]
  <2>1. M!Opens(c, r) /\ Provisioning(r)
    BY <1>8 DEF M!BeginDeleteGroup, Provisioning, Working, ScimOps
  <2> HIDE DEF r
  <2> QED BY <2>1, OpensProvisions
<1>9. ASSUME NEW c \in Client, NEW u, M!BeginSsoLogin(c, u) PROVE Good
  <2> DEFINE r == [op |-> "sso", user |-> u]
  <2>1. M!Opens(c, r) /\ Provisioning(r)
    BY <1>9 DEF M!BeginSsoLogin, Provisioning, Working, ScimOps
  <2> HIDE DEF r
  <2> QED BY <2>1, OpensProvisions
<1>10. ASSUME NEW i, NEW x \in {"accepted", "revoked"}, UNCHANGED <<role, config, provider>>,
              invitation' = [invitation EXCEPT ![i].status = x]
       PROVE  OtherRows'
  <2>1. DOMAIN invitation' = Invitation /\ \A j \in Invitation \ {i} : invitation'[j] = invitation[j]
    BY <1>0, <1>10 DEF OtherRows
  <2>2. i \in Invitation => invitation'[i] = [status |-> x, user |-> invitation[i].user,
                                              roles |-> invitation[i].roles]
    <3> SUFFICES ASSUME i \in Invitation
                 PROVE  invitation'[i] = [status |-> x, user |-> invitation[i].user,
                                          roles |-> invitation[i].roles]
      OBVIOUS
    <3> DEFINE v == invitation[i]
    <3>1. v = [status |-> v.status, user |-> v.user, roles |-> v.roles]
          /\ invitation'[i] = [v EXCEPT !.status = x]
      BY <1>0, <1>10 DEF OtherRows
    <3> HIDE DEF v
    <3>2. invitation'[i] = [status |-> x, user |-> v.user, roles |-> v.roles]
      BY <3>1
    <3> QED BY <3>2 DEF v
  <2>3. i \in Invitation =>
          /\ invitation'[i] = [status |-> invitation'[i].status, user |-> invitation'[i].user,
                               roles |-> invitation'[i].roles]
          /\ invitation'[i].status = x
    BY <2>2
  <2> QED BY <1>0, <1>10, <2>1, <2>3 DEF OtherRows
<1>11. ASSUME NEW c \in Client, M!RevokeInvitation(c) PROVE Good
  <2>1. /\ M!Closes(c, "revoke")
        /\ invitation' = [invitation EXCEPT ![request[c].inv].status = "revoked"]
        /\ UNCHANGED <<role, member, config, scimUser, group, provider, unguarded, rejoined, drifted>>
    BY <1>11 DEF M!RevokeInvitation
  <2>2. OtherRows'
    BY <1>10, <2>1
  <2> QED BY <2>1, <2>2, TablesStay, ClosesProvisions DEF ScimOps
<1>12. ASSUME NEW c \in Client, M!AcceptInvitation(c) PROVE Good
  <2> DEFINE i == request[c].inv
  <2>1. /\ M!Closes(c, "accept") /\ M!Joins(invitation[i].user, invitation[i].roles)
        /\ invitation' = [invitation EXCEPT ![i].status = "accepted"]
        /\ UNCHANGED <<role, config, scimUser, group, provider>>
    BY <1>12 DEF M!AcceptInvitation
  <2>2. OtherRows'
    BY <1>10, <2>1
  <2>3. MemberRows' /\ RolesRight'
    BY <2>1, JoinsKeep DEF ScimStays
  <2> QED BY <2>1, <2>2, <2>3, TablesStay, ClosesProvisions DEF ScimOps
<1>13. ASSUME NEW c \in Client, M!CompleteSsoLogin(c) PROVE Good
  <2>1. /\ M!Closes(c, "sso") /\ UNCHANGED <<role, invitation, config, scimUser, group, provider>>
        /\ \/ \E u, keys : M!Joins(u, keys)
           \/ UNCHANGED <<member, rejoined, drifted>>
    BY <1>13 DEF M!CompleteSsoLogin
  <2>2. MemberRows' /\ RolesRight'
    BY <2>1, JoinsKeep, TablesStay DEF ScimStays
  <2> QED BY <2>1, <2>2, TablesStay, ClosesProvisions DEF ScimOps
<1>14. ASSUME NEW c \in Client, M!SetRoles(c) PROVE Good
  <2> DEFINE u == request[c].user  keys == request[c].roles
  <2>1. /\ M!Closes(c, "setRoles") /\ keys \subseteq role
        /\ member' = [member EXCEPT ![u].roles = keys] /\ drifted' = drifted \cup {u}
        /\ UNCHANGED <<role, invitation, config, scimUser, group, provider, rejoined>>
    BY <1>14 DEF M!SetRoles
  <2> HIDE DEF u, keys
  <2>2. MemberRows' /\ RolesRight'
    BY <2>1, SetRolesKeep DEF ScimStays
  <2> QED BY <2>1, <2>2, TablesStay, ClosesProvisions DEF ScimOps
<1>15. ASSUME NEW c \in Client, M!RemoveRole(c) PROVE Good
  <2>1. request[c].op = "removeRole"
    BY <1>15 DEF M!RemoveRole, M!Closes
  <2>2. request[c].role = "lead"
    BY <1>0, <2>1 DEF ProvisioningRequests, Provisioning
  <2>3. /\ M!Closes(c, "removeRole") /\ role' = role \ {"lead"}
        /\ member' = [u \in User |-> [member[u] EXCEPT !.roles = @ \ {"lead"}]]
        /\ UNCHANGED <<invitation, config, scimUser, group, provider, rejoined, drifted>>
    BY <1>15, <2>2 DEF M!RemoveRole, M!history
  <2>4. MemberRows' /\ RolesRight'
    BY <2>3, RemoveRoleKeeps
  <2>5. OtherRows'
    BY <1>0, <2>3 DEF OtherRows
  <2> QED BY <2>3, <2>4, <2>5, TablesStay, ClosesProvisions DEF ScimOps
<1>16. ASSUME NEW c \in Client,
              \/ M!WriteUser(c) \/ M!WriteGroup(c) \/ M!WriteDeletion(c)
              \/ (\E u \in User : M!FindLinks(c, u))
              \/ M!FindMembership(c) \/ M!FindRoles(c)
       PROVE  Good
  <2>1. Provisioning(request[c])
    BY <1>0 DEF ProvisioningRequests
  <2>2. PICK r : M!Goes(c, r) /\ Follows(r, request[c])
    BY <1>16, <2>1, GoesOn DEF Provisioning
  <2>3. Provisioning(r)
    <3> DEFINE old == request[c]
    <3>1. Follows(r, old) /\ Provisioning(old)
      BY <2>1, <2>2
    <3> HIDE DEF old
    <3>2. r.op = "deleteUser" => r.user = old.user
      BY <3>1 DEF Follows, Provisioning, ScimOps
    <3> QED BY <3>1, <3>2 DEF Follows, Provisioning, ScimOps
  <2>4. /\ request' = [request EXCEPT ![c] = r]
        /\ UNCHANGED <<role, member, invitation, config, scimUser, group, provider, rejoined,
                       drifted, calls>>
    BY <2>2 DEF M!Goes, M!rows, M!history
  <2>5. ProvisioningRequests' /\ \A d \in Client \ {c} : request'[d] = request[d]
    BY <2>3, <2>4, RequestsTurn
  <2>6. HandRoles
    BY <1>0, <2>4 DEF HandRoles, MemberRows
  <2> QED BY <1>0, <2>4, <2>5, <2>6, TablesStay, InvParts
<1>17. ASSUME NEW c \in Client, M!ScimCreateUser(c) \/ M!ScimUpdateUser(c) PROVE Good
  <2> DEFINE r == request[c]
  <2>1. /\ M!Closes(c, "createUser") \/ M!Closes(c, "updateUser")
        /\ M!Provisions(r)
    BY <1>17 DEF M!ScimCreateUser, M!ScimUpdateUser
  <2>2. r.op \in {"createUser", "updateUser"} /\ Provisioning(r)
    BY <1>0, <2>1 DEF M!Closes, ProvisioningRequests
  <2>3. UNCHANGED <<role, invitation, config, group, provider>>
    BY <2>1 DEF M!Provisions
  <2>4. /\ MemberRows' /\ RolesRight' /\ HandRolesLeft(r.cf)
        /\ scimUser' \in [User -> {"none", "active", "inactive"}] /\ M!ScimUsers \subseteq M!ScimUsers'
    <3> HIDE DEF r
    <3> QED BY <2>1, <2>2, ProvisionsKeep
  <2>5. ScimRows' /\ OtherRows'
    BY <1>0, <2>3, <2>4, TablesStay DEF ScimRows, GroupRows
  <2> QED BY <2>1, <2>4, <2>5, ClosesProvisions
<1>18. ASSUME NEW c \in Client, M!ScimDeleteUser(c) PROVE Good
  <2> DEFINE u == request[c].user  cf == request[c].cf
  <2>1. /\ M!Closes(c, "deleteUser")
        /\ scimUser' = [scimUser EXCEPT ![u] = "none"]
        /\ group' = [g \in Group |-> [group[g] EXCEPT !.members = @ \ {u}]]
        /\ member' = [member EXCEPT ![u] = [status |-> "suspended",
                                            roles |-> @.roles \ M!ScimManagedRoleKeys(cf)]]
        /\ UNCHANGED <<role, invitation, config, provider, rejoined, drifted>>
    BY <1>18 DEF M!ScimDeleteUser
  <2>2. u \in User
    BY <1>0, <2>1 DEF M!Closes, ProvisioningRequests, Provisioning
  <2> HIDE DEF u
  <2>a. cf = request[c].cf
    OBVIOUS
  <2> HIDE DEF cf
  <2>3. MemberRows' /\ RolesRight' /\ GroupRows' /\ HandRolesLeft(cf)
        /\ scimUser' \in [User -> {"none", "active", "inactive"}]
    BY <2>1, <2>2, DeletionKeeps
  <2>4. ScimRows' /\ OtherRows'
    BY <2>1, <2>3, TablesStay DEF ScimRows
  <2> QED BY <2>1, <2>3, <2>4, <2>a, ClosesProvisions
<1>19. ASSUME NEW c \in Client, M!SetGroupMembers(c) \/ M!ScimDeleteGroup(c) PROVE Good
  <2>1. MemberRows' /\ RolesRight' /\ GroupRows' /\ HandRolesLeft(request[c].cf)
    BY <1>19, SetGroupKeeps, DeleteGroupKeeps
  <2>2. /\ M!Closes(c, "putGroup") \/ M!Closes(c, "deleteGroup")
        /\ UNCHANGED <<role, invitation, config, scimUser, provider>>
    BY <1>19 DEF M!SetGroupMembers, M!ScimDeleteGroup, M!Regroups
  <2>3. ScimRows' /\ OtherRows'
    BY <1>0, <2>1, <2>2, TablesStay DEF ScimRows
  <2> QED BY <2>1, <2>2, <2>3, ClosesProvisions
<1>20. ASSUME NEW u, NEW keys, M!Invite(u, keys) PROVE Good
  <2>1. M!AtOnce /\ UNCHANGED <<role, member, invitation, config, scimUser, group, provider, rejoined, drifted>>
    BY <1>20 DEF M!Invite, M!rows, M!history
  <2> QED BY <2>1, TablesStay, AtOnceProvisions
<1>21. ASSUME NEW k \in {"lead"}, M!CreateRole(k) PROVE Good
  <2>1. /\ M!AtOnce /\ role' = role \cup {"lead"} /\ drifted' = User
        /\ UNCHANGED <<member, invitation, config, scimUser, group, provider, rejoined>>
    BY <1>21 DEF M!CreateRole
  <2>2. MemberRows' /\ OtherRows'
    BY <1>0, <2>1 DEF MemberRows, OtherRows, RoleKeys
  <2>3. RolesRight'
    BY <1>0, <2>1 DEF RolesRight, M!ScimMirrorsMembership, M!GroupsDecideRoles, M!ScimUsers, M!StatusOf
  <2> QED BY <2>1, <2>2, <2>3, TablesStay, AtOnceProvisions
<1>22. ASSUME NEW cf \in ScimConfigs, M!UpsertScimConfig(cf) PROVE Good
  <2>1. /\ M!AtOnce /\ config' = cf /\ drifted' = drifted \cup M!ScimUsers
        /\ UNCHANGED <<role, member, invitation, scimUser, group, provider, rejoined>>
    BY <1>22 DEF M!UpsertScimConfig
  <2>2. OtherRows'
    BY <1>0, <2>1 DEF OtherRows
  <2>3. RolesRight'
    BY <1>0, <2>1 DEF RolesRight, M!ScimMirrorsMembership, M!GroupsDecideRoles, M!ScimUsers, M!StatusOf
  <2> QED BY <2>1, <2>2, <2>3, TablesStay, AtOnceProvisions
<1>23. ASSUME M!DeleteScimConfig PROVE Good
  <2>1. /\ M!AtOnce /\ config' = None
        /\ scimUser' = [u \in User |-> "none"]
        /\ group' = [g \in Group |-> [name |-> None, members |-> {}]]
        /\ UNCHANGED <<role, member, invitation, provider, rejoined, drifted>>
    BY <1>23 DEF M!DeleteScimConfig, M!history, M!NoGroup
  <2>2. OtherRows'
    BY <1>0, <2>1 DEF OtherRows
  <2>3. M!ScimUsers' = {}
    BY <2>1 DEF M!ScimUsers
  <2>4. RolesRight'
    BY <2>3 DEF RolesRight, M!ScimMirrorsMembership, M!GroupsDecideRoles
  <2>5. \A g \in Group : IsGroup(group'[g]) /\ group'[g].members = {}
    BY <2>1 DEF IsGroup
  <2>6. ScimRows'
    BY <2>1, <2>5 DEF ScimRows, GroupRows
  <2> QED BY <2>1, <2>2, <2>4, <2>6, TablesStay, AtOnceProvisions
<1>24. ASSUME NEW p, M!UpsertIdentityProvider(p) PROVE Good
  <2>1. /\ M!AtOnce /\ provider' \in {"none", "on", "off"}
        /\ UNCHANGED <<role, member, invitation, config, scimUser, group, rejoined, drifted>>
    BY <1>24 DEF M!UpsertIdentityProvider, M!history
  <2>2. OtherRows'
    BY <1>0, <2>1 DEF OtherRows
  <2> QED BY <2>1, <2>2, TablesStay, AtOnceProvisions
<1>25. ASSUME M!Next PROVE Good
  <2> HIDE DEF Good
  <2> QED BY <1>25, <1>2, <1>3, <1>4, <1>5, <1>6, <1>7, <1>8, <1>9, <1>11, <1>12, <1>13, <1>14, <1>15,
     <1>16, <1>17, <1>18, <1>19, <1>20, <1>21, <1>22, <1>23, <1>24 DEF M!Next, GroupNames
<1> QED BY <1>1, <1>25

-----------------------------------------------------------------------------
(* FederatedLogin.  A callback acts on a configuration that was in force since its login     *)
(* request was consumed, and whoever it admits has a platform user.         *)
Entry(w) ==
    \/ w = F!Idle
    \/ /\ {"op", "login", "answer", "inForce"} \subseteq DOMAIN w
       /\ w.op \in {"consume", "load", "verify", "admit"}
       /\ w.answer \in answers
       /\ connection \in w.inForce
       /\ w.op \in {"verify", "admit"} => "p" \in DOMAIN w /\ w.p \in w.inForce
       /\ w.op = "admit" => w.answer.mail = "ann" /\ externalId["ann"] # None
EntryInv ==
    /\ \A a \in answers : a.subject \in Subject /\ a.mail \in {"ann", None}
    /\ DOMAIN externalId = {"ann"} /\ DOMAIN link = Subject /\ DOMAIN admitted = {"ann"}
    /\ admitted["ann"] # {}
    /\ \A s \in Subject :
         link[s] # None => link[s] = "ann" /\ admitted["ann"] # None /\ externalId["ann"] # None
    /\ DOMAIN callback = Caller /\ \A c \in Caller : Entry(callback[c])

(* No address, subject or set of roles is the absent one.                   *)
LEMMA NoneIsNobody ==
    /\ None \notin Subject /\ None # "ann" /\ {} # None
    /\ \A r \in SUBSET {"admin", "member", "lead"} : r # None
<1>1. None \notin Subject \cup {"ann"} /\ \A r \in SUBSET {"admin", "member", "lead"} : r # None
  BY IdentityAssumption DEF F!FederatedLoginAssumption
<1> QED BY <1>1

(* Nobody is linked before anybody signs in.                                *)
LEMMA EntryInit == Init => EntryInv
<1> SUFFICES ASSUME Init PROVE EntryInv
  OBVIOUS
<1>1. /\ callback = [c \in Caller |-> F!Idle] /\ answers = {}
      /\ externalId = [m \in {"ann"} |-> None] /\ link = [s \in Subject |-> None]
      /\ admitted = [m \in {"ann"} |-> None]
  BY DEF Init, F!Init
<1> QED BY <1>1, NoneIsNobody DEF EntryInv, Entry

(* Who is linked is admitted, and nobody is admitted by a provider that was *)
(* not in force.                                                            *)
LEMMA EntrySafe == EntryInv => F!OnlyByProviderInForce /\ F!LinkedAreMembers
<1> SUFFICES ASSUME EntryInv PROVE F!OnlyByProviderInForce /\ F!LinkedAreMembers
  OBVIOUS
<1>1. F!OnlyByProviderInForce
  BY DEF EntryInv, Entry, F!OnlyByProviderInForce, F!Idle
<1>2. F!LinkedAreMembers
  BY DEF EntryInv, F!LinkedAreMembers
<1> QED BY <1>1, <1>2

(* Each step of FederatedLogin keeps it: the callback's configurations grow *)
(* with each change, and a person is stored before he is linked.            *)
LEMMA EntryStep ==
    ASSUME FederationInv, EntryInv, [F!Next]_(F!vars)
    PROVE  EntryInv'
<1> USE DEF F!outside, F!people
<1>0. /\ \A a \in answers : a.subject \in Subject /\ a.mail \in {"ann", None}
      /\ DOMAIN externalId = {"ann"} /\ DOMAIN link = Subject /\ DOMAIN admitted = {"ann"}
      /\ admitted["ann"] # {}
      /\ \A s \in Subject :
           link[s] # None => link[s] = "ann" /\ admitted["ann"] # None /\ externalId["ann"] # None
      /\ DOMAIN callback = Caller /\ \A c \in Caller : Entry(callback[c])
  BY DEF EntryInv
<1>1. ASSUME UNCHANGED <<connection, answers, callback, externalId, link, admitted>> PROVE EntryInv'
  BY <1>0, <1>1 DEF EntryInv, Entry
(* Only one callback changes.                                               *)
<1>a. ASSUME NEW c \in Caller, NEW w, Turned(c, w), Entry(callback[c])',
             UNCHANGED <<connection, answers, externalId, link, admitted>>
      PROVE  EntryInv'
  <2>1. \A d \in Caller : Entry(callback[d])'
    BY <1>0, <1>a DEF Turned, Entry
  <2> QED BY <1>0, <1>a, <2>1 DEF EntryInv, Turned
<1>2. ASSUME NEW x, F!InForce(x), connection' = x, UNCHANGED <<answers, externalId, admitted>>,
             link' = link \/ link' = [s \in Subject |-> None]
      PROVE  EntryInv'
  <2>1. DOMAIN callback' = Caller
    BY <1>2 DEF F!InForce
  <2>2. ASSUME NEW c \in Caller PROVE Entry(callback[c])'
    <3>1. CASE callback[c] = F!Idle
      <4>1. callback'[c] = F!Idle
        BY <1>2, <3>1 DEF F!InForce
      <4> QED BY <4>1 DEF Entry
    <3>2. CASE callback[c] # F!Idle
      <4> DEFINE w == callback[c]  y == w.inForce \cup {x}
      <4>1. callback'[c] = [w EXCEPT !.inForce = y]
        BY <1>2, <3>2 DEF F!InForce
      <4>2. /\ {"op", "login", "answer", "inForce"} \subseteq DOMAIN w
            /\ w.op \in {"consume", "load", "verify", "admit"} /\ w.answer \in answers
            /\ w.op \in {"verify", "admit"} => "p" \in DOMAIN w /\ w.p \in w.inForce
            /\ w.op = "admit" => w.answer.mail = "ann" /\ externalId["ann"] # None
        BY <1>0, <3>2 DEF Entry
      <4>3. /\ DOMAIN callback'[c] = DOMAIN w /\ callback'[c].op = w.op
            /\ callback'[c].answer = w.answer /\ callback'[c].inForce = y
            /\ "p" \in DOMAIN w => callback'[c].p = w.p
        <5> HIDE DEF w, y
        <5> QED BY <4>1, <4>2
      <4>4. x \in y /\ w.inForce \subseteq y
        OBVIOUS
      <4> HIDE DEF w, y
      <4> QED BY <1>2, <4>2, <4>3, <4>4 DEF Entry
    <3> QED BY <3>1, <3>2
  <2> QED BY <1>0, <1>2, <2>1, <2>2 DEF EntryInv
<1>3. ASSUME F!Tick \/ (\E k : F!RotateKey(k)) PROVE EntryInv'
  BY <1>3, <1>1 DEF F!Tick, F!RotateKey
<1>4. ASSUME (\E x : F!UpsertProvider(x)) \/ F!DeleteProvider PROVE EntryInv'
  <2>1. CASE \E x : F!UpsertProvider(x)
    <3>1. PICK x : F!UpsertProvider(x)
      BY <2>1
    <3>2. F!InForce(x) /\ connection' = x /\ UNCHANGED <<answers, externalId, admitted, link>>
      BY <3>1 DEF F!UpsertProvider
    <3> QED BY <3>2, <1>2
  <2>2. CASE F!DeleteProvider
    <3>1. F!InForce(None) /\ connection' = None /\ UNCHANGED <<answers, externalId, admitted>>
          /\ link' = [s \in Subject |-> None]
      BY <2>2 DEF F!DeleteProvider
    <3> QED BY <3>1, <1>2
  <2> QED BY <1>4, <2>1, <2>2
<1>5. ASSUME NEW l \in Tab, F!BeginLogin(l) PROVE EntryInv'
  BY <1>5, <1>1 DEF F!BeginLogin
<1>6. ASSUME F!PruneLoginRequests PROVE EntryInv'
  BY <1>6, <1>1 DEF F!PruneLoginRequests
<1>7. ASSUME NEW l, NEW s \in Subject, NEW m \in {"ann"}, NEW i, NEW f \in {"none", "unsignedAssertion"},
             F!IssueAnswer(l, s, m, i, f) PROVE EntryInv'
  <2> DEFINE b == F!Sound(l, s, m, i)  a == F!With(b, f)
  <2>1. answers' = answers \cup {a} /\ UNCHANGED <<connection, callback, externalId, link, admitted>>
    BY <1>7 DEF F!IssueAnswer
  <2>2. a.subject \in Subject /\ a.mail = "ann"
    <3>1. b.subject = s /\ b.mail = m /\ {"subject", "mail"} \subseteq DOMAIN b
      BY DEF F!Sound
    <3> HIDE DEF b
    <3>2. a = b \/ a = [b EXCEPT !.parts = {"response"}]
      BY DEF F!With
    <3> HIDE DEF a
    <3> QED BY <3>1, <3>2
  <2> HIDE DEF a
  <2>3. \A c \in Caller : Entry(callback[c])'
    BY <1>0, <2>1 DEF Entry
  <2> QED BY <1>0, <2>1, <2>2, <2>3 DEF EntryInv
<1>8. ASSUME NEW c \in Caller, NEW l \in Tab, NEW a \in answers, F!FindRequest(c, l, a)
      PROVE  EntryInv'
  <2> DEFINE w == [op |-> "consume", login |-> l, answer |-> a, at |-> now, inForce |-> {connection}]
  <2>1. F!Goes(c, "idle", w) /\ UNCHANGED <<connection, answers, externalId, link, admitted>>
    BY <1>8 DEF F!FindRequest
  <2>2. Turned(c, w)
    BY <2>1, FederationGoes
  <2>3. Entry(callback[c])'
    BY <2>1, <2>2 DEF Turned, Entry
  <2> HIDE DEF w
  <2> QED BY <2>1, <2>2, <2>3, <1>a
<1>9. ASSUME NEW c \in Caller, F!LoadProvider(c) PROVE EntryInv'
  <2> DEFINE v == callback[c]
             w == [op |-> "verify", login |-> v.login, answer |-> v.answer, at |-> v.at,
                   inForce |-> v.inForce, p |-> connection]
  <2>1. F!Goes(c, "load", w) /\ UNCHANGED <<connection, answers, externalId, link, admitted>>
    BY <1>9 DEF F!LoadProvider
  <2>2. Turned(c, w) /\ v.op = "load"
    BY <2>1, FederationGoes
  <2>3. connection \in v.inForce /\ v.answer \in answers
    BY <1>0, <2>2 DEF Entry, F!Idle
  <2>4. Entry(callback[c])'
    BY <2>1, <2>2, <2>3 DEF Turned, Entry
  <2> HIDE DEF w
  <2> QED BY <2>1, <2>2, <2>4, <1>a
<1>10. ASSUME NEW c \in Caller, NEW groups, F!AcceptAnswer(c, groups) PROVE EntryInv'
  <2> DEFINE v == callback[c]  a == v.answer
             roles == F!MapClaimsToRoleKeys(v.p, a.mail, groups)
             w == [op |-> "admit", answer |-> a, login |-> v.login, p |-> v.p, inForce |-> v.inForce,
                   roles |-> roles]
  <2>1. F!Goes(c, "verify", w) /\ UNCHANGED <<connection, answers, link, admitted>>
        /\ a.mail # None /\ externalId' = [externalId EXCEPT ![a.mail] = a.subject]
    BY <1>10 DEF F!AcceptAnswer, F!HasAddress
  <2>2. Turned(c, w) /\ v.op = "verify"
    BY <2>1, FederationGoes
  <2>3. connection \in v.inForce /\ a \in answers /\ v.p \in v.inForce
    BY <1>0, <2>2 DEF Entry, F!Idle
  <2>4. a.mail = "ann" /\ a.subject # None
    BY <1>0, <2>1, <2>3, NoneIsNobody
  <2>5. DOMAIN externalId' = {"ann"} /\ externalId'["ann"] # None
    BY <1>0, <2>1, <2>4
  <2> HIDE DEF roles
  <2>6. Entry(callback[c])'
    <3> HIDE DEF a, v
    <3>1. /\ callback'[c] = w /\ w.op = "admit" /\ w.answer = a /\ w.p = v.p /\ w.inForce = v.inForce
          /\ DOMAIN w = {"op", "answer", "login", "p", "inForce", "roles"}
      BY <2>2 DEF Turned
    <3> HIDE DEF w
    <3> QED BY <2>1, <2>3, <2>4, <2>5, <3>1 DEF Entry
  <2> HIDE DEF w, a, v
  <2>7. \A d \in Caller : Entry(callback[d])'
    BY <1>0, <2>1, <2>2, <2>5, <2>6 DEF Turned, Entry
  <2> QED BY <1>0, <2>1, <2>2, <2>5, <2>7 DEF EntryInv, Turned
<1>11. ASSUME NEW c \in Caller, F!Refuse(c) PROVE EntryInv'
  <2>1. Turned(c, F!Idle) /\ UNCHANGED <<connection, answers, externalId, link, admitted>>
    BY <1>0, <1>11 DEF F!Refuse, Turned
  <2>2. Entry(callback[c])'
    BY <2>1 DEF Turned, Entry
  <2> QED BY <2>1, <2>2, <1>a
<1>12. ASSUME NEW c \in Caller, F!ConsumeRequest(c) PROVE EntryInv'
  <2> DEFINE v == callback[c]
             w == [v EXCEPT !.op = "load", !.inForce = {connection}]
  <2>1. F!Goes(c, "consume", w) /\ UNCHANGED <<connection, answers, externalId, link, admitted>>
    BY <1>12 DEF F!ConsumeRequest
  <2>2. Turned(c, w) /\ v.op = "consume"
    BY <2>1, FederationGoes
  <2>3. {"op", "login", "answer", "inForce"} \subseteq DOMAIN v /\ v.answer \in answers
    BY <1>0, <2>2 DEF Entry, F!Idle
  <2>4. DOMAIN callback'[c] = DOMAIN v /\ callback'[c].op = "load"
        /\ callback'[c].answer = v.answer /\ callback'[c].inForce = {connection}
    BY <2>2, <2>3 DEF Turned
  <2> HIDE DEF w, v
  <2>5. Entry(callback[c])'
    BY <2>1, <2>3, <2>4 DEF Entry
  <2> QED BY <2>1, <2>2, <2>5, <1>a
<1>13. ASSUME NEW c \in Caller, F!Admit(c) PROVE EntryInv'
  <2> DEFINE v == callback[c]  a == v.answer  m == a.mail  r == v.roles \cap {"admin", "member", "lead"}
  <2>1. /\ F!Goes(c, "admit", F!Idle) /\ UNCHANGED <<connection, answers, externalId>>
        /\ r # {} /\ link' = [link EXCEPT ![a.subject] = m]
        /\ admitted' = [admitted EXCEPT ![m] = IF @ = None THEN r ELSE @]
    BY <1>13 DEF F!Admit
  <2>2. Turned(c, F!Idle) /\ v.op = "admit"
    BY <2>1, FederationGoes
  <2>3. m = "ann" /\ externalId["ann"] # None
    BY <1>0, <2>2 DEF Entry, F!Idle
  <2>4. r # None
    BY NoneIsNobody
  <2> HIDE DEF v, a, m, r
  <2>5. DOMAIN admitted' = {"ann"} /\ admitted'["ann"] # None /\ admitted'["ann"] # {}
    BY <1>0, <2>1, <2>3, <2>4
  <2>6. DOMAIN link' = Subject /\ \A s \in Subject : link'[s] = "ann" \/ link'[s] = link[s]
    BY <1>0, <2>1, <2>3
  <2>7. \A d \in Caller : Entry(callback[d])'
    BY <1>0, <2>1, <2>2 DEF Turned, Entry
  <2> QED BY <1>0, <2>1, <2>2, <2>3, <2>5, <2>6, <2>7 DEF EntryInv, Turned
<1>14. CASE UNCHANGED F!vars
  BY <1>1, <1>14 DEF F!vars
<1>15. CASE F!Next
  BY <1>15, <1>3, <1>4, <1>5, <1>6, <1>7, <1>8, <1>9, <1>10, <1>11, <1>12, <1>13 DEF F!Next, F!SettingsNext
<1> QED BY <1>14, <1>15

-----------------------------------------------------------------------------
(* ScimDirectory.  What a patch of one or of two operations comes to.       *)
LEMMA UserPatchOfOne ==
    ASSUME NEW m, NEW o
    PROVE  D!ApplyScimUserPatch(m, <<o>>) = D!ApplyUserOperation(m, o)
<1> DEFINE Step(g, s) == IF s = {} THEN m ELSE D!ApplyUserOperation(g[s \ {D!Max(s)}], <<o>>[D!Max(s)])
           G == [s \in SUBSET {1} |-> IF s = {} THEN m ELSE D!ApplyUserOperation(m, o)]
<1>1. DOMAIN <<o>> = {1} /\ <<o>>[1] = o
  OBVIOUS
<1>2. D!Max({1}) = 1
  BY DEF D!Max
<1>3. D!ApplyScimUserPatch(m, <<o>>) = (CHOOSE g : g = [s \in SUBSET {1} |-> Step(g, s)])[{1}]
  BY <1>1, Zenon DEF D!ApplyScimUserPatch, D!FoldLeft, D!MapThenFoldSet
<1>4. G = [s \in SUBSET {1} |-> Step(G, s)]
  <2>1. ASSUME NEW s \in SUBSET {1} PROVE G[s] = Step(G, s)
    <3>1. CASE s = {}
      BY <3>1
    <3>2. CASE s = {1}
      <4>1. D!Max(s) = 1 /\ s \ {1} = {}
        BY <1>2, <3>2
      <4>2. G[{}] = m /\ G[s] = D!ApplyUserOperation(m, o)
        BY <3>2
      <4> HIDE DEF G
      <4> QED BY <1>1, <3>2, <4>1, <4>2
    <3> QED BY <3>1, <3>2
  <2>2. G = [s \in SUBSET {1} |-> G[s]]
    OBVIOUS
  <2> HIDE DEF G, Step
  <2> QED BY <2>1, <2>2
<1>5. ASSUME NEW g, g = [s \in SUBSET {1} |-> Step(g, s)] PROVE g[{1}] = D!ApplyUserOperation(m, o)
  <2>1. g[{}] = m /\ g[{1}] = Step(g, {1})
    BY <1>5
  <2>2. {1} \ {1} = {} /\ {1} # {}
    OBVIOUS
  <2> QED BY <1>1, <1>2, <2>1, <2>2
<1> HIDE DEF G, Step
<1> QED BY <1>3, <1>4, <1>5

(* Two operations are applied one after the other.                          *)
LEMMA UserPatchOfTwo ==
    ASSUME NEW m, NEW o, NEW p
    PROVE  D!ApplyScimUserPatch(m, <<o, p>>) = D!ApplyUserOperation(D!ApplyUserOperation(m, o), p)
<1> DEFINE Subsets == SUBSET {1, 2}
           Step(g, s) == IF s = {} THEN m ELSE D!ApplyUserOperation(g[s \ {D!Max(s)}], <<o, p>>[D!Max(s)])
           Value(s) == IF s = {} THEN m ELSE IF s = {1} THEN D!ApplyUserOperation(m, o)
                       ELSE IF s = {2} THEN D!ApplyUserOperation(m, p) ELSE D!ApplyUserOperation(D!ApplyUserOperation(m, o), p)
           G == [s \in Subsets |-> Value(s)]
<1>1. DOMAIN <<o, p>> = {1, 2} /\ <<o, p>>[1] = o /\ <<o, p>>[2] = p
  OBVIOUS
<1>2. D!Max({1}) = 1 /\ D!Max({2}) = 2 /\ D!Max({1, 2}) = 2
  BY DEF D!Max
<1>3. D!ApplyScimUserPatch(m, <<o, p>>) = (CHOOSE g : g = [s \in Subsets |-> Step(g, s)])[{1, 2}]
  BY <1>1, Zenon DEF D!ApplyScimUserPatch, D!FoldLeft, D!MapThenFoldSet
<1>4. {1} \ {1} = {} /\ {2} \ {2} = {} /\ {1, 2} \ {2} = {1}
  OBVIOUS
<1>5. /\ {} \in Subsets /\ {1} \in Subsets /\ {2} \in Subsets /\ {1, 2} \in Subsets
      /\ \A s \in Subsets : s = {} \/ s = {1} \/ s = {2} \/ s = {1, 2}
  OBVIOUS
<1>6. G = [s \in Subsets |-> Step(G, s)]
  <2>1. /\ G[{}] = m /\ G[{1}] = D!ApplyUserOperation(m, o) /\ G[{2}] = D!ApplyUserOperation(m, p)
        /\ G[{1, 2}] = D!ApplyUserOperation(D!ApplyUserOperation(m, o), p)
    BY <1>5
  <2> HIDE DEF Value
  <2>2. G = [s \in Subsets |-> G[s]]
    OBVIOUS
  <2> HIDE DEF G, Subsets
  <2>3. /\ G[{}] = Step(G, {}) /\ G[{1}] = Step(G, {1}) /\ G[{2}] = Step(G, {2})
        /\ G[{1, 2}] = Step(G, {1, 2})
    BY <1>1, <1>2, <1>4, <2>1
  <2> HIDE DEF Step
  <2>4. \A s \in Subsets : G[s] = Step(G, s)
    BY <1>5, <2>3
  <2> QED BY <2>2, <2>4
<1>7. ASSUME NEW g, g = [s \in Subsets |-> Step(g, s)] PROVE g[{1, 2}] = D!ApplyUserOperation(D!ApplyUserOperation(m, o), p)
  <2> HIDE DEF Subsets
  <2>1. g[{}] = m /\ g[{1}] = Step(g, {1}) /\ g[{1, 2}] = Step(g, {1, 2})
    BY <1>5, <1>7
  <2> QED BY <1>1, <1>2, <1>4, <2>1
<1> HIDE DEF G, Step, Subsets
<1> QED BY <1>3, <1>6, <1>7

(* The same of a group.                                                     *)
LEMMA GroupPatchOfTwo ==
    ASSUME NEW m, NEW o, NEW p
    PROVE  D!ApplyScimGroupPatch(m, <<o, p>>) = D!ApplyGroupOperation(D!ApplyGroupOperation(m, o), p)
<1> DEFINE Subsets == SUBSET {1, 2}
           Step(g, s) == IF s = {} THEN m ELSE D!ApplyGroupOperation(g[s \ {D!Max(s)}], <<o, p>>[D!Max(s)])
           Value(s) == IF s = {} THEN m ELSE IF s = {1} THEN D!ApplyGroupOperation(m, o)
                       ELSE IF s = {2} THEN D!ApplyGroupOperation(m, p) ELSE D!ApplyGroupOperation(D!ApplyGroupOperation(m, o), p)
           G == [s \in Subsets |-> Value(s)]
<1>1. DOMAIN <<o, p>> = {1, 2} /\ <<o, p>>[1] = o /\ <<o, p>>[2] = p
  OBVIOUS
<1>2. D!Max({1}) = 1 /\ D!Max({2}) = 2 /\ D!Max({1, 2}) = 2
  BY DEF D!Max
<1>3. D!ApplyScimGroupPatch(m, <<o, p>>) = (CHOOSE g : g = [s \in Subsets |-> Step(g, s)])[{1, 2}]
  BY <1>1, Zenon DEF D!ApplyScimGroupPatch, D!FoldLeft, D!MapThenFoldSet
<1>4. {1} \ {1} = {} /\ {2} \ {2} = {} /\ {1, 2} \ {2} = {1}
  OBVIOUS
<1>5. /\ {} \in Subsets /\ {1} \in Subsets /\ {2} \in Subsets /\ {1, 2} \in Subsets
      /\ \A s \in Subsets : s = {} \/ s = {1} \/ s = {2} \/ s = {1, 2}
  OBVIOUS
<1>6. G = [s \in Subsets |-> Step(G, s)]
  <2>1. /\ G[{}] = m /\ G[{1}] = D!ApplyGroupOperation(m, o) /\ G[{2}] = D!ApplyGroupOperation(m, p)
        /\ G[{1, 2}] = D!ApplyGroupOperation(D!ApplyGroupOperation(m, o), p)
    BY <1>5
  <2> HIDE DEF Value
  <2>2. G = [s \in Subsets |-> G[s]]
    OBVIOUS
  <2> HIDE DEF G, Subsets
  <2>3. /\ G[{}] = Step(G, {}) /\ G[{1}] = Step(G, {1}) /\ G[{2}] = Step(G, {2})
        /\ G[{1, 2}] = Step(G, {1, 2})
    BY <1>1, <1>2, <1>4, <2>1
  <2> HIDE DEF Step
  <2>4. \A s \in Subsets : G[s] = Step(G, s)
    BY <1>5, <2>3
  <2> QED BY <2>2, <2>4
<1>7. ASSUME NEW g, g = [s \in Subsets |-> Step(g, s)] PROVE g[{1, 2}] = D!ApplyGroupOperation(D!ApplyGroupOperation(m, o), p)
  <2> HIDE DEF Subsets
  <2>1. g[{}] = m /\ g[{1}] = Step(g, {1}) /\ g[{1, 2}] = Step(g, {1, 2})
    BY <1>5, <1>7
  <2> QED BY <1>1, <1>2, <1>4, <2>1
<1> HIDE DEF G, Step, Subsets
<1> QED BY <1>3, <1>6, <1>7

People == {"ann", "bob"}
Rows == D!UserRow
Groups == [name : {"ann", "bob", "h"}, members : SUBSET People]

(* A patch of a user keeps a row a row, and does not change what it did.    *)
LEMMA UserPatchesRepeat ==
    ASSUME NEW ops \in UserPatches, NEW m \in Rows
    PROVE  /\ D!ApplyScimUserPatch(m, ops) \in Rows
           /\ D!ApplyScimUserPatch(D!ApplyScimUserPatch(m, ops), ops) = D!ApplyScimUserPatch(m, ops)
<1> DEFINE o == [op |-> "replace", path |-> None, value |-> [active |-> FALSE, displayName |-> "bob"]]
           p == [op |-> "remove", path |-> "active", value |-> None]
           q == [op |-> "add", path |-> "userName", value |-> "bob"]
<1>1. ops = <<o>> \/ ops = <<p, q>>
  BY DEF UserPatches
<1>2. /\ None \notin {"ann", "bob", "userName", "active", "members", "members[value eq]"}
      /\ None # FALSE
  BY IdentityAssumption DEF D!ScimDirectoryAssumption
<1>3. /\ D!Given(o) = [active |-> FALSE, displayName |-> "bob"]
      /\ D!Given(p) = [x \in {"active"} |-> FALSE]
      /\ D!Given(q) = [x \in {"userName"} |-> "bob"]
  BY <1>2 DEF D!Given
<1> HIDE DEF o, p, q
<1>4. ASSUME NEW n \in Rows
      PROVE  D!ApplyUserOperation(n, o) = [userName |-> n.userName, active |-> FALSE, displayName |-> "bob"]
  <2> DEFINE v == D!Given(o)
  <2>a. v = [active |-> FALSE, displayName |-> "bob"]
    BY <1>3
  <2>b. DOMAIN v = {"active", "displayName"} /\ v["active"] = FALSE /\ v["displayName"] = "bob"
    <3> HIDE DEF v
    <3> QED BY <2>a
  <2>1. /\ DOMAIN v = {"active", "displayName"}
        /\ v["active"] = FALSE /\ v["active"] # None /\ v["displayName"] = "bob"
    <3> HIDE DEF v
    <3> QED BY <1>2, <2>b
  <2> HIDE DEF v
  <2>2. D!ApplyUserOperation(n, o) = [userName |-> n.userName, active |-> v.active,
                                      displayName |-> v.displayName]
    BY <2>1 DEF D!ApplyUserOperation, v
  <2> QED BY <2>1, <2>2
<1>5. ASSUME NEW n \in Rows
      PROVE  D!ApplyUserOperation(n, p) = [userName |-> n.userName, active |-> FALSE,
                                           displayName |-> n.displayName]
  BY <1>2, <1>3 DEF D!ApplyUserOperation
<1>6. ASSUME NEW n \in Rows
      PROVE  D!ApplyUserOperation(n, q) = [userName |-> "bob", active |-> n.active,
                                           displayName |-> n.displayName]
  BY <1>2, <1>3 DEF D!ApplyUserOperation
<1>7. \A n \in Rows : /\ n.userName \in {"ann", "bob"} /\ n.active \in BOOLEAN
                      /\ n.displayName \in {"ann", "bob"} \cup {None}
  BY DEF Rows, D!UserRow
<1>8. \A a \in {"ann", "bob"}, b \in BOOLEAN, c \in {"ann", "bob"} \cup {None} :
        [userName |-> a, active |-> b, displayName |-> c] \in Rows
  BY DEF Rows, D!UserRow
<1> HIDE DEF Rows
<1>9. CASE ops = <<o>>
  <2> DEFINE After(n) == [userName |-> n.userName, active |-> FALSE, displayName |-> "bob"]
  <2>1. ASSUME NEW n \in Rows PROVE D!ApplyScimUserPatch(n, ops) = After(n) /\ After(n) \in Rows
    <3>1. D!ApplyScimUserPatch(n, ops) = D!ApplyUserOperation(n, o)
      BY <1>9, UserPatchOfOne
    <3>2. After(n) \in Rows
      BY <1>7, <1>8
    <3> QED BY <1>4, <3>1, <3>2
  <2>2. After(After(m)) = After(m)
    OBVIOUS
  <2> QED BY <2>1, <2>2
<1>10. CASE ops = <<p, q>>
  <2> DEFINE After(n) == [userName |-> "bob", active |-> FALSE, displayName |-> n.displayName]
  <2>1. ASSUME NEW n \in Rows PROVE D!ApplyScimUserPatch(n, ops) = After(n) /\ After(n) \in Rows
    <3> DEFINE k == [userName |-> n.userName, active |-> FALSE, displayName |-> n.displayName]
    <3>1. k \in Rows /\ D!ApplyUserOperation(n, p) = k /\ k.displayName = n.displayName
          /\ k.active = FALSE
      BY <1>5, <1>7, <1>8
    <3> HIDE DEF k
    <3>2. D!ApplyUserOperation(k, q) = After(n)
      BY <1>6, <3>1
    <3>3. D!ApplyScimUserPatch(n, ops) = D!ApplyUserOperation(k, q)
      BY <1>10, <3>1, UserPatchOfTwo
    <3> QED BY <1>7, <1>8, <3>2, <3>3
  <2>2. After(After(m)) = After(m)
    OBVIOUS
  <2> QED BY <2>1, <2>2
<1> QED BY <1>1, <1>9, <1>10

Kept(s) == [s EXCEPT !.members = D!Valid(@)]

(* So does a patch of a group, whose members are users of the organization. *)
LEMMA GroupPatchesRepeat ==
    ASSUME NEW ops \in GroupPatches, NEW s \in Groups
    PROVE  /\ Kept(D!ApplyScimGroupPatch(s, ops)) \in Groups
           /\ Kept(D!ApplyScimGroupPatch(Kept(D!ApplyScimGroupPatch(s, ops)), ops))
                = Kept(D!ApplyScimGroupPatch(s, ops))
<1> DEFINE o == [op |-> "add", path |-> "members", value |-> {"ann"}]
           p == [op |-> "remove", path |-> "members[value eq]", value |-> {"bob"}]
           q == [op |-> "remove", path |-> "members", value |-> {}]
           r == [op |-> "replace", path |-> None,
                 value |-> [displayName |-> "h", members |-> {"ann", "bob"}]]
<1>1. ops = <<o, p>> \/ ops = <<q, r>>
  BY DEF GroupPatches
<1>2. None \notin {"ann", "bob", "h", "userName", "active", "members", "members[value eq]"}
  BY IdentityAssumption DEF D!ScimDirectoryAssumption, M!MembersAssumption
<1>3. \A n \in Groups : n = [name |-> n.name, members |-> n.members]
                        /\ n.name \in {"ann", "bob", "h"} /\ n.members \subseteq People
  BY DEF Groups
<1>4. \A a \in {"ann", "bob", "h"}, b \in SUBSET People : [name |-> a, members |-> b] \in Groups
  BY DEF Groups
<1>5. /\ o.path = "members" /\ o.op = "add" /\ o.value = {"ann"} /\ o.path # None
      /\ p.path = "members[value eq]" /\ p.op = "remove" /\ p.value = {"bob"}
      /\ q.path = "members" /\ q.op = "remove" /\ q.value = {} /\ q.path # None
      /\ r.path = None /\ r.op = "replace" /\ r.path # "members[value eq]"
      /\ r.value = [displayName |-> "h", members |-> {"ann", "bob"}]
  BY <1>2
<1> HIDE DEF o, p, q, r
<1>6. ASSUME NEW n \in Groups
      PROVE  D!ApplyGroupOperation(n, o) = [name |-> n.name, members |-> n.members \cup {"ann"}]
  BY <1>5 DEF D!ApplyGroupOperation, D!ApplyMembers
<1>7. ASSUME NEW n \in Groups
      PROVE  D!ApplyGroupOperation(n, p) = [name |-> n.name, members |-> n.members \ {"bob"}]
  <2>1. D!ApplyGroupOperation(n, p) = [n EXCEPT !.members = @ \ {"bob"}]
    BY <1>5 DEF D!ApplyGroupOperation
  <2> QED BY <1>3, <2>1
<1>8. ASSUME NEW n \in Groups
      PROVE  D!ApplyGroupOperation(n, q) = [name |-> n.name, members |-> {}]
  BY <1>5 DEF D!ApplyGroupOperation, D!ApplyMembers
<1>9. ASSUME NEW n \in Groups
      PROVE  D!ApplyGroupOperation(n, r) = [name |-> "h", members |-> {"ann", "bob"}]
  <2> DEFINE v == r.value
  <2>a. v = [displayName |-> "h", members |-> {"ann", "bob"}]
    BY <1>5
  <2> HIDE DEF v
  <2>1. /\ DOMAIN v = {"displayName", "members"} /\ v.members = {"ann", "bob"}
        /\ v.displayName = "h" /\ v.displayName # None
    BY <1>2, <2>a
  <2>2. D!ApplyGroupOperation(n, r) = [name |-> v.displayName, members |-> D!ApplyMembers(r.op, n.members, v.members)]
    BY <1>5, <2>1 DEF D!ApplyGroupOperation, v
  <2>3. D!ApplyMembers(r.op, n.members, v.members) = v.members
    BY <1>5 DEF D!ApplyMembers
  <2> QED BY <2>1, <2>2, <2>3
<1>10. ASSUME NEW n \in Groups
       PROVE  Kept(n) = [name |-> n.name, members |-> D!Valid(n.members)] /\ Kept(n) \in Groups
  <2>1. Kept(n) = [name |-> n.name, members |-> D!Valid(n.members)]
    BY <1>3 DEF Kept
  <2>2. D!Valid(n.members) \subseteq People
    BY <1>3 DEF D!Valid
  <2> QED BY <1>3, <1>4, <2>1, <2>2
<1>11. CASE ops = <<o, p>>
  <2> DEFINE After(n) == [name |-> n.name, members |-> (n.members \cup {"ann"}) \ {"bob"}]
  <2>1. ASSUME NEW n \in Groups
        PROVE  D!ApplyScimGroupPatch(n, ops) = After(n) /\ After(n) \in Groups
    <3> DEFINE k == [name |-> n.name, members |-> n.members \cup {"ann"}]
    <3>1. k \in Groups /\ k.name = n.name /\ k.members = n.members \cup {"ann"}
      BY <1>3, <1>4 DEF People
    <3>2. After(n) \in Groups
      BY <1>3, <1>4 DEF People
    <3> HIDE DEF k
    <3>3. D!ApplyGroupOperation(n, o) = k
      BY <1>6 DEF k
    <3>4. D!ApplyGroupOperation(k, p) = After(n)
      BY <1>7, <3>1
    <3> QED BY <1>11, <3>2, <3>3, <3>4, GroupPatchOfTwo
  <2>2. ASSUME NEW n \in Groups
        PROVE  Kept(After(n)) = [name |-> n.name, members |-> D!Valid((n.members \cup {"ann"}) \ {"bob"})]
               /\ Kept(After(n)) \in Groups
    BY <1>10, <2>1
  <2> DEFINE t == Kept(After(s))  b == D!Valid((s.members \cup {"ann"}) \ {"bob"})
  <2>a. t = [name |-> s.name, members |-> b] /\ t \in Groups
    BY <2>2
  <2>3. t \in Groups /\ t.name = s.name /\ t.members = b
    <3> HIDE DEF t, b
    <3> QED BY <2>a
  <2>4. D!Valid((t.members \cup {"ann"}) \ {"bob"}) = t.members
    BY <2>3 DEF D!Valid
  <2>5. Kept(After(t)) = t
    BY <2>2, <2>3, <2>4
  <2> HIDE DEF t
  <2> QED BY <2>1, <2>3, <2>5 DEF t
<1>12. CASE ops = <<q, r>>
  <2> DEFINE k == [name |-> "h", members |-> {"ann", "bob"}]
  <2>1. k \in Groups
    BY <1>4 DEF People
  <2>2. ASSUME NEW n \in Groups PROVE D!ApplyScimGroupPatch(n, ops) = k
    <3>1. [name |-> n.name, members |-> {}] \in Groups
      BY <1>3, <1>4
    <3>2. D!ApplyGroupOperation(n, q) \in Groups
      BY <1>8, <3>1
    <3>3. D!ApplyGroupOperation(D!ApplyGroupOperation(n, q), r) = k
      BY <1>9, <3>2
    <3>4. D!ApplyScimGroupPatch(n, ops)
            = D!ApplyGroupOperation(D!ApplyGroupOperation(n, q), r)
      BY <1>12, GroupPatchOfTwo
    <3> QED BY <3>3, <3>4
  <2> DEFINE t == Kept(k)
  <2>3. D!ApplyScimGroupPatch(s, ops) = k
    BY <2>2
  <2> HIDE DEF k
  <2>4. t \in Groups
    BY <1>10, <2>1
  <2>5. D!ApplyScimGroupPatch(t, ops) = k
    BY <2>2, <2>4
  <2> QED BY <2>3, <2>4, <2>5
<1> QED BY <1>1, <1>11, <1>12

(* Rows have their types.                                                   *)
DirectoryTypes ==
    /\ row \in [People -> Rows \cup {None}]
    /\ created \in [People -> Nat]
    /\ scimGroup \in [{"g"} -> Groups \cup {None}]
    /\ sent \in Nat
(* What the last request asked for is what the rows show.                   *)
LastIsDone ==
    last # None =>
      /\ last.op = "createUser" => last.user \in People /\ row[last.user] # None
      /\ last.op = "replaceUser" =>
           /\ last.user \in People
           /\ row[last.user] = [userName |-> last.name, active |-> last.active, displayName |-> None]
      /\ last.op = "patchUser" =>
           last.user \in People /\ D!ApplyScimUserPatch(row[last.user], last.ops) = row[last.user]
      /\ last.op = "deleteUser" => last.user \in People /\ row[last.user] = None
      /\ last.op = "createGroup" => last.group = "g" /\ scimGroup["g"] # None
      /\ last.op = "replaceGroup" =>
           last.group = "g" /\ scimGroup["g"] = [name |-> last.name, members |-> D!Valid(last.ids)]
      /\ last.op = "patchGroup" =>
           last.group = "g" /\ Kept(D!ApplyScimGroupPatch(scimGroup["g"], last.ops)) = scimGroup["g"]
      /\ last.op = "deleteGroup" => last.group = "g" /\ scimGroup["g"] = None
(* How many may come before a user on the list, the user included.          *)
Place(u, all) == Cardinality({v \in all : created[v] <= created[u]})
(* A reading that goes on has seen whoever surely comes before the place it *)
(* is at.                                                                   *)
WalkInv ==
    /\ walk = [filter |-> walk.filter, next |-> walk.next, seen |-> walk.seen,
               throughout |-> walk.throughout, shrunk |-> walk.shrunk, tied |-> walk.tied]
    /\ walk.next \in Nat
    /\ walk.shrunk \in BOOLEAN /\ walk.tied \in BOOLEAN
    /\ walk.next > 0 => walk.throughout \subseteq D!Listed(walk.filter)
    /\ walk.next > 0 /\ ~walk.shrunk /\ ~walk.tied =>
         \A u \in walk.throughout \ walk.seen : walk.next <= Place(u, D!Listed(walk.filter))
DirectoryInv == DirectoryTypes /\ LastIsDone /\ D!Sound /\ WalkInv /\ D!PagesAreComplete

(* The members of a finite set, by the order of their numbers.              *)
LEMMA SameCardinality == \A s : D!Cardinality(s) = Cardinality(s)
BY DEF D!Cardinality, Cardinality

(* The directory's sets of users are finite.                                *)
LEMMA PeopleAreFinite == IsFiniteSet(People) /\ \A s \in SUBSET People : IsFiniteSet(s)
<1>1. People = {"ann"} \cup {"bob"}
  BY DEF People
<1>2. IsFiniteSet(People)
  BY <1>1, FS_Singleton, FS_Union
<1> QED BY <1>2, FS_Subset

(* Whoever is on a list has a place on it.                                  *)
LEMMA PlacesAreCounted ==
    ASSUME NEW all \in SUBSET People, created \in [People -> Nat]
    PROVE  \A u \in all : Place(u, all) \in 1..Cardinality(all)
<1> DEFINE n == Cardinality(all)
<1>1. IsFiniteSet(all) /\ n \in Nat
  BY PeopleAreFinite, FS_CardinalityType
<1>2. ASSUME NEW u \in all PROVE Place(u, all) \in 1..n
  <2> DEFINE before == {v \in all : created[v] <= created[u]}
  <2>1. before \in SUBSET all /\ u \in before /\ IsFiniteSet(before)
    BY <1>1, FS_Subset
  <2>2. Cardinality(before) \in Nat /\ Cardinality(before) <= n
    BY <1>1, <2>1, FS_Subset, FS_CardinalityType
  <2>3. Cardinality(before) # 0
    BY <2>1, FS_EmptySet
  <2>4. Place(u, all) = Cardinality(before)
    BY DEF Place
  <2> HIDE DEF before, n
  <2> QED BY <1>1, <2>2, <2>3, <2>4
<1> QED BY <1>2

(* Whoever may come after all before a page that does not begin between two *)
(* users of one moment, and    is not on the page, may come after the page. *)
LEMMA PagesCover ==
    ASSUME NEW all \in SUBSET People, created \in [People -> Nat],
           NEW start \in Nat \ {0}, NEW count \in Nat \ {0},
           NEW cut \in D!Cuts(all, start, count)
    PROVE  /\ Cardinality(cut[2] \ cut[1]) \in Nat
           /\ ~D!Ties(cut[1], all) =>
                \A u \in all \ (cut[2] \ cut[1]) :
                   start <= Place(u, all) =>
                     /\ cut[2] \ cut[1] # {}
                     /\ start + Cardinality(cut[2] \ cut[1]) <= Place(u, all)
<1> DEFINE f == cut[1]  g == cut[2]  n == Cardinality(all)
<1>1. /\ f \in SUBSET all /\ g \in SUBSET all /\ f \subseteq g
      /\ Cardinality(f) = start - 1 \/ n < start - 1
      /\ Cardinality(g) = start - 1 + count \/ g = all
      /\ \A u \in g, v \in all \ g : created[u] <= created[v]
      /\ \A u \in f, v \in all \ f : created[u] <= created[v]
  BY SameCardinality DEF D!Cuts, D!Firsts
<1> HIDE DEF f, g
<1>2. /\ IsFiniteSet(all) /\ IsFiniteSet(f) /\ IsFiniteSet(g) /\ IsFiniteSet(g \ f)
      /\ n \in Nat /\ Cardinality(f) \in Nat /\ Cardinality(g) \in Nat
      /\ Cardinality(g \ f) \in Nat
  <2>1. IsFiniteSet(all)
    BY PeopleAreFinite
  <2>2. IsFiniteSet(f) /\ IsFiniteSet(g) /\ IsFiniteSet(g \ f)
    BY <1>1, <2>1, FS_Subset
  <2> QED BY <2>1, <2>2, FS_CardinalityType
<1>3. Cardinality(g \ f) = Cardinality(g) - Cardinality(f)
  <2>1. g \cap f = f
    BY <1>1
  <2> QED BY <1>2, <2>1, FS_Difference
<1>4. ASSUME ~D!Ties(f, all), NEW u \in all \ (g \ f), start <= Place(u, all)
      PROVE  g \ f # {} /\ start + Cardinality(g \ f) <= Place(u, all)
  <2> DEFINE before == {v \in all : created[v] <= created[u]}
  <2>1. Place(u, all) = Cardinality(before) /\ Place(u, all) \in 1..n
        /\ before \in SUBSET all /\ IsFiniteSet(before)
    BY <1>2, PlacesAreCounted, FS_Subset DEF Place
  <2>2. Cardinality(f) = start - 1
    BY <1>1, <1>2, <1>4, <2>1
  <2>3. u \notin f
    <3> SUFFICES ASSUME u \in f PROVE FALSE
      OBVIOUS
    <3>1. before \in SUBSET f
      BY <1>1, <1>4 DEF D!Ties
    <3>2. Cardinality(before) <= Cardinality(f)
      BY <1>2, <3>1, FS_Subset
    <3> HIDE DEF before
    <3> QED BY <1>2, <1>4, <2>1, <2>2, <3>2
  <2>4. u \notin g
    BY <2>3
  <2>5. Cardinality(g \cup {u}) = Cardinality(g) + 1
    BY <1>2, <2>4, FS_AddElement
  <2>6. g \cup {u} \in SUBSET before
    BY <1>1, <2>4
  <2>7. Cardinality(g \cup {u}) <= Cardinality(before)
    BY <2>1, <2>6, FS_Subset
  <2>8. Cardinality(g) = start - 1 + count
    BY <1>1, <2>4
  <2>9. g \ f # {}
    <3>1. Cardinality(g \ f) = count
      BY <1>2, <1>3, <2>2, <2>8
    <3> QED BY <3>1, FS_EmptySet
  <2> HIDE DEF before
  <2> QED BY <1>2, <1>3, <2>1, <2>2, <2>5, <2>7, <2>9
<1> QED BY <1>2, <1>4 DEF f, g

(* A reading under way follows what a request changes: while the list only  *)
(* grows, nobody's place comes forward.                                     *)
LEMMA WalkGoesOn ==
    ASSUME DirectoryInv, D!WalkFollows, row' \in [People -> Rows \cup {None}],
           created' \in [People -> Nat],
           \A u \in People : row[u] # None /\ row'[u] # None => created'[u] = created[u]
    PROVE  WalkInv' /\ D!PagesAreComplete'
<1> DEFINE was == D!Listed(walk.filter)
           is == {u \in People : row'[u] # None /\ D!Matches(walk.filter, row'[u])}
<1>1. WalkInv /\ D!PagesAreComplete
  BY DEF DirectoryInv
<1>2. walk' = IF walk.next = 0 THEN walk
              ELSE [walk EXCEPT !.throughout = @ \cap is,
                                !.shrunk = @ \/ ~(was \subseteq is)]
  BY DEF D!WalkFollows, People
<1>3. CASE walk.next = 0
  BY <1>1, <1>2, <1>3 DEF WalkInv, D!PagesAreComplete
<1>4. CASE walk.next # 0
  <2> DEFINE t == walk.throughout \cap is  s == walk.shrunk \/ ~(was \subseteq is)
  <2>1. walk' = [filter |-> walk.filter, next |-> walk.next, seen |-> walk.seen,
                 throughout |-> t, shrunk |-> s, tied |-> walk.tied]
    <3> HIDE DEF t, s
    <3>1. walk' = [walk EXCEPT !.throughout = t, !.shrunk = s]
      BY <1>2, <1>4 DEF t, s
    <3> QED BY <1>1, <3>1 DEF WalkInv
  <2>2. /\ walk'.filter = walk.filter /\ walk'.next = walk.next /\ walk'.seen = walk.seen
        /\ walk'.throughout = t /\ walk'.shrunk = s /\ walk'.tied = walk.tied
        /\ walk' = [filter |-> walk'.filter, next |-> walk'.next, seen |-> walk'.seen,
                    throughout |-> walk'.throughout, shrunk |-> walk'.shrunk, tied |-> walk'.tied]
    <3> HIDE DEF t, s
    <3> QED BY <2>1
  <2>3. D!Listed(walk.filter)' = is
    BY <2>2 DEF D!Listed, People
  <2>4. walk.next \in Nat /\ walk.shrunk \in BOOLEAN /\ walk.tied \in BOOLEAN
        /\ walk.throughout \subseteq was
        /\ (~walk.shrunk /\ ~walk.tied =>
              \A u \in walk.throughout \ walk.seen : walk.next <= Place(u, was))
    BY <1>1, <1>4 DEF WalkInv
  <2>5. ASSUME ~s, ~walk.tied, NEW u \in t \ walk.seen
        PROVE  walk.next <= Place(u, D!Listed(walk.filter))'
    <3>1. was \subseteq is /\ ~walk.shrunk /\ u \in was /\ walk.next <= Place(u, was)
      BY <2>4, <2>5
    <3>2. IsFiniteSet(is) /\ \A v \in was : created'[v] = created[v]
      <4>1. \A v \in was : v \in People /\ row[v] # None /\ row'[v] # None
        BY <3>1 DEF D!Listed, People
      <4> QED BY <4>1, PeopleAreFinite
    <3> HIDE DEF was, is
    <3> DEFINE before == {v \in was : created[v] <= created[u]}
               after == {v \in is : created'[v] <= created'[u]}
    <3>3. before \in SUBSET after /\ after \in SUBSET is
      BY <3>1, <3>2
    <3>4. Place(u, was) = Cardinality(before)
      BY SameCardinality DEF Place
    <3>5. Place(u, D!Listed(walk.filter))' = Cardinality(after)
      BY <2>3, SameCardinality DEF Place
    <3> HIDE DEF before, after
    <3>6. /\ Cardinality(before) \in Nat /\ Cardinality(after) \in Nat
          /\ Cardinality(before) <= Cardinality(after)
      BY <3>2, <3>3, FS_Subset, FS_CardinalityType
    <3> QED BY <2>4, <3>1, <3>4, <3>5, <3>6
  <2>6. WalkInv'
    <3> HIDE DEF was, is, s
    <3>1. walk'.throughout \subseteq D!Listed(walk.filter)'
      BY <2>2, <2>3
    <3>2. walk'.shrunk \in BOOLEAN /\ walk'.tied \in BOOLEAN
      BY <2>2, <2>4 DEF s
    <3> QED BY <2>2, <2>4, <2>5, <3>1, <3>2 DEF WalkInv
  <2>7. D!PagesAreComplete'
    BY <1>4, <2>2 DEF D!PagesAreComplete
  <2> QED BY <2>6, <2>7
<1> QED BY <1>3, <1>4

Repeats == last # None /\ last' = last => UNCHANGED D!rows

(* No row is the absent one, and groups hold users.                         *)
LEMMA RowsAreRows ==
    /\ \A r \in Rows : r # None
    /\ \A r \in Groups : r = [name |-> r.name, members |-> r.members] /\ r.members \subseteq People
    /\ \A a \in {"ann", "bob"}, b \in BOOLEAN :
         [userName |-> a, active |-> b, displayName |-> None] \in Rows
<1>1. \A r \in Rows : r # None
  BY IdentityAssumption DEF D!ScimDirectoryAssumption, Rows
<1>2. \A r \in Groups : r = [name |-> r.name, members |-> r.members] /\ r.members \subseteq People
  BY DEF Groups
<1>3. \A a \in {"ann", "bob"}, b \in BOOLEAN :
        [userName |-> a, active |-> b, displayName |-> None] \in Rows
  BY DEF Rows, D!UserRow
<1> QED BY <1>1, <1>2, <1>3

(* The directory starts with dated users and no groups.                     *)
LEMMA DirectoryInit == Init => DirectoryInv
<1> SUFFICES ASSUME Init PROVE DirectoryInv
  OBVIOUS
<1>1. D!Init
  BY DEF Init
<1>2. PICK us \in SUBSET People :
        /\ created \in {f \in [People -> 0..D!Cardinality(us)] :
                          \A u \in People : f[u] = 0 <=> u \notin us}
        /\ row = [u \in People |-> IF u \in us
                     THEN [userName |-> u, active |-> TRUE, displayName |-> None] ELSE None]
  BY <1>1 DEF D!Init, People
<1>3. D!Cardinality(us) \in Nat /\ D!Cardinality(us) <= D!Cardinality(People)
  BY SameCardinality, PeopleAreFinite, FS_Subset, FS_CardinalityType
<1>4. scimGroup = [g \in {"g"} |-> None] /\ last = None /\ walk = D!NoWalk /\ sent = 0
  BY <1>1 DEF D!Init
<1>5. row \in [People -> Rows \cup {None}]
  BY <1>2, RowsAreRows DEF People
<1>6. /\ created \in [People -> Nat]
      /\ \A u \in People : created[u] = 0 <=> u \notin us
  BY <1>2, <1>3
<1>7. DirectoryTypes
  BY <1>4, <1>5, <1>6 DEF DirectoryTypes
<1>8. \A u \in People : /\ row[u] # None <=> u \in us
                        /\ u \in us => row[u].userName = u
  BY <1>2, RowsAreRows DEF People
<1>9. D!Sound
  <2> SUFFICES /\ \A u \in People :
                    /\ row[u] # None => D!NameIsFree(u, row[u].userName)
                    /\ row[u] = None <=> created[u] = 0
               /\ \A g \in {"g"} : scimGroup[g] = None
    BY DEF D!Sound, People
  <2>1. \A u \in People : row[u] # None => D!NameIsFree(u, row[u].userName)
    BY <1>8 DEF D!NameIsFree, People
  <2> QED BY <1>4, <1>6, <1>8, <2>1
<1>10. WalkInv /\ D!PagesAreComplete /\ LastIsDone
  BY <1>4 DEF D!NoWalk, WalkInv, D!PagesAreComplete, LastIsDone
<1> QED BY <1>7, <1>9, <1>10 DEF DirectoryInv

(* A reading stays right while no user row changes.                         *)
LEMMA WalkStays ==
    ASSUME DirectoryInv, UNCHANGED <<row, created, walk>>
    PROVE  WalkInv' /\ D!PagesAreComplete'
BY DEF DirectoryInv, WalkInv, D!PagesAreComplete, D!Listed, D!Matches, Place

(* A group without one of its members.                                      *)
LEMMA WithoutMember ==
    \A n, m, u : [[name |-> n, members |-> m] EXCEPT !.members = @ \ {u}]
                   = [name |-> n, members |-> m \ {u}]
OBVIOUS

(* A request that is carried out, with what it does to rows and groups.     *)
LEMMA RowStep ==
    ASSUME DirectoryInv, NEW u \in People, NEW x \in Rows \cup {None},
           x # None => D!NameIsFree(u, x.userName) \/ (row[u] # None /\ x.userName = row[u].userName),
           row' = [row EXCEPT ![u] = x],
           \/ row[u] # None /\ x # None /\ created' = created /\ scimGroup' = scimGroup
           \/ row[u] = None /\ x # None /\ scimGroup' = scimGroup
              /\ \E moment \in Nat \ {0} : created' = [created EXCEPT ![u] = moment]
           \/ x = None /\ created' = [created EXCEPT ![u] = 0]
              /\ scimGroup' = [g \in {"g"} |-> IF scimGroup[g] = None THEN None
                                       ELSE [scimGroup[g] EXCEPT !.members = @ \ {u}]],
           sent' = sent + 1, D!WalkFollows, LastIsDone'
    PROVE  DirectoryInv'
<1>1. DirectoryTypes /\ D!Sound
  BY DEF DirectoryInv
<1>2. row' \in [People -> Rows \cup {None}] /\ row'[u] = x /\ \A v \in People \ {u} : row'[v] = row[v]
  BY <1>1 DEF DirectoryTypes
<1>3. /\ created' \in [People -> Nat] /\ \A v \in People \ {u} : created'[v] = created[v]
      /\ sent' \in Nat
      /\ x = None => created'[u] = 0
      /\ x # None => created'[u] # 0 \/ (row[u] # None /\ created' = created)
      /\ row[u] # None /\ x # None => created' = created
  BY <1>1 DEF DirectoryTypes
<1>4. \A v \in People : /\ row[v] # None => D!NameIsFree(v, row[v].userName)
                        /\ row[v] = None <=> created[v] = 0
  BY <1>1 DEF D!Sound, People
<1>5. scimGroup' \in [{"g"} -> Groups \cup {None}]
      /\ (scimGroup'["g"] # None =>
            scimGroup["g"] # None /\
            scimGroup'["g"].members \subseteq (IF x = None THEN scimGroup["g"].members \ {u}
                                               ELSE scimGroup["g"].members))
  <2>1. CASE scimGroup' = scimGroup /\ x # None
    BY <1>1, <2>1 DEF DirectoryTypes
  <2>2. CASE x = None /\ scimGroup["g"] = None
    BY <1>1, <2>2 DEF DirectoryTypes
  <2>3. CASE x = None /\ scimGroup["g"] # None
    <3> DEFINE s == scimGroup["g"]
    <3>1. s \in Groups
      BY <1>1, <2>3 DEF DirectoryTypes
    <3> HIDE DEF s
    <3>2. s = [name |-> s.name, members |-> s.members] /\ s.name \in {"ann", "bob", "h"}
          /\ s.members \subseteq People
      BY <3>1 DEF Groups
    <3>3. [s EXCEPT !.members = @ \ {u}] = [name |-> s.name, members |-> s.members \ {u}]
      <4> DEFINE n == s.name  m == s.members
      <4>1. s = [name |-> n, members |-> m]
        BY <3>2
      <4> HIDE DEF n, m
      <4>2. [s EXCEPT !.members = @ \ {u}] = [[name |-> n, members |-> m] EXCEPT !.members = @ \ {u}]
        BY <4>1
      <4>3. [s EXCEPT !.members = @ \ {u}] = [name |-> n, members |-> m \ {u}]
        BY <4>2, WithoutMember
      <4> QED BY <4>3 DEF n, m
    <3>4. [name |-> s.name, members |-> s.members \ {u}] \in Groups
      BY <3>2 DEF Groups
    <3>5. scimGroup' = [g \in {"g"} |-> [name |-> s.name, members |-> s.members \ {u}]]
      BY <2>3, <3>3 DEF s
    <3> QED BY <2>3, <3>4, <3>5 DEF s
  <2> QED BY <2>1, <2>2, <2>3
<1>6. DirectoryTypes'
  BY <1>2, <1>3, <1>5 DEF DirectoryTypes
<1>7. D!Sound'
  <2>1. \A v \in People : row'[v] # None => \A w \in People \ {v} : row'[w] # None => row'[w].userName # row'[v].userName
    <3>1. x # None => \A w \in People \ {u} : row[w] # None => row[w].userName # x.userName
      BY <1>4 DEF D!NameIsFree, People
    <3>2. \A v, w \in People : row[v] # None /\ row[w] # None /\ w # v => row[w].userName # row[v].userName
      BY <1>4 DEF D!NameIsFree, People
    <3> QED BY <1>2, <3>1, <3>2
  <2>2. \A v \in People : row'[v] = None <=> created'[v] = 0
    BY <1>2, <1>3, <1>4
  <2>3. scimGroup'["g"] # None => scimGroup'["g"].members \subseteq {v \in People : row'[v] # None}
    <3>1. scimGroup["g"] # None => scimGroup["g"].members \subseteq {v \in People : row[v] # None}
      BY <1>1 DEF D!Sound, People
    <3> QED BY <1>2, <1>5, <3>1
  <2> QED BY <2>1, <2>2, <2>3 DEF D!Sound, D!NameIsFree, People
<1>8. WalkInv' /\ D!PagesAreComplete'
  <2>1. \A v \in People : row[v] # None /\ row'[v] # None => created'[v] = created[v]
    BY <1>2, <1>3, <1>4
  <2> QED BY <1>2, <1>3, <2>1, WalkGoesOn
<1> QED BY <1>6, <1>7, <1>8 DEF DirectoryInv

(* A group is written: its name is unique and its members are users.        *)
LEMMA GroupStep ==
    ASSUME DirectoryInv, NEW s \in Groups \cup {None}, s # None => D!Valid(s.members) = s.members,
           scimGroup' = [scimGroup EXCEPT !["g"] = s], UNCHANGED <<row, created, walk>>,
           sent' = sent + 1, LastIsDone'
    PROVE  DirectoryInv'
<1>1. DirectoryTypes /\ D!Sound
  BY DEF DirectoryInv
<1>2. scimGroup' \in [{"g"} -> Groups \cup {None}] /\ scimGroup'["g"] = s
  BY <1>1 DEF DirectoryTypes
<1>3. DirectoryTypes'
  BY <1>1, <1>2 DEF DirectoryTypes
<1>4. D!Sound'
  <2>1. s # None => s.members \subseteq {u \in People : row[u] # None}
    BY RowsAreRows DEF D!Valid
  <2> QED BY <1>1, <1>2, <2>1 DEF D!Sound, D!NameIsFree, People
<1> QED BY <1>3, <1>4, WalkStays DEF DirectoryInv

(* The connection's settings change no rows.                                *)
LEMMA StillStep ==
    ASSUME DirectoryInv, UNCHANGED <<row, created, scimGroup, last, walk>>, sent' = sent + 1
    PROVE  DirectoryInv'
<1>1. DirectoryTypes'
  BY DEF DirectoryInv, DirectoryTypes
<1>2. D!Sound' /\ LastIsDone'
  BY DEF DirectoryInv, D!Sound, D!NameIsFree, LastIsDone, D!Valid, D!ApplyScimUserPatch,
         D!ApplyScimGroupPatch, Kept
<1> QED BY <1>1, <1>2, WalkStays DEF DirectoryInv

(* A page changes the reading only.                                         *)
LEMMA WalkStep ==
    ASSUME DirectoryInv, UNCHANGED <<row, created, scimGroup, last, sent>>, (WalkInv /\ D!PagesAreComplete)'
    PROVE  DirectoryInv'
BY DEF DirectoryInv, DirectoryTypes, D!Sound, D!NameIsFree, LastIsDone, D!Valid,
       D!ApplyScimUserPatch, D!ApplyScimGroupPatch, Kept

(* Whoever is not on a page comes on a later one: pages follow each other   *)
(* without a gap.                                                           *)
LEMMA ListStep ==
    ASSUME DirectoryInv, NEW t, D!ScimListUsers(t)
    PROVE  DirectoryInv'
<1> DEFINE all == D!Listed(walk.filter)
<1>1. WalkInv /\ DirectoryTypes
  BY DEF DirectoryInv
<1>2. PICK cut \in D!Cuts(all, walk.next, Count) :
        LET page == cut[2] \ cut[1]
            after == walk.next + D!Cardinality(page)
        IN  walk' = [walk EXCEPT
                       !.seen = @ \cup page,
                       !.next = IF page = {} \/ after > D!Cardinality(all) THEN 0 ELSE after,
                       !.tied = @ \/ D!Ties(cut[1], all)]
  BY DEF D!ScimListUsers
<1> DEFINE page == cut[2] \ cut[1]
           after == walk.next + Cardinality(page)
           n == IF page = {} \/ after > Cardinality(all) THEN 0 ELSE after
           s == walk.seen \cup page
           tied == walk.tied \/ D!Ties(cut[1], all)
<1>3. UNCHANGED <<row, created, scimGroup, last, sent>> /\ walk.next > 0
  BY DEF D!ScimListUsers, D!rows
<1>4. Count \in Nat \ {0} /\ walk.next \in Nat \ {0}
  <2>1. Count \in Nat \ {0}
    BY IdentityAssumption DEF D!ScimDirectoryAssumption
  <2> QED BY <1>1, <1>3, <2>1 DEF WalkInv
<1>5. walk' = [walk EXCEPT !.seen = s, !.next = n, !.tied = tied]
  BY <1>2, SameCardinality
<1>6. all \in SUBSET People /\ created \in [People -> Nat]
  BY <1>1 DEF D!Listed, DirectoryTypes, People
<1>7. Cardinality(all) \in Nat /\ \A u \in all : Place(u, all) \in 1..Cardinality(all)
  <2> HIDE DEF all
  <2> QED BY <1>6, PlacesAreCounted, PeopleAreFinite, FS_CardinalityType
<1>8. /\ Cardinality(page) \in Nat
      /\ ~D!Ties(cut[1], all) =>
           \A u \in all \ page : walk.next <= Place(u, all) =>
             page # {} /\ after <= Place(u, all)
  <2> HIDE DEF all
  <2> QED BY <1>4, <1>6, PagesCover
<1>9. /\ walk' = [filter |-> walk.filter, next |-> n, seen |-> s,
                  throughout |-> walk.throughout, shrunk |-> walk.shrunk, tied |-> tied]
      /\ walk.throughout \subseteq all
      /\ ~walk.shrunk /\ ~walk.tied =>
           \A u \in walk.throughout \ walk.seen : walk.next <= Place(u, all)
  <2> HIDE DEF n, s, tied
  <2>1. walk = [filter |-> walk.filter, next |-> walk.next, seen |-> walk.seen,
                throughout |-> walk.throughout, shrunk |-> walk.shrunk, tied |-> walk.tied]
    BY <1>1 DEF WalkInv
  <2> QED BY <1>1, <1>3, <1>5, <2>1 DEF WalkInv
<1> HIDE DEF all, page
<1>10. n \in Nat /\ walk.shrunk \in BOOLEAN /\ tied \in BOOLEAN
  BY <1>1, <1>4, <1>8 DEF WalkInv, D!Ties
(* Whoever is not on this page comes on a later one.                        *)
<1>11. ASSUME ~walk.shrunk, ~tied, NEW u \in walk.throughout \ s
       PROVE  page # {} /\ after <= Place(u, all) /\ u \in all
  BY <1>8, <1>9, <1>11
<1>12. WalkInv' /\ D!PagesAreComplete'
  <2>1. /\ walk'.filter = walk.filter /\ walk'.next = n /\ walk'.seen = s
        /\ walk'.throughout = walk.throughout /\ walk'.shrunk = walk.shrunk /\ walk'.tied = tied
        /\ walk' = [filter |-> walk'.filter, next |-> walk'.next, seen |-> walk'.seen,
                    throughout |-> walk'.throughout, shrunk |-> walk'.shrunk, tied |-> walk'.tied]
    <3> HIDE DEF n, s, tied
    <3> QED BY <1>9
  <2>2. D!Listed(walk.filter)' = all
    BY <1>3, <2>1 DEF D!Listed, D!Matches, all
  <2>3. \A u : Place(u, D!Listed(walk.filter))' = Place(u, all)
    BY <1>3, <2>2 DEF Place
  <2>4. ~walk.shrunk /\ ~tied /\ n > 0 => \A u \in walk.throughout \ s : n <= Place(u, all)
    <3> HIDE DEF s, tied
    <3> QED BY <1>11
  <2>5. ~walk.shrunk /\ ~tied /\ n = 0 => walk.throughout \subseteq s
    <3> SUFFICES ASSUME ~walk.shrunk, ~tied, n = 0, NEW u \in walk.throughout \ s PROVE FALSE
      OBVIOUS
    <3> HIDE DEF s, tied
    <3>1. page # {} /\ after <= Place(u, all) /\ Place(u, all) \in 1..Cardinality(all)
      BY <1>7, <1>11
    <3> QED BY <1>4, <1>7, <1>8, <3>1
  <2>6. WalkInv'
    <3> HIDE DEF n, s, tied
    <3> QED BY <1>9, <1>10, <2>1, <2>2, <2>3, <2>4 DEF WalkInv
  <2>7. D!PagesAreComplete'
    <3> HIDE DEF n, s, tied
    <3> QED BY <2>1, <2>5 DEF D!PagesAreComplete
  <2> QED BY <2>6, <2>7
<1> QED BY <1>3, <1>12, WalkStep

(* A reading starts with everybody before it.                               *)
LEMMA BeginStep ==
    ASSUME DirectoryInv, NEW t, NEW f, D!BeginWalk(t, f)
    PROVE  DirectoryInv'
<1>1. UNCHANGED <<row, created, scimGroup, last, sent>>
  BY DEF D!BeginWalk, D!rows
<1>2. walk' = [filter |-> f, next |-> 1, seen |-> {}, throughout |-> D!Listed(f),
               shrunk |-> FALSE, tied |-> FALSE]
  BY DEF D!BeginWalk, D!NoWalk
<1>3. walk'.next = 1 /\ walk'.throughout = D!Listed(f) /\ walk'.filter = f /\ walk'.shrunk = FALSE
      /\ walk'.seen = {} /\ walk'.tied = FALSE
  BY <1>2
<1>4. D!Listed(walk.filter)' = D!Listed(f)
  BY <1>1, <1>3 DEF D!Listed, D!Matches
<1>5. \A u \in D!Listed(f) : 1 <= Place(u, D!Listed(f))
  <2>1. D!Listed(f) \in SUBSET People /\ created \in [People -> Nat]
    BY DEF D!Listed, DirectoryTypes, DirectoryInv, People
  <2>2. Cardinality(D!Listed(f)) \in Nat
    BY <2>1, PeopleAreFinite, FS_CardinalityType
  <2> DEFINE all == D!Listed(f)
  <2> HIDE DEF all
  <2>3. \A u \in all : Place(u, all) \in 1..Cardinality(all)
    BY <2>1, PlacesAreCounted DEF all
  <2> QED BY <2>2, <2>3 DEF all
<1>6. \A u : Place(u, D!Listed(walk.filter))' = Place(u, D!Listed(f))
  BY <1>1, <1>4 DEF Place
<1>7. WalkInv' /\ D!PagesAreComplete'
  BY <1>2, <1>3, <1>4, <1>5, <1>6 DEF WalkInv, D!PagesAreComplete
<1> QED BY <1>1, <1>7, WalkStep

(* The row of a name.                                                       *)
LEMMA NamedRow ==
    /\ \A n \in People, a \in BOOLEAN : [userName |-> n, active |-> a, displayName |-> None] \in Rows
    /\ \A n \in People, a \in BOOLEAN : [userName |-> n, active |-> a, displayName |-> None].userName = n
BY RowsAreRows DEF People

(* POST /Users: the new row has a date, and a repetition is refused.        *)
LEMMA CreateUserStep ==
    ASSUME DirectoryInv, NEW t, NEW u \in People, NEW n \in People, D!ScimCreateUser(t, u, n)
    PROVE  DirectoryInv' /\ Repeats
<1> DEFINE r == [op |-> "createUser", user |-> u, name |-> n]
           x == [userName |-> n, active |-> TRUE, displayName |-> None]
<1>1. /\ row[u] = None /\ D!NameIsFree(u, n) /\ row' = [row EXCEPT ![u] = x]
      /\ scimGroup' = scimGroup /\ D!WalkFollows /\ sent' = sent + 1 /\ last' = r
      /\ \E v \in People : \E moment \in {created[v], created[v] + 1} \ {0} :
           created' = [created EXCEPT ![u] = moment]
  BY DEF D!ScimCreateUser, D!Serves, D!Spends, People
<1>2. x \in Rows /\ x.userName = n /\ x # None
  BY NamedRow, RowsAreRows
<1>3. last'.op = "createUser" /\ last'.user = u
  BY <1>1
<1>4. row'[u] = x
  BY <1>1 DEF DirectoryInv, DirectoryTypes
<1>7. \E moment \in Nat \ {0} : created' = [created EXCEPT ![u] = moment]
  <2>1. \A v \in People : created[v] \in Nat
    BY DEF DirectoryInv, DirectoryTypes
  <2>2. PICK v \in People : \E moment \in {created[v], created[v] + 1} \ {0} :
          created' = [created EXCEPT ![u] = moment]
    BY <1>1
  <2>3. PICK moment \in {created[v], created[v] + 1} \ {0} : created' = [created EXCEPT ![u] = moment]
    BY <2>2
  <2>4. moment \in Nat \ {0}
    BY <2>1, <2>3
  <2> QED BY <2>3, <2>4
<1> HIDE DEF r, x
<1>5. LastIsDone'
  BY <1>2, <1>3, <1>4 DEF LastIsDone
<1>6. Repeats
  <2>1. last # None /\ last.op = "createUser" => row[last.user] # None
    BY DEF DirectoryInv, LastIsDone
  <2> QED BY <1>1, <1>3, <2>1 DEF Repeats
<1> QED BY <1>1, <1>2, <1>5, <1>6, <1>7, RowStep

(* PUT /Users: a repetition finds the row as it asks for.                   *)
LEMMA ReplaceUserStep ==
    ASSUME DirectoryInv, NEW t, NEW u \in People, NEW n \in People, NEW a \in BOOLEAN,
           D!ScimReplaceUser(t, u, n, a)
    PROVE  DirectoryInv' /\ Repeats
<1> DEFINE r == [op |-> "replaceUser", user |-> u, name |-> n, active |-> a]
           x == [userName |-> n, active |-> a, displayName |-> None]
<1>1. x \in Rows /\ x.userName = n /\ x # None
  BY NamedRow, RowsAreRows
<1>2. /\ row[u] # None /\ row' = [row EXCEPT ![u] = x]
      /\ n # row[u].userName => D!NameIsFree(u, n)
      /\ UNCHANGED <<created, scimGroup>> /\ D!WalkFollows /\ sent' = sent + 1 /\ last' = r
  BY <1>1 DEF D!ScimReplaceUser, D!Serves, D!Spends, D!PersistUser
<1>3. last'.op = "replaceUser" /\ last'.user = u /\ last'.name = n /\ last'.active = a
  BY <1>2
<1>4. row'[u] = x /\ (row[u] = x => row' = row)
  BY <1>2 DEF DirectoryInv, DirectoryTypes
<1>5. x = [userName |-> last'.name, active |-> last'.active, displayName |-> None]
  BY <1>3
<1> HIDE DEF r, x
<1>6. LastIsDone'
  BY <1>3, <1>4, <1>5 DEF LastIsDone
<1>7. Repeats
  <2>1. last # None /\ last.op = "replaceUser" =>
          row[last.user] = [userName |-> last.name, active |-> last.active, displayName |-> None]
    BY DEF DirectoryInv, LastIsDone
  <2> QED BY <1>2, <1>3, <1>4, <1>5, <2>1 DEF Repeats, D!rows
<1> QED BY <1>1, <1>2, <1>6, <1>7, RowStep

(* PATCH /Users: a repetition changes nothing more.                         *)
LEMMA PatchUserStep ==
    ASSUME DirectoryInv, NEW t, NEW u \in People, NEW ops \in UserPatches, D!ScimPatchUser(t, u, ops)
    PROVE  DirectoryInv' /\ Repeats
<1> DEFINE r == [op |-> "patchUser", user |-> u, ops |-> ops]
           x == D!ApplyScimUserPatch(row[u], ops)
<1>2. /\ row[u] # None /\ row' = [row EXCEPT ![u] = x]
      /\ x.userName # row[u].userName => D!NameIsFree(u, x.userName)
      /\ UNCHANGED <<created, scimGroup>> /\ D!WalkFollows /\ sent' = sent + 1 /\ last' = r
  BY DEF D!ScimPatchUser, D!Serves, D!Spends, D!PersistUser
<1>1. x \in Rows /\ x # None /\ D!ApplyScimUserPatch(x, ops) = x
  <2>1. row[u] \in Rows
    BY <1>2 DEF DirectoryInv, DirectoryTypes
  <2> QED BY <2>1, UserPatchesRepeat, RowsAreRows
<1>3. last'.op = "patchUser" /\ last'.user = u /\ last'.ops = ops
  BY <1>2
<1>4. row'[u] = x /\ (row[u] = x => row' = row)
  BY <1>2 DEF DirectoryInv, DirectoryTypes
<1>5. D!ApplyScimUserPatch(row[u], ops)' = D!ApplyScimUserPatch(row'[u], ops)
  OBVIOUS
<1>6. LastIsDone'
  <2> HIDE DEF r, x
  <2>1. D!ApplyScimUserPatch(row'[u], last'.ops) = row'[u]
    BY <1>1, <1>3, <1>4
  <2> QED BY <1>3, <2>1 DEF LastIsDone
<1>7. Repeats
  <2>1. last # None /\ last.op = "patchUser" =>
          D!ApplyScimUserPatch(row[last.user], last.ops) = row[last.user]
    BY DEF DirectoryInv, LastIsDone
  <2> QED BY <1>2, <1>3, <1>4, <2>1 DEF Repeats, D!rows
<1> HIDE DEF x
<1> QED BY <1>1, <1>2, <1>6, <1>7, RowStep

(* DELETE /Users: a repetition is refused.                                  *)
LEMMA DeleteUserStep ==
    ASSUME DirectoryInv, NEW t, NEW u \in People, D!ScimDeleteUser(t, u)
    PROVE  DirectoryInv' /\ Repeats
<1> DEFINE r == [op |-> "deleteUser", user |-> u]
<1>1. /\ row[u] # None /\ row' = [row EXCEPT ![u] = None]
      /\ created' = [created EXCEPT ![u] = 0]
      /\ scimGroup' = [g \in {"g"} |-> IF scimGroup[g] = None THEN None
                                       ELSE [scimGroup[g] EXCEPT !.members = @ \ {u}]]
      /\ D!WalkFollows /\ sent' = sent + 1 /\ last' = r
  BY DEF D!ScimDeleteUser, D!Serves, D!Spends
<1>2. last'.op = "deleteUser" /\ last'.user = u
  BY <1>1
<1>3. row'[u] = None
  BY <1>1 DEF DirectoryInv, DirectoryTypes
<1> HIDE DEF r
<1>4. LastIsDone'
  BY <1>2, <1>3 DEF LastIsDone
<1>5. Repeats
  <2>1. last # None /\ last.op = "deleteUser" => row[last.user] = None
    BY DEF DirectoryInv, LastIsDone
  <2> QED BY <1>1, <1>2, <2>1 DEF Repeats
<1> QED BY <1>1, <1>4, <1>5, RowStep

(* Groups.                                                                  *)
LEMMA KeptIsAGroup ==
    ASSUME NEW s \in Groups
    PROVE  /\ Kept(s) = [name |-> s.name, members |-> D!Valid(s.members)]
           /\ Kept(s) \in Groups /\ D!Valid(Kept(s).members) = Kept(s).members
<1>1. s = [name |-> s.name, members |-> s.members] /\ s.name \in {"ann", "bob", "h"} /\ s.members \subseteq People
  BY DEF Groups
<1>2. Kept(s) = [name |-> s.name, members |-> D!Valid(s.members)]
  BY <1>1 DEF Kept
<1>3. D!Valid(s.members) \subseteq People /\ D!Valid(D!Valid(s.members)) = D!Valid(s.members)
  BY <1>1 DEF D!Valid
<1> DEFINE v == D!Valid(s.members)  k == Kept(s)
<1> HIDE DEF v
<1>4. k = [name |-> s.name, members |-> v]
  BY <1>2 DEF v
<1> HIDE DEF k
<1>5. k \in Groups /\ k.members = v
  BY <1>1, <1>3, <1>4 DEF Groups, v
<1> QED BY <1>2, <1>3, <1>5 DEF k, v

(* A group is written with those of its members that are users.             *)
LEMMA GroupIsWritten ==
    ASSUME DirectoryInv, NEW s \in Groups, D!GroupIs("g", s)
    PROVE  /\ scimGroup' = [scimGroup EXCEPT !["g"] = Kept(s)]
           /\ scimGroup'["g"] = Kept(s)
           /\ scimGroup["g"] = Kept(s) => scimGroup' = scimGroup
           /\ UNCHANGED <<row, created, walk>>
<1>1. scimGroup' = [scimGroup EXCEPT !["g"] = Kept(s)] /\ UNCHANGED <<row, created, walk>>
  BY DEF D!GroupIs, Kept
<1>2. scimGroup \in [{"g"} -> Groups \cup {None}]
  BY DEF DirectoryInv, DirectoryTypes
<1> DEFINE k == Kept(s)
<1> HIDE DEF k
<1>3. scimGroup' = [scimGroup EXCEPT !["g"] = k]
  BY <1>1 DEF k
<1>4. scimGroup'["g"] = k /\ (scimGroup["g"] = k => scimGroup' = scimGroup)
  BY <1>2, <1>3
<1> QED BY <1>1, <1>4 DEF k

(* The group of a name and members.                                         *)
LEMMA NamedGroup ==
    ASSUME NEW n \in People, NEW ids \in SUBSET People
    PROVE  /\ [name |-> n, members |-> ids] \in Groups
           /\ Kept([name |-> n, members |-> ids]) = [name |-> n, members |-> D!Valid(ids)]
           /\ Kept([name |-> n, members |-> ids]) # None
<1> DEFINE s == [name |-> n, members |-> ids]
<1>1. s \in Groups /\ s.name = n /\ s.members = ids
  BY DEF Groups, People
<1> HIDE DEF s
<1>2. Kept(s) = [name |-> n, members |-> D!Valid(ids)]
  BY <1>1, KeptIsAGroup
<1>3. D!Valid(ids) \in SUBSET People
  BY DEF D!Valid
<1>4. [name |-> n, members |-> D!Valid(ids)] \in D!GroupRow
  BY <1>3 DEF D!GroupRow, People
<1>5. Kept(s) # None
  BY <1>2, <1>4, IdentityAssumption DEF D!ScimDirectoryAssumption
<1> QED BY <1>1, <1>2, <1>5 DEF s

(* POST /Groups: a repetition is refused.                                   *)
LEMMA CreateGroupStep ==
    ASSUME DirectoryInv, NEW t, NEW n \in People, NEW ids \in SUBSET People,
           D!ScimCreateGroup(t, "g", n, ids)
    PROVE  DirectoryInv' /\ Repeats
<1> DEFINE r == [op |-> "createGroup", group |-> "g", name |-> n, ids |-> ids]
           s == [name |-> n, members |-> ids]
<1>1. scimGroup["g"] = None /\ D!GroupIs("g", s) /\ sent' = sent + 1 /\ last' = r
  BY DEF D!ScimCreateGroup, D!Serves, D!Spends
<1>2. s \in Groups /\ Kept(s) # None /\ Kept(s) \in Groups /\ D!Valid(Kept(s).members) = Kept(s).members
  BY NamedGroup, KeptIsAGroup
<1>3. last'.op = "createGroup" /\ last'.group = "g"
  BY <1>1
<1> HIDE DEF r, s
<1>4. /\ scimGroup' = [scimGroup EXCEPT !["g"] = Kept(s)] /\ scimGroup'["g"] = Kept(s)
      /\ UNCHANGED <<row, created, walk>>
  BY <1>1, <1>2, GroupIsWritten
<1>5. LastIsDone'
  BY <1>2, <1>3, <1>4 DEF LastIsDone
<1>6. Repeats
  <2>1. last # None /\ last.op = "createGroup" => scimGroup["g"] # None
    BY DEF DirectoryInv, LastIsDone
  <2> QED BY <1>1, <1>3, <2>1 DEF Repeats
<1> DEFINE k == Kept(s)
<1> HIDE DEF k
<1>7. k \in Groups /\ D!Valid(k.members) = k.members /\ scimGroup' = [scimGroup EXCEPT !["g"] = k]
  BY <1>2, <1>4 DEF k
<1> QED BY <1>1, <1>4, <1>5, <1>6, <1>7, GroupStep

(* PUT /Groups: a repetition finds the group as it asks for.                *)
LEMMA ReplaceGroupStep ==
    ASSUME DirectoryInv, NEW t, NEW n \in People, NEW ids \in SUBSET People,
           D!ScimReplaceGroup(t, "g", n, ids)
    PROVE  DirectoryInv' /\ Repeats
<1> DEFINE r == [op |-> "replaceGroup", group |-> "g", name |-> n, ids |-> ids]
           s == [name |-> n, members |-> ids]
<1>1. D!GroupIs("g", s) /\ sent' = sent + 1 /\ last' = r
  BY DEF D!ScimReplaceGroup, D!Serves, D!Spends
<1>2. s \in Groups /\ Kept(s) = [name |-> n, members |-> D!Valid(ids)] /\ Kept(s) \in Groups
      /\ D!Valid(Kept(s).members) = Kept(s).members
  BY NamedGroup, KeptIsAGroup
<1>3. last'.op = "replaceGroup" /\ last'.group = "g" /\ last'.name = n /\ last'.ids = ids
  BY <1>1
<1> HIDE DEF r, s
<1>4. /\ scimGroup' = [scimGroup EXCEPT !["g"] = Kept(s)] /\ scimGroup'["g"] = Kept(s)
      /\ scimGroup["g"] = Kept(s) => scimGroup' = scimGroup
      /\ UNCHANGED <<row, created, walk>>
  BY <1>1, <1>2, GroupIsWritten
<1>5. LastIsDone'
  <2>1. D!Valid(ids)' = D!Valid(ids)
    BY <1>4 DEF D!Valid
  <2>2. scimGroup'["g"] = [name |-> last'.name, members |-> D!Valid(last.ids)']
    BY <1>2, <1>3, <1>4, <2>1 DEF D!Valid
  <2> QED BY <1>3, <2>2 DEF LastIsDone
<1>6. Repeats
  <2>1. last # None /\ last.op = "replaceGroup" =>
          scimGroup["g"] = [name |-> last.name, members |-> D!Valid(last.ids)]
    BY DEF DirectoryInv, LastIsDone
  <2> QED BY <1>1, <1>2, <1>3, <1>4, <2>1 DEF Repeats, D!rows
<1> DEFINE k == Kept(s)
<1> HIDE DEF k
<1>7. k \in Groups /\ D!Valid(k.members) = k.members /\ scimGroup' = [scimGroup EXCEPT !["g"] = k]
  BY <1>2, <1>4 DEF k
<1> QED BY <1>1, <1>4, <1>5, <1>6, <1>7, GroupStep

(* PATCH /Groups: a repetition changes nothing more.                        *)
LEMMA PatchGroupStep ==
    ASSUME DirectoryInv, NEW t, NEW ops \in GroupPatches, D!ScimPatchGroup(t, "g", ops)
    PROVE  DirectoryInv' /\ Repeats
<1> DEFINE r == [op |-> "patchGroup", group |-> "g", ops |-> ops]
           s == D!ApplyScimGroupPatch(scimGroup["g"], ops)
           k == Kept(s)
<1>1. D!GroupIs("g", s) /\ sent' = sent + 1 /\ last' = r /\ scimGroup["g"] # None
  BY DEF D!ScimPatchGroup, D!Serves, D!Spends
<1>2. k \in Groups /\ Kept(D!ApplyScimGroupPatch(k, ops)) = k
  <2>1. scimGroup["g"] \in Groups
    BY <1>1 DEF DirectoryInv, DirectoryTypes
  <2> QED BY <2>1, GroupPatchesRepeat
<1>3. last'.op = "patchGroup" /\ last'.group = "g" /\ last'.ops = ops
  BY <1>1
<1>4. /\ scimGroup' = [scimGroup EXCEPT !["g"] = k] /\ UNCHANGED <<row, created, walk>>
      /\ scimGroup'["g"] = k /\ (scimGroup["g"] = k => scimGroup' = scimGroup)
  <2>1. scimGroup' = [scimGroup EXCEPT !["g"] = k] /\ UNCHANGED <<row, created, walk>>
    BY <1>1 DEF D!GroupIs, Kept
  <2>2. scimGroup \in [{"g"} -> Groups \cup {None}]
    BY DEF DirectoryInv, DirectoryTypes
  <2> HIDE DEF k
  <2> QED BY <2>1, <2>2
<1>5. D!Valid(k.members) = k.members
  BY DEF Kept, D!Valid
<1>6. LastIsDone'
  <2>1. Kept(D!ApplyScimGroupPatch(scimGroup["g"], last.ops))' = scimGroup'["g"]
    <3> HIDE DEF k, r
    <3>1. Kept(D!ApplyScimGroupPatch(scimGroup["g"], last.ops))' = Kept(D!ApplyScimGroupPatch(k, ops))
      BY <1>3, <1>4 DEF Kept, D!Valid
    <3> QED BY <1>2, <1>4, <3>1
  <2> HIDE DEF r
  <2> QED BY <1>3, <2>1 DEF LastIsDone
<1>7. Repeats
  <2>1. last # None /\ last.op = "patchGroup" =>
          Kept(D!ApplyScimGroupPatch(scimGroup["g"], last.ops)) = scimGroup["g"]
    BY DEF DirectoryInv, LastIsDone
  <2> QED BY <1>1, <1>3, <1>4, <2>1 DEF Repeats, D!rows
<1> HIDE DEF k
<1> QED BY <1>1, <1>2, <1>4, <1>5, <1>6, <1>7, GroupStep

(* DELETE /Groups: a repetition is refused.                                 *)
LEMMA DeleteGroupStep ==
    ASSUME DirectoryInv, NEW t, D!ScimDeleteGroup(t, "g")
    PROVE  DirectoryInv' /\ Repeats
<1> DEFINE r == [op |-> "deleteGroup", group |-> "g"]
<1>1. /\ scimGroup["g"] # None /\ scimGroup' = [scimGroup EXCEPT !["g"] = None]
      /\ UNCHANGED <<row, created, walk>> /\ sent' = sent + 1 /\ last' = r
  BY DEF D!ScimDeleteGroup, D!Serves, D!Spends
<1>2. last'.op = "deleteGroup" /\ last'.group = "g"
  BY <1>1
<1>3. scimGroup'["g"] = None
  BY <1>1 DEF DirectoryInv, DirectoryTypes
<1> HIDE DEF r
<1>4. LastIsDone'
  BY <1>2, <1>3 DEF LastIsDone
<1>5. Repeats
  <2>1. last # None /\ last.op = "deleteGroup" => scimGroup["g"] = None
    BY DEF DirectoryInv, LastIsDone
  <2> QED BY <1>1, <1>2, <2>1 DEF Repeats
<1> QED BY <1>1, <1>4, <1>5, GroupStep

(* Removing the connection removes the rows.                                *)
LEMMA DeleteConfigStep ==
    ASSUME DirectoryInv, D!DeleteScimConfig
    PROVE  DirectoryInv' /\ Repeats
<1>1. /\ row' = [u \in People |-> None] /\ created' = [u \in People |-> 0]
      /\ scimGroup' = [g \in {"g"} |-> None] /\ last' = None /\ D!WalkFollows /\ sent' = sent + 1
  BY DEF D!DeleteScimConfig, D!Spends, People
<1>2. DirectoryTypes'
  BY <1>1 DEF DirectoryInv, DirectoryTypes
<1>3. D!Sound'
  BY <1>1 DEF D!Sound, People
<1>4. WalkInv' /\ D!PagesAreComplete'
  BY <1>1, WalkGoesOn
<1> QED BY <1>1, <1>2, <1>3, <1>4 DEF DirectoryInv, LastIsDone, Repeats

(* Every step of the directory.                                             *)
LEMMA DirectoryStep ==
    ASSUME DirectoryInv, [D!Next]_(D!vars)
    PROVE  DirectoryInv' /\ Repeats
<1>1. CASE UNCHANGED D!vars
  <2>1. UNCHANGED <<row, created, scimGroup, last, sent, walk>>
    BY <1>1 DEF D!vars
  <2>2. DirectoryInv'
    BY <2>1, WalkStays, WalkStep
  <2> QED BY <2>1, <2>2 DEF Repeats, D!rows
<1>2. CASE D!SettingsNext
  <2>1. ASSUME NEW on \in BOOLEAN, D!UpsertScimConfig(on) PROVE DirectoryInv' /\ Repeats
    <3>1. UNCHANGED <<row, created, scimGroup, last, walk>> /\ sent' = sent + 1
      BY <2>1 DEF D!UpsertScimConfig, D!Spends, D!rows
    <3> QED BY <3>1, StillStep DEF Repeats, D!rows
  <2>2. CASE D!RotateScimToken
    <3>1. UNCHANGED <<row, created, scimGroup, last, walk>> /\ sent' = sent + 1
      BY <2>2 DEF D!RotateScimToken, D!Spends, D!rows
    <3> QED BY <3>1, StillStep DEF Repeats, D!rows
  <2> QED BY <1>2, <2>1, <2>2, DeleteConfigStep DEF D!SettingsNext
<1>3. ASSUME NEW t, NEW f, D!BeginWalk(t, f) PROVE DirectoryInv' /\ Repeats
  BY <1>3, BeginStep DEF Repeats, D!BeginWalk
<1>4. ASSUME NEW t, D!ScimListUsers(t) PROVE DirectoryInv' /\ Repeats
  <2>1. UNCHANGED D!rows
    BY <1>4 DEF D!ScimListUsers
  <2> QED BY <1>4, <2>1, ListStep DEF Repeats
<1>5. CASE \E t \in 0..MaxScim + 1 :
             \/ \E f \in {"none", "active", "unknown"} : D!BeginWalk(t, f)
             \/ D!ScimListUsers(t)
             \/ \E u \in {"ann", "bob"} :
                  \/ \E n \in {"ann", "bob"} : D!ScimCreateUser(t, u, n)
                  \/ \E n \in {"ann", "bob"}, active \in BOOLEAN : D!ScimReplaceUser(t, u, n, active)
                  \/ \E ops \in UserPatches : D!ScimPatchUser(t, u, ops)
                  \/ D!ScimDeleteUser(t, u)
             \/ \E g \in {"g"} :
                  \/ \E n \in {"ann", "bob"}, ids \in SUBSET {"ann", "bob"} :
                       D!ScimCreateGroup(t, g, n, ids) \/ D!ScimReplaceGroup(t, g, n, ids)
                  \/ \E ops \in GroupPatches : D!ScimPatchGroup(t, g, ops)
                  \/ D!ScimDeleteGroup(t, g)
  <2>1. PICK t : 
             \/ \E f : D!BeginWalk(t, f)
             \/ D!ScimListUsers(t)
             \/ \E u \in People :
                  \/ \E n \in People : D!ScimCreateUser(t, u, n)
                  \/ \E n \in People, active \in BOOLEAN : D!ScimReplaceUser(t, u, n, active)
                  \/ \E ops \in UserPatches : D!ScimPatchUser(t, u, ops)
                  \/ D!ScimDeleteUser(t, u)
             \/ \E n \in People, ids \in SUBSET People :
                  D!ScimCreateGroup(t, "g", n, ids) \/ D!ScimReplaceGroup(t, "g", n, ids)
             \/ \E ops \in GroupPatches : D!ScimPatchGroup(t, "g", ops)
             \/ D!ScimDeleteGroup(t, "g")
    <3>1. PICK t :
             \/ \E f \in {"none", "active", "unknown"} : D!BeginWalk(t, f)
             \/ D!ScimListUsers(t)
             \/ \E u \in {"ann", "bob"} :
                  \/ \E n \in {"ann", "bob"} : D!ScimCreateUser(t, u, n)
                  \/ \E n \in {"ann", "bob"}, active \in BOOLEAN : D!ScimReplaceUser(t, u, n, active)
                  \/ \E ops \in UserPatches : D!ScimPatchUser(t, u, ops)
                  \/ D!ScimDeleteUser(t, u)
             \/ \E g \in {"g"} :
                  \/ \E n \in {"ann", "bob"}, ids \in SUBSET {"ann", "bob"} :
                       D!ScimCreateGroup(t, g, n, ids) \/ D!ScimReplaceGroup(t, g, n, ids)
                  \/ \E ops \in GroupPatches : D!ScimPatchGroup(t, g, ops)
                  \/ D!ScimDeleteGroup(t, g)
      BY <1>5, Zenon
    <3>2. CASE \E g \in {"g"} :
                  \/ \E n \in {"ann", "bob"}, ids \in SUBSET {"ann", "bob"} :
                       D!ScimCreateGroup(t, g, n, ids) \/ D!ScimReplaceGroup(t, g, n, ids)
                  \/ \E ops \in GroupPatches : D!ScimPatchGroup(t, g, ops)
                  \/ D!ScimDeleteGroup(t, g)
      <4>1. \/ \E n \in {"ann", "bob"}, ids \in SUBSET {"ann", "bob"} :
                  D!ScimCreateGroup(t, "g", n, ids) \/ D!ScimReplaceGroup(t, "g", n, ids)
            \/ \E ops \in GroupPatches : D!ScimPatchGroup(t, "g", ops)
            \/ D!ScimDeleteGroup(t, "g")
        BY <3>2, Zenon
      <4> QED BY <4>1, Zenon DEF People
    <3> QED BY <3>1, <3>2, Zenon DEF People
  <2>2. CASE \E u \in People :
                  \/ \E n \in People : D!ScimCreateUser(t, u, n)
                  \/ \E n \in People, active \in BOOLEAN : D!ScimReplaceUser(t, u, n, active)
                  \/ \E ops \in UserPatches : D!ScimPatchUser(t, u, ops)
                  \/ D!ScimDeleteUser(t, u)
    BY <2>2, CreateUserStep, ReplaceUserStep, PatchUserStep, DeleteUserStep, Zenon
  <2>3. CASE \/ \E n \in People, ids \in SUBSET People :
                  D!ScimCreateGroup(t, "g", n, ids) \/ D!ScimReplaceGroup(t, "g", n, ids)
             \/ \E ops \in GroupPatches : D!ScimPatchGroup(t, "g", ops)
             \/ D!ScimDeleteGroup(t, "g")
    BY <2>3, CreateGroupStep, ReplaceGroupStep, PatchGroupStep, DeleteGroupStep, Zenon
  <2> QED BY <1>3, <1>4, <2>1, <2>2, <2>3, Zenon
<1> QED BY <1>1, <1>2, <1>5 DEF D!Next

-----------------------------------------------------------------------------
(* The whole.                                                               *)
LEMMA DirectoryPart ==
    ASSUME [Next]_identityVars
    PROVE  [D!Next]_(D!vars)
<1>1. UNCHANGED scimVars => UNCHANGED D!vars
  BY DEF scimVars, D!vars
<1>2. UNCHANGED identityVars => UNCHANGED scimVars
  BY DEF identityVars
<1> QED BY <1>1, <1>2 DEF Next

Focus == focus \in {"members", "signIn", "directory", "federation"}
IdentityInv ==
    Focus /\ SignInInv /\ FederationInv /\ EntryInv /\ ProvisioningInv /\ DirectoryInv

(* The invariants of all parts hold in every behaviour of the whole.        *)
LEMMA IdentitySteps == [][Next]_identityVars /\ Init => []IdentityInv
<1>1. Init => IdentityInv
  BY SignInInit, FederationInit, EntryInit, ProvisioningInit, DirectoryInit DEF Init, Focus, IdentityInv
<1>2. IdentityInv /\ [Next]_identityVars => IdentityInv'
  <2> SUFFICES ASSUME IdentityInv, [Next]_identityVars PROVE IdentityInv'
    OBVIOUS
  <2>1. SignInInv' /\ FederationInv'
    BY Parts, SignInStep, FederationStep DEF IdentityInv
  <2>2. EntryInv'
    BY Parts, EntryStep DEF IdentityInv
  <2>3. ProvisioningInv'
    BY Parts, ProvisioningStep DEF IdentityInv
  <2>4. DirectoryInv'
    BY DirectoryPart, DirectoryStep DEF IdentityInv
  <2>5. Focus'
    BY DEF Next, identityVars, Focus, IdentityInv
  <2> QED BY <2>1, <2>2, <2>3, <2>4, <2>5 DEF IdentityInv
<1> QED BY <1>1, <1>2, PTL

(* Rows and requests have their types, SCIM's users mirror their            *)
(* memberships, names are unique and a list read page by page is complete,  *)
(* and nobody is admitted by a provider that was not in force or left       *)
(* without a role (Consistent).                                             *)
THEOREM IdentityIsConsistent == Spec => []Consistent
<1>1. IdentityInv => Consistent
  <2> SUFFICES ASSUME IdentityInv PROVE Consistent
    OBVIOUS
  <2>1. M!TypeOK /\ M!ScimMirrorsMembership
    BY DEF IdentityInv, ProvisioningInv, MemberTypes, IsGroup, M!TypeOK, RoleKeys, GroupNames
  <2>2. S!TypeOK
    BY DEF IdentityInv, SignInInv, SignInTypes
  <2>3. D!Sound /\ D!PagesAreComplete
    BY DEF IdentityInv, DirectoryInv
  <2>4. F!OnlyByProviderInForce /\ F!LinkedAreMembers
    BY EntrySafe DEF IdentityInv
  <2>5. Focus
    BY DEF IdentityInv
  <2> QED BY <2>1, <2>2, <2>3, <2>4, <2>5 DEF Focus, Consistent
<1> QED BY IdentitySteps, <1>1, PTL DEF Spec, identityVars

(* SCIM decides the managed roles, leaves every other role where it was,    *)
(* and a request that is repeated changes nothing more                      *)
(* (ScimKeepsToItsRoles).                                                   *)
THEOREM ScimStaysWithinItsRoles == Spec => ScimKeepsToItsRoles
<1>1. IdentityInv => M!GroupsDecideRoles
  BY DEF IdentityInv, ProvisioningInv
<1>2. IdentityInv /\ [Next]_identityVars => [HandRoles]_(M!vars)
  BY Parts, ProvisioningStep DEF IdentityInv
<1>3. IdentityInv /\ [Next]_identityVars => [Repeats]_(D!vars)
  BY DirectoryPart, DirectoryStep DEF IdentityInv
<1> QED BY IdentitySteps, <1>1, <1>2, <1>3, PTL
   DEF Spec, identityVars, ScimKeepsToItsRoles, M!ScimKeepsToItsRoles, M!HandRolesKept, HandRoles,
       D!RepeatsChangeNothing, Repeats

=============================================================================
