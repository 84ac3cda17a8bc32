-------------------------- MODULE GovernanceProofs ---------------------------
(***************************************************************************)
(* What Retention, DataExport and Access keep for any number of rows, runs, *)
(* targets, jobs, people, organizations and keys: the account of what was  *)
(* deleted, the floor and the hold, the availability of an export, and     *)
(* what a request may do.                                                  *)
(***************************************************************************)
EXTENDS Governance, FiniteSetTheorems, TLAPS

(* What a request has resolved so far.  The membership it has read is still *)
(* the one on record as long as it has not been put among the moved; so     *)
(* what it may do once it acts was held at the moment it read the grants,   *)
(* and what was held is never forgotten while the request is under way.     *)
Resolved(r) ==
    /\ "step" \in DOMAIN request[r]
    /\ request[r].step \in {"pick", "load", "grant"} => request[r].actor \in Person
    /\ request[r].step \in {"load", "grant"} => request[r].organization \in Organization
    /\ request[r].step = "grant" /\ r \notin moved =>
         request[r].membership = member[request[r].organization][request[r].actor]
    /\ request[r].step = "act" =>
         /\ request[r].actor \in Key => \A n \in request[r].may : n \notin A!Forbidden
         /\ r \notin moved =>
              \A n \in request[r].may : <<request[r].organization, n>> \in held[r]
Membership == [status : {"none", "active", "suspended"}, role : A!Role]
Members == member \in [Organization -> [Person -> Membership]]
AccessInv ==
    /\ DOMAIN request = Request /\ DOMAIN held = Request
    /\ \A r \in Request : Resolved(r)
    /\ Members

(* No request is under way at first.                                        *)
LEMMA InitResolved == A!Init => AccessInv
<1> SUFFICES ASSUME A!Init PROVE AccessInv
  OBVIOUS
<1>1. Members
  <2>1. [status : {"active"}, role : {"organization_admin", "auditor"}]
          \cup {[status |-> "none", role |-> "auditor"]} \subseteq Membership
    BY DEF Membership, A!Role
  <2> QED BY <2>1 DEF A!Init, Members
<1> QED BY <1>1 DEF A!Init, AccessInv, Resolved, A!Idle

(* Membership rows keep their types.                                        *)
LEMMA MembersStay ==
    ASSUME AccessInv, A!Next PROVE Members'
<1> USE DEF Members
<1>0. Members
  BY DEF AccessInv
<1>1. ASSUME NEW o \in Organization, NEW p \in Person, NEW s \in {"active", "suspended"},
             A!SetStatus(o, p, s)
      PROVE  Members'
  BY <1>0, <1>1 DEF A!SetStatus, Membership
<1>2. ASSUME NEW r \in Request, NEW p \in Person, NEW k \in A!Role, A!SetRole(r, p, k)
      PROVE  Members'
  <2> DEFINE o == request[r].organization
  <2>1. member' = [member EXCEPT ![o][p].role = k]
    BY <1>2 DEF A!SetRole
  <2>2. CASE o \in Organization
    <3>1. [member[o][p] EXCEPT !.role = k] \in Membership
      BY <1>0, <2>2 DEF Membership
    <3>2. [member[o] EXCEPT ![p] = [member[o][p] EXCEPT !.role = k]] \in [Person -> Membership]
      BY <1>0, <2>2, <3>1
    <3>3. member' = [member EXCEPT ![o] = [member[o] EXCEPT ![p] = [member[o][p] EXCEPT !.role = k]]]
      BY <2>1
    <3> QED BY <1>0, <3>2, <3>3
  <2>3. CASE o \notin Organization
    BY <1>0, <2>1, <2>3
  <2> QED BY <2>2, <2>3
<1>3. ASSUME NEW r \in Request, NEW o \in Organization, A!CreateOrganization(r, o)
      PROVE  Members'
  <2>1. A!Administrator \in Membership
    BY DEF A!Administrator, Membership, A!Role
  <2> QED BY <1>0, <1>3, <2>1 DEF A!CreateOrganization
<1>4. CASE UNCHANGED member
  BY <1>0, <1>4
<1> HIDE DEF Members
<1> QED BY <1>1, <1>2, <1>3, <1>4
    DEF A!Next, A!KeyNext, A!CreateApiKey, A!RevokeApiKey, A!UpdateRole, A!ResolveActor,
        A!PickOrganization, A!PickNone, A!LoadMembership, A!LoadPermissions,
        A!AuthenticateApiKey, A!Expire

(* A request that stands still loses nothing, whatever others do.           *)
LEMMA OthersStay ==
    ASSUME AccessInv, A!HistoryFollows, NEW r \in Request, request'[r] = request[r]
    PROVE  Resolved(r)'
<1>1. Resolved(r)
  BY DEF AccessInv
<1>2. CASE request[r].step = "grant"
  <2>1. A!UnderWay(request'[r])
    BY <1>2 DEF A!UnderWay, A!Idle, A!Done
  <2>2. r \notin moved' =>
          r \notin moved /\ member'[request[r].organization][request[r].actor]
                             = member[request[r].organization][request[r].actor]
    BY <2>1, <1>2 DEF A!HistoryFollows
  <2> QED BY <1>1, <1>2, <2>2 DEF Resolved
<1>3. CASE request[r].step = "act"
  <2>1. A!UnderWay(request'[r])
    BY <1>3 DEF A!UnderWay, A!Idle, A!Done
  <2>2. (r \notin moved' => r \notin moved) /\ held[r] \subseteq held'[r]
    BY <2>1 DEF A!HistoryFollows
  <2> QED BY <1>1, <1>3, <2>2 DEF Resolved
<1>4. CASE request[r].step \notin {"grant", "act"}
  BY <1>1, <1>4 DEF Resolved
<1> QED BY <1>2, <1>3, <1>4

(* A request that is under way remembers what its actor holds now.          *)
LEMMA NowHeld ==
    ASSUME A!HistoryFollows, NEW r \in Request, A!UnderWay(request'[r])
    PROVE  /\ A!Holds(request'[r].actor, member', grants', key') \subseteq held'[r]
           /\ r \notin moved' => r \notin moved
  BY DEF A!HistoryFollows

(* One request's step, the rest of the requests standing still.             *)
Moves(r) == DOMAIN request' = Request /\ \A s \in Request \ {r} : request'[s] = request[s]
(* One request moves, and what the others were granted stays granted.       *)
LEMMA OneMoves ==
    ASSUME AccessInv, A!HistoryFollows, NEW r \in Request, Moves(r), Resolved(r)', Members'
    PROVE  AccessInv'
<1>1. \A s \in Request : Resolved(s)'
  BY OthersStay DEF Moves
<1> QED BY <1>1 DEF AccessInv, Moves, A!HistoryFollows

(* A member holds what its roles resolve to.                                *)
LEMMA MembersHold ==
    ASSUME NEW p \in Person, NEW o \in Organization, NEW n, NEW ms, NEW g, NEW ks,
           n \in A!ResolvePermissions(ms[o][p], g[o])
    PROVE  <<o, n>> \in A!Holds(p, ms, g, ks)
<1>1. <<o, n>> \in {o} \X A!ResolvePermissions(ms[o][p], g[o])
  OBVIOUS
<1> HIDE DEF A!ResolvePermissions
<1> QED BY <1>1 DEF A!Holds
(* A key holds what its scopes stand for.                                   *)
LEMMA KeysHold ==
    ASSUME NEW k, k \notin Person, NEW n, NEW ms, NEW g, NEW ks,
           ks[k].state = "active", n \in A!ExpandApiKeyScopes(ks[k].scopes)
    PROVE  <<ks[k].organization, n>> \in A!Holds(k, ms, g, ks)
  BY DEF A!Holds, A!KeyPermissions

(* The scopes of a key never yield an administrative permission.            *)
LEMMA KeysGetNoForbidden ==
    ASSUME NEW scopes, NEW n \in A!ExpandApiKeyScopes(scopes) PROVE n \notin A!Forbidden
<1> DEFINE all == UNION {A!ScopePermissions[s] : s \in scopes}
<1>1. A!ExpandApiKeyScopes(scopes) = all \ A!Forbidden
  BY Zenon DEF A!ExpandApiKeyScopes
<1> HIDE DEF all
<1> QED BY <1>1

(* Every step keeps the invariant.                                          *)
LEMMA AccessStep ==
    ASSUME AccessInv, [A!Next]_accessVars
    PROVE  AccessInv'
<1>0. A!AccessAssumption
  BY GovernanceAssumption DEF GovernanceAssumption
<1>1. CASE UNCHANGED accessVars
  BY <1>1 DEF accessVars, AccessInv, Resolved, Members
<1>2. CASE A!Next
  <2>1. A!HistoryFollows
    BY <1>2 DEF A!Next, A!KeyNext
  <2>a. Members'
    BY <1>2, MembersStay
  <2>2. CASE UNCHANGED request
    <3>1. \A r \in Request : Resolved(r)'
      BY <2>1, <2>2, OthersStay
    <3> QED BY <2>1, <2>2, <2>a, <3>1 DEF AccessInv, A!HistoryFollows
  <2>3. ASSUME NEW k \in Key, A!Expire(k) PROVE AccessInv'
    BY <2>3, <2>2 DEF A!Expire, A!Changes
  <2>4. ASSUME NEW o \in Organization, NEW p \in Person, NEW s \in {"active", "suspended"},
               A!SetStatus(o, p, s)
        PROVE  AccessInv'
    BY <2>4, <2>2 DEF A!SetStatus, A!Changes
  <2>5. ASSUME NEW r \in Request, NEW p \in Person, NEW o \in Organization, A!ResolveActor(r, p, o)
        PROVE  AccessInv'
    <3>1. Moves(r) /\ request'[r] = [step |-> "pick", actor |-> p, asked |-> o]
      BY <2>5 DEF A!ResolveActor, A!Steps, Moves, AccessInv
    <3>2. Resolved(r)'
      BY <3>1 DEF Resolved
    <3> QED BY <2>1, <2>a, <3>1, <3>2, OneMoves
  <2>6. ASSUME NEW r \in Request, NEW o \in Organization, A!PickOrganization(r, o)
        PROVE  AccessInv'
    <3>1. /\ Moves(r)
          /\ request'[r] = [step |-> "load", actor |-> request[r].actor, organization |-> o]
          /\ request[r].step = "pick"
      BY <2>6 DEF A!PickOrganization, A!Steps, Moves, AccessInv
    <3>2. Resolved(r)'
      BY <3>1 DEF Resolved, AccessInv
    <3> QED BY <2>1, <2>a, <3>1, <3>2, OneMoves
  <2>6a. ASSUME NEW r \in Request, A!PickNone(r) PROVE AccessInv'
    <3>1. /\ Moves(r) /\ request[r].step = "pick"
          /\ request'[r] = [step |-> "act", actor |-> request[r].actor, organization |-> None,
                            may |-> {}]
      BY <2>6a DEF A!PickNone, A!Steps, Moves, AccessInv
    <3>2. Resolved(r)'
      BY <3>1 DEF Resolved, AccessInv
    <3> QED BY <2>1, <2>a, <3>1, <3>2, OneMoves
  <2>7. ASSUME NEW r \in Request, A!LoadMembership(r) PROVE AccessInv'
    <3> DEFINE q == request[r]
    <3>1. /\ Moves(r) /\ UNCHANGED member /\ q.step = "load"
          /\ request'[r] = [step |-> "grant", actor |-> q.actor, organization |-> q.organization,
                            membership |-> member[q.organization][q.actor]]
      BY <2>7 DEF A!LoadMembership, A!Steps, Moves, AccessInv
    <3>2. Resolved(r)'
      BY <3>1 DEF Resolved, AccessInv
    <3> QED BY <2>1, <2>a, <3>1, <3>2, OneMoves
  <2>8. ASSUME NEW r \in Request, A!LoadPermissions(r) PROVE AccessInv'
    <3> DEFINE q == request[r]
               may == A!ResolvePermissions(q.membership, grants[q.organization])
    <3>1. /\ Moves(r) /\ UNCHANGED <<member, grants, key>> /\ q.step = "grant"
          /\ request'[r] = [step |-> "act", actor |-> q.actor, organization |-> q.organization,
                            may |-> may]
      BY <2>8 DEF A!LoadPermissions, A!Steps, Moves, AccessInv
    <3>2. /\ q.actor \in Person /\ q.actor \notin Key /\ q.organization \in Organization
          /\ r \notin moved => q.membership = member[q.organization][q.actor]
      BY <1>0, <3>1 DEF AccessInv, Resolved, A!AccessAssumption
    <3>3. A!UnderWay(request'[r])
      BY <3>1 DEF A!UnderWay, A!Idle, A!Done
    <3>4. ASSUME r \notin moved', NEW n \in may PROVE <<q.organization, n>> \in held'[r]
      <4>1. r \notin moved /\ A!Holds(q.actor, member, grants, key) \subseteq held'[r]
        BY <2>1, <3>1, <3>3, <3>4, NowHeld
      <4>2. n \in A!ResolvePermissions(member[q.organization][q.actor], grants[q.organization])
        BY <3>2, <3>4, <4>1
      <4>3. <<q.organization, n>> \in A!Holds(q.actor, member, grants, key)
        BY <3>2, <4>2, MembersHold
      <4> QED BY <4>1, <4>3
    <3> HIDE DEF may
    <3>5. Resolved(r)'
      BY <3>1, <3>2, <3>4 DEF Resolved
    <3> QED BY <2>1, <2>a, <3>1, <3>5, OneMoves
  <2>9. ASSUME NEW r \in Request, NEW k \in Key, A!AuthenticateApiKey(r, k) PROVE AccessInv'
    <3> DEFINE may == A!ExpandApiKeyScopes(key[k].scopes)
    <3>1. /\ Moves(r) /\ UNCHANGED <<member, grants, key>> /\ key[k].state = "active"
          /\ request'[r] = [step |-> "act", actor |-> k, organization |-> key[k].organization,
                            may |-> may]
      BY <2>9 DEF A!AuthenticateApiKey, A!Steps, Moves, AccessInv
    <3>2. A!UnderWay(request'[r])
      BY <3>1 DEF A!UnderWay, A!Idle, A!Done
    <3>3. A!Holds(k, member, grants, key) \subseteq held'[r]
      BY <2>1, <3>1, <3>2, NowHeld
    <3>4. \A n \in may : <<key[k].organization, n>> \in held'[r]
      BY <1>0, <3>1, <3>3, KeysHold DEF A!AccessAssumption
    <3>5. \A n \in may : n \notin A!Forbidden
      BY KeysGetNoForbidden
    <3> HIDE DEF may
    <3>6. Resolved(r)'
      BY <3>1, <3>4, <3>5 DEF Resolved
    <3> QED BY <2>1, <2>a, <3>1, <3>6, OneMoves
  <2>10. ASSUME NEW r \in Request, A!Acts(r, "administer") \/ A!Acts(r, A!Undeclared)
         PROVE  AccessInv'
    <3>1. Moves(r) /\ request'[r] = A!Done
      BY <2>10 DEF A!Acts, Moves, AccessInv
    <3>2. Resolved(r)'
      BY <3>1 DEF Resolved, A!Done
    <3> QED BY <2>1, <2>a, <3>1, <3>2, OneMoves
  <2> QED
    BY <1>2, <2>3, <2>4, <2>5, <2>6, <2>6a, <2>7, <2>8, <2>9, <2>10
    DEF A!Next, A!KeyNext, A!CreateApiKey, A!RevokeApiKey, A!UpdateRole, A!SetRole,
        A!CreateOrganization
<1> QED BY <1>1, <1>2

(* A request acts in an organization within what its actor held there at    *)
(* some moment since it began.                                              *)
LEMMA ActsWithinBounds == AccessInv => A!ActsWithinItsOrganization
  BY DEF AccessInv, Resolved, A!ActsWithinItsOrganization

(* A request of a key changes no key, no role and no membership but that of *)
(* the user who created the key, in an organization that was not there.     *)
LEMMA KeysOnlyFound ==
    ASSUME AccessInv, A!Next, NEW r \in Request,
           A!UnderWay(request[r]), request[r].actor \in Key, request'[r] = A!Done
    PROVE  A!TouchesOnlyNew(key[request[r].actor].by)
<1>1. request'[r] # request[r]
  BY DEF A!UnderWay
<1>2. ~A!Acts(r, "administer")
  BY <1>1 DEF A!Acts, A!Permits, A!Undeclared, A!Forbidden, AccessInv, Resolved
<1>3. \A s \in Request \ {r} : ~A!Acts(s, "administer") /\ ~A!Acts(s, A!Undeclared)
  BY <1>1 DEF A!Acts, AccessInv
<1>4. ~(\E k \in Key : A!Expire(k))
      /\ ~(\E o \in Organization, p \in Person, s \in {"active", "suspended"} : A!SetStatus(o, p, s))
  BY <1>1 DEF A!Expire, A!SetStatus, A!Changes
<1>5. ASSUME NEW o \in Organization, A!CreateOrganization(r, o)
      PROVE  A!TouchesOnlyNew(key[request[r].actor].by)
  <2>1. request[r].actor \notin Person
    BY GovernanceAssumption DEF GovernanceAssumption, A!AccessAssumption
  <2>2. member' = [member EXCEPT ![o][key[request[r].actor].by] = A!Administrator]
        /\ ~A!Exists(o) /\ UNCHANGED <<grants, key>>
    BY <1>5, <2>1 DEF A!CreateOrganization, A!User
  <2>3. \A x \in Organization, p \in Person :
          member'[x][p] # member[x][p] => x = o /\ p = key[request[r].actor].by
    BY <2>2 DEF AccessInv, Members
  <2> QED BY <2>2, <2>3 DEF A!TouchesOnlyNew
<1>6. CASE UNCHANGED <<member, grants, key>>
  BY <1>6 DEF A!TouchesOnlyNew
<1> QED
  BY <1>2, <1>3, <1>4, <1>5, <1>6
  DEF A!Next, A!KeyNext, A!CreateApiKey, A!RevokeApiKey, A!UpdateRole, A!SetRole,
      A!CreateOrganization, A!ResolveActor, A!PickOrganization, A!PickNone,
      A!LoadMembership, A!LoadPermissions, A!AuthenticateApiKey

-----------------------------------------------------------------------------
(* DataExport.  A job that was completed is over; it stays ready, for want  *)
(* of an expiry, until its row is swept, which the floor of its target does *)
(* not allow before its TTL is over; and a bundle is there before its job   *)
(* is ready.                                                                *)
ExportInv ==
    /\ X!TypeOK
    /\ \A j \in Job :
         /\ job[j].expires = X!Never
         /\ job[j].completed # X!Never => job[j].step = "over" /\ job[j].status \in {"ready", "swept"}
         /\ job[j].status # "absent" => job[j].completed # X!Never
         /\ job[j].status = "swept" => job[j].created + Ttl < now
         /\ job[j].step = "stored" \/ job[j].status = "ready" => j \in object

(* What the assumption of DataExport says of its times.                     *)
LEMMA ExportTimes ==
    /\ Ttl \in Nat /\ JobMinAge \in Nat /\ Ttl <= JobMinAge /\ MaxTime \in Nat
    /\ X!Time \subseteq Nat /\ 0 \in X!Time /\ X!Never \notin X!Time
<1>1. Ttl \in Nat /\ JobMinAge \in Nat /\ Ttl <= JobMinAge /\ MaxTime \in Nat
  BY GovernanceAssumption DEF GovernanceAssumption, X!ExportAssumption
<1> QED BY <1>1 DEF X!Time, X!Never

(* At first no export was asked for.                                        *)
LEMMA ExportInit == X!Init => ExportInv
BY ExportTimes DEF X!Init, X!NotRequested, ExportInv, X!TypeOK

(* A step that leaves the exports alone keeps their invariant.              *)
LEMMA ExportStutter == ExportInv /\ UNCHANGED exportVars => ExportInv'
BY DEF exportVars, ExportInv, X!TypeOK

(* One job changes, to a row of its type that keeps what ExportInv says.    *)
LEMMA JobChanges ==
    ASSUME ExportInv, now' = now, NEW j \in Job, NEW row1,
           job' = [job EXCEPT ![j] = row1], object \subseteq object', object' \subseteq Job,
           row1 \in [step : {"idle", "begun", "read", "stored", "over"},
                     status : {"absent", "ready", "expired", "swept"},
                     created : X!Time, completed : X!Time \cup {X!Never},
                     expires : X!Time \cup {X!Never}],
           row1.expires = X!Never,
           row1.completed # X!Never => row1.step = "over" /\ row1.status \in {"ready", "swept"},
           row1.status # "absent" => row1.completed # X!Never,
           row1.status = "swept" => row1.created + Ttl < now,
           row1.step = "stored" \/ row1.status = "ready" => j \in object'
    PROVE  ExportInv'
<1>1. job' \in [Job -> [step : {"idle", "begun", "read", "stored", "over"},
                        status : {"absent", "ready", "expired", "swept"},
                        created : X!Time, completed : X!Time \cup {X!Never},
                        expires : X!Time \cup {X!Never}]]
  BY DEF ExportInv, X!TypeOK
<1>2. ASSUME NEW k \in Job
      PROVE  /\ job'[k].expires = X!Never
             /\ job'[k].completed # X!Never =>
                  job'[k].step = "over" /\ job'[k].status \in {"ready", "swept"}
             /\ job'[k].status # "absent" => job'[k].completed # X!Never
             /\ job'[k].status = "swept" => job'[k].created + Ttl < now'
             /\ job'[k].step = "stored" \/ job'[k].status = "ready" => k \in object'
             /\ job'[k].status = "ready" => job'[k].completed \in X!Time
  <2>1. CASE k = j
    BY <2>1 DEF ExportInv, X!TypeOK
  <2>2. CASE k # j
    BY <2>2 DEF ExportInv, X!TypeOK
  <2> QED BY <2>1, <2>2
<1> QED BY <1>1, <1>2 DEF ExportInv, X!TypeOK

(* Every step of DataExport keeps its invariant.                            *)
LEMMA ExportStep == ASSUME ExportInv, X!Next PROVE ExportInv'
<1> USE ExportTimes
<1>1. /\ now \in X!Time /\ now \in Nat /\ object \subseteq Job
      /\ job \in [Job -> [step : {"idle", "begun", "read", "stored", "over"},
                          status : {"absent", "ready", "expired", "swept"},
                          created : X!Time, completed : X!Time \cup {X!Never},
                          expires : X!Time \cup {X!Never}]]
  BY DEF ExportInv, X!TypeOK
<1>2. \A j \in Job :
        /\ job[j].expires = X!Never
        /\ job[j].completed # X!Never => job[j].step = "over" /\ job[j].status \in {"ready", "swept"}
        /\ job[j].status # "absent" => job[j].completed # X!Never
        /\ job[j].status = "swept" => job[j].created + Ttl < now
        /\ job[j].step = "stored" \/ job[j].status = "ready" => j \in object
  BY DEF ExportInv
<1>3. CASE X!Tick
  <2>1. now' = now + 1 /\ now' \in X!Time /\ UNCHANGED <<job, object>>
    BY <1>1, <1>3 DEF X!Tick, X!Time
  <2>2. \A j \in Job : job[j].status = "swept" => job[j].created + Ttl < now'
    <3>1. \A j \in Job : job[j].created \in Nat
      BY <1>1
    <3> QED BY <1>1, <1>2, <2>1, <3>1
  <2> QED BY <2>1, <2>2 DEF ExportInv, X!TypeOK
<1>4. ASSUME NEW j \in Job, X!BeginExport(j) PROVE ExportInv'
  <2> DEFINE new == [job[j] EXCEPT !.step = "begun", !.created = now]
  <2>1. job' = [job EXCEPT ![j] = new] /\ now' = now /\ object' = object /\ job[j].step = "idle"
    BY <1>1, <1>4 DEF X!BeginExport
  <2>2. job[j].completed = X!Never /\ job[j].status = "absent"
    BY <1>1, <1>2, <2>1
  <2>3. /\ new \in [step : {"idle", "begun", "read", "stored", "over"},
                    status : {"absent", "ready", "expired", "swept"},
                    created : X!Time, completed : X!Time \cup {X!Never},
                    expires : X!Time \cup {X!Never}]
        /\ new.expires = X!Never /\ new.completed = X!Never /\ new.status = "absent"
        /\ new.step = "begun"
    <3>1. /\ job[j] \in [step : {"idle", "begun", "read", "stored", "over"},
                         status : {"absent", "ready", "expired", "swept"},
                         created : X!Time, completed : X!Time \cup {X!Never},
                         expires : X!Time \cup {X!Never}]
          /\ now \in X!Time
      BY <1>1
    <3>2. job[j].expires = X!Never
      BY <1>2
    <3> QED BY <2>2, <3>1, <3>2
  <2>4. new.status # "swept" /\ ~ (new.step = "stored" \/ new.status = "ready")
    BY <2>3
  <2>5. object \subseteq object' /\ object' \subseteq Job
    BY <1>1, <2>1
  <2> HIDE DEF new
  <2>6. new.completed # X!Never => new.step = "over" /\ new.status \in {"ready", "swept"}
    BY <2>3
  <2>7. new.status # "absent" => new.completed # X!Never
    BY <2>3
  <2> QED BY <2>1, <2>3, <2>4, <2>5, <2>6, <2>7, JobChanges
<1>5. ASSUME NEW j \in Job, X!ReadSections(j) \/ X!FailExport(j) PROVE ExportInv'
  <2>1. PICK to \in {"read", "over"} :
          job' = [job EXCEPT ![j].step = to]
    BY <1>5 DEF X!ReadSections, X!FailExport
  <2> DEFINE new == [job[j] EXCEPT !.step = to]
  <2>2. /\ job' = [job EXCEPT ![j] = new] /\ now' = now /\ object' = object
        /\ job[j].step \in {"begun", "read", "stored"}
    BY <1>1, <1>5, <2>1 DEF X!ReadSections, X!FailExport
  <2>3. job[j].completed = X!Never /\ job[j].status = "absent"
    BY <1>1, <1>2, <2>2
  <2>4. /\ new \in [step : {"idle", "begun", "read", "stored", "over"},
                    status : {"absent", "ready", "expired", "swept"},
                    created : X!Time, completed : X!Time \cup {X!Never},
                    expires : X!Time \cup {X!Never}]
        /\ new.expires = X!Never /\ new.completed = X!Never /\ new.status = "absent"
        /\ new.step # "stored"
    BY <1>1, <1>2, <2>3
  <2> HIDE DEF new
  <2> QED BY <1>1, <2>2, <2>4, JobChanges
<1>6. ASSUME NEW j \in Job, X!StoreBundle(j) PROVE ExportInv'
  <2> DEFINE new == [job[j] EXCEPT !.step = "stored"]
  <2>1. /\ job' = [job EXCEPT ![j] = new] /\ now' = now /\ object' = object \cup {j}
        /\ job[j].step = "read"
    BY <1>1, <1>6 DEF X!StoreBundle
  <2>2. job[j].completed = X!Never /\ job[j].status = "absent"
    BY <1>1, <1>2, <2>1
  <2>3. /\ new \in [step : {"idle", "begun", "read", "stored", "over"},
                    status : {"absent", "ready", "expired", "swept"},
                    created : X!Time, completed : X!Time \cup {X!Never},
                    expires : X!Time \cup {X!Never}]
        /\ new.expires = X!Never /\ new.completed = X!Never /\ new.status = "absent"
    BY <1>1, <1>2, <2>2
  <2>4. object \subseteq object' /\ object' \subseteq Job /\ j \in object'
    BY <1>1, <2>1
  <2> HIDE DEF new
  <2> QED BY <2>1, <2>3, <2>4, JobChanges
<1>7. ASSUME NEW j \in Job, X!CommitExport(j) PROVE ExportInv'
  <2> DEFINE new == [job[j] EXCEPT !.step = "over", !.status = "ready", !.completed = now]
  <2>1. /\ job' = [job EXCEPT ![j] = new] /\ now' = now /\ object' = object
        /\ job[j].step = "stored"
    BY <1>1, <1>7 DEF X!CommitExport
  <2>2. /\ new \in [step : {"idle", "begun", "read", "stored", "over"},
                    status : {"absent", "ready", "expired", "swept"},
                    created : X!Time, completed : X!Time \cup {X!Never},
                    expires : X!Time \cup {X!Never}]
        /\ new.expires = X!Never /\ new.completed # X!Never /\ new.status = "ready"
        /\ new.step = "over" /\ j \in object'
    BY <1>1, <1>2, <2>1
  <2> HIDE DEF new
  <2> QED BY <1>1, <2>1, <2>2, JobChanges
<1>8. ASSUME NEW j \in Job, X!SweepExportJob(j) PROVE ExportInv'
  <2> DEFINE new == [job[j] EXCEPT !.status = "swept"]
  <2>1. /\ job' = [job EXCEPT ![j] = new] /\ now' = now /\ object' = object
        /\ job[j].status \in {"ready", "expired"} /\ job[j].created + JobMinAge < now
    BY <1>1, <1>8 DEF X!SweepExportJob
  <2>2. job[j].completed # X!Never /\ job[j].step = "over"
    BY <1>2, <2>1
  <2>3. job[j].created \in Nat /\ job[j].created + Ttl < now
    BY <1>1, <2>1
  <2>4. /\ new \in [step : {"idle", "begun", "read", "stored", "over"},
                    status : {"absent", "ready", "expired", "swept"},
                    created : X!Time, completed : X!Time \cup {X!Never},
                    expires : X!Time \cup {X!Never}]
        /\ new.expires = X!Never /\ new.completed # X!Never /\ new.status = "swept"
        /\ new.step = "over" /\ new.created = job[j].created
    BY <1>1, <1>2, <2>2
  <2> HIDE DEF new
  <2> QED BY <1>1, <2>1, <2>3, <2>4, JobChanges
<1>9. CASE X!ListExports
  <2>1. \A j \in Job : ~ X!PastTtl(j)
    BY <1>2 DEF X!PastTtl
  <2>2. job' = job /\ UNCHANGED <<now, object>>
    BY <1>1, <1>9, <2>1 DEF X!ListExports
  <2> QED BY <2>2, ExportStutter DEF exportVars
<1> QED BY <1>3, <1>4, <1>5, <1>6, <1>7, <1>8, <1>9 DEF X!Next

(* A ready job has its bundle, and a finished export can be downloaded for  *)
(* its TTL.                                                                 *)
LEMMA ExportIsKept == ExportInv => X!Consistent /\ X!AvailableForTtl
<1> SUFFICES ASSUME ExportInv PROVE X!Consistent /\ X!AvailableForTtl
  OBVIOUS
<1>1. X!Consistent
  BY DEF ExportInv, X!Consistent, X!ReadyHasObject
<1>2. ASSUME NEW j \in Job, job[j].completed # X!Never, now <= job[j].created + Ttl
      PROVE  job[j].status = "ready"
  <2>1. now \in Nat /\ job[j].created \in Nat
    BY ExportTimes DEF ExportInv, X!TypeOK
  <2> QED BY <1>2, <2>1, ExportTimes DEF ExportInv
<1> QED BY <1>1, <1>2 DEF X!AvailableForTtl, X!Downloadable

-----------------------------------------------------------------------------
(* Retention.  The rows of a run and of the ledger.                         *)
PolicyRef == [target : Target, cutoff : Int]
RunRow ==
    [step : {"idle", "begun", "sweep", "counted", "swept", "over"}, mode : R!Mode,
     at : R!Day, todo : SUBSET PolicyRef, matched : Nat, marked : SUBSET Row,
     counted : Nat, stamped : SUBSET Target, rows : SUBSET PolicyRef]
LedgerRow == [run : Run, target : Target, mode : R!Mode, matched : Nat, deleted : Nat]
RetentionTypes ==
    /\ today \in R!Day
    /\ row \in [Row -> [state : {"absent", "present", "gone"},
                        target : Target \cup {"none"}, born : R!Day]]
    /\ hold \in BOOLEAN
    /\ policy \in [Target -> [status : {"none", "on", "off"}, age : R!Age]]
    /\ run \in [Run -> RunRow]
    /\ ledger \subseteq LedgerRow
    /\ late \subseteq Run
    /\ edits \in 0..MaxEdits

(* What a set of ledger rows counts as deleted, as a set of so many pairs.  *)
Weight(S) == UNION {{<<l, i>> : i \in 1..l.deleted} : l \in S}
Mine(u) == {l \in ledger : l.run = u}

(* The policies a run has still to record have targets of their own, whose  *)
(* rows it has not marked before it deletes them, and cutoffs that the      *)
(* floor allows.                                                            *)
Targets(u) ==
    /\ \A p, q \in run[u].todo \cup run[u].rows : p.target = q.target => p = q
    /\ run[u].rows \cap run[u].todo = {}
    /\ \A p, q \in run[u].rows : p = q
    /\ \A p \in run[u].todo \cup run[u].rows :
         p.target \notin run[u].stamped /\ p.cutoff + MinAge <= run[u].at
    /\ \A l \in Mine(u) : l.target \in run[u].stamped
    /\ run[u].at <= today
    /\ run[u].step = "sweep" => run[u].rows = {}
    /\ run[u].step \in {"idle", "begun"} =>
         run[u].todo = {} /\ run[u].rows = {} /\ run[u].stamped = {}
(* The rows it has marked are there, older than the floor, and of policies  *)
(* it is done with; and no hold was on when it began, unless it is late.    *)
Marks(u) ==
    /\ run[u].marked # {} => R!Running(u) /\ run[u].mode = "apply"
    /\ run[u].step = "begun" => run[u].marked = {}
    /\ \A r \in run[u].marked :
         /\ row[r].state = "present" /\ row[r].born + MinAge < today
         /\ \A p \in run[u].todo : row[r].target # p.target
         /\ run[u].step = "counted" => \A p \in run[u].rows : row[r].target # p.target
    /\ R!Running(u) /\ run[u].mode = "apply" /\ u \notin late => ~ hold
(* It marks no more than it counted, and its ledger rows account for its    *)
(* marks.                                                                   *)
Accounts(u) ==
    /\ run[u].step = "counted" =>
         \A p \in run[u].rows : Cardinality(R!Eligible(p)) <= run[u].matched
    /\ run[u].step = "swept" =>
         run[u].counted <= IF run[u].mode = "apply" THEN run[u].matched ELSE 0
    /\ R!Running(u) =>
         Cardinality(Weight(Mine(u))) + (IF run[u].step = "swept" THEN run[u].counted ELSE 0)
           = Cardinality(run[u].marked)
RunKept(u) == Targets(u) /\ Marks(u) /\ Accounts(u)
RetentionInv ==
    /\ RetentionTypes
    /\ IsFiniteSet(Weight(ledger))
    /\ \A u \in Run : RunKept(u)
    /\ \A u, v \in Run : u # v => run[u].marked \cap run[v].marked = {}
    /\ R!DeletedWasMatched
    /\ Cardinality(Weight(R!Committed)) = Cardinality(R!Gone)

(* The module's finite sets and cardinalities are the usual ones.           *)
LEMMA SameCardinality ==
    /\ \A S : R!Cardinality(S) = Cardinality(S)
    /\ \A S : R!IsFiniteSet(S) <=> IsFiniteSet(S)
<1>1. \A S : R!Cardinality(S) = Cardinality(S)
  BY DEF R!Cardinality, Cardinality
<1>2. \A S : R!IsFiniteSet(S) <=> IsFiniteSet(S)
  BY DEF R!IsFiniteSet, IsFiniteSet
<1> QED BY <1>1, <1>2

(* What the assumption of Retention says of the constants.                  *)
LEMMA RetentionConstants ==
    /\ MinAge \in Nat /\ MaxAge \in Nat /\ MinAge <= MaxAge
    /\ MaxDay \in Nat /\ MaxEdits \in Nat
    /\ R!Day = 0..MaxDay /\ R!Age = MinAge..MaxAge /\ R!Mode = {"dry_run", "apply"}
    /\ MinAge \in R!Age /\ 0 \in R!Day
<1>1. /\ MinAge \in Nat /\ MaxAge \in Nat /\ MinAge <= MaxAge
      /\ MaxDay \in Nat /\ MaxEdits \in Nat
  BY GovernanceAssumption DEF GovernanceAssumption, R!RetentionAssumption
<1> QED BY <1>1 DEF R!Day, R!Age, R!Mode

(* Rows can be counted.                                                     *)
LEMMA RowsAreFinite ==
    ASSUME NEW S, S \subseteq Row PROVE IsFiniteSet(S) /\ Cardinality(S) \in Nat
<1>1. R!IsFiniteSet(Row)
  BY GovernanceAssumption DEF GovernanceAssumption, R!RetentionAssumption
<1>2. IsFiniteSet(Row)
  BY <1>1, SameCardinality, Zenon
<1>3. IsFiniteSet(S)
  BY <1>2, FS_Subset
<1> QED BY <1>3, FS_CardinalityType

-----------------------------------------------------------------------------
(* Weights add up.                                                          *)
LEMMA WeightOfNone == Weight({}) = {} /\ IsFiniteSet(Weight({})) /\ Cardinality(Weight({})) = 0
<1>1. Weight({}) = {}
  BY DEF Weight
<1> QED BY <1>1, FS_EmptySet

(* A ledger row weighs what it counts as deleted.                           *)
LEMMA WeightOfOne ==
    ASSUME NEW l, l.deleted \in Nat
    PROVE  IsFiniteSet(Weight({l})) /\ Cardinality(Weight({l})) = l.deleted
<1> DEFINE n == l.deleted
<1>1. Weight({l}) = {l} \X (1..n)
  BY DEF Weight
<1>2. IsFiniteSet({l}) /\ Cardinality({l}) = 1
  BY FS_Singleton
<1>3. n \in Nat
  OBVIOUS
<1> HIDE DEF n
<1>4. 1 \in Int /\ n \in Int
  BY <1>3
<1>5. IsFiniteSet(1..n) /\ Cardinality(1..n) = n
  <2>1. IsFiniteSet(1..n) /\ Cardinality(1..n) = IF 1 > n THEN 0 ELSE n - 1 + 1
    BY <1>4, FS_Interval, Zenon
  <2> QED BY <1>3, <2>1
<1>6. /\ IsFiniteSet({l} \X (1..n))
      /\ Cardinality({l} \X (1..n)) = Cardinality({l}) * Cardinality(1..n)
  BY <1>2, <1>5, FS_Product
<1>7. Cardinality({l} \X (1..n)) = n
  BY <1>2, <1>3, <1>5, <1>6
<1> QED BY <1>1, <1>6, <1>7 DEF n

(* Some of finitely many pairs are finitely many.                           *)
LEMMA WeightOfSome ==
    ASSUME NEW S, NEW T, T \subseteq S, IsFiniteSet(Weight(S))
    PROVE  IsFiniteSet(Weight(T)) /\ Cardinality(Weight(T)) \in Nat
<1>1. Weight(T) \subseteq Weight(S)
  BY DEF Weight
<1>2. IsFiniteSet(Weight(T))
  BY <1>1, FS_Subset
<1> QED BY <1>2, FS_CardinalityType

(* Ledger rows that are apart weigh together what each part weighs.         *)
LEMMA WeightOfBoth ==
    ASSUME NEW S, NEW T, S \cap T = {}, IsFiniteSet(Weight(S)), IsFiniteSet(Weight(T))
    PROVE  /\ IsFiniteSet(Weight(S \cup T))
           /\ Cardinality(Weight(S \cup T)) = Cardinality(Weight(S)) + Cardinality(Weight(T))
<1>1. Weight(S \cup T) = Weight(S) \cup Weight(T)
  BY DEF Weight
<1>2. Weight(S) \cap Weight(T) = {}
  BY DEF Weight
<1>3. /\ IsFiniteSet(Weight(S) \cup Weight(T))
      /\ Cardinality(Weight(S) \cup Weight(T)) =
           Cardinality(Weight(S)) + Cardinality(Weight(T)) - Cardinality(Weight(S) \cap Weight(T))
  BY FS_Union
<1>4. Cardinality(Weight(S) \cap Weight(T)) = 0
  BY <1>2, FS_EmptySet
<1>5. Cardinality(Weight(S)) \in Nat /\ Cardinality(Weight(T)) \in Nat
  BY FS_CardinalityType
<1>6. Cardinality(Weight(S) \cup Weight(T)) = Cardinality(Weight(S)) + Cardinality(Weight(T))
  BY <1>3, <1>4, <1>5
<1> QED BY <1>1, <1>3, <1>6, Zenon

(* So do the numbers of rows that are apart.                                *)
LEMMA DisjointRows ==
    ASSUME NEW S, NEW T, S \subseteq Row, T \subseteq Row, S \cap T = {}
    PROVE  Cardinality(S \cup T) = Cardinality(S) + Cardinality(T)
<1>1. IsFiniteSet(S) /\ Cardinality(S) \in Nat /\ IsFiniteSet(T) /\ Cardinality(T) \in Nat
  BY RowsAreFinite
<1>2. Cardinality(S \cup T) = Cardinality(S) + Cardinality(T) - Cardinality(S \cap T)
  BY <1>1, FS_Union
<1>3. Cardinality(S \cap T) = 0
  BY FS_EmptySet
<1> QED BY <1>1, <1>2, <1>3

(* At first there are no rows, and no run has begun.                        *)
LEMMA RetentionInit == R!Init => RetentionInv
<1> SUFFICES ASSUME R!Init PROVE RetentionInv
  OBVIOUS
<1> USE RetentionConstants
<1>1. RetentionTypes
  <2>1. run \in [Run -> RunRow]
    BY DEF R!Init, R!NotStarted, RunRow
  <2>2. policy \in [Target -> [status : {"none", "on", "off"}, age : R!Age]]
    BY DEF R!Init, R!NoPolicy
  <2>3. row \in [Row -> [state : {"absent", "present", "gone"},
                         target : Target \cup {"none"}, born : R!Day]]
    BY DEF R!Init
  <2>4. today \in R!Day /\ ledger \subseteq LedgerRow /\ late \subseteq Run /\ edits \in 0..MaxEdits
    BY DEF R!Init
  <2>5. hold \in BOOLEAN
    BY Zenon DEF R!Init
  <2> QED BY <2>1, <2>2, <2>3, <2>4, <2>5 DEF RetentionTypes
<1>2. ledger = {} /\ \A u \in Run : Mine(u) = {} /\ run[u] = R!NotStarted
  BY DEF R!Init, Mine
<1>3. IsFiniteSet(Weight(ledger))
  BY <1>2, WeightOfNone
<1>4. \A u \in Run : Targets(u)
  BY <1>2 DEF Targets, R!NotStarted, R!Init
<1>5. \A u \in Run : Marks(u) /\ Accounts(u)
  BY <1>2 DEF Marks, Accounts, R!Running, R!NotStarted
<1>6. \A u, v \in Run : run[u].marked \cap run[v].marked = {}
  BY <1>2 DEF R!NotStarted
<1>7. R!Committed = {} /\ R!Gone = {} /\ R!DeletedWasMatched
  BY <1>2 DEF R!Committed, R!Gone, R!DeletedWasMatched, R!Init
<1>8. Cardinality(Weight(R!Committed)) = Cardinality(R!Gone)
  BY <1>7, WeightOfNone, FS_EmptySet
<1> QED BY <1>1, <1>3, <1>4, <1>5, <1>6, <1>7, <1>8 DEF RetentionInv, RunKept

(* A run that an action leaves alone stays as it should be, if the action   *)
(* leaves its marked rows and its ledger rows, lets no new row become       *)
(* eligible, and turns no hold on behind it.                                *)
LEMMA RunStays ==
    ASSUME RetentionInv, RetentionTypes', NEW v \in Run,
           run'[v] = run[v], Mine(v)' = Mine(v), today <= today',
           \A r \in run[v].marked : row'[r] = row[r],
           \A p \in run[v].rows : R!Eligible(p)' \subseteq R!Eligible(p),
           R!Running(v) /\ v \notin late' => v \notin late /\ hold' = hold
    PROVE  RunKept(v)'
<1>1. Targets(v) /\ Marks(v) /\ Accounts(v) /\ RetentionTypes
  BY DEF RetentionInv, RunKept
<1>2. today \in Nat /\ today' \in Nat /\ MinAge \in Nat
  BY <1>1, RetentionConstants DEF RetentionTypes
<1>3. run[v] \in RunRow /\ run[v].marked \subseteq Row /\ run[v].at \in Nat
  BY <1>1, RetentionConstants DEF RetentionTypes, RunRow
<1>4. Targets(v)'
  BY <1>1, <1>2, <1>3 DEF Targets
<1>5. R!Running(v)' <=> R!Running(v)
  BY DEF R!Running
<1>6. Marks(v)'
  <2>1. ASSUME NEW r \in run[v].marked
        PROVE  row'[r].state = "present" /\ row'[r].born + MinAge < today'
    <3>1. row[r].state = "present" /\ row[r].born + MinAge < today
      BY <1>1 DEF Marks
    <3>2. row[r].born \in Nat
      BY <1>1, <1>3, RetentionConstants DEF RetentionTypes
    <3> QED BY <1>2, <3>1, <3>2
  <2> QED BY <1>1, <1>5, <2>1 DEF Marks
<1>7. Accounts(v)'
  <2>1. ASSUME NEW p \in run[v].rows, run[v].step = "counted"
        PROVE  Cardinality(R!Eligible(p)') <= run[v].matched
    <3>1. R!Eligible(p) \subseteq Row
      BY DEF R!Eligible
    <3>2. IsFiniteSet(R!Eligible(p)) /\ Cardinality(R!Eligible(p)) \in Nat
      BY <3>1, RowsAreFinite
    <3>3. Cardinality(R!Eligible(p)') <= Cardinality(R!Eligible(p))
      BY <3>2, FS_Subset
    <3>4. R!Eligible(p)' \subseteq Row
      BY <3>1
    <3>5. Cardinality(R!Eligible(p)') \in Nat
      BY <3>4, RowsAreFinite
    <3>6. Cardinality(R!Eligible(p)) <= run[v].matched /\ run[v].matched \in Nat
      BY <1>1, <1>3, <2>1 DEF Accounts, RunRow
    <3> QED BY <3>2, <3>3, <3>5, <3>6
  <2> QED BY <1>1, <1>5, <2>1 DEF Accounts
<1> QED BY <1>4, <1>6, <1>7 DEF RunKept

(* An action that changes neither runs, ledger nor rows.                    *)
LEMMA RunsStay ==
    ASSUME RetentionInv, RetentionTypes', today <= today', UNCHANGED <<run, ledger, row>>,
           \A v \in Run : R!Running(v) /\ v \notin late' => v \notin late /\ hold' = hold
    PROVE  RetentionInv'
<1>1. \A v \in Run : Mine(v)' = Mine(v)
  BY DEF Mine
<1>2. \A p : R!Eligible(p)' = R!Eligible(p)
  BY DEF R!Eligible, R!Older
<1>3. \A v \in Run : RunKept(v)'
  BY <1>1, <1>2, RunStays
<1>4. Weight(ledger)' = Weight(ledger)
  BY DEF Weight
<1>5. R!Committed' = R!Committed /\ R!Gone' = R!Gone
  BY DEF R!Committed, R!Gone
<1>6. Weight(R!Committed)' = Weight(R!Committed)
  BY <1>5 DEF Weight
<1>7. R!DeletedWasMatched'
  BY DEF RetentionInv, R!DeletedWasMatched
<1>8. \A u, v \in Run : u # v => run'[u].marked \cap run'[v].marked = {}
  BY DEF RetentionInv
<1>9. IsFiniteSet(Weight(ledger)) /\ Cardinality(Weight(R!Committed)) = Cardinality(R!Gone)
  BY DEF RetentionInv
<1>10. IsFiniteSet(Weight(ledger)')
  BY <1>4, <1>9
<1>11. Cardinality(Weight(R!Committed)') = Cardinality(R!Gone')
  BY <1>5, <1>6, <1>9
<1> QED BY <1>3, <1>7, <1>8, <1>10, <1>11 DEF RetentionInv

(* A step that leaves Retention's variables alone keeps its invariant.      *)
LEMMA RetentionStutter == RetentionInv /\ UNCHANGED retentionVars => RetentionInv'
<1> SUFFICES ASSUME RetentionInv, UNCHANGED retentionVars PROVE RetentionInv'
  OBVIOUS
<1>1. RetentionTypes'
  BY DEF RetentionInv, RetentionTypes, retentionVars
<1>2. today \in Nat
  BY RetentionConstants DEF RetentionInv, RetentionTypes
<1> QED BY <1>1, <1>2, RunsStay DEF retentionVars

(* The actions on the calendar, the hold, the policies and the rows.        *)
LEMMA OutsideRuns ==
    ASSUME RetentionInv,
           \/ R!NextDay
           \/ R!SetLegalHold
           \/ \E t \in Target : R!UpsertRetentionPolicy(t) \/ R!DeleteRetentionPolicy(t)
    PROVE  RetentionInv'
<1>1. RetentionTypes /\ today \in Nat
  BY RetentionConstants DEF RetentionInv, RetentionTypes
<1>2. CASE R!NextDay
  <2>1. RetentionTypes'
    BY <1>1, <1>2, RetentionConstants DEF RetentionTypes, R!NextDay
  <2>2. today <= today' /\ UNCHANGED <<run, ledger, row, late, hold>>
    BY <1>1, <1>2 DEF R!NextDay
  <2> QED BY <2>1, <2>2, RunsStay
<1>3. CASE R!SetLegalHold
  <2>1. edits' \in 0..MaxEdits
    BY <1>1, <1>3, RetentionConstants DEF RetentionTypes, R!SetLegalHold, R!Edited
  <2>2. hold' \in BOOLEAN
    BY <1>3, Zenon DEF R!SetLegalHold
  <2>3. RetentionTypes'
    BY <1>1, <1>3, <2>1, <2>2 DEF RetentionTypes, R!SetLegalHold
  <2>4. \A v \in Run : ~ (R!Running(v) /\ v \notin late')
    BY <1>3 DEF R!SetLegalHold
  <2>5. today <= today' /\ UNCHANGED <<run, ledger, row>>
    BY <1>1, <1>3 DEF R!SetLegalHold
  <2> QED BY <2>3, <2>4, <2>5, RunsStay
<1>4. ASSUME NEW t \in Target, R!UpsertRetentionPolicy(t)
      PROVE  RetentionInv'
  <2>1. edits' \in 0..MaxEdits
    BY <1>1, <1>4, RetentionConstants DEF RetentionTypes, R!UpsertRetentionPolicy, R!Edited
  <2>2. PICK status \in {"on", "off"}, age \in R!Age :
          policy' = [policy EXCEPT ![t] = [status |-> status, age |-> age]]
    BY <1>4 DEF R!UpsertRetentionPolicy, R!ValidateRetentionPolicy
  <2>3. policy' \in [Target -> [status : {"none", "on", "off"}, age : R!Age]]
    BY <1>1, <2>2 DEF RetentionTypes
  <2>4. UNCHANGED <<today, row, hold, run, ledger, late>>
    BY <1>4 DEF R!UpsertRetentionPolicy
  <2>5. RetentionTypes'
    BY <1>1, <2>1, <2>3, <2>4 DEF RetentionTypes
  <2> QED BY <1>1, <2>4, <2>5, RunsStay
<1>5. ASSUME NEW t \in Target, R!DeleteRetentionPolicy(t)
      PROVE  RetentionInv'
  <2>1. edits' \in 0..MaxEdits
    BY <1>1, <1>5, RetentionConstants DEF RetentionTypes, R!DeleteRetentionPolicy, R!Edited
  <2>2. policy' \in [Target -> [status : {"none", "on", "off"}, age : R!Age]]
    BY <1>1, <1>5, RetentionConstants DEF RetentionTypes, R!DeleteRetentionPolicy, R!NoPolicy
  <2>3. UNCHANGED <<today, row, hold, run, ledger, late>>
    BY <1>5 DEF R!DeleteRetentionPolicy
  <2>4. RetentionTypes'
    BY <1>1, <2>1, <2>2, <2>3 DEF RetentionTypes
  <2> QED BY <1>1, <2>3, <2>4, RunsStay
<1> QED BY <1>2, <1>3, <1>4, <1>5

(* A new row is too young for every cutoff, and no run has marked it.       *)
LEMMA RowAppears ==
    ASSUME RetentionInv, NEW r \in Row, NEW t \in Target, R!CreateRow(r, t)
    PROVE  RetentionInv'
<1>1. RetentionTypes /\ today \in Nat /\ today \in R!Day /\ MinAge \in Nat
  BY RetentionConstants DEF RetentionInv, RetentionTypes
<1>2. /\ row[r].state = "absent"
      /\ row' = [row EXCEPT ![r] = [state |-> "present", target |-> t, born |-> today]]
      /\ UNCHANGED <<today, hold, policy, run, ledger, late, edits>>
  BY DEF R!CreateRow
<1>3. row' \in [Row -> [state : {"absent", "present", "gone"},
                        target : Target \cup {"none"}, born : R!Day]]
  BY <1>1, <1>2 DEF RetentionTypes
<1>4. RetentionTypes'
  BY <1>1, <1>2, <1>3 DEF RetentionTypes
<1>5. row'[r] = [state |-> "present", target |-> t, born |-> today]
  BY <1>1, <1>2 DEF RetentionTypes
<1>6. \A x \in Row : x # r => row'[x] = row[x]
  BY <1>1, <1>2 DEF RetentionTypes
<1>7. ASSUME NEW v \in Run PROVE RunKept(v)'
  <2>1. Targets(v) /\ Marks(v) /\ run[v] \in RunRow
    BY <1>1 DEF RetentionInv, RunKept, RetentionTypes
  <2>2. \A x \in run[v].marked : row'[x] = row[x]
    BY <1>2, <1>6, <2>1 DEF Marks, RunRow
  <2>3. ASSUME NEW p \in run[v].rows PROVE R!Eligible(p)' \subseteq R!Eligible(p)
    <3>1. p.cutoff + MinAge <= run[v].at /\ run[v].at <= today
      BY <2>1 DEF Targets
    <3>2. p.cutoff \in Int /\ run[v].at \in Int
      BY <2>1, RetentionConstants DEF RunRow, PolicyRef
    <3>3. ~ (today < p.cutoff)
      BY <1>1, <3>1, <3>2
    <3>4. r \notin R!Eligible(p)'
      BY <1>5, <3>3 DEF R!Eligible, R!Older
    <3> QED BY <1>6, <3>4 DEF R!Eligible, R!Older
  <2>4. today <= today' /\ run'[v] = run[v] /\ Mine(v)' = Mine(v) /\ late' = late /\ hold' = hold
    BY <1>1, <1>2 DEF Mine
  <2> QED BY <1>4, <2>2, <2>3, <2>4, RunStays
<1>8. R!Gone' = R!Gone
  BY <1>2, <1>5, <1>6 DEF R!Gone
<1>9. R!Committed' = R!Committed /\ Weight(ledger)' = Weight(ledger)
  BY <1>2 DEF R!Committed, Weight
<1>10. Weight(R!Committed)' = Weight(R!Committed)
  BY <1>9 DEF Weight
<1>11. /\ R!DeletedWasMatched'
       /\ \A u, v \in Run : u # v => run'[u].marked \cap run'[v].marked = {}
  BY <1>2 DEF RetentionInv, R!DeletedWasMatched
<1>12. IsFiniteSet(Weight(ledger)')
  BY <1>9 DEF RetentionInv
<1>13. Cardinality(Weight(R!Committed)') = Cardinality(R!Gone')
  BY <1>8, <1>10 DEF RetentionInv
<1> QED BY <1>4, <1>7, <1>11, <1>12, <1>13 DEF RetentionInv

-----------------------------------------------------------------------------
(* A step of one run that deletes no row for good: what is left to show     *)
(* is about that run and about the ledger.                                  *)
LEMMA OtherRunsStay ==
    ASSUME RetentionInv, NEW u \in Run, NEW new \in RunRow,
           run' = [run EXCEPT ![u] = new],
           UNCHANGED <<today, row, hold, policy, late, edits>>,
           ledger' \subseteq LedgerRow,
           \A v \in Run \ {u} : Mine(v)' = Mine(v)
    PROVE  /\ RetentionTypes'
           /\ run'[u] = new
           /\ \A v \in Run \ {u} : run'[v] = run[v] /\ RunKept(v)'
           /\ R!Gone' = R!Gone
<1>1. RetentionTypes /\ today \in Nat /\ run \in [Run -> RunRow]
  BY RetentionConstants DEF RetentionInv, RetentionTypes
<1>2. run' \in [Run -> RunRow] /\ run'[u] = new
  BY <1>1
<1>3. RetentionTypes'
  BY <1>1, <1>2 DEF RetentionTypes
<1>4. \A v \in Run \ {u} : run'[v] = run[v]
  BY <1>1
<1>5. \A p : R!Eligible(p)' = R!Eligible(p)
  BY DEF R!Eligible, R!Older
<1>6. today <= today' /\ late' = late /\ hold' = hold /\ row' = row
  BY <1>1
<1>7. \A v \in Run \ {u} : RunKept(v)'
  BY <1>3, <1>4, <1>5, <1>6, RunStays
<1>8. R!Gone' = R!Gone
  BY DEF R!Gone
<1> QED BY <1>2, <1>3, <1>4, <1>7, <1>8

(* Such a step that leaves the ledger alone, of a run that goes on or has   *)
(* written nothing.                                                         *)
LEMMA RunMoves ==
    ASSUME RetentionInv, NEW u \in Run, NEW new \in RunRow,
           run' = [run EXCEPT ![u] = new],
           UNCHANGED <<today, row, hold, policy, late, edits, ledger>>,
           \A v \in Run \ {u} : new.marked \cap run[v].marked = {},
           new.step # "over" \/ Mine(u) = {}, run[u].step # "over",
           RunKept(u)'
    PROVE  RetentionInv'
<1>1. ledger' \subseteq LedgerRow /\ \A v \in Run : Mine(v)' = Mine(v)
  BY DEF RetentionInv, RetentionTypes, Mine
<1> USE <1>1
<1>2. /\ RetentionTypes' /\ run'[u] = new
      /\ \A v \in Run \ {u} : run'[v] = run[v] /\ RunKept(v)'
      /\ R!Gone' = R!Gone
  BY OtherRunsStay, Zenon
<1>3. \A v \in Run : RunKept(v)'
  BY <1>2
<1>4. \A v, w \in Run : v # w => run'[v].marked \cap run'[w].marked = {}
  BY <1>2 DEF RetentionInv
<1>5. R!DeletedWasMatched'
  BY DEF RetentionInv, R!DeletedWasMatched
<1>6. R!Committed' = R!Committed
  <2>1. ASSUME NEW l \in ledger
        PROVE  run'[l.run].step = "over" <=> run[l.run].step = "over"
    <3>1. l.run \in Run
      BY <1>1 DEF LedgerRow
    <3>2. l.run = u => l \in Mine(u)
      BY DEF Mine
    <3> QED BY <1>2, <3>1, <3>2
  <2> QED BY <2>1 DEF R!Committed
<1>7. Weight(ledger)' = Weight(ledger) /\ Weight(R!Committed)' = Weight(R!Committed)
  BY <1>6 DEF Weight
<1>8. IsFiniteSet(Weight(ledger)')
  BY <1>7 DEF RetentionInv
<1>9. Cardinality(Weight(R!Committed)') = Cardinality(R!Gone')
  BY <1>2, <1>7 DEF RetentionInv
<1> QED BY <1>2, <1>3, <1>4, <1>5, <1>8, <1>9 DEF RetentionInv

(* A run that begins has marked and recorded nothing, and an apply does not *)
(* begin under a hold.                                                      *)
LEMMA RunBegins ==
    ASSUME RetentionInv, NEW u \in Run, NEW mode \in R!Mode, R!BeginRun(u, mode)
    PROVE  RetentionInv'
<1> DEFINE new == [run[u] EXCEPT !.step = IF R!Refused(mode) THEN "over" ELSE "begun",
                                 !.mode = mode, !.at = today]
<1>1. /\ RetentionTypes /\ today \in R!Day /\ today \in Nat /\ run[u] \in RunRow
      /\ Targets(u) /\ Marks(u)
  BY RetentionConstants DEF RetentionInv, RunKept, RetentionTypes
<1>2. /\ run[u].step = "idle" /\ run' = [run EXCEPT ![u] = new]
      /\ UNCHANGED <<today, row, hold, policy, late, edits, ledger>>
  BY <1>1 DEF R!BeginRun
<1>3. new \in RunRow
  BY <1>1 DEF RunRow
<1>4. /\ run[u].todo = {} /\ run[u].rows = {} /\ run[u].stamped = {}
      /\ run[u].marked = {} /\ Mine(u) = {}
  BY <1>1, <1>2 DEF Targets, Marks, R!Running
<1>5. /\ new.todo = {} /\ new.rows = {} /\ new.stamped = {} /\ new.marked = {}
      /\ new.at = today /\ new.mode = mode
      /\ new.step = IF R!Refused(mode) THEN "over" ELSE "begun"
  BY <1>1, <1>4 DEF RunRow
<1>6. run'[u] = new
  BY <1>1, <1>2 DEF RetentionTypes
<1>7. Mine(u)' = {}
  BY <1>2, <1>4 DEF Mine
<1> HIDE DEF new
<1>8. Targets(u)'
  BY <1>1, <1>2, <1>5, <1>6, <1>7 DEF Targets
<1>9. Marks(u)'
  <2>1. new.step = "begun" /\ mode = "apply" => ~ hold
    BY <1>5 DEF R!Refused
  <2> QED BY <1>2, <1>5, <1>6, <2>1 DEF Marks, R!Running
<1>10. Accounts(u)'
  <2>1. Cardinality(Weight({})) = 0 /\ Cardinality({}) = 0
    BY WeightOfNone, FS_EmptySet
  <2>2. Cardinality(Weight(Mine(u)')) = Cardinality(run'[u].marked)
    BY <1>5, <1>6, <1>7, <2>1
  <2>3. Cardinality(Weight(Mine(u)')) = 0
    BY <1>7, <2>1
  <2>4. run'[u].step \notin {"counted", "swept"}
    BY <1>5, <1>6
  <2>5. Weight(Mine(u))' = Weight(Mine(u)')
    BY DEF Weight
  <2> QED BY <2>2, <2>3, <2>4, <2>5 DEF Accounts
<1>11. RunKept(u)'
  BY <1>8, <1>9, <1>10 DEF RunKept
<1>12. /\ \A v \in Run \ {u} : new.marked \cap run[v].marked = {}
       /\ new.step # "over" \/ Mine(u) = {}
       /\ run[u].step # "over"
  BY <1>2, <1>4, <1>5
<1> QED BY <1>2, <1>3, <1>11, <1>12, RunMoves

(* The policies a run reads differ in their targets, and none has an age    *)
(* below the floor.                                                         *)
LEMMA PoliciesAreRead ==
    ASSUME RetentionInv, NEW u \in Run, R!ReadPolicies(u)
    PROVE  RetentionInv'
<1>1. /\ RetentionTypes /\ today \in R!Day /\ today \in Nat /\ run[u] \in RunRow
      /\ Targets(u) /\ Marks(u)
  BY RetentionConstants DEF RetentionInv, RunKept, RetentionTypes
<1>2. PICK targets \in {Target} \cup {{t} : t \in Target} :
        run' = [run EXCEPT
                  ![u].todo = {[target |-> t, cutoff |-> R!Cutoff(u, t)] :
                                 t \in {x \in targets : policy[x].status = "on"}},
                  ![u].step = IF {[target |-> t, cutoff |-> R!Cutoff(u, t)] :
                                    t \in {x \in targets : policy[x].status = "on"}} = {}
                              THEN "over" ELSE "sweep"]
  BY DEF R!ReadPolicies
<1> DEFINE todo == {[target |-> t, cutoff |-> R!Cutoff(u, t)] :
                      t \in {x \in targets : policy[x].status = "on"}}
           new == [run[u] EXCEPT !.todo = todo,
                                 !.step = IF todo = {} THEN "over" ELSE "sweep"]
<1>3. /\ run[u].step = "begun" /\ run' = [run EXCEPT ![u] = new]
      /\ UNCHANGED <<today, row, hold, policy, late, edits, ledger>>
  BY <1>1, <1>2 DEF R!ReadPolicies
<1>4. ASSUME NEW p \in todo
      PROVE  /\ p \in PolicyRef /\ p.cutoff + MinAge <= run[u].at
             /\ p.cutoff = R!Cutoff(u, p.target)
             /\ p = [target |-> p.target, cutoff |-> p.cutoff]
  <2>1. PICK t \in targets : p = [target |-> t, cutoff |-> R!Cutoff(u, t)]
    OBVIOUS
  <2>2. t \in Target /\ targets \subseteq Target
    OBVIOUS
  <2>3. policy[t].age \in R!Age
    BY <1>1, <2>2 DEF RetentionTypes
  <2>4. run[u].at \in Nat
    BY <1>1, RetentionConstants DEF RunRow
  <2>5. R!Cutoff(u, t) \in Int /\ R!Cutoff(u, t) + MinAge <= run[u].at
    BY <2>3, <2>4, RetentionConstants DEF R!Cutoff
  <2> QED BY <2>1, <2>2, <2>5 DEF PolicyRef
<1>5. \A p, q \in todo : p.target = q.target => p = q
  <2>1. SUFFICES ASSUME NEW p \in todo, NEW q \in todo, p.target = q.target
                 PROVE  p = q
    OBVIOUS
  <2>2. p.cutoff = q.cutoff
    BY <1>4, <2>1
  <2> QED BY <1>4, <2>1, <2>2
<1>6. todo \subseteq PolicyRef
  BY <1>4
<1> HIDE DEF todo
<1>7. new \in RunRow
  BY <1>1, <1>6 DEF RunRow
<1>8. /\ run[u].rows = {} /\ run[u].stamped = {} /\ run[u].marked = {} /\ Mine(u) = {}
  BY <1>1, <1>3 DEF Targets, Marks
<1>9. /\ new.todo = todo /\ new.rows = {} /\ new.stamped = {} /\ new.marked = {}
      /\ new.at = run[u].at /\ new.mode = run[u].mode
      /\ new.step = (IF todo = {} THEN "over" ELSE "sweep")
  BY <1>1, <1>8 DEF RunRow
<1>10. run'[u] = new
  BY <1>1, <1>3 DEF RetentionTypes
<1>11. Mine(u)' = {}
  BY <1>3, <1>8 DEF Mine
<1> HIDE DEF new
<1>12. Targets(u)'
  BY <1>1, <1>3, <1>4, <1>5, <1>9, <1>10, <1>11 DEF Targets
<1>13. Marks(u)'
  BY <1>1, <1>3, <1>9, <1>10 DEF Marks, R!Running
<1>14. Accounts(u)'
  <2>1. Cardinality(Weight({})) = 0 /\ Cardinality({}) = 0
    BY WeightOfNone, FS_EmptySet
  <2>2. Cardinality(Weight(Mine(u)')) = 0 /\ Cardinality(run'[u].marked) = 0
    BY <1>9, <1>10, <1>11, <2>1
  <2>3. run'[u].step \notin {"counted", "swept"}
    BY <1>9, <1>10
  <2>4. Weight(Mine(u))' = Weight(Mine(u)')
    BY DEF Weight
  <2> QED BY <2>2, <2>3, <2>4 DEF Accounts
<1>15. RunKept(u)'
  BY <1>12, <1>13, <1>14 DEF RunKept
<1>16. /\ \A v \in Run \ {u} : new.marked \cap run[v].marked = {}
       /\ new.step # "over" \/ Mine(u) = {}
       /\ run[u].step # "over"
  BY <1>3, <1>8, <1>9
<1> QED BY <1>3, <1>7, <1>15, <1>16, RunMoves

(* A policy that is counted is the only one in hand, and its rows are at    *)
(* most as many as were counted.                                            *)
LEMMA RowsAreCounted ==
    ASSUME RetentionInv, NEW u \in Run, NEW p \in run[u].todo, R!CountRows(u, p)
    PROVE  RetentionInv'
<1> DEFINE n == R!Cardinality(R!Eligible(p))
           new == [run[u] EXCEPT !.todo = @ \ {p}, !.step = "counted",
                                 !.rows = {p}, !.matched = n]
<1>1. /\ RetentionTypes /\ run[u] \in RunRow
      /\ Targets(u) /\ Marks(u) /\ Accounts(u)
  BY DEF RetentionInv, RunKept, RetentionTypes
<1>2. /\ run[u].step = "sweep" /\ run' = [run EXCEPT ![u] = new]
      /\ UNCHANGED <<today, row, hold, policy, late, edits, ledger>>
  BY <1>1 DEF R!CountRows
<1>3. n = Cardinality(R!Eligible(p)) /\ n \in Nat
  <2>1. R!Eligible(p) \subseteq Row
    BY DEF R!Eligible
  <2>2. Cardinality(R!Eligible(p)) \in Nat
    BY <2>1, RowsAreFinite
  <2> QED BY <2>2, SameCardinality
<1> HIDE DEF n
<1>4. p \in PolicyRef
  BY <1>1 DEF RunRow
<1>5. new \in RunRow
  BY <1>1, <1>3, <1>4 DEF RunRow
<1>6. /\ new.todo = run[u].todo \ {p} /\ new.rows = {p} /\ new.matched = n
      /\ new.step = "counted" /\ new.marked = run[u].marked
      /\ new.stamped = run[u].stamped /\ new.at = run[u].at /\ new.mode = run[u].mode
  BY <1>1 DEF RunRow
<1>7. run'[u] = new
  BY <1>1, <1>2 DEF RetentionTypes
<1>8. Mine(u)' = Mine(u)
  BY <1>2 DEF Mine
<1> HIDE DEF new
<1>9. Targets(u)'
  <2>1. run[u].rows = {}
    BY <1>1, <1>2 DEF Targets
  <2>2. new.todo \cup new.rows \subseteq run[u].todo
    BY <1>6
  <2> QED BY <1>1, <1>2, <1>6, <1>7, <1>8, <2>2 DEF Targets
<1>10. Marks(u)'
  <2>1. R!Running(u) /\ R!Running(u)'
    BY <1>2, <1>6, <1>7 DEF R!Running
  <2> QED BY <1>1, <1>2, <1>6, <1>7, <2>1 DEF Marks
<1>11. Accounts(u)'
  <2>1. R!Running(u)
    BY <1>2 DEF R!Running
  <2>2. R!Eligible(p)' = R!Eligible(p)
    BY <1>2 DEF R!Eligible, R!Older
  <2>3. \A q \in run'[u].rows : q = p
    BY <1>6, <1>7
  <2>4. Cardinality(R!Eligible(p)') <= run'[u].matched
    BY <1>3, <1>6, <1>7, <2>2
  <2>5. Weight(Mine(u))' = Weight(Mine(u))
    BY <1>8 DEF Weight
  <2>6. Cardinality(Weight(Mine(u))) + 0 = Cardinality(run[u].marked)
    BY <1>1, <1>2, <2>1 DEF Accounts
  <2>7. run'[u].step = "counted" /\ run'[u].marked = run[u].marked
    BY <1>6, <1>7
  <2> QED BY <2>3, <2>4, <2>5, <2>6, <2>7 DEF Accounts
<1>12. RunKept(u)'
  BY <1>9, <1>10, <1>11 DEF RunKept
<1>13. /\ \A v \in Run \ {u} : new.marked \cap run[v].marked = {}
       /\ new.step # "over" \/ Mine(u) = {}
       /\ run[u].step # "over"
  BY <1>2, <1>6 DEF RetentionInv
<1> QED BY <1>2, <1>5, <1>12, <1>13, RunMoves

(* What a run deletes is of a policy it has not deleted for, still there,   *)
(* and marked by nobody else.                                               *)
LEMMA RowsAreDeleted ==
    ASSUME RetentionInv, NEW u \in Run, R!DeleteRows(u)
    PROVE  RetentionInv'
<1>1. /\ RetentionTypes /\ run[u] \in RunRow
      /\ Targets(u) /\ Marks(u) /\ Accounts(u)
      /\ today \in Nat /\ MinAge \in Nat
  BY RetentionConstants DEF RetentionInv, RunKept, RetentionTypes
<1>2. PICK p \in run[u].rows :
        LET gone == IF run[u].mode = "apply" THEN R!Eligible(p) ELSE {}
        IN  /\ gone \cap R!MarkedByOthers(u) = {}
            /\ run' = [run EXCEPT ![u].step = "swept",
                                  ![u].marked = @ \cup gone,
                                  ![u].counted = R!Cardinality(gone)]
  BY DEF R!DeleteRows
<1> DEFINE gone == IF run[u].mode = "apply" THEN R!Eligible(p) ELSE {}
           n == R!Cardinality(gone)
           new == [run[u] EXCEPT !.step = "swept", !.marked = @ \cup gone, !.counted = n]
<1>3. /\ run[u].step = "counted" /\ run' = [run EXCEPT ![u] = new]
      /\ UNCHANGED <<today, row, hold, policy, late, edits, ledger>>
      /\ gone \cap R!MarkedByOthers(u) = {}
  BY <1>1, <1>2 DEF R!DeleteRows
<1>4. /\ gone \subseteq R!Eligible(p) /\ R!Eligible(p) \subseteq Row
      /\ gone # {} => run[u].mode = "apply"
  BY DEF R!Eligible
<1>5. run[u].mode # "apply" => gone = {}
  OBVIOUS
<1> HIDE DEF gone
<1>6. n = Cardinality(gone) /\ n \in Nat
  <2>1. Cardinality(gone) \in Nat
    BY <1>4, RowsAreFinite
  <2> QED BY <2>1, SameCardinality
<1> HIDE DEF n
<1>7. new \in RunRow
  BY <1>1, <1>4, <1>6 DEF RunRow
<1>8. /\ new.todo = run[u].todo /\ new.rows = run[u].rows /\ new.matched = run[u].matched
      /\ new.step = "swept" /\ new.marked = run[u].marked \cup gone /\ new.counted = n
      /\ new.stamped = run[u].stamped /\ new.at = run[u].at /\ new.mode = run[u].mode
  BY <1>1 DEF RunRow
<1>9. run'[u] = new
  BY <1>1, <1>3 DEF RetentionTypes
<1>10. Mine(u)' = Mine(u)
  BY <1>3 DEF Mine
<1>11. R!Running(u) /\ R!Running(u)'
  BY <1>3, <1>8, <1>9 DEF R!Running
<1> HIDE DEF new
<1>12. Targets(u)'
  BY <1>1, <1>3, <1>8, <1>9, <1>10 DEF Targets
<1>13. ASSUME NEW r \in gone
       PROVE  /\ row[r].state = "present" /\ row[r].target = p.target
              /\ row[r].born + MinAge < today /\ r \notin run[u].marked
  <2>1. r \in Row /\ row[r].state = "present" /\ row[r].target = p.target /\ row[r].born < p.cutoff
    BY <1>4, <1>13 DEF R!Eligible, R!Older
  <2>2. p.cutoff + MinAge <= run[u].at /\ run[u].at <= today
    BY <1>1 DEF Targets
  <2>3. p.cutoff \in Int /\ run[u].at \in Int /\ row[r].born \in Int
    BY <1>1, <2>1, RetentionConstants DEF RunRow, PolicyRef, RetentionTypes
  <2>4. row[r].born + MinAge < today
    BY <1>1, <2>1, <2>2, <2>3
  <2>5. r \notin run[u].marked
    BY <1>1, <1>3, <2>1 DEF Marks
  <2> QED BY <2>1, <2>4, <2>5
<1>14. Marks(u)'
  <2>1. \A q \in run[u].todo : q.target # p.target
    BY <1>1 DEF Targets
  <2>2. run'[u].marked # {} => run'[u].mode = "apply"
    BY <1>1, <1>4, <1>8, <1>9 DEF Marks
  <2>3. ASSUME NEW r \in run'[u].marked
        PROVE  /\ row'[r].state = "present" /\ row'[r].born + MinAge < today'
               /\ \A q \in run'[u].todo : row'[r].target # q.target
    <3>1. CASE r \in gone
      BY <1>3, <1>8, <1>9, <1>13, <2>1, <3>1
    <3>2. CASE r \in run[u].marked
      BY <1>1, <1>3, <1>8, <1>9, <3>2 DEF Marks
    <3> QED BY <1>8, <1>9, <2>3, <3>1, <3>2
  <2>4. run'[u].mode = "apply" /\ u \notin late' => ~ hold'
    BY <1>1, <1>3, <1>8, <1>9, <1>11 DEF Marks
  <2>5. run'[u].step = "swept"
    BY <1>8, <1>9
  <2> QED BY <1>11, <2>2, <2>3, <2>4, <2>5 DEF Marks
<1>15. Accounts(u)'
  <2>1. n <= IF run[u].mode = "apply" THEN run[u].matched ELSE 0
    <3>1. CASE run[u].mode = "apply"
      <4>1. IsFiniteSet(R!Eligible(p)) /\ Cardinality(R!Eligible(p)) \in Nat
        BY <1>4, RowsAreFinite
      <4>2. Cardinality(gone) <= Cardinality(R!Eligible(p))
        BY <1>4, <4>1, FS_Subset
      <4>3. Cardinality(R!Eligible(p)) <= run[u].matched /\ run[u].matched \in Nat
        BY <1>1, <1>3 DEF Accounts, RunRow
      <4> QED BY <1>6, <3>1, <4>1, <4>2, <4>3
    <3>2. CASE run[u].mode # "apply"
      BY <1>5, <1>6, <3>2, FS_EmptySet
    <3> QED BY <3>1, <3>2
  <2>2. Cardinality(run[u].marked \cup gone) = Cardinality(run[u].marked) + n
    <3>1. run[u].marked \cap gone = {} /\ run[u].marked \subseteq Row /\ gone \subseteq Row
      BY <1>1, <1>4, <1>13 DEF RunRow
    <3> QED BY <1>6, <3>1, DisjointRows
  <2>3. Cardinality(Weight(Mine(u))) + 0 = Cardinality(run[u].marked)
    BY <1>1, <1>3, <1>11 DEF Accounts
  <2>4. Weight(Mine(u))' = Weight(Mine(u))
    BY <1>10 DEF Weight
  <2>5. Cardinality(run[u].marked) \in Nat
    BY <1>1, RowsAreFinite DEF RunRow
  <2>6. Cardinality(Weight(Mine(u))) \in Nat
    <3>1. IsFiniteSet(Weight(ledger)) /\ Mine(u) \subseteq ledger
      BY DEF RetentionInv, Mine
    <3> QED BY <3>1, WeightOfSome
  <2>7. Cardinality(Weight(Mine(u))') + run'[u].counted = Cardinality(run'[u].marked)
    <3>1. Cardinality(Weight(Mine(u))) + n = Cardinality(run[u].marked \cup gone)
      BY <1>6, <2>2, <2>3, <2>5, <2>6
    <3> QED BY <1>8, <1>9, <2>4, <3>1, Zenon
  <2>8. run'[u].step = "swept" /\ run'[u].mode = run[u].mode /\ run'[u].matched = run[u].matched
        /\ run'[u].counted = n
    BY <1>8, <1>9
  <2> QED BY <2>1, <2>7, <2>8 DEF Accounts
<1>16. RunKept(u)'
  BY <1>12, <1>14, <1>15 DEF RunKept
<1>17. \A v \in Run \ {u} : new.marked \cap run[v].marked = {}
  <2>1. SUFFICES ASSUME NEW v \in Run, v # u, NEW r \in new.marked, r \in run[v].marked
                 PROVE  FALSE
    OBVIOUS
  <2>2. R!Running(v)
    BY <2>1 DEF RetentionInv, RunKept, Marks
  <2>3. r \in R!MarkedByOthers(u)
    BY <2>1, <2>2 DEF R!MarkedByOthers
  <2>4. r \in run[u].marked
    BY <1>3, <1>8, <2>1, <2>3
  <2> QED BY <2>1, <2>4 DEF RetentionInv
<1> QED BY <1>3, <1>7, <1>8, <1>16, <1>17, RunMoves

(* The ledger row a run writes is its first of that target.                 *)
LEMMA RunIsRecorded ==
    ASSUME RetentionInv, NEW u \in Run, R!RecordRun(u)
    PROVE  RetentionInv'
<1>1. /\ RetentionTypes /\ run[u] \in RunRow /\ ledger \subseteq LedgerRow
      /\ Targets(u) /\ Marks(u) /\ Accounts(u)
  BY DEF RetentionInv, RunKept, RetentionTypes
<1>2. PICK p \in run[u].rows :
        /\ run' = [run EXCEPT ![u].step = "sweep",
                              ![u].stamped = @ \cup {p.target},
                              ![u].rows = {}]
        /\ ledger' = ledger \cup {R!Recorded(u, p.target)}
  BY DEF R!RecordRun
<1> DEFINE l == R!Recorded(u, p.target)
           new == [run[u] EXCEPT !.step = "sweep", !.stamped = @ \cup {p.target}, !.rows = {}]
<1>3. /\ run[u].step = "swept" /\ run' = [run EXCEPT ![u] = new]
      /\ UNCHANGED <<today, row, hold, policy, late, edits>>
      /\ ledger' = ledger \cup {l}
  <2>1. run[u].step = "swept" /\ UNCHANGED <<today, row, hold, policy, late, edits>>
    BY DEF R!RecordRun
  <2>2. run' = [run EXCEPT ![u] = new]
    BY <1>2
  <2> QED BY <1>2, <2>1, <2>2
<1>4. /\ l \in LedgerRow /\ l.run = u /\ l.target = p.target /\ l.mode = run[u].mode
      /\ l.matched = run[u].matched /\ l.deleted = run[u].counted
      /\ l.deleted \in Nat /\ l.matched \in Nat
  BY <1>1 DEF RunRow, PolicyRef, LedgerRow, R!Recorded
<1> HIDE DEF l
<1>5. l \notin ledger
  BY <1>1, <1>4 DEF Targets, Mine
<1>6. new \in RunRow
  BY <1>1 DEF RunRow, PolicyRef
<1>7. /\ new.todo = run[u].todo /\ new.rows = {} /\ new.matched = run[u].matched
      /\ new.step = "sweep" /\ new.marked = run[u].marked /\ new.counted = run[u].counted
      /\ new.stamped = run[u].stamped \cup {p.target}
      /\ new.at = run[u].at /\ new.mode = run[u].mode
  BY <1>1 DEF RunRow
<1> HIDE DEF new
<1>8. \A v \in Run \ {u} : Mine(v)' = Mine(v)
  BY <1>3, <1>4 DEF Mine
<1>9. Mine(u)' = Mine(u) \cup {l}
  BY <1>3, <1>4 DEF Mine
<1>10. ledger' \subseteq LedgerRow
  BY <1>1, <1>3, <1>4
<1>11. /\ RetentionTypes' /\ run'[u] = new
       /\ \A v \in Run \ {u} : run'[v] = run[v] /\ RunKept(v)'
       /\ R!Gone' = R!Gone
  BY <1>3, <1>6, <1>8, <1>10, OtherRunsStay
<1>12. Targets(u)'
  <2>1. \A q \in run[u].todo : q.target # p.target
    BY <1>1 DEF Targets
  <2>2. \A k \in Mine(u)' : k.target \in run'[u].stamped
    BY <1>1, <1>4, <1>7, <1>9, <1>11 DEF Targets
  <2> QED BY <1>1, <1>3, <1>7, <1>11, <2>1, <2>2 DEF Targets
<1>13. R!Running(u) /\ R!Running(u)'
  BY <1>3, <1>7, <1>11 DEF R!Running
<1>14. Marks(u)'
  BY <1>1, <1>3, <1>7, <1>11, <1>13 DEF Marks
<1>15. /\ IsFiniteSet(Weight({l})) /\ Cardinality(Weight({l})) = l.deleted
  BY <1>4, WeightOfOne
<1>16. Accounts(u)'
  <2>1. /\ IsFiniteSet(Weight(Mine(u))) /\ Cardinality(Weight(Mine(u))) \in Nat
        /\ Mine(u) \cap {l} = {}
    <3>1. IsFiniteSet(Weight(ledger)) /\ Mine(u) \subseteq ledger
      BY DEF RetentionInv, Mine
    <3> QED BY <1>5, <3>1, WeightOfSome
  <2>2. Cardinality(Weight(Mine(u) \cup {l})) = Cardinality(Weight(Mine(u))) + l.deleted
    BY <1>15, <2>1, WeightOfBoth
  <2>3. Cardinality(Weight(Mine(u))) + run[u].counted = Cardinality(run[u].marked)
    BY <1>1, <1>3, <1>13 DEF Accounts
  <2>4. Cardinality(Weight(Mine(u) \cup {l})) = Cardinality(run[u].marked)
    BY <1>4, <2>2, <2>3
  <2>5. Weight(Mine(u))' = Weight(Mine(u) \cup {l})
    BY <1>9 DEF Weight
  <2>6. Cardinality(run[u].marked) \in Nat
    BY <1>1, RowsAreFinite DEF RunRow
  <2>7. Cardinality(Weight(Mine(u))') + 0 = Cardinality(run'[u].marked)
    BY <1>7, <1>11, <2>4, <2>5, <2>6
  <2>8. run'[u].step = "sweep"
    BY <1>7, <1>11
  <2> QED BY <2>7, <2>8 DEF Accounts
<1>17. \A v \in Run : RunKept(v)'
  BY <1>11, <1>12, <1>14, <1>16 DEF RunKept
<1>18. \A v, w \in Run : v # w => run'[v].marked \cap run'[w].marked = {}
  <2>1. \A v \in Run : run'[v].marked = run[v].marked
    BY <1>7, <1>11
  <2> QED BY <2>1 DEF RetentionInv
<1>19. R!DeletedWasMatched'
  <2>1. l.deleted <= IF l.mode = "apply" THEN l.matched ELSE 0
    BY <1>1, <1>3, <1>4 DEF Accounts
  <2> QED BY <1>3, <2>1 DEF RetentionInv, R!DeletedWasMatched
<1>20. R!Committed' = R!Committed
  <2>1. ASSUME NEW k \in ledger
        PROVE  run'[k.run].step = "over" <=> run[k.run].step = "over"
    <3>1. k.run \in Run
      BY <1>1 DEF LedgerRow
    <3> QED BY <1>3, <1>7, <1>11, <3>1
  <2>2. run'[l.run].step # "over"
    BY <1>4, <1>7, <1>11
  <2> QED BY <1>3, <2>1, <2>2 DEF R!Committed
<1>21. IsFiniteSet(Weight(ledger)')
  <2>1. IsFiniteSet(Weight(ledger)) /\ ledger \cap {l} = {}
    BY <1>5 DEF RetentionInv
  <2>2. IsFiniteSet(Weight(ledger \cup {l}))
    BY <1>15, <2>1, WeightOfBoth
  <2>3. Weight(ledger)' = Weight(ledger \cup {l})
    BY <1>3 DEF Weight
  <2> QED BY <2>2, <2>3
<1>22. Cardinality(Weight(R!Committed)') = Cardinality(R!Gone')
  <2>1. Weight(R!Committed)' = Weight(R!Committed)
    BY <1>20 DEF Weight
  <2> QED BY <1>11, <2>1 DEF RetentionInv
<1> QED BY <1>11, <1>17, <1>18, <1>19, <1>21, <1>22 DEF RetentionInv

(* A run that rolls back leaves neither marks nor ledger rows.              *)
LEMMA RunRollsBack ==
    ASSUME RetentionInv, NEW u \in Run, R!AbortRun(u)
    PROVE  RetentionInv'
<1> DEFINE new == [run[u] EXCEPT !.step = "over", !.marked = {}]
<1>1. /\ RetentionTypes /\ run[u] \in RunRow /\ ledger \subseteq LedgerRow /\ Targets(u)
  BY DEF RetentionInv, RunKept, RetentionTypes
<1>2. /\ run[u].step # "over" /\ run' = [run EXCEPT ![u] = new]
      /\ UNCHANGED <<today, row, hold, policy, late, edits>>
      /\ ledger' = {l \in ledger : l.run # u}
  BY <1>1 DEF R!AbortRun, R!Running
<1>3. new \in RunRow
  BY <1>1 DEF RunRow
<1>4. /\ new.todo = run[u].todo /\ new.rows = run[u].rows /\ new.step = "over"
      /\ new.marked = {} /\ new.stamped = run[u].stamped /\ new.at = run[u].at
  BY <1>1 DEF RunRow
<1> HIDE DEF new
<1>5. \A v \in Run \ {u} : Mine(v)' = Mine(v)
  BY <1>2 DEF Mine
<1>6. Mine(u)' = {} /\ ledger' \subseteq LedgerRow
  BY <1>1, <1>2 DEF Mine
<1>7. /\ RetentionTypes' /\ run'[u] = new
      /\ \A v \in Run \ {u} : run'[v] = run[v] /\ RunKept(v)'
      /\ R!Gone' = R!Gone
  BY <1>2, <1>3, <1>5, <1>6, OtherRunsStay
<1>8. Targets(u)'
  BY <1>1, <1>2, <1>4, <1>6, <1>7 DEF Targets
<1>9. Marks(u)' /\ Accounts(u)'
  BY <1>4, <1>7 DEF Marks, Accounts, R!Running
<1>10. \A v \in Run : RunKept(v)'
  BY <1>7, <1>8, <1>9 DEF RunKept
<1>11. \A v, w \in Run : v # w => run'[v].marked \cap run'[w].marked = {}
  <2>1. \A v \in Run : run'[v].marked \subseteq run[v].marked
    BY <1>4, <1>7
  <2> QED BY <2>1 DEF RetentionInv
<1>12. R!DeletedWasMatched'
  BY <1>2 DEF RetentionInv, R!DeletedWasMatched
<1>13. R!Committed' = R!Committed
  <2>1. ASSUME NEW l \in ledger, l.run # u
        PROVE  run'[l.run].step = "over" <=> run[l.run].step = "over"
    <3>1. l.run \in Run
      BY <1>1 DEF LedgerRow
    <3> QED BY <1>7, <2>1, <3>1
  <2> QED BY <1>2, <2>1 DEF R!Committed
<1>14. IsFiniteSet(Weight(ledger)')
  <2>1. Weight(ledger)' \subseteq Weight(ledger)
    BY <1>2 DEF Weight
  <2> QED BY <2>1, FS_Subset DEF RetentionInv
<1>15. Cardinality(Weight(R!Committed)') = Cardinality(R!Gone')
  <2>1. Weight(R!Committed)' = Weight(R!Committed)
    BY <1>13 DEF Weight
  <2> QED BY <1>7, <2>1 DEF RetentionInv
<1> QED BY <1>7, <1>10, <1>11, <1>12, <1>14, <1>15 DEF RetentionInv

(* A run that commits turns its marks into gone rows and its ledger rows    *)
(* into committed ones: as many of the one as the other counts.             *)
LEMMA RunCommits ==
    ASSUME RetentionInv, NEW u \in Run, R!CommitRun(u)
    PROVE  RetentionInv'
<1> DEFINE new == [run[u] EXCEPT !.step = "over", !.marked = {}]
           marked == run[u].marked
<1>1. /\ RetentionTypes /\ run[u] \in RunRow /\ run \in [Run -> RunRow]
      /\ ledger \subseteq LedgerRow /\ today \in Nat
      /\ Targets(u) /\ Marks(u) /\ Accounts(u)
  BY RetentionConstants DEF RetentionInv, RunKept, RetentionTypes
<1>2. /\ run[u].step = "sweep" /\ run' = [run EXCEPT ![u] = new]
      /\ row' = [r \in Row |-> IF r \in marked THEN [row[r] EXCEPT !.state = "gone"]
                                               ELSE row[r]]
      /\ UNCHANGED <<today, hold, policy, late, edits, ledger>>
  BY <1>1 DEF R!CommitRun
<1>3. new \in RunRow
  BY <1>1 DEF RunRow
<1>4. /\ new.todo = run[u].todo /\ new.rows = run[u].rows /\ new.step = "over"
      /\ new.marked = {} /\ new.stamped = run[u].stamped /\ new.at = run[u].at
  BY <1>1 DEF RunRow
<1>5. marked \subseteq Row
  BY <1>1 DEF RunRow
<1> HIDE DEF new
<1>6. /\ run' \in [Run -> RunRow] /\ run'[u] = new
      /\ \A v \in Run \ {u} : run'[v] = run[v]
  BY <1>1, <1>2, <1>3
<1>7. row' \in [Row -> [state : {"absent", "present", "gone"},
                        target : Target \cup {"none"}, born : R!Day]]
  BY <1>1, <1>2 DEF RetentionTypes
<1>8. RetentionTypes'
  BY <1>1, <1>2, <1>6, <1>7 DEF RetentionTypes
<1>9. \A v \in Run : Mine(v)' = Mine(v)
  BY <1>2 DEF Mine
<1>10. \A r \in Row : /\ r \in marked => row'[r].state = "gone"
                      /\ r \notin marked => row'[r] = row[r]
  BY <1>1, <1>2 DEF RetentionTypes
<1>11. ASSUME NEW v \in Run \ {u} PROVE RunKept(v)'
  <2>1. run[v].marked \subseteq Row /\ run[v].marked \cap marked = {}
    BY <1>1 DEF RetentionInv, RunRow
  <2>2. \A r \in run[v].marked : row'[r] = row[r]
    BY <1>10, <2>1
  <2>3. ASSUME NEW p \in run[v].rows PROVE R!Eligible(p)' \subseteq R!Eligible(p)
    BY <1>10 DEF R!Eligible, R!Older
  <2>4. today <= today' /\ run'[v] = run[v] /\ Mine(v)' = Mine(v) /\ late' = late /\ hold' = hold
    BY <1>1, <1>2, <1>6, <1>9
  <2> QED BY <1>8, <2>2, <2>3, <2>4, RunStays
<1>12. Targets(u)'
  BY <1>1, <1>2, <1>4, <1>6, <1>9 DEF Targets
<1>13. Marks(u)' /\ Accounts(u)'
  BY <1>4, <1>6 DEF Marks, Accounts, R!Running
<1>14. \A v \in Run : RunKept(v)'
  BY <1>11, <1>12, <1>13 DEF RunKept
<1>15. \A v, w \in Run : v # w => run'[v].marked \cap run'[w].marked = {}
  <2>1. \A v \in Run : run'[v].marked \subseteq run[v].marked
    BY <1>4, <1>6
  <2> QED BY <2>1 DEF RetentionInv
<1>16. R!DeletedWasMatched'
  BY <1>2 DEF RetentionInv, R!DeletedWasMatched
<1>17. Weight(ledger)' = Weight(ledger) /\ IsFiniteSet(Weight(ledger))
  BY <1>2 DEF Weight, RetentionInv
<1>18. Cardinality(Weight(R!Committed)') = Cardinality(R!Gone')
  <2>1. R!Committed' = R!Committed \cup Mine(u)
    <3>1. ASSUME NEW l \in ledger
          PROVE  run'[l.run].step = "over" <=> run[l.run].step = "over" \/ l.run = u
      <4>1. l.run \in Run
        BY <1>1 DEF LedgerRow
      <4> QED BY <1>4, <1>6, <4>1
    <3> QED BY <1>2, <3>1 DEF R!Committed, Mine
  <2>2. R!Gone' = R!Gone \cup marked
    BY <1>5, <1>10 DEF R!Gone
  <2>3. R!Gone \cap marked = {} /\ R!Gone \subseteq Row
    BY <1>1 DEF R!Gone, Marks
  <2>4. /\ R!Committed \cap Mine(u) = {}
        /\ R!Committed \subseteq ledger /\ Mine(u) \subseteq ledger
    BY <1>2 DEF R!Committed, Mine
  <2>5. /\ IsFiniteSet(Weight(R!Committed)) /\ IsFiniteSet(Weight(Mine(u)))
        /\ Cardinality(Weight(Mine(u))) \in Nat
    BY <1>17, <2>4, WeightOfSome
  <2>6. Cardinality(Weight(R!Committed \cup Mine(u)))
          = Cardinality(Weight(R!Committed)) + Cardinality(Weight(Mine(u)))
    BY <2>4, <2>5, WeightOfBoth
  <2>7. Cardinality(R!Gone \cup marked) = Cardinality(R!Gone) + Cardinality(marked)
    BY <1>5, <2>3, DisjointRows
  <2>8. Cardinality(Weight(Mine(u))) = Cardinality(marked)
    <3>1. R!Running(u)
      BY <1>2 DEF R!Running
    <3>2. Cardinality(Weight(Mine(u))) + 0 = Cardinality(marked)
      BY <1>1, <1>2, <3>1 DEF Accounts
    <3> QED BY <2>5, <3>2
  <2>9. Cardinality(Weight(R!Committed)) = Cardinality(R!Gone)
    BY DEF RetentionInv
  <2>10. Weight(R!Committed)' = Weight(R!Committed \cup Mine(u))
    BY <2>1 DEF Weight
  <2> QED BY <2>2, <2>6, <2>7, <2>8, <2>9, <2>10, Zenon
<1>19. IsFiniteSet(Weight(ledger)')
  BY <1>17
<1> QED BY <1>8, <1>14, <1>15, <1>16, <1>18, <1>19 DEF RetentionInv

(* Every step of Retention keeps its invariant.                             *)
LEMMA RetentionStep == RetentionInv /\ [R!Next]_retentionVars => RetentionInv'
<1>1. ASSUME RetentionInv, UNCHANGED retentionVars PROVE RetentionInv'
  BY <1>1, RetentionStutter
<1>2. ASSUME RetentionInv, R!Next PROVE RetentionInv'
  BY <1>2, OutsideRuns, RowAppears, RunBegins, PoliciesAreRead, RowsAreCounted, RowsAreDeleted,
     RunIsRecorded, RunRollsBack, RunCommits DEF R!Next
<1> QED BY <1>1, <1>2

-----------------------------------------------------------------------------
(* The committed ledger rows count every row that is gone, once.            *)
LEMMA LedgerAccounts == RetentionInv => R!Consistent
<1> SUFFICES ASSUME RetentionInv PROVE R!Consistent
  OBVIOUS
<1>1. R!TypeOK
  <2>1. ASSUME NEW u \in Run
        PROVE  /\ run[u].step \in {"idle", "begun", "sweep", "counted", "swept", "over"}
               /\ run[u].mode \in R!Mode /\ run[u].at \in R!Day
               /\ run[u].marked \subseteq Row /\ run[u].stamped \subseteq Target
    <3>1. run[u] \in RunRow
      BY DEF RetentionInv, RetentionTypes
    <3> QED BY <3>1 DEF RunRow
  <2> QED BY <2>1 DEF RetentionInv, RetentionTypes, R!TypeOK
<1>2. R!SumDeleted = Cardinality(Weight(R!Committed))
  BY SameCardinality DEF R!SumDeleted, Weight
<1>3. R!Cardinality(R!Gone) = Cardinality(R!Gone)
  BY SameCardinality
<1>4. R!DeletedOnce
  BY <1>2, <1>3 DEF RetentionInv, R!DeletedOnce
<1> QED BY <1>1, <1>4 DEF RetentionInv, R!Consistent

(* A row goes with a run that commits, and was marked by it: past the floor *)
(* of its target.                                                           *)
LEMMA RowsGoPastTheFloor ==
    ASSUME RetentionInv, R!Next, NEW r \in Row,
           row[r].state = "present", row'[r].state = "gone"
    PROVE  row[r].born + MinAge < today
<1>1. row \in [Row -> [state : {"absent", "present", "gone"},
                       target : Target \cup {"none"}, born : R!Day]]
  BY DEF RetentionInv, RetentionTypes
<1>2. ~ UNCHANGED row
  OBVIOUS
<1>3. ASSUME NEW t \in Target, NEW x \in Row PROVE ~ R!CreateRow(x, t)
  BY <1>1 DEF R!CreateRow
<1>4. PICK u \in Run : R!CommitRun(u)
  <2>1. ASSUME NEW v \in Run,
               \/ \E mode \in R!Mode : R!BeginRun(v, mode)
               \/ \E p \in run[v].todo : R!CountRows(v, p)
               \/ R!ReadPolicies(v) \/ R!DeleteRows(v) \/ R!RecordRun(v) \/ R!AbortRun(v)
        PROVE  UNCHANGED row
    BY <2>1 DEF R!BeginRun, R!CountRows, R!ReadPolicies, R!DeleteRows, R!RecordRun, R!AbortRun
  <2>2. R!NextDay \/ R!SetLegalHold
        \/ (\E t \in Target : R!UpsertRetentionPolicy(t) \/ R!DeleteRetentionPolicy(t))
          => UNCHANGED row
    BY DEF R!NextDay, R!SetLegalHold, R!UpsertRetentionPolicy, R!DeleteRetentionPolicy
  <2> QED BY <1>2, <1>3, <2>1, <2>2 DEF R!Next
<1>5. r \in run[u].marked
  BY <1>4 DEF R!CommitRun
<1> QED BY <1>5 DEF RetentionInv, RunKept, Marks

(* Under a hold the runs that were not under way when it was set have       *)
(* marked nothing.                                                          *)
LEMMA HoldKeepsRows ==
    ASSUME RetentionInv, NEW u \in Run \ late, hold, run[u].marked # {}
    PROVE  FALSE
BY DEF RetentionInv, RunKept, Marks

-----------------------------------------------------------------------------
(* The three components together: each behaviour moves one of them.         *)
GovernanceInv == RetentionInv /\ ExportInv /\ AccessInv

(* Each step is one of one component and leaves the other two alone.        *)
LEMMA GovernanceKeeps == Spec => []GovernanceInv
<1>1. Init => GovernanceInv
  BY RetentionInit, ExportInit, InitResolved DEF Init, GovernanceInv
<1>2. GovernanceInv /\ [Next]_<<focus, retentionVars, exportVars, accessVars>> => GovernanceInv'
  <2> SUFFICES ASSUME RetentionInv, ExportInv, AccessInv,
                      [Next]_<<focus, retentionVars, exportVars, accessVars>>
               PROVE  GovernanceInv'
    BY DEF GovernanceInv
  <2>1. \/ R!Next /\ UNCHANGED <<exportVars, accessVars>>
        \/ X!Next /\ UNCHANGED <<retentionVars, accessVars>>
        \/ A!Next /\ UNCHANGED <<retentionVars, exportVars>>
        \/ UNCHANGED <<retentionVars, exportVars, accessVars>>
    BY Zenon DEF Next
  <2>2. RetentionInv'
    BY <2>1, RetentionStep, Zenon
  <2>3. ExportInv'
    BY <2>1, ExportStep, ExportStutter, Zenon
  <2>4. AccessInv'
    BY <2>1, AccessStep, Zenon
  <2> QED BY <2>2, <2>3, <2>4 DEF GovernanceInv
<1> QED BY <1>1, <1>2, PTL DEF Spec

(* The ledger of every organization accounts for each deleted row once, a   *)
(* ready export has its bundle, and a request acts within what its actor    *)
(* was entitled to do: for any rows, policies, runs, jobs, keys and people. *)
THEOREM AccountsAndEntitles == Spec => []Consistent
<1>1. GovernanceInv => Consistent
  BY LedgerAccounts, ExportIsKept, ActsWithinBounds DEF GovernanceInv, Consistent
<1> QED BY <1>1, GovernanceKeeps, PTL

(* A finished export is there for its TTL, whatever the retention of export *)
(* jobs: its floor is not below the TTL.                                    *)
THEOREM ExportsStayAvailable == Spec => []AvailableForTtl
<1>1. GovernanceInv => AvailableForTtl
  BY ExportIsKept DEF GovernanceInv, AvailableForTtl
<1> QED BY <1>1, GovernanceKeeps, PTL

(* No policy edited in the middle of a run takes a row before its target's  *)
(* floor, no run that starts under a legal hold takes any, and no request   *)
(* of a key changes keys, or roles or memberships of an organization that   *)
(* exists: the one it may found has its creator for a member.               *)
THEOREM LimitsAlwaysHold == Spec => LimitsHold
<1> DEFINE Floor == \A r \in Row : row[r].state = "present" /\ row'[r].state = "gone"
                                     => row[r].born + MinAge < today
           Held == \A u \in Run \ late :
                     hold /\ run[u].marked # {} /\ run'[u].step = "over" => row' = row
           OnlyActs == \A r \in Request :
                         A!UnderWay(request[r]) /\ request[r].actor \in Key /\ request'[r] = A!Done
                           => A!TouchesOnlyNew(key[request[r].actor].by)
<1>1. GovernanceInv /\ [Next]_<<focus, retentionVars, exportVars, accessVars>> =>
        [Floor]_retentionVars /\ [Held]_retentionVars
  <2> SUFFICES ASSUME RetentionInv, [Next]_<<focus, retentionVars, exportVars, accessVars>>,
                      ~ UNCHANGED retentionVars
               PROVE  Floor /\ Held
    BY DEF GovernanceInv
  <2>1. R!Next
    BY Zenon DEF Next
  <2>2. Floor
    BY <2>1, RowsGoPastTheFloor
  <2>3. Held
    BY HoldKeepsRows
  <2> QED BY <2>2, <2>3
<1>2. GovernanceInv /\ [Next]_<<focus, retentionVars, exportVars, accessVars>> =>
        [OnlyActs]_accessVars
  <2> SUFFICES ASSUME AccessInv, [Next]_<<focus, retentionVars, exportVars, accessVars>>,
                      ~ UNCHANGED accessVars
               PROVE  OnlyActs
    BY DEF GovernanceInv
  <2>1. A!Next
    BY Zenon DEF Next
  <2> QED BY <2>1, KeysOnlyFound
<1>3. GovernanceInv /\ [Next]_<<focus, retentionVars, exportVars, accessVars>> =>
        [Floor]_R!vars /\ [Held]_R!vars /\ [OnlyActs]_A!vars
  BY <1>1, <1>2, Zenon DEF retentionVars, accessVars, R!vars, A!vars
<1>4. Spec => [][Floor]_R!vars /\ [][Held]_R!vars /\ [][OnlyActs]_A!vars
  BY <1>3, GovernanceKeeps, PTL DEF Spec
<1> QED BY <1>4 DEF LimitsHold, R!FloorRespected, R!HoldKeepsRowsUnlessLate, A!KeysDoNotAdminister
=============================================================================
