------------------------------ MODULE Identity -------------------------------
(***************************************************************************)
(* Members, SignIn, ScimDirectory and FederatedLogin in one run.  They     *)
(* meet where a sign-in accepts an invitation or provisions a member, and  *)
(* where a SCIM request changes memberships, which Members has as its own  *)
(* actions.  A behaviour exercises one of them, which `focus' names, and   *)
(* leaves the others where they start.                                     *)
(***************************************************************************)
EXTENDS Integers, TLC

CONSTANTS User, Client, Invitation, Group, None, MaxRequests
CONSTANTS Caller, Link, Login, Session, Code, MaxSignIns, MaxSecrets
CONSTANTS Count, MaxScim
CONSTANTS Tab, Subject, Ttl, Skew, MaxTime, MaxAnswers, MaxMoves

VARIABLES focus, role, member, invitation, config, scimUser, group, provider,
          request, calls, unguarded, rejoined, drifted, outdated
VARIABLES account, invited, ticket, session, mfa, flagged, mandate, work,
          spent, accepted, proven, raced
VARIABLES scim, row, created, scimGroup, last, walk, sent
VARIABLES protocol, now, connection, issuing, login, answers, callback,
          externalId, link, admitted, moves, served, crossed

(* Two built-in roles and a custom one; in either configuration a group can *)
(* make its members administrators, in the first both make them leads.      *)
ScimConfigs ==
    {[default |-> {"member"}, mapping |-> ("g" :> {"lead"} @@ "h" :> {"lead", "admin"})],
     [default |-> {"member"}, mapping |-> ("g" :> {"admin"} @@ "h" :> {})]}
(* Patches with and without a path, of one operation and of two.            *)
UserPatches ==
    {<<[op |-> "replace", path |-> None, value |-> [active |-> FALSE, displayName |-> "bob"]]>>,
     <<[op |-> "remove", path |-> "active", value |-> None],
       [op |-> "add", path |-> "userName", value |-> "bob"]>>}
GroupPatches ==
    {<<[op |-> "add", path |-> "members", value |-> {"ann"}],
       [op |-> "remove", path |-> "members[value eq]", value |-> {"bob"}]>>,
     <<[op |-> "remove", path |-> "members", value |-> {}],
       [op |-> "replace", path |-> None,
        value |-> [displayName |-> "h", members |-> {"ann", "bob"}]]>>}
(* The provider's two configurations differ in key and strictness.          *)
Connections ==
    {[on |-> TRUE, issuer |-> "idp", keys |-> {1}, wantAssertionsSigned |-> TRUE, domains |-> {},
      default |-> {"member"}, byDomain |-> ("a" :> {"lead"}), byGroup |-> ("g" :> {})],
     [on |-> TRUE, issuer |-> "idp", keys |-> {2}, wantAssertionsSigned |-> FALSE, domains |-> {"a"},
      default |-> {"member"}, byDomain |-> ("a" :> {"lead"}), byGroup |-> ("g" :> {})]}

M == INSTANCE Members
       WITH Name <- {"g", "h"}, Admin <- "admin", BuiltIn <- {"admin", "member"},
            Custom <- {"lead"}, Assignment <- {{"admin"}, {"member"}, {"lead"}},
            Config <- ScimConfigs, SsoRoles <- {"member"}, MaxCalls <- MaxRequests
S == INSTANCE SignIn WITH MaxCalls <- MaxSignIns
D == INSTANCE ScimDirectory
       WITH User <- {"ann", "bob"}, Text <- {"ann", "bob"}, Group <- {"g"},
            UserPatch <- UserPatches, GroupPatch <- GroupPatches,
            group <- scimGroup, calls <- sent, MaxCalls <- MaxScim
F == INSTANCE FederatedLogin
       WITH Protocol <- {"saml", "oidc"}, Login <- Tab, Mail <- {"ann"}, DomainOf <- "ann" :> "a",
            Config <- Connections, Role <- {"admin", "member", "lead"},
            Flaw <- {"none", "unsignedAssertion"},
            provider <- connection, work <- callback, member <- admitted, raced <- crossed

ASSUME IdentityAssumption ==
    /\ M!MembersAssumption /\ S!SignInAssumption
    /\ D!ScimDirectoryAssumption /\ F!FederatedLoginAssumption

memberVars == <<role, member, invitation, config, scimUser, group, provider,
                request, calls, unguarded, rejoined, drifted, outdated>>
signInVars == <<account, invited, ticket, session, mfa, flagged, mandate, work,
                spent, accepted, proven, raced>>
scimVars == <<scim, row, created, scimGroup, last, walk, sent>>
federatedVars == <<protocol, now, connection, issuing, login, answers, callback,
                   externalId, link, admitted, moves, served, crossed>>

Init ==
    /\ M!Init /\ S!Init /\ D!Init /\ F!Init
    /\ focus \in {"members", "signIn", "directory", "federation"}
    /\ focus # "members" => config = None /\ M!Admins = User
    /\ focus # "signIn" => ~account /\ ~mandate
    /\ focus # "directory" => \A u \in {"ann", "bob"} : row[u] = None
    /\ focus # "federation" => protocol = "oidc" /\ issuing = 1 /\ connection.keys = {1}
Next ==
    /\ \/ focus = "members" /\ M!Next /\ UNCHANGED <<signInVars, scimVars, federatedVars>>
       \/ focus = "signIn" /\ S!Next /\ UNCHANGED <<memberVars, scimVars, federatedVars>>
       \/ focus = "directory" /\ D!Next /\ UNCHANGED <<memberVars, signInVars, federatedVars>>
       \/ focus = "federation" /\ F!Next /\ UNCHANGED <<memberVars, signInVars, scimVars>>
    /\ UNCHANGED focus

Spec == Init /\ [][Next]_<<focus, memberVars, signInVars, scimVars, federatedVars>>

(* Users, requests, groups, sessions and tabs are never compared with an    *)
(* order.  No behaviour has to do with both users and sessions, or with     *)
(* both groups and tabs: they change places together.                       *)
Unmoved(p) == \A x \in DOMAIN p : p[x] = x
Together(these, those) == {p @@ q : p \in {f \in Permutations(these) : ~Unmoved(f)},
                                    q \in {f \in Permutations(those) : ~Unmoved(f)}}
Symmetry == Permutations(Client) \cup Together(User, Session) \cup Together(Group, Tab)

-----------------------------------------------------------------------------
(* Rows and requests have their types; SCIM's users mirror their            *)
(* memberships until somebody else reactivates one; user names are unique   *)
(* and a provider that read the whole list saw everybody on it; and nobody  *)
(* is admitted by a provider that was not in force or left without a role.  *)
Consistent ==
    CASE focus = "members" -> M!TypeOK /\ M!ScimMirrorsMembership
      [] focus = "signIn" -> S!TypeOK
      [] focus = "directory" -> D!Sound /\ D!PagesAreComplete
      [] focus = "federation" -> F!OnlyByProviderInForce /\ F!LinkedAreMembers

(* An active administrator remains, unless assignments overlapped or SCIM   *)
(* took the last one (Members).                                             *)
AdministratorRemains == M!AdministratorRemains

(* SCIM decides the managed roles and leaves all others (Members), and a    *)
(* request that is repeated changes nothing more (ScimDirectory).           *)
ScimKeepsToItsRoles == M!ScimKeepsToItsRoles /\ D!RepeatsChangeNothing

(* Invitations are answered once, unless two answers overlapped (Members).  *)
InvitationsHold == M!InvitationsHold

(* A ticket opens one session, a recovery code is accepted once (SignIn),   *)
(* and an identity provider's answer completes one sign-in                  *)
(* (FederatedLogin), unless two requests used them at a time.               *)
SingleUse == S!OneSessionPerTicket /\ S!RecoveryCodesAreSingleUse /\ F!AnswerServesOnce

(* A second factor in force was proven and stays (SignIn).                  *)
SecondFactorStands == S!SecondFactorStands

(* "Remove the identity provider (existing SSO links are kept)"             *)
(* (apps/api/src/modules/sso/sso-config.controller.ts:104, and              *)
(* saml-config.controller.ts:106 likewise): whoever signed in through a     *)
(* provider keeps the link.                                                 *)
SsoLinksAreKept == \A a \in DOMAIN served : served[a] > 0 => link[a.subject] # None
=============================================================================
