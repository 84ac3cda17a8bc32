--------------------------- MODULE FederatedLogin ----------------------------
(***************************************************************************)
(* Signing in through the organization's identity provider, from the login *)
(* request to the membership: packages/db/src/saml.ts and sso.ts with the  *)
(* verification of domain/src/access/saml.ts and oidc.ts.  The provider's  *)
(* answers may be late, go astray between two browser tabs, come twice, or *)
(* be of another configuration than the one in force when they arrive.     *)
(* Signatures are data: a key, the parts it covers, a strong algorithm.    *)
(***************************************************************************)
EXTENDS Integers, FiniteSets

CONSTANTS
    Protocol,    \* the protocols in use: "saml", "oidc"
    Caller,      \* callbacks at work at once
    Login,       \* login requests: InResponseTo and RelayState, or nonce and state
    Subject, Mail,
    DomainOf,    \* the domain of each address
    Config,      \* provider configurations: [on, issuer, keys, wantAssertionsSigned,
                 \* domains, default, byDomain, byGroup]
    Role,        \* role keys of the organization
    Flaw,        \* what may be wrong with an answer
    None,
    Ttl, Skew,   \* scaled down: 600 s and 120 s in the code
    MaxTime, MaxAnswers, \* bounds; MaxMoves: changes of configuration and key,
    MaxMoves             \* housekeeping runs and failures

FederatedLoginAssumption ==
    /\ None \notin Subject \cup Mail
    /\ (\A roles \in SUBSET Role : roles # None) /\ \A c \in Config : c # None

VARIABLES
    protocol, now,
    provider,    \* saml_provider or identity_provider row
    issuing,     \* the key the provider signs with
    login,       \* *_login_request rows
    answers,     \* what the provider has issued
    work,        \* what each callback has read
    externalId,  \* of the platform users, by address; None if absent
    link,        \* saml_link or sso_link rows: the address a subject belongs to
    member,      \* roles of the memberships; None if absent
    moves,
    served,      \* history: how many sign-ins each answer completed
    raced        \* history: login requests two callbacks consumed at a time

vars == <<protocol, now, provider, issuing, login, answers, work, externalId,
          link, member, moves, served, raced>>
outside == <<protocol, now, issuing, answers>>
people == <<externalId, link, member>>
Idle == [op |-> "idle"]

Init ==
    /\ protocol \in Protocol /\ now = 0
    /\ provider \in Config
    /\ issuing \in UNION {c.keys : c \in Config}
    /\ login = [l \in Login |-> [state |-> "none", expires |-> 0]]
    /\ answers = {}
    /\ work = [c \in Caller |-> Idle]
    /\ externalId = [m \in Mail |-> None]
    /\ link = [s \in Subject |-> None]
    /\ member = [m \in Mail |-> None]
    /\ moves = 0 /\ served = [a \in {} |-> 0] /\ raced = {}

Moves == moves < MaxMoves /\ moves' = moves + 1

-----------------------------------------------------------------------------
(* The world: time, the provider's keys and its answers.                    *)
Tick ==
    /\ now < MaxTime /\ now' = now + 1
    /\ UNCHANGED <<moves, protocol, provider, issuing, login, answers, work, people, served, raced>>
RotateKey(k) ==
    /\ k # issuing /\ issuing' = k
    /\ Moves /\ UNCHANGED <<protocol, now, provider, login, answers, work, people, served, raced>>

Sound(l, s, m, issuer) ==
    [success |-> TRUE, single |-> TRUE, parts |-> {"assertion", "response"}, strong |-> TRUE,
     key |-> issuing, issuer |-> issuer, subject |-> s, mail |-> m,
     audience |-> {"sp"}, recipient |-> "acs", replyTo |-> l,
     notBefore |-> now, notOnOrAfter |-> now + Ttl]
With(a, flaw) ==
    CASE flaw = "none" -> a
      [] flaw = "failed" -> [a EXCEPT !.success = FALSE, !.single = FALSE]
      [] flaw = "unsignedAssertion" -> [a EXCEPT !.parts = {"response"}]
      [] flaw = "weak" -> [a EXCEPT !.strong = FALSE]
      [] flaw = "audience" -> [a EXCEPT !.audience = {}]
      [] flaw = "recipient" -> [a EXCEPT !.recipient = "elsewhere"]
      [] flaw = "noMail" -> [a EXCEPT !.mail = None]
IssueAnswer(l, s, m, issuer, flaw) ==
    LET a == With(Sound(l, s, m, issuer), flaw)
    IN  /\ login[l].state # "none"
        /\ a \notin answers /\ Cardinality(answers) < MaxAnswers
        /\ answers' = answers \cup {a}
        /\ served' = [b \in answers \cup {a} |-> IF b \in answers THEN served[b] ELSE 0]
        /\ UNCHANGED <<moves, protocol, now, provider, issuing, login, work, people, raced>>

-----------------------------------------------------------------------------
(* The configuration.  A mapping names existing roles and has a default;    *)
(* the links go with the provider.                                          *)
KnownRoles(c) ==
    /\ c.default # {}
    /\ c.default \subseteq Role
    /\ \A d \in DOMAIN c.byDomain : c.byDomain[d] \subseteq Role
    /\ \A g \in DOMAIN c.byGroup : c.byGroup[g] \subseteq Role
InForce(c) ==
    work' = [k \in Caller |->
               IF work[k] = Idle THEN Idle ELSE [work[k] EXCEPT !.inForce = @ \cup {c}]]
UpsertProvider(c) ==
    /\ c \in Config \ {provider}
    /\ KnownRoles(c)
    /\ provider' = c
    /\ InForce(c)
    /\ Moves /\ UNCHANGED <<outside, login, people, served, raced>>
DeleteProvider ==
    /\ provider # None
    /\ provider' = None
    /\ InForce(None)
    /\ link' = [s \in Subject |-> None]
    /\ Moves /\ UNCHANGED <<outside, login, externalId, member, served, raced>>

-----------------------------------------------------------------------------
(* beginSamlLogin, beginSsoLogin, and the housekeeping of old requests.     *)
Enabled(p) == p # None /\ p.on
BeginLogin(l) ==
    /\ Enabled(provider)
    /\ login[l].state = "none"
    /\ login' = [login EXCEPT ![l] = [state |-> "fresh", expires |-> now + Ttl]]
    /\ UNCHANGED <<moves, outside, provider, work, people, served, raced>>
PruneLoginRequests ==
    /\ login' = [l \in Login |->
                   IF login[l].state = "consumed"
                      \/ (login[l].state = "fresh" /\ login[l].expires < now)
                   THEN [login[l] EXCEPT !.state = "pruned"] ELSE login[l]]
    /\ login' # login
    /\ Moves /\ UNCHANGED <<outside, provider, work, people, served, raced>>

-----------------------------------------------------------------------------
(* The callback: find the request, consume it, load the provider, verify    *)
(* the answer, store the person, then link and admit him.  `now' is taken   *)
(* once, at the start.                                                      *)
Usable(l) == login[l].state = "fresh" /\ now <= login[l].expires
Goes(c, from, r) == work[c].op = from /\ work' = [work EXCEPT ![c] = r]
FindRequest(c, l, a) ==
    /\ Usable(l) /\ a \in answers
    /\ Goes(c, "idle", [op |-> "consume", login |-> l, answer |-> a, at |-> now,
                        inForce |-> {provider}])
    /\ UNCHANGED <<moves, outside, provider, login, people, served, raced>>
ConsumeRequest(c) ==
    LET w == work[c]
    IN  /\ Goes(c, "consume", [w EXCEPT !.op = "load", !.inForce = {provider}])
        /\ login[w.login].state # "pruned"
        /\ login' = [login EXCEPT ![w.login].state = "consumed"]
        /\ raced' = IF login[w.login].state = "consumed" THEN raced \cup {w.login} ELSE raced
        /\ UNCHANGED <<moves, outside, provider, people, served>>
LoadProvider(c) ==
    LET w == work[c]
    IN  /\ Enabled(provider)
        /\ Goes(c, "load", [op |-> "verify", login |-> w.login, answer |-> w.answer,
                            at |-> w.at, inForce |-> w.inForce, p |-> provider])
        /\ UNCHANGED <<moves, outside, provider, login, people, served, raced>>

VerifySamlResponse(a, l, p, t) ==
    /\ a.success /\ a.single
    /\ a.parts # {} /\ (p.wantAssertionsSigned => "assertion" \in a.parts)
    /\ a.strong /\ a.key \in p.keys
    /\ a.issuer = p.issuer
    /\ a.recipient = "acs" /\ a.replyTo = l
    /\ a.notOnOrAfter + Skew > t /\ a.notBefore - Skew <= t
    /\ "sp" \in a.audience
VerifyIdToken(a, l, p, t) ==
    /\ a.single /\ a.strong /\ a.key = issuing
    /\ a.issuer = p.issuer /\ "sp" \in a.audience
    /\ a.notOnOrAfter + Skew >= t /\ a.notBefore - Skew <= t
    /\ a.replyTo = l
(* The address of the attribute that is mapped to it, or of a usual name,   *)
(* or else the subject itself if it is one.                                 *)
HasAddress(a) == a.mail # None
EmailDomainAllowed(m, domains) == domains = {} \/ DomainOf[m] \in domains
MapClaimsToRoleKeys(p, m, groups) ==
    p.default
      \cup (IF DomainOf[m] \in DOMAIN p.byDomain THEN p.byDomain[DomainOf[m]] ELSE {})
      \cup UNION {p.byGroup[g] : g \in groups \cap DOMAIN p.byGroup}

(* The platform user is found or made by its address, outside of the        *)
(* transaction that admits him.                                             *)
AcceptAnswer(c, groups) ==
    LET w == work[c]
        a == w.answer
    IN  /\ w.op = "verify"
        /\ IF protocol = "saml" THEN VerifySamlResponse(a, w.login, w.p, w.at)
           ELSE VerifyIdToken(a, w.login, w.p, w.at)
        /\ HasAddress(a)
        /\ EmailDomainAllowed(a.mail, w.p.domains)
        /\ externalId' = [externalId EXCEPT ![a.mail] = a.subject]
        /\ Goes(c, "verify", [op |-> "admit", answer |-> a, login |-> w.login, p |-> w.p,
                              inForce |-> w.inForce,
                              roles |-> MapClaimsToRoleKeys(w.p, a.mail, groups)])
        /\ UNCHANGED <<moves, outside, provider, login, link, member, served, raced>>
Admit(c) ==
    LET w == work[c]
        m == w.answer.mail
    IN  /\ Goes(c, "admit", Idle)
        /\ provider # None
        /\ w.roles \cap Role # {}
        /\ link' = [link EXCEPT ![w.answer.subject] = m]
        /\ member' = [member EXCEPT ![m] = IF @ = None THEN w.roles \cap Role ELSE @]
        /\ served' = [served EXCEPT ![w.answer] = @ + 1]
        /\ UNCHANGED <<moves, outside, provider, login, externalId, raced>>
(* The callback is refused or fails.                                        *)
Refuse(c) ==
    /\ work[c] # Idle /\ work' = [work EXCEPT ![c] = Idle]
    /\ Moves /\ UNCHANGED <<outside, provider, login, people, served, raced>>

-----------------------------------------------------------------------------
(* What the API offers those who manage security.                           *)
SettingsNext == DeleteProvider \/ \E c \in Config : UpsertProvider(c)
Next ==
    \/ Tick
    \/ SettingsNext
    \/ \E k \in UNION {c.keys : c \in Config} : RotateKey(k)
    \/ \E l \in Login : BeginLogin(l)
    \/ \E l \in Login, s \in Subject, m \in Mail, i \in {c.issuer : c \in Config}, f \in Flaw :
          IssueAnswer(l, s, m, i, f)
    \/ PruneLoginRequests
    \/ \E c \in Caller :
         \/ \E l \in Login, a \in answers : FindRequest(c, l, a)
         \/ ConsumeRequest(c)
         \/ LoadProvider(c)
         \/ \E groups \in SUBSET UNION {DOMAIN p.byGroup : p \in Config} : AcceptAnswer(c, groups)
         \/ Admit(c)
         \/ Refuse(c)

Spec == Init /\ [][Next]_vars

-----------------------------------------------------------------------------
(* An answer of the provider completes one sign-in, however often and to    *)
(* whichever tab it is delivered, unless two callbacks consumed the login   *)
(* request at a time.                                                       *)
AnswerServesOnce == \A a \in answers : a.replyTo \notin raced => served[a] <= 1

(* Nobody is admitted on the strength of a configuration that was not in    *)
(* force at any time since his login request was consumed.                  *)
OnlyByProviderInForce ==
    \A c \in Caller : work[c].op = "admit" => work[c].p \in work[c].inForce

(* Whoever is linked is a member with a role and a platform user.           *)
LinkedAreMembers ==
    \A s \in Subject :
       link[s] # None => member[link[s]] \notin {None, {}} /\ externalId[link[s]] # None
=============================================================================
