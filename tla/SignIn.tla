------------------------------- MODULE SignIn --------------------------------
(***************************************************************************)
(* How one person signs in: magic links (auth.service.ts), login requests  *)
(* of an identity provider (sso.ts, saml.ts), sessions and two-factor      *)
(* authentication (packages/db/src/mfa.ts).  No transaction spans these    *)
(* steps: every call of the database client commits alone.                 *)
(* X_Fault is the definition X with a plausible bug (see README.md).       *)
(***************************************************************************)
EXTENDS Integers, FiniteSets

CONSTANTS
    Caller,     \* requests at work at once
    Link,       \* magic-link tokens
    Login,      \* SSO and SAML login requests
    Session,
    Code,       \* recovery codes issued by one enrolment
    None,
    MaxCalls,   \* bound: requests
    MaxSecrets  \* bound: enrolments begun

SignInAssumption == MaxCalls \in Nat /\ MaxSecrets \in Nat \ {0}

Ticket == Link \cup Login

VARIABLES
    account,   \* does the platform user exist?
    invited,   \* the person's invitation
    ticket,    \* magic_link_token and *_login_request rows
    session,   \* session rows, and the ticket each was created from
    mfa,       \* user_mfa row: secret (0 if none), confirmed, recovery codes
    flagged,   \* user.mfaEnabled
    mandate,   \* organization.requireMfa
    work,      \* what each request has read
    spent,     \* calls and secrets so far
    accepted,  \* history: how often each recovery code was accepted
    proven,    \* history: secrets a code was presented for
    raced      \* history: tickets and secrets written on an outdated read

vars == <<account, invited, ticket, session, mfa, flagged, mandate, work,
          spent, accepted, proven, raced>>

Secret == 1..MaxSecrets
Idle == [op |-> "idle"]
NoMfa == [secret |-> 0, confirmed |-> FALSE, codes |-> {}]
Issued(n) == {<<n, k>> : k \in Code}

(* Either nobody has signed in yet, or a session is open and the second     *)
(* factor perhaps set up.                                                   *)
Init ==
    /\ account \in BOOLEAN
    /\ invited = IF account THEN "none" ELSE "pending"
    /\ ticket = [t \in Ticket |-> "none"]
    /\ \E open \in SUBSET Session :
         /\ open # {} => account
         /\ session = [s \in Session |->
                         [state |-> IF s \in open THEN "live" ELSE "none",
                          passed |-> FALSE, from |-> None]]
    /\ mfa \in {NoMfa} \cup IF account THEN {[secret |-> 1, confirmed |-> TRUE, codes |-> Issued(1)]} ELSE {}
    /\ flagged = mfa.confirmed
    /\ mandate \in BOOLEAN
    /\ work = [c \in Caller |-> Idle]
    /\ spent = [calls |-> 0, secrets |-> mfa.secret]
    /\ accepted = [k \in Secret \X Code |-> 0]
    /\ proven = {mfa.secret} /\ raced = {}

-----------------------------------------------------------------------------
Opens(c, r) ==
    /\ work[c] = Idle /\ spent.calls < MaxCalls
    /\ work' = [work EXCEPT ![c] = r]
    /\ spent' = [spent EXCEPT !.calls = @ + 1]
Goes(c, from, r) ==
    /\ work[c].op = from
    /\ work' = [work EXCEPT ![c] = r]
    /\ UNCHANGED spent
Races(stale, x) == raced' = IF stale THEN raced \cup {x} ELSE raced
mfaVars == <<mfa, flagged, accepted, proven>>
ticketVars == <<account, invited, ticket>>

(* The process dies, or a call fails: what was committed stays.             *)
Dies(c) ==
    /\ work[c] # Idle
    /\ work' = [work EXCEPT ![c] = Idle]
    /\ UNCHANGED <<ticketVars, session, mfaVars, mandate, spent, raced>>

-----------------------------------------------------------------------------
(* Tickets.  An unknown address is sent nothing.                            *)
RequestMagicLink(t) ==
    /\ t \in Link /\ ticket[t] = "none"
    /\ account \/ invited = "pending"
    /\ ticket' = [ticket EXCEPT ![t] = "fresh"]
    /\ UNCHANGED <<account, invited, session, mfaVars, mandate, work, spent, raced>>
BeginLogin(t) ==
    /\ t \in Login /\ ticket[t] = "none"
    /\ ticket' = [ticket EXCEPT ![t] = "fresh"]
    /\ UNCHANGED <<account, invited, session, mfaVars, mandate, work, spent, raced>>
Expire(t) ==
    /\ ticket[t] = "fresh"
    /\ ticket' = [ticket EXCEPT ![t] = "expired"]
    /\ UNCHANGED <<account, invited, session, mfaVars, mandate, work, spent, raced>>
EndInvitation ==
    /\ invited = "pending"
    /\ invited' = "ended"
    /\ UNCHANGED <<account, ticket, session, mfaVars, mandate, work, spent, raced>>

(* The ticket is read, then marked as consumed whatever it has become.      *)
Usable_Consumed(t) == ticket[t] \in {"fresh", "consumed"}
Usable(t) == ticket[t] = "fresh"
ReadTicket(c, t) ==
    /\ Usable(t)
    /\ Opens(c, [op |-> "ticket", t |-> t, saw |-> ticket[t]])
    /\ UNCHANGED <<ticketVars, session, mfaVars, mandate, raced>>
ConsumeTicket(c) ==
    LET t == work[c].t
    IN  /\ Goes(c, "ticket", [op |-> "enter", t |-> t])
        /\ ticket' = [ticket EXCEPT ![t] = "consumed"]
        /\ Races(ticket[t] # work[c].saw, t)
        /\ UNCHANGED <<account, invited, session, mfaVars, mandate>>

(* A link admits a known person, or creates the account of an invited one;  *)
(* an identity provider vouches for either.  The invitations found are then *)
(* accepted if they are still pending.                                      *)
EnterByLink(c) ==
    /\ work[c].op = "enter" /\ work[c].t \in Link
    /\ account \/ invited = "pending"
    /\ account' = TRUE
    /\ Goes(c, "enter", [op |-> IF invited = "pending" THEN "accept" ELSE "session",
                         t |-> work[c].t])
    /\ UNCHANGED <<invited, ticket, session, mfaVars, mandate, raced>>
EnterByProvider(c) ==
    /\ work[c].op = "enter" /\ work[c].t \in Login
    /\ account' = TRUE
    /\ Goes(c, "enter", [op |-> "session", t |-> work[c].t])
    /\ UNCHANGED <<invited, ticket, session, mfaVars, mandate, raced>>
AcceptInvitation(c) ==
    /\ Goes(c, "accept", [op |-> "session", t |-> work[c].t])
    /\ invited' = IF invited = "pending" THEN "accepted" ELSE invited
    /\ UNCHANGED <<account, ticket, session, mfaVars, mandate, raced>>
CreateSession(c, s) ==
    /\ Goes(c, "session", Idle)
    /\ session[s].state = "none"
    /\ session' = [session EXCEPT ![s] =
                     [state |-> "live", passed |-> FALSE, from |-> work[c].t]]
    /\ UNCHANGED <<ticketVars, mfaVars, mandate, raced>>

(* logout, and the end of a session's time to live.                         *)
Ends(s) ==
    /\ session[s].state = "live"
    /\ session' = [session EXCEPT ![s].state = "over"]
    /\ UNCHANGED <<ticketVars, mfaVars, mandate, work, spent, raced>>

-----------------------------------------------------------------------------
(* resolveMfaRequirement and AuthGuard.                                     *)
MustSatisfy == mfa.confirmed \/ mandate
SignedIn(s) == session[s].state = "live"
Admitted(s) == SignedIn(s) /\ (MustSatisfy => session[s].passed)

(* The second factor: every operation reads the row first.                  *)
BeginMfaEnrollment_AnyTime(c, s) ==
    /\ SignedIn(s)
    /\ Opens(c, [op |-> "enroll", saw |-> mfa])
    /\ UNCHANGED <<ticketVars, session, mfaVars, mandate, raced>>
BeginMfaEnrollment(c, s) ==
    /\ SignedIn(s)
    /\ ~mfa.confirmed
    /\ Opens(c, [op |-> "enroll", saw |-> mfa])
    /\ UNCHANGED <<ticketVars, session, mfaVars, mandate, raced>>
StoreSecret(c) ==
    LET n == spent.secrets + 1
    IN  /\ work[c].op = "enroll" /\ spent.secrets < MaxSecrets
        /\ mfa' = [secret |-> n, confirmed |-> FALSE, codes |-> {}]
        /\ Races(mfa # work[c].saw, n)
        /\ work' = [work EXCEPT ![c] = Idle]
        /\ spent' = [spent EXCEPT !.secrets = n]
        /\ UNCHANGED <<ticketVars, session, flagged, accepted, proven, mandate>>

Confirmable(row) == row.secret # 0 /\ ~row.confirmed
PresentCode(c, s) ==
    /\ SignedIn(s)
    /\ Confirmable(mfa)
    /\ proven' = proven \cup {mfa.secret}
    /\ Opens(c, [op |-> "confirm", s |-> s, saw |-> mfa])
    /\ UNCHANGED <<ticketVars, session, mfa, flagged, accepted, mandate, raced>>
ConfirmMfaEnrollment(c) ==
    /\ mfa.secret # 0
    /\ Goes(c, "confirm", [op |-> "flag", s |-> work[c].s])
    /\ mfa' = [mfa EXCEPT !.confirmed = TRUE, !.codes = Issued(mfa.secret)]
    /\ Races(mfa # work[c].saw, mfa.secret)
    /\ UNCHANGED <<ticketVars, session, flagged, accepted, proven, mandate>>
FlagMfa(c) ==
    LET s == work[c].s
    IN  /\ Goes(c, "flag", Idle)
        /\ flagged' = TRUE
        /\ session' = [session EXCEPT ![s].passed = TRUE]
        /\ UNCHANGED <<ticketVars, mfa, accepted, proven, mandate, raced>>

(* verifyMfaChallenge: a TOTP code, or a recovery code, which is removed    *)
(* from the codes that were read.  For a session, or to disable.            *)
BeginChallenge(c, s, code, goal) ==
    /\ SignedIn(s)
    /\ mfa.confirmed
    /\ code \in mfa.codes \cup {None}
    /\ goal = "disable" => Admitted(s) /\ ~mandate
    /\ Opens(c, [op |-> "challenge", s |-> s, code |-> code, goal |-> goal, saw |-> mfa])
    /\ UNCHANGED <<ticketVars, session, mfaVars, mandate, raced>>
Remaining(row, code) == row.codes \ {code}
VerifyMfaChallenge(c) ==
    LET w == work[c]
    IN  /\ mfa.secret # 0
        /\ Goes(c, "challenge", [op |-> w.goal, s |-> w.s])
        /\ IF w.code = None
           THEN UNCHANGED <<mfa, accepted, raced>>
           ELSE /\ mfa' = [mfa EXCEPT !.codes = Remaining(w.saw, w.code)]
                /\ accepted' = [accepted EXCEPT ![w.code] = @ + 1]
                /\ Races(mfa # w.saw, w.saw.secret)
        /\ UNCHANGED <<ticketVars, session, flagged, proven, mandate>>
PassSession(c) ==
    /\ Goes(c, "pass", Idle)
    /\ session' = [session EXCEPT ![work[c].s].passed = TRUE]
    /\ UNCHANGED <<ticketVars, mfaVars, mandate, raced>>
DisableMfa(c) ==
    /\ Goes(c, "disable", [op |-> "unflag"])
    /\ mfa.secret # 0
    /\ mfa' = NoMfa
    /\ UNCHANGED <<ticketVars, session, flagged, accepted, proven, mandate, raced>>
UnflagMfa(c) ==
    /\ Goes(c, "unflag", Idle)
    /\ flagged' = FALSE
    /\ UNCHANGED <<ticketVars, session, mfa, accepted, proven, mandate, raced>>
SetMandate ==
    /\ mandate' = ~mandate
    /\ spent.calls < MaxCalls
    /\ spent' = [spent EXCEPT !.calls = @ + 1]
    /\ UNCHANGED <<ticketVars, session, mfaVars, work, raced>>

-----------------------------------------------------------------------------
(* Setting up, confirming and removing a second factor.                     *)
MfaNext(c) ==
    \/ \E s \in Session : BeginMfaEnrollment(c, s)
    \/ StoreSecret(c)
    \/ ConfirmMfaEnrollment(c)
    \/ FlagMfa(c)
    \/ DisableMfa(c)
    \/ UnflagMfa(c)
Next ==
    \/ \E t \in Ticket : RequestMagicLink(t) \/ BeginLogin(t) \/ Expire(t)
    \/ EndInvitation
    \/ \E s \in Session : Ends(s)
    \/ SetMandate
    \/ \E c \in Caller :
         \/ Dies(c)
         \/ \E t \in Ticket : ReadTicket(c, t)
         \/ ConsumeTicket(c)
         \/ EnterByLink(c)
         \/ EnterByProvider(c)
         \/ AcceptInvitation(c)
         \/ \E s \in Session :
              \/ CreateSession(c, s)
              \/ PresentCode(c, s)
              \/ \E code \in (Secret \X Code) \cup {None}, goal \in {"pass", "disable"} :
                   BeginChallenge(c, s, code, goal)
         \/ MfaNext(c)
         \/ VerifyMfaChallenge(c)
         \/ PassSession(c)

Spec == Init /\ [][Next]_vars

-----------------------------------------------------------------------------
(* Types of the rows.  The recovery codes are those of the secret, unless   *)
(* a challenge that had read an earlier secret has written its own back.    *)
TypeOK ==
    /\ account \in BOOLEAN /\ flagged \in BOOLEAN /\ mandate \in BOOLEAN
    /\ invited \in {"none", "pending", "accepted", "ended"}
    /\ ticket \in [Ticket -> {"none", "fresh", "consumed", "expired"}]
    /\ session \in [Session -> [state : {"none", "live", "over"},
                                passed : BOOLEAN, from : Ticket \cup {None}]]
    /\ mfa.secret \in Secret \cup {0} /\ mfa.codes \subseteq Secret \X Code
    /\ \A k \in mfa.codes : k[1] \in {mfa.secret} \cup raced

(* A sign-in link or login request opens at most one session, and there is  *)
(* none without a person, unless two requests used the ticket at a time.    *)
OneSessionPerTicket ==
    /\ \A s, r \in Session :
         session[s].from = session[r].from /\ session[s].from \notin raced \cup {None} => s = r
    /\ \A s \in Session : session[s].from # None => account

(* "Ten single-use recovery codes" (ADR-013): a code is accepted once,      *)
(* unless another request wrote the row between the read of the codes and   *)
(* the write of what remains of them.                                       *)
RecoveryCodesAreSingleUse ==
    \A k \in Secret \X Code : k[1] \notin raced => accepted[k] <= 1

(* A second factor is demanded only for a secret that somebody has          *)
(* presented a code for, and a confirmed one is replaced or switched off    *)
(* only by somebody who presented a code of it, unless requests overlapped. *)
ConfirmedWasProven == mfa.confirmed /\ mfa.secret \notin raced => mfa.secret \in proven
Overtaken == (mfa'.secret \in raced') \/ \E c \in Caller : work[c].op = "disable"
ConfirmedStays ==
    [][mfa.confirmed => (mfa'.confirmed /\ mfa'.secret = mfa.secret) \/ Overtaken]_vars
SecondFactorStands == []ConfirmedWasProven /\ ConfirmedStays
=============================================================================
