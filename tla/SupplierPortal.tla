--------------------------- MODULE SupplierPortal ---------------------------
(***************************************************************************)
(* One supplier of an organisation: its contacts, the questionnaires it is *)
(* sent and answers in the portal, the evidence it refers to, and the      *)
(* passport computed from them (apps/api/src/modules/suppliers,            *)
(* supplier-portal.service.ts and packages/db/src/supplier.ts).            *)
(* A request is a READ COMMITTED transaction: it reads in one step and     *)
(* commits in another.  What follows an audit entry in a transaction runs  *)
(* under the lock of audit_head and is part of the commit.                 *)
(* X_Fault is the definition X with a plausible bug (see README.md).       *)
(***************************************************************************)
EXTENDS Naturals, Sequences, FiniteSets

CONSTANTS
    Client,             \* people of the organisation and of the supplier
    Request, Contact, Ref,
    Question, Required, \* the questionnaire, and its required questions
    MaxPassports,       \* bound: passport versions
    MaxTime             \* bound: times a submission is stamped with

SupplierAssumption ==
    /\ Required \subseteq Question /\ IsFiniteSet(Question) /\ Question # {}
    /\ MaxPassports \in Nat /\ MaxTime \in Nat

VARIABLES
    supplier,  \* its status, absent before it is created; the rest of its profile
               \* is copied into passports and decides nothing
    contacts,  \* [Contact -> absent, plain or primary]
    request,   \* [Request -> [status, answers, at]]; at is submittedAt
    refs,      \* [Ref -> absent, open or promoted]
    records,   \* evidence records created from each reference
    passports, \* passport rows, oldest first
    tx,        \* the open transaction of each client
    outdated   \* history: what was decided from a read no longer true

vars == <<supplier, contacts, request, refs, records, passports, tx, outdated>>

Answer == {"valid", "invalid"}   \* what is filled in; "blank" otherwise
Open == {"draft", "sent", "in_progress"}
Locked == {"submitted", "accepted"}
NoRequest == [status |-> "none", answers |-> [q \in Question |-> "blank"], at |-> 0]
NoTx == [op |-> "none"]

Init ==
    /\ supplier \in {"absent", "active"}
    /\ contacts = [e \in Contact |-> "absent"]
    /\ request = [r \in Request |-> NoRequest]
    /\ refs = [e \in Ref |-> "absent"]
    /\ records = [e \in Ref |-> 0]
    /\ passports = <<>>
    /\ tx = [c \in Client |-> NoTx]
    /\ outdated = {}

Exists == supplier # "absent"
Begins(c, t) ==
    /\ tx[c] = NoTx
    /\ Exists
    /\ tx' = [tx EXCEPT ![c] = t]
Ends(c) == tx' = [tx EXCEPT ![c] = NoTx]
Notes(what, is) == outdated' = outdated \cup IF is THEN {what} ELSE {}

-----------------------------------------------------------------------------
(* The questionnaire (packages/domain/src/supplier/questionnaire.ts): an    *)
(* answer of the wrong kind or out of range is invalid.                     *)
Issues(a) ==
    {q \in Question : a[q] = "invalid" \/ (a[q] = "blank" /\ q \in Required)}

Completeness(a) ==
    (100 * Cardinality({q \in Question : a[q] # "blank"})) \div Cardinality(Question)

(* The answers are replaced, not merged; a key that is no question's is     *)
(* dropped.                                                                 *)
PickKnown(input) ==
    [q \in Question |-> IF q \in DOMAIN input THEN input[q] ELSE "blank"]

-----------------------------------------------------------------------------
(* The supplier and its contacts.  Of the contacts a supplier is created    *)
(* with, the first that is flagged stays primary.                           *)
DedupePrimary(list) ==
    [i \in DOMAIN list |->
        [list[i] EXCEPT !.primary = @ /\ \A j \in 1 .. i - 1 : ~list[j].primary]]

Lists ==
    {<<>>} \cup {l \in [1 .. 2 -> [email : Contact, primary : BOOLEAN]] :
                    l[1].email # l[2].email}

CreateSupplier(c, list) ==
    LET l == DedupePrimary(list)
        Flags(e) == {l[i].primary : i \in {j \in DOMAIN l : l[j].email = e}}
    IN  /\ tx[c] = NoTx
        /\ ~Exists
        /\ supplier' = "active"
        /\ contacts' = [e \in Contact |->
                CASE TRUE \in Flags(e) -> "primary"
                  [] Flags(e) = {FALSE} -> "plain"
                  [] OTHER -> "absent"]
        /\ UNCHANGED <<request, refs, records, passports, tx, outdated>>

SetArchived(c, archived) ==
    /\ tx[c] = NoTx
    /\ Exists
    /\ supplier' = IF archived THEN "archived" ELSE "active"
    /\ UNCHANGED <<contacts, request, refs, records, passports, tx, outdated>>

Known == {e \in Contact : contacts[e] # "absent"}

(* addContact: a new primary contact demotes those the transaction sees.    *)
BeginAddContact(c, e, primary) ==
    /\ e \notin Known
    /\ Begins(c, [op |-> "contact", email |-> e, primary |-> primary, seen |-> Known])
    /\ UNCHANGED <<supplier, contacts, request, refs, records, passports, outdated>>

CommitAddContact(c) ==
    LET t == tx[c]
    IN  /\ t.op = "contact"
        /\ t.email \notin Known
        /\ contacts' = [e \in Contact |->
                IF e = t.email THEN IF t.primary THEN "primary" ELSE "plain"
                ELSE IF t.primary /\ e \in t.seen THEN "plain"
                ELSE contacts[e]]
        /\ Notes("contacts", t.seen # Known)
        /\ Ends(c)
        /\ UNCHANGED <<supplier, request, refs, records, passports>>

-----------------------------------------------------------------------------
(* The passport shows the latest submission, by submittedAt.                *)
Latest(rows) ==
    LET sub == {r \in Request : rows[r].status \in Locked /\ rows[r].at # 0}
    IN  {r \in sub : \A s \in sub : rows[s].at <= rows[r].at}

BuildPassport(rows) ==
    [submission |-> {rows[r].answers : r \in Latest(rows)},
     completeness |->
        IF Latest(rows) = {} THEN 0
        ELSE Completeness(rows[CHOOSE r \in Latest(rows) : TRUE].answers)]

Newest == IF passports = <<>> THEN 0 ELSE passports[Len(passports)].version
Issue(data, last) ==
    passports' = Append(passports, [version |-> last + 1, before |-> last, data |-> data])

(* The explicit recomputation has written no audit entry yet: what it has   *)
(* read may be out of date when it inserts, and its version may be taken.   *)
BeginRecompute(c) ==
    /\ Begins(c, [op |-> "build", data |-> BuildPassport(request)])
    /\ UNCHANGED <<supplier, contacts, request, refs, records, passports, outdated>>

ReadVersion(c) ==
    /\ tx[c].op = "build"
    /\ tx' = [tx EXCEPT ![c] = [op |-> "issue", data |-> tx[c].data, last |-> Newest]]
    /\ UNCHANGED <<supplier, contacts, request, refs, records, passports, outdated>>

VersionIsFree(last) == last = Newest
CommitRecompute(c) ==
    LET t == tx[c]
    IN  /\ t.op = "issue"
        /\ Len(passports) < MaxPassports
        /\ VersionIsFree(t.last)
        /\ Issue(t.data, t.last)
        /\ Notes("passport", t.data.submission # BuildPassport(request).submission)
        /\ Ends(c)
        /\ UNCHANGED <<supplier, contacts, request, refs, records>>

-----------------------------------------------------------------------------
(* Questionnaires.                                                          *)
OpenRequests == {r \in Request : request[r].status \in Open}

BeginCreate(c) ==
    /\ OpenRequests = {}
    /\ Begins(c, [op |-> "create"])
    /\ UNCHANGED <<supplier, contacts, request, refs, records, passports, outdated>>

CommitCreate(c, r) ==
    /\ tx[c].op = "create"
    /\ request[r].status = "none"
    /\ request' = [request EXCEPT ![r].status = "sent"]
    /\ Notes("open", OpenRequests # {})
    /\ Ends(c)
    /\ UNCHANGED <<supplier, contacts, refs, records, passports>>

Row(r) == <<request[r].status, request[r].answers>>
Unlocked(r) == request[r].status \notin Locked \cup {"none"}
BeginSave_Accepted(c, r) ==
    /\ request[r].status \in Open \cup {"submitted"}
    /\ Begins(c, [op |-> "save", req |-> r, row |-> Row(r)])
    /\ UNCHANGED <<supplier, contacts, request, refs, records, passports, outdated>>
BeginSave(c, r) ==
    /\ Unlocked(r)
    /\ Begins(c, [op |-> "save", req |-> r, row |-> Row(r)])
    /\ UNCHANGED <<supplier, contacts, request, refs, records, passports, outdated>>

(* The status is written as read, whatever it has become.                   *)
CommitSave(c, input) ==
    LET t == tx[c]
    IN  /\ t.op = "save"
        /\ request' = [request EXCEPT
                ![t.req].answers = PickKnown(input),
                ![t.req].status = IF t.row[1] = "sent" THEN "in_progress" ELSE t.row[1]]
        /\ Notes("request", t.row # Row(t.req))
        /\ Ends(c)
        /\ UNCHANGED <<supplier, contacts, refs, records, passports>>

(* submit validates the answers it has read and takes the time, which is    *)
(* later than any taken before.                                             *)
Taken == {0} \cup {request[r].at : r \in Request}
             \cup {tx[c].at : c \in {d \in Client : tx[d].op = "submit"}}
Now(t) == t - 1 \in Taken /\ \A u \in Taken : u < t
BeginSubmit(c, r) ==
    /\ Unlocked(r)
    /\ Issues(request[r].answers) = {}
    /\ \E t \in 1 .. MaxTime :
         Now(t) /\ Begins(c, [op |-> "submit", req |-> r, row |-> Row(r), at |-> t])
    /\ UNCHANGED <<supplier, contacts, request, refs, records, passports, outdated>>

CommitSubmit(c) ==
    LET t == tx[c]
    IN  /\ t.op = "submit"
        /\ Len(passports) < MaxPassports
        /\ request' = [request EXCEPT ![t.req].status = "submitted", ![t.req].at = t.at]
        /\ Issue(BuildPassport(request'), Newest)
        /\ Notes("request", t.row # Row(t.req))
        /\ Ends(c)
        /\ UNCHANGED <<supplier, contacts, refs, records>>

BeginAccept(c, r) ==
    /\ request[r].status = "submitted"
    /\ Begins(c, [op |-> "accept", req |-> r, row |-> Row(r)])
    /\ UNCHANGED <<supplier, contacts, request, refs, records, passports, outdated>>

CommitAccept(c) ==
    LET t == tx[c]
    IN  /\ t.op = "accept"
        /\ Len(passports) < MaxPassports
        /\ request' = [request EXCEPT ![t.req].status = "accepted"]
        /\ Issue(BuildPassport(request'), Newest)
        /\ Notes("request", t.row # Row(t.req))
        /\ Ends(c)
        /\ UNCHANGED <<supplier, contacts, refs, records>>

-----------------------------------------------------------------------------
(* Evidence references, and their promotion to the evidence register.       *)
AddEvidence(c, e) ==
    /\ tx[c] = NoTx
    /\ Exists
    /\ refs[e] = "absent"
    /\ refs' = [refs EXCEPT ![e] = "open"]
    /\ UNCHANGED <<supplier, contacts, request, records, passports, tx, outdated>>

BeginPromote(c, e) ==
    /\ refs[e] = "open"
    /\ Begins(c, [op |-> "promote", ref |-> e])
    /\ UNCHANGED <<supplier, contacts, request, refs, records, passports, outdated>>

CommitPromote(c) ==
    LET e == tx[c].ref
    IN  /\ tx[c].op = "promote"
        /\ records' = [records EXCEPT ![e] = @ + 1]
        /\ refs' = [refs EXCEPT ![e] = "promoted"]
        /\ Notes("refs", refs[e] = "promoted")
        /\ Ends(c)
        /\ UNCHANGED <<supplier, contacts, request, passports>>

(* A unique index refuses the row, the transaction loses a deadlock (the    *)
(* version's index entry against audit_head) or its connection.             *)
Abort(c) ==
    /\ tx[c] # NoTx
    /\ Ends(c)
    /\ UNCHANGED <<supplier, contacts, request, refs, records, passports, outdated>>

(* The register of the supplier, and its questionnaires.                    *)
RegisterNext ==
    \E c \in Client :
      \/ \E list \in Lists : CreateSupplier(c, list)
      \/ \E archived \in BOOLEAN : SetArchived(c, archived)
      \/ \E e \in Contact, primary \in BOOLEAN : BeginAddContact(c, e, primary)
      \/ CommitAddContact(c)
      \/ \E e \in Ref : AddEvidence(c, e) \/ BeginPromote(c, e)
      \/ CommitPromote(c)
      \/ Abort(c)

(* What the buyer does about a questionnaire.                               *)
BuyerNext(c) ==
    \/ BeginCreate(c)
    \/ \E r \in Request : CommitCreate(c, r) \/ BeginAccept(c, r)
    \/ CommitAccept(c)
QuestionnaireNext ==
    \E c \in Client :
      \/ BuyerNext(c)
      \/ \E r \in Request : BeginSave(c, r) \/ BeginSubmit(c, r)
      \/ \E input \in [Question -> Answer] : CommitSave(c, input)
      \/ CommitSubmit(c)
      \/ BeginRecompute(c) \/ ReadVersion(c) \/ CommitRecompute(c)
      \/ Abort(c)

Next == RegisterNext \/ QuestionnaireNext

Spec == Init /\ [][Next]_vars

-----------------------------------------------------------------------------
(* What the checks promise, unless one was made on an outdated read: one    *)
(* open questionnaire, submitted answers are complete and valid, the newest *)
(* passport shows the latest submission, one primary contact, one evidence  *)
(* record per reference.                                                    *)
Consistent ==
    /\ outdated \cap {"open", "request"} = {} => Cardinality(OpenRequests) <= 1
    /\ "request" \notin outdated =>
        \A r \in Request : request[r].status \in Locked =>
            request[r].at # 0 /\ Issues(request[r].answers) = {}
    /\ outdated \cap {"request", "passport"} = {} =>
        \A r \in Latest(request) :
            passports # <<>>
            /\ passports[Len(passports)].data.submission = {request[r].answers}
    /\ "contacts" \notin outdated =>
        Cardinality({e \in Contact : contacts[e] = "primary"}) <= 1
    /\ \A e \in Ref :
        /\ (records[e] > 0) <=> (refs[e] = "promoted")
        /\ "refs" \notin outdated => records[e] <= 1

(* A step of a transaction whose read of the questionnaire is out of date.  *)
OutdatedStep(r) ==
    \E c \in Client :
        /\ tx[c].op \in {"save", "submit", "accept"}
        /\ tx[c].req = r
        /\ tx[c].row # Row(r)
        /\ tx'[c] = NoTx

(* What has been submitted stays as it is, but for its acceptance, unless a *)
(* transaction had read the questionnaire before it was submitted.          *)
SubmissionStands ==
    \A r \in Request :
        \/ request[r].status \notin Locked
        \/ request'[r] = request[r]
        \/ request'[r] = [request[r] EXCEPT !.status = "accepted"]
        \/ OutdatedStep(r)

(* Passports are the versions of one chain, whatever recomputations race.   *)
Chain == INSTANCE VersionChain WITH
    Subject <- {"passport"},
    chain <- [s \in {"passport"} |->
        [i \in DOMAIN passports |->
            [version |-> passports[i].version, supersedes |-> passports[i].before]]]
=============================================================================
