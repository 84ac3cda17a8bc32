# TRACE: verification models

TLA+ models of the server side of TRACE, checked with TLC, and proofs about
them checked with the TLA+ proof system. File names are relative to `src/`;
`db/` stands for `packages/db/src/`, `domain/` for `packages/domain/src/`,
`api/` for `apps/api/src/`.

## 1. The system

TRACE is a multi-tenant application for carbon data and its evidence. Its
server side is two kinds of process over one Postgres database:

* **API** (`apps/api`, NestJS): a request runs in `withOrgContext`
  (`db/client.ts:55`), one interactive transaction with the tenant's id set for
  row level security. The isolation is Postgres' default, READ COMMITTED, and
  the transaction's time limit Prisma's default, 5 s. Most of the business
  logic is in `packages/db`, called with that transaction. Signing in uses the
  plain client, each call a transaction of its own.
* **Worker** (`apps/worker`): timers (webhook dispatch, audit streaming, usage
  roll-forward, retention, benchmarks) and a queue (document processing). A
  timer does not start a second pass while one is under way in the process.

Besides the database there are an object store (`packages/storage`), the model
provider (`packages/ai`), identity providers, receivers of webhooks and audit
streams, and the payment provider. None of these takes part in a transaction.
That, and the prevailing pattern "read, check, then update by id" under READ
COMMITTED, is where this code is hard: what was checked may no longer be true
when it is used, and what was done outside is not undone by a rollback. The
second difficulty is derived data: scores, statuses, roll-ups, filings and
footprints are computed from rows that others edit, by rules that several
places implement each in its own way.

### Components

| Component | State | Operations | Talks to | Hard because | Correct when |
|---|---|---|---|---|---|
| Audit log `db/audit.ts` | `audit_log`, `audit_head` | append in the caller's transaction, verify, export, fan out to webhooks | every writer; webhooks; streams | concurrent appends, lock order, skewed clocks, rollback | one linear chain; all or nothing; tampering is located |
| Audit streams `db/audit-stream.ts` | `audit_stream` (cursor, failures), `audit_stream_delivery` | create, edit, delete, test, dispatch pass | audit log (reads), SIEM endpoint | posts inside a 5 s transaction; retries beside new windows | no gap, no back-fill, every entry handled |
| Webhooks `db/access.ts` | `webhook_endpoint`, `webhook_delivery` | edit, delete, retry, dispatch pass | audit log (fan-out), retention, receivers | read, post, write with no transaction around them | retries end, failing endpoints are cut off, successes are real and final |
| Evidence `db/evidence.ts` | `evidence`, `evidence_verification` | create, transition, supersede | documents, extraction | check and update are separate | lifecycle, verdicts by permitted users, one version chain |
| Documents `api/modules/documents` | `document`, stored objects | upload, remove, link evidence | object store, evidence | two stores; count-then-delete | object for each document, no dangling reference |
| Extraction `db/ai-pipeline.ts` | `document_extraction`, `candidate_datapoint`, `ai_job`, `datapoint` | run, re-run, promote, reject | model provider, evidence | re-run against review, failing calls | what is shown is the current run's; reviews are final |
| Suppliers, portal `api/modules/suppliers`, `supplier-portal` | contacts, questionnaires, evidence references, passports | register, request, answer, submit, accept, promote | evidence, trust | drafts saved over submissions; look-then-create | submissions stand; passports form a chain |
| Imports `db/integrations.ts` | `import_connector`, `import_run`, activities | connect, map, commit | carbon | one bad row in a shared transaction | all or nothing, honest counts |
| Metering `db/metering.ts` | `subscription`, `usage_counter` | check quota, record, warn, roll the month, set plan | every request, billing | check before, record after the response | charged once, warned once, refused only at quota |
| Billing `db/billing.ts` | `billing_config`, `billing_event`, `billing_checkout` | start and expire checkouts, handle events | payment provider, metering | replays, concurrency, order of arrival | each event once; subscription follows the provider |
| Retention `db/governance.ts` | `retention_policy`, `retention_run`, the legal hold | edit policies, run | rows of five targets | runs overlap with each other, with edits and with the hold | floor respected, deletions accounted for, hold respected |
| Exports `db/governance.ts` | `export_job`, bundles | run, list, download | object store, retention | failure half way | ready means downloadable, for the TTL |
| Members, SCIM `api/modules/members`, `db/scim.ts` | memberships, roles, invitations, SCIM users and groups | invite, assign, provision, reconcile, page | sign-in | last administrator by a count; reconciler on old reads | an administrator remains; SCIM decides its roles and no others |
| Sign-in, MFA, federation `db/mfa.ts`, `sso.ts`, `saml.ts` | tickets, sessions, secrets, codes, login requests, links | issue, consume, enrol, challenge, admit | identity providers | single use by check-then-mark | each token once, second factors stay |
| Access `api/common` | memberships, roles, API keys | resolve the actor, check, act | everything | the guard's reads are separate, the handler is later | acts only where and as entitled |
| Trust, issues, anomalies `db/trust.ts`, `domain/trust` | scores, issues, anomalies | score, scan, triage | datapoints, evidence | scans against people; numeric edges | one current score, decisions stand, rules agree |
| Audit workspace `db/audit-workspace.ts` | findings, engagements, packages | simulate, triage, package | trust, compliance, audit log | simulations against people; reads of several moments | decisions stand, one state of the trail |
| Compliance, filings `db/compliance.ts`, `filing.ts` | mappings, disclosure statuses, controls, filings | evaluate, confirm, file | datapoints, evidence | roll-ups of rows in motion; version from a read | statuses follow mappings, filings form chains |
| Reports `db/compliance.ts`, `audit-workspace.ts`, `command-center.ts` | none of their own | overview, readiness, review list, filing body | all of the above | the same question answered in four places | the answers agree |
| Ask `db/ask.ts` | `ask_query`, `ai_job` | classify, retrieve, answer | model provider | two model calls in a transaction | cites only what was retrieved |
| Carbon `db/carbon.ts`, `domain/carbon` | activities, factors, calculations, emission rows | run, recompute, approve, delete, roll up | trust, procurement, network | recomputation moves rows others read | results reproduce, rows add up |
| Network, benchmark `db/network.ts`, `benchmark.ts` | links, snapshots, scenarios, buckets | compute, project, refresh | carbon, suppliers | cycles, diamonds, depth; opting out meanwhile | each party once; anonymous |
| Footprints `db/pcf.ts` | products, bills of materials, records | edit, compute | carbon | recursion over records of other moments | the hierarchy rolled up |
| Procurement `db/procurement.ts` | scenarios | compare, project | carbon, suppliers | rounding, medians, caps | fair ranking, totals add up |

`PROJECT.json` lists every component with its files and whether it is modelled,
and under `hazards` each place where the code can go wrong in a way that a test
would hardly reach, with the property that covers it or the reason why none
does.

## 2. Modules

Each module models one component of one organization (tenants share no rows;
`Benchmark` and `Access`, which cross tenants, have several). A transaction
appears as a record of what it has read and not yet committed; its statements
are actions, so that other transactions fall between them. What nobody can
observe between two statements is one action. A disjunct `AdministratorNext`,
`SettingsNext`, `FilingNext` and the like holds the actions that requests to one
controller take; its requests that only read are left out.

Components with runs of their own:

| Module | Models | State and actions against the code |
|---|---|---|
| `AuditLog` | `db/audit.ts`, `domain/audit/hash-chain.ts` | `tx` holds the uncommitted rows, `holder` the row locks. `Request` is a statement that starts to wait for a lock, `WriteAuditLog` the whole of `writeAuditLog` once it has the head (with `fanOutWebhookDeliveries`), `WriteEndpoint` another row the transaction writes, `Commit`, `Abort`. A deadlock is broken by Postgres (external). `VerifyChain` is the verification algorithm. |
| `AuditStream` | `db/audit-stream.ts` | `pass` is the copy of rows that one dispatch pass reads and writes; `TakeStream` goes to the next stream's post (a due retry first, otherwise the next window, skipping windows with no match), `Answer` handles the result, `CommitPass` ends the transaction. `SlowAnswer`, `StreamGone`, `Crash` roll it back after the endpoint may have taken the entries. An entry is its kind; filters are sets of kinds, edited at any time. |
| `WebhookDispatch` | webhook half of `db/access.ts` | `pass` has the batch of rows as read; `ReadEndpoint`, `Post`, `Persist` are the three steps of a delivery. Administrators edit, delete and retry (`ReadForRetry` and `RetryWebhookDelivery` are the two statements of a retry) between them. |
| `VersionChain` | tables with `version` and `supersedes_id` | The abstract specification of versioned records, implemented by filings, graph snapshots, footprints and passports. |
| `AuditLogProofs`, `AuditStreamProofs`, `WebhookDispatchProofs`, `IntakeProofs`, `AssuranceProofs`, `CommerceProofs`, `GovernanceProofs`, `IdentityProofs` | | The proofs, section 4. |

`Intake`, where data comes in:

| Module | Models | State and actions against the code |
|---|---|---|
| `Documents` | `documents.service.ts` with the store | Upload: look for a duplicate (by content and raw name), `PutObject` (under `KeyOf`, the key of the sanitised name, which files may share), `InsertDocument`. Remove: in-use check, `DeleteObject` (a history variable `taken` keeps the keys it took from another document), `DeleteDocument`. Evidence: look up, insert. `Fail` at any point undoes the rows and not the objects. |
| `EvidenceStates` | `domain/evidence/lifecycle.ts` | The abstract specification: what the register promises, each change in one step. |
| `EvidenceLifecycle` | `db/evidence.ts`, `evidence.service.ts` | Each client's transaction: `ReadForTransition`/`ReadForSupersede` (read and check), then `TransitionEvidence`/`SupersedeEvidence` (write). |
| `Extraction` | `db/ai-pipeline.ts` | A run holds the lock of the extraction row from `BeginRun` to its end; a review is `BeginReview` (read and check) and `PromoteCandidate` or `RejectCandidate`. |
| `SupplierPortal` | suppliers and supplier-portal modules, `db/supplier.ts` | Contacts, promotion and archiving (`RegisterNext`); requests, drafts, submission, acceptance, passports (`QuestionnaireNext`). A transaction `tx` reads in one step and commits in another. |
| `ActivityImport` | `db/integrations.ts`, `domain/integrations` | A file is a sequence of lines of cells; header matching, defaults, validation, preview and commit. A commit is one transaction, so one action. |

`Commerce`, the plan and its limits:

| Module | Models | State and actions against the code |
|---|---|---|
| `Metering` | `db/metering.ts`, the quota guard, the usage interceptor | Each request: arrive (its clock), roll the period forward, check, respond, record (or lose the record), record `api_request`. |
| `Billing` | `db/billing.ts` | The provider's events are a sequence delivered in any order, any number of times, to several handlers; `ReadConfig`, `CheckSeen`, `Apply` are the handler's statements. |

`Governance`, rows that go and rights that change:

| Module | Models | State and actions against the code |
|---|---|---|
| `Retention` | retention half of `db/governance.ts` | A run: `BeginRun` (clock and hold), `ReadPolicies`, then per target `CountRows`, `DeleteRows`, `RecordRun`, and `CommitRun`. |
| `DataExport` | export half of `db/governance.ts` | An export: `BeginExport`, `ReadSections`, `StoreBundle`, `CommitExport`; `FailExport`; `ListExports`; the retention sweep of finished jobs. |
| `Access` | `auth.guard.ts`, `permissions.guard.ts`, `db/access.ts`, `domain/access/scopes.ts` | A request reads the membership, then the role's permissions, is checked, and acts, each a step; administrators suspend, assign, edit roles, create and revoke keys between them. `CreateOrganization` is the route that declares no permission, for people and keys; an organization exists once it has a membership. |

`Identity`, who is who:

| Module | Models | State and actions against the code |
|---|---|---|
| `Members` | members and roles modules, `auth.service.ts`, `db/scim.ts`, provider sign-in | One record per request of what it has read (`request[c]`), one action for its read and check, one for its write. A SCIM request writes its row and links (`WriteUser`, `WriteGroup`, `WriteDeletion`), which others do not see and wait for, then reads per user the links, the membership and the role rows, one action each (`FindLinks`, `FindMembership`, `FindRoles`); the action that commits gives and takes the roles (`ReconcileMemberRoles`) that follow from what was read. |
| `SignIn` | `auth.service.ts`, `db/mfa.ts`, `sso.ts`, `saml.ts` | Tickets (links and login requests), sessions, the second factor; every statement commits alone, so every one is an action. |
| `ScimDirectory` | `api/modules/scim`, `domain/access/scim.ts` | The resources as the provider sees them: filters, patches, pages, requests that are repeated because the answer was lost. |
| `FederatedLogin` | `db/saml.ts`, `sso.ts`, `domain/access/saml.ts`, `oidc.ts` | From the login request to the membership: answers as records of what they say and of what their signature covers, the checks in the code's order. |

`Assurance`, what is said about the data:

| Module | Models | State and actions against the code |
|---|---|---|
| `QualityScan` | `db/trust.ts` | Scans (read, score, refresh, resolve, commit) against triage. |
| `DataTrust` | `domain/trust` with `anomaly.ts`, `buildTrustInput` | The trust score and the rules of the issues as functions of rows that others change (`Next`); the three detectors of anomalies over a pool of values (`PoolNext`). |
| `AuditWorkspace` | `db/audit-workspace.ts` | Simulations and packages statement by statement, updates of findings, engagements. |
| `ComplianceRules` | `packages/compliance`, `domain/compliance/filing.ts` | The pure rules: resolution of candidates, status, roll-up, classification. |
| `Compliance` | `db/compliance.ts`, `filing.ts` | Evaluations, confirmations and filings that read early and write late. |
| `Reporting` | `domain/audit/readiness.ts`, `domain/compliance/filing.ts`, overview, command centre | Four reports over the same rows. |
| `Ask` | `db/ask.ts`, `packages/ai/.../ask.ts` | Intent, eleven retrievals, answer; the records change between the calls. |

`Carbon`, the numbers:

| Module | Models | State and actions against the code |
|---|---|---|
| `CarbonRules` | `domain/carbon` | Units, the calculation, the selection of a factor, the roll-up, in integers with the code's rounding. |
| `Inventory` | `db/carbon.ts` | Activities, calculations, their datapoints and the emission rows, transactions of two clients. |
| `CarbonTwin` | `domain/network`, `db/network.ts` | The traversal; links, snapshots, traces of nodes and scenarios over it. |
| `Footprints` | `db/pcf.ts`, `domain/network/pcf.ts` | Bills of materials; a computation resolves line by line, while products are edited. |
| `Benchmark` | `db/benchmark.ts`, `domain/network/benchmark.ts` | A refresh lists, reads each organization, writes each bucket, while organizations opt in and out; what an organization is shown of its own standing, whatever was read before the buckets changed. |
| `Procurement` | `db/procurement.ts`, `domain/procurement` | Comparison in two reads; scenarios. |

### Compositions

`Intake`, `Commerce`, `Governance`, `Identity`, `Assurance` and `Carbon` run
the modules above side by side. `focus` says which of them a behaviour
exercises; the others stay where they start. Where components meet, the module
that reads lets the other's effect happen at any time: the plan that `Billing`
sets is `Metering`'s `ChangePlan`; the sweep of export jobs is an action of
`DataExport`; provider sign-ins and SCIM calls are actions of `Members`; issues
and scores are `problem` in `AuditWorkspace`; calculations are `emitted`,
`intensity` and `calculated` in `CarbonTwin`, `Footprints` and `Procurement`;
snapshots and footprints are `data` in `Benchmark`. This admits every order in
which the other component could change what is read, and more, so that a
property that holds with it holds of the two together; the product of the
components' own states is neither built nor needed. An invariant of a
composition that begins `CASE focus` states each component's property in the
behaviours that exercise it: in the others that component is in its initial
state.

### Faults

A definition named `X_Fault` is the definition `X` with a plausible bug (a
dropped guard, an off-by-one, a missing undo). No specification uses one. For
every property `PROJECT.json` names such a bug under `mutants`; with it in the
place of `X`, the run finds the property violated.

A variable described as *history* records what happened and is read by
properties only. Among them are the sets that except races from a property
(`raced`, `outdated`, `forked`, `unsettled`, `crossed`, `moved`, `doubled`,
`since`): a step puts an element there when it writes what it had read or
checked before another request changed it, and for no other reason. So each
such property says two things: with requests one at a time it holds, and the
named overlap is the only way to lose it. Section 6 lists what is lost.

### Abstractions

* A hash is the chain it is computed from (SHA-256 is taken as collision free);
  payloads, names and messages are members of small sets. A signature is the key
  that made it and the parts it covers.
* Time is a bounded counter, or a choice (`due` is `now`, `later`, `never`).
  In `AuditLog` each writer's stamp may lag the fastest clock by up to `Skew`.
* Decimals are integers in the last decimal the code keeps, rounded where it
  rounds: a result to six decimals, an emission row and each figure of a summary to four.
* `AuditStream` takes one order for commit and `created_at`. `AuditLog` shows
  that they may differ; the hazard list names what follows for a cursor.
* In `Metering` `recordApiRequest` comes after `recordUsage`; the code starts
  both at once, and they touch no common row.
* `Access` has three classes of permission (to read, to write, to administer)
  instead of the catalog, and three of the eight built-in roles.
* Evidence of suppliers counts as evidence in `Documents`.
* Deadlock checking is off in every run: each has bounds (and one-use requests)
  at which the modelled system stops. That transactions do not wait for each
  other for ever is `EveryTxnEnds`.

## 3. Runs

| Run | Question it answers |
|---|---|
| `AuditLog` | Do two transactions that append up to two entries each, also change an endpoint's row, commit, abort and deadlock in any order, leave one chain (`ChainLinear`), each with all of its entries and deliveries or none, adjacent (`AllOrNothing`)? Is an untouched log with increasing stamps accepted and any altered row located (`VerificationIsSound`)? Does every transaction end (`EveryTxnEnds`)? |
| `AuditStream` | For one stream under edits of its status and filters, deletion, test sends, every answer and crashes: is every entry behind the cursor that its filters never excluded sent or accounted for by a dead delivery, and none sent from before the stream or that they always excluded (`NoSilentGap`), every retry scheduled and a failing stream paused (`Consistent`), and every entry handled in the end (`EntriesEventuallyHandled`)? |
| `AuditStream_cursor` | A disagreement with the documentation: see section 6. |
| `WebhookDispatch` | Between read, post and write anything may happen to the rows: are the dispatcher's copies still true when used and does a retryable delivery always have a date (`Consistent`), is a failing endpoint disabled in time (`FailingEndpointIsDisabled`), are successes real and final (`SuccessIsFinal`), does each delivery settle (`EveryDeliverySettles`)? |
| `Intake` | Documents: a document has its object unless it was deleted for another with the same storage key (`DocumentHasObject`); one document per file and none removed while in use, unless raced (`ChecksHoldUnlessRaced`). Evidence, with two racing clients: nothing is verified that was not reviewed (`VerifiedWasReviewed`), each verdict has its record by a permitted user (`VerdictOnRecord`), and every step that is not a write on an outdated read is one of `EvidenceStates` (`ImplementsStatesUnlessStale`). Extraction: what awaits review is the current run's, counted exactly (`ReviewListIsCurrent`); a review is final unless another reviewer had read the candidate before (`ReviewIsFinal`). Suppliers: one open questionnaire, one primary contact, one record per reference (`ChecksHoldUnlessRaced`); what was submitted stands, and passports implement `VersionChain` (`SubmissionsStand`). Imports: all or nothing (`Consistent`). |
| `Commerce` | Three requests over two months, a plan change, lost records: charged once, warned once (`Consistent`), refused only at quota, and held to it when checks do not overlap (`QuotaIsKept`). Replays, duplicates handled at the same time, failures, configuration edits: each event applied once (`Consistent`), checkouts final (`CheckoutIsFinal`), the subscription the provider's when events were applied in order (`FollowsInOrder`). |
| `Governance` | Two overlapping sweeps, edits, the hold: no row counted twice or not at all, none in a dry run (`Consistent`), none under its floor, under a hold only by a run already under way (`LimitsHold`). A ready export has its bundle (`Consistent`) and keeps it for the TTL (`AvailableForTtl`). A request does only what its actor was entitled to there since it began (`Consistent`); a key administers no organization that exists, though it may found one for its creator (`LimitsHold`). |
| `Identity` | An administrator remains (`AdministratorRemains`), SCIM decides its roles and no others, and repeating a call adds nothing (`ScimKeepsToItsRoles`), answered invitations stay answered (`InvitationsHold`); a ticket opens one session, a code serves once, an answer admits once (`SingleUse`), a factor in force stays (`SecondFactorStands`); pages are complete, nobody enters by a provider not in force (`Consistent`). |
| `Identity_links` | A disagreement with the documentation: see section 6. |
| `Assurance` | Scans, simulations and evaluations against people: what is derived agrees with its sources (`ViewsAgree`), decisions stand and scans do their work (`DecisionsStand`), scores, anomalies, answers and reports are calculated from what they cite and agree with each other (`FiguresHold`), filings implement `VersionChain` (`FilingsFormChains`). |
| `Carbon` | Calculations reproduce, rows, snapshots and footprints add up, each source once, traces of nodes are shortest, nothing below the threshold is published or shown, comparisons are fair (`CarbonAddsUp`); snapshots and footprints implement `VersionChain`, and a roll-up leaves rows of all it read, as far from the summary as their rounding takes them (`CarbonSteps`). |
| `Carbon_datapoints` | A disagreement with the documentation: see section 6. |

A composition's property is the conjunction of its components', each named and
explained in the component's module. `Consistent` is a module's type invariant
together with the constraints between its rows.

### Bounds, and why they are enough

Each interesting case needs two actors and one repetition; the bounds allow at
least that, and every action occurs in the passing runs.

* `AuditLog`: two transactions of two appends give a fork, an interleaved
  append and a lock cycle; three milliseconds and a skew of one give ties and
  stamps that go back.
* `AuditStream`: with one stream, four entries and batches of one let a window
  that matches nothing stand before one that does; three attempts (one of them
  delayed) and a threshold of four reach the dead and the paused state. Two kinds of
  entries and filters that let through one, the other or both let an edit exclude or
  admit what a failed delivery held.
  `AuditStream_cursor` has batches of two, whose windows overlap and end before
  the log does. `MaxDeliveries` caps the deliveries that may still be retried;
  those that succeeded or are dead leave `dels`, so that windows after a dead one
  are reached. At the cap a pass waits until a retry is due.
* `WebhookDispatch`: two deliveries share an endpoint and a batch; two
  administrators can retry the same row, and three retries in all let one be
  overtaken by another (`overtaken`); `MaxEdits` is for edits, deletions and sweeps
  together.
* `Intake`: two files with one storage key, three document ids (one re-upload after a removal), two
  clients, one evidence row; in the register two records and two clients (one a
  verifier), which give forks and out-of-date writes in every state; two pipeline runs, three candidates, `MaxFound` per
  run, three reviews; two questionnaires of one question, three contacts, two
  passports, two stamps; files of up to two lines over two fields, one recorded
  run.
* `Commerce`: quotas 1 and 2 (0 is unlimited) for three requests: usage can
  reach, pass and overshoot each quota; two months. Two provider events (any two
  of their types), two checkouts, one edit.
* `Governance`: two rows, two targets, two runs, three days, two edits; two jobs,
  a clock that passes both TTL and floor; two persons and a key in two
  organizations, two requests, two changes.
* `Identity`: two users, two requests at a time, three in all, an invitation and
  two groups, mapped to one role in one of the configurations; the organization has
  administrators only, or one of the three requests (all SCIM calls taken as one) has
  put the others into both groups, so that two requests remain to be interleaved; two requests with one link, one login request and one recovery code;
  directory of two users and a group, three calls, pages of one user; two tabs
  and one subject, an answer that may come again, one change of configuration,
  answers that live for one tick (`Ttl` 1, `Skew` 0: the boundary is hit).
* `Assurance`: two datapoints in two periods, two scanners, three requests;
  evaluations, confirmations and filings of two periods with three requests, which allow
  an evaluation and two requests that race on what it wrote (the proofs cover any number);
  three questions, with `MaxRecords` 2
  for 40 so that the cap cuts; two datapoints and one evidence row for the trust
  rules, three years; seven cells and three values for the detectors (the cap on
  findings is not reached); three changes before each
  report.
* `Carbon`: two activities of one scope, one of them with a category or still to
  be entered, two factors, four requests of two clients, so that there are two
  groups and results of which the fourth decimal is rounded either way; four
  suppliers in a chain, a cycle, a diamond or parallel links, with
  `MaxGraphDepth` 1 for 8 so that the limit is exceeded; three products in three
  levels and four calls, in which a cycle can be closed; three organizations with
  `KAnon` 2 for 5; three suppliers, proposals beyond the cap, and three calls
  (`Fine` 4, `Scale` 6: four engine units in one of the aggregate, so that
  rounding happens both ways).

Symmetry is used only in runs without liveness properties, for sets whose
members are never compared with an order or named. In `Identity` users change places
together with sessions, and groups with tabs: no behaviour has to do with both.

### Fairness

* `AuditLog`: a statement whose lock is free is executed, a transaction that
  can commit again and again does (the 5 s limit ends one that does not), and
  Postgres breaks a deadlock (`deadlock_timeout`).
* `AuditStream`, `WebhookDispatch`: the worker's interval (`worker/main.ts`)
  starts passes for ever, a started pass goes on (posts time out after 10 s):
  weak fairness of the dispatch step as a whole, not of its outcomes. Backoffs
  run out. No fairness is assumed of endpoints, administrators, or of the worker
  staying alive: `EveryDeliverySettles` excepts a worker that crashes again and
  again, `EntriesEventuallyHandled` that and posts that outlive the transaction
  again and again.
* The other modules state no liveness: their operations happen when somebody
  calls them, and a request that fails is not retried by the server.

## 4. Proofs

What TLC checks for two transactions or two clients is proved for any number, from
the assumptions the modules declare. An invariant is proved as `Init => Inv` and
`Inv /\ [Next]_vars => Inv'`, one step per action; where the property a run checks is
not inductive, the text says what had to be added. Where a history variable says
that requests overlapped (`raced`, `moved`, `slack`, `overtaken` and the like), the
theorem says "unless" about the same step as the run does.

`AuditLogProofs`, for any `Txn`, `Endpoint`, `Id`, any bounds and skew:

* `TypeCorrect`: `Spec => []TypeOK`.
* `ChainAlwaysLinear`: `Commit` appends whatever rows the transaction holds, so
  `ChainInv` adds `OpenChain`: the rows that the holder of the head's lock has written
  continue the *committed* head, and a transaction that does not hold it has none. As
  no other transaction can commit rows while the lock is held, the committed head
  stays put under an open chain; `ChainsJoin` (two chains that meet are one) and
  `ChainGrows` (one more entry) do the rest.
* `CommitsAsAWhole` (`AllOrNothing`): `AllInv` adds `Own`: what a transaction has not
  committed is its own, and every delivery it has queued is for one of those rows.
* `VerifiesSoundly` (`VerificationIsSound`) follows from the linear chain for logs of
  every length: with increasing stamps the exported order is the log's order, and
  every row before the altered one passes. The row the verification names is the
  least that fails; `LeastOf`, from the well-foundedness of the naturals, finds it.

`AuditStreamProofs`, for any streams, log, `BatchSize` and thresholds:

* `NeverAGap` (`NoSilentGap`). The cursor may move backwards (section 6), so it does
  not say what is behind it. `StreamInv` says instead that *every* delivery, not the
  cursor alone, starts where all entries up to its start that were never excluded were handed
  over or are dead, and ends inside the window a retry reads from there; that the pass's copies
  are the rows it took, extended (`HeldSound`); that a post in flight is the
  delivery it will write (`SoundPost`); and that the filters in use, those a pass has
  read included, admit what the histories say (`Filtered`). `SoundGrows` carries this
  through an append and an edit of the filters.
* `StreamsConsistent` (`Consistent`): `SteadyInv` holds of the committed rows and of the
  copies of a pass that has not committed.

`WebhookDispatchProofs`, for any endpoints, deliveries, administrators and thresholds,
from one invariant, `DispatchInv`: a delivery in hand is as it was read (`HandSound`);
the streak of failures is at most the counter that was read (`PostSound`), so the
counter reaches the threshold first; a retry that read the row's number of attempts
finds the row failed, or already queued by another retry (`ReadSound`).

* `DecidesFromCurrentRows` (`Consistent`), `FailingIsCutOff`
  (`FailingEndpointIsDisabled`), `SuccessStays` (`SuccessIsFinal`).

`IntakeProofs`, for any files, documents, records, clients, verifiers, runs, reviewers,
candidates (finitely many), requests, contacts, questions (finitely many, one or more),
fields and connectors. `IntakeInv` is the conjunction of an invariant for each part; a
step of the suite is a step or a stutter of each (`Parts`).

* The register, from `ReviewInv`. `NeverVerifiedUnreviewed` (`VerifiedWasReviewed`): the
  check of a transition holds of what was read, which another client may have changed
  since. The invariant therefore speaks of the past: what a request has read was once
  true (`ReadsArePast`), and being reviewed stays in the past. So outdated writes can
  take a record out of a terminal state but not make an unreviewed one verified.
  `VerdictsAreOnRecord` (`VerdictOnRecord`): the same argument with the rows of
  verdicts, which nothing removes (`ReadsBacked`, `StatesBacked`).
  `RegisterImplementsStatesUnlessStale`: every step is a step of `EvidenceStates`,
  leaves its variables alone, or is a write whose read is out of date; `StaleInv` adds
  that a supersede request read a record nothing had replaced, and that versions do not
  change under a reader. `SerialRegisterImplementsStates`: with one client (a hypothesis
  of the theorem) `Spec` implements `EvidenceStates`; `Fresh` says that a read is still
  true.
* `DocumentsHaveObjects` (`DocumentHasObject`), and the documents' part of `ChecksHold`
  (`ChecksHoldUnlessRaced`), from `DocumentInv`: two requests at work on one file have put
  it among `raced` (`AloneUnlessRaced`), so what an upload found missing is still missing
  when it inserts (`FilesAreNew`) and what a removal found unused is unused
  (`RemovedAreUnused`). Of keys that are not in `taken`, what is about to be inserted
  (`InsertsHaveObjects`) and what is there (`ObjectsAreThere`) has its object, whatever
  races. `KeyOf` is any function from files to keys.
* `ReviewListStaysCurrent` (`ReviewListIsCurrent`) and `ReviewsAreFinal`
  (`ReviewIsFinal`), from `ExtractionInv`: the run that holds the lock of the extraction
  row has deleted exactly what was pending when it took it (`RunsHoldPending`), so no
  candidate of an earlier run is pending when it commits, and what it counts is what it
  added. A reviewer can only have read rows that were committed (`ReadRowsExist`).
* `SubmissionsStay` (`SubmissionsStand`), and the suppliers' part of `ChecksHold`, from
  `SupplierInv`. Times of submission differ (`TimesDiffer`), so a passport answers for
  one submission; its versions are numbered without a gap, so that a new one extends the
  chain of `VersionChain`. "At most one" (open questionnaire, primary contact) is proved
  of pairs and carried to the code's counts.
* `RowsAgree` (`Consistent`): the types, and what relates rows of different tables. An
  import is all or nothing because a run's activities are, one to one, the file's valid
  lines (`AsManyRows`).

`AssuranceProofs`, for any datapoints, scanners, clients, periods, evidence, rules,
disclosures and candidates (finitely many), from `AssuranceInv`, the conjunction of an
invariant for each register. The invariants speak of no bound, and the steps of one part
leave the variables of the others (`QualityMoves`, `WorkspaceMoves`, `ComplianceMoves`,
`TrustMoves`).

* `ViewsAlwaysAgree` (`ViewsAgree`), and `DecisionsAlwaysStand` (`DecisionsStand`), a
  statement of the step:
  * Scores, from `ScoresRight`. A score takes a number above all of its datapoint, those
    of transactions under way included (`NextScoreIsNew`). While no two were under way for
    a datapoint, what one is going to link to is what is current (`Pending`), so its commit
    leaves one current score (`ScoresCommit`).
  * Issues, from `IssuesRight`, and findings, from `WorkspaceRight`. A scan reads and
    writes rows one at a time and commits the lot. `ScanSound` says that of the issues
    nobody else has changed since it began (those not among `since`), everything it
    looked up, wrote or has to resolve is still true of the row: a row it has written is the
    present row refreshed, or was open and is resolved; what it did not find and has not
    resolved is not open. Others' commits only add to `since` (`IssuesChange`). When it
    commits, `ScansDecide` and `DismissedStays` are read off. `RunSound` says the same of
    simulations, with `Packs` for packages: what a package has read of the trail is one
    state of it until it is told of an entry.
  * Mappings, from `MappingsRight`: every row written or about to be is worth its status
    (`Worthy`: complete only with a value, live evidence and enough trust, whatever the
    rule and the candidates, `EvaluationIsSound`), and was confirmed when it was read; a
    row whose confirmation changed in between is `unsettled`. The rows of other
    disclosures do not show in a disclosure's statuses (`StatusesOfTheirOwn`), so a
    confirmation's roll-up is right unless a sibling changed (`crossed`).
* `FilingsAreNumbered`: the filings of a period have the versions 1, 2, 3, ... What a
  client read need not be the last version any more; it was once, so the number it will
  take is at most one more than there are (`ReadsAreOld`), and the unique index then
  leaves it only the next.
* `FilingsImplementChain` (`FilingsFormChains`): so the filings of the periods refine
  `VersionChain`, step by step.
* `ScoresMoveAsTheyShould` (`ScoreIsMonotone` of `DataTrust`) and `ScoresAgreeWithIssues`
  (`EvidenceIsJudgedAlike`), two of the conjuncts of `FiguresHold`, for the rows that
  `Assurance` lets be created and any number of datapoints and pieces of evidence with
  any links; the other conjuncts are model-checked. A score is a sum of seven
  dimensions (`AddsUp`), of which a step moves those of the links (`MoreLinksHelp`), of
  the evidence (`EvidenceFalls`) or of the period (`TimeHelpsNobody`); the rest depends on
  what a row keeps (`FixedStays`). `TrustRight` says that rows have values the dimensions
  know, which recalculations and changes of links leave them.

`CommerceProofs`, for any requests (finitely many), months, plans, events, handlers and checkouts. Both
modules use functions defined by recursion (the sum of the counters, the provider's
subscription after n events). A theorem of induction cannot be cited here, but
`LeastOf` can: a least argument at which two such functions differ is contradicted by
their definitions (`RecursiveAgree`).

* `ChargesAndAppliesOnce` (`Consistent`).
* `QuotaAlwaysKept` (`QuotaIsKept`): `Serial` says that while no check was blind to
  usage under way one request at most is between its check and its record, a month's
  counter is the number of its recorded requests, and there is room for the one under
  way.
* `FollowsTheProvider` (`FollowsInOrder`): `BillingInv` says that the subscription is
  the provider's after as many events as were applied, while they came in order.
* `CheckoutsAreFinal` (`CheckoutIsFinal`).

`GovernanceProofs`, for any rows (finitely many), runs, targets, jobs, people,
organizations and keys:

* `AccountsAndEntitles` (`Consistent`). That the ledger's deletions add up to the rows
  gone is a sum over a set that grows; it is proved as the cardinality of a set of pairs
  (`Weight`). `RetentionInv` ties a run's ledger rows to the rows it has marked
  (`Accounts`), keeps the marks of two runs apart and the targets a run has to do apart
  from those it has done (`Targets`, `Marks`). `Resolved` says of a request that what it
  will be allowed was held in its organization while it was under way.
* `ExportsStayAvailable` (`AvailableForTtl`): from `ExportInv` and the floor of the
  target, which the module assumes to be no less than the time to live, as the code's
  constants are.
* `LimitsAlwaysHold` (`LimitsHold`). A key holds no administrative permission, so of what
  changes keys, roles and memberships only the route without a permission is open to it
  (`KeysOnlyFound`).

`IdentityProofs`, for any users, clients, invitations, tickets, sessions, recovery codes,
tabs, callers and requests, and one enrolment or more; the directory has the suite's two
people, one group and four patches, the provider its two configurations:

* `OneAdministratorRemains` (`AdministratorRemains`): `MembersInv` adds what a request
  that is about to write has checked (`Checked`).
* `InvitationsAreAnsweredOnce` (`InvitationsHold`).
* `EverythingIsUsedOnce` (`SingleUse`), from `SignInInv` and `FederationInv`. Of a ticket
  no two requests used at a time: it is consumed as soon as a request is past it, and
  there is one such request or session (`TicketsInv`). Of recovery codes: those of a row
  as it is, or as a challenge has read it, belong to its secret (`Own`), and one that was
  accepted is no longer among them (`Spent`), but for the secrets that overlapping
  requests wrote. Of login requests: one that was consumed is gone before its answer is
  served, and one callback is past it (`ConsumedOnce`).
* `SecondFactorIsKept` (`SecondFactorStands`), a statement of the state and of the step,
  from the same invariant.
* `ScimStaysWithinItsRoles` (`ScimKeepsToItsRoles`). `ProvisioningInv` adds the shape of
  what a SCIM request carries from its first step (`Provisioning`, `Working`). The links
  it has written and those of others are together the groups it leaves (`LinksAreKeys`);
  so a user for whom everything that was read still holds (`Settled`) has the roles of
  his groups when the request commits, and any other whom it reconciled becomes `drifted`
  (`ReconciliationFollows`). Mapped roles are managed roles (`WantedIsManaged`), so that
  a reconciliation leaves the rest alone, whatever it has read (`HandRoles`). In the directory, `LastIsDone` says
  that the rows show what the last request asked for; that each patch, applied to its own
  result, returns it, is calculated for the suite's patches of one and two operations
  (`UserPatchesRepeat`, `GroupPatchesRepeat`), the fold being unfolded as often.
* `IdentityIsConsistent` (`Consistent`), from `IdentityInv`, the conjunction of the
  invariants of all parts. That pages are complete: a list is ordered by `created`, which
  users may share, so the last place a user can have in it is a cardinality (`Place`);
  places move up only when somebody drops out (`shrunk`), and a page that does not begin
  between users of one moment (`tied`) has everybody whose last place it covers
  (`PagesCover`); `WalkInv` says that a user who matched throughout and has not been seen
  has his place on a page to come. That nobody is let in by a provider not in force, and that
  whoever is linked is a member: `EntryInv`, with what a callback that has checked an
  answer still owes (`Entry`).

Only model-checked are the liveness properties (`EveryTxnEnds`, `EveryDeliverySettles`,
`EntriesEventuallyHandled`: fairness and `ENABLED` are outside the prover's reach); the
numbers of `Carbon` (`CarbonAddsUp`, `CarbonSteps`), which rest on what recursive
traversals and folds compute (induction over data); and the figures of
`Assurance` (`FiguresHold`), which are the rules of six modules over the suite's records,
but for trust scores (above). That slots are judged alike (`SlotIsJudgedAlike`) is said of
two datapoints, as the suite has: of three, one can duplicate a second and not the third.

## 5. What is not modelled

* Text, layout, wording; cryptography, XML and the arithmetic of one-time codes;
  the wire formats of providers, SCIM's discovery documents; React pages; the
  HTML of a filing; read-only lists, summaries and dashboards that decide nothing.
* Row level security as such: every module is inside one tenant. Its effect on
  `recordApiRequest` is modelled (the write is refused).
* Rotation of the secrets that sign webhook, billing and stream bodies, and pruning
  of old stream deliveries: none changes what is decided from. Rate limits.
* The dependants of rows that retention deletes, but for deliveries
  (`WebhookDispatch`) and export jobs (`DataExport`); the virus scan of an upload;
  the contents of an export's sections; locations and profiles of suppliers;
  the lineage of one datapoint.
* Of a SCIM request in `Members`: its statements up to the links, and the role writes of
  its users with its commit, are one action each (nobody sees them before it commits, and
  whoever writes the same rows waits). In `ScimDirectory` a request is one action, and so
  are the count and the page of a list.
* The model provider (an answer or a failure, chosen where it is called), the
  database client and the worker's queue (the transactions, the fairness and the
  single passes of the modules that use them), the web application, and
  configuration, schemas and seed data: `PROJECT.json` lists them as
  `not_modelled`.

## 6. Where code and documentation disagree

Met while modelling. Three are runs with a counterexample:

* Audit stream cursor (`db/audit-stream.ts:527`, `AuditStream_cursor`,
  `CursorNeverRegresses`): while a failed delivery waits for its date, the pass
  opens further windows from the same cursor; when the old delivery is retried
  and succeeds, the cursor becomes its end, behind the current one. ADR-015:30:
  "On success the cursor advances". Entries are sent twice; none is lost by it
  (`NoSilentGap`).
* Recomputation (`db/carbon.ts:307`, `Carbon_datapoints`,
  `OneDatapointPerCalculation`): the new calculation creates its datapoint and
  also takes over the old one's, old value included; `network.ts:205` and
  `procurement.ts` sum both. `docs/data-model.md:283`: "Running a calculation also
  creates a `datapoint`".
* Removal of an identity provider (`db/sso.ts:196`, `db/saml.ts:223`,
  `Identity_links`, `SsoLinksAreKept`): the links refer to the provider's row with
  `onDelete: Cascade` and go with it. `sso-config.controller.ts:104`: "existing SSO
  links are kept", `saml-config.controller.ts:106` likewise.

The others are why a property above says "unless", or what a reader may not
expect of the rules.

Audit, events, delivery:

* Slow endpoint (`db/audit-stream.ts:499`): a post may take 10 s in a transaction
  that may take 5; such a pass is rolled back with its attempts and failures, and
  the next one does the same. ADR-015:107: "one broken endpoint can't halt a stream
  indefinitely". Hence the first disjunct of `EntriesEventuallyHandled`.
* Edited filters (`db/audit-stream.ts:433`): a retry reads its window with the
  filters of that moment and moves the cursor past it. An entry its first attempt
  held, and that the new filters exclude, was neither received nor is it in a dead
  delivery; it is not sent when they admit it again. Hence `always` in `NoGap`.
* Export and verification order (`db/audit.ts:260`, `:166`): by `created_at` and a
  random id. `db/audit.ts:250`: "oldest first, so the file is chain-verifiable". Two
  entries of the same millisecond, or of skewed clocks, may come out of order.
  Hence `StampsIncrease` in `VerificationIsSound`.
* Webhook re-activation (`db/access.ts:714`): a failure count computed from the row
  as read before the post overwrites a re-activation meanwhile. `:323`: "A manual
  re-activation clears the failure counter." The endpoint is then disabled early,
  never late (`FailingEndpointIsDisabled`).
* Webhook retry (`db/access.ts:515`): of two concurrent retries the later one may
  re-queue a delivery that succeeded. `:516`: "Only a failed delivery can be retried."
  It also gives the row a maximum counted from the attempts it had read, below or
  above what the other retry granted. Hence `Outdated` in `SuccessIsFinal` and
  `overtaken` in `Consistent`.

Intake:

* Evidence: an outdated transition moves a superseded record (`db/evidence.ts:40`,
  `lifecycle.test.ts:20`: "treats superseded as terminal"), two concurrent supersede
  requests fork the chain (`:97`, `:98`: "This evidence is already superseded."). Hence
  `StaleWrite`. The transition table also allows superseded without a successor
  (`lifecycle.ts:18` against `:11`) and rejection from states before review
  (against `docs/domain-model.md:257`); `EvidenceStates` follows the code.
* Documents: concurrent uploads of one file insert two rows
  (`documents.service.ts:98`; `docs/security.md:60`: "content-addressed dedupe"), and
  evidence linked between count and delete loses its document (`:218`, `:221`). Hence
  `raced`. A removal whose transaction fails leaves a document without its object
  (`torn`). Without any race, `a b.pdf` and `a_b.pdf` of one content are two documents
  (`:98` compares the raw name) with one storage key (`packages/storage/src/index.ts:21`
  replaces other characters by `_` and cuts at 120), and removing one deletes the object
  of the other (`:224`). Hence `taken`; the run's two files share their key.
* Extraction: two reviewers who read a candidate as pending both promote it
  (`ai-pipeline.ts:301`, `:302`: "This candidate has already been reviewed."). A failed
  call's `ai_job` row is rolled back with its run (`:110`; `docs/data-model.md:315`:
  "Every model / stub call is an `ai_job` row").
* Suppliers: a draft saved from a read before the submission overwrites what was
  submitted (`supplier-portal.service.ts:154`); two requests at a time open two
  questionnaires (`supplier-requests.service.ts:31`). Hence `outdated`. Nothing ever
  sets `supplier_evidence_ref.verified`.
* Imports: `commitImport` catches a row that the database refuses and goes on, but
  the refusal has aborted the transaction (`integrations.ts:115`), so a run is never
  `failed` and per-row errors of that kind are never reported. An empty cell of a
  mapped column beats the default; a paused connector still imports; the same file
  imports twice.

Commerce and governance:

* Metering: requests in flight at the same time all pass the check (`metering.ts:324`;
  ADR-014:11: "hard enforcement"); hence `slack`. A request with an older clock sets
  `currentPeriod` back (`:81`, `:65`). `recordApiRequest` runs without a tenant, so row
  level security refuses it and the error is swallowed (`:242`;
  `docs/data-model.md:724`).
* Billing: events are applied in order of arrival (`billing.ts:371`;
  `docs/roadmap.md:62`); hence `InOrder`. When no pending checkout has the session's
  id, all pending ones are completed (`:403`; `docs/data-model.md:1045`).
* Retention: the hold is read once per run (`governance.ts:523`, `:526`); hence `late`.
* Exports: `expiresAt` is never stored, so nothing ever expires (`governance.ts:167`;
  `export-bundle.ts:38`); the sections are read at different instants (`:110`;
  ADR-013:124: "point-in-time copy"); the sweep deletes the row and leaves the bundle
  (`:477`; `retention.ts:71`).
* Access: `POST /organizations` declares no permission (`organizations.controller.ts:18`),
  the guard lets such routes pass (`permissions.guard.ts:21`), and the actor may be an
  API key: a key founds an organization with its creator as administrator, also when
  the creator has been suspended everywhere. `scopes.ts:11` ("A leaked key must never be
  able to escalate or persist itself") is therefore checked of organizations that exist.

Identity:

* Two assignments at a time may remove the last two administrators
  (`members.service.ts:178`), and SCIM has no such check: `unguarded`. Two SCIM requests
  that take one user out of two groups mapped to one role each find the other's link,
  which is deleted and not committed, and both leave him the role (`scim.ts:247`):
  `drifted`, as everybody is whose reconciliation rested on rows that others have changed.
  A user whose status was as wanted when a SCIM request looked is left alone (`:309`),
  although it may change before the request commits: `rejoined`. A magic link or
  a login request used twice at a time opens two sessions (`raced`).
* A challenge with a recovery code writes back all the codes it had read but one
  (`db/mfa.ts:126`): when the second factor was enrolled anew meanwhile, the new
  secret's row gets the old secret's codes. Hence `raced` in `TypeOK` of `SignIn`.
* A person suspended by SCIM is active again after a provider sign-in or an accepted
  invitation (`rejoined`); ADR-018:44 says `active: false` strips managed roles, the
  code does so on DELETE only.
* A SCIM filter richer than `attr eq "value"` counts as none. A list read page by
  page skips a user when another drops out (`shrunk`), or when a page begins between
  users of one moment (`tied`): the query has no second column to order by (`scim.ts:389`).
* SAML refuses an answer at the very end of its validity, OIDC accepts one.
* The guard reads membership and permissions in two statements (`auth.guard.ts:107`):
  `moved`. With no organization asked for, `pickOrganization` takes another one the
  person belongs to.

Assurance:

* A simulation of one period resolves findings of others; a filing uses the mappings
  of the rule store's version whatever their period; the overview's readiness is the
  last run's whatever its period.
* "Live evidence" is decided in four ways: evaluation and readiness count evidence in
  status `expired` whose date has not passed, filing does not; Ask counts what is not
  dead by the end of the year; trust compares with the active period's end, although
  `expiresAt` is set only by the transition to `expired`, to the day it happens.
* A datapoint labelled verified scores 78, "high", without any evidence, and the score
  does not ask whether there is a value. `stale_data` uses an absolute distance, so that
  data from more than 400 days after the period's end is stale too.
* Findings share a key when they are of one kind and subject, and anomalies of one
  subject across periods do: the later replaces the earlier. The cap on anomalies is
  applied before the period's filter. A finding that a person resolved under the
  automatic note can be reopened by a simulation.
* A package's status `failed` and a failed question's rows are rolled back with their
  transaction. ADR-009:42 says a question is answered when it cites; the code also asks
  that a cited number be a retrieved record.
* The command centre's coverage exceeds 100 % when inactive suppliers have passports.

Carbon:

* `docs/data-model.md:45` calls calculations insert-only; approval and recomputation
  update them. Two recomputations at a time leave two current calculations of a chain
  (`forked`), two roll-ups two rows of the uncategorised emissions (`doubled`), a
  deletion and a run an activity that is deleted and calculated (`raced`).
* Emission rows, scopes and total are each rounded to four decimals from exact sums
  (`domain/carbon/aggregate.ts:60`, 89-95): two categories of 0.00005 t are rows of
  0.0001 t and a total of 0.0001 t, and a category below half of that is a row of 0.
* A comparison for procurement takes a supplier's methodology from whichever row the
  database returns first and counts datapoints of superseded calculations; the spend's
  currency is not looked at.

## 7. Plan

1. Proofs: that graph snapshots and footprints extend `VersionChain`, as filings
   and passports do.
2. `AuditLog`'s clocks under `AuditStream`'s cursor: the hazard no property covers.
3. Documents with Extraction and EvidenceLifecycle in one state (promotion picks or
   creates evidence).
4. Abstract specifications of single-use tokens, for `SignIn` and `FederatedLogin`, and
   of a quota, for `Metering`.
