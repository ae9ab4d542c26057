# TLA+ models of the Codex control plane

The repository is a FastAPI control plane over one SQL database, with a polling
worker beside it: chat messages become jobs, risky jobs wait for a human
approval, approved e-mail drafts are sent once, governance reviews bind to
versioned policies and leave evidence, and everything is recorded in a hash
chained audit log. This directory holds its models, what TLC checks of them on
small instances, and what TLAPS proves for all instances.

The processes share nothing but the database. No statement of the code locks a
row, and no `UPDATE` names the value that was read before it, so the questions
worth asking are about steps: what happens between a read and the commit that
depends on it, between two commits of one handler, after a process dies or the
provider raises, and when two requests do the same thing at once.

## 1. Inventory

| component | state | operations | talks to |
|---|---|---|---|
| audit chain `services/audit_service.py` | `audit_events`: global `seq`, `previous_hash`, `event_hash`, optional tenant | `record` (retry loop), `verify_chain`, tenant verification, queries | called by nearly every handler, after its own commit |
| job queue and worker `services/job_service.py`, `workers/` | `jobs` | create, claim, succeed, fail, retry; `poll_once`, `run_forever` | handlers of `workers/tasks.py` |
| approvals `services/approval_service.py` | `approval_requests` with a JSON payload | create, approve, reject, merge of the draft id, record of the send, enqueue after approve | jobs, audit |
| chat and orchestration `app/main.py`, `services/chat_orchestrate.py`, `services/policy_service.py` | - | `POST /chat`; classify, gate, enrich | jobs, approvals, e-mail |
| e-mail workflow `services/email_service.py`, `services/email_persistence.py` | `email_deliveries`, `email_threads` | draft, send, mark sent or failed | Gmail connector, approvals, audit |
| Gmail connector `connectors/` | provider account (external) | draft, send, read; errors normalised to `ConnectorError` | Google client library |
| policy versions `services/policy_version_service.py` | `governance_policies` | create, activate, rollback, startup seeding, lookup of the active one | audit, governance review |
| governance review `services/governance_workflow.py` | `governed_actions`, `risk_assessments`, `evidence_artifacts` | submit, list, get | policy versions, risk rules, approvals, evidence graph, audit |
| risk rules `services/risk_service.py` | - (pure) | `score`, `classify` | governance review |
| overrides `services/override_service.py` | `action_overrides` | create, list | governed actions, audit |
| evidence graph and packets `services/evidence_graph.py`, `evidence_packet.py`, `evidence_store.py` | `evidence_packets` and the rows of a review | read the graph, assemble a packet, persist, export | governed actions, approvals, audit, overrides |
| signatures `services/evidence_signature_service.py` | signature columns of `evidence_packets` | sign, revoke, verify | packets, audit |
| verification `services/verification_service.py` | `trust_verifications` | request, review, approve, revoke | trust score, audit |
| trust score `services/trust_score_service.py` | `trust_scores` | compute, persist | packets |
| incident replay `services/incident_replay.py` | - (reads) | assemble a timeline and the packet's context | evidence graph, packets |
| tenancy and RBAC `services/rbac_service.py`, `services/tenant_service.py`, `app/deps.py` | `tenants`, `users`, `user_roles`, `roles`, `role_permissions`, `permissions`, `api_keys` | seed, provision, resolve a key, require a permission | every route |
| control catalog `services/control_catalog.py` | frameworks, controls, regulations, requirements, packs | seed, list | startup |
| startup `app/main.py` and `scripts/seed_pilot.py` | - | seed roles, catalog, default policy; provision the pilot's users and keys | RBAC, catalog, policy versions |

What is hard about it:

* **Concurrency.** Routes are synchronous functions in a thread pool with one
  session each; workers are processes of their own. Job claims, decisions,
  activations and retries are check-then-write.
* **Stale copies.** The session's identity map keeps a row as it was first
  read. `payload_json` is rewritten as a whole from that copy.
* **Several commits per handler.** `submit_vendor_governance_review` has up to
  nine, `run_email_send_approved` four, `approve` three; the process may die,
  or the audit log give up, between any two.
* **An ambiguous outside world.** A send may reach the recipient and still raise.
* **Restarts and upgrades.** Every start seeds roles, catalog and default policy
  again, row by row, possibly beside another process that does the same, on a
  database that an older release or a start that died left behind.
* **Torn reads.** A graph, a packet, a replay or a score is read in many
  statements, each seeing what is committed by then, some rows cached by the
  session and some not.

The properties that make each component right are listed with the runs below;
`PROJECT.json` lists the hazards line by line.

## 2. Modules

| module | models | used by |
|---|---|---|
| `AuditLog` | what the audit trail promises: an append-only sequence, each call recorded once or not at all, atomically | `AuditChain` (refinement) |
| `AuditChain` | `record` and the verifiers, step by step | `MCAuditChain`, `AuditChainProofs` |
| `SendPipeline` | `POST /chat`, worker, orchestration, approvals, e-mail send, retries | `MCSendPipeline`, `SendPipelineProofs` |
| `PolicyVersions` | the registry, its routes, the startup seeding | `MCPolicyVersions`, `PolicyVersionsProofs`, `GovernanceReview` |
| `Risk` | the risk tables, thresholds and the approval rule, as operators | `GovernanceReview` |
| `GovernanceReview` | submit, decisions, overrides, status views, composed with `PolicyVersions` | `MCGovernanceReview`, `GovernanceReviewProofs`, `Evidence` |
| `TrustScore` | the ten scorers of the trust score, as operators | `Evidence`, `Verification` |
| `Evidence` | graph, packet, replay and score as readers get them while the review moves | `MCEvidence`, `EvidenceProofs` |
| `Startup` | lifespan and pilot script: creating tables, seeding, provisioning, key resolution; the migration that today's models need | `MCStartup`, `StartupProofs` |
| `Verification` | stored packets, signatures, the procurement verification and its score | `MCVerification`, `VerificationProofs` |
| `AuditChainProofs`, `SendPipelineProofs`, `SendOnceProofs` | theorems about the chain, about the pipeline under any interleaving, and about sending and deciding once | `SendOnceProofs` extends `SendPipelineProofs` |
| `PolicyVersionsProofs`, `GovernanceReviewProofs`, `EvidenceProofs` | theorems about the registry, reviews and readers, each on top of the one before | - |
| `VerificationProofs`, `StartupProofs` | theorems about packets and verifications, and about seeding | - |
| `MC*` | symmetry sets and constants for TLC | runs |

`GovernanceReview` extends `PolicyVersions`: `RNext` interleaves the registry's
`Next` with review steps, because what a review binds to
depends on what the registry does between the two queries of `get_active`.
`Evidence` extends `GovernanceReview` with the requests that read a review and
with the scorers; `ENext` adds their steps to `RNext`. Three specifications thus
share the registry's variables (`Spec`, `RSpec`, `ESpec`), and each is proved to
implement the one before (`ReviewsImplementRegistry`, `ReadersOnlyRead`), so
that what is proved of the registry holds of it while reviews and readers run.
`SendPipeline` and the other modules use the audit log as one atomic step; that
`record` implements such a step is what `AuditChain => AuditLog` shows (checked
and proved).

### Audit chain

A call of `record` reads the head, computes `seq`, `previous_hash` and the
hash, and commits; the `UNIQUE(seq)` constraint decides the race. A call that
loses rolls back and starts again, at most `MaxAttempts` times, and a database
lock is handled the same way; then `RuntimeError`. Actions: `ReadHead`,
`CommitSucceeds`, `CommitLosesRace`, `CommitMeetsLock`, `StatementFails` (an error
outside the `try`), `Return`, and `Crash` at any point.
The hash is an injective constructor (the tuple of its inputs): SHA-256
without collisions. Verification is modelled as the code does it, the full
chain link by link, a tenant's events by their own hash only.

### Send pipeline

`wk[w]` and `rq[q]` are the program counters and locals of workers and of
operator requests; each action is one commit, one provider call or one read
that a later commit depends on. `body` is the decoded payload: whether it holds a
draft id, which decision, which message id. `sent[a]` counts what the provider
delivered and is invisible to the code. `drafted` and `approved` are history
variables. Left out because nothing reads them: thread records, `attempts`,
`run_after` (never set), error texts. A chat message is reduced to what policy
and intent classification tell apart (`Kinds`).

### Policy versions

One row of `governance_policies` is tenant, label, status and whether
`effective_to` is set. `is_active` is written together with `status` everywhere
and folded into it. One policy name is modelled: no operation relates two.
SQLAlchemy writes at commit only the columns whose value differs from the one
loaded (`Written`), which matters when the row changed in between. The audit
events that follow a commit are read by nothing in the registry and are left out,
so a rollback, which is an activation with one event more, is no action of its
own. The default `app_env` runs in demo mode, in which calls without a key are served as the unscoped
operator: the scope `System` may therefore call every route.

### Risk and governance review

`Risk` keeps the score tables and thresholds as written. A review's `submit`
is a sequence of commits with the audit events in between (`sub[a].pc`); the
gate is an approval row (`gates`) linked to the action by a later commit
(`linked`). A submit or a decision that dies is one that takes no further step,
which every behaviour may choose; `StopAll` ends everything at once. An override
row and its audit event carry the caller's tenant, which for the unscoped operator
is none. `list_runs`, `get_run` and the packet each compute a status from
these rows; the three definitions are kept apart since they differ.

### Evidence as readers get it

A reader `rd[r]` is one request for a packet, an export, a replay or a score, by a
tenant or by the operator. `LoadAction`, `LoadApproval`, `ReadEvents`,
`ReadArtifacts` and `ReadOverrides` are the statements of `get_evidence_graph` in
their order; the review takes its steps between them. A replay reads a first graph
(`ReadTimeline`) in the same session: action and approval stay cached, events are
selected again. `_assemble` makes the packet out of what was read, `verify` out of
the chain at that moment, `score_action` reduces it to what the scorers tell apart.
`GraphNow` is the graph nobody interferes with, the reference the torn one is
compared with. Since a review has no mapped controls (only a demo script maps
any), the gap `missing_control_mappings` is always there.

### Startup

A process is a sequence of transactions, a transaction a sequence of rows that are
each selected and inserted when missing. The `SELECT`s up to the first `INSERT` that is
flushed run without a lock (`Select`), the `INSERT` takes SQLite's write lock or
fails (`Insert`, `InsertConflicts`, `InsertTimesOut`), the rest runs under it
(`Commit`). `Unique` says which rows a constraint compares (NULL tenants are not),
`Flushed` which are flushed at once: the API's sessions have `autoflush=False`, the
script's have not. `rows` is the set of committed rows and `doubled` those that are
there twice; a lookup of such a row raises. Permissions that no release had apart stand
for one row, and so do the frameworks with their controls.

`Init` starts from no database, from one that a release before the default policy left
(`OldReleases`) or one since (`NewReleases`), with or without the pilot. `schema` says of
the two tables that `m004_policy_versioning.py` adds columns to whether they are missing,
old, or as today's models map them. `Start` is `init_db`: `create_all` creates missing
tables (`CreateTables`, one step, which raises when another process was faster) and leaves
old ones as they are. A `SELECT` of an old table raises (`Unreadable`): in the API that of
the default policy, in the script that of the tenant's runs at its end (`list_runs`), after
everything it provisions is committed. `Migrate` is m004, which nothing in the system runs:
it is an action of the operator, a table at a time, at any moment or never. The sample run
that the script submits when it finds none is left out.

### Evidence packets and verification

`packets` and `verifs` are the two tables; `rq` holds the calls in flight.
`persist_packet` reads the packets of the scope, commits the new version and the
superseded ones, and signs in a later commit, after the audit event: a call that
dies in between leaves an unsigned active packet. A packet's content is the number
of times that its export was altered, its hash the content that was hashed, its
signature the payload that was signed, so `_content_intact` and `_signature_ok` are
comparisons. `Alter` changes the export, or the export and the recorded hash, of any
stored packet at any moment, also of one that waits for its signature: `sign_packet`
reads the hash again and signs what is there. `Alter` and `Expire` are the database and
the clock; `DecideSubject` and
`OverrideSubject` stand for what `GovernanceReview` describes in detail and make
the score move while a verification is under way. `approve_verification` checks
the evidence, stores a score (which makes the session load the row again),
compares it and commits: four steps. Audit events and stored score rows are
read by nothing here and left out, except that a failing audit event ends the
call. One tenant owns the subject; the unscoped operator is the second scope.

## 3. Runs

Every passing run finishes with no error on its whole state space.

| run | instance | checks |
|---|---|---|
| `audit_chain` | 3 calls, 2 tenants, 3 attempts, fair | `Contiguous` (seqs 1..n), `NoFalseAlarm` (a chain that `record` built verifies), `RecordedOnce`, `LostRacesArePaidFor`, `TamperEvident` (an event that is edited, edited and rehashed, or deleted is reported, unless it is the last), `AppendOnly`, `ImplementsLog`, `RecordTerminates` |
| `pipeline_concurrent` | 2 workers, 2 requests, deaths, audit failures, ambiguous sends | `TypeOK`, `OneSendJob`, `SendNeedsApprovedDraft`, `SucceededMeansSent` |
| `pipeline_one_worker` | 1 worker, 2 approvals, 3 requests one at a time, deaths | `AtMostOneSend`, `RejectedNeverSent`, `ReceiptsAgree`, `DecidedOnce` |
| `pipeline_live` | 1 worker without deaths, 3 requests, racing retries, audit failures in the worker, fair | `AtMostOneSend`, `PendingJobsFinish`, `ApproveLeadsToSendJob` |
| `policy_concurrent` | 4 rows, 2 tenants, 2 interleaved calls, restarts | `ForwardOnly`, `ScopeKept` |
| `review_binding` | a submit while the registry changes, 4 rows, requests one at a time, restarts | `TenantOneActive`, `WindowMatchesStatus`, `AlwaysBinds`, `BoundToReleasedVersion` |
| `review_evidence` | submit, decision, overrides and a reader interleaved, deaths, restarts | `AnsweredMeansEvidence`, `PacketIsHonest`, `ViewsAgree`, `PacketOnlyAdvances`, `ResponseCoherent` (a torn response hangs together), `ScoreNotOverstated`, `OnlyOverrideLowersTrust` |
| `verification` | 2 packets, 1 verification, 2 calls, deaths, revocation, an alteration of each packet, expiry | `VersionedOnce`, `TamperingSticks` (altered once signed: never valid again), `RevocationSticks`, `Lifecycle`, `ApprovalIsEarned` |
| `startup` | 1 API process, 1 run of the script, 2 crashes, every release's database, m004 at any moment or never, fair | `SeededOnce`, `CredentialsWork`, `ComesUp` |

Each module has a type invariant, or keeps its types by the sets its actions draw
from. It is run for the pipeline only; everywhere it is proved, by itself or as the
first conjunct of the inductive invariant (section 4).

The passing runs are about the deployment the docs describe (one worker; with
`SerialOps` and `Serial`, or with a single thread in `Deciders`, one operator or
reviewer whose calls of a kind come one at a time) where a property needs it, and about any
interleaving where it does not.

### What the code does not keep

Three runs expect a violation; `findings` in `PROJECT.json` quotes the line of
the repository that the property states.

| run | what TLC finds |
|---|---|
| `bug_approved_early` | an approve between the creation of the approval and the merge of its draft id finds no draft; nothing enqueues the draft later |
| `bug_ambiguous_send` | a send that arrives but raises leaves no message id; the retry, which is allowed, sends again |
| `bug_restart_two_active` | a restart reactivates the superseded system default beside its successor |

The models show more, which no run of its own records. By changing constants of
the runs above:

* two workers (`Workers = {w1, w2}` in `PipelineOneWorker.cfg`) claim one send job
  and break `AtMostOneSend`: the claim is a read and an unconditional write;
* racing retries together with a death of the worker break it with one worker:
  the second retry re-queues a running job;
* interleaved decisions (`SerialOps = {}`) break `DecidedOnce`: both succeed, the
  later one overwrites the earlier;
* interleaved activations (`Serial = FALSE`, two calls in `ReviewBinding.cfg`) break
  `TenantOneActive` and `AlwaysBinds`: two supersede only what both read, and
  reactivating a version while it is being superseded leaves none active;
* two reviewers (`Serial = FALSE` in `Verification.cfg`) break `Lifecycle`: a late
  review overwrites an approval. Two auditors break `VersionedOnce`;
* two deciders (`Deciders = {d1, d2}` in `ReviewEvidence.cfg`) break
  `PacketOnlyAdvances`: the later decision overwrites the earlier;
* two API processes that start together (`Apis = {a1, a2}` in `Startup.cfg`) insert
  the default policy twice, since nothing constrained is inserted with it, and every
  later start raises `MultipleResultsFound`: `ComesUp` fails, although
  `policy_version_service.py:157` says "Idempotently ensure".

And by reading the actions:

* an export altered together with its hash while the packet waits for its signature
  (`Alter` between `PersistCommit` and `Sign`) is signed as it is, since `sign_packet`
  reads the row again, and verifies as valid ever after: a signature says what was
  stored when it was made, not what was generated;
* on a database older than m004, every start of the API raises in
  `seed_default_policy`, after it has committed roles and catalog, and every run of the
  script raises in `list_runs`, after it has committed users and keys, until somebody
  runs m004, which its own comment calls optional: without the premise of `ComesUp` TLC
  finds the violation at once;
* an `approve` that dies between its commit and the enqueue leaves an approved draft
  without a send job, and a second `approve` is refused: `ApproveLeadsToSendJob` is
  checked without deaths;
* a job whose worker died stays `running`: `ClaimRead` takes pending jobs,
  `RetryAllowed` failed ones;
* `MergeDraft` writes back a payload read before the provider call, so a decision
  committed in between loses its entry in the payload (its status stays);
* an exception that is no `ConnectorError` fails a send job through `Raise`
  without the audit event of `AuditFailed`;
* a second system version labelled `v1`, which the unique constraint lets through
  because NULL tenants are not compared, makes every later startup raise
  (`SeedRaises`);
* `_run_status` answers "cleared" for any action that is not linked to its
  approval yet, for ever if submit died before the link, and never looks at
  overrides; `list_status` is the status at submit time, whatever was decided;
* the evidence of a verification may be revoked between the check in
  `ApproveRead` and `ApproveCommit`;
* `Override` by the operator marks a tenant's action `override_recorded`, but the
  override and its event carry no tenant: the tenant's packet shows the status
  without either, and its score does not fall;
* a response may show `pending_approval` beside the event of the decision, which
  was committed between `LoadApproval` and `ReadEvents`;
* `score_action` counts any event with "approv" in its name as a decision:
  `approval.created` and `approval_required` already earn the points of one.

### Bounds, and why they are enough

* Three calls of `record` give every order of two losers and a winner, and with
  three attempts a call can lose twice and still win, or run out.
* One approval has one send job (proved), so two workers and two
  requests are enough for every pairwise race on it; `MaxChats` and `Jobs` bound
  how many messages are submitted. The second approval of `pipeline_one_worker`
  lets a worker carry locals from one to the next.
* Rows of the registry: 4 (the seeded default, a successor, and two versions of one
  tenant or of two).
* A review is one submit request. While it is read (`review_evidence`), the intakes
  are one a point below the gate and one that just reaches it (`Vendors`): the steps
  depend on an intake only by its gate and its level, and medium and high behave
  alike. With every intake (`Vendors <- Intakes`) and no reader the run was explored
  too, without error. One
  thread decides and one overrides, each as often as it likes, and one reader reads
  again and again: readers do not see each other. While the registry moves
  (`review_binding`) every intake is submitted and nobody decides or overrides, since
  nothing after the binding touches the registry.
* Two processes that start, of different programs, take the lock and the conflicts from
  each other at every transaction they share; `MaxCrashes = 2` lets both die anywhere, or
  one of them twice, and start again (a failed start is not counted). The safety
  properties were explored with a second run of the script too (251,296 states), and
  are proved for any number of processes. One API process: section "What the code does
  not keep".
* Two packets give a superseded and an active one, of one scope or of two; one
  verification is enough because no operation relates two. The minimum 67 lies
  between the scores the subject can have (57 undecided, 69 approved, 66 approved
  with an override, 61 in the operator's scope).
* `MaxAlterations = 1` lets each packet be altered before its signature or after. Without
  a verification (`Verifs = {}`), alterations twice over, one before the signature and one
  after among them, were explored too (211,698 states), without error; `TamperingSticks`
  is proved for any number.

Symmetry is used for safety properties only, over jobs, workers, requests, rows
and calls that no definition tells apart. Deadlock is checked everywhere except in
`startup`, where all processes end up serving or done.

### Fairness

* `WF` on a call of `record` (`audit_chain`): the loop takes its next step
  unless the process dies.
* `WF` on each worker (`pipeline_live`, `bug_approved_early`): `run_forever` polls
  until it is stopped, and `process_job` catches whatever a handler raises.
* `WF` on each request once accepted: a thread runs on to its answer.
* `WF` on each starting process (`startup`): it takes its next step, and whoever
  operates the deployment starts again what did not come up. `Run(p)` is one
  disjunction, so nothing is assumed of which of its steps a race lets through. Nothing
  obliges the operator to run m004: that is the premise of `ComesUp`.

No fairness is assumed of operators, of the provider's answers, of deaths or of
restarts.

## 4. Theorems

TLAPS proves what follows for every value of the constants: any number of
processes, rows, tenants, jobs, approvals and crashes. Every safety invariant and
every action property of the passing runs is stated by one of these theorems.
Some need a hypothesis about the deployment; it comes with the theorem, the runs
satisfy it, and section 3 ("What the code does not keep") says what breaks
without it.

| theorem | hypothesis | says |
|---|---|---|
| `AuditChainProofs`: `ChainIsContiguous`, `CallsRecordedOnce`, `RacesArePaidFor`, `ChainAlwaysVerifies`, `ChainIsAppendOnly` | - | the invariants of `audit_chain` |
| `TamperingIsEvident` | - | every edit, forgery or removal of an event that `verify_chain` can notice is noticed, at the right seq |
| `RecordImplementsLog` | - | every step of `AuditChain` is a step of `AuditLog` or a stutter |
| `SendPipelineProofs`: `PipelineTypeCorrect`, `SendJobsAreUnique`, `NothingSentUnapproved`, `SuccessIsTruthful` | - | the invariants of `pipeline_concurrent` |
| `SendOnceProofs`: `RejectedIsNeverSent`, `DecisionsAreFinal` | `SerialDecisions` | a decision stands, and what was rejected is not sent |
| `AtMostOneMessage`, `ReceiptsAlwaysAgree` | `OneByOne` | one message for an approval, and its receipts agree |
| `PolicyVersionsProofs`: `HistoryForwardOnly`, `TenantIsolation` | - | `ForwardOnly`, `ScopeKept` |
| `OneActiveVersion` | `Serial` | `TenantOneActive`, `WindowMatchesStatus`, `AlwaysBinds` |
| `GovernanceReviewProofs`: `ReviewsImplementRegistry` | - | `RSpec => Spec` |
| `ReviewsFindTheActiveVersion` | `Serial` | the registry's promises while reviews read it |
| `BoundToReleased`, `ViewsAreHonest` | - | `BoundToReleasedVersion`; `PacketIsHonest`, `ViewsAgree` |
| `PacketAdvances` | `OneDecider` | `PacketOnlyAdvances` |
| `EvidenceProofs`: `ReadersOnlyRead` | - | `ESpec => RSpec` |
| `AnsweredLeavesEvidence`, `ResponsesAreCoherent`, `ViewsAreHonestToReaders` | - | `AnsweredMeansEvidence`, `ResponseCoherent`, and the views again |
| `PacketAdvancesForReaders`, `ScoresNotOverstated`, `TrustFallsByOverride` | `OneDecider` | `PacketOnlyAdvances`, `ScoreNotOverstated`, `OnlyOverrideLowersTrust` |
| `VerificationProofs`: `TamperingIsReported`, `RevokedStaysRevoked`, `ApprovalsAreEarned` | - | `TamperingSticks`, `RevocationSticks`, `ApprovalIsEarned` |
| `SignedInvariant` | - | a packet is signed once, over a hash it had then |
| `LifecycleFollowed`, `PacketsVersionedOnce` | `Serial` | `Lifecycle`, `VersionedOnce` |
| `TypeCorrect` | `IsFiniteSet(Packets)` | `TypeOK`; a version is one more than a maximum |
| `StartupProofs`: `SeedingIsIdempotent`, `KeysWork` | - | `SeededOnce`, `CredentialsWork` |

### Assumptions

The named assumptions of the modules say that a value which stands for "none" is
none of the things (`None`, `Nobody`, `NoVersion`, `System`), that flags are
Booleans, that `MaxAttempts` is a positive number and `MaxCrashes` and
`MaxAlterations` natural numbers, that a process is not both an API
and a script. The hypotheses are:

* `SerialDecisions`, `OneDecider`: one decision request is served at a time, as one
  human at one console makes them. (`OneDecider` is one thread in `Deciders`.)
* `OneByOne`: one worker, as in the documented deployment; `SerialDecisions`; no
  send that arrives and raises (run `bug_ambiguous_send` is what it does); and
  retries one at a time, or no deaths. The last is needed: a death leaves a job
  running, and two racing retries can put it back in the queue. It holds of both
  `PipelineOneWorker.cfg` and `PipelineLive.cfg`.
* `Serial`: calls that write versions (calls of one desk, in `Verification`) come
  one at a time.

### The arguments

*Chain.* `Contiguous` is not inductive. A commit is safe because the `seq` it
carries was computed from a head that is still the head when the constraint lets it
through; so the invariant also says what a caller's locals know (the head it read is
a prefix of today's chain, with that hash), and which calls have an event in it. For
`TamperEvident` the set of breaks of an edited table is computed: the edited event
is one, none is lower, and `verify_chain` returns the least.

*Pipeline.* The locals of a worker are copies of rows that may be stale. The
invariant (`TypeOK`, `OneSendJob`, `JobsInv`, `ApprovalsInv`, `WorkersInv`,
`RequestsInv`) says that a copy, however old, only claims what has happened: a
draft id implies the draft was made, a message id implies a send, and a send job
carries the approval that was approved. These facts are about history and no step
undoes them, so lost updates and double claims, which the module allows, do not
break them.

*Sending once.* With one worker, what it holds is not stale. `DecisionsInv` says that
a decision under way is on an approval still pending. `OnceInv` says that every
approval is settled (its payload names what the provider sent), or the worker stands
between `ProviderSends` and `RecordSent`, or it died there and the job stays
`running`, which no retry takes (`RetryInv`). So `SendLoad` sees the message id of
every earlier send and skips the provider. The two are invariants of the
one-worker instances, which TLC confirmed before the proof.

*Registry.* `RowsInv` bounds what a request in flight may write: existing rows of one
scope its caller may write. That gives `ForwardOnly` and `ScopeKept` for every
interleaving. One at a time (`OneActiveInv`), the rows that an activation is going to
supersede are still all the active ones, and the version is the one it loaded.

*Reviews.* `ReviewInv` relates each phase of a submit to the rows of the phases
before: an approval exists only where policy or risk asked for one, the link comes
after it, the status is the computed one until an override. `BoundInv` adds that
what submit carries was released; the registry may supersede it in between but never
takes it back (`ReleasedStays`, from `ForwardOnly`'s argument). With one decider
(`PendingInv`) a decision is committed on an approval still pending.

*Readers.* `EvidenceInv` adds which events and nodes each phase leaves on record, and
that nothing on record disappears. `ReadersInv` says of each statement a reader has
executed what was true then and what remains true because the record only grows; a
torn response is below the state at its end in an order (`Covers`, `GraphCovers`) in
which the scorers are monotone, overrides excepted.

*Verification.* A packet is signed once, by the call that stored it, over the hash it
has at that moment, and a hash is never ahead of the content (`SignedOnce`). The content
only grows: after an alteration of a signed packet a hash that matches the export is not
the hash that was signed, and one that was signed does not match the export; no later
step brings the two together. `EarnedInv` carries
the review and the score through the four steps of an approval. `ReviewerInv` and
`VersionInv` say that what the one call of a desk has read still holds.

*Startup.* `StartInv`: finding the last permission, or the first framework, means that
the whole transaction it came with is there (`ReleaseOK`, true of every release, kept
by every commit); a process has all rows of the transactions it passed; what it
inserts without the lock is constrained, since the first unconstrained row of a
transaction comes after a constrained one that it would also miss (`BlindRows`); and
only the holder of the lock commits. The default policy is the exception, and the
only thing that can be doubled. Creating tables and migrating them touches no row.

### Only model-checked

Liveness under fairness is beyond the prover: `RecordTerminates`,
`PendingJobsFinish`, `ApproveLeadsToSendJob`, `ComesUp`. The three runs that expect a
violation are counterexamples, which need no proof.

## 5. Not modelled

Schemas, response formats, the static console and the demo scripts other than
`seed_pilot` have no behaviour of their own. Of the migration scripts m004 is an action of
`Startup`; the others add tables, which `create_all` adds as well, and columns of tables
that no seed of a start selects, and are left out: all but `Startup` describe the system on
a database with today's tables.
OAuth and Gmail message formats are outside the properties. The provider, the hash
function and the database are external: the provider by the outcomes the connector
handles, the hash as a constructor, the database by atomic commits, its unique
constraints and its write lock. E-mail thread records and the audit event counts of
the views decide nothing.

Workflow and tenant packets list the graphs of several actions; each graph is
modelled, and nothing relates two of them but the sums of the scorers. The version
of a stored trust score is a maximum plus one, so two computations at once can store
the same version; nothing but the newest-first listing reads it. The permission a
route asks for is one comparison (`require_permission`); what the comparison is made
with, the principal of a key, is in `Startup`. Calls without a key are the unscoped
operator of the other modules.

## 6. Plan

1. Facts about the operators alone: a trust score lies within 0..100, and the risk
   level never falls when a signal rises.
2. An abstract specification of the send pipeline ("an approved draft is sent at most
   once, a rejected one never") with `SendPipeline` shown to implement it under
   `OneByOne`, and one of the registry (per tenant, one current version) under `Serial`.
3. The weaker promises that hold without the hypotheses of section 4, where the
   code keeps some: what two workers, two deciders or two API processes may do at
   worst.
