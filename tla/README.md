# Verification of the exposure monitor backend

TLA+ models of the backend of komuna (`src/backend`), the TLC runs that check
them on small instances, and proofs of their most important properties that the
TLAPS proof system checks for every instance. Paths below are relative to
`src/backend/app`.

## 1. The system

A FastAPI process serves the API and runs two APScheduler jobs. Users register
domains for an organization, prove that they own them with a TXT record, and ask
for scans. A job drains the queue of scans every 30 seconds and records what the
scans observe. Everything meets in one PostgreSQL database; every request and
every job run has one SQLAlchemy session, which is one READ COMMITTED transaction
that does not flush before a query, is committed at the end and is rolled back as
a whole when anything raises (`db/session.py`, `_session_cm` in
`workers/scheduler.py`).

| component | state | operations | interacts through |
| --- | --- | --- | --- |
| scan queue: `api/v1/routes/domains.py`, `workers/scheduler.py`, `workers/scan_runner.py`, `models/scan.py` | rows of `scans`; the drain's open session | enqueue by request, enqueue by the scheduler job, drain a batch of 15, execute a scan | the `scans` and `domains` tables; calls the passes |
| DNS drift: `_run_dns_pass`, `services/dns_service.py`, `models/dns_snapshot.py` | rows of `dns_snapshots` | collect, fingerprint, compare with the latest snapshot, report, add a snapshot | the drain's session; creates findings |
| inventory and findings: `services/finding_service.py`, `models/asset.py`, `models/finding.py` | rows of `assets` and `findings` | get or create an asset, add a finding, merge metadata | the drain's session; called by every pass |
| subdomain discovery, TLS checks, bucket probes: `services/*_service.py` | none | ask crt.sh, do a handshake, probe candidate names | called by the passes; network |
| domain validation: `services/domain_validation.py` | none | normalise a name, check an address, find the challenge | called by the API and the passes; DNS |
| tenancy: `deps.py`, `organizations.py`, `services/authorization.py`, models of users, organizations and domains | `users`, `organizations`, `organization_members`, `domains` | first sign-in, create an organization, check a membership, register and verify a domain | every request |
| scheduled scans: `workers/scheduler.py`, `main.py` | the interval of the job, in memory | fire, skip, select domains, enqueue, commit or lose a round | the clock; the `scans` and `domains` tables |
| token verification, settings, read-only routes, schemas, migrations, repository tooling | none that changes | | |

What is hard about it:

* *Interleaving.* Requests, the scheduler job and the drain run at the same time;
  each checks first and writes later. For users and slugs a unique index backs the
  check, which makes one request wait for another and then perhaps fail; for scans
  and assets nothing does. One drain runs per process, which is all that protects the inventory.
* *One transaction per batch.* `running` is written but never committed; one
  failure undoes the outcomes of a whole batch; a deleted domain makes the foreign
  keys of the batch fail.
* *No flush before a query.* A session sees only those of its own rows that
  something else happened to flush, and all its rows have the same `created_at`.
* *Answers before commits.* A response is built while the session is open: it says
  what the commit may still refuse, and of rows that have no generated values yet.
* *Time.* A pass reads the clock several times, and a certificate may expire or be
  renewed in between; verification waits seconds for the DNS with a row in hand.
* *Crashes.* A process that dies loses its session, and the timers of its jobs.
* *Limits.* 15 scans of a drain, 50 domains of a round, 40 assets and 90 hosts of a
  scan: what is beyond them has to get its turn, or must not be expected to.
* *Order.* `created_at` is the beginning of a transaction, not its commit.

What makes each component correct:

* the queue: an accepted scan is settled once, for ever, and in the end; it is
  never left `running`; scans are drained in order; the number of active scans of
  a type for a domain is bounded; a scan is not turned away without a reason;
* DNS drift: findings tell of exactly the differences between snapshots in a row,
  whatever drains failed in between;
* inventory: no more copies of an asset than workers, as many announcements of a
  subdomain as copies of it, no finding without its asset, and records that agree with the probes;
* TLS checks: a known host is left out for a limit only, a risk is that of one moment,
  and an expired certificate is reported in the end;
* tenancy: what was answered is committed, a request that loses a race
  loses it to something committed, organizations are reached by their members only, and
  nobody waits for ever;
* scheduled scans: a verified domain is scanned again and again unless there are too many
  of them, and waits for it no longer than what went wrong accounts for.

`PROJECT.json` lists the hazards of the code, each at its line, with the
properties that would catch it going wrong.

## 2. The modules

| module | what it is |
| --- | --- |
| `ScanLedger` | the abstract queue: what API clients may see |
| `ScanQueue` | the queue with its workers, sessions, failures and crashes |
| `DriftLog` | the abstract tables of DNS drift: a drain publishes snapshots with their differences |
| `DnsDrift` | snapshots and change findings over the drains of the queue |
| `Register` | the abstract inventory: a drain enters complete records |
| `Inventory` | assets and findings of one organization |
| `TlsCheck` | the hosts of a scan, and the risk of one endpoint's certificate over the scans |
| `Accounts` | the abstract users and organizations: sign up, found |
| `Tenancy` | users, organizations and domains, as the sessions of requests make and use them |
| `Schedule` | the scheduled scans against the clock |
| `MCScanQueue`, `MCDnsDrift`, `MCInventory`, `MCTenancy`, `MCSchedule` | symmetry sets for TLC |
| `ScanQueue_proofs`, `QueueBounds_proofs`, `DnsDrift_proofs`, `Inventory_proofs`, `InventoryCounts_proofs`, `TlsCheck_proofs`, `Tenancy_proofs`, `Schedule_proofs` | the proofs |

The modules meet where one takes another's result for granted. `Schedule` has the
queue as one action, `Settle`, whose fairness is what `QueuedIsSettled` says of
`ScanQueue`; `TlsCheck` assumes that a full scan begins again and again, which
`EveryDomainScanned` says of `Schedule` as long as the limit of a round covers all
verified domains (beyond it, it is an assumption); `ScanQueue` has a domain verified in one
action, and `Tenancy` the request that does it. `DnsDrift`, `Inventory` and
`TlsCheck` are passes of the scans that `ScanQueue` drains, whose sessions commit or
are rolled back as `CommitBatch`, `RejectBatch`, `DatabaseFailure` and `Crash` decide.

Operators called *mutants* stand before the definition they are a broken form of;
they show that a property can fail and are used nowhere else.

### ScanQueue

`status`, `domain_id`, `scan_type`, `created_at` and `error` are the columns of
`scans` as committed; `domain` is `domains.verified`, or `"deleted"`. `inserts`
holds the rows of transactions that are open, `candidates` the domains the
scheduler job still has to look at, and `phase`, `batch`, `todo`, `cur`, `loaded`,
`verdict`, `staged` and `locked` the session of the drain. `settled`, `skipped` and
`seen` are history for the properties.

| action | code |
| --- | --- |
| `VerifyDomain` | `verify_domain` with the challenge in place |
| `RequestScan`, `CommitRequest`, `RejectRequest` | `enqueue_domain_scan` up to its flush; the commit or rollback of `get_session` |
| `SelectDomains`, `ConsiderDomain`, `CommitSchedule`, `RejectSchedule` | `enqueue_scheduled_full_scans_job`, one statement at a time |
| `PollEmptyQueue`, `SelectBatch` | the query of `drain_scan_queue` |
| `MissingDomain`, `DomainNotFound`, `DomainNotVerified`, `BeginPasses` | `execute_scan` up to its `try` |
| `StageRows`, `FlushRows` | what the passes do to the session: rows added, rows flushed with the locks that takes |
| `PassesReturn`, `PassesRaise` | the end of `execute_scan` |
| `CommitBatch`, `RejectBatch` | the commit of the drain, or a foreign key that fails it |
| `DatabaseFailure`, `Crash` | a transaction that fails for another reason; the process dies and starts again |
| `DeleteDomain`, `UnverifyDomain` | an operator's statement on the `domains` table, with `ON DELETE SET NULL` |

`scan.scan_type` is declared with the column type `String(32)`, so a scan that was
loaded has a plain `str` there and `scan.scan_type.value` raises.
`LoadedScanTypeHasValue` says so in the model; `PassesReturn` follows the code.

### DnsDrift

`drain` numbers the drains and is the `created_at` of their snapshots. `pending`
are snapshots the session has added but not flushed, which its own queries do not
see; `flushed` are those they do see. `CompareRecords` is one iteration of the loop
of `_run_dns_pass`, with its query, the finding (`ReportChange`, which flushes when
`get_or_create_asset` creates an asset) and the new snapshot. The order of the
record types within a pass is left open. `FlushSession` is a flush by another pass.
A query that fails answers `Empty`, as `collect_rrset` does. Fingerprints are
modelled by the record sets themselves: equal if and only if those are equal.

`DriftLog` is what readers of the tables see of this: drains publish snapshots and
findings together and for good, and the findings of a snapshot are its difference from
one that may pass for the one before it. `DriftLogSpec` is the refinement.

### Inventory

`dirty` and `raised` are what an open session has written. `Lookup` is the query of
`get_or_create_asset`: every new asset is flushed at once, so a session sees all
of its own and everything committed. A subdomain takes two steps: `CreateSubdomain`
is the call of `get_or_create_asset` in `_run_subdomain_pass`, `AnnounceSubdomain` that
of `new_subdomain_finding`, which makes the same query again, with `LIMIT 1` and in no
order. A copy that another worker has committed in between may then be the one that the
finding names; `created` holds the subdomain between the two. `RecordCertificate`,
`RecordListing` and `RecordDenied` are the other things a pass does with a name,
`PassOver` is the rest, and `EndPass` also stands for a pass that raises. What the
probes return is chosen freely. `probe` is history.

`Register` is what readers see: a drain enters its records in one step, nothing without
a finding that tells of it but a bucket that denies its listing, no finding without its
asset. `RegisterSpec` is the refinement; that workers may enter the same thing twice is
part of it. Certificates and buckets are told of by a finding that points to their asset.
A subdomain is told of by its name only: with several workers its finding may point to
the copy of another, so that one asset has two announcements and another none of its own.

### TlsCheck

A full scan (`BeginFullScan`) asks crt.sh first. `SubdomainPass` is its answer, or none,
`SubdomainPassRaises` an answer that is not JSON, at which the whole scan fails before
it looks at any host. `SubdomainPass` and `BeginTlsScan` then make the choice of the
hosts in `execute_scan` and `_support_hostnames`: `Apex` with the discovered names and
`Rows`, any `MaxRows` of the assets, of which `Cut` keeps the first `MaxHosts`. A host
name is its place in the sort order. Names in `Elsewhere` are assets of another domain
of the organization, where `get_or_create_asset` leaves them. The rest is one endpoint
of `_run_tls_pass`, without the drain around it: `ResolveAddresses` is
`resolved_addresses_are_safe`, `VerifiedHandshake` and `FallbackHandshake` are the two
attempts of `fetch_certificate`, `IsExpired` and `DaysUntilExpiry` the two calls that
read the clock, `Severity` the rest of the iteration with
`severity_for_expiry_and_trust`. `Tick` and `Renew` may come between any two of them.
`cert`, `expired` and `days_left` are the locals of the loop; `hosts`, `scan_type`,
`reading` and `report` are history. A certificate is its validity, whether it is
self-signed, and a serial number. The clock only moves on; a wall clock that is set back
is not modelled.

### Tenancy and Accounts

A request is one session, from `current_user` to the commit of `get_session`. `step` is
what it does next, `newUser` and `newOrg` are the rows it has inserted and not
committed. A unique index makes `InsertUser` and `InsertOrg` wait as long as another
session holds the key, so their guards ask for it to be free, and `InsertUserFails` and
`InsertOrgFails` happen when it is committed. `CheckSlug` is one iteration of the loop
of `create_organization`; `TightBases` and `LongBases` are slugs that
`organizations.slug` cannot hold with a suffix, or at all. `Reply` builds the answer,
`Commit` sends it, `RollBack` is every exception, `HTTPException` included, and
`FailRequest` any failure at any step. `VerifyDomain` reads row and membership,
`LookUpChallenge` asks the DNS, `Commit` writes: three steps, with operators
(`SeedDomain`, `DeleteDomain`) and the user's zone (`Publish`, `Withdraw`) in between. A
user learns the token of a domain only from an operator, since registering one does not
succeed (see `registration` below), so rows of `domains` come from `SeedDomain`. Roles
other than owner are never granted or asked for by the code; they and emails are left
out. `witness` is history.

`organizations` and `owner` are two tables: the organizations, and the memberships, of
which each organization gets one. The first is flushed by the handler and the second by
the commit, so only the transaction keeps an organization without a member from being seen.

`Accounts` says what all this is for: a user signs up once, and an organization is
founded once, together with the membership of its owner. `AccountsSpec` is the
refinement. `WaitsFor` says which session waits for which; `NoCircularWait` that the
sessions of requests do not wait in a circle for the unique keys of users and slugs.
Other locks, such as those on rows that two drains update, are not modelled.

### Schedule

`clock` counts ticks since the job fired last or the process started; time in which the
process is down is not counted. `FireJob` selects any `Limit` of the verified domains,
`ConsiderDomain` is one iteration of the loop, `CommitJob` and `LoseJob` end the
transaction: one row of a deleted domain costs the whole round. `SkipJob` is a run that
APScheduler drops, because the last one goes on or its thread comes too late. A process
that restarts while the job runs is `LoseJob` and then `Restart`. `wait` and `misses`
are history: how long a domain has been due, and what went wrong for it meanwhile. A
round that leaves a domain out is no miss but takes an interval off its wait (`Excused`),
so such rounds may go on for ever. They may then starve a single domain, and
`EveryDomainScanned` says what is left: of any group of domains that is larger than the
excess over `Limit`, one is scanned again and again.
`scheduled_scan_enabled` is taken to be on.

## 3. The runs

Bounds are constants of the modules: `MaxFaults`, `MaxOutages` and the number of
`Scans` in `ScanQueue`, `MaxDrains`, `MaxSnapshots` and `DnsScansPerDrain` in
`DnsDrift`, `MaxSerial` in `Inventory`, `MaxTime` and `MaxSerial` in `TlsCheck`, the
number of `Requests` and `SlugTries` in `Tenancy`, and `MaxMisses` in `Schedule`. No
behaviour of the code is cut short by another bound.

| run | instance | shows |
| --- | --- | --- |
| `queue_safety` | 2 domains, 3 scans, 1 request, scheduled scans on, drains of 2, 1 fault, 1 outage | types, the session invariant, settled once and for ever, bounded duplicates, bounded waits, causes of failures, refinement of `ScanLedger` |
| `queue_liveness` | 1 domain, 2 scan types, scheduled scans off, with fairness | every queued scan is settled; with one enqueuer the 409 answer tells the truth |
| `concurrent_enqueuers` | 2 requests | it does not with two (violation) |
| `completed_scans` | no fault, no outage | a scan whose passes all return fails (violation) |
| `dns_drift` | 2 record types, 2 record sets, 3 drains of 2 passes, 8 snapshots | findings tell of two snapshots, and drift between drains is reported exactly; refinement of `DriftLog` |
| `prior_snapshot` | 2 drains of 2 passes | but within a drain not versus the prior snapshot (violation) |
| `racing_workers` | 2 workers, 2 names, 6 rows | announcements, assets of findings, listings and the number of copies survive a race; refinement of `Register` |
| `bucket_notes` | 1 worker, 2 names | a note outlives what it says (violation) |
| `tls_check` | 5 names, 2 rows, 4 hosts, thresholds 1 and 2, 4 ticks, 2 certificates, with fairness | hosts are left out for limits only; a risk is that of one moment; severities never drop; an expiry is reported |
| `tenancy` | 3 requests, 2 users, 2 names (one tight), 1 suffix, 2 tries, 1 domain, with fairness | answers are committed, failures have causes, organizations are for members, nobody waits in a circle, refinement of `Accounts`, every request is answered |
| `registration` | 2 requests, 1 name | a member's registration is not answered with 201 (violation) |
| `schedule` | 3 domains, 2 of them in a round, interval of 2 ticks, 2 misses, with fairness | the wait for a scan is bounded; every domain is scanned again and again, or of two domains one if the rounds are crowded |

Why the bounds are enough. Three scans let a request, the scheduler job and a batch of
two meet with one scan left over; one fault and one outage may come at any moment, and a
second finds the queue in a state the first has already left it in. With three scans and
drains of two one scan is passed over for two others. Three drains give a snapshot a
predecessor and a successor with a drain that fails between, and eight snapshots are two
passes over both record types in two of them. Six rows let a name be recorded, be rolled
back, and be recorded again by the same or another session. In `tls_check` all three
ways to leave the endpoint out occur, and so does a scan that leaves out others but not
the endpoint (that the endpoint may be the domain itself is only in the proof,
`LimitsOnly`); four ticks with thresholds 1 and 2 take a certificate through every
severity. Three requests are two that race for a key and one that comes after them or
meets the row of the loser; two tries are a slug that was looked up and one that was
not. Three domains with a limit of two make a round crowded, for as long as it likes.
`MaxMisses` bounds what goes wrong in a row while one domain waits, not how often things
go wrong or a round leaves it out; and as a deleted domain does not come back, the
finite set of domains bounds the rounds that deletions cost. The proofs below remove the
bounds for the properties they cover.

Deadlock is checked in every run: with the bounds on rows and faults exhausted the
queue always has its poll, scans and ticks go on for ever, and `DnsDrift` and
`Tenancy` have an explicit `Stop`.

### Fairness

`FairSpec` of `ScanQueue` has weak fairness on the four steps of the drain: the
interval trigger fires again and again (`create_scheduler`, `coalesce`,
`max_instances=1`, and every exception of the job is caught), a loop over a batch
goes on, the passes end because every probe has a timeout, and a session that is
done commits or is rolled back. Nothing is assumed of requests, of the scheduler
job or of operators, and faults are bounded, since a database that always fails
settles nothing.

`Tenancy` has weak fairness on `Proceed` of each request: its thread runs and its DNS
query has a timeout. A session that waits for a key is not enabled, so the fairness does
not presume that waits end; that they do is what `RequestsAnswered` shows. It does
presume a thread for each request: a pool of threads that is full of requests waiting
for one another is not modelled. Requests need not be made, and nothing is assumed of
operators and zones.

`Schedule` has weak fairness on `Tick` (time passes), `FireJob` (a trigger that is due
fires; `SkipJob` and `Restart` can come first, as often as `MaxMisses` lets them),
`ConsiderDomain` and the end of the job, and `Settle`, which is `QueuedIsSettled`.

The fairness of `TlsCheck` has three parts. `Fairness` is the code's: weak fairness on the
steps of a scan and a check, which have timeouts. `Scheduling` is strong fairness on
`BeginFullScan`: full scans begin again and again, whether or not they get to a host.
`EveryDomainScanned` and `QueuedIsSettled` give it as long as the limit covers all
verified domains; beyond it, it is assumed. `Network` is an assumption about the world and
not about the code: asked again and again, crt.sh now and then gives an answer that does
not fail the scan, and addresses and endpoint can be reached. Without it nothing could
be reported.

### What the violations say

* `completed_scans`: every scan that is drained is committed as `failed`; the log
  call at `workers/scan_runner.py:353` raises behind passes that returned.
* `concurrent_enqueuers`: the check behind the 409 answer is no guarantee.
* `prior_snapshot`: with two DNS passes of a domain in one drain (a `dns` and a
  `full` scan) the second does not see the snapshots of the first unless something
  flushed them, and even then their `created_at` may tie with others.
* `bucket_notes`: metadata is merged, so an old note stays.
* `registration`: `register_domain` answers with a row that is not flushed, so that `id`
  and the timestamps its response needs are missing; the response raises, and the
  session is rolled back.

## 4. The proofs

`ScanQueue_proofs` proves for any number of domains, scans, handler threads,
faults and crashes that `QueueInv` is inductive: `TypeOK`, `SessionInv`,
`NeverStuckRunning` and `SettledOnce`. Neither of the last two is inductive alone: that
`CommitBatch` settles a scan only once needs that the scans of an open session are
still `queued` in the table although other transactions commit meanwhile, which is
`SessionInv`. From it follow

* `TypeCorrect`, `NoScanStuckRunning`, `EachScanSettledOnce`;
* `OutcomesAreFinal`, an action property;
* `QueueImplementsLedger`: every step of the queue is a step of `ScanLedger` or
  changes nothing that clients see.

`ScanQueue_proofs` also proves `ReasonInv`, which adds what the drain has in hand to
`DomainlessFailures` and `TurnedAwayAfterOutage`: a verdict that is not committed yet
has its cause already, and without an outage every scan and every candidate has a
verified domain.

`QueueBounds_proofs` adds counting: `DuplicatesAreBounded` (`EnqueueInv`, which
counts active scans and transactions that have passed the check together, is
inductive: `ChecksAreCounted`), `SingleEnqueuer`, `BatchIsOldest`, and from it
`WaitIsBounded`. Its last part is the argument for `QueuedIsSettled` without its
temporal logic. A drain is never stuck: the guard of one of its steps always holds
(`DrainNeverStuck`, for which a queue needs a front of at most `DrainLimit` scans). It
runs down: whatever changes its session and does not end it leaves less of `Work`, which
begins at no more than `2 * DrainLimit` (`DrainRunsDown`, from `LoadInv`, the bound on a
loaded batch). And a commit settles a scan that was queued (`DrainSettles`). What these
do not say, and TLC checks, is that fairness lets those steps happen.

`DnsDrift_proofs` proves for any number of DNS passes in a drain that `DriftInv` is
inductive: it backs every finding, committed or not, with two snapshots that were taken
one after the other, and gives `FindingsAreBacked` and `AssetsMatchFindings`
(`AssetPerChangedType`, which no run checks by itself since `DriftLogSpec` implies it).
`ExactInv` adds the order of a series: later drains take their snapshots later, an open
session is later than all that is committed (`SeriesInv`), and the report is exact for
what is committed and for what will be if the open drain commits (`ReportInv`). The
query of a pass then finds snapshots of the last drain that committed any (`PassFinds`),
and `ChangesAreReported` follows without a condition on the number of passes.
`DriftImplementsLog` adds `LogInv`, that what the session of a drain holds is complete
in the sense of `DriftLog`, whatever it has flushed: then its commit publishes it. Of
two passes in one drain no more holds, as `prior_snapshot` shows;
`ChangesAreVersusPrior` proves that nothing else can break what every change finding
says of itself: with one pass of a domain in a drain (`DnsScansPerDrain = 1`) it
compares with the prior snapshot, because the session has none of its own in the series
yet (`OnePassInv`).

`Inventory_proofs` proves for any number of workers that `InventoryInv` is
inductive (versions of one asset agree on what it is; a finding of an open session
has its asset there or in the database), hence `NoOrphanFindings`; and with a single
worker that a session and the database never hold an asset twice
(`SingleWorkerUnique`). `InventoryCounts_proofs` adds `CountInv` for any finite set of
workers, a conjunction: a place holds one version of an asset (`VersionInv`);
subdomains and the announcements that their creation led to go in pairs, whichever copy an
announcement names, in the database and in every session but for what it has `created`
and not announced yet, and a session's new subdomain is nobody else's (`PairInv`), which
gives `SubdomainsAreAnnounced` by a bijection; buckets have the findings their probes call for
once their session commits (`ListInv`), which gives `BucketsAreListed`; and the copies
of an asset that are committed and the sessions that hold a new one are together at
most as many as the workers (`CopyInv`), which gives `CopiesAreBounded`. The sum is what
is inductive: a session gets a new copy only while none is committed, so the count of
committed copies alone would not be. `InventoryImplementsRegister` adds `EntryInv`, that
an open session holds a complete entry of the register whatever others commit meanwhile,
also after a pass that raised, but for what it has not announced yet; and
`RegisterIsComplete` that entries on top of one another leave the whole tables complete.
With a single worker the second query finds no other copy, so every subdomain has an
announcement that points to it (`SingleWorkerNames`).

`TlsCheck_proofs` proves for all names, limits, thresholds `HighDays < MediumDays` and
any horizon that `CheckInv` is inductive: the answers the check holds are those of its
last reading of the clock (`Answers`), which is why an expiry between the readings does
no harm. Hence `RisksAreOfOneMoment`, and with the monotony of the risk over time
(`RiskGrows`) `SeveritiesNeverDrop`. `LimitsOnly` counts: `MaxRows` rows and the two
names of the domain fit into `MaxHosts`, so that a TLS scan has nothing to cut off.
`ReachIsLookedAt` counts once more: with fewer than `MaxHosts` names that may come before
the endpoint it is among the hosts whatever rows the query answers, which is the safety
part of `ExpiryReported`. `CutTakesTheFirst` says that `Cut`, which counts the names
before each, is `sorted(hosts)[:limit]`: all names or `MaxHosts` of them, each before
every name left out. It uses that numbers are well-founded.

`Tenancy_proofs` proves for any requests, users, names and domains that `TenancyInv` is
inductive. `KeyInv` says that a key that an open session has inserted is not committed
and is nobody else's, which is what the waiting on the unique indexes buys; `TableInv`
that an organization and the membership of its owner are committed together, and that the
owner has an account; `RequestInv` what a request has seen and
still relies on, which holds because users and organizations are never deleted;
`Distinct` that no organization was promised twice. Hence `AnswersAreKept`,
`FailuresAreExplained`, `AnswersAreScoped`, `MembersVerify`, and
`TenancyImplementsAccounts`: a commit is a sign-up, a founding, or nothing that
`Accounts` sees. `NoDeadlock` follows from `TenancyInv` too: a session that others wait
for has inserted a row, hence is past its own `InsertUser`, and one that has inserted its
organization waits for nothing (`WaitsEnd`), so waits are chains of at most two.

`Schedule_proofs` proves `GapIsBounded` for every interval, limit and finite set of
domains, from `GapInv`: the wait of a domain is paid for by the intervals of its misses,
the ticks of the current interval, and the last interval while the job is at it; a round
that leaves it out takes off the interval that has just passed.

Assumed are only the constants' assumptions: `QueueAssumption` says that the sets
are finite and the limits positive; `HostsAssumption` that all names, of the domain and
elsewhere, are finitely many and `MaxRows + 2 <= MaxHosts` (40 and 90 in the code);
`DriftAssumption`,
`InventoryAssumption`, `TlsAssumption`, `TenancyAssumption` and `ScheduleAssumption`
that bounds are numbers and special values are what they are named for.

Only model-checked: the liveness properties `QueuedIsSettled`, `RequestsAnswered`,
`EveryDomainScanned` and `ExpiryReported`, which are out of the prover's reach, and the
five violations. Every invariant and action property of a passing run is proved.

## 5. What is not modelled, and the plan

Left out for good: texts, logging, token verification (Firebase Admin decides), the
order and serialisation of the rows that read-only routes return, the status that a
member gives a finding (no code reads it), roles, the migrations and the repository's
tooling. The network is a free choice of answers. Deletions of domains are not in
`DnsDrift` and `Inventory`, and the drain is one of several processes in `Inventory`
only. In `TlsCheck` the inventory has one row per name.

Next, in this order:

1. Several processes that drain one queue, as `README.md:83` of the backend
   considers: what `SKIP LOCKED` would have to give.
2. A composition of the queue with DNS drift, with `ScanQueue`'s batches as the
   drains.
3. Pure modules against reference definitions: bucket candidates and their cut,
   domain names.
