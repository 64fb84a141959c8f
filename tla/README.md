# IronRoot: formal models and proofs

IronRoot is a small PKI. An offline ceremony makes a root and an intermediate
CA; an online server (`cmd/server`) enrolls hosts with bootstrap tokens and
issues, renews and revokes certificates over HTTP, keeping everything in one
SQLite database; an admin CLI works on the same database; `irtop` shows the
server's status in a terminal. This directory holds TLA+ models of the parts
where concurrency, failure, restarts and ordering decide, TLC configurations
that check them on small instances, and TLAPS proofs of the properties that
matter most for every size of the system.

Sources are named relative to the repository's `src/` root. `PROJECT.json`
maps every definition to the lines it translates.

## Inventory

| Component | State | Operations | Hard behaviour | What makes it correct |
| --- | --- | --- | --- | --- |
| API write handlers (`internal/api/handlers.go`, `internal/enrollment`) | none of their own; local variables of each request's goroutine | enroll, request, renew, revoke | several SQL statements per request, no transaction; requests interleave, fail and die half-way; a body may never come | answers and audit entries tell the truth and stay true; dead tokens enroll nobody; an issued certificate is recorded under the host its enrollment has; revocation is permanent |
| SQLite store (`internal/db`) | the tables | one method per statement (`RevokeCertificate` and `CreateAuditLog`: two) | a single connection serialises statements, not handlers; foreign keys; `ALTER TABLE` of old databases | rows agree with each other across tables |
| Online authority (`internal/ca/authority.go`) | the loaded intermediate | `LoadAuthority`, `SignCSR`; `DisabledAuthority` | concurrent signing, another intermediate after a restart | a signed certificate can be stored |
| Server process (`cmd/server/main.go`) | up, draining, down | start, serve, shut down | crash, ten-second shutdown deadline, restart; no timeout for bodies | requests whose body has come end; a shutdown that waits for no body ends |
| Token administration (`internal/cli/admin`, `internal/crypto/tokens.go`) | none; writes `bootstrap_tokens` | create, revoke, list | a second process on the database of a running server | revocation takes effect on later requests |
| Audit log (`internal/audit`, `CreateAuditLog`) | hash-chained rows | record, list | read-then-insert race, equal timestamps, clock set back, legacy rows, errors dropped | links lead to stored entries; without races the chain is whole |
| RBAC loader (`internal/rbac/loader.go`) | the hierarchy tables | expand, read, validate, apply at every start | statement by statement, any error ends the process; restarts with the same or other files | a listening server has what its files say; a retry ends where the first attempt would have |
| Terminal dashboard (`internal/irtop`, `cmd/irtop`) | profiles, client, snapshot, page | read the file and the command line; keys, refreshes of several pages, timer | refreshes of several profiles answer in any order and read their pages at different instants; overrides that must reach one profile only | the profile that is asked for starts, with the values meant for it; the screen shows the active profile and settles on its newest data; loading ends |
| Status API (`internal/api/status.go`) | none | summaries of the tables, the CA page | several lists read one after the other; certificates in memory judged by thresholds of its own | summaries agree with the rows, the CA page with the security check |
| Security checks (`internal/securitycheck`) | none | nineteen checks, severities, thresholds, exit code | boundaries of durations; two checks that compare the same certificates differently; the bounded listing of the audit log | the exit code turns at the instant something expires and not before; no alarm without tampering |
| Offline PKI ceremony (`internal/ca/localpki.go`, admin CLI) | files | create root and intermediate, inspect, verify | files written one by one over those of earlier runs, interruption, a server that starts meanwhile, lifetimes | what a command reports belongs together; no intermediate outlives its root; the server can use it and the checks accept it |
| Client CLI and library (`internal/cli/client`, `pkg/client`) | files | trust, enroll, request, renew | output files replaced one by one in any order, commands that overlap, `--overwrite` | key, certificate and chain belong together; nothing is overwritten unasked |
| Configuration (`internal/config`) | none | defaults, YAML, environment, flattening | telemetry settings with two keys, defaults for both and several variables | what the operator asked for is used and judged |
| Telemetry (`internal/telemetry`) | counters and gauges nothing reads back | configure, spans, metrics | settles the two keys once more | the sampler and the endpoint are those of the configuration |
| Developer commands (`internal/cli/dev`) | files | scaffolding of a local demo | none | - |

How they interact: an HTTP request calls a handler, which calls
`ValidateAndEnroll` or the authority, then the store, then `Audit.Record`
(again the store), then answers. The admin CLI opens the same database file;
`revoke-cert` goes through the HTTP API. At start the process loads its
configuration, migrates the database, runs the RBAC loader, loads the authority
from the ceremony's files and then listens. The security check and `irtop` only
read: the first the files, the configuration and the database, the second the
status API.

## Modules

| Module | What it is |
| --- | --- |
| `PkiServer` | the online server: handlers, tables, token administration, process life cycle |
| `CertRegistry` | what the server promises: an abstract register of enrollments, certificates and revocations; `PkiServer` implements it (`ImplementsRegistry`) |
| `AuditLedger` | recording and checking of the hash-chained audit log |
| `StatusViews` | what the status API shows of the server's tables; extends `PkiServer` |
| `LocalPki` | the offline ceremony and the server's loading of its files |
| `ServerConfig` | the telemetry settings several keys and variables compete for, from `Load` to `telemetry.Configure` |
| `SecurityCheck` | `security-check` on what the ceremony left, and the CA page beside it; extends `LocalPki` and `ServerConfig` |
| `ClientOutput` | the files `ironroot-client` writes |
| `RbacLoader` | loading of the RBAC manifests at start, and the tree the status page makes of the tables |
| `IrtopConfig` | from `irtop`'s file and command line to its profiles |
| `Dashboard` | `irtop` from start to end: `main`, the bubbletea model, its refreshes and its timer; extends `IrtopConfig` |
| `PkiServerProofs`, `PkiServerTablesProofs` | the theorems about `PkiServer` (types to durability; tables, register and `StatusViews`) |
| `AuditLedgerProofs`, `LocalPkiProofs`, `SecurityCheckProofs` (extends the former), `ClientOutputProofs`, `RbacLoaderProofs`, `DashboardProofs` | the theorems about the module of that name |
| `MCPkiServer` (of `StatusViews`), `MCAuditLedger`, `MCLocalPki` (of `SecurityCheck`), `MCClientOutput`, `MCRbacLoader`, `MCDashboard` | instances for TLC |

Operators whose comment begins with "Mutation:" are deliberate errors. None is
part of a specification; each shows that the property it is paired with in
`PROJECT.json` would notice that error in the code.

### PkiServer

State: one variable for each table the handlers touch, `req` (the local state
of the handler in each slot), `server`, `authority`, and `replies` (the 2xx
answers, a history). A handler is at a `step`, and each action is one statement
or one call that does not touch the database. First it waits for its body:

| Code | Actions |
| --- | --- |
| `net/http` and the router: a handler begins | `AcceptRequest` (`Receive`) |
| `decode`: the body has come, or never will in one piece | the four requests below (`Decode`), `DecodeFails` |
| `enroll` → `ValidateAndEnroll` | `EnrollRequest`, `ValidateToken`, `CreateEnrollment` |
| `requestCertificate` | `CertificateRequest`, `GetEnrollment`, then signing |
| `renewCertificate` | `RenewRequest`, `CheckRenewalWindow`, then signing |
| signing and storing | `SignCSR` or `SignError`, `EnsureCAConfig`, `StoreIssuedCertificate` |
| `revokeCertificate` → `RevokeCertificate` | `RevokeRequest`, `MarkRevoked`, `InsertRevoked` |
| `Audit.Record` | `RecordAudit`, `LoseAudit` (its error is dropped) |
| `writeJSON` | `Reply`, `LoseReply` |
| any statement's error | `StatementFails` |
| `create-token`, `revoke-token` | `CreateToken`, `RevokeToken` |
| `main` | `Start`, `Shutdown`, `Exit`, `Crash` |

Abstractions. A statement that fails changes nothing (SQLite's atomicity of one
statement). UUIDs are fresh when they are chosen. A serial (128 random bits) is
one that no running request names, and no client can name it before it is told;
it may be stored already, and the table's PRIMARY KEY then refuses the row, so
that what the properties say of certificates rests on the key and not on chance.
That two handlers do not draw the same serial at once is assumed, and nothing is
claimed of it. A hostname stands for its case-folding class. `LoadAuthority` is an
arbitrary choice of an intermediate or none. Shutdown's deadline, after which
`main` returns with handlers still running, is `Crash`. That a statement waits
for the one database connection is not modelled: no handler holds it between two
statements. The clock only advances here (`AuditLedger` sets it back).

A certificate's row has the subject the handler gives it: the host of the
enrollment it looked up, or, of a renewal, the enrollment id the request carries
(`handlers.go:101`, `139`). The DNS names in the certificate are compared with
nothing, and no property says that they are.

### StatusViews

No state of its own: each view is an operator over the tables and the clock, with
amounts given as the sets that are counted. `TokenStatus` stands for the two
copies of the same decision (`statusTokens` and `tokenStatus`). The views are
taken as if their statements ran at one instant; what a page shows that reads two
tables at two instants is not claimed. The properties relate them to what the
handlers do with the same rows: `TokenValid` and `InsideRenewalWindow`.

`Hierarchies` is what the RBAC loader may have left in the tables of CAs, which
decides what the hierarchy shows (`ShownIssuers`): without metadata one
intermediate for each row of `ca_config`, with metadata the manifests'.

Not claimed, because the code does not do it:

- With metadata the counts are looked up by the ids of the manifests, which are
  their names (`rbac/loader.go:300`), while certificates carry the fingerprint of
  their intermediate: the hierarchy then shows 0 for issuers that have issued,
  although `docs/api-cli/irtop.md:220` promises "active/revoked certificate counts
  per issuer". (`internal/api/status_test.go:71` has certificates that carry the
  manifest's id; the server stores none.) With roots only, no intermediate is
  shown at all. `ViewsAgree` says what holds: nothing is counted differently from
  the summary, and everything is counted if every issuer is shown.
- `list-tokens` fails for all tokens once one has been used: `MAX(created_at)`
  cannot be scanned into a time (`repositories.go:85`), and unlike the page it
  returns the error, against `docs/api-cli/ironroot-admin.md:125`.

### AuditLedger

`audit_logs` is a set of rows; a hash is the tuple of what is hashed, so equal
hashes mean equal inputs. The timestamp enters the hash at RFC 3339's resolution
of a second (`TicksPerSecond`). `Record` reads the clock and picks the id,
`SelectLastHash` and `InsertEntry` are the two statements of `CreateAuditLog`,
`ScanError` is the scan of a NULL hash into a string. `ChainVerifies` is the
verdict of `AuditChainCheck` on a listing, `Listings` are the orders SQLite may
return (equal timestamps are not ordered by the reader). No action changes or
deletes an entry, so every alarm is a false one. The concatenation of fields
before hashing is taken to be injective. `serial` is a history: handlers have
recorded one after the other, at increasing instants, and no row is older than
the hash columns. What races, a clock set back and legacy rows spoil is exactly
what it excludes.

A legacy row makes every later `CreateAuditLog` fail until a newer row with a
hash exists, which then cannot come about (`ScanError`); `lost` collects the ids
of entries whose recording failed.

### LocalPki

`files` holds the content of each file: the key and the password it is encrypted
under, or the certificate (its key, its signer and its end). A command goes
through the steps of `RunE`: resolve passwords, validate and sign, write file by
file, report. `CutShort` ends it anywhere, inside a write too; a file is small,
so it then holds the old content or nothing. `undisturbed`, `delivered` and
`root_certs` are histories. The server reads its four files one by one
(`LoadCert` to `LoadRoot`), and never compares key, certificate, chain and root.

The operator runs one command at a time; options that would be refused stand for
all of them (`Refused`); lifetimes are positive; `--not-before` is left alone;
`recovery.txt`, subjects and name constraints are left out.

Each certificate is within a root that was made (`WithinRoot`) although key and
certificate of the root are two files, because `x509.CreateCertificate` compares
them (`SignsFor`).

Behaviour the model shows and no property claims away: the generated password
replaces the old one before anything is validated, so that a `create-root` that
fails on its options leaves the old key with a password that does not open it;
a second `create-root` with fewer exports leaves the earlier copies beside the
new root.

### SecurityCheck and ServerConfig

Each check is an operator that yields its status; `Report` is what
`DefaultRunner` puts together and `ExitCode` what the command ends with. The
checks of the authority read the ceremony's files and the clock; what the others
look at (host, modes of files, database, TLS, telemetry) is a `Target`. Titles,
texts, counts and the order of the report decide nothing. `CaStatus` is the CA
page: it judges the certificates in the server's memory and the first one of the
chain file, with the same thresholds written down a second time.

`ServerConfig` has the two keys each of the endpoint and the sampling ratio
have, the defaults both have, and the variables: those of OpenTelemetry and those
viper derives from the keys (`IRONROOT_TELEMETRY_EXPORTER_ENDPOINT`,
`IRONROOT_TELEMETRY_OTLP_ENDPOINT`, and `IRONROOT_TELEMETRY_SAMPLING_RATIO`, which
both keys of the ratio share). `Unmarshal` is viper,
`FromEnvironment` and `FillIn` the two halves of `normalizeTelemetry`, and
`Configure` what telemetry makes of the result. Ratios are percentages.

Not claimed, because the code does not do it:

- `telemetry.otlp_endpoint` alone, in the file or as
  `IRONROOT_TELEMETRY_OTLP_ENDPOINT`, the "collector endpoint" of
  `docs/configuration/index.md:17`, has no effect: the nested key has a default,
  and `Configure` prefers it. (The deployments set `OTEL_EXPORTER_OTLP_ENDPOINT`,
  which sets both.) The same holds of `sampling_ratio` alone. `TelemetryAsAsked`
  is about the keys and variables that take effect.
- `sampling.ratio: 0.25` alone is used, but the security check looks at the flat
  key and still warns of always-on sampling.
- `sampling.ratio: 0` counts as unset and becomes the default, 1.
- The CA page's `chain_status` is "valid" for an expired intermediate, too.
- Where root and intermediate end together the lifetime check fails although the
  chain is valid.

### ClientOutput

Two shells run commands on one directory. A command generates its key, has the
server sign (`Answer`), and only then looks at the directory. `request-cert` first
looks for every file (`CheckFile`), in any order as Go iterates over a map, then
writes every file in any order; `renew` and `trust install` write at once.
`Refuse` is every error before the first write: the server's, an option that is
looked at late (`--format`, `--chmod`, `--owner`), a directory that cannot be
written. `alone` and `before`, histories, say whether a command that writes a
common file overlapped, and what the directory held when the command started.

`WholeAfterSuccess` is about the files a command writes. `renew` replaces
`tls.key` and `tls.crt` but not the `fullchain.crt`, `metadata.json` and
`fingerprints.txt` that `request-cert` wrote, and the documented renewal uses the
same `--out`: the run `stale_bundle` shows the bundle of the old certificate and
key beside the new ones.

Not claimed, because the code does not do it: two certificate commands that
overlap leave a key with another's certificate (there is no lock).

### RbacLoader

`Statements` is what `apply` will execute for a list of documents: the first
loop's upserts, then the second's, with a `Failure` where it returns an error.
`Apply` executes the next one against the tables' keys, foreign keys and UNIQUE
fingerprints, `ApplyError` ends the process, `Stop` kills it anywhere, and
`Start` begins again with whatever files are deployed by then. `base`, a
history, is what the tables held when the present documents were first read.
`LoadedFaithfully` compares the tables with a declarative reading of the
documents (`Effective`, `Grants`) that knows nothing of loops.

Two consequences of "rows are never deleted" are in the model and are not
claimed away: a grant taken out of the files stays in the tables (although
`docs/contributing/local-development-rbac.md:14` calls the files the source of
truth), and a root or intermediate renamed in the files meets its old row's
UNIQUE fingerprint, so that the server does not start any more.
`RestartConverges` assumes that the documents declare each root and intermediate
once: with one declared twice, the second load meets the fingerprint the first
left and may fail where the first succeeded.

### IrtopConfig and Dashboard

`FileValid` collects the faults `LoadProfiles` finds, `BuildProfileSet` sorts the
names, and `ProfilesFrom` is what `main` makes of the set with `--profile`,
`--server` and `--token`, in `main`'s order. A name is a number and may have a
space before it, since some comparisons trim and others do not.

`Dashboard` begins with a file and a command line (`Start`), shows one snapshot
(`RunText`) or runs the terminal program (`RunTui`), with one action for each key
and each message of `Update`. A refresh captures the client and the profile when
it is started (`RefreshNow`), reads the overview and then each further page
(`ReadOverview`, `ReadDetail`), while the server's data change (`DataChange`,
`now`), and answers whenever it likes (`SnapshotMsg`); building a client may fail
whenever a profile is activated. The running timer is named after the profile
whose interval it waits for. Which view is shown and its layout are left out.

An answer for the active profile is taken even if a later refresh has answered
before it, so older data may come back for one interval; `SettlesOnNewest`
states what remains true. The error of every page but the overview is dropped
(`client.go:128`), and an empty list then stands for one that could not be read.

## Runs

Deadlock is not checked in any run: the bounds let every model stop, and a
server that is down with nobody to start it, or a dashboard that was quit, is at
rest.

| Run | Shows | Bounds |
| --- | --- | --- |
| `server` | types; `IssuedToEnrolled`, `StoreNeverRefused`, `EnrollmentsUsedLiveTokens`, `AuditTruthful`, `RepliesDurable`, `RevocationsMarked`, `RevocationPermanent`; refinement of `CertRegistry` | 2 slots, 3 requests, 2 hosts, 2 enrollments, 2 serials, 1 token, 2 intermediates, 2 starts; live and already expired TTLs; statements may fail, bodies may never come |
| `liveness` | `RequestsFinish`, `ShutdownEnds` under fairness; `TokenStatusTruthful` and `ViewsAgree` (with `DueMeansRenewable` as a part) while certificates and tokens expire | 2 slots, 2 requests, 2 intermediates, 1 serial, 1 start, a clock of 4 instants: a certificate is far from its end, due, at its end, and expired; 4 hierarchies: no metadata, a root alone, an intermediate of another name, and one named by each fingerprint; no symmetry |
| `ledger` | types, `LinksResolve` with three writers, failing statements, a clock that is set back and a legacy row; `SerialChain` and `SerialVerifies` as long as nothing of that happens | 4 ids, listings of 3 |
| `ceremony` | types, `RootDelivered`, `IntermediateDelivered`, `WithinRoot`, `UndisturbedLoadIssues`, `ViewsTrackDelivered`, `TelemetryAsAsked` | 3 commands, 1 of them cut short, 1 start of the server, lifetimes 1 and 4, one optional copy, a clock of 3 instants; passwords generated, from a file or none; 3 targets: a production host, the ceremony's own machine, a developer's; configuration files whose two endpoints differ or whose flat one is not set, with all ratios; every environment that has variables of the endpoint or of the ratio, which are settled apart, but not of both |
| `client` | types, `WholeAfterSuccess`, `ProtectsExisting` (with it: a refused command changes nothing) | 2 shells, 2 commands, 1 of them cut short, 2 authorities; `metadata.json` stands for the files that describe the certificate |
| `rbac` | types, `LoadedFaithfully`, `RestartConverges` (with it: incomplete files apply nothing), `EveryRowShown` | 2 files of 11 contents each, 2 deployments, 3 starts |
| `dashboard` | types, `StartsAsAsked`, `ShowsActiveProfile`, `PageMatchesData`, `DetailsFollowOverview`; `LoadingEnds`, `SettlesOnNewest`, `PaceFollows` under fairness | every file of up to 2 profiles (3 keys, one of them with a space; either server key, both, none, a fault), every command line; then 2 refreshes at once, 1 page after the overview, 1 change of the data |

Why this is enough. Every hazard in the handlers needs two requests at once, the
administrator, and a crash or a failing statement; three requests let one
finish, with its rows in the tables, before the other two race. Two intermediates
and two starts are the least with which a foreign key could point to the wrong
one. A third writer lets one entry be chained while two others race. Two
deployments and three starts let a load be cut short, retried, and followed by
other files. Three ceremony commands are a root, an intermediate and one more of
either before, between or after them, with every mixture of their files. Two
client commands are one whose leftovers the other meets, or two that overlap; a
third adds no new pair. The lifetimes let an intermediate end long before its
root, just before it, together with it, or be refused, and the clock passes the
warning and the end of the short ones. Two refreshes let one of an earlier
profile, or an older one of the same, be overtaken; two profiles are the least
between which an override could go to the wrong one, or two names collide. What the
proofs cover does not depend on these numbers.

### Disagreements between code and text

Five runs end in a violation; each states what a document or message says.

| Run | The text | The code |
| --- | --- | --- |
| `token_once` | a bootstrap token is a "one-time token" | use is never recorded; it enrolls until it expires or is revoked |
| `renew_window` | on renewal the API must "verify renewal window" | the window is tested only if the request carries `?serial=` of a stored certificate |
| `ledger_race` | an alarm means the log "has been tampered with or corrupted" | two handlers that record at once fork the chain |
| `ledger_window` | the same | from the 501st entry on the listing no longer begins at the beginning of the chain |
| `stale_bundle` | in the certificate directory "`fullchain.crt`" is "`tls.crt` plus CA chain for nginx and Caddy" (`docs/api-cli/ironroot-client.md:45`) | `renew` leaves the `fullchain.crt` of the earlier certificate, whose key it has replaced (`client.go:212`) |

Two more behaviours were met and are no findings, since nothing promises
otherwise: an answer may have no audit entry (`LoseAudit`, `audit.go:27`), and a
renewal stores whatever enrollment id the request carries (`handlers.go:139`).

## Fairness

`PkiServer`: weak fairness of each handler (`net/http` runs every accepted
request in a goroutine, every statement returns, with an error if its context is
cancelled) and of `Exit` (`main` proceeds when `Shutdown` returns). `SignError`
and the success of a statement are alternatives of one fair disjunction, so no
statement is assumed to succeed. Nothing is assumed of clients, operators, clock
or crashes, and in particular not that a body follows its header: the server has a
`ReadHeaderTimeout` and no `ReadTimeout` (`main.go:82-86`), so `Decode` and
`DecodeFails` are steps of the client. `RequestsFinish` therefore begins where the
body has arrived, and `ShutdownEnds` where no handler waits for one. A shutdown
that does wait ends at its deadline, which is a `Crash` and is not relied on.

`Dashboard`: weak fairness of each refresh's answer and of the reading of each
page (the HTTP client has a timeout of ten seconds), and strong fairness of the
timer: `tea.Tick` always fires, but in the model a tick also needs one of the
bounded slots for its refresh, which come free again and again. Nothing is
assumed of keys or of the servers' data. The other modules have safety properties only.

## Proofs

All theorems are of the form `Spec => []P` or `Spec => [][A]_vars`, for any
number of slots, tokens, hosts, certificates, commands, profiles and so on. Their
assumptions are the named `ASSUME`s of the modules:

- `ConstantsAssumption`, `NoneIsNoRow` (`PkiServer`): durations and bounds are
  naturals, `None` is no identifier and no row.
- `HierarchiesAssumption` (`StatusViews`): metadata without a root has no
  intermediate, by the foreign key.
- `LedgerAssumption` (`AuditLedger`): ids are numbers, bounds are naturals.
- `CeremonyAssumption`, `ContentsAssumption` (`LocalPki`): lifetimes are
  positive, the kinds of password are those of the options; `Missing`, `Torn` and
  `None` are no certificate, key or chain, `Plain` is no number.
- `ServerConfigAssumption` (`ServerConfig`): ratios are naturals, `Unset` is no
  ratio, endpoint or sampler, `NoEndpoint` is no endpoint.
- `SecurityCheckAssumption` (`SecurityCheck`): targets, configuration files and
  environments have their shape.
- `ClientAssumption` (`ClientOutput`): bounds are naturals, the server has at least
  one authority, `Described` are files that `request-cert` writes.
- `RbacAssumption` (`RbacLoader`): bounds are naturals, `None` is no name and no
  fingerprint, a file's content is a sequence of documents.
- `ConfigAssumption`, `InputsAssumption` (`IrtopConfig`), `DashboardAssumption`,
  `NoneIsNoData` (`Dashboard`): names are numbers, files and command lines have
  their shape, no file has more than `MaxProfiles` profiles, `None` and `Blank`
  are no data.

`PkiServer` is proved in layers. Each uses the ones before it as known
invariants, so that no inductive step has to carry everything at once:

1. `ServerTypeCorrect`. `TypeOK` is not inductive: a row's `not_after` comes from
   the request, the request's fields from earlier steps, and a handler at the
   step "insert" must hold a token, not `None`. `TypeInv` adds, for each step of
   each operation, which fields are set.
2. `RevocationsArePermanent`. From the types and the PRIMARY KEY: a row is written
   only where there is none, and no statement resets one (`TablesOnlyGrow`), also
   not a revocation whose second statement fails.
3. A helper of the layers below, `SerialsApart`: nobody but its handler names a
   serial that is signed and not yet stored, since no client was told it. It rests
   on what is assumed of random numbers, and is no claim about the code.
4. `AnswersAreDurable`, `AuditIsTruthful`, `ListedIsMarked`. `DurableInv` says
   that a handler at "audit" or "reply" has its effect in the tables, that one
   between the two statements of a revocation has marked the row if there is one,
   and that what was answered, recorded or listed is there. The tables only grow,
   so every other step preserves it.
5. `ForeignKeyHolds`, `OnlyEnrolledAreIssued`, `DeadTokensEnrollNobody`
   (`PkiServerTablesProofs`). Each adds what a handler knows between the
   statement that looks and the one that writes: the authority stays the same
   until no handler is left; an enrollment that was looked up is still there, and
   the host the handler remembers is still its host (`IssueInv`); a token that passed `ValidateToken` was not among those that were
   dead when the request's body arrived, and keeps its host (`LiveInv`).
6. `ServerImplementsRegistry` (also there): five statements are steps of `CertRegistry`, each
   with `DurableInv` as the reason why the register allows it, and every other
   step leaves the register alone.
7. `TokenStatusIsTruthful`, `ViewsAlwaysAgree` (also there). The first
   follows from the types. The second is for any metadata: what the hierarchy
   counts is counted by the summary (`HierarchyCounts`). That it counts everything
   when every row of `ca_config` is shown needs that every stored certificate's
   issuer has such a row (`IssuerInv`, from the foreign key).

`AuditLedger`: `LinksNeverDangle` needs that a writer at "insert" holds the empty
hash or the hash of a stored row (`LinkInv`). `SerialUseKeepsChain` is about every
instance, races and all: the history `serial` says whether they have happened. Its
invariant (`SerialInv`) adds that while `serial` holds at most one writer is at
work, at the instant the clock shows and later than every row, and that the hash
it holds is the newest row's. `SerialLogsVerify` says what the admin sees of such
a log: `AuditChainCheck` accepts it while all of it fits in one listing. `ListedInv`
adds that the table is finite and no two rows have the same instant, so that a
listing with as many rows as the table has lists all of them, in one order only
(`ListingComplete`), in which each row's link is the row before it
(`CompleteListingVerifies`).

`LocalPki`: all its invariants.

1. `CeremonyTypeCorrect`. `TypeInv` gives every file one kind of content and says
   which fields of the command are set at which step; in particular that the files
   still to be written are the command's own.
2. `IntermediatesStayWithinRoot`. `WithinInv` adds that the root certificate on
   disk, if it can be read, is one that was made; the one that signs is then
   compared with the key and with the lifetime.
3. `RootIsDelivered`, `IntermediateIsDelivered`. `ProgressInv`: a command takes
   back what was delivered before it writes (`TakenBack`), its password is in its
   file before anything is signed (`PasswordWritten`), every file it is asked for
   either holds what it made or is still on its list (`Progress`), and the files of
   one command are not the other's, except that an intermediate is undone by a new
   root.
4. `DeliveredFilesServe`. `LoadInv` follows a server that nothing disturbs from
   file to file: what it has read is what was reported.

`SecurityCheck`, on top of these: `ViewsAgreeOnDelivered`, that the exit code of
`security-check` and the CA page follow the certificates the ceremony last
reported. `RootKeysInv` says that a root certificate is known by its key, which
makes the issuer's key that both views compare the same as the issuer; `PageInv`,
that the root in the server's memory is one that was made. With `ProgressInv`,
`WithinInv` and `LoadInv` what a view reads is then what was delivered
(`DeliveredCertificates`), and the verdicts, the gate and the page follow from the
thresholds. `TelemetryAsConfigured` needs no induction: it follows what `LoadConfig`
makes of every file and environment, key by key and variable by variable
(`EndpointOfFlatKey`, where the flat key stands in for an empty nested one).

`ClientOutput`: all its invariants. `ClientTypeCorrect` gives every file
one kind of content. `SafeInv` then holds together what the two others need:
`Apart` (nobody who runs may write a file of a command that is alone, nor of a
success still remembered), `Progress` (each of its files holds the command's
answer or is still to be written) and `Checked` (what was found free was free
when the command started). A write therefore touches no file that anyone else
relies on (`OthersUntouched`), and one lemma per kind of step does the rest.

`RbacLoader`: all its invariants.

1. `TypesHold`, `RowsShown`. `Shape` adds to the types that every row has its
   parents (`ParentsPresent`) and that no fingerprint is there twice, in the tables
   and in `base`, whatever was applied and cut short before.
2. `LoadsFaithfully`. `LoadInv` counts: a server that loads has executed the first
   `e` of its statements and the others are pending. Executed statements of a
   complete list leave, for each id, what the last one of that id wrote, which is
   what the declarative reading (`Effective`, `Grants`) says.
3. `RestartsConverge`. `ConvergeInv` says that the tables are those a single load
   from `base` has after some prefix of the statements, except for rows which the
   prefix already wrote and a repeated load has just taken back to an earlier
   declaration of the same id (`Reached`). Executing a statement of that prefix
   again keeps this, and so does the first one after it. Roots and
   intermediates are declared once, so that such rows are never theirs, and a
   repeated statement cannot fail where the first did not.

The proofs need what `FlattenSeq` and `Outcomes`, recursive functions over the
naturals, are for every argument. The library's induction theorems are out of
reach, because they take an operator, but the well-foundedness of `<` is not: a set
that holds 0 and the successor of each member holds every natural (`Induction`).

`Dashboard`: `DashInv` says of every running refresh that its client is of its
own profile or missing, and that it has read the pages after the overview (`Good`),
and of the display that page, error, snapshot and profile belong together. From it
come `ActiveProfileIsShown`, `PageFitsData` and `DetailsAreNotOlder`.
`ProfilesAreAsAsked` is about `main`, for every file and command line: the profiles
are those of the file, `--profile` selects its own, `--server` and `--token` change
the one that is then active and no other. The profiles are sorted by their names.
Where one ends up is the number of names before it (its rank); ranks differ, so
they are all the positions (`RanksDiffer`, with a fact about finite sets of the
library), and sorting loses nothing and duplicates nothing. `StartInv` carries this from
the step that reads the inputs to the one that uses the profiles.

Every invariant, every action property and the refinement that a passing run
checks is stated by a theorem. Only model-checked are the liveness properties
(`RequestsFinish`, `ShutdownEnds`, `LoadingEnds`, `SettlesOnNewest`,
`PaceFollows`): fairness is defined by `ENABLED`, about which the provers know
nothing. The five runs that find a disagreement are counterexamples and need no
proof.

## Not modelled

- Cryptography and encodings (keys, CSRs, PEM, bcrypt and AES of files) are what
  they yield; modes and owners of files are left out, except that a check reports
  on a mode.
- The developer commands: directories and constant files written once in a fixed
  order; nothing runs beside them and nothing reads their state back.
- Views, layout and help page of `irtop`, texts and rendering of the security
  check, the server and telemetry pages of the status API: they display settings.
- Of the configuration every key with one source and one reader; of telemetry the
  spans and counters (nothing reads them back; the gauge of active certificates
  is documented as approximate).
- `EvaluateTokenTTL` (`securitycheck`), which nothing but a test calls.
- `inspect` and `verify-chain` with a leaf; the warning of `inspect-token`.

## Plan

Done: `PkiServer`, `CertRegistry`, `AuditLedger`, `StatusViews`, `RbacLoader`,
`LocalPki`, `ServerConfig`, `SecurityCheck`, `ClientOutput`, `IrtopConfig`,
`Dashboard`; theorems for all their safety properties.

Next, in this order:

1. The safety half of the liveness properties, as lemmas: that a request at any
   step has an action that can take it on, and that every such action brings it
   nearer to its reply (for `RequestsFinish`); the same for a refresh.
2. `StatusViews`: pages that read two tables at two instants
   (`statusEnrollments`, `statusOverview`) as actions with a local state.
3. Rows under ids joined with dashes (`loader.go:335`) as pairs that may collide.
