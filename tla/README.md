# ArchView in TLA+

ArchView is a Go service that reports what runs on a Docker host. It is a
resource server and an OAuth client: people sign in through an identity
provider, machines bring bearer tokens, administrators may prune images on
managed hosts through Portainer. It stores nothing; what makes it hard is in its
two caches, in the cookies it hands out, and in the other systems it asks.

Paths below are relative to `src/`; `auth.go`, `jwt.go`, `session.go`,
`endpoints.go` and `server.go` are in `internal/service/`.

## Inventory

| part | state | operations | talks to |
|---|---|---|---|
| signing-key cache, `jwt.go:60-154` | keys, fetched, lastAttempt under a mutex | `key`, `fetch` | provider's jwks endpoint |
| provider metadata, `auth.go:490-612` | metadata, metadataAt, the pointer `a.jwks` under a mutex | `provider`, `discover`, `Ready`, `verifyBearer`, `principalFromToken` | provider's discovery endpoint, key cache |
| login and sessions, `auth.go:614-1296`, `session.go` | none in the server; signed cookies in browsers | `HandleLogin`, `HandleCallback`, `HandleLogout`, `authenticate` | browser, provider, metadata |
| bearer tokens, `auth.go:1564-1786`, `jwt.go:218-320` | none | `verifyBearer`, `verifyJWT`, `introspect` | key cache, metadata, introspection endpoint |
| access decisions, `auth.go:887-1073, 1532-1601` | configuration only | `checkAllowed`, `isMachineToken`, `checkAudience`, `principalFrom…` | bearer tokens, sessions |
| endpoint management, `endpoints.go` | a fixed registry; audit lines in the log | `handleEndpointRoute`, `handlePruneImages`, `pruneEndpointImages` | Portainer, access decisions |
| Docker snapshot, `server.go:696-1250` | none | `collectDocker`, `collectDockerAll`, `collectDockerForProject` | Docker daemon |
| host metrics, `server.go:1255-1717`, `cpu.go` | none | `collectSystem`, `readCPUPercent`, the readers of report files | /proc, files a collector replaces |
| telemetry, `telemetry.go` | none | `processOverviewTelemetry` | host metrics |
| lifecycle, `cmd/archview/main.go` | process | start, `Shutdown` | all handlers |
| HTTP plumbing, `server.go:358-694` | none | routes, CORS, headers, base URLs | all handlers |

Every request passes the middleware (`auth.go:1799`), which resolves a bearer
token or a session cookie. A bearer token leads to `verifyBearer`, which takes
`a.jwks` and, only if there is none, the metadata; the token is then verified
with `jwksCache.key`. A callback uses the metadata first, and the key cache
after the exchange. Handlers run concurrently, share the two caches under two
mutexes, and hold neither while they wait for the network.

What is hard, and what correct means there:

- **signing-key cache**: the fetch runs with the mutex released. Requests must
  not stampede, an install must not put old keys over new ones, and a rotation
  must be followed within bounds although answers are cached and fetches
  throttled.
- **metadata**: discovery is not throttled, several may be under way and are
  installed in any order; `a.jwks` is read in another critical section than the
  one that wrote it. How stale can what a request uses be?
- **login**: all state is in cookies that several tabs share, that responses
  change when they arrive, if they do. A browser must be signed in by its own
  login only, within the time limits, and a failed login must not stand in the
  way of the next.
- **bearer tokens**: the checks of a token surround a wait for the provider, in
  which it expires, is revoked or loses its key. No token may be accepted that
  should not be, and none refused without a reason.
- **prune**: the removal and the knowledge of it are separate. What is reported
  and audited must be what happened; only an administrator may make it happen; and
  a stop of the process must not lose the record.
- **Docker snapshot**: four questions to a daemon that changes meanwhile. The
  answer must be right about everything that did not.
- **host metrics and telemetry**: counters that go backwards, files replaced
  between reads, absent figures that must not become zeros, one failing source
  that must not take the others with it.

## Modules

| module | models |
|---|---|
| `SigningKeys` | abstract: one trusted document, trust only moves forward, answers follow it |
| `JwksCache` | the signing-key cache; implements `SigningKeys` |
| `ProviderMetadata` | the metadata cache, `/readyz`, and who reads `a.jwks` when |
| `Sessions` | abstract: a login is its browser's, and is given to one account |
| `LoginFlow` | login, callback, logout, session cookies, restarts; implements `Sessions` |
| `TokenPolicy` | access decisions, operators only |
| `BearerAuth` | a request with a bearer token; extends `TokenPolicy` |
| `Orders` | abstract: a host carries out an order in its own time, and log and answer claim no more than it did |
| `Prune` | the prune route, Portainer's effect, audit, the end of the process; extends `TokenPolicy`, implements `Orders` |
| `DockerSnapshot` | the overviews and the Docker inventory |
| `HostMetrics` | `/api/system`, its readers, the telemetry block |
| `…Proofs` | theorems about `JwksCache`, `ProviderMetadata`, `LoginFlow`, `BearerAuth`, `Prune`, `DockerSnapshot`, `HostMetrics` |
| `MC…` | instances of these for TLC |

Operators whose comment begins with "mutant" are no part of a specification: they
are wrong variants that show a property would notice.

### JwksCache

`keysVer`, `fetchedAge` and `attemptAge` are the fields `keys`, `fetched` and
`lastAttempt`. The provider's documents are numbered, so a key is known by its
kid and its document, and "older" means a smaller number. Times are ages that stop
growing where no comparison can tell them apart. `AnswerFresh`,
`AnswerThrottled` and `StartFetch` are the three ways through the first critical
section of `key()`; `Install` is the second; `FetchFails` is every error of
`fetch()`; `Serve` is the moment the provider reads its document, which may lie
long before the install. `Tick` lets time pass, but a fetch lives no longer than
the client's timeout, `FetchBound`. In `SigningKeys` there is no cache, no clock
and no fetch; `ImplementsSigningKeys` maps its `trusted` to `keysVer`.

### ProviderMetadata

`mdVer`, `mdAge` and `jwks` are `metadata`, `metadataAt` and the url of `a.jwks`.
`ProviderCached`, `ProviderMiss`, `Install` and `DiscoverFails` are `provider()`
as called by `/readyz`, a login, a callback or a bearer request;
`BearerWithKeys`, `BearerWithoutKeys` and `BearerRereads` are the two reads of
`verifyBearer`; `CallbackVerifies` is the read in `principalFromToken`, after the
exchange. Logout with `federated=1` uses `provider()` as a login does.
`uri[v]` is the `jwks_uri` of the provider's v-th document. What the keys then
say is the business of `JwksCache`.

### Sessions and LoginFlow

There is no server state but the configuration (`secret`, `allowed`, `setting`). A flow is
one run of `HandleLogin`. `stateCookie` and `sessionCookie` are a browser's
cookies; the response of a handler is a label of the tab until it arrives
(`LoginArrives`, `CallbackArrives`, `LogoutArrives`) or is lost (`Abandon`).
A callback link can be opened in any tab of any browser once its code exists, and it
may join the state of one flow to the code of another, since the handler reads
them as two values of the query (`auth.go:1182-1183`): `flow` is the login of the
cookie, whose state, verifier and nonce the handler uses, `given` the login the code is from.
Two things can tell such a link: the provider, if it compares verifiers (`pkce`, in
`Exchange`), and the nonce of the ID token, which `jwt.go:290-293` compares (`oidc`, in
`SameNonce`). Plain OAuth 2.0 with a provider that ignores verifiers has neither, and
there `SettingsAssumption` leaves mixed links out. `HandleCallback` is split at its calls to the provider; the checks before
the first one read only the request and make one step. `CallbackFails` stands for every
error return after them, all of which clear the state cookie. `Restart` kills
handlers and may bring another secret or allowlist.

`Sessions` says what all this is for, without cookies, handlers, clocks or a
provider. `ImplementsSessions` maps its `signedIn` to the session cookies and its
`account` to the account of a flow once there is a session for it.

### TokenPolicy and BearerAuth

The claims of a token are a record; the operators of `TokenPolicy` carry the
names of the functions. `BearerAuth` follows requests one wait at a time:
`provider` (only while `a.jwks` is nil), `lookup`, `introspect`, `replied`. The clock
moves between any two steps, at most by the client's timeout per wait. The key
lookup may be answered from any document the provider has published (`used`), older
ones than before included. Nothing is assumed of the cache: a slow fetch may put an
old document over a newer one, and `provider()` may replace the whole cache
(`auth.go:523-528`). `Elsewhere` is a request that is not followed and sets `a.jwks`.
`IssuerURL` is the configured issuer, or none. A signature is abstracted to the key
that made it, a token to what its checks tell apart. `began`, `wasRevoked` and
`foundKeys` are history variables.

### Orders and Prune

`Accept` is the server beginning with a request, which only a process that is up does.
The request is then `"waiting"`: it is read, and the middleware may have to ask the
provider about its token (`auth.go:1799-1828`), for `held` ticks and at most
`AdmitTimeout`. `handleEndpointRoute` lets it pass or refuses it, in the code's order, each
check with its status and with or without an audit line; that may happen while
`Shutdown` is waiting, and the call may begin then. The call is `"sent"` from then on;
Portainer carries it out (`PortainerPrunes`) or not, before or after the handler
gives up (`Fail`, `TimesOut`). An answer may be lost (`writeJSON`): the caller has
gone, or the server's `WriteTimeout` has passed since the request was read. The process is `phase` and
`waited`: `Stop` is the signal, `Shutdown` the end of the wait for handlers,
`Crash` an end without one. A call does not end with the process that sent it. A
registry with entries and no Portainer configuration cannot be served
(`NewServer` refuses), so the 503 path is left out.

`Orders` knows no status codes, timeouts or process: an order is given by somebody
who may give it, the host carries it out at most once and whenever it likes, and
whoever waits ends in one of three ways: they confirm, they give up, or they perish
together with everybody else who waits. Each of the first two leaves one entry in the log, and an answer that
may be lost but never contradicts the entry. `ImplementsOrders` maps a call to
its order, `deleted` to what the host removed, the outcomes of the audit lines
to the log and an answer to what it tells; the orders that may be given are those
of documented administrators on hosts of the registry.

### DockerSnapshot

One variable per list the handler builds; one action per question: `Info`,
`Inspect`, `ListContainers`, `ListImages`. An image is listed with its references, so
`pictured` holds pairs. `touched` is a history variable: what changed since the first
question, and the references that were left without an image. The daemon's behaviour
is external: tags that move or go away (`Untagged`), containers shown by id after
their tag has moved, and images removed by force although a stopped container was made from
them (`ImageRemoved`) included. Services, nodes and
figures derived from the lists are left out.

### HostMetrics

One action per source, in the order of `collectSystem`; the disks take a step for the
mount table and one for each file system, the CPU share one for each sample. `host` is what the
sources hold, `during` (history) all they have held since the request came. A source that cannot be
opened or parsed is `Unreadable`; its readers swallow that, and so do their
models. The counters of `/proc/stat` are arbitrary `Readings`, and their sums are
taken modulo `Width`, as Go's `uint64` are (guest time, which the kernel counts in two
of them, is left out). The sizes of file systems wrap as well, and `int64` is the conversion
in `telemetry.go:42-48`: a size in the upper half becomes negative.
`processOverviewTelemetry` decides what of a snapshot is shown; without a hostname that
is nothing (`"hostless"`), and a handler that panics there is answered by nothing
(`"dropped"`). `At` picks the elements of a sequence at some positions in their order;
the loops over mount points, report files and entries are uses of it.

## Runs

| run | bounds | shows |
|---|---|---|
| `jwks_cache` | 2 callers, 1 kid and the absent one, 3 documents, TTL 3, throttle 2, timeout 1 | `OneFetchInFlight`, `FreshMeansRecent`, `StaleKeyOnlyWhileThrottled`, `NewKeyKnownSoon`, `CachingKeepsAnswers`, `ImplementsSigningKeys` |
| `jwks_slow_fetch` | 2 callers, 2 documents, TTL 2, throttle and timeout 1 | fetches overlap and an old document can replace a newer one; after the last rotation `CacheConverges` holds all the same |
| `metadata` | 2 requests, 2 uris, 3 documents, TTL 2, timeout 1 | `FreshMetadataRecent`, `CallbackKeysRecent`, `ReadyMeansReachedRecently`, `KeysFoundAfterDiscovery` |
| `metadata_catch_up` | 2 requests, 2 uris, 2 documents, oauth2 mode, where a document may lack the uri | `KeysCatchUp` |
| `login` | 3 tabs in 2 browsers, 2 flows, 2 secrets; OpenID Connect with mixed links, and OAuth 2.0 without, the provider ignoring verifiers | `SignedInByOwnLogin`, `ServedWithinLimits`, `SecretOutlivesNoLogin`, `OneSessionPerFlow`, `ImplementsSessions` |
| `login_recovers` | 1 tab, 2 flows, 2 secrets, 2 allowlists; OAuth 2.0 with mixed links, the provider comparing verifiers | `LoginRecovers` |
| `bearer` | 1 request among others, 12 tokens, one per check that can fail, 2 kids and the absent one, 2 key documents, with and without `OAUTH_ISSUER`, clock to 5, timeout 2 | `AcceptedInTime`, `AcceptedByPublishedKey`, `ActiveDuringRequest`, `GoodTokensAccepted` |
| `prune` | 2 attempts, 1 host, an image of each kind, authentication and grace 1, write and call timeout 2 | `TypeOK`, `SuccessMeansPruned`, `CallsAreAudited`, `StopSparesQuickRequests`, `ImplementsOrders`, `HandlersEnd` |
| `prune_admin` | 1 attempt, every combination of claims | `PrunedOnlyForAdmin` |
| `docker` | 1 handler, 2 containers, 2 images, 2 tags of a repository | `UnchangedContainersListed`, `ProjectShownWithImages`, `ReferencesPictured`, `PicturesBelong` |
| `host` | 1 request, 2 changes of sources, 10 readings, sums and sizes of width 8, 2 disks and 2 users shown | `TypeOK`, `CPUShareTrue`, `FiguresWereThere`, `NothingWithheld` |
| `host_nulls` | 1 request, nothing changes | finding |

`Prune` and `HostMetrics` have their type invariants checked, since there a type says
something of the code: each answer has a status the route documents, and a share is
within 0 and 100 percent. Those of the other modules are proved and not run.

Why these bounds are enough to be of interest. Two callers are what a race needs;
the second one stands for all others, since a caller sees only the cache. Three
documents let an old answer, a cached document and a newer one differ. The
timings are as small as keeps every comparison strict on both sides. In the
login, two settings cover what holds without verifiers, and `login_recovers` the third;
two tabs of one browser share cookies and the third tab is another
browser's. A flow nothing refers to is used again, so the number of flows bounds
how many are alive at once, not how many there are. An attempt slot of `Prune`
is reused as well. The times of `prune` keep what matters of their order: a call may
outlast the grace of a stop and use up the time for writing an answer, and authentication
may use up the grace. In `bearer` requests meet only in `a.jwks` and its keys, and
`Elsewhere` and the free choice of `used` take the others' part; the proofs cover any number. In `docker` and
`host` one handler suffices, since handlers share nothing but the host. Two
changes during a request are what it takes to replace a report and change what
is read after it; width 8 wraps with every kind of advance; three mount points
against two disks shown make both the cut and the order of the table matter.
Symmetry is used for callers, requests, uris, and tabs of one browser, in runs
that check safety only.

### Fairness

`JwksCache!FairSpec`: the clock runs, lookups keep arriving, and of infinitely
many fetches not all fail (strong fairness of `Serve` and `Install`: the provider
may fail any number of times in a row). `ProviderMetadata!FairSpec`: the same of
discoveries, and logins or probes keep arriving, which is what makes `provider()`
run at all; `KeysCatchUp` is about behaviours in which the provider stays within
reach. `LoginFlow!FairSpec`: the user keeps trying, handlers return (they are
bounded by the client's timeout), and no single step fails for ever, in time.
`Prune!Spec`: time passes, and the timers of the server, of the clients for the provider
and for Portainer, and of `Shutdown` fire (so a request does not wait to be let through for ever);
nothing makes Portainer answer, and `HandlersEnd` does not need it.
Go schedules runnable goroutines and delivers mutexes to waiters, so weak
fairness of the handlers' own steps is what the runtime gives; strong fairness is
assumed of the provider, the network and the user only. Safety
properties need none.

## Proofs

Everything below is proved for every value of the constants that the
assumptions allow: any number of callers, requests, tabs, attempts, documents, tokens,
containers and images, reports and mount tables of any length, counters of any
width, and any timing. The assumptions (`TimesAssumption`,
`MetadataAssumption`, `LoginAssumption`, `SettingsAssumption`, `PolicyAssumption`, `BearerAssumption`,
`PruneAssumption`, `HostAssumption`, `HostMetricsAssumption`, `ContentsAssumption`,
`UnknownAssumption`) say what kind of thing each constant is, but for
`SettingsAssumption`, which leaves out mixed links that nothing can tell; that of
`HostMetrics` about `Unknown` says that an absent figure is no number. The only one about
sizes, beyond that limits and timeouts are positive, is `ShortFetch`, a hypothesis of four theorems about the key cache.

`JwksCacheProofs`. `ShortFetch`: the client's timeout is below
`jwksMinRefetch` (10s against 30s by default).

- `TypeCorrect`: `TypeOK` is inductive.
- `FreshDocumentsAreRecent`, no assumption on the timeout: `FreshMeansRecent` is
  not inductive, since a document is judged by when it was installed and its
  age was settled when the provider answered. `FreshInv` adds that the current
  document is not superseded, that an answer under way was superseded no longer
  ago than the fetch has lasted (`ServedRecently`), and that what is cached was
  published.
- `StaleKeysOnlyWhileThrottled`: a step that accepts an old key can only be
  `AnswerThrottled`; the other two follow from `FreshInv`.
- `CachedAnswersAreFetched`: the three ways to an answer look at the same document.
- `OneFetchAtATime` needs `FetchThrottles`: the throttle is as young as the
  fetch under way, and by `ShortFetch` the fetch ends first. With it,
  `ServedNotOlder` (an answer under way is not older than the cached document)
  is inductive as well, and `NoRollBack` follows from it. `SingleInv` joins them.
- `CacheImplementsSigningKeys`: a step of the cache that installs or answers is
  an `Answer` of `SigningKeys`, `Rotate` is `Publish`, the rest stutters; the
  install needs `ServedNotOlder`.
- `NewKeysKnownSoon`, also assuming a throttle no longer than the TTL: `SinceInv`
  relates the ages of the attempt, the install and the latest rotation, so that
  an unknown kid that is published was published after the last attempt.

Without `ShortFetch`, `OneFetchInFlight`, `KeysNeverRollBack`,
`NewKeyKnownSoon` and the refinement are false; `jwks_slow_fetch` checks that the
cache converges even then.

`ProviderMetadataProofs`. The invariant has three parts: `Clock` (what has not been
replaced is not superseded), `Cached` (installed at most one timeout after it was
served, and together with the key cache it names), and `RequestInv`: a served
document is no older than its request, and the keys a callback is about to read
were published within the TTL and the age of the callback, whichever discovery is
installed in between. The last is why `CallbacksUseRecentKeys` holds although the
read is in another critical section. `FreshIsRecent`, `ReadyIsRecent` and
`KeysComeWithMetadata` follow from the same invariant.

`LoginFlowProofs`. `CookieInv` (cookies belong to logins of their browser) is not
inductive: a cookie comes from a response, the response from a handler, the
handler from a cookie. `TabInv` follows the login along that circle and bounds its age by the
handler's; `OneTabEach` says that no two tabs begin the same login or hold the
same redeemed code; `SessionInv` dates a session by its state, and carries the secret of the
one over to the other. `OwnCode` is where the links count: a code that was redeemed and
whose nonce was found right is of the handler's own login, by the verifier
(`Exchange`), by the nonce (`SameNonce`) or, in a setting with neither, by
`SettingsAssumption`. `OwnLoginOnly`, `LimitsHold` and `NewSecretEndsLogins` then follow.
`NoSecondSession` needs `OneTabEach`. For `LoginImplementsSessions` each action is a
`Begin`, `Give`, `SignIn` or `SignOut` or changes none of the three mapped variables.

`BearerAuthProofs`. `RequestInv` says what a waiting request knows: the issuer it
will compare with, that a token revoked when it came still is, and that a reply
is at most as old as the wait. `NeverAcceptedLate`, `OnlyPublishedKeys`, `RevocationHolds` and
`NoneRefusedForNothing` follow, for any number of concurrent requests. `OnlyPublishedKeys`
says that the key was published, not how long ago: that is for `JwksCache`
(`StaleKeyOnlyWhileThrottled`), which is proved without an assumption on the timeout.

`PruneProofs`. `AttemptInv` says what each stage of an attempt has left behind, and
that a call was made for whoever may prune; `StopInv` relates the time since a request
was accepted to how long `Shutdown` has waited: none is accepted while it waits, though
one may still be let through. From these follow `SuccessIsTrue`, `AuditComplete`,
`QuickRequestsRecorded`, `RemovalsAreAsked`, and, with a lemma that the policy of the
code grants no more than the documents do (`AdmittedIsDocumented`), `OnlyAdminsPrune`.

`PruneImplementsOrders`: each action of the route is a `Give`, `Refuse`, `Confirm` or
`GiveUp`, the end of the process a `Perish`, and Portainer's removal a `CarryOut`, whose
guard (an order was given) needs `AttemptInv`. Lemmas say what one audit line adds
to the log (`LogOf`), and what an answer that may be lost adds to the report
(`ReportOf`). `RemovedOnlyAsAsked`, which a run no longer checks apart since `Orders`
says more, is proved as `RemovalsAreAsked`.

`DockerSnapshotProofs`. Neither `UnchangedContainersListed` nor `PicturesBelong` is
inductive: both speak of an answer, while lists are made long before it.
`HandlerInv` says for each stage what each list still owes to the moment it was
read: whatever is not in `touched` is on a list exactly if it would be selected now, and
its image is shown with it. A change of the host adds to `touched` what it changes, and so
settles the debt. It also relates the two lists to each other: a reference a container is
shown with has an image or is in `touched`. `UnchangedAreListed`, `ProjectsAreWhole`,
`ListsStayTogether` and `PicturesAreOfContainers` are the stages' last. The last is about the
project's snapshot and `/api/docker`; the full overview lists every image with a tag, and
nothing more is claimed of it.

`HostMetricsProofs`. The readers are loops over files of any length. `At` is a
recursive function over the naturals; what it returns for every sequence
(`AtPicks`: the elements at the positions, in their order, none twice) is
proved by induction over a set of numbers (`Induction`). That rests on the library's
theorem that inclusion of finite sets is well-founded (`Least`), and needs no
operator as a parameter. `FiguresInv` and
`ReadingsInv` say of each figure read so far which contents, held during the request, it
came from. `DisksInv` says that some number `n` of the mount points of one table have been measured:
a disk shown has the size its file system had at one moment, and if nothing
changed meanwhile, those shown are the readable ones among the first `n` (`Measured`).
For `AllThatCouldBeRead` the root is then among them, for any limit on the disks. Sizes may wrap (`FreeOf`,
`UsedOf`), and `RootDiskShown` follows the root through the conversion to `int64`. `FiguresAreTrue` is about the
login reports, the failure count, the load average, the disks and the block's memory total, not about the hostname, the
operating system, the network, the processes or the failures of each user; `AllThatCouldBeRead` allows two
exceptions, a missing hostname and the panic, and says what each of them took. `ShareIsTrue` is
arithmetic: the sums wrap at any `Width` (`Remainder`), a share is the quotient of the two
advances (`Division`), and the rounding is off by at most half a unit (`Rounded`).

Only model-checked: the liveness properties `CacheConverges`, `KeysCatchUp`,
`LoginRecovers` and `HandlersEnd`, since fairness and ENABLED are beyond the prover.
Every other property a run expects to hold is stated by a theorem.

## Findings

| run | code | against |
|---|---|---|
| `host_nulls` | `server.go:1453`: an entry of the failed-login report whose `count` is null is published with count 0; `server.go:1539` gets it right for the accepted logins | `README.md:85-86`, `server.go:1420-1421` |

Things met while modelling that a reader of the code should know; the models
follow the code:

- `/readyz` answers 200 from cached metadata during an outage, for at most the TTL
  and a timeout (`ReadyMeansReachedRecently`), while `README.md:730` speaks of
  reaching the provider.
- Without `OAUTH_ISSUER`, a bearer token's issuer is compared only by a request that
  finds no key cache (`auth.go:1773`); with it, always (`AcceptedByPublishedKey`).
- A document with one key answers a token without a kid only in the call that fetched
  it (`jwt.go:105`); `CachingKeepsAnswers` is about lookups with a kid.
- A root file system whose size is zero, or 2^63 and more, makes the overview's handler
  panic (`telemetry.go:90`), and without a hostname the telemetry block has no figures of the
  host at all (`telemetry.go:18`); `NothingWithheld` shows that these are the only
  ways in which one source takes the others with it.
- A load average that cannot be read is published as zero (`server.go:1573`,
  `telemetry.go:70`), unlike the other figures, which are left out or null.
- The count of failed logins and the list of their users come from two files
  (`server.go:1280`) and need not belong together.
- iowait may run backwards, and the share of the CPU may then be too large;
  `CPUShareTrue` says what holds otherwise.
- `endpoints.go:230` speaks of one audit line for each attempt; those refused by the
  method check or the middleware (`WrongMethod`, `Unauthenticated`) have none.
- A regular stop grants 15s and a prune may take 60s, so a stop may lose the record of
  a slow one; `StopSparesQuickRequests` shows that it loses no other. The time counts
  from when the request was accepted: a call may begin when the stop already waits.
- The full overview leaves out exited containers on purpose (`server.go:1007`), and those
  whose names look like identifiers, although `README.md:41` says "every container and
  image"; `InFull` follows the code, and no property asserts it.

## Not modelled

- What userinfo (`enrichFromUserinfo`, `fetchUserinfo`, `fetchVerifiedEmail`) fills in:
  requests without state, whose failure is a `CallbackFails` of `LoginFlow`.
- The Docker probe of `/healthz` and `/readyz`: one request.
- Base64, JSON and the arithmetic of signatures; which documents have usable keys is a
  choice of the provider in `JwksCache`.
- Reading the environment, `ParseEndpoints`, URL validation, CORS, security
  headers, host normalisation, documentation pages: string handling
  without state. `statfs_windows.go` is a stub that is not built into the image.
- Two tabs that log in at the same time disturb each other (each callback clears
  the cookie of the other); a user with several tabs is in `login`, not in
  `login_recovers`, since the code gives no guarantee.
- The figures of services and nodes derived from the Docker lists.

## Plan

Done, in the order of importance: `JwksCache` with `SigningKeys`,
`ProviderMetadata`, `LoginFlow` with `Sessions`, `TokenPolicy` and `Prune`,
`DockerSnapshot`, `BearerAuth`, `HostMetrics`; the proofs about all of them;
`Orders`, which `Prune` implements.

Left:

1. `ProviderMetadata` composed with one `JwksCache` for each `jwks_uri`: a new cache
   for a moved uri begins without keys and without a throttle; what the two
   together promise of a rotation that also moves the uri.
2. The Docker probe of `/healthz`.
