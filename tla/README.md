# TLA+ models of UnCrackable L5

The program is a small client/server protocol. An Android app asks a server for a challenge,
has the phone's keystore attest a fresh key against it, sends the certificate chain back and
gets a flag, once, if the chain proves what the server wants to know. The server is one
Cloudflare Worker, of which any number of isolates run, and one Durable Object, of which
exactly one runs.

The modules here are models of that code, read from `src/`, with TLC configurations that
check them on small instances and proofs, checked by TLAPS, that need no instance.

## 1. The system

### Inventory

| Component | Source | State | Operations | What is hard | What makes it correct |
| --- | --- | --- | --- | --- | --- |
| Request handlers | `server/src/worker.ts` | none of its own; suspended at awaits | `/v1/challenge`, `/v1/attest` | requests overlap at every await; calls to the object are delayed or their replies lost; a time read before a call is used after it | a challenge buys one flag, in time |
| Challenges | `server/src/challenges.ts` | none (MAC'd time stamp) | `issue`, `verify`, `expiresAtSeconds`, `id` | clocks of different isolates disagree | nothing is accepted early, late, or unissued |
| Replay table | `server/src/state.ts` | `used_challenges` | `consume` | it forgets: purge margin against clock skew and delay | it remembers for as long as any clock accepts |
| Request budget | `server/src/state.ts` | `request_budget` | `allowRequest` | stamps arrive late and out of order, and purging is driven by them | 60 per minute, exact counts, three rows |
| Revocation snapshot | `server/src/state.ts` | snapshot row, alarm (persistent); cache (lost on restart) | `revocations`, `alarm`, `refresh` | `refresh` awaits three times: refreshes overlap and end in any order; failures, restarts | answers are stored, recent and complete within a window; a refresh is always scheduled |
| Revocation feed | `server/src/revocations.ts` | none | `parseFeed`, `snapshotTtl` | headers that shorten the lifetime | never fresher than the origin says |
| Chain verifier | `server/src/verifier/verifier.ts`, `path.ts` | none | `verify`, `verifyChain`, `validateWithAnchor` | a step machine over chains of any shape, tried again per anchor | accepts exactly the chains the rules describe |
| Key description | `server/src/verifier/keydescription.ts` | none | `parseKeyDescription` | two classes of failure, in an order that decides the code | the code names the control that fired |
| Verdict and policy | `verifier.ts`, `path.ts` | none | constraints, proof of possession, provisioning, patch levels | order of checks; months across years | policy only turns an acceptance into its own two codes |
| Configuration | `server/src/config.ts` | `cached` promise | `runtime` | concurrent first requests, failed loads | one load; a failure is not kept |
| DER, Base64, X.509 | `der.ts`, `base64.ts`, `x509.ts` | none | parsing, signatures | bytes | the corpus |
| Activity | `MainActivity.kt`, `Status.kt` | button, status line, a thread per instance | `onCreate`, `onDestroy`, `runAttempt` | recreation while an attempt runs, process death | the button comes back; "accepted" is true |
| Flag store | `FlagStore.kt`, `FlagRecord.kt` | keystore alias, record and temporary file (persistent) | `store`, `read`, `storedTiers` | failures and kills between any two steps; attempts of two instances sharing names | whole records, under hardware keys, never lost to a failure |
| Attestation key | `Attestation.kt` | throwaway alias | `prove` | fallback and clean-up | no alias is left behind |
| Client network | `Backend.kt`, `Protocol.kt`, `Pins.kt` | none | `attest` | lost answers | no retry, no partial result |

### Interaction

```text
MainActivity -> Backend --HTTP--> worker.handle --RPC--> State.allowRequest
     |             |                    |--------------> State.revocations -> refresh -> Google's feed
     |         Attestation              |--------------> State.consume            ^
     v                                  '-> AndroidVerifier.verify              alarm
  FlagStore
```

Handlers run concurrently and share only the `State` object. Inside the object, calls run one
at a time up to their next await: `allowRequest` and `consume` have none and are atomic,
`revocations` and `alarm` are not. On the phone each activity instance has one thread; the
instances of one process share the keystore and the files.

## 2. Modules

| Module | Models | Extends |
| --- | --- | --- |
| `Challenges` | the time check of `verify`, `expiresAtSeconds` | |
| `Tables` | `consume` and `allowRequest`, each a function from the old table to the new | |
| `Worker` | `handle` with both routes, overlapping requests, skewed clocks | `Challenges`, `Tables` |
| `FlagService` | abstract: a challenge is issued once and redeemed at most once, in time | `Challenges` |
| `WorkerProofs` | theorems about `Worker`, which implements `FlagService` | `Worker` |
| `RevocationService` | abstract: what `State.revocations` promises, an answer no older than `Window` | |
| `Backend` | `Worker` with the cached runtime, the list a request holds and the serials of its chain | `Worker`; an instance of `RevocationService` |
| `BackendProofs` | theorems about `Backend`, which implements `Worker` | `Backend` |
| `RequestBudget` | calls of `allowRequest` under way, delayed, from skewed clocks | `Tables` |
| `RequestBudgetProofs` | theorems about `RequestBudget` | `RequestBudget` |
| `RevocationSnapshot` | `revocations`, `alarm`, `refresh`, restarts | an instance of `RevocationService` |
| `RevocationSnapshotProofs` | theorems about `RevocationSnapshot`, which implements `RevocationService` | `RevocationSnapshot` |
| `ChainVerifier` | `verify` from the submitted chain to a leaf with a description | |
| `ChainVerifierProofs` | theorems about `ChainVerifier` | `ChainVerifier` |
| `KeyDescription` | the parser of the attestation extension, as operators | |
| `Verifier` | `verify` from the request to its verdict | `KeyDescription`; an instance of `ChainVerifier` |
| `DescriptionProofs` | theorems about what the parser and the constraints make of a description | `Verifier` |
| `VerifierProofs` | theorems about `Verifier`, which implements `ChainVerifier` | `DescriptionProofs`; an instance of `ChainVerifierProofs` |
| `FlagClient` | activity instances, their attempts: both calls, the attestation key, `FlagStore.store`, the status line | |
| `FlagClientProofs` | theorems about `FlagClient` | `FlagClient` |
| `MC*` | instances for TLC: symmetry, defined constants | the module of that name |

The parts are composed through their abstract specifications. `RevocationSnapshot` is shown to
implement `RevocationService`; `Backend` takes the list a request gets from `RevocationService`
and so relies on nothing else of the snapshot. `Verifier` contains `ChainVerifier` itself.

### Correspondence

**Worker.** One *slot* is one request. `pc[w]` names the await the handler is suspended in:
`admitted` (after `allowRequest`), `fetching` (the first `verify` done, `revocations` called),
`attesting` (the verifier runs), `sending` (second `verify` done, `Challenges.id` is computed),
`consuming` (`consume` sent with the time read at that moment, in `stamp[w]`), `replying`
(`consume` returned true). Each action is the code between two awaits, with the early returns
as its other branch; `Fail` is every end without an effect on shared state. `ConsumeReplyLost`
runs `consume` and answers 503. The certificate verdict and the revocation list are
unconstrained inputs, so nothing proved here depends on them. `wins` and `flags` are history.

**Tables.** An absent row of `request_budget` is a count of 0 (the code reads `?? 0` and a
row, once there, has a count of at least 1). The SQL of each method is one expression.

**Backend.** `awaited[w]` is the load of the configuration whose promise request *w* awaits
(`runtime(env)`), `cached` the load whose promise the isolate keeps, `loads[l]` its progress. A
load that fails clears the cache. `lists[w]` is what `State.revocations` returned to the request
and `serials[w]` the serials of the chain it carries: `VerifyChain` requires the two to be
disjoint, which is the one consequence of `rejectListed` that matters here. Everything a request
holds is dropped when it ends (`Release`). One isolate is modelled, since the cache is its own.

**RevocationService.** `Return` may give any list that holds every serial listed more than
`Window` seconds ago and none that was never listed; `Drop` ends calls, several at once when the
object restarts.

**RevocationSnapshot.** A *run* is a call of `revocations` or the run of `alarm`. `fetching` ends
with the complete body (`Receive`) or an exception (`FetchFails`); `hashing` is the await of the
digest; the write and `setAlarm` follow in one step, because storage writes without an await between
them become durable together; `refreshed` is the return to `revocations`, which reads the row again.
A digest or a write that fails stores nothing and sets the alarm to retry (`StoreFails`); what fails
after the write, the `DROP` or `setAlarm` itself, leaves the row stored and the alarm to the `catch`
(`SetAlarm`), with no event in between. `listedAt` is the outside world: when Google listed a
serial. A response carries the list as it was when it left the origin, `age` seconds before it
arrived, and `reported` is what its Age header says of that: the truth, or nothing, which the code
counts as 0. The row and the cache hold a list beside its digest; the code compares digests only,
and so do `Serve` and `HasDigest`. That no list is served under another's digest is part of the
invariant (`DigestsMatch`), not of the model.

**ChainVerifier.** `at` walks from the certificate under the root to the leaf; `parent` is the
certificate whose key and name the next one must match (`prevKey`, `prevSubject`). A failed
walk returns to `selecting`, which goes on with the next anchor. `Above(a, i)` is the certificate
above certificate *i* when the path hangs on anchor *a*, `Holds(a, i)` what the walk down *a*
demands of certificate *i*, `StepAt(n)` the step after *n* certificates: the vocabulary of the
invariant, none of it in the actions.

**KeyDescription.** A DER element is its type, the number or text it holds or the elements inside
it, and `good`, whether reading its content fails. A conversion gives a value, null
(`AttributeError`) or abandons the description (any other error). `InOrder` is the rule that the
code's order of statements implies: the first conversion that fails decides. Every tag whose
conversion can abandon the description has its name, read or not, so that an entry counts for
its own tag only. Those that are never read and can only give null share one of two: the texts
`unreadText`, the rest `ignored`.

**Verifier.** A call is given a submission, which stays; the walk is that of `ChainVerifier`, and
`verdict` is how far the call is after it (`constrained`: `verifyChain` returned success;
`possessed`: the signature is verified) and finally its code. `Parsed` is the outcome of the parser
on the leaf's description and `CheckVerdict` what the constraints say of it, in their order.
Names on the certificates carry the attributes from which `PathSecurityLevel` is read.

**FlagClient.** `asking` and `sending` are the two calls of the round trip, `attest_*`, `signing`
and `deleting` the body of `Attestation.prove` between them; `entry[i]` says whether the keystore
holds the throwaway key of the attempt of instance *i*. `DeleteEntry` is the `finally`, reached
from every failure after the alias was chosen. `ForCode` is the mapping of a server's code to the
status line. A record is represented by the key it is encrypted under. `target` and `temp`
are the contents under the two names; `writing[i]` tells which name the file that thread *i*
has open has now, since a rename or a delete does not close it. `purging` is the second half
of `requireHardware`'s refusal, after the key has been deleted; `checking_strongbox` is the check inside
the `try` of the StrongBox, whose `ProviderException` still leads to the TEE (`StrongBoxFails`). At each
of its steps `store` may be refused what it asks for: a key, what protects it, its deletion
(`LoadFails`, `GenerateFails`, `CheckFails`), the cipher (`EncryptFails`), the temporary file (`OpenFails`,
`WriteFails`), the rename (`RenameFails`). A refused `File.delete`, which nobody looks at, leaves
any of the names (`DeleteFiles`).

## 3. Runs

| Run | Question | Instance | Result |
| --- | --- | --- | --- |
| `worker` | can overlap, delay, loss, purging and skew buy a second or a late flag? does it implement `FlagService`? | 2 challenges, 3 requests, lifetime 2, margin 1, skew 1, 5 seconds | holds |
| `backend` | how stale may a revocation list be when a flag goes out; do requests share a load of the configuration; is a failed load tried again? | 1 challenge, 2 requests, 1 serial, 2 loads, window 1, lifetime 2, 7 seconds | holds |
| `request_budget` | can a minute be overdrawn, miscounted or forgotten? | 2 calls, limit 2, skew 30 s, delay 60 s, half-minute ticks over 5 minutes | holds |
| `snapshot` | does the object implement `RevocationService`; are answers stored and recent, and is a refresh always scheduled? | 2 callers and the alarm, 1 serial, 1 restart; feed and storage fail | holds |
| `snapshot_skewed` | the same with stamps off by a second, with `no-store` and long `max-age`; is every call answered? | 1 caller and the alarm; feed and storage fail | holds |
| `snapshot_healthy` | does the alarm renew the row in time? | no failures | holds |
| `snapshot_serials_stay` | is `refresh` atomic, as the header says of every operation? | 2 callers | violated |
| `chain` | does the walk accept exactly what the rules describe, and always decide? | 1 to 5 certificates below the root with one altered, 2 to 4 with two altered; 3 anchors | holds |
| `chain_critical` | does a critical extension on the leaf count as missing? | one altered certificate | violated |
| `verdict` | is everything proven that is accepted, does each code name the control that fired, does the policy only replace acceptances, is its window twelve calendar months? | 9 honest chains and altered ones, 4 proofs, DESCS descriptions with one or two altered elements, 19 patch levels in 6 months | holds |
| `client` | do failures and kills at any step of one attempt after another leave a flag under a software key, a torn record, one that was readable and no longer is, or a dead button? does an attempt that fails leave its attestation key? | 1 screen, 4 keys; every call, and all that `store` asks of the keystore and the file system, may fail | holds |
| `client_torn` | is a record replaced atomically when two instances overlap? | 2 screens | violated |

**Why the bounds are enough.** In `worker`, a replay needs a winner, a purge by a later stamp and a
second request that verified before; these are three requests, and lifetime plus margin plus twice
the skew fit in the time bound, so that rows are purged and challenges expire in the run. The proofs
remove these bounds. In `backend`, seven seconds are more than the window, the lifetime and twice
the skew together, so that a list can become as stale as the property allows; two loads let one fail
and the next be begun, or two be begun at once by the mutant. In `request_budget` five minutes are
two more than the table keeps. In the snapshot runs the time bound is several lifetimes of a row,
and two callers and the alarm are enough for a refresh that overtakes another while a third party
reads; with one serial, a list has one other to be mistaken for. In `chain`, a path of the longest
accepted kind has four certificates; every field of a certificate that the walk reads is altered, in
every pair of places, and the anchor that signs is the second of its name. In `verdict`, the call
keeps no state between submissions, so what matters is the variety of one: every attribute takes
every type and every value on either side of the one that is wanted, sets have zero to three members
against limits of two, and the list of the software and that of the hardware are altered together
where their controls compete for the code. The months of the clock lie on both sides of the turn of
two years. In `client`, four keys allow a refused key, a fallback and two further generations.

`MaxTime`, `MaxKeys`, `MaxLoads`, `MaxCrashes`, `CallTime`, `AlarmLatency` and `MaxDelay` bound the
behaviours; the first four only keep TLC finite. `CallTime` and `AlarmLatency` say that a refresh
and an alarm are not arbitrarily late, which the properties that mention time need (the code cuts
the fetch off after three seconds); `MaxDelay` likewise for a call of `allowRequest`.
`DigestAssumption` says that no two lists with one digest are found. `WorkerAssumption` says that
clocks are at most `(PurgeMargin + 1) / 2` seconds off: 30 seconds for the code's 60. No delay is
assumed in `Worker`. `ElementsAssumption` is the shape of parsed DER, elements that hold elements,
the last two of a description being lists of tagged ones; `ClockAssumption` says that the worker's
clock reads a year of four digits, as do the years next to it, since a patch level has no room for
more.

`CHECK_DEADLOCK FALSE` is used for `ChainVerifier` and `Verifier`, functions that end, and nowhere
else.

**Fairness.** `RevocationSnapshot!Fairness`: each of the awaits of a refresh settles (the fetch
has a timeout, the digest and `setAlarm` are local) and a due alarm is delivered, which the
platform promises at least once. `FlagClient!LiveSpec`: a running thread goes on; every call
it makes is bounded (`callTimeout` in `Backend.kt`, local calls otherwise). Nothing is assumed
of users, of the feed, of Google, of crashes or of requests. `ChainVerifier!LiveSpec`: a call
that is running goes on.

## 4. What the runs found

Three statements of the repository's own comments and documents are not what the code does.

1. `state.ts:3` says "every operation is atomic by construction". `refresh` is not: an older
   list can replace a newer one. `ListedSerialsAreSeen` bounds the consequence: the age of any
   answer is at most the lifetime of a snapshot plus the CDN's age plus twice the skew.
2. `FlagStore.kt:23` and `DESIGN.md` say records are replaced atomically. The temporary name is
   shared by all attempts, and an interrupt does not stop a running `store`; when the activity
   is recreated during an attempt, the next attempt can rename a file that the old one has just
   truncated. In the same situation `AcceptedMeansStored` and `RecordOutlivesFailures` fail
   too, as TLC finds when it is asked for them with two screens: one attempt's new key makes the
   record of the other unreadable. `HardwareKeysOnly` and `NoKeyLeftBehind` hold with any number
   (section 5).
3. `server/README.md` says a critical attestation extension on the leaf counts as missing. It
   does at the target step only; a path that ends earlier never gets there.

Smaller ones need no run:

* `state.ts:52` says of `consume` "true exactly once per challenge id". It answers true again
  once the row has been purged. The flag is safe because `handle` verifies a third time; what
  holds is `GrantedOnceWhileRedeemable`.
* `server/README.md` also says that the chain's root is matched against a configured anchor. The
  anchor is selected by the issuer of the certificate below (`path.ts:172`); a root that comes
  with the chain has only to be self-issued and unlisted. `VouchedFor` holds all the same.
* `parseAnchors` (`verifier.ts:48`) calls for self-signed CA certificates, but rejects only an
  anchor without basic constraints, not one whose `cA` is false. The anchors are the operator's.

## 5. Proofs

Eight modules hold theorems. They are about every value of the constants that satisfies the
assumptions stated, by name, in the modules (`WorkerAssumption`, `RevocationSnapshotAssumption`...), and
each rests on an inductive invariant that the runs' properties follow from. Every invariant and
every action property of a passing run is the conclusion of a theorem, and so are the refinements. Four
of these theorems have a hypothesis besides: `Healthy` and `NoOverlap`, below, are what the properties
need in the code itself, and `snapshot_healthy` and `client` run under them.

**`WorkerProofs`** (`TypeCorrect`, `FlagsOnce`, `RowsRetained`, `ConsumedOnce`). `SingleUse` alone
is not inductive: the third `verify` of one request says nothing of another that is about to
answer. `OneHolder` says that while a challenge can still be accepted anywhere at most one request
holds a grant, and none after the flag is out; it rests on `GrantedOnceWhileRedeemable`, that on
`RetainedWhileRedeemable`, and that on `RowsDescribeChallenges` (a row carries the true expiry),
the bound on stamps in `SlotsHoldIssued`, and the assumption on the skew: a stamp that purges a
row is so late that no clock accepts the challenge (`PurgeSparesRedeemable`). A challenge that no
clock accepts cannot be redeemed, so nothing is claimed of it. `ImplementsService`: under the
identity mapping of `clock`, `issued` and `flags`, each step is a `Tick`, an `Issue`, a `Redeem`
or a stutter; `Redeem` needs `OneHolder`.

**`RequestBudgetProofs`** (`BudgetTypes`, `BudgetSafe`, `BudgetCounts`, `BudgetBounded`).
`BudgetKept` follows from `CountsExact` for the minutes that are `Open`; a minute that is not can
no longer be charged. `SentRecently` keeps stamps near real time and `NoFutureRow` keeps rows from
lying ahead of every clock, so that the purge can only reach minutes that are closed and leaves
three of them.

**`RevocationSnapshotProofs`** (`TypeCorrect`, `AlwaysScheduled`, `StoredAnswers`, `RecentAnswers`,
`RevokedSeen`, `ImplementsService`). The age of an answer is the age of the row it was read from
plus the time a waiter has spent on it. `DownloadsAreRecent` bounds what a refresh has in hand, by
`RunsAreShort`; `RowIsRecent` what it stores; `WaitersFindRecent` what a caller reads after its
refresh. `StoredAnswers` rests on `DigestsMatch`: the cache is served when its digest is the row's,
and only because both are the digests of the lists beside them is that list the row's. A refresh
that overtakes another spoils none of these, since each bounds the age of whatever list is there and
not its order. The refinement of `RevocationService` hides the row, the cache, the alarm and the
runs, and maps a restart to `Drop`.

`RowNeverLapses` is about a feed that answers and an object that is not restarted (`Healthy`); the
margin of 30 seconds must cover the alarm's latency and a refresh, and a response must be good for longer
than the earliest next refresh, 60 seconds on, takes to end: one that may be kept for a minute only is not.
`RowIsCovered` says that the run of the alarm, under way or scheduled, is done before the row
expires. A caller's refresh can put the row of a shorter life there and moves the alarm with it, and
one that is overtaken can put an older row there; `DownloadsLast` says that what a refresh still holds
has enough life left for both.

**`BackendProofs`** (`ImplementsWorker`, `BackendTypes`, `FreshFlags`, `OneLoad`,
`ForgottenFailures`). Each step of `Backend` is one of `Worker` or leaves it alone, so every theorem
about `Worker` holds of the composition. `FlagsAreFresh` joins the two clocks of the system:
a list is fetched after its challenge was issued (`ListsPostdateIssue`), so a serial it lacks
was listed at most `Window` seconds before the issue or later, and the third `verify` lets no flag
out when the challenge's lifetime is over. `CachedIsLive` ties the cache to the one load that
runs or has succeeded.

**`ChainVerifierProofs`** (`TypeCorrect`, `AcceptsTheAcceptable`, `AlwaysVouchedFor`), for chains
and anchor lists of any length. `WalkSoFar` says that what the current walk has passed is what
`Holds` demands, that `parent` is the certificate above, and that `step` is `StepAt` the number
passed; `TriedInVain` that every earlier anchor fails some certificate. With `StepAt` the machine
of steps becomes a count, and `AcceptableIff` shows that the count and the declarative reading
agree. Rejection needs `TriedInVain`; acceptance `WalkedWhole`.

**`DescriptionProofs`** (`ApplicationIdIs`, `CheckVerdictIs`, `RecentIs`), for any elements, limits and
configuration. The properties of `Verifier` read a description without the parser; here the two are
brought together, from the inside out. For each conversion a lemma says when it gives a value, which
one, and when it fails (`ConvertIs`, `SoundIs`, `ApplicationIdIs`); an attribute is then the last entry
with its tag, converted (`AttributeIs`, `HasNumberIs`, `HasOnlyIs`); a list is read unless one of its
entries abandons it, and a sound description is always read (`ListIs`, `ParsedIs`, `SoundIsParsed`). Each
constraint becomes a clause about the description (`LevelIs`, `AppIs`, `BootIs`, `SigningIs`), and since
the first that is not met decides, `CheckVerdictIs` reads the verdict off the clauses. `InOrder`, the
scan for the first failure, is a choice of the least index, so that no induction is needed but
the existence of a least element (`HasMin`). `RecentIs` does the same for patch levels: counting back
month by month agrees with `year * 12 + month`, since a least month where they part would have a
neighbour where they do not (`MonthsBackIs`), and the digits of a level are its quotient and remainder.

**`VerifierProofs`** (`WalksTheChain`, `TypeCorrect`, `AcceptanceIsEarned`, `OnlyTurnsAcceptances`,
`NamesFirstControl`, `MalformedIsNamed`, `PatchesAreRecent`). The call implements the walk it contains,
so the walk's invariant holds during the call; after the walk, `parent` is the
leaf, so the key that the proof of possession is checked with is the leaf's. `CheckVerdict` depends on
the submission and the chain alone, which no step after the walk changes, so `VerdictIsFounded` can
refer to it for ever: a verdict is what the constraints said, or they were met and it is
what the later checks said. With `CheckVerdictIs` and `RecentIs` the four properties follow. One case needs
the walk again: nothing on an acceptable chain is listed (`NothingListed`).

**`FlagClientProofs`** (`TypeCorrect`, `HardwareOnly`, `KeyDeleted`), for any number of screens that
overlap. `HardwareKeysOnly` needs `HoldersAreHardware` (an attempt past the check holds a key in
hardware) and `NoKeyLeftBehind` needs that a thread ends only through `DeleteEntry` (`OneAttempt`
and the program counter).

`WholeRecord`, `StoredIfAccepted` and `RecordSurvives` are about behaviours in which no two attempts
are under way at once (`[]NoOverlap`), with any number of instances one after the other, kills and
failures; with overlap they are false (section 4). `AloneInv` has one part per hazard: only the
temporary file is ever open (`OpensOnlyTemp`), so no failure tears the record; the attempt's key is
the one under the alias (`HoldsCurrentKey`) and what it renames is written under it
(`RenamesItsRecord`), so the new record can be read; a key is made, refused or deleted only when the
record is not under it (`LocksNobodyOut`, by `HardwareKeysOnly` and by `KeysAreMade`, that a
generated key is no earlier one), so that a record that can be read stays readable until another
replaces it; and success is posted after the rename (`StoredBeforePosted`), on a screen that sees no
attempt as long as it says so (`StoredWhileShown`).

Only model-checked: liveness (`CallsAnswered`, `ButtonComesBack`, `Decided`), since the prover does not
handle `ENABLED` and fairness; and, of the three runs that end in a violation, the violations.

## 6. Not modelled

* Bytes: DER, Base64, JSON, X.509 fields, names and signatures, and the layout of a flag record.
  They are functions without state, pinned by the repository's corpus and unit tests; the models
  use their results. A model of them would be the parser again, character by character.
* The rules of `parseFeed`: it gives a list or throws, and both are modelled. Any rule that is
  broken throws before anything is stored.
* Which configuration value is missing: one failure stands for all, as the requests cannot tell.
* Status codes and texts, except where a property needs the outcome; the health route.
* A `setAlarm` that fails in the `catch` of `refresh`, after whatever failed in its `try`: the
  call is rejected and no alarm is set. The first failure is modelled. A read of the row that throws in
  `revocations` rejects the call and changes nothing; to the worker that is a lost call.
* An Age header that is there and wrong: it tells the truth or cannot be read.
* `FlagStore.read` and `storedTiers`: the shipped UI does not call them. That a record can be read
  is what `AcceptedMeansStored` says.
* An attestation key that the keystore refuses to delete (`Attestation.kt:48` swallows it), which
  stays. A kill during `prove` leaves one too: `Kill` is in the model, but the alias is random and nothing
  looks for it again, so `NoKeyLeftBehind` is about attempts that end by themselves.
* Keystores before Keystore 2 (Android 11 and earlier), where a handle names an alias.
* TLS, OkHttp, build and release files.

## 7. Where it can go

A client composed with `Backend` would show that a challenge spent by a lost answer costs a user
exactly one more attempt.
