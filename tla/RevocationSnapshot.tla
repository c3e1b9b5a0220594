------------------------- MODULE RevocationSnapshot -------------------------
(***************************************************************************)
(* state.ts: the revocation snapshot of the State Durable Object, a copy of *)
(* Google's attestation status feed kept in one row, refreshed by an alarm  *)
(* and, when it is absent or expired, by the request that needs it.         *)
(*                                                                          *)
(* The object is single-threaded, but refresh awaits the feed, the digest   *)
(* and the alarm: other calls run in between, so several refreshes can be   *)
(* under way and end in any order.  A refresh is therefore split where it   *)
(* awaits; each piece runs alone.                                           *)
(*                                                                          *)
(* The row holds a list and its digest; the cache holds the list that was   *)
(* parsed last and the digest it was parsed under, and nothing but the two  *)
(* digests is compared.                                                     *)
(***************************************************************************)
EXTENDS Integers

CONSTANTS
    Serials,        \* certificate serial numbers
    Calls,          \* calls of revocations that can be under way together
    AlarmRun,       \* the run of the alarm handler
    NoRow,          \* the table is empty
    NoList,         \* nothing is cached
    Sha256,         \* Sha256[list]: the digest of the joined serials of a list
    Unavailable,    \* the answer { serials: null }
    MaxTtl,         \* MAX_TTL_SECONDS: 300 in the code
    Retry,          \* seconds to the next refresh at the earliest: 60 in the code
    RefreshMargin,  \* REFRESH_MARGIN_SECONDS: 30 in the code
    MaxAges,        \* max-age of the feed's responses; 0 for no-store and no-cache
    MaxAge,         \* the oldest copy of the feed a CDN serves (its Age), in seconds
    Skew,           \* how far a caller's stamp may be from real time, in seconds
    CallTime,       \* bound: seconds a refresh takes (the fetch is cut off after 3)
    AlarmLatency,   \* bound: seconds from an alarm's time to its run
    FeedFails,      \* whether fetching the feed can fail
    StorageFails,   \* whether the digest, a SQL statement or setAlarm can fail
    MaxCrashes,     \* bound: restarts of the object in a behaviour
    StartTime,      \* real time at the start of a behaviour
    MaxTime         \* bound: real time never passes this second

ASSUME RevocationSnapshotAssumption ==
    /\ MaxTtl \in Nat \ {0} /\ Retry \in Nat /\ RefreshMargin \in Nat
    /\ MaxAges \subseteq Nat /\ MaxAge \in Nat
    /\ Skew \in Nat /\ CallTime \in Nat /\ AlarmLatency \in Nat /\ MaxCrashes \in Nat
    /\ 2 * CallTime <= MaxTtl
    /\ FeedFails \in BOOLEAN /\ StorageFails \in BOOLEAN
    /\ StartTime \in Nat /\ MaxTime \in Nat
    /\ Skew <= StartTime /\ StartTime <= MaxTime
    /\ AlarmRun \notin Calls
    /\ \A list \in SUBSET Serials : list # Unavailable

\* Two lists with one digest are not found.
ASSUME DigestAssumption ==
    \A a, b \in SUBSET Serials : Sha256[a] = Sha256[b] => a = b

\* No time at all: a serial not listed, an alarm not set.
Never == -1

Runs == Calls \cup {AlarmRun}

Lists == SUBSET Serials

Digests == {Sha256[list] : list \in Lists}

VARIABLES
    clock,      \* real time in seconds; also the State object's clock
    listedAt,   \* listedAt[s]: when Google listed serial s, or Never
    row,        \* the snapshot row or NoRow, persistent
    cache,      \* the list parsed last and its digest or NoList, lost on a restart
    alarm,      \* the time the alarm is set to or Never, persistent
    pc,         \* pc[p]: the await run p is suspended in
    now,        \* now[p]: nowSeconds, the stamp of run p
    started,    \* started[p]: real time at which p began its refresh
    fetched,    \* fetched[p]: the list and the expiry p is about to store
    answer,     \* answer[p]: what revocations returned
    crashes     \* restarts so far

vars == <<clock, listedAt, row, cache, alarm, pc, now, started, fetched, answer, crashes>>

runVars == <<pc, now, started, fetched, answer>>

Times == 0 .. (MaxTime + Skew + MaxTtl + Retry)

Rows == [serials : Lists, digest : Digests, expires_at : Times, fetched_at : Times]

CachedLists == [digest : Digests, serials : Lists]

Nothing == [serials |-> {}, expires_at |-> 0]

TypeOK ==
    /\ clock \in StartTime .. MaxTime
    /\ listedAt \in [Serials -> Times \cup {Never}]
    /\ row \in {NoRow} \cup Rows
    /\ cache \in {NoList} \cup CachedLists
    /\ alarm \in Times \cup {Never}
    /\ pc \in [Runs -> {"idle", "fetching", "hashing", "refreshed", "answered"}]
    /\ now \in [Runs -> Times]
    /\ started \in [Runs -> Times]
    /\ fetched \in [Runs -> [serials : Lists, expires_at : Times]]
    /\ answer \in [Runs -> {Unavailable} \cup Lists]
    /\ crashes \in 0 .. MaxCrashes

Init ==
    /\ clock = StartTime
    /\ listedAt = [s \in Serials |-> Never]
    /\ row = NoRow
    /\ cache = NoList
    /\ alarm = Never
    /\ pc = [p \in Runs |-> "idle"]
    /\ now = [p \in Runs |-> 0]
    /\ started = [p \in Runs |-> 0]
    /\ fetched = [p \in Runs |-> Nothing]
    /\ answer = [p \in Runs |-> Unavailable]
    /\ crashes = 0

-----------------------------------------------------------------------------
\* (Mutant: the origin's max-age is taken as it is.)
SnapshotTtl_OriginOnly(maxAge, age) == maxAge

\* snapshotTtl and the clamp around it: at most MaxTtl, and never past the
\* origin's max-age less the Age the response reports.
SnapshotTtl(maxAge, age) ==
    CASE maxAge <= age          -> 0
      [] maxAge - age > MaxTtl  -> MaxTtl
      [] OTHER                  -> maxAge - age

\* The feed's list as it was at time t.
ListAt(t) == {s \in Serials : listedAt[s] # Never /\ listedAt[s] <= t}

Later(a, b) == IF a >= b THEN a ELSE b

\* (Mutants: the alarm is set to the expiry itself; seconds are taken for milliseconds.)
NextAlarm_AtExpiry(stamp, expiresAt) == Later(stamp + Retry, expiresAt)
RetryAlarm_Milliseconds(stamp) == (stamp + Retry) * 1000

\* The alarm after a refresh that stored a row, and after one that failed.
NextAlarm(stamp, expiresAt) == Later(stamp + Retry, expiresAt - RefreshMargin)
RetryAlarm(stamp) == stamp + Retry

\* (Mutant: any row will do.)
Fresh_AnyRow(stamp) == row # NoRow

Fresh(stamp) == row # NoRow /\ stamp < row.expires_at

GoTo(p, await) == pc' = [pc EXCEPT ![p] = await]

\* Run p ends, and what it worked with is gone.
Forget(p) ==
    /\ now' = [now EXCEPT ![p] = 0]
    /\ started' = [started EXCEPT ![p] = 0]
    /\ fetched' = [fetched EXCEPT ![p] = Nothing]

-----------------------------------------------------------------------------
\* Time passes, but no run outlives CallTime and no alarm waits beyond its latency.
Tick ==
    /\ clock < MaxTime
    /\ \A p \in Runs : pc[p] # "idle" => clock < started[p] + CallTime
    /\ alarm # Never /\ pc[AlarmRun] = "idle" => clock < alarm + AlarmLatency
    /\ clock' = clock + 1
    /\ UNCHANGED <<listedAt, row, cache, alarm, runVars, crashes>>

\* Google lists a serial.
List(s) ==
    /\ listedAt[s] = Never
    /\ listedAt' = [listedAt EXCEPT ![s] = clock]
    /\ UNCHANGED <<clock, row, cache, alarm, runVars, crashes>>

\* The tail of revocations: parse the row unless the cache carries its digest, and
\* return the cache.
Serve(p) ==
    /\ cache' = IF cache = NoList \/ cache.digest # row.digest
                THEN [digest |-> row.digest, serials |-> row.serials]
                ELSE cache
    /\ answer' = [answer EXCEPT ![p] = cache'.serials]
    /\ GoTo(p, "answered")

\* revocations(nowSeconds) finds a fresh row.
ServeStored(p) ==
    /\ pc[p] = "idle"
    /\ \E n \in (clock - Skew) .. (clock + Skew) :
          /\ Fresh(n)
          /\ now' = [now EXCEPT ![p] = n]
    /\ Serve(p)
    /\ started' = [started EXCEPT ![p] = clock]
    /\ UNCHANGED <<clock, listedAt, row, alarm, fetched, crashes>>

\* revocations(nowSeconds) finds none, and begins a refresh.
BeginRefresh(p) ==
    /\ pc[p] = "idle"
    /\ \E n \in (clock - Skew) .. (clock + Skew) :
          /\ ~Fresh(n)
          /\ now' = [now EXCEPT ![p] = n]
    /\ GoTo(p, "fetching")
    /\ started' = [started EXCEPT ![p] = clock]
    /\ UNCHANGED <<clock, listedAt, row, cache, alarm, fetched, answer, crashes>>

\* The alarm goes off and its handler begins a refresh.
AlarmFires ==
    /\ pc[AlarmRun] = "idle"
    /\ alarm # Never
    /\ alarm <= clock
    /\ alarm' = Never
    /\ now' = [now EXCEPT ![AlarmRun] = clock]
    /\ started' = [started EXCEPT ![AlarmRun] = clock]
    /\ GoTo(AlarmRun, "fetching")
    /\ UNCHANGED <<clock, listedAt, row, cache, fetched, answer, crashes>>

\* refresh is over: revocations reads the row again, the alarm handler returns.
EndRefresh(p) ==
    IF p = AlarmRun
    THEN GoTo(p, "idle") /\ Forget(p)
    ELSE GoTo(p, "refreshed") /\ UNCHANGED <<now, started, fetched>>

\* (Mutant: the failed refresh sets no alarm.)
FailRefresh_NoAlarm(p) == EndRefresh(p) /\ UNCHANGED <<row, cache, alarm>>

\* A refresh fails: its row stays as it was and the alarm retries.
FailRefresh(p) ==
    /\ alarm' = RetryAlarm(now[p])
    /\ EndRefresh(p)
    /\ UNCHANGED <<row, cache>>

\* The body of the feed is complete.  It left the origin age seconds before it
\* reached the object, which was at the earliest when the fetch began; the response
\* reports that age, or none that can be read, which counts as 0.
Receive(p) ==
    /\ pc[p] = "fetching"
    /\ \E arrival \in started[p] .. clock, age \in 0 .. MaxAge, maxAge \in MaxAges :
       \E reported \in {0, age} :
          LET expiresAt == now[p] + SnapshotTtl(maxAge, reported) IN
          IF clock >= expiresAt
          THEN FailRefresh(p)
          ELSE /\ fetched' = [fetched EXCEPT ![p] =
                     [serials |-> ListAt(arrival - age), expires_at |-> expiresAt]]
               /\ GoTo(p, "hashing")
               /\ UNCHANGED <<row, cache, alarm, now, started>>
    /\ UNCHANGED <<clock, listedAt, answer, crashes>>

\* No answer in time, a bad status, a body too large or malformed.
FetchFails(p) ==
    /\ FeedFails
    /\ pc[p] = "fetching"
    /\ FailRefresh(p)
    /\ UNCHANGED <<clock, listedAt, answer, crashes>>

\* The digest, the read of the row or its write fails: nothing is stored.
StoreFails(p) ==
    /\ StorageFails
    /\ pc[p] = "hashing"
    /\ FailRefresh(p)
    /\ UNCHANGED <<clock, listedAt, answer, crashes>>

\* The stored digest is the digest of list.
HasDigest(list) == row # NoRow /\ row.digest = Sha256[list]

\* The row is stored, and what is left of the try sets the alarm from the new expiry.
\* If that fails, the catch sets it as after a failed refresh, but the row stays.
SetAlarm(p) ==
    \/ alarm' = NextAlarm(now[p], fetched[p].expires_at)
    \/ StorageFails /\ alarm' = RetryAlarm(now[p])

\* The digest is known: the row keeps its list and gets a new expiry.
StoreSame(p) ==
    /\ pc[p] = "hashing"
    /\ HasDigest(fetched[p].serials)
    /\ row' = [row EXCEPT !.expires_at = fetched[p].expires_at, !.fetched_at = now[p]]
    /\ SetAlarm(p)
    /\ EndRefresh(p)
    /\ UNCHANGED <<clock, listedAt, cache, answer, crashes>>

\* (Mutant: the upsert of a row that is there forgets the serials.)
StoreNew_KeepsSerials(p) ==
    /\ pc[p] = "hashing"
    /\ ~HasDigest(fetched[p].serials)
    /\ row' = [serials |-> IF row = NoRow THEN fetched[p].serials ELSE row.serials,
               digest |-> Sha256[fetched[p].serials],
               expires_at |-> fetched[p].expires_at,
               fetched_at |-> now[p]]
    /\ cache' = [digest |-> Sha256[fetched[p].serials], serials |-> fetched[p].serials]
    /\ SetAlarm(p)
    /\ EndRefresh(p)
    /\ UNCHANGED <<clock, listedAt, answer, crashes>>

\* The list is another one, or the first: the row and the cache get it with its digest.
StoreNew(p) ==
    /\ pc[p] = "hashing"
    /\ ~HasDigest(fetched[p].serials)
    /\ row' = [serials |-> fetched[p].serials,
               digest |-> Sha256[fetched[p].serials],
               expires_at |-> fetched[p].expires_at,
               fetched_at |-> now[p]]
    /\ cache' = [digest |-> Sha256[fetched[p].serials], serials |-> fetched[p].serials]
    /\ SetAlarm(p)
    /\ EndRefresh(p)
    /\ UNCHANGED <<clock, listedAt, answer, crashes>>

\* revocations reads the row again after its refresh.
ServeRefreshed(p) ==
    /\ pc[p] = "refreshed"
    /\ Fresh(now[p])
    /\ Serve(p)
    /\ UNCHANGED <<clock, listedAt, row, alarm, now, started, fetched, crashes>>

\* (Mutant: the call tries again for as long as there is no fresh row.)
FailClosed_Retries(p) ==
    /\ pc[p] = "refreshed"
    /\ ~Fresh(now[p])
    /\ GoTo(p, "fetching")
    /\ UNCHANGED <<clock, listedAt, row, cache, alarm, now, started, fetched, answer, crashes>>

\* There is still no fresh row: { serials: null }.
FailClosed(p) ==
    /\ pc[p] = "refreshed"
    /\ ~Fresh(now[p])
    /\ answer' = [answer EXCEPT ![p] = Unavailable]
    /\ GoTo(p, "answered")
    /\ UNCHANGED <<clock, listedAt, row, cache, alarm, now, started, fetched, crashes>>

\* The caller has its answer.
Return(p) ==
    /\ pc[p] = "answered"
    /\ GoTo(p, "idle")
    /\ Forget(p)
    /\ answer' = [answer EXCEPT ![p] = Unavailable]
    /\ UNCHANGED <<clock, listedAt, row, cache, alarm, crashes>>

\* The object restarts.  Runs under way are gone and their callers see an error; an
\* alarm whose handler had not finished goes off again.
Crash ==
    /\ crashes < MaxCrashes
    /\ crashes' = crashes + 1
    /\ cache' = NoList
    /\ alarm' = IF pc[AlarmRun] # "idle" THEN clock ELSE alarm
    /\ pc' = [p \in Runs |-> "idle"]
    /\ now' = [p \in Runs |-> 0]
    /\ started' = [p \in Runs |-> 0]
    /\ fetched' = [p \in Runs |-> Nothing]
    /\ answer' = [p \in Runs |-> Unavailable]
    /\ UNCHANGED <<clock, listedAt, row>>

\* The steps the object takes on a run that is under way.
Proceed(p) ==
    \/ Receive(p)
    \/ FetchFails(p)
    \/ StoreFails(p)
    \/ StoreSame(p)
    \/ StoreNew(p)
    \/ ServeRefreshed(p)
    \/ FailClosed(p)
    \/ Return(p)

Next ==
    \/ Tick
    \/ \E s \in Serials : List(s)
    \/ \E p \in Calls : ServeStored(p) \/ BeginRefresh(p)
    \/ AlarmFires
    \/ \E p \in Runs : Proceed(p)
    \/ Crash

Spec == Init /\ [][Next]_vars

\* A run under way goes on (each of its awaits settles), and a due alarm goes off.
Fairness ==
    /\ \A p \in Runs : WF_vars(Proceed(p))
    /\ WF_vars(AlarmFires)

LiveSpec == Spec /\ Fairness

-----------------------------------------------------------------------------
\* What the promises about answers rest on, clause by clause: how far the clock can be
\* from where a run began; what a download holds; what the row holds, for as long as it
\* may be served; and what it holds once a waiting call finds it fresh, because it was
\* then stored by a refresh that began at most CallTime before that call.
ListedBefore(t) == {s \in Serials : listedAt[s] # Never /\ listedAt[s] < t}

Listed == {s \in Serials : listedAt[s] # Never}

RunsAreShort ==
    \A p \in Runs : pc[p] # "idle" =>
        /\ started[p] <= clock /\ clock <= started[p] + CallTime
        /\ now[p] - Skew <= started[p] /\ started[p] <= now[p] + Skew

DownloadsAreRecent ==
    \A p \in Runs : pc[p] = "hashing" =>
        /\ ListedBefore(started[p] - MaxAge) \subseteq fetched[p].serials
        /\ fetched[p].serials \subseteq Listed
        /\ fetched[p].expires_at <= now[p] + MaxTtl

RowIsRecent ==
    row # NoRow =>
        /\ ListedBefore(row.expires_at - MaxTtl - Skew - MaxAge) \subseteq row.serials
        /\ row.serials \subseteq Listed
        /\ row.expires_at <= row.fetched_at + MaxTtl
        /\ row.expires_at <= clock + Skew + MaxTtl

WaitersFindRecent ==
    \A p \in Calls : pc[p] \in {"fetching", "hashing", "refreshed"} /\ Fresh(now[p]) =>
        ListedBefore(started[p] - CallTime - MaxAge) \subseteq row.serials

AlarmNeverAnswers == pc[AlarmRun] \notin {"refreshed", "answered"}

\* The digest in the row and the one in the cache are those of the lists beside them.
DigestsMatch ==
    /\ row # NoRow => row.digest = Sha256[row.serials]
    /\ cache # NoList => cache.digest = Sha256[cache.serials]

NoneAnsweredEarly == \A p \in Runs : pc[p] # "answered" => answer[p] = Unavailable

\* How long after Google listed a serial an answer may still lack it: the lifetime
\* of a snapshot, the age of the copy it was made from, and the skew of the stamps it
\* was made and served by.  The time a refresh takes does not count, because the
\* lifetime starts before the download does (state.ts:90).
Window == MaxTtl + MaxAge + 2 * Skew

Answers(p) == pc[p] # "answered" /\ pc'[p] = "answered" /\ answer'[p] # Unavailable

\* No answer lacks a serial that was listed more than Window seconds ago, whichever
\* refreshes overlapped and whichever of them stored its row last (state.ts:63-112).
ListedSerialsAreSeen ==
    [][\A p \in Calls : Answers(p) =>
          \A s \in Serials :
              listedAt[s] # Never /\ listedAt[s] + Window < clock => s \in answer'[p]]_vars

\* The snapshot, with its overlapping refreshes, its cache and its restarts, implements
\* the abstract revocation service (state.ts:63-112).
Service == INSTANCE RevocationService
    WITH clock <- clock, listedAt <- listedAt,
         answer <- [p \in Calls |-> answer[p]], NoAnswer <- Unavailable

ServiceSpec == Service!Spec

\* What a caller gets is the list that is stored now, although it comes from the cache
\* and only digests are compared: no list stays cached under the digest of another one,
\* whichever refresh replaced the row, and whether or not the object restarted or a
\* refresh failed half-way in between (state.ts:70, 96-106).
AnswersAreStored ==
    [][\A p \in Calls : Answers(p) => answer'[p] = row.serials]_vars

\* "failing closed when no snapshot fresher than five minutes exists" (DESIGN.md:122):
\* an answer comes from a row that was fetched less than MaxTtl before the caller's
\* stamp.
AnswersAreRecent ==
    [][\A p \in Calls : Answers(p) => now'[p] < row.fetched_at + MaxTtl]_vars

\* Once there is a row, its next refresh is scheduled or under way: no failure, no
\* overlap and no restart leaves the object without an alarm, neither before the row is
\* stored nor between that and the alarm (state.ts:95-111).
RefreshScheduled == row # NoRow => alarm # Never \/ pc[AlarmRun] # "idle"

IInv ==
    /\ TypeOK
    /\ RunsAreShort
    /\ DownloadsAreRecent
    /\ RowIsRecent
    /\ WaitersFindRecent
    /\ AlarmNeverAnswers
    /\ DigestsMatch
    /\ NoneAnsweredEarly
    /\ RefreshScheduled

\* With a feed that answers and an alarm that is on time, the alarm renews the row
\* before it expires: no request has to wait for the feed (state.ts:15, 108).
NeverLapses == row # NoRow => clock < row.expires_at

\* When NeverLapses is promised: the feed answers, storage works, the object is not
\* restarted, the margin covers the alarm's latency and a refresh, and every response of
\* the feed may be kept for longer than the earliest next refresh takes to end.
Healthy ==
    /\ ~FeedFails /\ ~StorageFails /\ MaxCrashes = 0
    /\ AlarmLatency + CallTime < RefreshMargin
    /\ \A maxAge \in MaxAges, age \in 0 .. MaxAge :
          /\ Retry + AlarmLatency + CallTime < SnapshotTtl(maxAge, age)
          /\ Skew + 2 * CallTime < SnapshotTtl(maxAge, age)

\* Why the row does not lapse then.  A download outlives the refresh that made it and
\* another one after it.
DownloadsLast ==
    \A p \in Runs : pc[p] = "hashing" =>
        /\ now[p] + Retry + AlarmLatency + CallTime < fetched[p].expires_at
        /\ now[p] + Skew + 2 * CallTime < fetched[p].expires_at

\* And the refresh that will replace the row is either under way, with time to end, or
\* ahead, with time to go off, even late, and to end.
RowIsCovered ==
    row # NoRow =>
        \/ /\ pc[AlarmRun] # "idle"
           /\ started[AlarmRun] + CallTime < row.expires_at
        \/ /\ pc[AlarmRun] = "idle" /\ alarm # Never
           /\ alarm + AlarmLatency + CallTime < row.expires_at
           /\ clock + CallTime < row.expires_at

\* "every operation is atomic by construction" (state.ts:3): refreshes would then
\* store what they fetched in the order they fetched it, and as the feed only grows,
\* a stored serial would stay stored.
StoredSerialsStay ==
    [][row # NoRow => row.serials \subseteq row'.serials]_vars

\* Every call is answered.
CallsAnswered == \A p \in Calls : pc[p] # "idle" ~> pc[p] = "idle"

=============================================================================
