---------------------- MODULE RevocationSnapshotProofs ----------------------
(***************************************************************************)
(* Proofs about RevocationSnapshot, for every set of serials and of         *)
(* concurrent calls, every lifetime, retry and margin, every skew, and any  *)
(* number of restarts.                                                      *)
(***************************************************************************)
EXTENDS RevocationSnapshot, TLAPS

USE RevocationSnapshotAssumption DEF Never

\* The lifetime of a snapshot is between nothing and MaxTtl.
LEMMA TtlType ==
    ASSUME NEW maxAge \in Nat, NEW age \in Nat
    PROVE  SnapshotTtl(maxAge, age) \in 0 .. MaxTtl
BY DEF SnapshotTtl

\* An alarm that a run sets has a time.
LEMMA AlarmType ==
    ASSUME NEW stamp \in 0 .. (MaxTime + Skew), NEW expiresAt \in Times
    PROVE  NextAlarm(stamp, expiresAt) \in Times /\ RetryAlarm(stamp) \in Times
BY DEF NextAlarm, RetryAlarm, Later, Times

\* A run under way carries a stamp no clock was ahead of.
LEMMA StampType ==
    ASSUME IInv, NEW p \in Runs, pc[p] # "idle"
    PROVE  now[p] \in 0 .. (MaxTime + Skew) /\ started[p] \in Nat /\ clock \in Nat
BY DEF IInv, TypeOK, RunsAreShort, Times

\* What sets the alarm after a store gives it a time, whether or not it fails.
LEMMA SetAlarmType ==
    ASSUME IInv, NEW p \in Runs, pc[p] # "idle", SetAlarm(p)
    PROVE  alarm' \in Times
<1>1. now[p] \in 0 .. (MaxTime + Skew) /\ fetched[p].expires_at \in Times
  BY StampType DEF IInv, TypeOK
<1> QED BY <1>1, AlarmType DEF SetAlarm

\* A call that serves the row answers the list of the row, whatever was cached: the
\* cache holds a list under its own digest, and no two lists have the same one.
LEMMA ServedRow ==
    ASSUME IInv, NEW p \in Runs, row # NoRow, Serve(p)
    PROVE  /\ row \in Rows /\ row.serials \in Lists
           /\ cache' \in CachedLists /\ cache'.digest = Sha256[cache'.serials]
           /\ answer' = [answer EXCEPT ![p] = row.serials]
           /\ pc' = [pc EXCEPT ![p] = "answered"]
<1>1. row \in Rows /\ cache \in {NoList} \cup CachedLists
  BY DEF IInv, TypeOK
<1>2. /\ row.serials \in Lists /\ row.digest \in Digests
      /\ row.digest = Sha256[row.serials]
  BY <1>1 DEF IInv, DigestsMatch, Rows
<1>3. CASE cache = NoList \/ cache.digest # row.digest
  <2>1. cache' = [digest |-> row.digest, serials |-> row.serials]
    BY <1>3 DEF Serve
  <2>2. cache'.digest = row.digest /\ cache'.serials = row.serials /\ cache' \in CachedLists
    BY <2>1, <1>2 DEF CachedLists
  <2>3. cache'.digest = Sha256[cache'.serials]
    BY <2>2, <1>2
  <2>4. answer' = [answer EXCEPT ![p] = row.serials] /\ pc' = [pc EXCEPT ![p] = "answered"]
    BY <2>2 DEF Serve, GoTo
  <2> QED BY <2>2, <2>3, <2>4, <1>1, <1>2
<1>4. CASE ~(cache = NoList \/ cache.digest # row.digest)
  <2>1. cache' = cache /\ cache \in CachedLists /\ cache.digest = Sha256[cache.serials]
    BY <1>1, <1>4 DEF Serve, IInv, DigestsMatch
  <2>2. cache.serials \in SUBSET Serials /\ row.serials \in SUBSET Serials
    BY <2>1, <1>2 DEF CachedLists, Lists
  <2>3. Sha256[cache.serials] = Sha256[row.serials]
    BY <1>2, <1>4, <2>1
  <2>4. cache.serials = row.serials
    BY <2>2, <2>3, DigestAssumption
  <2> QED BY <2>1, <2>4, <1>1, <1>2 DEF Serve, GoTo
<1> QED BY <1>3, <1>4

\* What Receive does, with the reported age in the range of the true one.
LEMMA Received ==
    ASSUME NEW p \in Runs, Receive(p)
    PROVE  \E arrival \in started[p] .. clock, age \in 0 .. MaxAge, maxAge \in MaxAges,
              reported \in 0 .. MaxAge :
              LET expiresAt == now[p] + SnapshotTtl(maxAge, reported) IN
              IF clock >= expiresAt
              THEN FailRefresh(p)
              ELSE /\ fetched' = [fetched EXCEPT ![p] =
                         [serials |-> ListAt(arrival - age), expires_at |-> expiresAt]]
                   /\ GoTo(p, "hashing")
                   /\ UNCHANGED <<row, cache, alarm, now, started>>
<1>1. PICK arrival \in started[p] .. clock, age \in 0 .. MaxAge, maxAge \in MaxAges :
         \E reported \in {0, age} :
            LET expiresAt == now[p] + SnapshotTtl(maxAge, reported) IN
            IF clock >= expiresAt
            THEN FailRefresh(p)
            ELSE /\ fetched' = [fetched EXCEPT ![p] =
                       [serials |-> ListAt(arrival - age), expires_at |-> expiresAt]]
                 /\ GoTo(p, "hashing")
                 /\ UNCHANGED <<row, cache, alarm, now, started>>
  BY Zenon DEF Receive
<1>2. \A reported \in {0, age} : reported \in 0 .. MaxAge
  OBVIOUS
<1> QED BY <1>1, <1>2, Zenon

RunTypes ==
    /\ pc \in [Runs -> {"idle", "fetching", "hashing", "refreshed", "answered"}]
    /\ now \in [Runs -> Times]
    /\ started \in [Runs -> Times]
    /\ fetched \in [Runs -> [serials : Lists, expires_at : Times]]

\* The end of a refresh leaves the variables of the runs well typed.
LEMMA EndRefreshTypes ==
    ASSUME TypeOK, NEW p \in Runs, EndRefresh(p)
    PROVE  RunTypes'
<1>1. Nothing \in [serials : Lists, expires_at : Times] /\ 0 \in Times
  BY DEF Nothing, Lists, Times
<1>2. CASE p = AlarmRun
  BY <1>1, <1>2 DEF EndRefresh, GoTo, Forget, TypeOK, RunTypes
<1>3. CASE p # AlarmRun
  BY <1>3 DEF EndRefresh, GoTo, TypeOK, RunTypes
<1> QED BY <1>2, <1>3

\* A refresh that fails keeps the types.
LEMMA FailRefreshTypes ==
    ASSUME IInv, NEW p \in Runs, pc[p] # "idle", FailRefresh(p)
    PROVE  RunTypes' /\ alarm' \in Times
<1>1. now[p] \in 0 .. (MaxTime + Skew)
  BY StampType
<1>2. alarm' \in Times
  BY <1>1 DEF FailRefresh, RetryAlarm, Times
<1> QED BY <1>2, EndRefreshTypes DEF FailRefresh, IInv

LEMMA TypeStep == IInv /\ [Next]_vars => TypeOK'
<1> SUFFICES ASSUME IInv, [Next]_vars
             PROVE  TypeOK'
  OBVIOUS
<1>t. TypeOK
  BY DEF IInv
<1>1. CASE Tick
  BY <1>1, <1>t DEF Tick, TypeOK, runVars
<1>2. ASSUME NEW s \in Serials, List(s) PROVE TypeOK'
  BY <1>2, <1>t DEF List, TypeOK, runVars, Times
<1>3. ASSUME NEW p \in Calls, ServeStored(p) PROVE TypeOK'
  <2>1. PICK n \in (clock - Skew) .. (clock + Skew) : Fresh(n) /\ now' = [now EXCEPT ![p] = n]
    BY <1>3 DEF ServeStored
  <2>2. n \in Times /\ p \in Runs
    BY <2>1, <1>t DEF TypeOK, Times, Runs
  <2>3. /\ row.serials \in Lists /\ cache' \in CachedLists
        /\ answer' = [answer EXCEPT ![p] = row.serials]
        /\ pc' = [pc EXCEPT ![p] = "answered"]
    BY <1>3, <2>1, <2>2, ServedRow DEF ServeStored, Fresh
  <2> QED BY <1>3, <2>1, <2>2, <2>3, <1>t DEF ServeStored, TypeOK, Times
<1>4. ASSUME NEW p \in Calls, BeginRefresh(p) PROVE TypeOK'
  <2>1. PICK n \in (clock - Skew) .. (clock + Skew) : now' = [now EXCEPT ![p] = n]
    BY <1>4 DEF BeginRefresh
  <2>2. n \in Times /\ p \in Runs
    BY <2>1, <1>t DEF TypeOK, Times, Runs
  <2> QED BY <1>4, <2>1, <2>2, <1>t DEF BeginRefresh, GoTo, TypeOK, Times
<1>5. CASE AlarmFires
  BY <1>5, <1>t DEF AlarmFires, GoTo, TypeOK, Times, Runs
<1>6. ASSUME NEW p \in Runs, Receive(p) PROVE TypeOK'
  <2>1. PICK arrival \in started[p] .. clock, age \in 0 .. MaxAge, maxAge \in MaxAges,
              reported \in 0 .. MaxAge :
           LET expiresAt == now[p] + SnapshotTtl(maxAge, reported) IN
           IF clock >= expiresAt
           THEN FailRefresh(p)
           ELSE /\ fetched' = [fetched EXCEPT ![p] =
                      [serials |-> ListAt(arrival - age), expires_at |-> expiresAt]]
                /\ GoTo(p, "hashing")
                /\ UNCHANGED <<row, cache, alarm, now, started>>
    BY <1>6, Received
  <2>2. CASE FailRefresh(p)
    <3>1. RunTypes' /\ alarm' \in Times
      BY <1>6, <2>2, FailRefreshTypes DEF Receive
    <3> QED BY <1>6, <2>2, <3>1, <1>t DEF Receive, FailRefresh, RunTypes, TypeOK
  <2>3. CASE ~FailRefresh(p)
    <3>1. now[p] + SnapshotTtl(maxAge, reported) \in Times
      <4>0. maxAge \in Nat /\ age \in Nat /\ reported \in Nat
        OBVIOUS
      <4>1. SnapshotTtl(maxAge, reported) \in 0 .. MaxTtl
        BY <4>0, TtlType
      <4>2. now[p] \in 0 .. (MaxTime + Skew)
        BY <1>6, StampType DEF Receive
      <4> QED BY <4>1, <4>2 DEF Times
    <3>2. ListAt(arrival - age) \in Lists
      BY DEF ListAt, Lists
    <3>3. /\ fetched' = [fetched EXCEPT ![p] =
                [serials |-> ListAt(arrival - age), expires_at |-> now[p] + SnapshotTtl(maxAge, reported)]]
          /\ GoTo(p, "hashing")
          /\ UNCHANGED <<row, cache, alarm, now, started>>
      BY <2>1, <2>3
    <3> QED BY <1>6, <3>1, <3>2, <3>3, <1>t DEF Receive, GoTo, TypeOK
  <2> QED BY <2>2, <2>3
<1>7. ASSUME NEW p \in Runs, FetchFails(p) \/ StoreFails(p) PROVE TypeOK'
  <2>1. RunTypes' /\ alarm' \in Times
    BY <1>7, FailRefreshTypes DEF FetchFails, StoreFails
  <2> QED BY <1>7, <2>1, <1>t DEF FetchFails, StoreFails, FailRefresh, RunTypes, TypeOK
<1>8. ASSUME NEW p \in Runs, StoreSame(p) \/ StoreNew(p) PROVE TypeOK'
  <2>1. RunTypes'
    BY <1>8, <1>t, EndRefreshTypes DEF StoreSame, StoreNew
  <2>2. /\ fetched[p] \in [serials : Lists, expires_at : Times] /\ now[p] \in Times
        /\ Sha256[fetched[p].serials] \in Digests
    BY <1>t DEF TypeOK, Digests
  <2>3. alarm' \in Times
    BY <1>8, SetAlarmType DEF StoreSame, StoreNew
  <2>4. row' \in Rows
    <3>1. CASE StoreSame(p)
      <4>1. row \in Rows
        BY <3>1, <1>t DEF StoreSame, HasDigest, TypeOK
      <4> QED BY <3>1, <2>2, <4>1 DEF StoreSame, Rows
    <3>2. CASE StoreNew(p)
      BY <3>2, <2>2 DEF StoreNew, Rows
    <3> QED BY <1>8, <3>1, <3>2
  <2>5. cache' \in {NoList} \cup CachedLists
    BY <1>8, <2>2, <1>t DEF StoreSame, StoreNew, CachedLists, TypeOK
  <2> QED BY <1>8, <2>1, <2>3, <2>4, <2>5, <1>t DEF StoreSame, StoreNew, RunTypes, TypeOK
<1>9. ASSUME NEW p \in Runs, ServeRefreshed(p) PROVE TypeOK'
  <2>1. /\ row.serials \in Lists /\ cache' \in CachedLists
        /\ answer' = [answer EXCEPT ![p] = row.serials]
        /\ pc' = [pc EXCEPT ![p] = "answered"]
    BY <1>9, ServedRow DEF ServeRefreshed, Fresh
  <2> QED BY <1>9, <2>1, <1>t DEF ServeRefreshed, TypeOK
<1>10. ASSUME NEW p \in Runs, FailClosed(p) PROVE TypeOK'
  BY <1>10, <1>t DEF FailClosed, GoTo, TypeOK
<1>11. ASSUME NEW p \in Runs, Return(p) PROVE TypeOK'
  BY <1>11, <1>t DEF Return, GoTo, Forget, Nothing, TypeOK, Times, Lists
<1>12. CASE Crash
  BY <1>12, <1>t DEF Crash, Nothing, TypeOK, Times, Lists
<1>13. CASE UNCHANGED vars
  BY <1>13, <1>t DEF vars, TypeOK
<1> QED BY <1>1, <1>2, <1>3, <1>4, <1>5, <1>6, <1>7, <1>8, <1>9, <1>10, <1>11, <1>12, <1>13
        DEF Next, Proceed

-----------------------------------------------------------------------------
\* What the end of a refresh does to the runs.
LEMMA EndRefreshRuns ==
    ASSUME IInv, NEW p \in Runs, EndRefresh(p), NEW q \in Runs, pc'[q] # "idle"
    PROVE  /\ q # p => pc'[q] = pc[q]
           /\ q = p => pc'[q] = "refreshed" /\ q # AlarmRun
           /\ now'[q] = now[q] /\ started'[q] = started[q]
<1>1. CASE p = AlarmRun
  BY <1>1 DEF EndRefresh, GoTo, Forget, IInv, TypeOK
<1>2. CASE p # AlarmRun
  BY <1>2 DEF EndRefresh, GoTo, IInv, TypeOK
<1> QED BY <1>1, <1>2

\* A run that is being proceeded with keeps its stamp and its start while it lasts,
\* and the other runs keep everything.
LEMMA ProceedRuns ==
    ASSUME IInv, NEW p \in Runs, Proceed(p), NEW q \in Runs, pc'[q] # "idle"
    PROVE  /\ pc[q] # "idle"
           /\ q # p => pc'[q] = pc[q] /\ fetched'[q] = fetched[q]
           /\ now'[q] = now[q] /\ started'[q] = started[q]
           /\ q = p => pc'[q] \in {"hashing", "refreshed", "answered"}
<1>t. TypeOK
  BY DEF IInv
<1>1. ASSUME EndRefresh(p), pc[p] # "idle", fetched' = fetched \/ p = AlarmRun
      PROVE  /\ pc[q] # "idle"
             /\ q # p => pc'[q] = pc[q] /\ fetched'[q] = fetched[q]
             /\ now'[q] = now[q] /\ started'[q] = started[q]
             /\ q = p => pc'[q] \in {"hashing", "refreshed", "answered"}
  BY <1>1, <1>t, EndRefreshRuns DEF EndRefresh, Forget, TypeOK
<1>2. ASSUME FailRefresh(p), pc[p] # "idle"
      PROVE  EndRefresh(p) /\ (fetched' = fetched \/ p = AlarmRun)
  BY <1>2 DEF FailRefresh, EndRefresh
<1>3. CASE Receive(p)
  <2>1. PICK arrival \in started[p] .. clock, age \in 0 .. MaxAge, maxAge \in MaxAges,
              reported \in 0 .. MaxAge :
           LET expiresAt == now[p] + SnapshotTtl(maxAge, reported) IN
           IF clock >= expiresAt
           THEN FailRefresh(p)
           ELSE /\ fetched' = [fetched EXCEPT ![p] =
                      [serials |-> ListAt(arrival - age), expires_at |-> expiresAt]]
                /\ GoTo(p, "hashing")
                /\ UNCHANGED <<row, cache, alarm, now, started>>
    BY <1>3, Received, Zenon
  <2>2. pc[p] # "idle"
    BY <1>3 DEF Receive
  <2>3. CASE FailRefresh(p)
    BY <1>1, <1>2, <2>2, <2>3
  <2>4. CASE ~FailRefresh(p)
    BY <2>1, <2>2, <2>4, <1>t DEF GoTo, TypeOK
  <2> QED BY <2>3, <2>4
<1>4. CASE FetchFails(p) \/ StoreFails(p)
  BY <1>1, <1>2, <1>4 DEF FetchFails, StoreFails
<1>5. CASE StoreSame(p) \/ StoreNew(p)
  BY <1>1, <1>5 DEF StoreSame, StoreNew, EndRefresh
<1>6. CASE ServeRefreshed(p) \/ FailClosed(p)
  BY <1>6, <1>t DEF ServeRefreshed, FailClosed, Serve, GoTo, TypeOK
<1>7. CASE Return(p)
  BY <1>7, <1>t DEF Return, GoTo, Forget, TypeOK
<1> QED BY <1>3, <1>4, <1>5, <1>6, <1>7 DEF Proceed

\* No other run than p, nor the clock or Google's list, is touched by a step of p.
LEMMA ProceedFrame ==
    ASSUME NEW p \in Runs, Proceed(p)
    PROVE  UNCHANGED <<clock, listedAt, crashes>>
BY DEF Proceed, Receive, FetchFails, StoreFails, StoreSame, StoreNew, ServeRefreshed, FailClosed, Return

LEMMA RunsAreShortStep == IInv /\ [Next]_vars => RunsAreShort'
<1> SUFFICES ASSUME IInv, [Next]_vars
             PROVE  RunsAreShort'
  OBVIOUS
<1>t. TypeOK /\ RunsAreShort
  BY DEF IInv
<1>0. \A q \in Runs : now[q] \in Int /\ started[q] \in Int
  BY <1>t DEF TypeOK, Times
<1>1. CASE Tick
  BY <1>1, <1>t, <1>0 DEF Tick, RunsAreShort, TypeOK, runVars
<1>2. ASSUME NEW s \in Serials, List(s) PROVE RunsAreShort'
  BY <1>2, <1>t DEF List, RunsAreShort, runVars
<1>3. ASSUME NEW p \in Calls, ServeStored(p) \/ BeginRefresh(p) PROVE RunsAreShort'
  <2>1. PICK n \in (clock - Skew) .. (clock + Skew) : now' = [now EXCEPT ![p] = n]
    BY <1>3 DEF ServeStored, BeginRefresh
  <2>2. started' = [started EXCEPT ![p] = clock] /\ clock' = clock
    BY <1>3 DEF ServeStored, BeginRefresh
  <2>3. \A q \in Runs : q # p => pc'[q] = pc[q]
    BY <1>3, <1>t DEF ServeStored, BeginRefresh, Serve, GoTo, TypeOK
  <2>4. ASSUME NEW q \in Runs, pc'[q] # "idle"
        PROVE  /\ started'[q] <= clock' /\ clock' <= started'[q] + CallTime
               /\ now'[q] - Skew <= started'[q] /\ started'[q] <= now'[q] + Skew
    <3>1. CASE q = p
      BY <3>1, <2>1, <2>2, <1>t DEF TypeOK
    <3>2. CASE q # p
      BY <3>2, <2>1, <2>2, <2>3, <2>4, <1>t DEF TypeOK, RunsAreShort
    <3> QED BY <3>1, <3>2
  <2> QED BY <2>4 DEF RunsAreShort
<1>4. CASE AlarmFires
  BY <1>4, <1>t DEF AlarmFires, GoTo, RunsAreShort, TypeOK, Runs
<1>5. ASSUME NEW p \in Runs, Proceed(p) PROVE RunsAreShort'
  BY <1>5, <1>t, ProceedRuns, ProceedFrame DEF RunsAreShort
<1>6. CASE Crash
  BY <1>6 DEF Crash, RunsAreShort
<1>7. CASE UNCHANGED vars
  BY <1>7, <1>t DEF vars, RunsAreShort
<1> QED BY <1>1, <1>2, <1>3, <1>4, <1>5, <1>6, <1>7 DEF Next

-----------------------------------------------------------------------------
LEMMA ListedTimes == TypeOK => \A s \in Serials : listedAt[s] \in Int
BY DEF TypeOK, Times

LEMMA ListedBeforeGrows ==
    ASSUME TypeOK, NEW t \in Int, NEW u \in Int, t <= u
    PROVE  ListedBefore(t) \subseteq ListedBefore(u)
BY ListedTimes DEF ListedBefore

\* A download holds what the feed held when it left the origin.
LEMMA ReceivedRecent ==
    ASSUME IInv, NEW p \in Runs, Receive(p), pc'[p] = "hashing"
    PROVE  /\ ListedBefore(started[p] - MaxAge) \subseteq fetched'[p].serials
           /\ fetched'[p].serials \subseteq Listed
           /\ fetched'[p].expires_at <= now[p] + MaxTtl
<1>t. TypeOK
  BY DEF IInv
<1>1. PICK arrival \in started[p] .. clock, age \in 0 .. MaxAge, maxAge \in MaxAges,
              reported \in 0 .. MaxAge :
         \/ FailRefresh(p)
         \/ fetched' = [fetched EXCEPT ![p] =
                   [serials |-> ListAt(arrival - age),
                    expires_at |-> now[p] + SnapshotTtl(maxAge, reported)]]
  BY Received
<1>2. ~FailRefresh(p)
  BY EndRefreshRuns DEF FailRefresh
<1>3. fetched'[p] = [serials |-> ListAt(arrival - age),
                     expires_at |-> now[p] + SnapshotTtl(maxAge, reported)]
  BY <1>1, <1>2, <1>t DEF TypeOK
<1>4. maxAge \in Nat /\ age \in Nat /\ reported \in Nat /\ started[p] \in Nat /\ now[p] \in Nat /\ clock \in Nat
  BY <1>t DEF TypeOK, Times
<1>5. SnapshotTtl(maxAge, reported) \in 0 .. MaxTtl
  BY <1>4, TtlType
<1>6. ListedBefore(started[p] - MaxAge) \subseteq ListAt(arrival - age)
  BY <1>4, <1>t, ListedTimes DEF ListedBefore, ListAt
<1>7. ListAt(arrival - age) \subseteq Listed
  BY DEF ListAt, Listed
<1> QED BY <1>3, <1>4, <1>5, <1>6, <1>7

LEMMA DownloadsStep == IInv /\ [Next]_vars => DownloadsAreRecent'
<1> SUFFICES ASSUME IInv, [Next]_vars, NEW q \in Runs, pc'[q] = "hashing"
             PROVE  /\ ListedBefore(started[q] - MaxAge)' \subseteq fetched'[q].serials
                    /\ fetched'[q].serials \subseteq Listed'
                    /\ fetched'[q].expires_at <= now'[q] + MaxTtl
  BY DEF DownloadsAreRecent
<1> DEFINE Old == /\ ListedBefore(started[q] - MaxAge) \subseteq fetched[q].serials
                  /\ fetched[q].serials \subseteq Listed
                  /\ fetched[q].expires_at <= now[q] + MaxTtl
<1> DEFINE New == /\ ListedBefore(started[q] - MaxAge)' \subseteq fetched'[q].serials
                  /\ fetched'[q].serials \subseteq Listed'
                  /\ fetched'[q].expires_at <= now'[q] + MaxTtl
<1>t. TypeOK
  BY DEF IInv
<1>o. pc[q] = "hashing" => Old
  BY DEF IInv, DownloadsAreRecent
<1>k. ASSUME pc[q] = "hashing", UNCHANGED listedAt, fetched'[q] = fetched[q],
             now'[q] = now[q], started'[q] = started[q] PROVE New
  BY <1>k, <1>o DEF ListedBefore, Listed
<1>1. CASE Tick
  BY <1>1, <1>k DEF Tick, runVars
<1>2. ASSUME NEW s \in Serials, List(s) PROVE New
  <2>1. UNCHANGED <<pc, now, started, fetched>>
    BY <1>2 DEF List, runVars
  <2>2. started[q] \in Int /\ started[q] <= clock /\ clock \in Int
    BY <2>1, <1>t DEF IInv, RunsAreShort, TypeOK, Times
  <2>3. /\ ListedBefore(started[q] - MaxAge)' = ListedBefore(started[q] - MaxAge)
        /\ Listed \subseteq Listed'
    <3>1. started[q] - MaxAge \in Int /\ started[q] - MaxAge <= clock
      BY <2>2
    <3> DEFINE t == started[q] - MaxAge
    <3>2. ListedBefore(t)' = ListedBefore(t) /\ Listed \subseteq Listed'
      <4>1. \A s2 \in Serials : listedAt[s2] \in Int
        BY <1>t, ListedTimes
      <4> QED BY <3>1, <2>1, <1>2, <1>t, <4>1 DEF List, ListedBefore, Listed, TypeOK
    <3> QED BY <3>2
  <2> QED BY <1>o, <2>1, <2>3
<1>3. ASSUME NEW p \in Calls, ServeStored(p) \/ BeginRefresh(p) PROVE New
  <2>1. q # p /\ pc[q] = "hashing"
    BY <1>3, <1>t DEF ServeStored, BeginRefresh, Serve, GoTo, TypeOK
  <2>2. /\ UNCHANGED listedAt /\ fetched'[q] = fetched[q]
        /\ now'[q] = now[q] /\ started'[q] = started[q]
    BY <1>3, <2>1, <1>t DEF ServeStored, BeginRefresh, TypeOK
  <2> QED BY <1>k, <2>1, <2>2
<1>4. CASE AlarmFires
  BY <1>4, <1>k, <1>t DEF AlarmFires, GoTo, TypeOK
<1>5. ASSUME NEW p \in Runs, Proceed(p) PROVE New
  <2>1. CASE q # p
    BY <1>5, <2>1, <1>k, ProceedRuns, ProceedFrame
  <2>2. CASE q = p
    <3>1. Receive(p)
      <4>1. ~FetchFails(p) /\ ~StoreFails(p) /\ ~StoreSame(p) /\ ~StoreNew(p)
        BY <2>2, EndRefreshRuns DEF FetchFails, StoreFails, FailRefresh, StoreSame, StoreNew
      <4> QED BY <1>5, <2>2, <4>1, <1>t
              DEF Proceed, ServeRefreshed, FailClosed, Return, Serve, GoTo, TypeOK
    <3>2. UNCHANGED listedAt /\ now'[q] = now[q] /\ started'[q] = started[q]
      BY <1>5, ProceedRuns, ProceedFrame
    <3> QED BY <2>2, <3>1, <3>2, ReceivedRecent DEF ListedBefore, Listed
  <2> QED BY <2>1, <2>2
<1>6. CASE Crash
  BY <1>6 DEF Crash
<1>7. CASE UNCHANGED vars
  BY <1>7, <1>k DEF vars
<1> QED BY <1>1, <1>2, <1>3, <1>4, <1>5, <1>6, <1>7 DEF Next

-----------------------------------------------------------------------------
\* A refresh that stores, stores what it fetched under its digest.
LEMMA StoredRow ==
    ASSUME IInv, NEW p \in Runs, StoreSame(p) \/ StoreNew(p)
    PROVE  /\ pc[p] = "hashing"
           /\ row' = [serials |-> fetched[p].serials, digest |-> Sha256[fetched[p].serials],
                      expires_at |-> fetched[p].expires_at, fetched_at |-> now[p]]
           /\ alarm' \in Times
<1>1. alarm' \in Times
  BY SetAlarmType DEF StoreSame, StoreNew
<1>2. ASSUME StoreSame(p)
      PROVE  /\ row \in Rows /\ row.serials = fetched[p].serials
             /\ row.digest = Sha256[fetched[p].serials]
  <2>1. row \in Rows /\ row.digest = Sha256[row.serials]
    BY <1>2 DEF StoreSame, HasDigest, IInv, TypeOK, DigestsMatch
  <2>2. row.digest = Sha256[fetched[p].serials]
    BY <1>2 DEF StoreSame, HasDigest
  <2>3. row.serials \in SUBSET Serials /\ fetched[p].serials \in SUBSET Serials
    BY <2>1 DEF IInv, TypeOK, Rows, Lists
  <2>4. Sha256[row.serials] = Sha256[fetched[p].serials]
    BY <2>1, <2>2
  <2>5. row.serials = fetched[p].serials
    BY <2>3, <2>4, DigestAssumption
  <2> QED BY <2>1, <2>2, <2>5
<1>3. CASE StoreSame(p)
  BY <1>1, <1>2, <1>3 DEF StoreSame, Rows
<1>4. CASE StoreNew(p)
  BY <1>1, <1>4 DEF StoreNew
<1> QED BY <1>3, <1>4

\* The steps that store nothing keep the row and keep an alarm.
LEMMA OthersKeepRow ==
    ASSUME IInv, NEW p \in Runs, Proceed(p), ~StoreSame(p), ~StoreNew(p)
    PROVE  row' = row /\ (alarm' = alarm \/ alarm' \in Times)
<1>1. pc[p] # "idle" /\ FailRefresh(p) => row' = row /\ alarm' \in Times
  BY FailRefreshTypes DEF FailRefresh
<1>2. CASE Receive(p)
  BY <1>1, <1>2 DEF Receive
<1>3. CASE FetchFails(p) \/ StoreFails(p)
  BY <1>1, <1>3 DEF FetchFails, StoreFails
<1>4. CASE ServeRefreshed(p) \/ FailClosed(p) \/ Return(p)
  BY <1>4 DEF ServeRefreshed, FailClosed, Return
<1> QED BY <1>2, <1>3, <1>4 DEF Proceed

LEMMA RowIsRecentStep == IInv /\ [Next]_vars => RowIsRecent'
<1> SUFFICES ASSUME IInv, [Next]_vars, row' # NoRow
             PROVE  RowIsRecent'
  BY DEF RowIsRecent
<1>t. TypeOK /\ RowIsRecent
  BY DEF IInv
<1>n. clock \in Nat /\ \A s \in Serials : listedAt[s] \in Int
  BY <1>t, ListedTimes DEF TypeOK
<1>r. row # NoRow => row.expires_at \in Nat /\ row.fetched_at \in Nat
  BY <1>t DEF TypeOK, Rows, Times
<1>k. ASSUME row' = row, UNCHANGED listedAt, clock' \in Nat, clock <= clock' PROVE RowIsRecent'
  BY <1>k, <1>t, <1>r, <1>n DEF RowIsRecent, ListedBefore, Listed
<1>1. CASE Tick
  BY <1>1, <1>k, <1>n DEF Tick
<1>2. ASSUME NEW s \in Serials, List(s) PROVE RowIsRecent'
  <2>1. row' = row /\ clock' = clock /\ row.expires_at - MaxTtl - Skew - MaxAge <= clock
    BY <1>2, <1>t, <1>r, <1>n DEF List, RowIsRecent
  <2>2. listedAt' = [listedAt EXCEPT ![s] = clock] /\ listedAt[s] = -1
    BY <1>2 DEF List
  <2> QED BY <1>t, <1>n, <1>r, <2>1, <2>2 DEF RowIsRecent, ListedBefore, Listed, TypeOK
<1>3. ASSUME NEW p \in Calls, ServeStored(p) \/ BeginRefresh(p) PROVE RowIsRecent'
  BY <1>3, <1>k, <1>n DEF ServeStored, BeginRefresh
<1>4. CASE AlarmFires
  BY <1>4, <1>k, <1>n DEF AlarmFires
<1>5. ASSUME NEW p \in Runs, StoreSame(p) \/ StoreNew(p) PROVE RowIsRecent'
  <2>1. /\ pc[p] = "hashing"
        /\ row' = [serials |-> fetched[p].serials, digest |-> Sha256[fetched[p].serials],
                   expires_at |-> fetched[p].expires_at, fetched_at |-> now[p]]
    BY <1>5, StoredRow
  <2>2. /\ ListedBefore(started[p] - MaxAge) \subseteq fetched[p].serials
        /\ fetched[p].serials \subseteq Listed
        /\ fetched[p].expires_at <= now[p] + MaxTtl
        /\ started[p] <= clock /\ now[p] - Skew <= started[p]
    BY <2>1 DEF IInv, DownloadsAreRecent, RunsAreShort
  <2>3. started[p] \in Nat /\ now[p] \in Nat /\ fetched[p].expires_at \in Nat
    BY <1>t DEF TypeOK, Times
  <2>4. UNCHANGED <<clock, listedAt>>
    BY <1>5 DEF StoreSame, StoreNew
  <2>5. ListedBefore(fetched[p].expires_at - MaxTtl - Skew - MaxAge) \subseteq fetched[p].serials
    BY <2>2, <2>3, <1>n DEF ListedBefore
  <2> QED BY <2>1, <2>2, <2>3, <2>4, <2>5, <1>n DEF RowIsRecent, ListedBefore, Listed
<1>6. ASSUME NEW p \in Runs, Proceed(p), ~StoreSame(p), ~StoreNew(p) PROVE RowIsRecent'
  BY <1>6, <1>k, <1>n, OthersKeepRow, ProceedFrame
<1>7. CASE Crash
  BY <1>7, <1>k, <1>n DEF Crash
<1>8. CASE UNCHANGED vars
  BY <1>8, <1>k, <1>n DEF vars
<1> QED BY <1>1, <1>2, <1>3, <1>4, <1>5, <1>6, <1>7, <1>8 DEF Next

LEMMA WaitersStep == IInv /\ [Next]_vars => WaitersFindRecent'
<1> SUFFICES ASSUME IInv, [Next]_vars, NEW q \in Calls,
                    pc'[q] \in {"fetching", "hashing", "refreshed"}, Fresh(now[q])'
             PROVE  ListedBefore(started[q] - CallTime - MaxAge)' \subseteq row'.serials
  BY DEF WaitersFindRecent
<1> DEFINE New == ListedBefore(started[q] - CallTime - MaxAge)' \subseteq row'.serials
<1>t. TypeOK
  BY DEF IInv
<1>q. q \in Runs /\ q # AlarmRun
  BY DEF Runs
<1>n. /\ clock \in Nat /\ \A s \in Serials : listedAt[s] \in Int
      /\ now[q] \in Nat /\ started[q] \in Nat
  BY <1>t, <1>q, ListedTimes DEF TypeOK, Times
<1>k. ASSUME row' = row, UNCHANGED listedAt, now'[q] = now[q], started'[q] = started[q],
             pc[q] \in {"fetching", "hashing", "refreshed"}
      PROVE  New
  <2>1. ListedBefore(started[q] - CallTime - MaxAge) \subseteq row.serials
    BY <1>k DEF IInv, WaitersFindRecent, Fresh
  <2> QED BY <1>k, <2>1 DEF ListedBefore
<1>1. CASE Tick
  BY <1>1, <1>k DEF Tick, runVars
<1>2. ASSUME NEW s \in Serials, List(s) PROVE New
  <2>1. UNCHANGED <<pc, now, started, row>>
    BY <1>2 DEF List, runVars
  <2>2. ListedBefore(started[q] - CallTime - MaxAge) \subseteq row.serials
    BY <2>1 DEF IInv, WaitersFindRecent, Fresh
  <2>3. started[q] <= clock
    BY <2>1, <1>q DEF IInv, RunsAreShort
  <2>4. listedAt' = [listedAt EXCEPT ![s] = clock]
    BY <1>2 DEF List
  <2> QED BY <1>n, <1>t, <2>1, <2>2, <2>3, <2>4 DEF ListedBefore, TypeOK
<1>3. ASSUME NEW p \in Calls, ServeStored(p) PROVE New
  <2>1. q # p
    BY <1>3, <1>q, <1>t DEF ServeStored, Serve, GoTo, TypeOK
  <2> QED BY <1>3, <2>1, <1>k, <1>t, <1>q DEF ServeStored, Serve, GoTo, TypeOK
<1>4. ASSUME NEW p \in Calls, BeginRefresh(p) PROVE New
  <2>1. CASE q = p
    <3>1. PICK n \in (clock - Skew) .. (clock + Skew) : ~Fresh(n) /\ now' = [now EXCEPT ![p] = n]
      BY <1>4 DEF BeginRefresh
    <3>2. ~Fresh(now[q])'
      BY <3>1, <2>1, <1>4, <1>t, <1>q DEF BeginRefresh, Fresh, TypeOK
    <3> QED BY <3>2
  <2>2. CASE q # p
    BY <1>4, <2>2, <1>k, <1>t, <1>q DEF BeginRefresh, GoTo, TypeOK
  <2> QED BY <2>1, <2>2
<1>5. CASE AlarmFires
  BY <1>5, <1>k, <1>q, <1>t DEF AlarmFires, GoTo, TypeOK
<1>6. ASSUME NEW p \in Runs, Proceed(p) PROVE New
  <2>1. /\ now'[q] = now[q] /\ started'[q] = started[q] /\ UNCHANGED listedAt
        /\ pc[q] # "idle"
    BY <1>6, <1>q, ProceedRuns, ProceedFrame
  <2>2. CASE StoreSame(p) \/ StoreNew(p)
    <3>1. pc[p] = "hashing" /\ row'.serials = fetched[p].serials
      BY <2>2, StoredRow
    <3>2. /\ ListedBefore(started[p] - MaxAge) \subseteq fetched[p].serials
          /\ clock <= started[p] + CallTime
      BY <3>1 DEF IInv, DownloadsAreRecent, RunsAreShort
    <3>3. started[q] <= clock
      BY <2>1, <1>q DEF IInv, RunsAreShort
    <3>4. started[p] \in Nat
      BY <1>t DEF TypeOK, Times
    <3> QED BY <2>1, <3>1, <3>2, <3>3, <3>4, <1>n DEF ListedBefore
  <2>3. CASE ~StoreSame(p) /\ ~StoreNew(p)
    <3>1. row' = row
      BY <1>6, <2>3, OthersKeepRow
    <3>2. pc[q] \in {"fetching", "hashing", "refreshed"}
      BY <1>6, <2>1, <1>q, <1>t, ProceedRuns
         DEF Proceed, Receive, FetchFails, StoreFails, StoreSame, StoreNew, ServeRefreshed,
             FailClosed, Return, Serve, GoTo, TypeOK
    <3> QED BY <3>1, <3>2, <2>1, <1>k
  <2> QED BY <2>2, <2>3
<1>7. CASE Crash
  BY <1>7, <1>q DEF Crash
<1>8. CASE UNCHANGED vars
  BY <1>8, <1>k DEF vars
<1> QED BY <1>1, <1>2, <1>3, <1>4, <1>5, <1>6, <1>7, <1>8 DEF Next

-----------------------------------------------------------------------------
LEMMA AlarmRunStep == IInv /\ [Next]_vars => AlarmNeverAnswers'
<1> SUFFICES ASSUME IInv, [Next]_vars
             PROVE  AlarmNeverAnswers'
  OBVIOUS
<1>t. TypeOK /\ AlarmNeverAnswers /\ AlarmRun \in Runs
  BY DEF IInv, Runs
<1>1. ASSUME NEW p \in Calls, ServeStored(p) \/ BeginRefresh(p) PROVE AlarmNeverAnswers'
  BY <1>1, <1>t DEF ServeStored, BeginRefresh, Serve, GoTo, AlarmNeverAnswers, TypeOK
<1>2. CASE AlarmFires
  BY <1>2, <1>t DEF AlarmFires, GoTo, AlarmNeverAnswers, TypeOK
<1>3. ASSUME NEW p \in Runs, Proceed(p) PROVE AlarmNeverAnswers'
  <2>1. CASE p # AlarmRun
    BY <1>3, <2>1, <1>t, ProceedRuns DEF AlarmNeverAnswers
  <2>2. CASE p = AlarmRun
    <3>1. EndRefresh(p) => pc'[p] = "idle"
      BY <2>2, <1>t DEF EndRefresh, GoTo, TypeOK
    <3>2. ~ServeRefreshed(p) /\ ~FailClosed(p) /\ ~Return(p)
      BY <2>2, <1>t DEF ServeRefreshed, FailClosed, Return, AlarmNeverAnswers
    <3>3. pc'[p] \in {"idle", "hashing"}
      BY <1>3, <3>1, <3>2, <1>t
         DEF Proceed, Receive, FetchFails, StoreFails, FailRefresh, StoreSame, StoreNew,
             GoTo, TypeOK
    <3> QED BY <2>2, <3>3 DEF AlarmNeverAnswers
  <2> QED BY <2>1, <2>2
<1>4. CASE Crash
  BY <1>4, <1>t DEF Crash, AlarmNeverAnswers
<1>5. CASE Tick \/ (\E s \in Serials : List(s)) \/ UNCHANGED vars
  BY <1>5, <1>t DEF Tick, List, vars, runVars, AlarmNeverAnswers
<1> QED BY <1>1, <1>2, <1>3, <1>4, <1>5 DEF Next

LEMMA AnswersStep == IInv /\ [Next]_vars => NoneAnsweredEarly'
<1> SUFFICES ASSUME IInv, [Next]_vars
             PROVE  NoneAnsweredEarly'
  OBVIOUS
<1>t. TypeOK /\ NoneAnsweredEarly
  BY DEF IInv
<1>1. ASSUME NEW p \in Calls, ServeStored(p) \/ BeginRefresh(p) PROVE NoneAnsweredEarly'
  BY <1>1, <1>t DEF ServeStored, BeginRefresh, Serve, GoTo, NoneAnsweredEarly, TypeOK
<1>2. CASE AlarmFires
  BY <1>2, <1>t DEF AlarmFires, GoTo, NoneAnsweredEarly, TypeOK
<1>3. ASSUME NEW p \in Runs, Proceed(p) PROVE NoneAnsweredEarly'
  <2>1. CASE Receive(p) \/ FetchFails(p) \/ StoreFails(p) \/ StoreSame(p) \/ StoreNew(p)
    <3>1. pc[p] # "answered" /\ answer' = answer
      BY <2>1 DEF Receive, FetchFails, StoreFails, StoreSame, StoreNew
    <3>2. \A q \in Runs : q # p => (pc'[q] # "idle" => pc'[q] = pc[q])
      BY <1>3, ProceedRuns
    <3>3. \A q \in Runs \ {p} : pc'[q] = pc[q]
      BY <2>1, <1>t DEF Receive, FetchFails, StoreFails, FailRefresh, StoreSame, StoreNew,
                        EndRefresh, GoTo, TypeOK
    <3> QED BY <3>1, <3>3, <1>t DEF NoneAnsweredEarly
  <2>2. CASE ServeRefreshed(p) \/ FailClosed(p) \/ Return(p)
    BY <2>2, <1>t DEF ServeRefreshed, FailClosed, Return, Serve, GoTo, NoneAnsweredEarly, TypeOK
  <2> QED BY <1>3, <2>1, <2>2 DEF Proceed
<1>4. CASE Crash
  BY <1>4 DEF Crash, NoneAnsweredEarly
<1>5. CASE Tick \/ (\E s \in Serials : List(s)) \/ UNCHANGED vars
  BY <1>5, <1>t DEF Tick, List, vars, runVars, NoneAnsweredEarly
<1> QED BY <1>1, <1>2, <1>3, <1>4, <1>5 DEF Next

LEMMA ScheduleStep == IInv /\ [Next]_vars => RefreshScheduled'
<1> SUFFICES ASSUME IInv, [Next]_vars
             PROVE  RefreshScheduled'
  OBVIOUS
<1>t. TypeOK /\ RefreshScheduled /\ AlarmRun \in Runs /\ AlarmNeverAnswers
  BY DEF IInv, Runs
<1>n. \A t \in Times : t # -1
  BY DEF Times
<1>1. ASSUME NEW p \in Calls, ServeStored(p) \/ BeginRefresh(p) PROVE RefreshScheduled'
  <2>1. pc'[AlarmRun] = pc[AlarmRun] /\ UNCHANGED <<row, alarm>>
    BY <1>1, <1>t DEF ServeStored, BeginRefresh, Serve, GoTo, TypeOK
  <2> QED BY <2>1, <1>t DEF RefreshScheduled
<1>2. CASE AlarmFires
  BY <1>2, <1>t DEF AlarmFires, GoTo, RefreshScheduled, TypeOK
<1>3. ASSUME NEW p \in Runs, Proceed(p) PROVE RefreshScheduled'
  <2>1. CASE alarm' \in Times
    BY <2>1, <1>n DEF RefreshScheduled
  <2>2. CASE alarm' \notin Times
    <3>1. row' = row /\ alarm' = alarm /\ ~StoreSame(p) /\ ~StoreNew(p)
      BY <1>3, <2>2, StoredRow, OthersKeepRow
    <3>2. pc[p] # "idle" => ~FailRefresh(p)
      BY <2>2, FailRefreshTypes
    <3>3. pc'[AlarmRun] = pc[AlarmRun] \/ pc'[AlarmRun] = "hashing"
      BY <1>3, <3>1, <3>2, <1>t
         DEF Proceed, Receive, FetchFails, StoreFails, ServeRefreshed, FailClosed, Return,
             Serve, GoTo, TypeOK, AlarmNeverAnswers
    <3> QED BY <3>1, <3>3, <1>t DEF RefreshScheduled
  <2> QED BY <2>1, <2>2
<1>4. CASE Crash
  <2>1. row' = row /\ (pc[AlarmRun] = "idle" => alarm' = alarm)
        /\ (pc[AlarmRun] # "idle" => alarm' = clock)
    BY <1>4 DEF Crash
  <2>2. clock # -1
    BY <1>t DEF TypeOK
  <2> QED BY <2>1, <2>2, <1>t DEF RefreshScheduled
<1>5. CASE Tick \/ (\E s \in Serials : List(s)) \/ UNCHANGED vars
  BY <1>5, <1>t DEF Tick, List, vars, runVars, RefreshScheduled
<1> QED BY <1>1, <1>2, <1>3, <1>4, <1>5 DEF Next

LEMMA DigestsStep == IInv /\ [Next]_vars => DigestsMatch'
<1> SUFFICES ASSUME IInv, [Next]_vars
             PROVE  DigestsMatch'
  OBVIOUS
<1>t. TypeOK /\ DigestsMatch
  BY DEF IInv
<1>k. ASSUME row' = row, cache' = cache \/ cache' = NoList \/ cache'.digest = Sha256[cache'.serials]
      PROVE  DigestsMatch'
  BY <1>k, <1>t DEF DigestsMatch
<1>1. ASSUME NEW p \in Runs, ServeStored(p) \/ ServeRefreshed(p) PROVE DigestsMatch'
  <2>1. row # NoRow /\ Serve(p) /\ row' = row
    BY <1>1 DEF ServeStored, ServeRefreshed, Fresh
  <2> QED BY <2>1, <1>k, ServedRow
<1>2. ASSUME NEW p \in Runs, StoreSame(p) \/ StoreNew(p) PROVE DigestsMatch'
  <2>1. row'.digest = Sha256[row'.serials]
    BY <1>2, StoredRow
  <2>2. \/ cache' = cache
        \/ cache' = [digest |-> Sha256[fetched[p].serials], serials |-> fetched[p].serials]
    BY <1>2 DEF StoreSame, StoreNew
  <2> QED BY <2>1, <2>2, <1>t DEF DigestsMatch
<1>3. ASSUME NEW p \in Runs, Receive(p) \/ FetchFails(p) \/ StoreFails(p) \/ FailClosed(p) \/ Return(p)
      PROVE  DigestsMatch'
  BY <1>3, <1>k DEF Receive, FetchFails, StoreFails, FailRefresh, FailClosed, Return
<1>4. CASE \E p \in Calls : ServeStored(p) \/ BeginRefresh(p)
  BY <1>1, <1>4, <1>k DEF BeginRefresh, Runs
<1>5. CASE Tick \/ (\E s \in Serials : List(s)) \/ AlarmFires \/ Crash \/ UNCHANGED vars
  BY <1>5, <1>k DEF Tick, List, AlarmFires, Crash, vars
<1> QED BY <1>1, <1>2, <1>3, <1>4, <1>5 DEF Next, Proceed

LEMMA InitHolds == Init => IInv
<1> SUFFICES ASSUME Init
             PROVE  IInv
  OBVIOUS
<1>1. TypeOK
  BY DEF Init, TypeOK, Nothing, Lists, Times
<1>2. /\ RunsAreShort /\ DownloadsAreRecent /\ RowIsRecent /\ WaitersFindRecent
      /\ AlarmNeverAnswers /\ DigestsMatch /\ NoneAnsweredEarly /\ RefreshScheduled
  BY DEF Init, RunsAreShort, DownloadsAreRecent, RowIsRecent, WaitersFindRecent,
         AlarmNeverAnswers, DigestsMatch, NoneAnsweredEarly, RefreshScheduled, Runs
<1> QED BY <1>1, <1>2 DEF IInv

\* The strengthened invariant holds in every reachable state.
THEOREM Inductive == Spec => []IInv
<1>1. IInv /\ [Next]_vars => IInv'
  BY TypeStep, RunsAreShortStep, DownloadsStep, RowIsRecentStep, WaitersStep, AlarmRunStep,
     DigestsStep, AnswersStep, ScheduleStep DEF IInv
<1> QED BY InitHolds, <1>1, PTL DEF Spec

\* The variables keep their types, whatever refreshes overlap and whenever the object
\* restarts.
THEOREM TypeCorrect == Spec => []TypeOK
<1>1. IInv => TypeOK
  BY DEF IInv
<1> QED BY Inductive, <1>1, PTL

\* Once there is a row its next refresh is scheduled or under way (state.ts:108-110).
THEOREM AlwaysScheduled == Spec => []RefreshScheduled
<1>1. IInv => RefreshScheduled
  BY DEF IInv
<1> QED BY Inductive, <1>1, PTL

-----------------------------------------------------------------------------
\* A step that answers a call with a list serves the row it found fresh.
LEMMA AnswerIsRow ==
    ASSUME IInv, [Next]_vars, NEW p \in Calls, Answers(p)
    PROVE  /\ ServeStored(p) \/ ServeRefreshed(p)
           /\ answer'[p] = row.serials /\ row \in Rows /\ UNCHANGED <<clock, row>>
           /\ now'[p] \in Times /\ now'[p] < row.expires_at
<1>t. TypeOK /\ p \in Runs
  BY DEF IInv, Runs
<1>1. ServeStored(p) \/ ServeRefreshed(p)
  <2>1. \A q \in Runs : q # p => ~Proceed(q)
    BY <1>t, ProceedRuns DEF Answers
  <2>2. \A q \in Calls : q # p => ~ServeStored(q)
    BY <1>t DEF Answers, ServeStored, Serve, GoTo, TypeOK
  <2>3. \A q \in Calls : ~BeginRefresh(q)
    BY <1>t DEF Answers, BeginRefresh, GoTo, TypeOK
  <2>4. ~Tick /\ (\A s \in Serials : ~List(s)) /\ ~Crash /\ ~UNCHANGED vars
    BY <1>t DEF Answers, Tick, List, Crash, vars, runVars
  <2>5. ~AlarmFires
    BY <1>t DEF Answers, AlarmFires, GoTo, TypeOK
  <2>6. Proceed(p) => ServeRefreshed(p)
    <3>1. EndRefresh(p) => pc'[p] # "answered"
      BY <1>t DEF EndRefresh, GoTo, TypeOK
    <3> QED BY <3>1, <1>t DEF Proceed, Answers, Receive, FetchFails, StoreFails, FailRefresh,
                              StoreSame, StoreNew, FailClosed, Return, GoTo, TypeOK
  <2> QED BY <2>1, <2>2, <2>3, <2>4, <2>5, <2>6 DEF Next
<1>2. row # NoRow /\ row \in Rows
  BY <1>1, <1>t DEF ServeStored, ServeRefreshed, Fresh, TypeOK
<1>3. answer'[p] = row.serials /\ UNCHANGED <<clock, row>>
  BY <1>1, <1>2, <1>t, ServedRow DEF ServeStored, ServeRefreshed, TypeOK
<1>4. now'[p] \in Times /\ now'[p] < row.expires_at
  <2>1. CASE ServeStored(p)
    <3>1. PICK n \in (clock - Skew) .. (clock + Skew) : Fresh(n) /\ now' = [now EXCEPT ![p] = n]
      BY <2>1 DEF ServeStored
    <3>2. n \in Times
      BY <1>t DEF TypeOK, Times
    <3> QED BY <3>1, <3>2, <1>t DEF Fresh, TypeOK
  <2>2. CASE ServeRefreshed(p)
    BY <2>2, <1>t DEF ServeRefreshed, Fresh, TypeOK
  <2> QED BY <1>1, <2>1, <2>2
<1> QED BY <1>1, <1>2, <1>3, <1>4

\* An answer holds every serial that was listed more than Window seconds ago, and
\* nothing else than listed serials.
LEMMA AnswerIsRecent ==
    ASSUME IInv, [Next]_vars, NEW p \in Calls, Answers(p)
    PROVE  /\ \A s \in Serials :
                 listedAt[s] # Never /\ listedAt[s] + Window < clock => s \in answer'[p]
           /\ answer'[p] \subseteq Listed
<1>t. TypeOK /\ p \in Runs
  BY DEF IInv, Runs
<1>n. clock \in Nat /\ \A s \in Serials : listedAt[s] \in Int
  BY <1>t, ListedTimes DEF TypeOK
<1>1. /\ ServeStored(p) \/ ServeRefreshed(p)
      /\ answer'[p] = row.serials /\ row \in Rows
  BY AnswerIsRow
<1>2. /\ ListedBefore(row.expires_at - MaxTtl - Skew - MaxAge) \subseteq row.serials
      /\ row.serials \subseteq Listed
  BY <1>1 DEF IInv, RowIsRecent, Fresh, ServeStored, ServeRefreshed
<1>r. row.expires_at \in Nat
  BY <1>1 DEF Rows, Times
<1>3. CASE ServeStored(p)
  <2>1. PICK n \in (clock - Skew) .. (clock + Skew) : Fresh(n)
    BY <1>3 DEF ServeStored
  <2>2. clock - Skew < row.expires_at
    BY <2>1, <1>n, <1>r DEF Fresh
  <2>3. \A s \in Serials : listedAt[s] # -1 /\ listedAt[s] + Window < clock
            => s \in ListedBefore(row.expires_at - MaxTtl - Skew - MaxAge)
    BY <2>2, <1>n, <1>r DEF ListedBefore, Window
  <2> QED BY <1>1, <1>2, <2>3
<1>4. CASE ServeRefreshed(p)
  <2>1. pc[p] = "refreshed" /\ Fresh(now[p])
    BY <1>4 DEF ServeRefreshed
  <2>2. /\ ListedBefore(started[p] - CallTime - MaxAge) \subseteq row.serials
        /\ clock <= started[p] + CallTime
    BY <2>1, <1>t DEF IInv, WaitersFindRecent, RunsAreShort
  <2>3. started[p] \in Nat
    BY <1>t DEF TypeOK, Times
  <2>4. \A s \in Serials : listedAt[s] # -1 /\ listedAt[s] + Window < clock
            => s \in ListedBefore(started[p] - CallTime - MaxAge)
    BY <2>2, <2>3, <1>n DEF ListedBefore, Window
  <2> QED BY <1>1, <1>2, <2>2, <2>4
<1> QED BY <1>1, <1>3, <1>4

\* What a caller gets is the list that is stored now, although it comes from a cache
\* that is compared by digest alone: by DigestsMatch the cache never holds a list under
\* another list's digest, and digests tell lists apart (state.ts:70, 96-106).
THEOREM StoredAnswers == Spec => AnswersAreStored
<1>1. IInv /\ [Next]_vars => \A p \in Calls : Answers(p) => answer'[p] = row.serials
  BY AnswerIsRow
<1> QED BY Inductive, <1>1, PTL DEF Spec, AnswersAreStored

\* No answer comes from a row that was fetched MaxTtl or longer before the caller's
\* stamp (state.ts:64, 68).
THEOREM RecentAnswers == Spec => AnswersAreRecent
<1>1. ASSUME IInv, [Next]_vars, NEW p \in Calls, Answers(p)
      PROVE  now'[p] < row.fetched_at + MaxTtl
  <2>1. row \in Rows /\ row # NoRow /\ now'[p] \in Times /\ now'[p] < row.expires_at
    BY <1>1, AnswerIsRow DEF ServeStored, ServeRefreshed, Fresh
  <2>2. row.expires_at <= row.fetched_at + MaxTtl
    BY <1>1, <2>1 DEF IInv, RowIsRecent
  <2> QED BY <2>1, <2>2 DEF Rows, Times
<1>2. IInv /\ [Next]_vars => \A p \in Calls : Answers(p) => now'[p] < row.fetched_at + MaxTtl
  BY <1>1
<1> QED BY Inductive, <1>2, PTL DEF Spec, AnswersAreRecent

\* No answer lacks a serial that was listed more than Window seconds ago.
THEOREM RevokedSeen == Spec => ListedSerialsAreSeen
<1>1. IInv /\ [Next]_vars =>
         \A p \in Calls : Answers(p) =>
            \A s \in Serials :
                listedAt[s] # Never /\ listedAt[s] + Window < clock => s \in answer'[p]
  BY AnswerIsRecent
<1> QED BY Inductive, <1>1, PTL DEF Spec, ListedSerialsAreSeen

-----------------------------------------------------------------------------
\* With a healthy feed no download is out of date when it arrives, so no refresh
\* fails; what a run downloads lasts for a refresh beyond its own.
LEMMA ReceivedLasts ==
    ASSUME IInv, Healthy, NEW p \in Runs, Receive(p)
    PROVE  /\ pc' = [pc EXCEPT ![p] = "hashing"]
           /\ UNCHANGED <<clock, row, alarm, now, started>>
           /\ \A q \in Runs : q # p => fetched'[q] = fetched[q]
           /\ now[p] + Retry + AlarmLatency + CallTime < fetched'[p].expires_at
           /\ now[p] + Skew + 2 * CallTime < fetched'[p].expires_at
<1>t. TypeOK
  BY DEF IInv
<1>1. PICK arrival \in started[p] .. clock, age \in 0 .. MaxAge, maxAge \in MaxAges,
              reported \in 0 .. MaxAge :
         LET expiresAt == now[p] + SnapshotTtl(maxAge, reported) IN
         IF clock >= expiresAt
         THEN FailRefresh(p)
         ELSE /\ fetched' = [fetched EXCEPT ![p] =
                    [serials |-> ListAt(arrival - age), expires_at |-> expiresAt]]
              /\ GoTo(p, "hashing")
              /\ UNCHANGED <<row, cache, alarm, now, started>>
  BY Received, Zenon
<1>2. /\ Retry + AlarmLatency + CallTime < SnapshotTtl(maxAge, reported)
      /\ Skew + 2 * CallTime < SnapshotTtl(maxAge, reported)
  BY DEF Healthy
<1>3. SnapshotTtl(maxAge, reported) \in Nat
  <2>1. maxAge \in Nat /\ age \in Nat /\ reported \in Nat
    OBVIOUS
  <2>2. SnapshotTtl(maxAge, reported) \in 0 .. MaxTtl
    BY <2>1, TtlType
  <2> QED BY <2>2
<1>4. now[p] \in Nat /\ started[p] \in Nat /\ clock \in Nat
  BY <1>t DEF TypeOK, Times
<1>5. clock <= now[p] + Skew + CallTime
  <2>1. pc[p] # "idle"
    BY DEF Receive
  <2>2. clock <= started[p] + CallTime /\ started[p] <= now[p] + Skew
    BY <2>1 DEF IInv, RunsAreShort
  <2> QED BY <1>4, <2>2
<1>6. ~(clock >= now[p] + SnapshotTtl(maxAge, reported))
  BY <1>2, <1>3, <1>4, <1>5
<1>7. /\ fetched' = [fetched EXCEPT ![p] =
               [serials |-> ListAt(arrival - age), expires_at |-> now[p] + SnapshotTtl(maxAge, reported)]]
      /\ GoTo(p, "hashing")
      /\ UNCHANGED <<row, cache, alarm, now, started>>
  BY <1>1, <1>6
<1>8. clock' = clock
  BY DEF Receive
<1>9. fetched'[p].expires_at = now[p] + SnapshotTtl(maxAge, reported)
  BY <1>7, <1>t DEF TypeOK
<1>10. \A q \in Runs : q # p => fetched'[q] = fetched[q]
  BY <1>7, <1>t DEF TypeOK
<1>11. /\ now[p] + Retry + AlarmLatency + CallTime < fetched'[p].expires_at
       /\ now[p] + Skew + 2 * CallTime < fetched'[p].expires_at
  BY <1>2, <1>3, <1>4, <1>9
<1> QED BY <1>7, <1>8, <1>10, <1>11 DEF GoTo

LEMMA DownloadsLastStep == Healthy /\ IInv /\ DownloadsLast /\ [Next]_vars => DownloadsLast'
<1> SUFFICES ASSUME Healthy, IInv, DownloadsLast, [Next]_vars,
                    NEW q \in Runs, pc'[q] = "hashing"
             PROVE  /\ now'[q] + Retry + AlarmLatency + CallTime < fetched'[q].expires_at
                    /\ now'[q] + Skew + 2 * CallTime < fetched'[q].expires_at
  BY DEF DownloadsLast
<1> DEFINE New == /\ now'[q] + Retry + AlarmLatency + CallTime < fetched'[q].expires_at
                  /\ now'[q] + Skew + 2 * CallTime < fetched'[q].expires_at
<1>t. TypeOK
  BY DEF IInv
<1>k. ASSUME pc[q] = "hashing", fetched'[q] = fetched[q], now'[q] = now[q] PROVE New
  BY <1>k DEF DownloadsLast
<1>1. CASE Tick \/ (\E s \in Serials : List(s)) \/ UNCHANGED vars
  BY <1>1, <1>k DEF Tick, List, vars, runVars
<1>2. ASSUME NEW p \in Calls, ServeStored(p) \/ BeginRefresh(p) PROVE New
  <2>1. q # p /\ pc[q] = "hashing"
    BY <1>2, <1>t DEF ServeStored, BeginRefresh, Serve, GoTo, TypeOK
  <2>2. fetched'[q] = fetched[q] /\ now'[q] = now[q]
    BY <1>2, <2>1, <1>t DEF ServeStored, BeginRefresh, TypeOK
  <2> QED BY <2>1, <2>2, <1>k
<1>3. CASE AlarmFires
  <2>1. q # AlarmRun /\ pc[q] = "hashing"
    BY <1>3, <1>t DEF AlarmFires, GoTo, TypeOK
  <2>2. fetched'[q] = fetched[q] /\ now'[q] = now[q]
    BY <1>3, <2>1, <1>t DEF AlarmFires, TypeOK
  <2> QED BY <2>1, <2>2, <1>k
<1>4. ASSUME NEW p \in Runs, Proceed(p) PROVE New
  <2>1. now'[q] = now[q] /\ (q # p => pc'[q] = pc[q] /\ fetched'[q] = fetched[q])
    BY <1>4, ProceedRuns
  <2>2. CASE q # p
    BY <2>1, <2>2, <1>k
  <2>3. CASE q = p
    <3>1. Receive(p)
      <4>1. EndRefresh(p) => pc'[p] # "hashing"
        BY <1>t DEF EndRefresh, GoTo, TypeOK
      <4> QED BY <1>4, <2>3, <4>1, <1>t
              DEF Proceed, FetchFails, StoreFails, FailRefresh, StoreSame, StoreNew,
                  ServeRefreshed, FailClosed, Return, Serve, GoTo, TypeOK
    <3> QED BY <3>1, <2>1, <2>3, ReceivedLasts
  <2> QED BY <2>2, <2>3
<1>5. CASE Crash
  BY <1>5 DEF Crash
<1> QED BY <1>1, <1>2, <1>3, <1>4, <1>5 DEF Next

\* What is stored replaces the row with one that is covered.
LEMMA StoredIsCovered ==
    ASSUME Healthy, IInv, DownloadsLast, NEW p \in Runs, StoreSame(p) \/ StoreNew(p)
    PROVE  RowIsCovered'
<1>t. TypeOK /\ pc[p] = "hashing"
  BY DEF IInv, StoreSame, StoreNew
<1>1. now[p] \in Nat /\ started[p] \in Nat /\ clock \in Nat /\ fetched[p].expires_at \in Nat
      /\ started[AlarmRun] \in Nat /\ now[p] \in 0 .. (MaxTime + Skew)
      /\ fetched[p].expires_at \in Times /\ AlarmRun \in Runs
  BY <1>t, StampType DEF TypeOK, Times, Runs
<1>2. /\ row'.expires_at = fetched[p].expires_at
      /\ alarm' = NextAlarm(now[p], fetched[p].expires_at)
      /\ clock' = clock /\ EndRefresh(p)
  <2>s. ~StorageFails
    BY DEF Healthy
  <2>1. CASE StoreSame(p)
    <3>1. row \in Rows
      BY <2>1, <1>t DEF StoreSame, HasDigest, TypeOK
    <3> QED BY <2>1, <2>s, <3>1 DEF StoreSame, SetAlarm, Rows
  <2>2. CASE StoreNew(p)
    BY <2>2, <2>s DEF StoreNew, SetAlarm
  <2> QED BY <2>1, <2>2
<1>3. /\ now[p] + Retry + AlarmLatency + CallTime < fetched[p].expires_at
      /\ now[p] + Skew + 2 * CallTime < fetched[p].expires_at
  BY <1>t DEF DownloadsLast
<1>4. clock <= now[p] + Skew + CallTime
  BY <1>1, <1>t DEF IInv, RunsAreShort
<1>5. alarm' # -1 /\ alarm' + AlarmLatency + CallTime < row'.expires_at
  <2>1. AlarmLatency + CallTime < RefreshMargin
    BY DEF Healthy
  <2>2. alarm' \in Times
    BY <1>1, <1>2, AlarmType
  <2> QED BY <1>1, <1>2, <1>3, <2>1, <2>2 DEF NextAlarm, Later, Times
<1>6. clock' + CallTime < row'.expires_at
  BY <1>1, <1>2, <1>3, <1>4
<1>7. CASE pc'[AlarmRun] = "idle"
  BY <1>5, <1>6, <1>7 DEF RowIsCovered
<1>8. CASE pc'[AlarmRun] # "idle"
  <2>1. started'[AlarmRun] = started[AlarmRun] /\ pc[AlarmRun] # "idle"
    BY <1>1, <1>2, <1>8, <1>t, EndRefreshRuns
  <2>2. started[AlarmRun] <= clock
    BY <1>1, <2>1 DEF IInv, RunsAreShort
  <2> QED BY <1>1, <1>2, <1>6, <1>8, <2>1, <2>2 DEF RowIsCovered
<1> QED BY <1>7, <1>8

LEMMA RowIsCoveredStep ==
    Healthy /\ IInv /\ DownloadsLast /\ RowIsCovered /\ [Next]_vars => RowIsCovered'
<1> SUFFICES ASSUME Healthy, IInv, DownloadsLast, RowIsCovered, [Next]_vars
             PROVE  RowIsCovered'
  OBVIOUS
<1>t. TypeOK /\ AlarmRun \in Runs /\ clock \in Nat /\ started[AlarmRun] \in Nat
      /\ alarm \in Int /\ (row # NoRow => row.expires_at \in Nat)
  BY DEF IInv, TypeOK, Runs, Times, Rows
<1>1. CASE Tick
  <2>1. /\ clock' = clock + 1 /\ UNCHANGED <<row, alarm, pc, started>>
        /\ alarm # -1 /\ pc[AlarmRun] = "idle" => clock < alarm + AlarmLatency
    BY <1>1 DEF Tick, runVars
  <2> QED BY <2>1, <1>t DEF RowIsCovered
<1>2. CASE (\E s \in Serials : List(s)) \/ UNCHANGED vars
  BY <1>2 DEF List, vars, runVars, RowIsCovered
<1>3. ASSUME NEW p \in Calls, ServeStored(p) \/ BeginRefresh(p) PROVE RowIsCovered'
  <2>1. UNCHANGED <<clock, row, alarm>> /\ p # AlarmRun
    BY <1>3 DEF ServeStored, BeginRefresh
  <2>2. pc'[AlarmRun] = pc[AlarmRun] /\ started'[AlarmRun] = started[AlarmRun]
    BY <1>3, <2>1, <1>t DEF ServeStored, BeginRefresh, Serve, GoTo, TypeOK
  <2> QED BY <2>1, <2>2 DEF RowIsCovered
<1>4. CASE AlarmFires
  <2>1. /\ pc[AlarmRun] = "idle" /\ pc'[AlarmRun] = "fetching"
        /\ started'[AlarmRun] = clock /\ row' = row
    BY <1>4, <1>t DEF AlarmFires, GoTo, TypeOK
  <2> QED BY <2>1 DEF RowIsCovered
<1>5. ASSUME NEW p \in Runs, Receive(p) PROVE RowIsCovered'
  <2>1. pc' = [pc EXCEPT ![p] = "hashing"] /\ UNCHANGED <<clock, row, alarm, started>>
    BY <1>5, ReceivedLasts
  <2>2. pc'[AlarmRun] = "idle" <=> pc[AlarmRun] = "idle"
    BY <1>5, <2>1, <1>t DEF Receive, TypeOK
  <2> QED BY <2>1, <2>2 DEF RowIsCovered
<1>6. ASSUME NEW p \in Runs, FetchFails(p) \/ StoreFails(p) PROVE FALSE
  BY <1>6 DEF FetchFails, StoreFails, Healthy
<1>7. ASSUME NEW p \in Runs, StoreSame(p) \/ StoreNew(p) PROVE RowIsCovered'
  BY <1>7, StoredIsCovered
<1>8. ASSUME NEW p \in Runs, ServeRefreshed(p) \/ FailClosed(p) \/ Return(p)
      PROVE  RowIsCovered'
  <2>1. p # AlarmRun
    BY <1>8 DEF IInv, AlarmNeverAnswers, ServeRefreshed, FailClosed, Return
  <2>2. UNCHANGED <<clock, row, alarm>>
    BY <1>8 DEF ServeRefreshed, FailClosed, Return
  <2>3. pc'[AlarmRun] = pc[AlarmRun] /\ started'[AlarmRun] = started[AlarmRun]
    BY <1>8, <2>1, <1>t DEF ServeRefreshed, FailClosed, Return, Serve, GoTo, Forget, TypeOK
  <2> QED BY <2>2, <2>3 DEF RowIsCovered
<1>9. ~Crash
  BY DEF Crash, Healthy, IInv, TypeOK
<1> QED BY <1>1, <1>2, <1>3, <1>4, <1>5, <1>6, <1>7, <1>8, <1>9 DEF Next, Proceed

\* With a healthy feed the row never lapses: whichever refreshes overlap and whichever of
\* them stores last, the alarm has the next one done before the row expires
\* (state.ts:15, 108).
THEOREM RowNeverLapses == Healthy => (Spec => []NeverLapses)
<1> SUFFICES ASSUME Healthy PROVE Spec => []NeverLapses
  OBVIOUS
<1>1. Init => DownloadsLast /\ RowIsCovered
  BY DEF Init, DownloadsLast, RowIsCovered, Runs
<1>2. IInv /\ DownloadsLast /\ RowIsCovered /\ [Next]_vars => DownloadsLast' /\ RowIsCovered'
  BY DownloadsLastStep, RowIsCoveredStep
<1>3. IInv /\ RowIsCovered => NeverLapses
  <2> SUFFICES ASSUME IInv, RowIsCovered, row # NoRow PROVE clock < row.expires_at
    BY DEF NeverLapses
  <2>1. AlarmRun \in Runs /\ clock \in Nat /\ started[AlarmRun] \in Nat /\ row.expires_at \in Nat
    BY DEF IInv, TypeOK, Runs, Times, Rows
  <2>2. pc[AlarmRun] # "idle" => clock <= started[AlarmRun] + CallTime
    BY <2>1 DEF IInv, RunsAreShort
  <2> QED BY <2>1, <2>2 DEF RowIsCovered
<1>4. Spec => [](DownloadsLast /\ RowIsCovered)
  BY Inductive, <1>1, <1>2, PTL DEF Spec
<1> QED BY Inductive, <1>3, <1>4, PTL

-----------------------------------------------------------------------------
\* The snapshot implements the abstract revocation service.
THEOREM ImplementsService == Spec => ServiceSpec
<1>1. Init => Service!Init
  BY DEF Init, Service!Init, Service!Never, Runs
<1>2. ASSUME IInv, [Next]_vars PROVE [Service!Next]_(Service!serviceVars)
  <2> DEFINE given == [p \in Calls |-> answer[p]]
  <2>t. TypeOK /\ NoneAnsweredEarly /\ \A p \in Calls : p \in Runs
    BY <1>2 DEF IInv, Runs
  <2>s. ASSUME UNCHANGED <<clock, listedAt>>, \A p \in Calls : answer'[p] = answer[p]
        PROVE  UNCHANGED Service!serviceVars
    BY <2>s DEF Service!serviceVars
  <2>1. CASE Tick
    BY <2>1 DEF Tick, runVars, Service!Next, Service!Tick
  <2>2. ASSUME NEW s \in Serials, List(s) PROVE Service!Next
    BY <2>2 DEF List, runVars, Service!Next, Service!List, Service!Never
  <2>3. ASSUME NEW p \in Calls, ServeStored(p) \/ ServeRefreshed(p) PROVE Service!Next
    <3>1. Answers(p) /\ answer[p] = Unavailable
      <4>1. row.serials \in Lists
        BY <2>3, <2>t DEF ServeStored, ServeRefreshed, Fresh, TypeOK, Rows
      <4>2. row.serials # Unavailable
        BY <4>1 DEF Lists
      <4>3. /\ answer' = [answer EXCEPT ![p] = row.serials]
            /\ pc' = [pc EXCEPT ![p] = "answered"]
        BY <1>2, <2>3, <2>t, ServedRow DEF ServeStored, ServeRefreshed, Fresh
      <4> QED BY <2>3, <4>2, <4>3, <2>t
              DEF ServeStored, ServeRefreshed, Answers, NoneAnsweredEarly, TypeOK
    <3>2. /\ \A s \in Serials :
                listedAt[s] # -1 /\ listedAt[s] + Window < clock => s \in answer'[p]
          /\ answer'[p] \subseteq Listed
      BY <1>2, <3>1, AnswerIsRecent
    <3>3. Service!MayReturn(answer'[p])
      BY <3>2 DEF Service!MayReturn, Service!Overdue, Service!Listed, Service!Never, Listed
    <3>4. answer'[p] \in SUBSET Serials
      BY <3>2 DEF Listed
    <3>5. given' = [given EXCEPT ![p] = answer'[p]]
      BY <2>3, <2>t DEF ServeStored, ServeRefreshed, Serve, TypeOK
    <3>6. UNCHANGED <<clock, listedAt>>
      BY <2>3 DEF ServeStored, ServeRefreshed
    <3>7. Service!Return(p)
      BY <3>1, <3>3, <3>4, <3>5, <3>6 DEF Service!Return
    <3> QED BY <3>7 DEF Service!Next
  <2>4. ASSUME NEW p \in Calls, BeginRefresh(p) PROVE UNCHANGED Service!serviceVars
    BY <2>4, <2>s DEF BeginRefresh
  <2>5. CASE AlarmFires
    BY <2>5, <2>s DEF AlarmFires
  <2>6. ASSUME NEW p \in Runs,
               Receive(p) \/ FetchFails(p) \/ StoreFails(p) \/ StoreSame(p) \/ StoreNew(p)
        PROVE  UNCHANGED Service!serviceVars
    BY <2>6, <2>s DEF Receive, FetchFails, StoreFails, StoreSame, StoreNew
  <2>7. ASSUME NEW p \in Runs, FailClosed(p) PROVE UNCHANGED Service!serviceVars
    <3>1. answer' = answer
      BY <2>7, <2>t DEF FailClosed, NoneAnsweredEarly, TypeOK
    <3> QED BY <2>7, <3>1, <2>s DEF FailClosed
  <2>8. ASSUME NEW p \in Runs, ServeRefreshed(p) PROVE Service!Next
    <3>1. p \in Calls
      BY <1>2, <2>8 DEF ServeRefreshed, Runs, IInv, AlarmNeverAnswers
    <3> QED BY <2>3, <2>8, <3>1
  <2>9. ASSUME NEW p \in Runs, Return(p) PROVE Service!Next
    <3>1. p \in Calls
      BY <1>2, <2>9 DEF Return, Runs, IInv, AlarmNeverAnswers
    <3>2. Service!Drop({p})
      BY <2>9, <2>t DEF Return, Service!Drop, TypeOK
    <3> QED BY <3>1, <3>2 DEF Service!Next
  <2>10. CASE Crash
    <3>1. Service!Drop(Calls)
      BY <2>10, <2>t DEF Crash, Service!Drop
    <3> QED BY <3>1 DEF Service!Next
  <2>11. CASE UNCHANGED vars
    BY <2>11, <2>s DEF vars
  <2> QED BY <1>2, <2>1, <2>2, <2>3, <2>4, <2>5, <2>6, <2>7, <2>8, <2>9, <2>10, <2>11
          DEF Next, Proceed
<1> QED BY Inductive, <1>1, <1>2, PTL DEF Spec, ServiceSpec, Service!Spec

=============================================================================
