---------------------------- MODULE BackendProofs ---------------------------
(***************************************************************************)
(* Proofs about Backend, for every set of challenges, slots and serials,    *)
(* every lifetime, window and skew, and any number of loads.                *)
(***************************************************************************)
EXTENDS Backend, WorkerProofs

USE BackendAssumption DEF Unissued

\* What the handlers do to the slots is what Worker says.
LEMMA StepIsWorkers == ASSUME BackendNext PROVE [Next]_vars
<1>1. CASE BackendTick
  BY <1>1 DEF BackendTick, Next
<1>2. ASSUME NEW s \in Serials, ListSerial(s) PROVE UNCHANGED vars
  BY <1>2 DEF ListSerial
<1>3. ASSUME NEW l \in Loads, LoadSucceeds(l) \/ LoadFails(l) PROVE UNCHANGED vars
  BY <1>3 DEF LoadSucceeds, LoadFails
<1>4. ASSUME NEW w \in Slots, BackendStep(w) PROVE Step(w) \/ UNCHANGED vars
  BY <1>4 DEF BackendStep, AwaitRuntime, SubmitChain, FetchList, VerifyChain, Goes, Ends, Step
<1> QED BY <1>1, <1>2, <1>3, <1>4 DEF BackendNext, Next

\* The backend with its runtime and its lists implements Worker: what is proved of
\* Worker holds of it (worker.ts handle).
THEOREM ImplementsWorker == BackendSpec => Spec
<1>1. BackendInit => Init
  BY DEF BackendInit
<1>2. [BackendNext]_backendVars => [Next]_vars
  BY StepIsWorkers DEF backendVars
<1> QED BY <1>1, <1>2, PTL DEF BackendSpec, Spec

\* The worker's own variables are well typed, and slots hold issued challenges.
LEMMA WorkerTypes == BackendSpec => [](TypeOK /\ SlotsHoldIssued)
BY ImplementsWorker, TypeCorrect, PTL

-----------------------------------------------------------------------------
\* A step on slot w moves no other slot and issues nothing but an unissued challenge.
LEMMA OtherSlots ==
    ASSUME BackendTypeOK, NEW w \in Slots, BackendStep(w), NEW v \in Slots, v # w
    PROVE  /\ pc'[v] = pc[v] /\ token'[v] = token[v]
           /\ lists'[v] = lists[v] /\ serials'[v] = serials[v]
           /\ UNCHANGED <<clock, listedAt>>
           /\ \A c \in Nonces : issued[c] # Unissued => issued'[c] = issued[c]
BY DEF BackendStep, AwaitRuntime, SubmitChain, FetchList, VerifyChain, Goes, Ends, Release,
       Arrive, TurnedAway, IssueChallenge, Submit, FetchRevocations, VerifyAttestation,
       SendConsume, ConsumeGranted, ConsumeReplyLost, ConsumeReplayed, Respond, Fail,
       Answer, GoTo, BackendTypeOK, TypeOK, vars, runtimeVars, chainVars, Revocations!Return

\* A slot comes past the verifier in two steps only: it gets its list, and then it is
\* verified against that list.
LEMMA SameSlot ==
    ASSUME BackendTypeOK, NEW w \in Slots, BackendStep(w),
           pc'[w] \in {"attesting", "sending", "consuming", "replying"}
    PROVE  /\ token'[w] = token[w] /\ serials'[w] = serials[w] /\ issued' = issued
           /\ pc[w] \in {"fetching", "attesting", "sending", "consuming", "replying"}
           /\ pc[w] = "fetching" => FetchList(w) /\ pc'[w] = "attesting"
           /\ pc[w] # "fetching" => lists'[w] = lists[w]
           /\ pc[w] = "attesting" => pc'[w] = "sending" /\ serials[w] \cap lists[w] = {}
<1>t. BackendTypeOK /\ TypeOK
  BY DEF BackendTypeOK
<1>1. CASE FetchList(w)
  BY <1>1, <1>t DEF FetchList, FetchRevocations, GoTo, BackendTypeOK, TypeOK
<1>2. CASE VerifyChain(w)
  BY <1>2, <1>t DEF VerifyChain, VerifyAttestation, Answer, GoTo, BackendTypeOK, TypeOK,
                    chainVars
<1>3. CASE Goes(w)
  BY <1>3, <1>t DEF Goes, Arrive, TurnedAway, SendConsume, ConsumeGranted, GoTo,
                    BackendTypeOK, TypeOK, chainVars
<1>4. ~Ends(w) /\ ~SubmitChain(w) /\ ~AwaitRuntime(w)
  BY <1>t DEF Ends, SubmitChain, AwaitRuntime, IssueChallenge, Submit, ConsumeReplyLost,
              ConsumeReplayed, Respond, Fail, Answer, GoTo, TypeOK, vars
<1> QED BY <1>1, <1>2, <1>3, <1>4 DEF BackendStep

-----------------------------------------------------------------------------
\* The types of what Backend adds.
AddedTypes ==
    /\ listedAt \in [Serials -> {Revocations!Never} \cup StartTime .. MaxTime]
    /\ lists \in [Slots -> {NoAnswer} \cup SUBSET Serials]
    /\ serials \in [Slots -> SUBSET Serials]
    /\ loads \in [Loads -> {"unused", "running", "ready", "failed"}]
    /\ cached \in {NoLoad} \cup Loads
    /\ awaited \in [Slots -> {NoLoad} \cup Loads]

LEMMA AddedTypesStep == BackendTypeOK /\ [BackendNext]_backendVars => AddedTypes'
<1> SUFFICES ASSUME BackendTypeOK, [BackendNext]_backendVars
             PROVE  AddedTypes'
  OBVIOUS
<1>t. AddedTypes /\ clock \in StartTime .. MaxTime
  BY DEF BackendTypeOK, TypeOK, AddedTypes
<1>r. ASSUME NEW w \in Slots, Release(w) PROVE AddedTypes'
  BY <1>r, <1>t DEF Release, AddedTypes
<1>u. ASSUME UNCHANGED <<listedAt, chainVars, runtimeVars>> PROVE AddedTypes'
  BY <1>u, <1>t DEF AddedTypes, chainVars, runtimeVars
<1>1. CASE BackendTick
  BY <1>1, <1>u DEF BackendTick
<1>2. ASSUME NEW s \in Serials, ListSerial(s) PROVE AddedTypes'
  BY <1>2, <1>t DEF ListSerial, Revocations!List, AddedTypes, runtimeVars
<1>3. ASSUME NEW l \in Loads, LoadSucceeds(l) \/ LoadFails(l) PROVE AddedTypes'
  BY <1>3, <1>t DEF LoadSucceeds, LoadFails, AddedTypes, chainVars
<1>4. ASSUME NEW w \in Slots, AwaitRuntime(w) PROVE AddedTypes'
  BY <1>4, <1>t DEF AwaitRuntime, AddedTypes, chainVars
<1>5. ASSUME NEW w \in Slots, SubmitChain(w) PROVE AddedTypes'
  BY <1>5, <1>r, <1>t DEF SubmitChain, AddedTypes, runtimeVars
<1>6. ASSUME NEW w \in Slots, FetchList(w) PROVE AddedTypes'
  BY <1>6, <1>t DEF FetchList, Revocations!Return, AddedTypes, runtimeVars
<1>7. ASSUME NEW w \in Slots, VerifyChain(w) PROVE AddedTypes'
  BY <1>7, <1>r, <1>u DEF VerifyChain
<1>8. ASSUME NEW w \in Slots, Goes(w) PROVE AddedTypes'
  BY <1>8, <1>u DEF Goes
<1>9. ASSUME NEW w \in Slots, Ends(w) PROVE AddedTypes'
  BY <1>9, <1>r DEF Ends
<1>10. CASE UNCHANGED backendVars
  BY <1>10, <1>u DEF backendVars
<1> QED BY <1>1, <1>2, <1>3, <1>4, <1>5, <1>6, <1>7, <1>8, <1>9, <1>10
        DEF BackendNext, BackendStep

LEMMA IssuedStep ==
    ASSUME FreshInv, [BackendNext]_backendVars
    PROVE  IssuedInThePast'
<1>t. TypeOK /\ IssuedInThePast
  BY DEF FreshInv, BackendTypeOK
<1>n. clock \in Nat /\ Skew \in Nat /\ \A c \in Nonces : issued[c] \in Int
  BY <1>t, WorkerAssumption DEF TypeOK
<1>1. CASE issued' = issued /\ (clock' = clock \/ clock' = clock + 1)
  BY <1>1, <1>t, <1>n DEF IssuedInThePast
<1>2. ASSUME NEW w \in Slots, IssueChallenge(w) PROVE IssuedInThePast'
  <2>1. PICK c \in Nonces, now \in Readings : issued' = [issued EXCEPT ![c] = now]
    BY <1>2 DEF IssueChallenge
  <2>2. now <= clock + Skew /\ clock' = clock
    BY <1>2 DEF Readings, IssueChallenge
  <2> QED BY <2>1, <2>2, <1>t DEF IssuedInThePast, TypeOK
<1>3. [Next]_vars
  BY StepIsWorkers DEF backendVars
<1>4. (\A w \in Slots : ~IssueChallenge(w)) =>
          issued' = issued /\ (clock' = clock \/ clock' = clock + 1)
  BY <1>3 DEF Next, Step, Tick, Arrive, TurnedAway, Submit, FetchRevocations,
              VerifyAttestation, SendConsume, ConsumeGranted, ConsumeReplyLost,
              ConsumeReplayed, Respond, Fail, vars
<1> QED BY <1>1, <1>2, <1>4

LEMMA ListsStep ==
    ASSUME FreshInv, [BackendNext]_backendVars
    PROVE  ListsPostdateIssue' /\ VerifiedAgainstList'
<1>t. BackendTypeOK /\ TypeOK /\ ListsPostdateIssue /\ VerifiedAgainstList /\ IssuedInThePast
      /\ SlotsHoldIssued
  BY DEF FreshInv, BackendTypeOK
<1>n. /\ clock \in Nat /\ Skew \in Nat /\ Window \in Nat
      /\ \A c \in Nonces : issued[c] \in Int
      /\ \A s \in Serials : listedAt[s] \in Int
  BY <1>t, WorkerAssumption DEF TypeOK, BackendTypeOK, Revocations!Never
<1>k. ASSUME UNCHANGED <<pc, token, issued, listedAt, lists, serials>>
      PROVE  ListsPostdateIssue' /\ VerifiedAgainstList'
  BY <1>k, <1>t DEF ListsPostdateIssue, VerifiedAgainstList
<1>1. CASE BackendTick
  BY <1>1, <1>k DEF BackendTick, Tick, chainVars
<1>2. ASSUME NEW s \in Serials, ListSerial(s)
      PROVE  ListsPostdateIssue' /\ VerifiedAgainstList'
  <2>1. /\ UNCHANGED <<pc, token, issued, lists, serials>>
        /\ listedAt' = [listedAt EXCEPT ![s] = clock]
    BY <1>2 DEF ListSerial, Revocations!List, vars
  <2>2. \A w \in Slots : pc[w] \in {"attesting", "sending", "consuming", "replying"} =>
            issued[token[w]] <= clock + Skew /\ issued[token[w]] \in Int
    BY <1>t, <1>n DEF SlotsHoldIssued, IssuedInThePast
  <2>3. \A r \in Serials : listedAt'[r] = IF r = s THEN clock ELSE listedAt[r]
    BY <2>1, <1>t DEF BackendTypeOK
  <2>4. ListsPostdateIssue'
    BY <2>1, <2>2, <2>3, <1>t, <1>n DEF ListsPostdateIssue
  <2> QED BY <2>1, <2>4, <1>t DEF VerifiedAgainstList
<1>3. ASSUME NEW l \in Loads, LoadSucceeds(l) \/ LoadFails(l)
      PROVE  ListsPostdateIssue' /\ VerifiedAgainstList'
  BY <1>3, <1>k DEF LoadSucceeds, LoadFails, vars, chainVars
<1>4. ASSUME NEW w \in Slots, BackendStep(w)
      PROVE  ListsPostdateIssue' /\ VerifiedAgainstList'
  <2> SUFFICES ASSUME NEW v \in Slots,
                      pc'[v] \in {"attesting", "sending", "consuming", "replying"}
               PROVE  /\ \A s \in Serials :
                            listedAt'[s] # Revocations!Never
                            /\ listedAt'[s] + Window < issued'[token'[v]] - Skew => s \in lists'[v]
                      /\ pc'[v] # "attesting" => serials'[v] \cap lists'[v] = {}
    BY DEF ListsPostdateIssue, VerifiedAgainstList
  <2>1. CASE v # w
    <3>1. /\ pc'[v] = pc[v] /\ token'[v] = token[v] /\ listedAt' = listedAt
          /\ lists'[v] = lists[v] /\ serials'[v] = serials[v]
          /\ \A c \in Nonces : issued[c] # Unissued => issued'[c] = issued[c]
      BY <1>4, <2>1, <1>t, OtherSlots
    <3>2. token[v] \in Nonces /\ issued[token[v]] # Unissued
      BY <3>1, <1>t DEF SlotsHoldIssued
    <3> QED BY <3>1, <3>2, <1>t DEF ListsPostdateIssue, VerifiedAgainstList
  <2>2. CASE v = w
    <3>1. /\ token'[w] = token[w] /\ serials'[w] = serials[w] /\ issued' = issued
          /\ pc[w] \in {"fetching", "attesting", "sending", "consuming", "replying"}
          /\ pc[w] = "fetching" => FetchList(w) /\ pc'[w] = "attesting"
          /\ pc[w] # "fetching" => lists'[w] = lists[w]
          /\ pc[w] = "attesting" => pc'[w] = "sending" /\ serials[w] \cap lists[w] = {}
      BY <1>4, <2>2, <1>t, SameSlot
    <3>2. CASE pc[w] = "fetching"
      <4>1. PICK list \in SUBSET Serials :
               Revocations!MayReturn(list) /\ lists' = [lists EXCEPT ![w] = list]
        BY <3>1, <3>2 DEF FetchList, Revocations!Return
      <4>2. lists'[w] = list /\ listedAt' = listedAt
        BY <4>1, <3>1, <3>2, <1>t DEF FetchList, Revocations!Return, BackendTypeOK
      <4>3. issued[token[w]] - Skew <= clock /\ issued[token[w]] \in Int
        BY <3>2, <1>t, <1>n DEF SlotsHoldIssued, IssuedInThePast
      <4>4. \A s \in Serials : listedAt[s] # Revocations!Never /\ listedAt[s] + Window < clock
               => s \in list
        BY <4>1 DEF Revocations!MayReturn, Revocations!Overdue
      <4> QED BY <2>2, <3>1, <3>2, <4>2, <4>3, <4>4, <1>n
    <3>3. CASE pc[w] # "fetching"
      <4>1. listedAt' = listedAt
        BY <3>1, <3>3, <1>4
           DEF BackendStep, AwaitRuntime, SubmitChain, FetchList, Revocations!Return,
               VerifyChain, Goes, Ends, Release
      <4> QED BY <2>2, <3>1, <3>3, <4>1, <1>t DEF ListsPostdateIssue, VerifiedAgainstList
    <3> QED BY <3>2, <3>3
  <2> QED BY <2>1, <2>2
<1>5. CASE UNCHANGED backendVars
  BY <1>5, <1>k DEF backendVars, vars, chainVars
<1> QED BY <1>1, <1>2, <1>3, <1>4, <1>5 DEF BackendNext

LEMMA CacheStep ==
    ASSUME FreshInv, [BackendNext]_backendVars
    PROVE  CachedIsLive'
<1>t. BackendTypeOK /\ CachedIsLive
  BY DEF FreshInv
<1>k. ASSUME UNCHANGED <<loads, cached>> PROVE CachedIsLive'
  BY <1>k, <1>t DEF CachedIsLive
<1>1. ASSUME NEW l \in Loads, LoadSucceeds(l) \/ LoadFails(l) PROVE CachedIsLive'
  BY <1>1, <1>t DEF LoadSucceeds, LoadFails, CachedIsLive, BackendTypeOK, Loads
<1>2. ASSUME NEW w \in Slots, AwaitRuntime(w) PROVE CachedIsLive'
  BY <1>2, <1>t DEF AwaitRuntime, CachedIsLive, BackendTypeOK, Loads
<1>3. ASSUME NEW w \in Slots, BackendStep(w), ~AwaitRuntime(w) PROVE UNCHANGED <<loads, cached>>
  BY <1>3 DEF BackendStep, SubmitChain, FetchList, VerifyChain, Goes, Ends, Release, runtimeVars
<1>4. CASE BackendTick \/ (\E s \in Serials : ListSerial(s)) \/ UNCHANGED backendVars
  BY <1>4, <1>k DEF BackendTick, ListSerial, backendVars, runtimeVars
<1> QED BY <1>k, <1>1, <1>2, <1>3, <1>4 DEF BackendNext

LEMMA InitTypes == Init => TypeOK /\ SlotsHoldIssued
BY LifetimeAssumption, TablesAssumption, WorkerAssumption
   DEF Init, TypeOK, SlotsHoldIssued, Minutes

\* The strengthened invariant holds in every reachable state.
LEMMA FreshInductive == BackendSpec => []FreshInv
<1>1. BackendInit => FreshInv
  <2> SUFFICES ASSUME BackendInit PROVE FreshInv
    OBVIOUS
  <2>1. TypeOK /\ SlotsHoldIssued
    BY InitTypes DEF BackendInit
  <2>2. BackendTypeOK
    BY <2>1 DEF BackendInit, BackendTypeOK
  <2>3. IssuedInThePast
    BY WorkerAssumption DEF BackendInit, Init, IssuedInThePast
  <2> QED BY <2>1, <2>2, <2>3
          DEF BackendInit, Init, FreshInv, ListsPostdateIssue, VerifiedAgainstList,
              CachedIsLive, Loads
<1>2. ASSUME FreshInv, [BackendNext]_backendVars, (TypeOK /\ SlotsHoldIssued)'
      PROVE  FreshInv'
  <2>1. BackendTypeOK'
    BY <1>2, AddedTypesStep DEF AddedTypes, BackendTypeOK, FreshInv
  <2> QED BY <1>2, <2>1, IssuedStep, ListsStep, CacheStep DEF FreshInv
<1> QED BY <1>1, <1>2, WorkerTypes, PTL DEF BackendSpec

-----------------------------------------------------------------------------
\* The variables of the backend keep their types.
THEOREM BackendTypes == BackendSpec => []BackendTypeOK
<1>1. FreshInv => BackendTypeOK
  BY DEF FreshInv
<1> QED BY FreshInductive, <1>1, PTL

\* No flag is sent for a chain with a serial that Google listed Blindness or more
\* seconds ago, however long the request took between its awaits (worker.ts:66-79).
THEOREM FreshFlags == BackendSpec => FlagsAreFresh
<1>1. ASSUME FreshInv, [BackendNext]_backendVars, NEW w \in Slots, Flagged(w),
             NEW s \in serials[w], listedAt[s] # Revocations!Never
      PROVE  clock < listedAt[s] + Blindness
  <2>t. BackendTypeOK /\ TypeOK
    BY <1>1 DEF FreshInv, BackendTypeOK
  <2>1. Respond(w)
    <3>1. \A v \in Slots : v # w => ~BackendStep(v)
      BY <1>1, <2>t, OtherSlots DEF Flagged
    <3>2. BackendStep(w)
      BY <1>1, <3>1 DEF Flagged, BackendNext, BackendTick, ListSerial, LoadSucceeds, LoadFails,
                        Tick, backendVars, vars
    <3> QED BY <1>1, <3>2
            DEF BackendStep, AwaitRuntime, SubmitChain, FetchList, VerifyChain, Goes, Ends, Submit,
                FetchRevocations, VerifyAttestation, Arrive, TurnedAway, SendConsume,
                ConsumeGranted, IssueChallenge, ConsumeReplyLost, ConsumeReplayed, Fail, Flagged,
                vars
  <2>2. PICK now \in Readings : Verified(token[w], now)
    BY <1>1, <2>1 DEF Respond, Flagged
  <2>3. clock <= now + Skew /\ now \in Nat
    BY <2>t, <2>2, ReadingsType, WorkerAssumption DEF Readings, TypeOK
  <2>4. token[w] \in Nonces /\ now < issued[token[w]] + Lifetime /\ issued[token[w]] \in Int
    BY <2>2, <2>3, <2>t, LifetimeAssumption, WorkerAssumption DEF Verified, InTime, TypeOK
  <2>5. s \in Serials /\ s \notin lists[w]
    BY <1>1, <2>t DEF FreshInv, VerifiedAgainstList, Flagged, BackendTypeOK
  <2>6. ~(listedAt[s] + Window < issued[token[w]] - Skew)
    BY <1>1, <2>5 DEF FreshInv, ListsPostdateIssue, Flagged
  <2>7. listedAt[s] \in Int /\ clock \in Nat
    BY <2>5, <2>t, WorkerAssumption DEF BackendTypeOK, TypeOK, Revocations!Never
  <2> QED BY <2>3, <2>4, <2>6, <2>7, WorkerAssumption, LifetimeAssumption DEF Blindness
<1>2. FreshInv /\ [BackendNext]_backendVars =>
         \A w \in Slots : Flagged(w) =>
            \A s \in serials[w] :
                listedAt[s] # Revocations!Never => clock < listedAt[s] + Blindness
  BY <1>1
<1> QED BY FreshInductive, <1>2, PTL DEF BackendSpec, FlagsAreFresh

\* Requests that arrive together wait for one load of the configuration (config.ts:31).
THEOREM OneLoad == BackendSpec => []LoadsOnce
<1>1. FreshInv => LoadsOnce
  BY DEF FreshInv, CachedIsLive, LoadsOnce
<1> QED BY FreshInductive, <1>1, PTL

\* No request is failed by a load that failed before it asked (config.ts:32).
THEOREM ForgottenFailures == BackendSpec => FailuresAreForgotten
<1>1. ASSUME FreshInv, [BackendNext]_backendVars, NEW w \in Slots,
             awaited[w] = NoLoad, awaited'[w] # NoLoad
      PROVE  loads[awaited'[w]] # "failed"
  <2>t. BackendTypeOK /\ CachedIsLive
    BY <1>1 DEF FreshInv
  <2>1. AwaitRuntime(w)
    <3>1. ASSUME NEW v \in Slots, BackendStep(v), ~AwaitRuntime(v) PROVE awaited'[w] = awaited[w]
      BY <1>1, <3>1, <2>t
         DEF BackendStep, SubmitChain, FetchList, VerifyChain, Goes, Ends, Release, runtimeVars,
             BackendTypeOK
    <3>2. ASSUME NEW v \in Slots, AwaitRuntime(v), v # w PROVE awaited'[w] = awaited[w]
      BY <3>2, <2>t DEF AwaitRuntime, BackendTypeOK
    <3> QED BY <1>1, <3>1, <3>2 DEF BackendNext, BackendTick, ListSerial, LoadSucceeds, LoadFails,
                                    backendVars, runtimeVars
  <2> QED BY <1>1, <2>1, <2>t DEF AwaitRuntime, CachedIsLive, BackendTypeOK
<1>2. FreshInv /\ [BackendNext]_backendVars =>
         \A w \in Slots : awaited[w] = NoLoad /\ awaited'[w] # NoLoad
             => loads[awaited'[w]] # "failed"
  BY <1>1
<1> QED BY FreshInductive, <1>2, PTL DEF BackendSpec, FailuresAreForgotten

=============================================================================
