---------------------------- MODULE WorkerProofs ----------------------------
(***************************************************************************)
(* Proofs about Worker, for every set of challenges and slots, every        *)
(* lifetime, margin and limit, and every skew the margin covers.            *)
(***************************************************************************)
EXTENDS Worker, TLAPS

USE DEF Unissued

\* A clock reading is a number of seconds within the skew, in a minute of the table.
LEMMA ReadingsType ==
    ASSUME TypeOK, NEW now \in Readings
    PROVE  /\ now \in 0 .. (MaxTime + Skew)
           /\ now \in Nat
           /\ clock - Skew <= now
           /\ now <= clock + Skew
           /\ MinuteOf(now) \in Minutes
BY LifetimeAssumption, TablesAssumption, WorkerAssumption
   DEF TypeOK, Readings, Minutes, MinuteOf

\* allowRequest keeps every count of the table between 0 and the limit.
LEMMA AllowRequestType ==
    ASSUME TypeOK, NEW now \in Readings
    PROVE  AllowRequest(request_budget, now) \in [Minutes -> 0 .. RateLimit]
<1> USE TablesAssumption, ReadingsType
<1>1. RecentMinutes(request_budget, now) \in [Minutes -> 0 .. RateLimit]
  BY DEF TypeOK, RecentMinutes
<1>2. CASE Allowed(request_budget, now)
  <2>1. request_budget[MinuteOf(now)] \in 0 .. RateLimit /\ request_budget[MinuteOf(now)] < RateLimit
    BY <1>2 DEF Allowed, TypeOK
  <2>2. RecentMinutes(request_budget, now)[MinuteOf(now)] < RateLimit
    BY <2>1 DEF RecentMinutes, TypeOK
  <2> QED BY <1>1, <1>2, <2>2 DEF AllowRequest
<1>3. CASE ~Allowed(request_budget, now)
  BY <1>1, <1>3 DEF AllowRequest
<1> QED BY <1>2, <1>3

\* A step of consume only adds a row for the challenge it was called with.
LEMMA ConsumeRows ==
    ASSUME NEW table, NEW id, NEW e, NEW now, NEW row \in Consume(table, id, e, now)
    PROVE  row \in table \/ row = [id |-> id, expires_at |-> e]
BY DEF Consume, Retained

SlotTypes ==
    /\ pc \in [Slots -> {"idle", "admitted", "fetching", "attesting", "sending",
                         "consuming", "replying"}]
    /\ token \in [Slots -> Nonces \cup {NotAChallenge}]
    /\ stamp \in [Slots -> 0 .. (MaxTime + Skew)]

\* Answering a request frees its slot and leaves the others as they are.
LEMMA AnswerSlots ==
    ASSUME TypeOK, SlotsHoldIssued, NEW w \in Slots, Answer(w),
           issued' = issued, clock' = clock
    PROVE  SlotTypes' /\ SlotsHoldIssued'
<1> USE WorkerAssumption
<1>1. SlotTypes'
  BY DEF TypeOK, Answer, GoTo, SlotTypes
<1>2. SlotsHoldIssued'
  BY DEF TypeOK, Answer, GoTo, SlotsHoldIssued
<1> QED BY <1>1, <1>2

\* Every variable has its type, and a request past the first verify holds a
\* challenge that was issued (worker.ts handle).
THEOREM TypeCorrect == Spec => [](TypeOK /\ SlotsHoldIssued)
<1> USE LifetimeAssumption, TablesAssumption, WorkerAssumption
<1>1. Init => TypeOK /\ SlotsHoldIssued
  BY DEF Init, TypeOK, SlotsHoldIssued, Minutes
<1>2. TypeOK /\ SlotsHoldIssued /\ [Next]_vars => (TypeOK /\ SlotsHoldIssued)'
  <2> SUFFICES ASSUME TypeOK, SlotsHoldIssued, [Next]_vars
               PROVE  TypeOK' /\ SlotsHoldIssued'
    OBVIOUS
  <2> USE ReadingsType
  <2>1. CASE Tick
    BY <2>1 DEF Tick, TypeOK, SlotsHoldIssued, Minutes
  <2>2. ASSUME NEW w \in Slots, Arrive(w) PROVE TypeOK' /\ SlotsHoldIssued'
    BY <2>2, AllowRequestType DEF Arrive, GoTo, TypeOK, SlotsHoldIssued, Minutes
  <2>3. ASSUME NEW w \in Slots, TurnedAway(w) PROVE TypeOK' /\ SlotsHoldIssued'
    BY <2>3, AllowRequestType DEF TurnedAway, TypeOK, SlotsHoldIssued, Minutes
  <2>4. ASSUME NEW w \in Slots, IssueChallenge(w) PROVE TypeOK' /\ SlotsHoldIssued'
    BY <2>4 DEF IssueChallenge, Answer, GoTo, TypeOK, SlotsHoldIssued, Minutes
  <2>5. ASSUME NEW w \in Slots, Submit(w) PROVE TypeOK' /\ SlotsHoldIssued'
    <3>1. PICK t \in {c \in Nonces : issued[c] # Unissued} \cup {NotAChallenge}, now \in Readings :
             IF Verified(t, now)
             THEN /\ GoTo(w, "fetching")
                  /\ token' = [token EXCEPT ![w] = t]
                  /\ UNCHANGED stamp
             ELSE Answer(w)
      BY <2>5 DEF Submit
    <3>2. CASE Verified(t, now)
      BY <2>5, <3>1, <3>2 DEF Submit, GoTo, Verified, TypeOK, SlotsHoldIssued, Minutes
    <3>3. CASE ~Verified(t, now)
      BY <2>5, <3>1, <3>3, AnswerSlots DEF Submit, SlotTypes, TypeOK, Minutes
    <3> QED BY <3>2, <3>3
  <2>6. ASSUME NEW w \in Slots, FetchRevocations(w) PROVE TypeOK' /\ SlotsHoldIssued'
    BY <2>6 DEF FetchRevocations, GoTo, TypeOK, SlotsHoldIssued, Minutes
  <2>7. ASSUME NEW w \in Slots, VerifyAttestation(w) PROVE TypeOK' /\ SlotsHoldIssued'
    <3>1. CASE Answer(w)
      BY <2>7, <3>1, AnswerSlots DEF VerifyAttestation, SlotTypes, TypeOK, Minutes
    <3>2. CASE GoTo(w, "sending") /\ UNCHANGED <<token, stamp>>
      BY <2>7, <3>2 DEF VerifyAttestation, GoTo, TypeOK, SlotsHoldIssued, Minutes
    <3> QED BY <2>7, <3>1, <3>2 DEF VerifyAttestation
  <2>8. ASSUME NEW w \in Slots, SendConsume(w) PROVE TypeOK' /\ SlotsHoldIssued'
    BY <2>8 DEF SendConsume, GoTo, TypeOK, SlotsHoldIssued, Minutes
  <2>9. ASSUME NEW w \in Slots, pc[w] = "consuming", ConsumeToken(w)
        PROVE  used_challenges' \subseteq
                   [id : Nonces, expires_at : Lifetime .. (MaxTime + Skew + Lifetime)]
    <3>1. token[w] \in Nonces /\ issued[token[w]] \in 0 .. (MaxTime + Skew)
      BY <2>9 DEF TypeOK, SlotsHoldIssued
    <3>2. [id |-> token[w], expires_at |-> ExpiresAtSeconds(issued[token[w]])] \in
             [id : Nonces, expires_at : Lifetime .. (MaxTime + Skew + Lifetime)]
      BY <3>1 DEF ExpiresAtSeconds
    <3> QED BY <2>9, <3>2, ConsumeRows DEF ConsumeToken, TypeOK
  <2>10. ASSUME NEW w \in Slots, ConsumeGranted(w) PROVE TypeOK' /\ SlotsHoldIssued'
    <3>1. pc[w] = "consuming" /\ ConsumeToken(w) /\ token[w] \in Nonces
      BY <2>10 DEF ConsumeGranted, SlotsHoldIssued
    <3>2. wins' \in [Nonces -> Nat]
      BY <2>10, <3>1 DEF ConsumeGranted, TypeOK
    <3>3. SlotTypes' /\ SlotsHoldIssued'
      BY <2>10, <3>1 DEF ConsumeGranted, GoTo, TypeOK, SlotTypes, SlotsHoldIssued
    <3> QED BY <2>9, <2>10, <3>1, <3>2, <3>3 DEF ConsumeGranted, SlotTypes, TypeOK, Minutes
  <2>11. ASSUME NEW w \in Slots, ConsumeReplyLost(w) PROVE TypeOK' /\ SlotsHoldIssued'
    <3>1. pc[w] = "consuming" /\ ConsumeToken(w) /\ token[w] \in Nonces
      BY <2>11 DEF ConsumeReplyLost, SlotsHoldIssued
    <3>2. wins' \in [Nonces -> Nat]
      BY <2>11, <3>1 DEF ConsumeReplyLost, TypeOK
    <3>3. SlotTypes' /\ SlotsHoldIssued'
      BY <2>11, AnswerSlots DEF ConsumeReplyLost
    <3> QED BY <2>9, <2>11, <3>1, <3>2, <3>3 DEF ConsumeReplyLost, SlotTypes, TypeOK, Minutes
  <2>12. ASSUME NEW w \in Slots, ConsumeReplayed(w) PROVE TypeOK' /\ SlotsHoldIssued'
    BY <2>9, <2>12, AnswerSlots DEF ConsumeReplayed, SlotTypes, TypeOK, Minutes
  <2>13. ASSUME NEW w \in Slots, Respond(w) PROVE TypeOK' /\ SlotsHoldIssued'
    <3>1. token[w] \in Nonces
      BY <2>13 DEF Respond, SlotsHoldIssued
    <3>2. flags' \in [Nonces -> Nat]
      BY <2>13, <3>1 DEF Respond, TypeOK
    <3>3. SlotTypes' /\ SlotsHoldIssued'
      BY <2>13, AnswerSlots DEF Respond
    <3> QED BY <2>13, <3>2, <3>3 DEF Respond, SlotTypes, TypeOK, Minutes
  <2>14. ASSUME NEW w \in Slots, Fail(w) PROVE TypeOK' /\ SlotsHoldIssued'
    BY <2>14, AnswerSlots DEF Fail, SlotTypes, TypeOK, Minutes
  <2>15. CASE UNCHANGED vars
    BY <2>15 DEF vars, TypeOK, SlotsHoldIssued, Minutes
  <2> QED
    BY <2>1, <2>2, <2>3, <2>4, <2>5, <2>6, <2>7, <2>8, <2>10, <2>11, <2>12, <2>13,
       <2>14, <2>15 DEF Next, Step
<1> QED BY <1>1, <1>2, PTL DEF Spec

-----------------------------------------------------------------------------
\* Steps that neither issue, consume nor answer with a flag keep ReplayInv: time
\* only makes fewer challenges redeemable, and slots only stop waiting to reply.
LEMMA QuietStep ==
    ASSUME IInv, TypeOK',
           UNCHANGED <<issued, used_challenges, wins, flags>>,
           clock <= clock',
           \A w \in Slots : pc'[w] = "replying" => pc[w] = "replying" /\ token'[w] = token[w]
    PROVE  ReplayInv'
<1> USE LifetimeAssumption, WorkerAssumption DEF IInv, ReplayInv
<1>1. \A c \in Nonces : Redeemable(c)' => Redeemable(c)
  BY DEF Redeemable, ExpiresAtSeconds, TypeOK
<1>2. RowsDescribeChallenges' /\ SingleUse'
  BY DEF RowsDescribeChallenges, SingleUse
<1>3. HistoryInOrder'
  BY DEF HistoryInOrder
<1>4. OneHolder'
  BY <1>1 DEF OneHolder
<1>5. RetainedWhileRedeemable' /\ GrantedOnceWhileRedeemable'
  BY <1>1 DEF RetainedWhileRedeemable, GrantedOnceWhileRedeemable, HasRow
<1> QED BY <1>2, <1>3, <1>4, <1>5

\* The first issue of a challenge finds no trace of it.
LEMMA IssueStep ==
    ASSUME IInv, NEW w \in Slots, IssueChallenge(w)
    PROVE  ReplayInv'
<1> USE LifetimeAssumption, WorkerAssumption DEF IInv, ReplayInv
<1>1. PICK c \in Nonces, now \in Readings :
          issued[c] = Unissued /\ issued' = [issued EXCEPT ![c] = now]
  BY DEF IssueChallenge
<1>2. now \in Nat
  BY <1>1, ReadingsType
<1>3. \A d \in Nonces : d # c => issued'[d] = issued[d]
  BY <1>1 DEF TypeOK
<1>4. \A d \in Nonces : d # c => (Redeemable(d)' <=> Redeemable(d))
  BY <1>3 DEF Redeemable, IssueChallenge
<1>5. wins[c] = 0 /\ flags[c] = 0
  BY <1>1 DEF HistoryInOrder
<1>6. \A v \in Slots : pc'[v] = "replying" => pc[v] = "replying" /\ token'[v] = token[v]
  BY DEF IssueChallenge, Answer, GoTo, TypeOK
<1>7. \A v \in Slots : pc[v] = "replying" => token[v] # c /\ token[v] \in Nonces
  BY <1>1 DEF SlotsHoldIssued
<1>8. RowsDescribeChallenges'
  <2>1. \A row \in used_challenges : row.id # c /\ row.id \in Nonces
    BY <1>1 DEF RowsDescribeChallenges, TypeOK
  <2> QED BY <1>3, <2>1 DEF RowsDescribeChallenges, IssueChallenge
<1>9. HistoryInOrder'
  BY <1>3, <1>5, <1>6, <1>7 DEF HistoryInOrder, IssueChallenge
<1>10. OneHolder'
  BY <1>4, <1>6, <1>7 DEF OneHolder, IssueChallenge
<1>11. RetainedWhileRedeemable' /\ GrantedOnceWhileRedeemable'
  BY <1>4, <1>5 DEF RetainedWhileRedeemable, GrantedOnceWhileRedeemable, HasRow, IssueChallenge
<1>12. SingleUse'
  BY DEF SingleUse, IssueChallenge
<1> QED BY <1>8, <1>9, <1>10, <1>11, <1>12

\* The purge in a call of consume removes no row of a redeemable challenge: the
\* stamp it purges by is at most 2 * Skew ahead of any clock that could accept it.
LEMMA PurgeSparesRedeemable ==
    ASSUME IInv, NEW w \in Slots, pc[w] = "consuming",
           NEW row \in used_challenges, Redeemable(row.id)
    PROVE  row \in Retained(used_challenges, stamp[w])
<1> USE LifetimeAssumption, TablesAssumption, WorkerAssumption DEF IInv, ReplayInv
<1>1. /\ row.id \in Nonces
      /\ row.expires_at \in Int
      /\ row.expires_at = ExpiresAtSeconds(issued[row.id])
  BY DEF RowsDescribeChallenges, TypeOK
<1>2. stamp[w] \in Nat /\ clock \in Nat /\ stamp[w] <= clock + Skew
  BY DEF SlotsHoldIssued, TypeOK
<1>3. clock - Skew < row.expires_at
  BY <1>1 DEF Redeemable
<1>4. row.expires_at >= stamp[w] - PurgeMargin
  BY <1>1, <1>2, <1>3
<1> QED BY <1>4 DEF Retained

\* After a call of consume for a challenge it has a row, and so have all other
\* redeemable challenges that had one.
LEMMA ConsumeKeepsRows ==
    ASSUME IInv, NEW w \in Slots, pc[w] = "consuming", ConsumeToken(w),
           issued' = issued, clock' = clock
    PROVE  /\ RowsDescribeChallenges'
           /\ \A c \in Nonces : c = token[w] => HasRow(c)'
           /\ \A c \in Nonces : Redeemable(c) /\ HasRow(c) => HasRow(c)'
           /\ \A c \in Nonces : Redeemable(c)' <=> Redeemable(c)
           /\ Redeemable(token[w]) /\ HasRow(token[w]) =>
                 ~Unused(used_challenges, token[w], stamp[w])
<1> USE LifetimeAssumption, TablesAssumption, WorkerAssumption DEF IInv, ReplayInv
<1> DEFINE fresh == [id |-> token[w], expires_at |-> ExpiresAtSeconds(issued[token[w]])]
<1>1. token[w] \in Nonces /\ issued[token[w]] # Unissued
  BY DEF SlotsHoldIssued
<1>2. RowsDescribeChallenges'
  BY <1>1, ConsumeRows DEF ConsumeToken, RowsDescribeChallenges
<1>3. Retained(used_challenges, stamp[w]) \subseteq used_challenges'
  BY DEF ConsumeToken, Consume
<1>4. \A c \in Nonces : c = token[w] => HasRow(c)'
  <2>1. CASE Unused(used_challenges, token[w], stamp[w])
    <3>1. fresh \in used_challenges' /\ fresh.id = token[w]
      BY <2>1 DEF ConsumeToken, Consume
    <3> HIDE DEF fresh
    <3>2. \E row \in used_challenges' : row.id = token[w]
      BY <3>1
    <3> QED BY <3>2 DEF HasRow
  <2>2. CASE ~Unused(used_challenges, token[w], stamp[w])
    BY <1>3, <2>2 DEF Unused, HasRow
  <2> QED BY <2>1, <2>2
<1>5. \A c \in Nonces : Redeemable(c) /\ HasRow(c) => HasRow(c)'
  BY <1>3, PurgeSparesRedeemable DEF HasRow
<1>6. \A c \in Nonces : Redeemable(c)' <=> Redeemable(c)
  BY DEF Redeemable
<1>7. Redeemable(token[w]) /\ HasRow(token[w]) => ~Unused(used_challenges, token[w], stamp[w])
  BY PurgeSparesRedeemable DEF HasRow, Unused
<1> QED BY <1>2, <1>4, <1>5, <1>6, <1>7

\* consume answers true for a redeemable challenge only if it never did before.
LEMMA GrantStep ==
    ASSUME IInv, TypeOK', NEW w \in Slots, pc[w] = "consuming", ConsumeToken(w),
           Unused(used_challenges, token[w], stamp[w]),
           wins' = [wins EXCEPT ![token[w]] = @ + 1],
           UNCHANGED <<clock, issued, flags>>,
           \A v \in Slots : v # w => pc'[v] = pc[v] /\ token'[v] = token[v],
           pc'[w] = "replying" => token'[w] = token[w]
    PROVE  ReplayInv'
<1> USE WorkerAssumption DEF IInv, ReplayInv
<1>1. token[w] \in Nonces /\ issued[token[w]] # Unissued
  BY DEF SlotsHoldIssued
<1>2. /\ wins[token[w]] \in Nat /\ wins'[token[w]] = wins[token[w]] + 1
      /\ \A c \in Nonces : c # token[w] => wins'[c] = wins[c]
  BY <1>1 DEF TypeOK
<1>3. Redeemable(token[w]) => wins[token[w]] = 0
  BY <1>1, <1>2, ConsumeKeepsRows DEF RetainedWhileRedeemable
<1>4. HistoryInOrder'
  <2>1. \A c \in Nonces : wins'[c] = 0 => wins[c] = 0
    BY <1>2
  <2>2. \A c \in Nonces : issued'[c] = Unissued => wins'[c] = 0
    BY <1>1, <1>2 DEF HistoryInOrder
  <2>3. \A v \in Slots : pc'[v] = "replying" => wins'[token'[v]] > 0
    <3>1. \A c \in Nonces : wins[c] > 0 => wins'[c] > 0
      BY <1>1, <1>2 DEF TypeOK
    <3>2. \A v \in Slots : pc[v] = "replying" => token[v] \in Nonces
      BY DEF SlotsHoldIssued
    <3> QED BY <1>1, <1>2, <3>1, <3>2 DEF HistoryInOrder
  <2> QED BY <2>1, <2>2, <2>3 DEF HistoryInOrder
<1>5. OneHolder'
  <2> SUFFICES ASSUME NEW c \in Nonces, Redeemable(c),
                      NEW v \in Slots, pc'[v] = "replying", token'[v] = c
               PROVE  /\ flags[c] = 0
                      /\ \A u \in Slots : pc'[u] = "replying" /\ token'[u] = c => u = v
    BY ConsumeKeepsRows DEF OneHolder
  <2>1. CASE c = token[w]
    <3>1. wins[c] = 0 /\ flags[c] = 0
      BY <1>3, <2>1 DEF HistoryInOrder
    <3>2. \A u \in Slots : ~(pc[u] = "replying" /\ token[u] = c)
      BY <3>1 DEF HistoryInOrder
    <3> QED BY <3>1, <3>2
  <2>2. CASE c # token[w]
    BY <2>2 DEF OneHolder
  <2> QED BY <2>1, <2>2
<1>6. RetainedWhileRedeemable'
  BY <1>2, ConsumeKeepsRows DEF RetainedWhileRedeemable
<1>7. GrantedOnceWhileRedeemable'
  BY <1>2, <1>3, ConsumeKeepsRows DEF GrantedOnceWhileRedeemable
<1>8. SingleUse'
  BY DEF SingleUse
<1> QED BY <1>4, <1>5, <1>6, <1>7, <1>8, ConsumeKeepsRows

\* The third verify lets a request through only while its challenge is redeemable,
\* and then it is the one holder of it.
LEMMA RespondStep ==
    ASSUME IInv, TypeOK', NEW w \in Slots, Respond(w)
    PROVE  ReplayInv'
<1> USE LifetimeAssumption, WorkerAssumption DEF IInv, ReplayInv
<1>1. PICK now \in Readings :
         flags' = IF Verified(token[w], now)
                  THEN [flags EXCEPT ![token[w]] = @ + 1]
                  ELSE flags
  BY DEF Respond
<1>2. \A v \in Slots : pc'[v] = "replying" =>
         v # w /\ pc[v] = "replying" /\ token'[v] = token[v]
  BY DEF Respond, Answer, GoTo, TypeOK
<1>3. CASE ~Verified(token[w], now)
  <2>1. UNCHANGED <<issued, used_challenges, wins, flags, clock>>
    BY <1>1, <1>3 DEF Respond
  <2>2. clock <= clock'
    BY <2>1 DEF TypeOK
  <2> QED BY <1>2, <2>1, <2>2, QuietStep
<1>4. CASE Verified(token[w], now)
  <2> DEFINE c == token[w]
  <2>1. c \in Nonces /\ issued[c] # Unissued /\ issued[c] \in Nat
    BY DEF Respond, SlotsHoldIssued, TypeOK
  <2>2. Redeemable(c)
    <3>1. clock \in Nat /\ now \in Nat /\ clock - Skew <= now
      BY ReadingsType DEF TypeOK
    <3> QED BY <1>4, <2>1, <3>1 DEF Redeemable, Verified, InTime, ExpiresAtSeconds
  <2>3. flags[c] = 0 /\ wins[c] > 0
    BY <2>1, <2>2 DEF OneHolder, HistoryInOrder, Respond
  <2>4. \A v \in Slots : pc'[v] = "replying" => token[v] # c
    BY <1>2, <2>1, <2>2 DEF OneHolder, Respond
  <2>5. flags'[c] = 1 /\ \A d \in Nonces : d # c => flags'[d] = flags[d]
    BY <1>1, <1>4, <2>1, <2>3 DEF TypeOK
  <2> HIDE DEF c
  <2>6. UNCHANGED <<clock, issued, used_challenges, wins>>
    BY DEF Respond
  <2>7. RowsDescribeChallenges' /\ RetainedWhileRedeemable' /\ GrantedOnceWhileRedeemable'
    BY <2>6 DEF RowsDescribeChallenges, RetainedWhileRedeemable,
                GrantedOnceWhileRedeemable, Redeemable, HasRow
  <2>8. SingleUse'
    BY <2>5 DEF SingleUse
  <2>9. HistoryInOrder'
    BY <1>2, <2>3, <2>5, <2>6 DEF HistoryInOrder
  <2>10. OneHolder'
    <3>1. \A d \in Nonces : Redeemable(d)' <=> Redeemable(d)
      BY <2>6 DEF Redeemable
    <3> QED BY <1>2, <2>4, <2>5, <3>1 DEF OneHolder
  <2> QED BY <2>7, <2>8, <2>9, <2>10
<1> QED BY <1>3, <1>4

\* Every step keeps ReplayInv.
LEMMA ReplayStep == IInv /\ TypeOK' /\ [Next]_vars => ReplayInv'
<1> USE LifetimeAssumption, TablesAssumption, WorkerAssumption
<1> SUFFICES ASSUME IInv, TypeOK', [Next]_vars PROVE ReplayInv'
  OBVIOUS
<1>1. clock \in Nat
  BY DEF IInv, TypeOK
<1>2. CASE Tick
  BY <1>1, <1>2, QuietStep DEF Tick
<1>3. ASSUME NEW w \in Slots,
             \/ Arrive(w) \/ TurnedAway(w) \/ FetchRevocations(w) \/ SendConsume(w)
      PROVE  ReplayInv'
  BY <1>1, <1>3, QuietStep
     DEF Arrive, TurnedAway, FetchRevocations, SendConsume, GoTo, IInv, TypeOK
<1>4. ASSUME NEW w \in Slots, Submit(w) \/ VerifyAttestation(w) \/ Fail(w)
      PROVE  ReplayInv'
  <2>1. \A v \in Slots : pc'[v] = "replying" => pc[v] = "replying" /\ token'[v] = token[v]
    <3>1. \A v \in Slots \ {w} : pc'[v] = pc[v] /\ token'[v] = token[v]
      BY <1>4 DEF Submit, VerifyAttestation, Fail, Answer, GoTo, IInv, TypeOK
    <3>2. pc'[w] # "replying"
      BY <1>4 DEF Submit, VerifyAttestation, Fail, Answer, GoTo, IInv, TypeOK
    <3> QED BY <3>1, <3>2
  <2>2. UNCHANGED <<clock, issued, used_challenges, wins, flags>>
    BY <1>4 DEF Submit, VerifyAttestation, Fail
  <2> QED BY <1>1, <2>1, <2>2, QuietStep
<1>5. ASSUME NEW w \in Slots, IssueChallenge(w) PROVE ReplayInv'
  BY <1>5, IssueStep
<1>6. ASSUME NEW w \in Slots, ConsumeGranted(w) PROVE ReplayInv'
  BY <1>6, GrantStep DEF ConsumeGranted, GoTo, IInv, TypeOK
<1>7. ASSUME NEW w \in Slots, ConsumeReplyLost(w) PROVE ReplayInv'
  BY <1>7, GrantStep DEF ConsumeReplyLost, Answer, GoTo, IInv, TypeOK
<1>8. ASSUME NEW w \in Slots, ConsumeReplayed(w) PROVE ReplayInv'
  <2>1. UNCHANGED <<clock, issued, wins, flags>> /\ pc[w] = "consuming" /\ ConsumeToken(w)
    BY <1>8 DEF ConsumeReplayed
  <2>2. \A v \in Slots : pc'[v] = "replying" => pc[v] = "replying" /\ token'[v] = token[v]
    BY <1>8 DEF ConsumeReplayed, Answer, GoTo, IInv, TypeOK
  <2>3. RowsDescribeChallenges' /\ RetainedWhileRedeemable'
    BY <2>1, ConsumeKeepsRows DEF RetainedWhileRedeemable, IInv, ReplayInv
  <2>4. \A c \in Nonces : Redeemable(c)' <=> Redeemable(c)
    BY <2>1 DEF Redeemable
  <2>5. HistoryInOrder' /\ SingleUse'
    BY <2>1, <2>2 DEF HistoryInOrder, SingleUse, IInv, ReplayInv
  <2>6. OneHolder' /\ GrantedOnceWhileRedeemable'
    BY <2>1, <2>2, <2>4 DEF OneHolder, GrantedOnceWhileRedeemable, IInv, ReplayInv
  <2> QED BY <2>3, <2>5, <2>6 DEF ReplayInv
<1>9. ASSUME NEW w \in Slots, Respond(w) PROVE ReplayInv'
  BY <1>9, RespondStep
<1>10. CASE UNCHANGED vars
  BY <1>1, <1>10, QuietStep DEF vars
<1> QED BY <1>2, <1>3, <1>4, <1>5, <1>6, <1>7, <1>8, <1>9, <1>10 DEF Next, Step

\* IInv is inductive: it holds initially and every step keeps it.
LEMMA Inductive == Spec => []IInv
<1>1. Init => ReplayInv
  BY WorkerAssumption
     DEF Init, ReplayInv, RowsDescribeChallenges, HistoryInOrder, OneHolder, SingleUse,
         RetainedWhileRedeemable, GrantedOnceWhileRedeemable
<1> QED BY <1>1, ReplayStep, TypeCorrect, PTL DEF Spec, IInv

\* A challenge buys at most one flag (worker.ts handle).
THEOREM FlagsOnce == Spec => []SingleUse
<1>1. IInv => SingleUse
  BY DEF IInv, ReplayInv
<1> QED BY <1>1, Inductive, PTL

\* The row of a consumed challenge stays while any worker may accept it, whatever
\* stamps the purges ran with (state.ts consume).
THEOREM RowsRetained == Spec => []RetainedWhileRedeemable
<1>1. IInv => RetainedWhileRedeemable
  BY DEF IInv, ReplayInv
<1> QED BY <1>1, Inductive, PTL

\* consume answers true at most once for a challenge that can still be accepted
\* (state.ts consume).
THEOREM ConsumedOnce == Spec => []GrantedOnceWhileRedeemable
<1>1. IInv => GrantedOnceWhileRedeemable
  BY DEF IInv, ReplayInv
<1> QED BY <1>1, Inductive, PTL

\* A worker's clock readings are the readings of the abstract service.
LEMMA SameReadings == Service!Readings = Readings
BY DEF Service!Readings, Readings

\* Every behaviour of the backend is a behaviour of the abstract flag service: an
\* answer with a flag is the first for its challenge and in time (worker.ts handle).
THEOREM ImplementsService == Spec => ServiceSpec
<1> USE WorkerAssumption
<1>1. Init => Service!Init
  BY DEF Init, Service!Init, Service!Unissued
<1>2. IInv /\ [Next]_vars => [Service!Next]_Service!abstractVars
  <2> SUFFICES ASSUME IInv, [Next]_vars
               PROVE  [Service!Next]_Service!abstractVars
    OBVIOUS
  <2>1. CASE Tick
    BY <2>1 DEF Tick, Service!Tick, Service!Next
  <2>2. ASSUME NEW w \in Slots,
               \/ Arrive(w) \/ TurnedAway(w) \/ Submit(w) \/ FetchRevocations(w)
               \/ VerifyAttestation(w) \/ SendConsume(w) \/ Fail(w)
               \/ ConsumeGranted(w) \/ ConsumeReplyLost(w) \/ ConsumeReplayed(w)
        PROVE  UNCHANGED Service!abstractVars
    BY <2>2 DEF Arrive, TurnedAway, Submit, FetchRevocations, VerifyAttestation, SendConsume,
                Fail, ConsumeGranted, ConsumeReplyLost, ConsumeReplayed, Service!abstractVars
  <2>3. ASSUME NEW w \in Slots, IssueChallenge(w)
        PROVE  Service!Next
    <3>1. PICK c \in Nonces, now \in Readings :
             issued[c] = Unissued /\ issued' = [issued EXCEPT ![c] = now]
      BY <2>3 DEF IssueChallenge
    <3>2. Service!Issue(c)
      BY <2>3, <3>1, SameReadings DEF IssueChallenge, Service!Issue, Service!Unissued
    <3> QED BY <3>2 DEF Service!Next
  <2>4. ASSUME NEW w \in Slots, Respond(w)
        PROVE  [Service!Next]_Service!abstractVars
    <3>1. PICK now \in Readings :
             flags' = IF Verified(token[w], now)
                      THEN [flags EXCEPT ![token[w]] = @ + 1]
                      ELSE flags
      BY <2>4 DEF Respond
    <3>2. CASE ~Verified(token[w], now)
      BY <2>4, <3>1, <3>2 DEF Respond, Service!abstractVars
    <3>3. CASE Verified(token[w], now)
      <4>1. token[w] \in Nonces /\ issued[token[w]] # Unissued /\ InTime(issued[token[w]], now)
        BY <2>4, <3>3 DEF Respond, SlotsHoldIssued, Verified, IInv
      <4>2. Redeemable(token[w])
        <5>1. clock \in Nat /\ now \in Nat /\ clock - Skew <= now
          BY ReadingsType DEF TypeOK, IInv
        <5>2. issued[token[w]] \in Nat
          BY <4>1 DEF TypeOK, IInv
        <5> QED
          BY <4>1, <5>1, <5>2, LifetimeAssumption DEF Redeemable, InTime, ExpiresAtSeconds
      <4>3. flags[token[w]] = 0
        BY <2>4, <4>1, <4>2 DEF OneHolder, Respond, IInv, ReplayInv
      <4>4. flags' = [flags EXCEPT ![token[w]] = 1]
        BY <3>1, <3>3, <4>3 DEF IInv, TypeOK
      <4>5. Service!Redeem(token[w])
        BY <2>4, <4>1, <4>3, <4>4, SameReadings
           DEF Respond, Service!Redeem, Service!Unissued, Service!InTime, InTime
      <4> QED BY <4>1, <4>5 DEF Service!Next
    <3> QED BY <3>2, <3>3
  <2>5. CASE UNCHANGED vars
    BY <2>5 DEF vars, Service!abstractVars
  <2> QED BY <2>1, <2>2, <2>3, <2>4, <2>5 DEF Next, Step
<1> QED BY <1>1, <1>2, Inductive, PTL DEF Spec, ServiceSpec, Service!Spec

=============================================================================
