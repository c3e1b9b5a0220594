------------------------ MODULE RequestBudgetProofs ------------------------
(***************************************************************************)
(* Proofs about RequestBudget, for every number of callers, every limit and *)
(* all clocks and delays that the two-minute retention of the table covers. *)
(***************************************************************************)
EXTENDS RequestBudget, TLAPS

\* The minute of a second, by its bounds.
LEMMA MinuteBounds ==
    ASSUME NEW t \in Nat
    PROVE  /\ MinuteOf(t) \in Nat
           /\ 60 * MinuteOf(t) <= t
           /\ t <= 60 * MinuteOf(t) + 59
BY DEF MinuteOf

LEMMA MinutesInRange ==
    ASSUME NEW t \in 0 .. (MaxTime + Skew)
    PROVE  MinuteOf(t) \in Minutes
BY RequestBudgetAssumption DEF MinuteOf, Minutes

\* What a call that executes now carries.
LEMMA StampBounds ==
    ASSUME IInv, NEW w \in Callers, pc[w] = "sent"
    PROVE  /\ clock \in Nat
           /\ stamp[w] \in Nat
           /\ MinuteOf(stamp[w]) \in Minutes
           /\ MinuteOf(stamp[w]) \in Nat
           /\ stamp[w] <= clock + Skew
           /\ clock - Skew - MaxDelay <= stamp[w]
           /\ 60 * MinuteOf(stamp[w]) <= stamp[w]
           /\ stamp[w] <= 60 * MinuteOf(stamp[w]) + 59
<1> USE RequestBudgetAssumption
<1>1. stamp[w] \in 0 .. (MaxTime + Skew) /\ sentAt[w] \in Nat /\ clock \in Nat
  BY DEF IInv, TypeOK
<1>2. stamp[w] <= clock + Skew /\ clock - Skew - MaxDelay <= stamp[w]
  BY <1>1 DEF IInv, SentRecently
<1>3. stamp[w] \in Nat
  BY <1>1
<1>4. /\ MinuteOf(stamp[w]) \in Nat
      /\ 60 * MinuteOf(stamp[w]) <= stamp[w]
      /\ stamp[w] <= 60 * MinuteOf(stamp[w]) + 59
  BY <1>3, MinuteBounds
<1>5. MinuteOf(stamp[w]) \in Minutes
  BY <1>1, MinutesInRange
<1> QED BY <1>1, <1>2, <1>3, <1>4, <1>5

\* The purge of a call spares every minute that can still be charged, and leaves no
\* row more than two minutes before the call's own.
LEMMA PurgeSparesOpen ==
    ASSUME IInv, NEW w \in Callers, pc[w] = "sent", NEW m \in Minutes
    PROVE  LET kept == RecentMinutes(request_budget, stamp[w]) IN
           /\ kept \in [Minutes -> 0 .. RateLimit]
           /\ Open(m) => kept[m] = request_budget[m]
           /\ kept[m] > 0 => request_budget[m] > 0
           /\ kept[m] > 0 => MinuteOf(stamp[w]) - m <= 2
           /\ kept[m] > 0 => m - MinuteOf(stamp[w]) <= 2
<1> USE RequestBudgetAssumption, TablesAssumption, StampBounds
<1> DEFINE kept == RecentMinutes(request_budget, stamp[w])
<1>1. m \in Nat /\ request_budget[m] \in 0 .. RateLimit
  BY DEF IInv, TypeOK, Minutes
<1>2. kept \in [Minutes -> 0 .. RateLimit]
  BY DEF IInv, TypeOK, RecentMinutes
<1>3. kept[m] = IF m < MinuteOf(stamp[w]) - 2 THEN 0 ELSE request_budget[m]
  BY DEF IInv, TypeOK, RecentMinutes
<1>4. Open(m) => ~(m < MinuteOf(stamp[w]) - 2)
  <2>1. Open(m) => clock - Skew - MaxDelay <= 60 * m + 59
    BY DEF Open
  <2>2. m < MinuteOf(stamp[w]) - 2 => 60 * m + 180 <= 60 * MinuteOf(stamp[w])
    BY <1>1
  <2> QED BY <1>1, <2>1, <2>2
<1>5. kept[m] > 0 => request_budget[m] > 0 /\ MinuteOf(stamp[w]) - m <= 2
  BY <1>1, <1>3
<1>6. kept[m] > 0 => m - MinuteOf(stamp[w]) <= 2
  <2> SUFFICES ASSUME request_budget[m] > 0
               PROVE  m - MinuteOf(stamp[w]) <= 2
    BY <1>5
  <2>1. 60 * m <= clock + Skew
    BY DEF IInv, NoFutureRow
  <2> QED BY <1>1, <2>1
<1> QED BY <1>1, <1>2, <1>3, <1>4, <1>5, <1>6

\* A step that executes no call keeps the invariants of the table: time only closes
\* minutes.
LEMMA QuietStep ==
    ASSUME IInv, clock' \in Nat, clock <= clock', UNCHANGED <<request_budget, granted>>
    PROVE  NoFutureRow' /\ BudgetKept' /\ CountsExact' /\ FewRows'
<1> USE RequestBudgetAssumption DEF IInv
<1>1. clock \in Nat
  BY DEF TypeOK
<1>2. \A m \in Minutes : m \in Int
  BY DEF Minutes
<1>3. \A m \in Minutes : Open(m)' => Open(m)
  BY <1>1, <1>2 DEF Open
<1>4. NoFutureRow'
  BY <1>1, <1>2 DEF NoFutureRow
<1> QED BY <1>3, <1>4 DEF BudgetKept, CountsExact, FewRows

\* A call under way is forgotten; the others stay as they are.
LEMMA ReturnTypes ==
    ASSUME IInv, NEW w \in Callers, Return(w), clock' = clock
    PROVE  /\ pc' \in [Callers -> {"idle", "sent"}]
           /\ stamp' \in [Callers -> 0 .. (MaxTime + Skew)]
           /\ sentAt' \in [Callers -> Nat]
           /\ SentRecently'
<1> USE RequestBudgetAssumption DEF IInv, TypeOK
<1>1. /\ pc' \in [Callers -> {"idle", "sent"}]
      /\ stamp' \in [Callers -> 0 .. (MaxTime + Skew)]
      /\ sentAt' \in [Callers -> Nat]
  BY DEF Return
<1>2. SentRecently'
  BY DEF Return, SentRecently
<1> QED BY <1>1, <1>2

\* A granted request is counted in the minute it is charged to.
LEMMA GrantStep ==
    ASSUME IInv, NEW w \in Callers, Grant(w)
    PROVE  IInv'
<1> USE RequestBudgetAssumption, TablesAssumption
<1> DEFINE kept == RecentMinutes(request_budget, stamp[w])
           mine == MinuteOf(stamp[w])
<1>1. pc[w] = "sent" /\ Return(w) /\ clock' = clock
  BY DEF Grant
<1>2. /\ mine \in Minutes
      /\ clock \in Nat
      /\ Open(mine)
      /\ 60 * mine <= clock + Skew
  BY <1>1, StampBounds DEF Open
<1>3. kept \in [Minutes -> 0 .. RateLimit] /\ granted \in [Minutes -> Nat]
  BY <1>1, <1>2, PurgeSparesOpen DEF IInv, TypeOK
<1>4. request_budget[mine] < RateLimit /\ kept[mine] = request_budget[mine]
  BY <1>1, <1>2, PurgeSparesOpen DEF Grant, Allowed
<1>5. granted[mine] = request_budget[mine]
  BY <1>2 DEF IInv, CountsExact
<1>6. request_budget' = [kept EXCEPT ![mine] = @ + 1]
  BY DEF Grant, Allowed, AllowRequest
<1>7. granted' = [granted EXCEPT ![mine] = @ + 1]
  BY DEF Grant
<1>8. \A m \in Minutes : Open(m) => kept[m] = request_budget[m]
  BY <1>1, PurgeSparesOpen
<1>9. \A m \in Minutes : kept[m] > 0 =>
         request_budget[m] > 0 /\ mine - m <= 2 /\ m - mine <= 2
  BY <1>1, PurgeSparesOpen
<1>10. \A m \in Minutes : Open(m)' <=> Open(m)
  BY <1>1 DEF Open
<1> HIDE DEF kept, mine
<1>11. request_budget' \in [Minutes -> 0 .. RateLimit] /\ granted' \in [Minutes -> Nat]
  BY <1>2, <1>3, <1>4, <1>6, <1>7
<1>12. TypeOK' /\ SentRecently'
  BY <1>1, <1>11, ReturnTypes DEF IInv, TypeOK, Minutes
<1>13. NoFutureRow'
  BY <1>1, <1>2, <1>3, <1>6, <1>9 DEF IInv, NoFutureRow
<1>14. BudgetKept'
  BY <1>2, <1>3, <1>4, <1>5, <1>7 DEF IInv, BudgetKept
<1>15. CountsExact'
  BY <1>2, <1>3, <1>4, <1>5, <1>6, <1>7, <1>8, <1>10 DEF IInv, CountsExact
<1>16. FewRows'
  <2> SUFFICES ASSUME NEW m \in Minutes, NEW n \in Minutes,
                      request_budget'[m] > 0, request_budget'[n] > 0
               PROVE  m - n <= 2
    BY DEF FewRows, Minutes
  <2>1. \A k \in Minutes : k # mine => request_budget'[k] = kept[k]
    BY <1>3, <1>6
  <2>2. m \in Int /\ n \in Int /\ mine \in Int
    BY <1>2 DEF Minutes
  <2> QED BY <1>9, <2>1, <2>2 DEF IInv, FewRows
<1> QED BY <1>12, <1>13, <1>14, <1>15, <1>16 DEF IInv

\* A refused request only purges.
LEMMA RefuseStep ==
    ASSUME IInv, NEW w \in Callers, Refuse(w)
    PROVE  IInv'
<1> USE RequestBudgetAssumption, TablesAssumption
<1> DEFINE kept == RecentMinutes(request_budget, stamp[w])
<1>1. pc[w] = "sent" /\ Return(w) /\ UNCHANGED <<clock, granted>> /\ request_budget' = kept
  BY DEF Refuse, AllowRequest
<1>2. \A m \in Minutes : Open(m) => kept[m] = request_budget[m]
  BY <1>1, PurgeSparesOpen
<1>3. \A m \in Minutes : kept[m] > 0 => request_budget[m] > 0
  BY <1>1, PurgeSparesOpen
<1>4. kept \in [Minutes -> 0 .. RateLimit]
  BY <1>1, StampBounds, PurgeSparesOpen
<1> HIDE DEF kept
<1>5. TypeOK' /\ SentRecently'
  BY <1>1, <1>4, ReturnTypes DEF IInv, TypeOK, Minutes
<1>6. NoFutureRow' /\ BudgetKept' /\ CountsExact' /\ FewRows'
  BY <1>1, <1>2, <1>3 DEF IInv, NoFutureRow, BudgetKept, CountsExact, FewRows, Open
<1> QED BY <1>5, <1>6 DEF IInv

LEMMA Inductive == Spec => []IInv
<1> USE RequestBudgetAssumption, TablesAssumption
<1>1. Init => IInv
  BY DEF Init, IInv, TypeOK, SentRecently, NoFutureRow, BudgetKept, CountsExact, FewRows, Minutes
<1>2. IInv /\ [Next]_vars => IInv'
  <2> SUFFICES ASSUME IInv, [Next]_vars PROVE IInv'
    OBVIOUS
  <2>1. clock \in Nat
    BY DEF IInv, TypeOK
  <2>2. CASE Tick
    <3>1. TypeOK' /\ SentRecently'
      BY <2>1, <2>2 DEF Tick, IInv, TypeOK, SentRecently, Minutes
    <3> QED BY <2>1, <2>2, <3>1, QuietStep DEF Tick, IInv
  <2>3. ASSUME NEW w \in Callers, Send(w) PROVE IInv'
    <3>1. PICK offset \in Offsets : stamp' = [stamp EXCEPT ![w] = clock + offset]
      BY <2>3 DEF Send
    <3>2. offset \in Int /\ -Skew <= offset /\ offset <= Skew
      OBVIOUS
    <3>3. clock + offset \in 0 .. (MaxTime + Skew)
      BY <3>2 DEF IInv, TypeOK
    <3>4. TypeOK'
      BY <2>3, <3>1, <3>3 DEF Send, IInv, TypeOK, Minutes
    <3>5. SentRecently'
      BY <2>1, <2>3, <3>1, <3>2 DEF Send, IInv, TypeOK, SentRecently
    <3> QED BY <2>1, <2>3, <3>4, <3>5, QuietStep DEF Send, IInv
  <2>4. ASSUME NEW w \in Callers, Grant(w) PROVE IInv'
    BY <2>4, GrantStep
  <2>5. ASSUME NEW w \in Callers, Refuse(w) PROVE IInv'
    BY <2>5, RefuseStep
  <2>6. ASSUME NEW w \in Callers, Lose(w) PROVE IInv'
    <3>1. TypeOK' /\ SentRecently'
      BY <2>6, ReturnTypes DEF Lose, IInv, TypeOK, Minutes
    <3> QED BY <2>1, <2>6, <3>1, QuietStep DEF Lose, IInv
  <2>7. CASE UNCHANGED vars
    <3>1. TypeOK' /\ SentRecently'
      BY <2>7 DEF vars, IInv, TypeOK, SentRecently, Minutes
    <3> QED BY <2>1, <2>7, <3>1, QuietStep DEF vars, IInv
  <2> QED BY <2>2, <2>3, <2>4, <2>5, <2>6, <2>7 DEF Next
<1> QED BY <1>1, <1>2, PTL DEF Spec

\* Every variable has its type (state.ts allowRequest).
THEOREM BudgetTypes == Spec => []TypeOK
<1>1. IInv => TypeOK
  BY DEF IInv
<1> QED BY <1>1, Inductive, PTL

\* No more than RateLimit requests are granted per minute of the requesters' clocks
\* (state.ts allowRequest).
THEOREM BudgetSafe == Spec => []BudgetKept
<1>1. IInv => BudgetKept
  BY DEF IInv
<1> QED BY <1>1, Inductive, PTL

\* While a minute is open its row holds the number of requests granted in it: no purge
\* by another request's stamp forgets a part of them (state.ts allowRequest).
THEOREM BudgetCounts == Spec => []CountsExact
<1>1. IInv => CountsExact
  BY DEF IInv
<1> QED BY <1>1, Inductive, PTL

\* The table never outgrows the few minutes the purge leaves (state.ts allowRequest).
THEOREM BudgetBounded == Spec => []FewRows
<1>1. IInv => FewRows
  BY DEF IInv
<1> QED BY <1>1, Inductive, PTL

=============================================================================
