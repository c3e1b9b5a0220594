--------------------------- MODULE RequestBudget ---------------------------
(***************************************************************************)
(* The global request budget under real clocks.  State.allowRequest is told *)
(* the time by the worker that calls it, so the minute a request is charged *)
(* to is the one on the caller's clock when the call was sent; by the time  *)
(* the State object runs the call, other workers, whose clocks disagree,    *)
(* may have moved the table on and purged the minute.                       *)
(***************************************************************************)
EXTENDS Tables

CONSTANTS
    Callers,    \* calls of allowRequest that can be under way at the same time
    Skew,       \* how far a worker's clock may be from real time, in seconds
    Offsets,    \* the offsets from real time that the workers' clocks have
    MaxDelay,   \* bound: seconds from sending a call to its execution
    TickSize,   \* seconds real time advances by in one step
    StartTime,  \* real time at the start of a behaviour
    MaxTime     \* bound: real time never passes this second

\* A row is dropped by a stamp at least 121 seconds after the end of its minute;
\* delays and skew below that cannot bring a call for the minute in again.
ASSUME RequestBudgetAssumption ==
    /\ Skew \in Nat
    /\ Offsets \subseteq -Skew .. Skew
    /\ MaxDelay \in Nat
    /\ TickSize \in Nat \ {0}
    /\ StartTime \in Nat
    /\ MaxTime \in Nat
    /\ Skew <= StartTime
    /\ StartTime <= MaxTime
    /\ 2 * Skew + MaxDelay <= 120

VARIABLES
    clock,          \* real time in seconds
    request_budget, \* requests granted per minute, persistent
    pc,             \* pc[w]: "idle", or "sent" while a call is under way
    stamp,          \* stamp[w]: the time the call in w carries
    sentAt,         \* sentAt[w]: real time at which it was sent
    granted         \* history: calls answered true, by the minute they carried

vars == <<clock, request_budget, pc, stamp, sentAt, granted>>

Minutes == 0 .. MinuteOf(MaxTime + Skew)

TypeOK ==
    /\ clock \in StartTime .. MaxTime
    /\ request_budget \in [Minutes -> 0 .. RateLimit]
    /\ pc \in [Callers -> {"idle", "sent"}]
    /\ stamp \in [Callers -> 0 .. (MaxTime + Skew)]
    /\ sentAt \in [Callers -> Nat]
    /\ granted \in [Minutes -> Nat]

Init ==
    /\ clock = StartTime
    /\ request_budget = [m \in Minutes |-> 0]
    /\ pc = [w \in Callers |-> "idle"]
    /\ stamp = [w \in Callers |-> 0]
    /\ sentAt = [w \in Callers |-> 0]
    /\ granted = [m \in Minutes |-> 0]

\* Time passes, but not beyond the moment by which a call under way has executed.
Tick ==
    /\ clock + TickSize <= MaxTime
    /\ \A w \in Callers : pc[w] = "sent" => clock + TickSize <= sentAt[w] + MaxDelay
    /\ clock' = clock + TickSize
    /\ UNCHANGED <<request_budget, pc, stamp, sentAt, granted>>

\* A worker calls allowRequest(now()).
Send(w) ==
    /\ pc[w] = "idle"
    /\ \E offset \in Offsets : stamp' = [stamp EXCEPT ![w] = clock + offset]
    /\ pc' = [pc EXCEPT ![w] = "sent"]
    /\ sentAt' = [sentAt EXCEPT ![w] = clock]
    /\ UNCHANGED <<clock, request_budget, granted>>

\* The call returns to idle; what it carried is forgotten.
Return(w) ==
    /\ pc' = [pc EXCEPT ![w] = "idle"]
    /\ stamp' = [stamp EXCEPT ![w] = 0]
    /\ sentAt' = [sentAt EXCEPT ![w] = 0]

\* The State object runs allowRequest, which returns true.
Grant(w) ==
    /\ pc[w] = "sent"
    /\ Allowed(request_budget, stamp[w])
    /\ request_budget' = AllowRequest(request_budget, stamp[w])
    /\ granted' = [granted EXCEPT ![MinuteOf(stamp[w])] = @ + 1]
    /\ Return(w)
    /\ UNCHANGED clock

\* The State object runs allowRequest, which returns false: 429.
Refuse(w) ==
    /\ pc[w] = "sent"
    /\ ~Allowed(request_budget, stamp[w])
    /\ request_budget' = AllowRequest(request_budget, stamp[w])
    /\ Return(w)
    /\ UNCHANGED <<clock, granted>>

\* The call throws without having run: 503.
Lose(w) ==
    /\ pc[w] = "sent"
    /\ Return(w)
    /\ UNCHANGED <<clock, request_budget, granted>>

Next == Tick \/ \E w \in Callers : Send(w) \/ Grant(w) \/ Refuse(w) \/ Lose(w)

Spec == Init /\ [][Next]_vars

-----------------------------------------------------------------------------
\* A call that carries minute m may still execute.
Open(m) == clock - Skew - MaxDelay <= 60 * m + 59

\* "At most RATE_LIMIT_PER_MINUTE requests per wall-clock minute" (state.ts:42), the
\* minute being the one on the requester's clock: calls that arrive late for a minute
\* never find its count forgotten.
BudgetKept == \A m \in Minutes : granted[m] <= RateLimit

\* The table counts exactly the granted requests of every minute that can still be
\* charged, so nobody is let in or turned away on a wrong count (state.ts:45-48).
CountsExact == \A m \in Minutes : Open(m) => request_budget[m] = granted[m]

\* The purge keeps the table at three rows, of consecutive minutes, in whatever order
\* the calls arrive (state.ts:45).
FewRows ==
    \A m, n \in Minutes : request_budget[m] > 0 /\ request_budget[n] > 0 => m - n <= 2

\* What they rest on: a call under way was sent recently, on a clock within Skew, and
\* no minute is charged before some clock has reached it.
SentRecently ==
    \A w \in Callers : pc[w] = "sent" =>
        /\ sentAt[w] <= clock
        /\ clock <= sentAt[w] + MaxDelay
        /\ sentAt[w] - Skew <= stamp[w]
        /\ stamp[w] <= sentAt[w] + Skew

NoFutureRow == \A m \in Minutes : request_budget[m] > 0 => 60 * m <= clock + Skew

IInv == TypeOK /\ SentRecently /\ NoFutureRow /\ BudgetKept /\ CountsExact /\ FewRows

=============================================================================
