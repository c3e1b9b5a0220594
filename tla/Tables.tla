------------------------------- MODULE Tables -------------------------------
(***************************************************************************)
(* state.ts: the two tables of the State Durable Object that are updated by *)
(* synchronous methods.  Each method runs in one turn of a single-threaded  *)
(* object, so it is one function from the old table to the new one:         *)
(*                                                                          *)
(*   used_challenges  a set of rows [id, expires_at];                       *)
(*   request_budget   a function from minutes to counts, where 0 stands for *)
(*                    an absent row (a row is created with count 1).        *)
(*                                                                          *)
(* Every method is told the time by its caller, the worker's now().         *)
(***************************************************************************)
EXTENDS Integers

CONSTANTS
    PurgeMargin,    \* seconds a used challenge outlives its expiry: 60 in the code
    RateLimit       \* RATE_LIMIT_PER_MINUTE: 60 in the code

ASSUME TablesAssumption ==
    /\ PurgeMargin \in Nat
    /\ RateLimit \in Nat \ {0}

\* State.consume: rows past their margin go first, then create-if-absent.
\* (Mutants: the margin forgotten, and an expiry test that is one second early.)
Retained_NoMargin(table, now) == {row \in table : row.expires_at >= now}
Retained_OneEarly(table, now) == {row \in table : row.expires_at > now - PurgeMargin}

Retained(table, now) == {row \in table : row.expires_at >= now - PurgeMargin}

Unused(table, id, now) == \A row \in Retained(table, now) : row.id # id

Consume(table, id, expiresAt, now) ==
    IF Unused(table, id, now)
    THEN Retained(table, now) \cup {[id |-> id, expires_at |-> expiresAt]}
    ELSE Retained(table, now)

\* State.allowRequest: rows older than two minutes go first, then the count of
\* the caller's minute is compared with the limit and incremented.
MinuteOf(now) == now \div 60

\* (Mutants: only the current minute is kept; the last two are; nothing is purged.)
RecentMinutes_Current(table, now) ==
    [m \in DOMAIN table |-> IF m < MinuteOf(now) THEN 0 ELSE table[m]]
RecentMinutes_LastTwo(table, now) ==
    [m \in DOMAIN table |-> IF m < MinuteOf(now) - 1 THEN 0 ELSE table[m]]
RecentMinutes_All(table, now) == table

RecentMinutes(table, now) ==
    [m \in DOMAIN table |-> IF m < MinuteOf(now) - 2 THEN 0 ELSE table[m]]

Allowed(table, now) == table[MinuteOf(now)] < RateLimit

\* (Mutant: refused requests are counted too.)
AllowRequest_CountsAll(table, now) ==
    [RecentMinutes(table, now) EXCEPT ![MinuteOf(now)] = @ + 1]

AllowRequest(table, now) ==
    IF Allowed(table, now)
    THEN [RecentMinutes(table, now) EXCEPT ![MinuteOf(now)] = @ + 1]
    ELSE RecentMinutes(table, now)

=============================================================================
