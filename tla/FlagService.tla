---------------------------- MODULE FlagService ----------------------------
(***************************************************************************)
(* What the backend promises: a challenge buys at most one flag, and buys   *)
(* it within Lifetime seconds of being issued, measured on clocks that are  *)
(* at most Skew seconds off.  Nothing here mentions handlers, the replay    *)
(* table or purging; Worker is shown to implement this.                     *)
(***************************************************************************)
EXTENDS Challenges

CONSTANTS
    Nonces,     \* the challenges a run can issue
    Skew,       \* how far a worker's clock may be from real time, in seconds
    StartTime,  \* real time at the start of a behaviour
    MaxTime     \* bound: real time never passes this second

VARIABLES
    clock,      \* real time in seconds
    issued,     \* issued[c]: the second stamped into c, or Unissued
    flags       \* flags[c]: how many responses carried the flag for c

abstractVars == <<clock, issued, flags>>

\* What a worker's Math.floor(Date.now() / 1000) may return now.
Readings == {n \in 0 .. (MaxTime + Skew) : clock - Skew <= n /\ n <= clock + Skew}

Init ==
    /\ clock = StartTime
    /\ issued = [c \in Nonces |-> Unissued]
    /\ flags = [c \in Nonces |-> 0]

Tick ==
    /\ clock < MaxTime
    /\ clock' = clock + 1
    /\ UNCHANGED <<issued, flags>>

Issue(c) ==
    /\ issued[c] = Unissued
    /\ \E n \in Readings : issued' = [issued EXCEPT ![c] = n]
    /\ UNCHANGED <<clock, flags>>

Redeem(c) ==
    /\ issued[c] # Unissued
    /\ flags[c] = 0
    /\ \E n \in Readings : InTime(issued[c], n)
    /\ flags' = [flags EXCEPT ![c] = 1]
    /\ UNCHANGED <<clock, issued>>

Next ==
    \/ Tick
    \/ \E c \in Nonces : Issue(c) \/ Redeem(c)

Spec == Init /\ [][Next]_abstractVars

=============================================================================
