------------------------- MODULE RevocationService -------------------------
(***************************************************************************)
(* What State.revocations promises a request: an answer holds every serial  *)
(* that Google listed more than Window seconds ago, and nothing that Google *)
(* has not listed.  Nothing here mentions the feed, the stored row, the     *)
(* alarm or a restart; RevocationSnapshot is shown to implement this, and   *)
(* Backend relies on nothing else.                                          *)
(***************************************************************************)
EXTENDS Integers

CONSTANTS
    Serials,    \* certificate serial numbers
    Calls,      \* calls that can be under way together
    NoAnswer,   \* there is no answer, or none with a list in it
    Window,     \* how old an answer may be when it is given, in seconds
    StartTime,  \* real time at the start of a behaviour
    MaxTime     \* bound: real time never passes this second

VARIABLES
    clock,      \* real time in seconds
    listedAt,   \* listedAt[s]: when Google listed serial s, or Never
    answer      \* answer[p]: the list that call p returned, or NoAnswer

serviceVars == <<clock, listedAt, answer>>

\* No time at all: a serial that is not listed.
Never == -1

\* The serials that an answer of age Window cannot lack.
Overdue == {s \in Serials : listedAt[s] # Never /\ listedAt[s] + Window < clock}

Listed == {s \in Serials : listedAt[s] # Never}

\* The lists that may be returned now.
MayReturn(list) == Overdue \subseteq list /\ list \subseteq Listed

Init ==
    /\ clock = StartTime
    /\ listedAt = [s \in Serials |-> Never]
    /\ answer = [p \in Calls |-> NoAnswer]

Tick ==
    /\ clock < MaxTime
    /\ clock' = clock + 1
    /\ UNCHANGED <<listedAt, answer>>

List(s) ==
    /\ listedAt[s] = Never
    /\ listedAt' = [listedAt EXCEPT ![s] = clock]
    /\ UNCHANGED <<clock, answer>>

Return(p) ==
    /\ answer[p] = NoAnswer
    /\ \E list \in SUBSET Serials :
          MayReturn(list) /\ answer' = [answer EXCEPT ![p] = list]
    /\ UNCHANGED <<clock, listedAt>>

\* Calls are over, or were lost.
Drop(calls) ==
    /\ answer' = [p \in Calls |-> IF p \in calls THEN NoAnswer ELSE answer[p]]
    /\ UNCHANGED <<clock, listedAt>>

Next ==
    \/ Tick
    \/ \E s \in Serials : List(s)
    \/ \E p \in Calls : Return(p)
    \/ \E calls \in SUBSET Calls : Drop(calls)

Spec == Init /\ [][Next]_serviceVars

=============================================================================
