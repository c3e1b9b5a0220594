------------------------------ MODULE Backend -------------------------------
(***************************************************************************)
(* worker.ts with what Worker takes as input: the runtime that a request    *)
(* awaits before anything else is looked at (config.ts), and the revocation *)
(* list it fetches, which is any list that RevocationService may return.    *)
(*                                                                          *)
(* A slot keeps its list while it verifies and consumes; meanwhile Google   *)
(* may list a serial of the chain the slot carries.  One isolate is         *)
(* modelled: the runtime cache is the isolate's own, and an isolate that    *)
(* takes over from an evicted one starts as Init does.                      *)
(***************************************************************************)
EXTENDS Worker

CONSTANTS
    Serials,    \* certificate serial numbers
    NoAnswer,   \* a slot holds no revocation list
    Window,     \* how old a revocation list may be when it is returned
    MaxLoads,   \* bound: loads of the configuration in a behaviour
    NoLoad      \* no load of the configuration

ASSUME BackendAssumption ==
    /\ Window \in Nat
    /\ MaxLoads \in Nat
    /\ NoLoad \notin 1 .. MaxLoads
    /\ \A list \in SUBSET Serials : list # NoAnswer

VARIABLES
    listedAt,   \* listedAt[s]: when Google listed serial s, or Never
    lists,      \* lists[w]: the revocation list slot w fetched, or NoAnswer
    serials,    \* serials[w]: the serials of the chain slot w carries
    loads,      \* loads[l]: how far load l of the configuration is
    cached,     \* the load whose promise is cached, or NoLoad
    awaited     \* awaited[w]: the load slot w awaits or has awaited, or NoLoad

chainVars == <<lists, serials>>

runtimeVars == <<loads, cached, awaited>>

backendVars == <<vars, listedAt, chainVars, runtimeVars>>

Loads == 1 .. MaxLoads

Revocations == INSTANCE RevocationService
    WITH Calls <- Slots, answer <- lists

BackendTypeOK ==
    /\ TypeOK
    /\ listedAt \in [Serials -> {Revocations!Never} \cup StartTime .. MaxTime]
    /\ lists \in [Slots -> {NoAnswer} \cup SUBSET Serials]
    /\ serials \in [Slots -> SUBSET Serials]
    /\ loads \in [Loads -> {"unused", "running", "ready", "failed"}]
    /\ cached \in {NoLoad} \cup Loads
    /\ awaited \in [Slots -> {NoLoad} \cup Loads]

BackendInit ==
    /\ Init
    /\ listedAt = [s \in Serials |-> Revocations!Never]
    /\ lists = [w \in Slots |-> NoAnswer]
    /\ serials = [w \in Slots |-> {}]
    /\ loads = [l \in Loads |-> "unused"]
    /\ cached = NoLoad
    /\ awaited = [w \in Slots |-> NoLoad]

-----------------------------------------------------------------------------
\* The request in slot w is over, and what it held is gone.
Release(w) ==
    /\ lists' = [lists EXCEPT ![w] = NoAnswer]
    /\ serials' = [serials EXCEPT ![w] = {}]
    /\ awaited' = [awaited EXCEPT ![w] = NoLoad]
    /\ UNCHANGED <<listedAt, loads, cached>>

\* (Mutant: every request loads the configuration for itself.)
AwaitRuntime_Each(w) ==
    /\ pc[w] = "admitted"
    /\ awaited[w] = NoLoad
    /\ \E l \in Loads :
          /\ loads[l] = "unused"
          /\ loads' = [loads EXCEPT ![l] = "running"]
          /\ cached' = l
          /\ awaited' = [awaited EXCEPT ![w] = l]
    /\ UNCHANGED <<vars, listedAt, chainVars>>

\* runtime(env): the promise that is cached, or that of a load begun now, which is
\* cached at once.
AwaitRuntime(w) ==
    /\ pc[w] = "admitted"
    /\ awaited[w] = NoLoad
    /\ \/ /\ cached # NoLoad
          /\ awaited' = [awaited EXCEPT ![w] = cached]
          /\ UNCHANGED <<loads, cached>>
       \/ /\ cached = NoLoad
          /\ \E l \in Loads :
                /\ loads[l] = "unused"
                /\ loads' = [loads EXCEPT ![l] = "running"]
                /\ cached' = l
                /\ awaited' = [awaited EXCEPT ![w] = l]
    /\ UNCHANGED <<vars, listedAt, chainVars>>

LoadSucceeds(l) ==
    /\ loads[l] = "running"
    /\ loads' = [loads EXCEPT ![l] = "ready"]
    /\ UNCHANGED <<vars, listedAt, chainVars, cached, awaited>>

\* (Mutant: the promise of the failed load stays cached.)
LoadFails_Kept(l) ==
    /\ loads[l] = "running"
    /\ loads' = [loads EXCEPT ![l] = "failed"]
    /\ UNCHANGED <<vars, listedAt, chainVars, cached, awaited>>

\* A value is missing or malformed, an anchor cannot be used, or the platform fails.
LoadFails(l) ==
    /\ loads[l] = "running"
    /\ loads' = [loads EXCEPT ![l] = "failed"]
    /\ cached' = NoLoad
    /\ UNCHANGED <<vars, listedAt, chainVars, awaited>>

HasRuntime(w) == awaited[w] # NoLoad /\ loads[awaited[w]] = "ready"

\* POST /v1/attest with a chain of any serials.
SubmitChain(w) ==
    /\ HasRuntime(w)
    /\ Submit(w)
    /\ IF pc'[w] = "idle"
       THEN Release(w)
       ELSE /\ \E chain \in SUBSET Serials : serials' = [serials EXCEPT ![w] = chain]
            /\ UNCHANGED <<listedAt, lists, runtimeVars>>

\* State.revocations returned a list.
FetchList(w) ==
    /\ FetchRevocations(w)
    /\ Revocations!Return(w)
    /\ UNCHANGED <<serials, runtimeVars>>

\* The verifier accepts the chain only if no certificate of it is on the list.
VerifyChain(w) ==
    /\ VerifyAttestation(w)
    /\ serials[w] \cap lists[w] = {}
    /\ IF pc'[w] = "idle"
       THEN Release(w)
       ELSE UNCHANGED <<listedAt, chainVars, runtimeVars>>

\* The steps of a handler that keep what its request holds, and those that end it.
Goes(w) ==
    /\ Arrive(w) \/ TurnedAway(w) \/ SendConsume(w) \/ ConsumeGranted(w)
    /\ UNCHANGED <<listedAt, chainVars, runtimeVars>>

Ends(w) ==
    /\ \/ HasRuntime(w) /\ IssueChallenge(w)
       \/ ConsumeReplyLost(w)
       \/ ConsumeReplayed(w)
       \/ Respond(w)
       \/ Fail(w)
    /\ Release(w)

BackendStep(w) ==
    \/ AwaitRuntime(w)
    \/ SubmitChain(w)
    \/ FetchList(w)
    \/ VerifyChain(w)
    \/ Goes(w)
    \/ Ends(w)

BackendTick == Tick /\ UNCHANGED <<listedAt, chainVars, runtimeVars>>

ListSerial(s) == Revocations!List(s) /\ UNCHANGED <<vars, serials, runtimeVars>>

BackendNext ==
    \/ BackendTick
    \/ \E s \in Serials : ListSerial(s)
    \/ \E l \in Loads : LoadSucceeds(l) \/ LoadFails(l)
    \/ \E w \in Slots : BackendStep(w)

BackendSpec == BackendInit /\ [][BackendNext]_backendVars

-----------------------------------------------------------------------------
\* A flag is on its way to the request in slot w.
Flagged(w) == pc[w] = "replying" /\ pc'[w] = "idle" /\ flags' # flags

\* What a flag may miss: the age of the list, and the time that the challenge's
\* lifetime leaves between fetching the list and the third verify.
Blindness == Window + Lifetime + 2 * Skew

\* No flag is sent for a chain with a serial that Google listed Blindness or more
\* seconds ago.  The list is fetched before the chain is verified and is never looked
\* at again, and neither the verifier nor consume is bounded in time; the verify after
\* consume is what bounds the age of the list at the answer (worker.ts:66-79).
FlagsAreFresh ==
    [][\A w \in Slots : Flagged(w) =>
          \A s \in serials[w] :
              listedAt[s] # Revocations!Never => clock < listedAt[s] + Blindness]_backendVars

\* Requests that arrive together wait for one load, not for one each: the promise is
\* cached before the load is awaited (config.ts:31).
LoadsOnce ==
    \A k, l \in Loads : loads[k] \in {"running", "ready"} /\ loads[l] \in {"running", "ready"}
        => k = l

\* No request is failed by a load that failed before the request asked for the
\* runtime (config.ts:32).
FailuresAreForgotten ==
    [][\A w \in Slots : awaited[w] = NoLoad /\ awaited'[w] # NoLoad
          => loads[awaited'[w]] # "failed"]_backendVars

\* What FlagsAreFresh rests on.  No challenge is stamped later than any worker's clock
\* can be; a list that a slot holds was made after the challenge was issued; and a slot
\* past the verifier carries no serial that is on its list.
IssuedInThePast == \A c \in Nonces : issued[c] <= clock + Skew

ListsPostdateIssue ==
    \A w \in Slots : pc[w] \in {"attesting", "sending", "consuming", "replying"} =>
        \A s \in Serials :
            listedAt[s] # Revocations!Never /\ listedAt[s] + Window < issued[token[w]] - Skew
                => s \in lists[w]

VerifiedAgainstList ==
    \A w \in Slots : pc[w] \in {"sending", "consuming", "replying"} =>
        serials[w] \cap lists[w] = {}

\* What LoadsOnce and FailuresAreForgotten rest on: only the cached load is of any use.
CachedIsLive == \A l \in Loads : loads[l] \in {"running", "ready"} <=> cached = l

FreshInv ==
    /\ BackendTypeOK
    /\ SlotsHoldIssued
    /\ IssuedInThePast
    /\ ListsPostdateIssue
    /\ VerifiedAgainstList
    /\ CachedIsLive

=============================================================================
