------------------------------- MODULE Worker -------------------------------
(***************************************************************************)
(* worker.ts: the request handlers of the backend, with the replay table    *)
(* and the request budget of the State object they share (state.ts) and the *)
(* challenges they issue and verify (challenges.ts).                        *)
(*                                                                          *)
(* A request occupies a slot w from the call of allowRequest to its answer. *)
(* Between two awaits of handle() the handler runs alone; every await is a  *)
(* point where other handlers run and time passes, so the slot's pc names   *)
(* the await it is suspended in.  A worker reads its own clock, which may   *)
(* be Skew seconds off real time; the time handed to consume is the one     *)
(* read when the call was sent, while the call executes later.              *)
(*                                                                          *)
(* The revocation snapshot and the verdict on the certificate chain are     *)
(* inputs here: either may be anything.                                     *)
(***************************************************************************)
EXTENDS Challenges, Tables

CONSTANTS
    Nonces,         \* the challenges a run can issue
    NotAChallenge,  \* any string no worker issued
    Slots,          \* requests that can be in progress at the same time
    Skew,           \* how far a worker's clock may be from real time, in seconds
    StartTime,      \* real time at the start of a behaviour
    MaxTime         \* bound: real time never passes this second

\* A clock reading that accepts a challenge never coexists with a reading that
\* purges its row.  2 * Skew = PurgeMargin + 1 is the largest skew for which this
\* holds: the purge is strict, so it happens PurgeMargin + 1 seconds after expiry.
ASSUME WorkerAssumption ==
    /\ Skew \in Nat
    /\ StartTime \in Nat
    /\ MaxTime \in Nat
    /\ StartTime <= MaxTime
    /\ 2 * Skew <= PurgeMargin + 1
    /\ NotAChallenge \notin Nonces

VARIABLES
    clock,              \* real time in seconds
    issued,             \* issued[c]: the second stamped into c, or Unissued
    used_challenges,    \* replay table, persistent
    request_budget,     \* requests granted per minute, persistent
    pc,                 \* pc[w]: the await slot w is suspended in
    token,              \* token[w]: the challenge the request in w submitted
    stamp,              \* stamp[w]: the time sent along with consume
    wins,               \* history: wins[c] calls of consume returned true for c
    flags               \* history: flags[c] responses carried the flag for c

vars == <<clock, issued, used_challenges, request_budget, pc, token, stamp, wins, flags>>

slotVars == <<pc, token, stamp>>

Readings == {n \in 0 .. (MaxTime + Skew) : clock - Skew <= n /\ n <= clock + Skew}

Minutes == 0 .. MinuteOf(MaxTime + Skew)

TypeOK ==
    /\ clock \in StartTime .. MaxTime
    /\ issued \in [Nonces -> {Unissued} \cup 0 .. (MaxTime + Skew)]
    /\ used_challenges \subseteq
           [id : Nonces, expires_at : Lifetime .. (MaxTime + Skew + Lifetime)]
    /\ request_budget \in [Minutes -> 0 .. RateLimit]
    /\ pc \in [Slots -> {"idle", "admitted", "fetching", "attesting", "sending",
                         "consuming", "replying"}]
    /\ token \in [Slots -> Nonces \cup {NotAChallenge}]
    /\ stamp \in [Slots -> 0 .. (MaxTime + Skew)]
    /\ wins \in [Nonces -> Nat]
    /\ flags \in [Nonces -> Nat]

Init ==
    /\ clock = StartTime
    /\ issued = [c \in Nonces |-> Unissued]
    /\ used_challenges = {}
    /\ request_budget = [m \in Minutes |-> 0]
    /\ pc = [w \in Slots |-> "idle"]
    /\ token = [w \in Slots |-> NotAChallenge]
    /\ stamp = [w \in Slots |-> 0]
    /\ wins = [c \in Nonces |-> 0]
    /\ flags = [c \in Nonces |-> 0]

Tick ==
    /\ clock < MaxTime
    /\ clock' = clock + 1
    /\ UNCHANGED <<issued, used_challenges, request_budget, pc, token, stamp, wins, flags>>

-----------------------------------------------------------------------------
\* Suspend slot w in the next await, or answer the request and free the slot.

GoTo(w, await) == pc' = [pc EXCEPT ![w] = await]

Answer(w) ==
    /\ GoTo(w, "idle")
    /\ token' = [token EXCEPT ![w] = NotAChallenge]
    /\ stamp' = [stamp EXCEPT ![w] = 0]

\* Challenges.verify on what slot w submitted, at some reading of the clock.
\* (Mutant: only the authenticity of the challenge is verified.)
Verified_Untimed(t, now) == t \in Nonces

Verified(t, now) == t \in Nonces /\ InTime(issued[t], now)

\* allowRequest grants the request and the call returns.
Arrive(w) ==
    /\ pc[w] = "idle"
    /\ \E now \in Readings :
          /\ Allowed(request_budget, now)
          /\ request_budget' = AllowRequest(request_budget, now)
    /\ GoTo(w, "admitted")
    /\ UNCHANGED <<clock, issued, used_challenges, token, stamp, wins, flags>>

\* 429, or 503 because allowRequest ran but its reply was lost.
TurnedAway(w) ==
    /\ pc[w] = "idle"
    /\ \E now \in Readings : request_budget' = AllowRequest(request_budget, now)
    /\ UNCHANGED <<clock, issued, used_challenges, pc, token, stamp, wins, flags>>

\* GET /v1/challenge.
IssueChallenge(w) ==
    /\ pc[w] = "admitted"
    /\ \E c \in Nonces, now \in Readings :
          /\ issued[c] = Unissued
          /\ issued' = [issued EXCEPT ![c] = now]
    /\ Answer(w)
    /\ UNCHANGED <<clock, used_challenges, request_budget, wins, flags>>

\* POST /v1/attest, up to and including the first verify.
Submit(w) ==
    /\ pc[w] = "admitted"
    /\ \E t \in {c \in Nonces : issued[c] # Unissued} \cup {NotAChallenge}, now \in Readings :
          IF Verified(t, now)
          THEN /\ GoTo(w, "fetching")
               /\ token' = [token EXCEPT ![w] = t]
               /\ UNCHANGED stamp
          ELSE Answer(w)
    /\ UNCHANGED <<clock, issued, used_challenges, request_budget, wins, flags>>

\* The State object returned a fresh revocation list.
FetchRevocations(w) ==
    /\ pc[w] = "fetching"
    /\ GoTo(w, "attesting")
    /\ UNCHANGED <<clock, issued, used_challenges, request_budget, token, stamp, wins, flags>>

\* The verifier accepted the chain; the second verify decides.
VerifyAttestation(w) ==
    /\ pc[w] = "attesting"
    /\ \E now \in Readings :
          IF Verified(token[w], now)
          THEN GoTo(w, "sending") /\ UNCHANGED <<token, stamp>>
          ELSE Answer(w)
    /\ UNCHANGED <<clock, issued, used_challenges, request_budget, wins, flags>>

\* The call of consume is sent, with the time read now.
SendConsume(w) ==
    /\ pc[w] = "sending"
    /\ \E now \in Readings : stamp' = [stamp EXCEPT ![w] = now]
    /\ GoTo(w, "consuming")
    /\ UNCHANGED <<clock, issued, used_challenges, request_budget, token, wins, flags>>

ConsumeToken(w) ==
    used_challenges' = Consume(used_challenges, token[w],
                               ExpiresAtSeconds(issued[token[w]]), stamp[w])

\* consume returns true and the reply arrives.
ConsumeGranted(w) ==
    /\ pc[w] = "consuming"
    /\ Unused(used_challenges, token[w], stamp[w])
    /\ ConsumeToken(w)
    /\ wins' = [wins EXCEPT ![token[w]] = @ + 1]
    /\ GoTo(w, "replying")
    /\ UNCHANGED <<clock, issued, request_budget, token, stamp, flags>>

\* consume returns true but the reply is lost: 503, and the challenge is spent.
\* A call that executes after its handler has given up is this step too.
ConsumeReplyLost(w) ==
    /\ pc[w] = "consuming"
    /\ Unused(used_challenges, token[w], stamp[w])
    /\ ConsumeToken(w)
    /\ wins' = [wins EXCEPT ![token[w]] = @ + 1]
    /\ Answer(w)
    /\ UNCHANGED <<clock, issued, request_budget, flags>>

\* consume returns false: challenge_replayed.
ConsumeReplayed(w) ==
    /\ pc[w] = "consuming"
    /\ ~Unused(used_challenges, token[w], stamp[w])
    /\ ConsumeToken(w)
    /\ Answer(w)
    /\ UNCHANGED <<clock, issued, request_budget, wins, flags>>

\* (Mutant: no third verify.)
Respond_Unverified(w) ==
    /\ pc[w] = "replying"
    /\ flags' = [flags EXCEPT ![token[w]] = @ + 1]
    /\ Answer(w)
    /\ UNCHANGED <<clock, issued, used_challenges, request_budget, wins>>

\* The third verify decides whether the flag is sent.
Respond(w) ==
    /\ pc[w] = "replying"
    /\ \E now \in Readings :
          flags' = IF Verified(token[w], now)
                   THEN [flags EXCEPT ![token[w]] = @ + 1]
                   ELSE flags
    /\ Answer(w)
    /\ UNCHANGED <<clock, issued, used_challenges, request_budget, wins>>

\* Every other way a request ends: a request refused for its method, type, size
\* or shape; no usable configuration; no fresh revocation list; a chain the
\* verifier rejects; a call to the State object that throws without having run;
\* an isolate that is evicted.
Fail(w) ==
    /\ pc[w] # "idle"
    /\ Answer(w)
    /\ UNCHANGED <<clock, issued, used_challenges, request_budget, wins, flags>>

Step(w) ==
    \/ Arrive(w)
    \/ TurnedAway(w)
    \/ IssueChallenge(w)
    \/ Submit(w)
    \/ FetchRevocations(w)
    \/ VerifyAttestation(w)
    \/ SendConsume(w)
    \/ ConsumeGranted(w)
    \/ ConsumeReplyLost(w)
    \/ ConsumeReplayed(w)
    \/ Respond(w)
    \/ Fail(w)

Next == Tick \/ \E w \in Slots : Step(w)

Spec == Init /\ [][Next]_vars

-----------------------------------------------------------------------------
\* Some worker's clock may still accept challenge c.
Redeemable(c) == issued[c] # Unissued /\ clock - Skew < ExpiresAtSeconds(issued[c])

HasRow(c) == \E row \in used_challenges : row.id = c

\* What SingleUse rests on.  A slot past the first verify holds an issued challenge,
\* and one waiting for consume sent a stamp no clock was ahead of.
SlotsHoldIssued ==
    \A w \in Slots :
        /\ pc[w] \notin {"idle", "admitted"} =>
              token[w] \in Nonces /\ issued[token[w]] # Unissued
        /\ pc[w] = "consuming" => stamp[w] <= clock + Skew

RowsDescribeChallenges ==
    \A row \in used_challenges :
        /\ issued[row.id] # Unissued
        /\ row.expires_at = ExpiresAtSeconds(issued[row.id])

\* Flags are preceded by wins, and wins by an issue.
HistoryInOrder ==
    /\ \A c \in Nonces : issued[c] = Unissued => wins[c] = 0
    /\ \A c \in Nonces : wins[c] = 0 => flags[c] = 0
    /\ \A w \in Slots : pc[w] = "replying" => wins[token[w]] > 0

\* While challenge c can be accepted, at most one request is about to be answered
\* for it, and none once the flag is out.
OneHolder ==
    \A c \in Nonces : Redeemable(c) =>
        \A w \in Slots : pc[w] = "replying" /\ token[w] = c =>
            /\ flags[c] = 0
            /\ \A v \in Slots : pc[v] = "replying" /\ token[v] = c => v = w

\* A challenge never buys a second flag, however requests that carry it overlap,
\* however long a call of consume is under way, and although the replay table
\* forgets challenges (worker.ts handle, state.ts consume).
SingleUse == \A c \in Nonces : flags[c] <= 1

\* The replay table keeps a consumed challenge for as long as any worker may
\* accept it, whatever stamps the purges ran with (state.ts:55).
RetainedWhileRedeemable ==
    \A c \in Nonces : wins[c] > 0 /\ Redeemable(c) => HasRow(c)

\* While a challenge can be accepted at all, consume has answered true for it at
\* most once (state.ts:52-60).
GrantedOnceWhileRedeemable == \A c \in Nonces : Redeemable(c) => wins[c] <= 1

ReplayInv ==
    /\ RowsDescribeChallenges
    /\ HistoryInOrder
    /\ OneHolder
    /\ SingleUse
    /\ RetainedWhileRedeemable
    /\ GrantedOnceWhileRedeemable

IInv == TypeOK /\ SlotsHoldIssued /\ ReplayInv

\* The backend implements the abstract flag service: every step of a handler is an
\* issue, a first and timely redemption, or invisible (worker.ts handle).
Service == INSTANCE FlagService
    WITH clock <- clock, issued <- issued, flags <- flags

ServiceSpec == Service!Spec

=============================================================================
