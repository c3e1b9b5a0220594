----------------------------- MODULE Challenges -----------------------------
(***************************************************************************)
(* challenges.ts: a challenge is version | issue time | 32-byte nonce | MAC.*)
(* A challenge is named here by its nonce; the only data the server reads   *)
(* back from it is the second at which it was issued.  The MAC is external: *)
(* a string that no worker issued never passes it, so the strings a client  *)
(* can submit are the issued challenges and NotAChallenge, which stands for *)
(* every other string (length, alphabet, padding, version or tag wrong).    *)
(***************************************************************************)
EXTENDS Integers

CONSTANTS
    Lifetime    \* CHALLENGE_LIFETIME_SECONDS: 120 in the code

ASSUME LifetimeAssumption == Lifetime \in Nat \ {0}

Unissued == -1

\* The time check of Challenges.verify; its failure is challenge_expired.
InTime(issuedAt, now) ==
    /\ issuedAt >= 0
    /\ issuedAt <= now
    /\ now - issuedAt < Lifetime

ExpiresAtSeconds(issuedAt) == issuedAt + Lifetime

=============================================================================
