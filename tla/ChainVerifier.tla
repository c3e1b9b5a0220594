---------------------------- MODULE ChainVerifier ----------------------------
(***************************************************************************)
(* verifier.ts and path.ts, up to the point where the key description of    *)
(* the leaf is known to be there: completion of a chain that lacks its      *)
(* root, the revocation check over the whole chain, the choice of a trust   *)
(* anchor, and the walk from the anchor down to the leaf.                   *)
(*                                                                          *)
(* A chain is a sequence of certificates, the leaf first and the root last. *)
(* A certificate is reduced to what the walk reads.  A key is a value, and  *)
(* a signature is represented by the key that made it (the cryptography is  *)
(* external); a name is a value, of which only the two kinds that tell how  *)
(* the attestation key was provisioned are looked into.  The clock and the  *)
(* revocation list are fixed during a call, so a certificate simply is      *)
(* early, current or expired, and listed or not.                            *)
(***************************************************************************)
EXTENDS Integers, Sequences

CONSTANTS
    Names,          \* distinguished names, up to namesEqual
    FactoryNames,   \* those with a serialNumber attribute
    RemoteNames,    \* those with CN=Droid CA2 and O=Google LLC, and no serialNumber
    Keys,           \* public keys
    Anchors,        \* the configured anchors, a sequence of self-issued certificates
    Requests        \* the chains that clients submit

Certificates == [subject : Names, issuer : Names, key : Keys, signer : Keys,
                 extension : {"none", "noncritical", "critical"},
                 listed : BOOLEAN, validity : {"early", "current", "expired"}]

ASSUME ChainVerifierAssumption ==
    /\ FactoryNames \subseteq Names /\ RemoteNames \subseteq Names
    /\ FactoryNames \cap RemoteNames = {}
    /\ Anchors \in Seq(Certificates) /\ Len(Anchors) > 0
    /\ \A a \in 1 .. Len(Anchors) :
          Anchors[a].issuer = Anchors[a].subject /\ Anchors[a].signer = Anchors[a].key
    /\ Requests \subseteq Seq(Certificates)

VARIABLES
    chain,      \* the chain, completed with its root
    pc,         \* what verify does next
    anchor,     \* the anchor to try next
    at,         \* the certificate to visit next: the walk goes down to 1, the leaf
    step,       \* the step of the certificate visited last, or "none"
    parent      \* that certificate, at first the anchor: prevKey and prevSubject

vars == <<chain, pc, anchor, at, step, parent>>

TypeOK ==
    /\ chain \in Seq(Certificates)
    /\ pc \in {"completing", "listing", "selecting", "walking", "describing", "described",
               "rejected"}
    /\ anchor \in 1 .. (Len(Anchors) + 1)
    /\ at \in 0 .. Len(chain)
    /\ step \in {"none", "factory_intermediate", "rkp_intermediate", "rkp_server",
                 "attestation", "target"}
    /\ parent \in Certificates

Init ==
    /\ chain \in Requests
    /\ pc = "completing"
    /\ anchor = 1
    /\ at = 0
    /\ step = "none"
    /\ parent = Anchors[1]

-----------------------------------------------------------------------------
SelfIssued(c) == c.issuer = c.subject

\* Issued in the name of p, and signed with its key.
IssuedBy(c, p) == c.issuer = p.subject /\ c.signer = p.key

Leaf == chain[1]

\* The certificate next to the root, and the first one of the walk.
Intermediate == chain[Len(chain) - 1]

Method ==
    CASE Intermediate.subject \in FactoryNames -> "factory"
      [] Intermediate.subject \in RemoteNames  -> "remote"
      [] OTHER                                 -> "unknown"

FirstStep ==
    IF Method = "remote" THEN "rkp_intermediate"
    ELSE IF Method = "factory" \/ Len(chain) = 4 THEN "factory_intermediate"
    ELSE "attestation"

StepAfter(s) ==
    CASE s = "none"                               -> FirstStep
      [] s = "rkp_intermediate"                   -> "rkp_server"
      [] s \in {"rkp_server", "factory_intermediate"} -> "attestation"
      [] s = "attestation"                        -> "target"
      [] OTHER                                    -> "beyond"

\* Only the certificates above the leaf are checked here, and expiry is forgiven to
\* those of a factory.
TimeValid(c, remaining) ==
    remaining # 0 => c.validity # "early" /\ (c.validity = "expired" => Method = "factory")

\* What one turn of the loop requires of certificate c at step s.
\* (Mutant: certificates may follow the target.)
Passes_Beyond(c, s, remaining) ==
    /\ IssuedBy(c, parent)
    /\ TimeValid(c, remaining)
    /\ (s = "target") = (c.extension = "noncritical")
    /\ ~c.listed

Passes(c, s, remaining) ==
    /\ s # "beyond"
    /\ IssuedBy(c, parent)
    /\ TimeValid(c, remaining)
    /\ (s = "target") = (c.extension = "noncritical")
    /\ ~c.listed

-----------------------------------------------------------------------------
Reject ==
    /\ pc' = "rejected"
    /\ UNCHANGED <<chain, anchor, at, step, parent>>

Candidates(c) == {a \in 1 .. Len(Anchors) : IssuedBy(c, Anchors[a])}

\* A chain of two to six certificates has its root, or there is one anchor that
\* completes it.
Complete ==
    /\ pc = "completing"
    /\ IF Len(chain) \notin 2 .. 6
       THEN Reject
       ELSE LET tail == chain[Len(chain)] IN
            IF SelfIssued(tail)
            THEN pc' = "listing" /\ UNCHANGED <<chain, anchor, at, step, parent>>
            ELSE IF \A a \in 1 .. Len(Anchors) : Candidates(tail) # {a}
            THEN Reject
            ELSE /\ \E a \in Candidates(tail) : chain' = Append(chain, Anchors[a])
                 /\ pc' = "listing"
                 /\ UNCHANGED <<anchor, at, step, parent>>

\* rejectListed, and then the shape that CertPath insists on.
CheckListed ==
    /\ pc = "listing"
    /\ IF (\E i \in 1 .. Len(chain) : chain[i].listed) \/ Len(chain) < 3
       THEN Reject
       ELSE pc' = "selecting" /\ UNCHANGED <<chain, anchor, at, step, parent>>

\* The loop over the anchors: those of another name are passed over.
\* (Mutants: the first anchor of the name decides; a failed walk is tried again.)
SelectAnchor_FirstOnly ==
    /\ pc = "selecting"
    /\ LET named == {a \in 1 .. Len(Anchors) : Anchors[a].subject = Intermediate.issuer} IN
       IF named = {} \/ anchor > 1
       THEN Reject
       ELSE LET first == CHOOSE a \in named : \A b \in named : a <= b IN
            /\ parent' = Anchors[first]
            /\ anchor' = first + 1
            /\ at' = Len(chain) - 1
            /\ step' = "none"
            /\ pc' = "walking"
            /\ UNCHANGED chain

SelectAnchor_Retries ==
    /\ pc = "selecting"
    /\ IF Anchors[anchor].subject = Intermediate.issuer
       THEN /\ parent' = Anchors[anchor]
            /\ at' = Len(chain) - 1
            /\ step' = "none"
            /\ pc' = "walking"
            /\ UNCHANGED anchor
       ELSE IF anchor = Len(Anchors)
       THEN pc' = "rejected" /\ UNCHANGED <<anchor, at, step, parent>>
       ELSE anchor' = anchor + 1 /\ UNCHANGED <<pc, at, step, parent>>
    /\ UNCHANGED chain

SelectAnchor ==
    /\ pc = "selecting"
    /\ IF anchor > Len(Anchors)
       THEN Reject
       ELSE /\ anchor' = anchor + 1
            /\ IF Anchors[anchor].subject = Intermediate.issuer
               THEN /\ parent' = Anchors[anchor]
                    /\ at' = Len(chain) - 1
                    /\ step' = "none"
                    /\ pc' = "walking"
               ELSE UNCHANGED <<pc, at, step, parent>>
            /\ UNCHANGED chain

\* One turn of validateWithAnchor's loop.
\* (Mutant: every certificate is held against the anchor.)
Visit_KeepsParent ==
    /\ pc = "walking"
    /\ LET c == chain[at]
           s == StepAfter(step)
       IN IF Passes(c, s, at - 1)
          THEN /\ at' = at - 1
               /\ step' = s
               /\ pc' = IF at = 1 THEN "describing" ELSE "walking"
               /\ UNCHANGED <<chain, anchor, parent>>
          ELSE pc' = "selecting" /\ UNCHANGED <<chain, anchor, at, step, parent>>

Visit ==
    /\ pc = "walking"
    /\ LET c == chain[at]
           s == StepAfter(step)
       IN IF Passes(c, s, at - 1)
          THEN /\ at' = at - 1
               /\ step' = s
               /\ parent' = c
               /\ pc' = IF at = 1 THEN "describing" ELSE "walking"
               /\ UNCHANGED <<chain, anchor>>
          ELSE pc' = "selecting" /\ UNCHANGED <<chain, anchor, at, step, parent>>

\* The key description is taken from the leaf, if it carries one.
FindDescription ==
    /\ pc = "describing"
    /\ pc' = IF Leaf.extension = "none" THEN "rejected" ELSE "described"
    /\ UNCHANGED <<chain, anchor, at, step, parent>>

Next == Complete \/ CheckListed \/ SelectAnchor \/ Visit \/ FindDescription

Spec == Init /\ [][Next]_vars

\* verify is one call of a handler; each of its awaits settles.
LiveSpec == Spec /\ WF_vars(Next)

-----------------------------------------------------------------------------
\* What it all is for, stated without the loop.  The path is the chain without its
\* root; its certificate i has place Length - i + 1 from the root, and the last of
\* the places that a kind of path provides is the target's.
Length == Len(chain) - 1

Places ==
    IF Method = "remote" THEN 4 ELSE IF Method = "factory" \/ Length = 3 THEN 3 ELSE 2

IsTarget(i) == Length - i + 1 = Places

\* The path hangs on anchor a: every certificate is issued by the one above it.
Above(a, i) == IF i = Length THEN Anchors[a] ELSE chain[i + 1]

HangsOn(a) == \A i \in 1 .. Length : IssuedBy(chain[i], Above(a, i))

Acceptable ==
    /\ Length \in 2 .. Places
    /\ \A i \in 1 .. Len(chain) : ~chain[i].listed
    /\ \A i \in 1 .. Length : (chain[i].extension = "noncritical") = IsTarget(i)
    /\ \A i \in 2 .. Length :
          \/ chain[i].validity = "current"
          \/ chain[i].validity = "expired" /\ Method = "factory"
    /\ \E a \in 1 .. Len(Anchors) : HangsOn(a)
    /\ Leaf.extension # "none"

\* The walk accepts exactly the paths that hang on a configured anchor, with current
\* certificates of the right number and nothing listed: no order of anchors, no retry
\* with the next anchor and no mixture of defects gets another one through or keeps
\* one of them out (verifier.ts:131-161, path.ts:88-189).
AcceptedIffAcceptable ==
    /\ pc = "described" => Acceptable
    /\ pc = "rejected" /\ Len(chain) >= 2 /\ SelfIssued(chain[Len(chain)]) => ~Acceptable

\* Whatever the walk has passed is vouched for by an anchor, at every moment: the key
\* the next signature is checked with always belongs to the certificate above, and
\* the chain of those signatures starts at an anchor (path.ts:89-122).
VouchedFor ==
    pc = "walking" =>
        \E a \in 1 .. Len(Anchors) :
            /\ parent = Above(a, at)
            /\ \A i \in (at + 1) .. Length : IssuedBy(chain[i], Above(a, i))

\* "A critical attestation extension on the leaf counts as missing."
\* (server/README.md): a chain whose leaf has no other is rejected.
CriticalCountsAsMissing == pc = "described" => Leaf.extension = "noncritical"

\* What AcceptedIffAcceptable and VouchedFor rest on.  The walk down anchor a passes
\* certificate i exactly when Holds(a, i); the step it is at counts what it has passed.
Holds(a, i) ==
    /\ IssuedBy(chain[i], Above(a, i))
    /\ Length - i + 1 <= Places
    /\ TimeValid(chain[i], i - 1)
    /\ (chain[i].extension = "noncritical") = IsTarget(i)
    /\ ~chain[i].listed

StepAt(n) ==
    IF n = 0 THEN "none"
    ELSE IF n = Places THEN "target"
    ELSE IF n = Places - 1 THEN "attestation"
    ELSE IF n = 2 THEN "rkp_server"
    ELSE FirstStep

PastTheList ==
    pc \notin {"completing", "listing", "rejected"} =>
        Len(chain) >= 3 /\ \A i \in 1 .. Len(chain) : ~chain[i].listed

\* The anchor of the walk is the one before the next to try.
WalkSoFar ==
    pc = "walking" =>
        /\ anchor > 1
        /\ at \in 1 .. Length
        /\ parent = Above(anchor - 1, at)
        /\ Length - at <= Places
        /\ step = StepAt(Length - at)
        /\ \A i \in (at + 1) .. Length : Holds(anchor - 1, i)

WalkedWhole ==
    pc \in {"describing", "described"} =>
        /\ anchor > 1
        /\ parent = Leaf
        /\ \A i \in 1 .. Length : Holds(anchor - 1, i)

\* Every anchor before the current one was tried in vain.
TriedInVain ==
    /\ pc \in {"completing", "listing"} => anchor = 1
    /\ pc = "selecting" => \A a \in 1 .. (anchor - 1) : \E i \in 1 .. Length : ~Holds(a, i)
    /\ pc = "walking" => \A a \in 1 .. (anchor - 2) : \E i \in 1 .. Length : ~Holds(a, i)

IInv ==
    /\ TypeOK
    /\ PastTheList
    /\ WalkSoFar
    /\ WalkedWhole
    /\ TriedInVain
    /\ AcceptedIffAcceptable

\* Every chain is decided.
Decided == <>(pc \in {"described", "rejected"})

=============================================================================
