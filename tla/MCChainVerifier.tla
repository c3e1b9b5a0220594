--------------------------- MODULE MCChainVerifier ---------------------------
(***************************************************************************)
(* ChainVerifier on well-formed chains of every shape and every chain that  *)
(* differs from one of them in one or two certificates.                     *)
(***************************************************************************)
EXTENDS ChainVerifier, TLC

CONSTANTS
    Lengths     \* certificates below the root of the chains with two altered ones

MCNames == {"root", "other_root", "factory", "remote", "plain", "n1", "n2", "n3", "n4"}
MCKeys == {"r1", "r2", "r3", "k1", "k2", "k3", "k4", "k5"}

Cert(subject, issuer, key, signer, extension) ==
    [subject |-> subject, issuer |-> issuer, key |-> key, signer |-> signer,
     extension |-> extension, listed |-> FALSE, validity |-> "current"]

Root(name, key) == Cert(name, name, key, key, "none")

\* Two anchors have the same name; the one that signs is not the first.
MCAnchors == <<Root("other_root", "r3"), Root("root", "r2"), Root("root", "r1")>>

LowerNames == <<"n1", "n2", "n3", "n4">>
LowerKeys == <<"k1", "k2", "k3", "k4", "k5">>

\* n certificates below the root, the top one named after the kind of path.
Path(kind, n) ==
    LET subject(i) == IF i = n THEN kind ELSE LowerNames[i]
    IN [i \in 1 .. n |->
          Cert(subject(i), IF i = n THEN "root" ELSE subject(i + 1),
               LowerKeys[i], IF i = n THEN "r1" ELSE LowerKeys[i + 1],
               IF i = 1 THEN "noncritical" ELSE "none")]

\* Without a root, with the anchor, and with a root nobody configured.
Tails == {<<>>, <<Root("root", "r1")>>, <<Root("plain", "k5")>>}

Bases == {Path(kind, n) \o tail :
            kind \in {"factory", "remote", "plain"}, n \in 1 .. 5, tail \in Tails}

Altered(c) ==
    {[c EXCEPT !.extension = x] : x \in {"none", "noncritical", "critical"}} \cup
    {[c EXCEPT !.validity = v] : v \in {"early", "expired"}} \cup
    {[c EXCEPT !.signer = k] : k \in {"r1", "r2", "k1"}} \cup
    {[c EXCEPT !.issuer = x] : x \in {"root", "n1"}} \cup
    {[c EXCEPT !.subject = x] : x \in {"factory", "remote", "root"}} \cup
    {[c EXCEPT !.listed = TRUE]}

AlteredOnce(ch) ==
    UNION {{[ch EXCEPT ![i] = c] : c \in Altered(ch[i])} : i \in DOMAIN ch}

\* Two different certificates differ.
AlteredTwice(ch) ==
    UNION {UNION {{[ch EXCEPT ![i] = c, ![j] = d] : c \in Altered(ch[i]), d \in Altered(ch[j])} :
               j \in {k \in DOMAIN ch : k > i}} : i \in DOMAIN ch}

MCRequests ==
    Bases \cup UNION {AlteredOnce(ch) : ch \in Bases} \cup
    UNION {AlteredTwice(Path(kind, n) \o tail) :
              kind \in {"factory", "remote", "plain"}, n \in Lengths, tail \in Tails}

=============================================================================
