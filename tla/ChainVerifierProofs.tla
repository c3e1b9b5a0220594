------------------------- MODULE ChainVerifierProofs -------------------------
(***************************************************************************)
(* Proofs about ChainVerifier, for chains of every length, any number of    *)
(* anchors and any names and keys.  IInv is inductive.  Its core is Holds,  *)
(* the demand on one certificate stated without the loop: a turn of the     *)
(* loop passes a certificate exactly when Holds does (PassesIffHolds), and  *)
(* Acceptable says that Holds does for the whole path below one anchor      *)
(* (AcceptableIff).                                                         *)
(***************************************************************************)
EXTENDS ChainVerifier, SequenceTheorems, TLAPS

LEMMA AnchorsTyped ==
    /\ Len(Anchors) \in Nat /\ Len(Anchors) > 0
    /\ \A a \in 1 .. Len(Anchors) : Anchors[a] \in Certificates
BY ChainVerifierAssumption

-----------------------------------------------------------------------------
\* The kinds of paths and their places.
LEMMA Methods == Method \in {"factory", "remote", "unknown"}
BY Zenon DEF Method

LEMMA FirstSteps ==
    /\ Method = "remote" => FirstStep = "rkp_intermediate"
    /\ Method # "remote" /\ (Method = "factory" \/ Len(chain) = 4)
           => FirstStep = "factory_intermediate"
    /\ Method # "remote" /\ ~(Method = "factory" \/ Len(chain) = 4)
           => FirstStep = "attestation"
BY DEF FirstStep

LEMMA PlacesOf ==
    /\ Method = "remote" => Places = 4
    /\ Method # "remote" /\ (Method = "factory" \/ Length = 3) => Places = 3
    /\ Method # "remote" /\ ~(Method = "factory" \/ Length = 3) => Places = 2
BY DEF Places

LEMMA NextSteps ==
    /\ StepAfter("none") = FirstStep
    /\ StepAfter("rkp_intermediate") = "rkp_server"
    /\ StepAfter("rkp_server") = "attestation"
    /\ StepAfter("factory_intermediate") = "attestation"
    /\ StepAfter("attestation") = "target"
    /\ StepAfter("target") = "beyond"
BY Zenon DEF StepAfter

\* A path has three kinds of steps, counted from the root.
LEMMA StepCount ==
    ASSUME Len(chain) \in Nat, NEW n \in 0 .. Places
    PROVE  /\ Places \in 2 .. 4
           /\ StepAfter(StepAt(n)) = IF n = Places THEN "beyond" ELSE StepAt(n + 1)
           /\ n > 0 => (StepAt(n) = "target" <=> n = Places)
           /\ StepAt(n) \in {"none", "factory_intermediate", "rkp_intermediate", "rkp_server",
                             "attestation", "target"}
<1>1. CASE Method = "remote"
  <2>1. Places = 4 /\ FirstStep = "rkp_intermediate"  BY <1>1, FirstSteps, PlacesOf
  <2>2. n \in {0, 1, 2, 3, 4}  BY <2>1
  <2> QED  BY <2>1, <2>2, NextSteps DEF StepAt
<1>2. CASE Method # "remote" /\ (Method = "factory" \/ Len(chain) = 4)
  <2>1. Places = 3 /\ FirstStep = "factory_intermediate"
    BY <1>2, FirstSteps, PlacesOf DEF Length
  <2>2. n \in {0, 1, 2, 3}  BY <2>1
  <2> QED  BY <2>1, <2>2, NextSteps DEF StepAt
<1>3. CASE Method # "remote" /\ ~(Method = "factory" \/ Len(chain) = 4)
  <2>1. Places = 2 /\ FirstStep = "attestation"
    BY <1>3, FirstSteps, PlacesOf DEF Length
  <2>2. n \in {0, 1, 2}  BY <2>1
  <2> QED  BY <2>1, <2>2, NextSteps DEF StepAt
<1> QED  BY <1>1, <1>2, <1>3

LEMMA PlacesRange == Len(chain) \in Nat => Places \in 2 .. 4
BY Methods, PlacesOf

\* A turn of the loop passes a certificate exactly when Holds does.
LEMMA PassesIffHolds ==
    ASSUME NEW a, Len(chain) \in Nat, at \in 1 .. Length,
           parent = Above(a, at), Length - at <= Places, step = StepAt(Length - at)
    PROVE  Passes(chain[at], StepAfter(step), at - 1) <=> Holds(a, at)
<1> DEFINE n == Length - at
<1>1. Length \in Int  BY DEF Length
<1>2. n \in 0 .. Places /\ Places \in 2 .. 4  BY <1>1, PlacesRange
<1>3. CASE n = Places
  <2>1. StepAfter(step) = "beyond"  BY <1>2, <1>3, StepCount
  <2>2. ~(Length - at + 1 <= Places)  BY <1>1, <1>2, <1>3
  <2> QED  BY <2>1, <2>2 DEF Passes, Holds
<1>4. CASE n # Places
  <2>1. n + 1 \in 1 .. Places  BY <1>2, <1>4
  <2>2. StepAfter(step) = StepAt(n + 1)  BY <1>2, <1>4, StepCount
  <2>3. StepAt(n + 1) # "beyond" /\ (StepAt(n + 1) = "target" <=> n + 1 = Places)
    BY <2>1, <1>2, StepCount
  <2>4. Length - at + 1 = n + 1  BY <1>1
  <2>5. Length - at + 1 <= Places  BY <2>1, <2>4, <1>2
  <2> QED  BY <2>2, <2>3, <2>4, <2>5 DEF Passes, Holds, IsTarget
<1> QED  BY <1>3, <1>4

\* Acceptable, in terms of the single certificates.
LEMMA AcceptableIff ==
    ASSUME chain \in Seq(Certificates), Len(chain) >= 3,
           \A i \in 1 .. Len(chain) : ~chain[i].listed
    PROVE  Acceptable <=> /\ Leaf.extension # "none"
                          /\ \E a \in 1 .. Len(Anchors) : \A i \in 1 .. Length : Holds(a, i)
<1>1. Len(chain) \in Nat /\ \A i \in 1 .. Len(chain) : chain[i] \in Certificates
  OBVIOUS
<1>2. Length \in Nat /\ Length >= 2 /\ Length < Len(chain) /\ Places \in 2 .. 4
  BY <1>1, PlacesRange DEF Length
<1>3. ASSUME Acceptable, NEW a \in 1 .. Len(Anchors), HangsOn(a), NEW i \in 1 .. Length
      PROVE  Holds(a, i)
  <2>1. Length - i + 1 <= Places  BY <1>2, <1>3 DEF Acceptable
  <2>2. TimeValid(chain[i], i - 1)
    <3>1. CASE i = 1  BY <3>1 DEF TimeValid
    <3>2. CASE i \in 2 .. Length  BY <3>2, <1>3 DEF TimeValid, Acceptable
    <3> QED  BY <3>1, <3>2, <1>2
  <2> QED  BY <2>1, <2>2, <1>2, <1>3 DEF Holds, HangsOn, Acceptable
<1>4. ASSUME Leaf.extension # "none", NEW a \in 1 .. Len(Anchors),
             \A i \in 1 .. Length : Holds(a, i)
      PROVE  Acceptable
  <2>1. Length \in 2 .. Places
    <3>1. 1 \in 1 .. Length  BY <1>2
    <3>2. Length - 1 + 1 <= Places  BY <3>1, <1>4 DEF Holds
    <3> QED  BY <3>2, <1>2
  <2>2. ASSUME NEW i \in 2 .. Length
        PROVE  \/ chain[i].validity = "current"
               \/ chain[i].validity = "expired" /\ Method = "factory"
    <3>1. i \in 1 .. Length /\ i - 1 # 0 /\ i \in 1 .. Len(chain)  BY <1>2
    <3>2. TimeValid(chain[i], i - 1)  BY <3>1, <1>4 DEF Holds
    <3>3. chain[i].validity \in {"early", "current", "expired"}
      BY <3>1, <1>1 DEF Certificates
    <3> QED  BY <3>1, <3>2, <3>3 DEF TimeValid
  <2> QED  BY <2>1, <2>2, <1>4 DEF Acceptable, Holds, HangsOn
<1>5. Acceptable => Leaf.extension # "none" /\ \E a \in 1 .. Len(Anchors) : HangsOn(a)
  BY DEF Acceptable
<1> QED  BY <1>3, <1>4, <1>5

-----------------------------------------------------------------------------
LEMMA InitInv == Init => IInv
<1> SUFFICES ASSUME Init PROVE IInv  OBVIOUS
<1>1. chain \in Seq(Certificates) /\ Len(chain) \in Nat  BY ChainVerifierAssumption DEF Init
<1>2. Anchors[1] \in Certificates /\ Len(Anchors) \in Nat  BY AnchorsTyped
<1>3. TypeOK  BY <1>1, <1>2 DEF Init, TypeOK
<1> QED
  BY <1>3 DEF Init, IInv, PastTheList, WalkSoFar, WalkedWhole, TriedInVain,
              AcceptedIffAcceptable

\* A rejection keeps the invariant if the chain is not acceptable.
LEMMA RejectInv ==
    ASSUME IInv, Reject, Len(chain) >= 2 /\ SelfIssued(chain[Len(chain)]) => ~Acceptable
    PROVE  IInv'
<1>1. TypeOK'  BY DEF IInv, TypeOK, Reject
<1>2. (Len(chain) >= 2 /\ SelfIssued(chain[Len(chain)]) => ~Acceptable)'
  BY DEF Reject, SelfIssued, Acceptable, Length, Places, Method, Intermediate, IsTarget,
         HangsOn, Above, IssuedBy, Leaf
<1> QED
  BY <1>1, <1>2 DEF Reject, IInv, PastTheList, WalkSoFar, WalkedWhole, TriedInVain,
                    AcceptedIffAcceptable

LEMMA CompleteInv == IInv /\ Complete => IInv'
<1> SUFFICES ASSUME IInv, Complete PROVE IInv'  OBVIOUS
<1>0. /\ TypeOK /\ chain \in Seq(Certificates) /\ Len(chain) \in Nat
      /\ pc = "completing" /\ anchor = 1
  BY DEF IInv, TypeOK, TriedInVain, Complete
<1>1. CASE Len(chain) \notin 2 .. 6
  <2>1. Acceptable => Length \in 2 .. Places  BY DEF Acceptable
  <2>2. ~Acceptable
    <3>1. Places \in 2 .. 4  BY <1>0, PlacesRange
    <3>2. \A n \in Nat, p \in 2 .. 4 : n \notin 2 .. 6 => n - 1 \notin 2 .. p  OBVIOUS
    <3>3. Length \notin 2 .. Places  BY <1>0, <1>1, <3>1, <3>2, Zenon DEF Length
    <3> QED  BY <2>1, <3>3
  <2> QED  BY <1>1, <2>2, RejectInv DEF Complete
<1>2. CASE Len(chain) \in 2 .. 6 /\ SelfIssued(chain[Len(chain)])
  <2>1. pc' = "listing" /\ UNCHANGED <<chain, anchor, at, step, parent>>
    BY <1>2 DEF Complete
  <2> QED
    BY <1>0, <2>1 DEF IInv, TypeOK, PastTheList, WalkSoFar, WalkedWhole, TriedInVain,
                      AcceptedIffAcceptable
<1>3. CASE /\ Len(chain) \in 2 .. 6 /\ ~SelfIssued(chain[Len(chain)])
           /\ \A a \in 1 .. Len(Anchors) : Candidates(chain[Len(chain)]) # {a}
  BY <1>3, RejectInv DEF Complete
<1>4. CASE /\ Len(chain) \in 2 .. 6 /\ ~SelfIssued(chain[Len(chain)])
           /\ \E a \in 1 .. Len(Anchors) : Candidates(chain[Len(chain)]) = {a}
  <2>1. PICK a \in Candidates(chain[Len(chain)]) : chain' = Append(chain, Anchors[a])
    BY <1>4 DEF Complete
  <2>2. a \in 1 .. Len(Anchors)  BY DEF Candidates
  <2>3. Anchors[a] \in Certificates  BY <2>2, AnchorsTyped
  <2>4. chain' \in Seq(Certificates) /\ Len(chain') = Len(chain) + 1  BY <1>0, <2>1, <2>3
  <2>5. pc' = "listing" /\ UNCHANGED <<anchor, at, step, parent>>  BY <1>4 DEF Complete
  <2>6. TypeOK'
    <3>1. at' \in 0 .. Len(chain')  BY <1>0, <2>4, <2>5 DEF TypeOK
    <3> QED  BY <1>0, <2>4, <2>5, <3>1 DEF TypeOK
  <2> QED
    BY <1>0, <2>5, <2>6 DEF IInv, PastTheList, WalkSoFar, WalkedWhole, TriedInVain,
                      AcceptedIffAcceptable
<1> QED  BY <1>1, <1>2, <1>3, <1>4

LEMMA CheckListedInv == IInv /\ CheckListed => IInv'
<1> SUFFICES ASSUME IInv, CheckListed PROVE IInv'  OBVIOUS
<1>0. TypeOK /\ Len(chain) \in Nat  BY DEF IInv, TypeOK
<1>1. CASE (\E i \in 1 .. Len(chain) : chain[i].listed) \/ Len(chain) < 3
  <2>1. ~Acceptable  BY <1>0, <1>1 DEF Acceptable, Length
  <2> QED  BY <1>1, <2>1, RejectInv DEF CheckListed
<1>2. CASE ~((\E i \in 1 .. Len(chain) : chain[i].listed) \/ Len(chain) < 3)
  <2>1. pc' = "selecting" /\ UNCHANGED <<chain, anchor, at, step, parent>>
    BY <1>2 DEF CheckListed
  <2>2. TypeOK'  BY <1>0, <2>1 DEF TypeOK
  <2>3. PastTheList'  BY <1>0, <1>2, <2>1 DEF PastTheList
  <2>4. (anchor - 1)' = 0 /\ TriedInVain'
    BY <2>1 DEF IInv, TriedInVain, CheckListed
  <2> QED
    BY <2>1, <2>2, <2>3, <2>4 DEF IInv, WalkSoFar, WalkedWhole, AcceptedIffAcceptable
<1> QED  BY <1>1, <1>2

\* The definitions about a chain mean the same of the same chain.
LEMMA SameChain ==
    ASSUME UNCHANGED chain
    PROVE  /\ Length' = Length /\ Places' = Places /\ Leaf' = Leaf
           /\ Intermediate' = Intermediate
           /\ \A a, i : (Holds(a, i))' <=> Holds(a, i)
           /\ \A a, i : (Above(a, i))' = Above(a, i)
           /\ \A n : (StepAt(n))' = StepAt(n)
           /\ Acceptable' <=> Acceptable
BY DEF Length, Places, Leaf, Holds, Above, StepAt, FirstStep, Acceptable, Method, Intermediate,
       IsTarget, HangsOn, IssuedBy, TimeValid

\* An anchor with another name than the top of the path was given cannot hold it.
LEMMA OtherName ==
    ASSUME NEW a \in 1 .. Len(Anchors), Len(chain) \in Nat, Len(chain) >= 3,
           Anchors[a].subject # Intermediate.issuer
    PROVE  \E i \in 1 .. Length : ~Holds(a, i)
<1>1. Length \in 1 .. Length  BY DEF Length
<1>2. Above(a, Length) = Anchors[a] /\ chain[Length] = Intermediate
  BY DEF Above, Intermediate, Length
<1>3. ~Holds(a, Length)  BY <1>2 DEF Holds, IssuedBy
<1> QED  BY <1>1, <1>3

LEMMA SelectAnchorInv == IInv /\ SelectAnchor => IInv'
<1> SUFFICES ASSUME IInv, SelectAnchor PROVE IInv'  OBVIOUS
<1>0. /\ TypeOK /\ chain \in Seq(Certificates) /\ Len(chain) \in Nat /\ Len(chain) >= 3
      /\ \A i \in 1 .. Len(chain) : ~chain[i].listed
      /\ anchor \in 1 .. (Len(Anchors) + 1) /\ Len(Anchors) \in Nat
      /\ \A a \in 1 .. (anchor - 1) : \E i \in 1 .. Length : ~Holds(a, i)
      /\ Length \in Nat /\ Length >= 2 /\ Length = Len(chain) - 1
  BY AnchorsTyped DEF IInv, TypeOK, PastTheList, TriedInVain, SelectAnchor, Length
<1>1. CASE anchor > Len(Anchors)
  <2>1. anchor - 1 = Len(Anchors)  BY <1>0, <1>1
  <2>2. ~\E a \in 1 .. Len(Anchors) : \A i \in 1 .. Length : Holds(a, i)  BY <1>0, <2>1
  <2>3. ~Acceptable  BY <1>0, <2>2, AcceptableIff
  <2> QED  BY <1>1, <2>3, RejectInv DEF SelectAnchor
<1>2. CASE anchor <= Len(Anchors) /\ Anchors[anchor].subject = Intermediate.issuer
  <2>1. /\ anchor' = anchor + 1 /\ parent' = Anchors[anchor] /\ at' = Len(chain) - 1
        /\ step' = "none" /\ pc' = "walking" /\ UNCHANGED chain
    BY <1>0, <1>2 DEF SelectAnchor
  <2>2. Anchors[anchor] \in Certificates  BY <1>0, <1>2, AnchorsTyped
  <2>3. TypeOK'  BY <1>0, <1>2, <2>1, <2>2 DEF TypeOK
  <2>4. PastTheList'  BY <1>0, <2>1 DEF PastTheList
  <2>5. WalkSoFar'
    <3>1. at' = Length' /\ anchor' - 1 = anchor /\ Length' \in Nat /\ Length' >= 2
      BY <1>0, <2>1, SameChain
    <3>2. (Above(anchor - 1, at))' = Anchors[anchor]  BY <3>1 DEF Above
    <3>3. Length' - at' = 0
      <4>1. \A n \in Nat : n - n = 0  OBVIOUS
      <4> QED  BY <3>1, <4>1, Zenon
    <3>6. (StepAt(Length - at))' = "none"  BY <3>3 DEF StepAt
    <3>4. Places' \in 2 .. 4  BY <1>0, <2>1, PlacesRange, SameChain
    <3>5. (at + 1)' = Length' + 1  BY <3>1
    <3> QED  BY <1>0, <2>1, <3>1, <3>2, <3>3, <3>4, <3>5, <3>6 DEF WalkSoFar
  <2>6. TriedInVain'
    <3>1. anchor' - 2 = anchor - 1  BY <1>0, <2>1
    <3> QED  BY <1>0, <2>1, <3>1, SameChain DEF TriedInVain
  <2> QED  BY <2>1, <2>3, <2>4, <2>5, <2>6 DEF IInv, WalkedWhole, AcceptedIffAcceptable
<1>3. CASE anchor <= Len(Anchors) /\ Anchors[anchor].subject # Intermediate.issuer
  <2>1. anchor' = anchor + 1 /\ pc = "selecting" /\ UNCHANGED <<chain, pc, at, step, parent>>
    BY <1>0, <1>3 DEF SelectAnchor
  <2>2. TypeOK'  BY <1>0, <1>3, <2>1 DEF TypeOK
  <2>3. \E i \in 1 .. Length : ~Holds(anchor, i)  BY <1>0, <1>3, OtherName
  <2>4. ASSUME NEW a \in 1 .. anchor PROVE \E i \in 1 .. Length : ~Holds(a, i)
    BY <1>0, <2>3
  <2>5. TriedInVain'
    <3>1. anchor' - 1 = anchor  BY <1>0, <2>1
    <3> QED  BY <2>1, <2>4, <3>1, SameChain DEF TriedInVain
  <2>6. PastTheList'  BY <1>0, <2>1 DEF PastTheList
  <2> QED  BY <2>1, <2>2, <2>5, <2>6 DEF IInv, WalkSoFar, WalkedWhole, AcceptedIffAcceptable
<1> QED  BY <1>0, <1>1, <1>2, <1>3

LEMMA VisitInv == IInv /\ Visit => IInv'
<1> SUFFICES ASSUME IInv, Visit PROVE IInv'  OBVIOUS
<1> DEFINE a == anchor - 1
<1>0. /\ TypeOK /\ chain \in Seq(Certificates) /\ Len(chain) \in Nat /\ Len(chain) >= 3
      /\ \A i \in 1 .. Len(chain) : ~chain[i].listed
      /\ anchor \in 2 .. (Len(Anchors) + 1) /\ Len(Anchors) \in Nat
      /\ Length \in Nat /\ Length >= 2 /\ Length = Len(chain) - 1
      /\ at \in 1 .. Length /\ parent = Above(a, at) /\ Length - at <= Places
      /\ step = StepAt(Length - at) /\ \A i \in (at + 1) .. Length : Holds(a, i)
      /\ \A b \in 1 .. (anchor - 2) : \E i \in 1 .. Length : ~Holds(b, i)
  BY AnchorsTyped DEF IInv, TypeOK, PastTheList, TriedInVain, WalkSoFar, Visit, Length
<1>1. Passes(chain[at], StepAfter(step), at - 1) <=> Holds(a, at)
  BY <1>0, PassesIffHolds
<1>2. CASE ~Holds(a, at)
  <2>1. pc' = "selecting" /\ UNCHANGED <<chain, anchor, at, step, parent>>
    BY <1>1, <1>2 DEF Visit
  <2>2. TypeOK'  BY <1>0, <2>1 DEF TypeOK
  <2>3. ASSUME NEW b \in 1 .. (anchor - 1) PROVE \E i \in 1 .. Length : ~Holds(b, i)
    BY <1>0, <1>2
  <2>4. TriedInVain'  BY <2>1, <2>3, SameChain DEF TriedInVain
  <2>5. PastTheList'  BY <1>0, <2>1 DEF PastTheList
  <2> QED  BY <2>1, <2>2, <2>4, <2>5 DEF IInv, WalkSoFar, WalkedWhole, AcceptedIffAcceptable
<1>3. CASE Holds(a, at)
  <2>1. /\ at' = at - 1 /\ step' = StepAfter(step) /\ parent' = chain[at]
        /\ pc' = (IF at = 1 THEN "describing" ELSE "walking") /\ UNCHANGED <<chain, anchor>>
    BY <1>1, <1>3 DEF Visit
  <2>2. ASSUME NEW i \in at .. Length PROVE Holds(a, i)
    <3>1. i = at \/ i \in (at + 1) .. Length  BY <1>0
    <3> QED  BY <1>0, <1>3, <3>1
  <2>3. Length - at + 1 <= Places  BY <1>3 DEF Holds
  <2>4. Length - at \in 0 .. Places /\ Length - at # Places /\ Places \in 2 .. 4
    BY <1>0, <2>3, PlacesRange
  <2>5. step' = StepAt(Length - at + 1)  BY <1>0, <2>1, <2>4, StepCount
  <2>6. Length - at + 1 \in 0 .. Places  BY <2>4
  <2>7. TypeOK'
    <3>1. step' \in {"none", "factory_intermediate", "rkp_intermediate", "rkp_server",
                     "attestation", "target"}
      BY <1>0, <2>5, <2>6, StepCount
    <3>2. chain[at] \in Certificates  BY <1>0
    <3>3. at' \in 0 .. Len(chain')  BY <1>0, <2>1
    <3> QED  BY <1>0, <2>1, <3>1, <3>2, <3>3 DEF TypeOK
  <2>8. PastTheList'  BY <1>0, <2>1 DEF PastTheList
  <2>9. CASE at = 1
    <3>1. \A i \in 1 .. Length : Holds(a, i)  BY <2>2, <2>9
    <3>2. WalkedWhole'  BY <1>0, <2>1, <2>9, <3>1, SameChain DEF WalkedWhole, Leaf
    <3> QED
      BY <2>1, <2>7, <2>8, <2>9, <3>2 DEF IInv, WalkSoFar, TriedInVain, AcceptedIffAcceptable
  <2>10. CASE at # 1
    <3>1. at' \in 1 .. Length /\ Length - at' = Length - at + 1 /\ at' + 1 = at
      BY <1>0, <2>1, <2>10
    <3>2. parent' = Above(a, at')  BY <1>0, <2>1, <3>1 DEF Above
    <3>3. WalkSoFar'
      BY <1>0, <2>1, <2>2, <2>3, <2>5, <3>1, <3>2, SameChain DEF WalkSoFar
    <3>4. TriedInVain'  BY <1>0, <2>1, <2>10, SameChain DEF TriedInVain
    <3> QED
      BY <2>1, <2>7, <2>8, <2>10, <3>3, <3>4 DEF IInv, WalkedWhole, AcceptedIffAcceptable
  <2> QED  BY <2>9, <2>10
<1> QED  BY <1>2, <1>3

LEMMA FindDescriptionInv == IInv /\ FindDescription => IInv'
<1> SUFFICES ASSUME IInv, FindDescription PROVE IInv'  OBVIOUS
<1>0. /\ TypeOK /\ chain \in Seq(Certificates) /\ Len(chain) >= 3
      /\ \A i \in 1 .. Len(chain) : ~chain[i].listed
      /\ anchor - 1 \in 1 .. Len(Anchors) /\ anchor > 1 /\ parent = Leaf
      /\ \A i \in 1 .. Length : Holds(anchor - 1, i)
  BY AnchorsTyped DEF IInv, TypeOK, PastTheList, WalkedWhole, FindDescription
<1>1. UNCHANGED <<chain, anchor, at, step, parent>>  BY DEF FindDescription
<1>2. Acceptable <=> Leaf.extension # "none"  BY <1>0, AcceptableIff
<1>3. CASE Leaf.extension = "none"
  <2>1. Reject  BY <1>1, <1>3 DEF FindDescription, Reject
  <2> QED  BY <1>2, <1>3, <2>1, RejectInv
<1>4. CASE Leaf.extension # "none"
  <2>1. pc' = "described"  BY <1>4 DEF FindDescription
  <2>2. AcceptedIffAcceptable'  BY <1>1, <1>2, <1>4, <2>1, SameChain DEF AcceptedIffAcceptable
  <2>3. WalkedWhole'  BY <1>0, <1>1, SameChain DEF WalkedWhole, Leaf
  <2>4. TypeOK'  BY <1>0, <1>1, <2>1 DEF TypeOK
  <2>5. PastTheList'  BY <1>0, <1>1 DEF PastTheList
  <2> QED  BY <2>1, <2>2, <2>3, <2>4, <2>5 DEF IInv, WalkSoFar, TriedInVain
<1> QED  BY <1>3, <1>4

LEMMA StutterInv == IInv /\ UNCHANGED vars => IInv'
<1> SUFFICES ASSUME IInv, UNCHANGED vars PROVE IInv'  OBVIOUS
<1>1. UNCHANGED <<chain, pc, anchor, at, step, parent>>  BY DEF vars
<1> QED
  BY <1>1, SameChain DEF IInv, TypeOK, PastTheList, WalkSoFar, WalkedWhole, TriedInVain,
                         AcceptedIffAcceptable, SelfIssued

THEOREM Inductive == Spec => []IInv
<1>1. IInv /\ [Next]_vars => IInv'
  BY CompleteInv, CheckListedInv, SelectAnchorInv, VisitInv, FindDescriptionInv, StutterInv
     DEF Next
<1> QED  BY InitInv, <1>1, PTL DEF Spec

\* A walk is always at a certificate of the chain and at one of the steps; in
\* particular it never goes on beyond the target (path.ts:96-105).
THEOREM TypeCorrect == Spec => []TypeOK
<1>1. IInv => TypeOK  BY DEF IInv
<1> QED  BY Inductive, <1>1, PTL

\* The walk with its retries accepts what the declarative reading accepts, and, of the
\* chains that end in a root, rejects nothing else (verifier.ts:131-161, path.ts:88-189).
THEOREM AcceptsTheAcceptable == Spec => []AcceptedIffAcceptable
<1>1. IInv => AcceptedIffAcceptable  BY DEF IInv
<1> QED  BY Inductive, <1>1, PTL

\* Whatever the walk has passed is vouched for by one anchor (path.ts:89-122).
THEOREM AlwaysVouchedFor == Spec => []VouchedFor
<1>1. ASSUME IInv PROVE VouchedFor
  <2>1. SUFFICES ASSUME pc = "walking"
                 PROVE  \E a \in 1 .. Len(Anchors) :
                            /\ parent = Above(a, at)
                            /\ \A i \in (at + 1) .. Length : IssuedBy(chain[i], Above(a, i))
    BY DEF VouchedFor
  <2>2. anchor - 1 \in 1 .. Len(Anchors)
    BY AnchorsTyped, <1>1, <2>1 DEF IInv, TypeOK, WalkSoFar
  <2>3. parent = Above(anchor - 1, at) /\ \A i \in (at + 1) .. Length : Holds(anchor - 1, i)
    BY <1>1, <2>1 DEF IInv, WalkSoFar
  <2> QED  BY <2>2, <2>3 DEF Holds
<1> QED  BY Inductive, <1>1, PTL

=============================================================================
