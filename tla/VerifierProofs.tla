--------------------------- MODULE VerifierProofs ---------------------------
(***************************************************************************)
(* Proofs about Verifier, for any submissions, anchors and configuration.   *)
(* A call of verify contains one walk of ChainVerifier and leaves it alone  *)
(* before and after (WalksTheChain), so that what ChainVerifierProofs shows *)
(* of the walk holds of the call; the rest follows the order of the checks  *)
(* after the walk.                                                          *)
(***************************************************************************)
EXTENDS DescriptionProofs

Walks == INSTANCE ChainVerifierProofs

\* The two instances of ChainVerifier define the same operators.
LEMMA SameNames ==
    /\ Chain!Leaf = Walks!Leaf
    /\ Chain!Intermediate = Walks!Intermediate
    /\ Chain!Method = Walks!Method
    /\ Chain!FirstStep = Walks!FirstStep
    /\ \A s : Chain!StepAfter(s) = Walks!StepAfter(s)
<1>1. Chain!Leaf = Walks!Leaf  BY DEF Chain!Leaf, Walks!Leaf
<1>2. Chain!Intermediate = Walks!Intermediate
  BY DEF Chain!Intermediate, Walks!Intermediate
<1>3. Chain!Method = Walks!Method  BY <1>2, Zenon DEF Chain!Method, Walks!Method
<1>4. Chain!FirstStep = Walks!FirstStep  BY <1>3 DEF Chain!FirstStep, Walks!FirstStep
<1>5. \A s : Chain!StepAfter(s) = Walks!StepAfter(s)
  BY <1>4, Zenon DEF Chain!StepAfter, Walks!StepAfter
<1> QED  BY <1>1, <1>2, <1>3, <1>4, <1>5

LEMMA SameTests ==
    /\ \A c : Chain!SelfIssued(c) = Walks!SelfIssued(c)
    /\ \A c : Chain!Candidates(c) = Walks!Candidates(c)
    /\ \A c, s, n : Chain!Passes(c, s, n) = Walks!Passes(c, s, n)
<1>1. \A c : Chain!SelfIssued(c) = Walks!SelfIssued(c)
  BY Zenon DEF Chain!SelfIssued, Walks!SelfIssued
<1>2. \A c, p : Chain!IssuedBy(c, p) = Walks!IssuedBy(c, p)
  BY Zenon DEF Chain!IssuedBy, Walks!IssuedBy
<1>3. \A c : Chain!Candidates(c) = Walks!Candidates(c)
  BY Zenon DEF Chain!Candidates, Walks!Candidates, Chain!IssuedBy, Walks!IssuedBy
<1>4. \A c, n : Chain!TimeValid(c, n) = Walks!TimeValid(c, n)
  BY SameNames, Zenon DEF Chain!TimeValid, Walks!TimeValid
<1>5. \A c, s, n : Chain!Passes(c, s, n) = Walks!Passes(c, s, n)
  BY <1>2, <1>4, Zenon DEF Chain!Passes, Walks!Passes
<1> QED  BY <1>1, <1>3, <1>5

LEMMA SameSteps == Chain!Next => Walks!Next
<1>1. Chain!Reject => Walks!Reject  BY DEF Chain!Reject, Walks!Reject
<1>2. Chain!Complete => Walks!Complete
  BY <1>1, SameTests, Zenon DEF Chain!Complete, Walks!Complete, Chain!Reject, Walks!Reject
<1>3. Chain!CheckListed => Walks!CheckListed
  BY <1>1, Zenon DEF Chain!CheckListed, Walks!CheckListed, Chain!Reject, Walks!Reject
<1>4. Chain!SelectAnchor => Walks!SelectAnchor
  BY <1>1, SameNames, Zenon DEF Chain!SelectAnchor, Walks!SelectAnchor, Chain!Reject, Walks!Reject
<1>5. Chain!Visit => Walks!Visit
  BY SameNames, SameTests, Zenon DEF Chain!Visit, Walks!Visit
<1>6. Chain!FindDescription => Walks!FindDescription
  BY SameNames, Zenon DEF Chain!FindDescription, Walks!FindDescription
<1> QED
  BY <1>2, <1>3, <1>4, <1>5, <1>6, Zenon DEF Chain!Next, Walks!Next

\* verify walks the chain as ChainVerifier does: nothing before or after the walk
\* touches it (verifier.ts:130-161).
THEOREM WalksTheChain == Spec => Walks!Spec
<1>1. Init => Walks!Init
  BY DEF Init, Chain!Init, Walks!Init
<1>2. [Next]_vars => [Walks!Next]_(Walks!vars)
  <2>1. WalkChain => Walks!Next  BY SameSteps DEF WalkChain
  <2> QED
    BY <2>1 DEF Next, vars, walk, RefuseUnreadable, CheckDescription, CheckPossession,
                ApplyPolicy, Walks!vars
<1> QED  BY <1>1, <1>2, PTL DEF Spec, Walks!Spec

\* What the proofs need of the walk.
WalkInv ==
    /\ Chain!TypeOK
    /\ pc \in {"describing", "described"} => parent = Chain!Leaf
    /\ pc = "described" => Chain!Acceptable

LEMMA SameAcceptable == Chain!TypeOK = Walks!TypeOK /\ Chain!Acceptable = Walks!Acceptable
<1>1. Chain!TypeOK = Walks!TypeOK
  BY Zenon DEF Chain!TypeOK, Walks!TypeOK, Chain!Certificates, Walks!Certificates
<1>2. Chain!Length = Walks!Length  BY DEF Chain!Length, Walks!Length
<1>3. Chain!Places = Walks!Places
  BY <1>2, SameNames, Zenon DEF Chain!Places, Walks!Places
<1>4. \A i : Chain!IsTarget(i) = Walks!IsTarget(i)
  BY <1>2, <1>3, Zenon DEF Chain!IsTarget, Walks!IsTarget
<1>5. \A a, i : Chain!Above(a, i) = Walks!Above(a, i)
  BY <1>2, Zenon DEF Chain!Above, Walks!Above
<1>6. \A a : Chain!HangsOn(a) = Walks!HangsOn(a)
  BY <1>2, <1>5, Zenon DEF Chain!HangsOn, Walks!HangsOn, Chain!IssuedBy, Walks!IssuedBy
<1>7. Chain!Acceptable = Walks!Acceptable
  BY <1>2, <1>3, <1>4, <1>6, SameNames, Zenon DEF Chain!Acceptable, Walks!Acceptable
<1> QED  BY <1>1, <1>7

LEMMA WalkInvariant == Spec => []WalkInv
<1>1. Walks!IInv => WalkInv
  BY SameAcceptable, SameNames
     DEF WalkInv, Walks!IInv, Walks!WalkedWhole, Walks!AcceptedIffAcceptable
<1>2. Walks!ChainVerifierAssumption
  BY WalkAssumption, Zenon DEF Chain!ChainVerifierAssumption, Walks!ChainVerifierAssumption,
                       Chain!Certificates, Walks!Certificates
<1>3. Walks!Spec => []Walks!IInv  BY <1>2, Walks!Inductive
<1> QED  BY WalksTheChain, <1>1, <1>3, PTL

\* What a step after the walk leaves as it is.
LEMMA Frame ==
    ASSUME UNCHANGED <<walk, submission>>
    PROVE  /\ CheckVerdict' = CheckVerdict
           /\ HoldsLeafKey' <=> HoldsLeafKey
           /\ PatchesCurrent(Parsed.is.hardwareEnforced)' <=>
                 PatchesCurrent(Parsed.is.hardwareEnforced)
           /\ Chain!Method' = Chain!Method
<1>1. chain' = chain /\ submission' = submission
  BY DEF walk
<1>2. Parsed' = Parsed
  BY <1>1, Zenon DEF Parsed, Description
<1>3. Chain!Intermediate' = Chain!Intermediate /\ Chain!Leaf' = Chain!Leaf
  BY <1>1 DEF Chain!Intermediate, Chain!Leaf
<1>4. Chain!Method' = Chain!Method
  BY <1>3, Zenon DEF Chain!Method
<1>5. PathSecurityLevel' = PathSecurityLevel
  BY <1>1, <1>3, <1>4, Zenon DEF PathSecurityLevel
<1>6. CheckVerdict' = CheckVerdict
  <2>1. Constraints(Parsed.is)' = Constraints(Parsed.is)
    BY <1>2, <1>5, Zenon DEF Constraints, MatchesCertificate
  <2>2. ConstraintVerdict(Parsed.is)' = ConstraintVerdict(Parsed.is)
    BY <2>1, Zenon DEF ConstraintVerdict
  <2> QED BY <1>2, <2>2, Zenon DEF CheckVerdict
<1>7. HoldsLeafKey' <=> HoldsLeafKey
  BY <1>1, <1>3 DEF HoldsLeafKey
<1>8. PatchesCurrent(Parsed.is.hardwareEnforced)' <=> PatchesCurrent(Parsed.is.hardwareEnforced)
  BY <1>1, <1>2, Zenon DEF PatchesCurrent
<1> QED BY <1>4, <1>6, <1>7, <1>8

LEMMA InitInv == Init /\ WalkInv => IInv
  BY DEF Init, WalkInv, IInv, TypeOK, AcceptedIsEarned, VerdictIsFounded, Chain!Init, PolicyCodes

\* A listed certificate is refused by the walk: the second look finds none.
LEMMA NothingListed == Chain!TypeOK /\ Chain!Acceptable => ~Listed
<1> SUFFICES ASSUME Chain!TypeOK, Chain!Acceptable PROVE ~Listed  OBVIOUS
<1>1. DOMAIN chain = 1 .. Len(chain)
  BY DEF Chain!TypeOK
<1>2. \A i \in 1 .. Len(chain) : ~chain[i].listed
  BY Zenon DEF Chain!Acceptable
<1> QED BY <1>1, <1>2, Zenon DEF Listed

LEMMA FoundedStep == IInv /\ WalkInv /\ [Next]_vars => VerdictIsFounded'
<1> SUFFICES ASSUME IInv, WalkInv, [Next]_vars PROVE VerdictIsFounded'  OBVIOUS
<1> DEFINE patched == PatchesCurrent(Parsed.is.hardwareEnforced)
           Founded == \/ verdict \in ReferenceCodes /\ verdict = CheckVerdict
                      \/ /\ CheckVerdict = "constrained"
                         /\ verdict = "attestation_invalid" => ~HoldsLeafKey
                         /\ verdict \notin ReferenceCodes \ {"attestation_invalid"}
                         /\ verdict = "accepted" => patched
                         /\ verdict = "security_patch_outdated" => ~patched
<1>1. VerdictIsFounded <=> (pc = "described" /\ verdict # "pending" => Founded)
  BY Zenon DEF VerdictIsFounded
<1>2. VerdictIsFounded' <=> ((pc = "described" /\ verdict # "pending")' => Founded')
  BY Zenon DEF VerdictIsFounded
<1>3. submission \in Submissions
  BY DEF IInv
<1>4. CASE RefuseUnreadable
  BY <1>2, <1>4 DEF RefuseUnreadable, walk
<1>5. CASE WalkChain
  <2>1. pc' = "described" => verdict' = "pending"
    BY <1>5 DEF WalkChain
  <2> QED BY <1>2, <2>1
<1> DEFINE still == UNCHANGED <<walk, submission>>
<1>6. still => /\ CheckVerdict' = CheckVerdict /\ pc' = pc
               /\ HoldsLeafKey' <=> HoldsLeafKey
               /\ patched' <=> patched
  <2>1. still => pc' = pc
    BY DEF walk
  <2> QED BY <2>1, Frame
<1>7. CheckVerdict \in {"constrained"} \cup ReferenceCodes
  BY <1>3, CheckVerdictIs
<1> HIDE DEF patched
<1>8. CASE CheckDescription
  <2>1. still /\ verdict' = CheckVerdict
    BY <1>8, Zenon DEF CheckDescription
  <2> HIDE DEF still
  <2> QED BY <1>2, <1>6, <1>7, <2>1 DEF ReferenceCodes
<1>9. CASE CheckPossession
  <2>1. still /\ verdict = "constrained" /\ pc = "described" /\ parent = Chain!Leaf
    <3>1. still /\ verdict = "constrained"
      BY <1>9, Zenon DEF CheckPossession
    <3>2. pc = "described"
      BY <3>1 DEF IInv, TypeOK
    <3> QED BY <3>1, <3>2 DEF WalkInv
  <2>2. Founded
    BY <1>1, <2>1 DEF IInv
  <2>3. CheckVerdict = "constrained"
    BY <2>1, <2>2 DEF ReferenceCodes
  <2>4. \/ verdict' = "possessed"
        \/ verdict' = "attestation_invalid" /\ ~HoldsLeafKey
    BY <1>9, <2>1, Zenon DEF CheckPossession, HoldsLeafKey
  <2> HIDE DEF still
  <2> QED BY <1>2, <1>6, <2>1, <2>3, <2>4 DEF ReferenceCodes
<1>10. CASE ApplyPolicy
  <2>1. still /\ verdict = "possessed"
    BY <1>10, Zenon DEF ApplyPolicy
  <2>2. pc = "described"
    BY <2>1 DEF IInv, TypeOK
  <2>3. Founded
    BY <1>1, <2>1, <2>2 DEF IInv
  <2>4. CheckVerdict = "constrained"
    BY <2>1, <2>3 DEF ReferenceCodes
  <2>5. ~Listed
    BY <2>2, NothingListed DEF WalkInv
  <2>6. \/ verdict' = "no_remote_provisioning"
        \/ verdict' = "security_patch_outdated" /\ ~patched
        \/ verdict' = "accepted" /\ patched
    BY <1>10, <2>5, Zenon DEF ApplyPolicy, patched
  <2> HIDE DEF still
  <2> QED BY <1>2, <1>6, <2>1, <2>4, <2>6 DEF ReferenceCodes
<1>11. CASE UNCHANGED vars
  <2>1. still /\ verdict' = verdict
    BY <1>11 DEF vars, walk
  <2>2. pc = "described" /\ verdict # "pending" => Founded
    BY <1>1 DEF IInv
  <2> HIDE DEF still
  <2> QED BY <1>2, <1>6, <2>1, <2>2
<1> QED BY <1>4, <1>5, <1>8, <1>9, <1>10, <1>11 DEF Next

LEMMA StepInv == IInv /\ WalkInv /\ WalkInv' /\ [Next]_vars => IInv'
<1> SUFFICES ASSUME IInv, WalkInv, WalkInv', [Next]_vars PROVE IInv'  OBVIOUS
<1>0. Chain!TypeOK /\ Chain!TypeOK'  BY DEF WalkInv
<1>f. VerdictIsFounded'  BY FoundedStep
<1>s. submission' \in Submissions
  BY DEF IInv, Next, vars, RefuseUnreadable, WalkChain, CheckDescription, CheckPossession, ApplyPolicy
<1>1. CASE RefuseUnreadable
  BY <1>0, <1>f, <1>s, <1>1 DEF RefuseUnreadable, IInv, TypeOK, AcceptedIsEarned, Codes, PolicyCodes,
                    ReferenceCodes, walk
<1>2. CASE WalkChain
  <2>1. verdict = "pending" /\ submission' = submission
        /\ verdict' \in {"pending", "attestation_invalid"}
    BY <1>2 DEF WalkChain
  <2>2. TypeOK' /\ AcceptedIsEarned'
    BY <1>0, <2>1 DEF TypeOK, AcceptedIsEarned, Codes, PolicyCodes, ReferenceCodes
  <2>3. pc # "rejected"
    BY <1>2 DEF WalkChain, Chain!Next, Chain!Complete, Chain!CheckListed,
                Chain!SelectAnchor, Chain!Visit, Chain!FindDescription
  <2>4. submission.readable  BY <1>2, <2>3 DEF IInv, WalkChain
  <2> QED  BY <1>f, <1>s, <2>1, <2>2, <2>4 DEF IInv
<1>3. CASE CheckDescription
  <2>1. UNCHANGED <<walk, submission>> /\ verdict = "pending" /\ pc = "described"
        /\ verdict' \in {"constrained"} \cup ReferenceCodes
    <3>1. submission \in Submissions  BY DEF IInv
    <3> QED  BY <1>3, <3>1, CheckVerdictIs, Zenon DEF CheckDescription, ReferenceCodes
  <2> QED
    BY <1>0, <1>f, <1>s, <2>1 DEF IInv, TypeOK, AcceptedIsEarned, Codes, PolicyCodes, ReferenceCodes, walk
<1>4. CASE CheckPossession
  <2>1. UNCHANGED <<walk, submission>> /\ verdict = "constrained"
        /\ verdict' \in {"possessed", "attestation_invalid"}
    BY <1>4 DEF CheckPossession
  <2>2. pc = "described"  BY <2>1 DEF IInv, TypeOK
  <2>3. TypeOK'
    BY <1>0, <2>1, <2>2 DEF TypeOK, Codes, PolicyCodes, ReferenceCodes, walk
  <2>4. Chain!Acceptable' /\ parent = Chain!Leaf  BY <2>1, <2>2 DEF WalkInv, walk
  <2>5. verdict' = "possessed" => HoldsLeafKey
    BY <1>4, <2>4, Zenon DEF CheckPossession, HoldsLeafKey
  <2>6. HoldsLeafKey => HoldsLeafKey'
    BY <2>1 DEF HoldsLeafKey, Chain!Leaf, walk
  <2> QED
    BY <1>f, <1>s, <2>1, <2>2, <2>3, <2>4, <2>5, <2>6 DEF IInv, AcceptedIsEarned, PolicyCodes, walk
<1>5. CASE ApplyPolicy
  <2>1. UNCHANGED <<walk, submission>> /\ verdict = "possessed"
        /\ verdict' \in PolicyCodes \cup {"accepted", "attestation_invalid"}
        /\ (verdict' = "accepted" => Chain!Method = "remote")
    BY <1>5 DEF ApplyPolicy, PolicyCodes
  <2>2. pc = "described" /\ submission.readable /\ HoldsLeafKey
    BY <2>1 DEF IInv, TypeOK, AcceptedIsEarned, Codes, PolicyCodes, ReferenceCodes
  <2>3. TypeOK'
    BY <1>0, <2>1, <2>2 DEF TypeOK, Codes, ReferenceCodes, walk
  <2>4. Chain!Acceptable'  BY <2>1, <2>2 DEF WalkInv, walk
  <2>5. HoldsLeafKey' /\ Chain!Method' = Chain!Method
    BY <2>1, <2>2 DEF HoldsLeafKey, Chain!Leaf, Chain!Method, Chain!Intermediate, walk
  <2> QED
    BY <1>f, <1>s, <2>1, <2>2, <2>3, <2>4, <2>5 DEF IInv, AcceptedIsEarned, walk
<1>6. CASE UNCHANGED vars
  <2>1. UNCHANGED <<walk, submission, verdict>>  BY <1>6 DEF vars, walk
  <2>2. HoldsLeafKey' = HoldsLeafKey /\ Chain!Method' = Chain!Method
    BY <2>1 DEF HoldsLeafKey, Chain!Leaf, Chain!Method, Chain!Intermediate, walk
  <2>3. Chain!Acceptable' = Chain!Acceptable
    BY <2>1 DEF walk, Chain!Acceptable, Chain!Length, Chain!Places, Chain!Method,
                Chain!Intermediate, Chain!IsTarget, Chain!HangsOn, Chain!IssuedBy,
                Chain!Above, Chain!Leaf
  <2> QED  BY <1>0, <1>f, <1>s, <2>1, <2>2, <2>3 DEF IInv, TypeOK, AcceptedIsEarned, walk
<1> QED  BY <1>1, <1>2, <1>3, <1>4, <1>5, <1>6 DEF Next

THEOREM Inductive == Spec => []IInv
  BY WalkInvariant, InitInv, StepInv, PTL DEF Spec

\* The checks after the walk run only on a chain that the walk has accepted: a verdict
\* other than attestation_invalid is never there earlier (verifier.ts:155-189).
THEOREM TypeCorrect == Spec => []TypeOK
<1>1. IInv => TypeOK  BY DEF IInv
<1> QED  BY Inductive, <1>1, PTL

\* An acceptance, and every code of the policy, rests on an acceptable chain and on a
\* proof made with the key of its leaf, and an acceptance on remote provisioning
\* (verifier.ts:159-189).
THEOREM AcceptanceIsEarned == Spec => []AcceptedIsEarned
<1>1. IInv => AcceptedIsEarned  BY DEF IInv
<1> QED  BY Inductive, <1>1, PTL

-----------------------------------------------------------------------------
\* What a verdict after the walk rests on.
LEMMA Founded ==
    ASSUME IInv
    PROVE  /\ submission \in Submissions
           /\ verdict \in Codes \cup {"accepted"} /\ verdict # "attestation_invalid" =>
                 pc = "described" /\ verdict # "pending"
           /\ pc = "described" /\ verdict # "pending" =>
                 \/ verdict \in ReferenceCodes /\ verdict = CheckVerdict
                 \/ /\ CheckVerdict = "constrained"
                    /\ verdict = "attestation_invalid" => ~HoldsLeafKey
                    /\ verdict \notin ReferenceCodes \ {"attestation_invalid"}
                    /\ verdict = "accepted" => PatchesCurrent(Parsed.is.hardwareEnforced)
                    /\ verdict = "security_patch_outdated" =>
                          ~PatchesCurrent(Parsed.is.hardwareEnforced)
<1>1. submission \in Submissions
  BY DEF IInv
<1>2. verdict \in Codes \cup {"accepted"} /\ verdict # "attestation_invalid" =>
          pc = "described" /\ verdict # "pending"
  BY DEF IInv, TypeOK, Codes, PolicyCodes, ReferenceCodes
<1> QED BY <1>1, <1>2, Zenon DEF IInv, VerdictIsFounded

LEMMA TurnsInv == IInv => PolicyOnlyTurnsAcceptances
<1> SUFFICES ASSUME IInv PROVE PolicyOnlyTurnsAcceptances  OBVIOUS
<1>1. submission \in Submissions
  BY Founded
<1>2. ASSUME verdict \in PolicyCodes \cup {"accepted"}
      PROVE  submission.readable /\ Chain!Acceptable /\ Proven
  <2>1. pc = "described" /\ verdict # "pending" /\ verdict \notin ReferenceCodes
    BY <1>2, Founded DEF Codes, PolicyCodes, ReferenceCodes
  <2>2. CheckVerdict = "constrained"
    BY <2>1, Founded
  <2>3. submission.readable /\ Chain!Acceptable /\ HoldsLeafKey
    BY <1>2 DEF IInv, AcceptedIsEarned
  <2> QED BY <1>1, <2>2, <2>3, CheckVerdictIs DEF Proven
<1>3. ASSUME verdict \in ReferenceCodes, pc = "described", DescriptionIsSoundBut({}), Proven
      PROVE  FALSE
  <2>1. verdict # "pending"
    BY <1>3 DEF ReferenceCodes
  <2>2. ~Failed(Parsed)
    BY <1>1, <1>3, SoundIsParsed
  <2>3. CheckVerdict = "constrained" /\ HoldsLeafKey
    BY <1>1, <1>3, <2>2, CheckVerdictIs DEF Proven
  <2> QED BY <1>3, <2>1, <2>3, Founded DEF ReferenceCodes
<1>4. verdict = "accepted" => Chain!Method = "remote"
  BY DEF IInv, AcceptedIsEarned
<1> QED BY <1>2, <1>3, <1>4 DEF PolicyOnlyTurnsAcceptances

LEMMA NamesInv == IInv => CodeNamesFirstControl
<1> SUFFICES ASSUME IInv PROVE CodeNamesFirstControl  OBVIOUS
<1>1. submission \in Submissions
  BY Founded
<1>2. verdict \in {"no_hardware_attestation", "app_integrity", "device_integrity"} =>
          verdict = CheckVerdict
  BY Founded DEF Codes, ReferenceCodes
<1> QED BY <1>1, <1>2, CheckVerdictIs DEF CodeNamesFirstControl

LEMMA MalformedInv == IInv => MalformedIdIsNamed
<1> DEFINE app == "attestationApplicationId"
<1> SUFFICES ASSUME IInv, verdict # "pending", pc = "described",
                    DescriptionIsSoundBut({app}), Generated, RightChallenge, HardwareLevel,
                    LockedAndVerified
             PROVE  /\ (\A e \in Last(Software, app) : IsStructured(e)) =>
                          (verdict = "app_integrity" <=> ~RightApp)
                    /\ (\E e \in Last(Software, app) :
                           IsOctets(e) /\ (~e.good \/ Len(e.items) # 2)) =>
                          verdict = "attestation_invalid"
  BY Zenon DEF MalformedIdIsNamed
<1>1. submission \in Submissions
  BY Founded
<1>2. Len(Description.items) = 8 /\ Software.items \in Entries
  <2>1. Len(Description.items) = 8
    BY DEF DescriptionIsSoundBut, IsSequence
  <2> QED BY <1>1, <2>1, ListsOf
<1>3. \/ verdict \in ReferenceCodes /\ verdict = CheckVerdict
      \/ CheckVerdict = "constrained" /\ verdict # "app_integrity"
  BY Founded DEF ReferenceCodes
<1>4. ASSUME \A e \in Last(Software, app) : IsStructured(e)
      PROVE  verdict = "app_integrity" <=> ~RightApp
  <2>1. Attribute(Software, app) # Abandon
    <3>1. app \in KNOWN_TAGS \ {"ignored"}
      BY DEF KNOWN_TAGS
    <3>2. CASE Last(Software, app) = {}
      <4>1. Attribute(Software, app) = Null
        BY <1>2, <3>2, AttributeIs
      <4> QED BY <4>1, Outcomes
    <3>3. CASE Last(Software, app) # {}
      <4>1. PICK e \in Last(Software, app) : TRUE
        BY <3>3
      <4>2. e \in Elements /\ Attribute(Software, app) = ToAttestationApplicationId(e)
        BY <1>2, <3>1, AttributeHolds, ConvertIs
      <4> QED BY <1>4, <4>2, ApplicationIdIs
    <3> QED BY <3>2, <3>3
  <2>2. ~Failed(Parsed)
    BY <1>1, <2>1, SoundIsParsed
  <2>3. HasRootOfTrust
    BY Zenon DEF LockedAndVerified, HasRootOfTrust
  <2>4. CheckVerdict = "app_integrity" <=> ~RightApp
    BY <1>1, <2>2, <2>3, CheckVerdictIs
  <2> QED BY <1>3, <2>4
<1>5. ASSUME NEW e \in Last(Software, app), IsOctets(e), ~e.good \/ Len(e.items) # 2
      PROVE  verdict = "attestation_invalid"
  <2>1. Failed(Parsed)
    BY <1>1, <1>2, <1>5, BrokenIdFails
  <2>2. CheckVerdict = "attestation_invalid"
    BY <1>1, <2>1, CheckVerdictIs
  <2> QED BY <1>3, <2>2
<1> QED BY <1>4, <1>5

LEMMA PatchesInv == IInv => PatchesWithinTheYear
<1> SUFFICES ASSUME IInv PROVE PatchesWithinTheYear  OBVIOUS
<1> DEFINE recent == \A tag \in PatchTags : \E e \in Last(Hardware, tag) : IsRecent(e.num)
<1>1. submission \in Submissions
  BY Founded
<1>2. ASSUME verdict \in {"accepted", "security_patch_outdated"}
      PROVE  PatchesCurrent(Parsed.is.hardwareEnforced) <=> recent
  <2>1. CheckVerdict = "constrained"
    BY <1>2, Founded DEF Codes, PolicyCodes, ReferenceCodes
  <2>2. ~Failed(Parsed)
    BY <1>1, <2>1, CheckVerdictIs
  <2> QED BY <1>1, <2>2, PatchesAre
<1>3. /\ verdict = "accepted" => PatchesCurrent(Parsed.is.hardwareEnforced)
      /\ verdict = "security_patch_outdated" => ~PatchesCurrent(Parsed.is.hardwareEnforced)
  BY Founded DEF Codes, PolicyCodes, ReferenceCodes
<1> HIDE DEF recent
<1>4. (verdict = "accepted" => recent) /\ (verdict = "security_patch_outdated" => ~recent)
  BY <1>2, <1>3
<1> QED BY <1>4, Zenon DEF PatchesWithinTheYear, recent

\* The policy only turns an acceptance of the reference verifier into one of its own codes,
\* and no order of the checks refuses a sound submission that proves everything
\* (server/README.md:85, verifier.ts:155-192).
THEOREM OnlyTurnsAcceptances == Spec => []PolicyOnlyTurnsAcceptances
  BY Inductive, TurnsInv, PTL

\* The code names the first control that was not met (path.ts:191-194, verifier.ts:183-189).
THEOREM NamesFirstControl == Spec => []CodeNamesFirstControl
  BY Inductive, NamesInv, PTL

\* A malformed application id is named as such, and a broken one aborts the parse
\* (server/README.md:93, keydescription.ts:142-181).
THEOREM MalformedIsNamed == Spec => []MalformedIdIsNamed
  BY Inductive, MalformedInv, PTL

\* The arithmetic on months agrees with the calendar (verifier.ts:93-113).
THEOREM PatchesAreRecent == Spec => []PatchesWithinTheYear
  BY Inductive, PatchesInv, PTL

=============================================================================
