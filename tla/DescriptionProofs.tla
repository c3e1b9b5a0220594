-------------------------- MODULE DescriptionProofs --------------------------
(***************************************************************************)
(* Proofs about the parser of the attestation extension and about the       *)
(* constraints: what each conversion makes of an element, for any elements  *)
(* and any limits, and how the outcome of the parser and of the constraints *)
(* reads off the description itself.                                        *)
(***************************************************************************)
EXTENDS Verifier, TLAPS, WellFoundedInduction

-----------------------------------------------------------------------------
\* Least and greatest places.

\* A set of natural numbers that is not empty has a least element.
LEMMA HasMin ==
    ASSUME NEW S \in SUBSET Nat, S # {}
    PROVE  \E m \in S : \A k \in S : m <= k
<1> DEFINE R == {ss \in Nat \X Nat : ss[1] < ss[2]}
<1>1. OpToRel(<, Nat) = R
  BY Zenon DEF OpToRel
<1>2. IsWellFoundedOn(R, Nat)
  BY <1>1, NatLessThanWellFounded, Zenon
<1>3. \A a, b \in Nat : a < b => <<a, b>> \in R
  OBVIOUS
<1> HIDE DEF R
<1>4. PICK m \in S : \A y \in S : <<y, m>> \notin R
  BY <1>2, WFMin, Zenon
<1>5. \A k \in S : ~(k < m)
  BY <1>3, <1>4, Zenon
<1>6. \A k \in S : m <= k
  BY <1>5
<1> QED BY <1>6

LEMMA MinIsLeast ==
    ASSUME NEW S \in SUBSET Nat, S # {}
    PROVE  Min(S) \in S /\ \A k \in S : Min(S) <= k
BY HasMin DEF Min

LEMMA MinIs ==
    ASSUME NEW S \in SUBSET Nat, NEW m \in S, \A k \in S : m <= k
    PROVE  Min(S) = m
<1>1. S # {}
  OBVIOUS
<1>2. Min(S) \in S /\ Min(S) <= m
  BY <1>1, MinIsLeast
<1>3. m <= Min(S) /\ m \in Nat /\ Min(S) \in Nat
  BY <1>2
<1>4. \A a, b \in Nat : a <= b /\ b <= a => a = b
  OBVIOUS
<1> QED BY <1>2, <1>3, <1>4, Zenon

LEMMA MaxIsGreatest ==
    ASSUME NEW n \in Nat, NEW S \in SUBSET (1 .. n), S # {}
    PROVE  Max(S) \in S /\ \A k \in S : Max(S) >= k
<1> DEFINE D == {k \in Nat : n - k \in S}
<1>1. \A k \in S : n - k \in D
  OBVIOUS
<1>2. D \in SUBSET Nat /\ D # {}
  BY <1>1
<1> HIDE DEF D
<1>3. PICK d \in D : \A k \in D : d <= k
  BY <1>2, HasMin
<1>4. n - d \in S
  BY <1>3 DEF D
<1>5. ASSUME NEW k \in S PROVE n - d >= k
  <2>1. d <= n - k
    BY <1>1, <1>3
  <2> QED BY <2>1, <1>2
<1>6. \E m \in S : \A k \in S : m >= k
  BY <1>4, <1>5
<1> QED BY <1>6 DEF Max

-----------------------------------------------------------------------------
\* Outcomes.

LEMMA Outcomes ==
    /\ Failed(Null) /\ Failed(Abandon) /\ Null # Abandon
    /\ \A v : ~Failed(Value(v)) /\ Value(v).is = v /\ Value(v) # Null /\ Value(v) # Abandon
BY DEF Failed, Null, Abandon, Value

\* Conversions made one after the other succeed together, and fail as one of them does.
LEMMA InOrderIs ==
    ASSUME NEW outcomes, NEW n \in Nat, DOMAIN outcomes = 1 .. n, NEW v
    PROVE  \/ /\ \A i \in 1 .. n : ~Failed(outcomes[i])
              /\ InOrder(outcomes, v) = Value(v)
           \/ \E i \in 1 .. n : Failed(outcomes[i]) /\ InOrder(outcomes, v) = outcomes[i]
<1> DEFINE failed == {i \in DOMAIN outcomes : Failed(outcomes[i])}
<1>1. CASE failed = {}
  BY <1>1 DEF InOrder
<1>2. CASE failed # {}
  <2>1. failed \in SUBSET Nat
    OBVIOUS
  <2>2. Min(failed) \in failed
    BY <1>2, <2>1, MinIsLeast
  <2>3. InOrder(outcomes, v) = outcomes[Min(failed)]
    BY <1>2 DEF InOrder
  <2> QED BY <2>2, <2>3
<1> QED BY <1>1, <1>2

LEMMA WithinIs ==
    ASSUME NEW outcome, NEW allowed
    PROVE  /\ ~Failed(Within(outcome, allowed)) <=> ~Failed(outcome) /\ outcome.is \in allowed
           /\ ~Failed(Within(outcome, allowed)) => Within(outcome, allowed) = outcome
           /\ Failed(outcome) => Within(outcome, allowed) = outcome
BY Outcomes DEF Within

-----------------------------------------------------------------------------
\* Conversions of one element.

LEMMA NumberIs ==
    ASSUME NEW t, NEW type
    PROVE  Number(t, type) = IF t.type # type THEN Null
                             ELSE IF t.good THEN Value(t.num) ELSE Abandon
BY Zenon DEF Number

LEMMA IntIs ==
    ASSUME NEW t
    PROVE  /\ IsInt(t) => ToInt(t) = Value(t.num)
           /\ ~IsInt(t) => Failed(ToInt(t))
           /\ t.type # "integer" => ToInt(t) = Null
BY NumberIs, Outcomes DEF ToInt, IsInt

LEMMA EnumeratedIs ==
    ASSUME NEW t, NEW values
    PROVE  /\ IsEnumerated(t, values) => /\ ToEnumeratedValue(t) = Value(t.num)
                                         /\ Within(ToEnumeratedValue(t), values) = Value(t.num)
           /\ ~IsEnumerated(t, values) => Failed(Within(ToEnumeratedValue(t), values))
<1>1. ToEnumeratedValue(t) = IF t.type # "enumerated" THEN Null
                             ELSE IF t.good THEN Value(t.num) ELSE Abandon
  BY NumberIs, Zenon DEF ToEnumeratedValue
<1> QED BY <1>1, WithinIs, Outcomes DEF IsEnumerated

LEMMA TextIs ==
    ASSUME NEW t
    PROVE  /\ IsOctets(t) => ToBytes(t) = Value(t.text)
           /\ ~IsOctets(t) => ToBytes(t) = Null
           /\ IsOctets(t) /\ t.good => ToStr(t) = Value(t.text)
           /\ ~(IsOctets(t) /\ t.good) => ToStr(t) = Null
BY DEF ToBytes, ToStr, IsOctets

LEMMA SetOfIs ==
    ASSUME NEW t, NEW type
    PROVE  ToSetOf(t, type) = IF t.type # "set" THEN Null
                              ELSE IF ~t.good THEN Abandon
                              ELSE IF \E i \in DOMAIN t.items : t.items[i].type # type
                              THEN Null ELSE Value(t.items)
BY Zenon DEF ToSetOf

LEMMA AtMostIs ==
    ASSUME NEW t, NEW limit
    PROVE  AtMost(t, limit) = IF t.type # "set" THEN Value(TRUE)
                              ELSE IF ~t.good THEN Abandon
                              ELSE IF Len(t.items) > limit THEN Null ELSE Value(TRUE)
BY Zenon DEF AtMost

\* What an element holds.
LEMMA ItemsOf ==
    ASSUME NEW e \in Elements
    PROVE  /\ Len(e.items) \in Nat /\ DOMAIN e.items = 1 .. Len(e.items)
           /\ \A i \in DOMAIN e.items : e.items[i] \in Elements
BY ElementsAssumption

LEMMA IntSetIs ==
    ASSUME NEW t \in Elements
    PROVE  LET sound == IsSet(t) /\ \A m \in Members(t) : IsInt(m) IN
           /\ sound => ToIntSet(t) = Value({m.num : m \in Members(t)})
           /\ ~sound => Failed(ToIntSet(t))
<1> DEFINE items == ToSetOf(t, "integer")
           nums == {t.items[i].num : i \in DOMAIN t.items}
           each == [i \in DOMAIN t.items |-> ToInt(t.items[i])]
<1>1. nums = {m.num : m \in Members(t)}
  BY DEF Members
<1>2. CASE Failed(items)
  <2>1. ToIntSet(t) = items
    BY <1>2, Zenon DEF ToIntSet
  <2>2. ~(IsSet(t) /\ \A m \in Members(t) : IsInt(m))
    BY <1>2, SetOfIs, Outcomes DEF IsSet, Members, IsInt
  <2> QED BY <1>2, <2>1, <2>2
<1>3. CASE ~Failed(items)
  <2>1. ToIntSet(t) = InOrder(each, nums)
    BY <1>3, Zenon DEF ToIntSet
  <2>2. IsSet(t)
    BY <1>3, SetOfIs, Outcomes DEF IsSet
  <2>3. DOMAIN each = 1 .. Len(t.items) /\ Len(t.items) \in Nat /\ DOMAIN t.items = 1 .. Len(t.items)
    BY ItemsOf
  <2>4. \A i \in DOMAIN t.items : each[i] = ToInt(t.items[i])
    OBVIOUS
  <2> HIDE DEF each, nums
  <2>5. \A i \in DOMAIN t.items : Failed(each[i]) <=> ~IsInt(t.items[i])
    BY <2>4, IntIs, Outcomes
  <2>6. \/ (\A i \in DOMAIN t.items : ~Failed(each[i])) /\ InOrder(each, nums) = Value(nums)
        \/ (\E i \in DOMAIN t.items : Failed(each[i])) /\ Failed(InOrder(each, nums))
    BY <2>3, InOrderIs
  <2> QED BY <1>1, <2>1, <2>2, <2>5, <2>6, Outcomes DEF Members
<1> QED BY <1>2, <1>3

LEMMA RootOfTrustIs ==
    ASSUME NEW t
    PROVE  /\ RootOfTrustIsSound(t) =>
                 ToRootOfTrust(t) = Value([deviceLocked |-> t.items[2].num # 0,
                                           verifiedBootState |-> t.items[3].num])
           /\ ~RootOfTrustIsSound(t) => Failed(ToRootOfTrust(t))
<1> DEFINE state == ToEnumeratedValue(t.items[3])
           hash == IF Len(t.items) = 4 THEN ToBytes(t.items[4]) ELSE Value("")
           parts == <<state, ToBytes(t.items[1]), ToBoolean(t.items[2]),
                      Within(state, 0 .. 3), hash>>
           root == [deviceLocked |-> t.items[2].num # 0, verifiedBootState |-> t.items[3].num]
<1>1. CASE t.type # "sequence"
  BY <1>1, Outcomes DEF ToRootOfTrust, RootOfTrustIsSound, IsSequence
<1>2. CASE t.type = "sequence" /\ (~t.good \/ Len(t.items) \notin 3 .. 4)
  <2>1. ToRootOfTrust(t) = Abandon
    BY <1>2, Zenon DEF ToRootOfTrust
  <2>2. ~RootOfTrustIsSound(t)
    BY <1>2 DEF RootOfTrustIsSound, IsSequence
  <2> QED BY <2>1, <2>2, Outcomes
<1>3. CASE t.type = "sequence" /\ t.good /\ Len(t.items) \in 3 .. 4
  <2>1. ToRootOfTrust(t) = InOrder(parts, root)
    BY <1>3, Zenon DEF ToRootOfTrust
  <2>2. DOMAIN parts = 1 .. 5 /\ 5 \in Nat
    OBVIOUS
  <2>3. /\ parts[1] = state /\ parts[2] = ToBytes(t.items[1]) /\ parts[3] = ToBoolean(t.items[2])
        /\ parts[4] = Within(state, 0 .. 3) /\ parts[5] = hash
    OBVIOUS
  <2>4. RootOfTrustIsSound(t) <=>
            /\ IsOctets(t.items[1]) /\ (Len(t.items) = 4 => IsOctets(t.items[4]))
            /\ t.items[2].type = "boolean" /\ t.items[2].good
            /\ IsEnumerated(t.items[3], 0 .. 3)
    BY <1>3 DEF RootOfTrustIsSound, IsSequence
  <2>5. Failed(ToBoolean(t.items[2])) <=> ~(t.items[2].type = "boolean" /\ t.items[2].good)
    BY NumberIs, Outcomes DEF ToBoolean
  <2>6. Failed(hash) <=> ~(Len(t.items) = 4 => IsOctets(t.items[4]))
    BY TextIs, Outcomes
  <2>7. /\ Failed(state) => Failed(Within(state, 0 .. 3))
        /\ Failed(Within(state, 0 .. 3)) <=> ~IsEnumerated(t.items[3], 0 .. 3)
    <3>1. Failed(state) => Within(state, 0 .. 3) = state
      BY WithinIs, Zenon
    <3>2. Failed(Within(state, 0 .. 3)) <=> ~IsEnumerated(t.items[3], 0 .. 3)
      BY EnumeratedIs, Outcomes
    <3> QED BY <3>1, <3>2
  <2>8. Failed(ToBytes(t.items[1])) <=> ~IsOctets(t.items[1])
    BY TextIs, Outcomes
  <2> HIDE DEF parts, hash, state
  <2>9. (\A i \in 1 .. 5 : ~Failed(parts[i])) <=> RootOfTrustIsSound(t)
    BY <2>3, <2>4, <2>5, <2>6, <2>7, <2>8
  <2>10. \/ (\A i \in 1 .. 5 : ~Failed(parts[i])) /\ InOrder(parts, root) = Value(root)
         \/ (\E i \in 1 .. 5 : Failed(parts[i])) /\ Failed(InOrder(parts, root))
    BY <2>2, InOrderIs
  <2> QED BY <2>1, <2>9, <2>10
<1> QED BY <1>1, <1>2, <1>3

-----------------------------------------------------------------------------
\* The application id.

LEMMA PackageInfoIs ==
    ASSUME NEW p, p.type = "sequence"
    PROVE  /\ Failed(PackageInfo(p)) <=> ~PackageIsSound(p)
           /\ PackageInfo(p) = Abandon =>
                 ~(p.good /\ Len(p.items) = 2 /\ (p.items[2].type = "integer" => p.items[2].good))
<1> DEFINE parts == <<ToStr(p.items[1]), ToInt(p.items[2])>>
<1>1. CASE ~p.good \/ Len(p.items) # 2
  BY <1>1, Outcomes DEF PackageInfo, PackageIsSound, IsSequence
<1>2. CASE p.good /\ Len(p.items) = 2
  <2>1. PackageInfo(p) = InOrder(parts, TRUE)
    BY <1>2, Zenon DEF PackageInfo
  <2>2. DOMAIN parts = 1 .. 2 /\ 2 \in Nat /\ parts[1] = ToStr(p.items[1])
        /\ parts[2] = ToInt(p.items[2])
    OBVIOUS
  <2> HIDE DEF parts
  <2>3. \/ (\A i \in 1 .. 2 : ~Failed(parts[i])) /\ InOrder(parts, TRUE) = Value(TRUE)
        \/ \E i \in 1 .. 2 : Failed(parts[i]) /\ InOrder(parts, TRUE) = parts[i]
    BY <2>2, InOrderIs
  <2>4. (\A i \in 1 .. 2 : ~Failed(parts[i])) <=> ~Failed(parts[1]) /\ ~Failed(parts[2])
    OBVIOUS
  <2>5. PackageIsSound(p) <=> (IsOctets(p.items[1]) /\ p.items[1].good) /\ IsInt(p.items[2])
    BY <1>2, Zenon DEF PackageIsSound, IsSequence
  <2>6. Failed(parts[1]) <=> ~(IsOctets(p.items[1]) /\ p.items[1].good)
    BY <2>2, TextIs, Outcomes
  <2>7. Failed(parts[2]) <=> ~IsInt(p.items[2])
    BY <2>2, IntIs, Outcomes
  <2>8. Failed(PackageInfo(p)) <=> ~PackageIsSound(p)
    BY <2>1, <2>3, <2>4, <2>5, <2>6, <2>7, Outcomes
  <2>9. PackageInfo(p) = Abandon => parts[2] = Abandon
    <3>1. parts[1] # Abandon
      BY <2>2, TextIs, Outcomes
    <3>2. \A i \in 1 .. 2 : i = 1 \/ i = 2
      OBVIOUS
    <3> QED BY <2>1, <2>3, <3>1, <3>2, Outcomes
  <2>10. parts[2] = Abandon => p.items[2].type = "integer" /\ ~p.items[2].good
    BY <2>2, NumberIs, Outcomes DEF ToInt
  <2> QED BY <2>8, <2>9, <2>10
<1> QED BY <1>1, <1>2

\* An application id is read exactly when it is sound, and then it is the set of its packages
\* and that of its digests, within their limits.  One that is not is null, for a later
\* constraint to name, or abandons the description: never the latter when its structure is
\* right, always when it cannot be parsed or has not two members
\* (keydescription.ts:142-171).
THEOREM ApplicationIdIs ==
    ASSUME NEW t \in Elements
    PROVE  /\ ApplicationIdIsSound(t) =>
                 ToAttestationApplicationId(t) =
                     Value([packages |-> {<<p.items[1].text, p.items[2].num>> :
                                             p \in Members(t.items[1])},
                            signatures |-> {s.text : s \in Members(t.items[2])}])
           /\ ~ApplicationIdIsSound(t) => Failed(ToAttestationApplicationId(t))
           /\ IsStructured(t) => ToAttestationApplicationId(t) # Abandon
           /\ IsOctets(t) /\ (~t.good \/ Len(t.items) # 2) => ToAttestationApplicationId(t) = Abandon
<1> DEFINE packages == t.items[1]
           signatures == t.items[2]
           checks == <<AtMost(packages, MaxPackages), AtMost(signatures, MaxSignatures),
                       ToSetOf(packages, "sequence"), ToSetOf(signatures, "octets")>>
           sets == InOrder(checks, TRUE)
           each == [i \in DOMAIN packages.items |-> PackageInfo(packages.items[i])]
           id == [packages |-> {<<p.items[1].text, p.items[2].num>> :
                                   p \in {packages.items[i] : i \in DOMAIN packages.items}},
                  signatures |-> {s.text :
                                   s \in {signatures.items[i] : i \in DOMAIN signatures.items}}]
<1>1. CASE ~IsOctets(t)
  <2>1. ToAttestationApplicationId(t) = Null
    BY <1>1, Zenon DEF ToAttestationApplicationId, IsOctets
  <2> QED BY <1>1, <2>1, Outcomes DEF ApplicationIdIsSound
<1>2. CASE IsOctets(t) /\ (~t.good \/ Len(t.items) # 2)
  <2>1. ToAttestationApplicationId(t) = Abandon
    BY <1>2, Zenon DEF ToAttestationApplicationId, IsOctets
  <2>2. ~ApplicationIdIsSound(t) /\ ~IsStructured(t)
    BY <1>2 DEF ApplicationIdIsSound, IsStructured
  <2> QED BY <2>1, <2>2, Outcomes
<1>3. CASE IsOctets(t) /\ t.good /\ Len(t.items) = 2
  <2>0. /\ Members(t.items[1]) = {packages.items[i] : i \in DOMAIN packages.items}
        /\ Members(t.items[2]) = {signatures.items[i] : i \in DOMAIN signatures.items}
    BY DEF Members
  <2>e. packages \in Elements /\ signatures \in Elements /\ packages \in Members(t)
        /\ signatures \in Members(t)
    BY <1>3, ItemsOf DEF Members
  <2>1. /\ Failed(sets) => ToAttestationApplicationId(t) = sets
        /\ ~Failed(sets) => ToAttestationApplicationId(t) = InOrder(each, id)
    BY <1>3, Zenon DEF ToAttestationApplicationId, IsOctets
  <2>2. /\ DOMAIN checks = 1 .. 4 /\ 4 \in Nat
        /\ checks[1] = AtMost(packages, MaxPackages) /\ checks[2] = AtMost(signatures, MaxSignatures)
        /\ checks[3] = ToSetOf(packages, "sequence") /\ checks[4] = ToSetOf(signatures, "octets")
    OBVIOUS
  <2>3. /\ DOMAIN each = 1 .. Len(packages.items) /\ Len(packages.items) \in Nat
        /\ DOMAIN packages.items = 1 .. Len(packages.items)
        /\ Len(signatures.items) \in Nat
        /\ \A i \in DOMAIN packages.items : each[i] = PackageInfo(packages.items[i])
    BY <2>e, ItemsOf
  <2>l. MaxPackages \in Nat /\ MaxSignatures \in Nat
    BY LimitsAssumption
  <2>c. /\ checks[1] = IF packages.type # "set" THEN Value(TRUE)
                       ELSE IF ~packages.good THEN Abandon
                       ELSE IF Len(packages.items) > MaxPackages THEN Null ELSE Value(TRUE)
        /\ checks[2] = IF signatures.type # "set" THEN Value(TRUE)
                       ELSE IF ~signatures.good THEN Abandon
                       ELSE IF Len(signatures.items) > MaxSignatures THEN Null ELSE Value(TRUE)
    BY <2>2, AtMostIs, Zenon
  <2>d. /\ checks[3] = IF packages.type # "set" THEN Null
                       ELSE IF ~packages.good THEN Abandon
                       ELSE IF \E i \in DOMAIN packages.items : packages.items[i].type # "sequence"
                       THEN Null ELSE Value(packages.items)
        /\ checks[4] = IF signatures.type # "set" THEN Null
                       ELSE IF ~signatures.good THEN Abandon
                       ELSE IF \E i \in DOMAIN signatures.items : signatures.items[i].type # "octets"
                       THEN Null ELSE Value(signatures.items)
    BY <2>2, SetOfIs, Zenon
  <2> HIDE DEF checks, each, id, packages, signatures, sets
  <2>4. \/ (\A i \in 1 .. 4 : ~Failed(checks[i])) /\ sets = Value(TRUE)
        \/ \E i \in 1 .. 4 : Failed(checks[i]) /\ sets = checks[i]
    BY <2>2, InOrderIs DEF sets
  <2>v. ~Failed(Value(TRUE)) /\ ~Failed(Value(packages.items)) /\ ~Failed(Value(signatures.items))
        /\ Failed(Null) /\ Failed(Abandon)
    BY Outcomes, Zenon
  <2>5. Failed(checks[1]) \/ Failed(checks[3]) <=>
            ~(/\ IsSet(packages) /\ Len(packages.items) <= MaxPackages
              /\ \A i \in DOMAIN packages.items : packages.items[i].type = "sequence")
    <3>1. Failed(checks[1]) <=>
              packages.type = "set" /\ (~packages.good \/ ~(Len(packages.items) <= MaxPackages))
      <4>1. Len(packages.items) > MaxPackages <=> ~(Len(packages.items) <= MaxPackages)
        BY <2>3, <2>l
      <4> QED BY <2>c, <2>v, <4>1, Zenon
    <3>2. Failed(checks[3]) <=>
              ~(/\ packages.type = "set" /\ packages.good
                /\ \A i \in DOMAIN packages.items : packages.items[i].type = "sequence")
      BY <2>d, <2>v, Zenon
    <3> QED BY <3>1, <3>2 DEF IsSet
  <2>6. Failed(checks[2]) \/ Failed(checks[4]) <=>
            ~(/\ IsSet(signatures) /\ Len(signatures.items) <= MaxSignatures
              /\ \A i \in DOMAIN signatures.items : signatures.items[i].type = "octets")
    <3>1. Failed(checks[2]) <=>
              signatures.type = "set" /\ (~signatures.good \/ ~(Len(signatures.items) <= MaxSignatures))
      <4>1. Len(signatures.items) > MaxSignatures <=> ~(Len(signatures.items) <= MaxSignatures)
        BY <2>3, <2>l
      <4> QED BY <2>c, <2>v, <4>1, Zenon
    <3>2. Failed(checks[4]) <=>
              ~(/\ signatures.type = "set" /\ signatures.good
                /\ \A i \in DOMAIN signatures.items : signatures.items[i].type = "octets")
      BY <2>d, <2>v, Zenon
    <3> QED BY <3>1, <3>2 DEF IsSet
  <2>7. Failed(sets) <=> Failed(checks[1]) \/ Failed(checks[2]) \/ Failed(checks[3]) \/ Failed(checks[4])
    <3>1. \A i \in 1 .. 4 : i = 1 \/ i = 2 \/ i = 3 \/ i = 4
      OBVIOUS
    <3>2. 1 \in 1 .. 4 /\ 2 \in 1 .. 4 /\ 3 \in 1 .. 4 /\ 4 \in 1 .. 4
      OBVIOUS
    <3> QED BY <2>4, <2>v, <3>1, <3>2, Zenon
  <2>8. \/ (\A i \in DOMAIN packages.items : ~Failed(each[i])) /\ InOrder(each, id) = Value(id)
        \/ \E i \in DOMAIN packages.items : Failed(each[i]) /\ InOrder(each, id) = each[i]
    BY <2>3, InOrderIs
  <2>9. ApplicationIdIsSound(t) <=>
            /\ IsSet(packages) /\ Len(packages.items) <= MaxPackages
            /\ \A i \in DOMAIN packages.items : PackageIsSound(packages.items[i])
            /\ IsSet(signatures) /\ Len(signatures.items) <= MaxSignatures
            /\ \A i \in DOMAIN signatures.items : signatures.items[i].type = "octets"
    BY <1>3 DEF ApplicationIdIsSound, Members, IsOctets, packages, signatures
  <2>10. ~Failed(sets) => \A i \in DOMAIN packages.items :
             /\ packages.items[i].type = "sequence"
             /\ Failed(each[i]) <=> ~PackageIsSound(packages.items[i])
    BY <2>3, <2>5, <2>7, PackageInfoIs
  <2>11. /\ ApplicationIdIsSound(t) => ToAttestationApplicationId(t) = Value(id)
         /\ ~ApplicationIdIsSound(t) => Failed(ToAttestationApplicationId(t))
    <3>1. ApplicationIdIsSound(t) => ~Failed(sets)
      BY <2>5, <2>6, <2>7, <2>9 DEF PackageIsSound, IsSequence
    <3>2. ~Failed(sets) => (ApplicationIdIsSound(t) <=> \A i \in DOMAIN packages.items : ~Failed(each[i]))
      BY <2>5, <2>6, <2>7, <2>9, <2>10
    <3> QED BY <2>1, <2>8, <3>1, <3>2, Outcomes
  <2>12. IsStructured(t) => ToAttestationApplicationId(t) # Abandon
    <3> SUFFICES ASSUME IsStructured(t) PROVE ToAttestationApplicationId(t) # Abandon
      OBVIOUS
    <3>1. /\ packages.type = "set" => packages.good
          /\ signatures.type = "set" => signatures.good
      BY <1>3, <2>e DEF IsStructured
    <3>2. \A i \in 1 .. 4 : checks[i] # Abandon
      <4>1. \A i \in 1 .. 4 : i = 1 \/ i = 2 \/ i = 3 \/ i = 4
        OBVIOUS
      <4>2. /\ checks[1] # Abandon /\ checks[2] # Abandon
            /\ checks[3] # Abandon /\ checks[4] # Abandon
        BY <2>c, <2>d, <3>1, Outcomes
      <4> QED BY <4>1, <4>2
    <3>3. sets # Abandon
      BY <2>4, <3>2, Outcomes
    <3>4. ~Failed(sets) => \A i \in DOMAIN packages.items : each[i] # Abandon
      <4> SUFFICES ASSUME ~Failed(sets), NEW i \in DOMAIN packages.items PROVE each[i] # Abandon
        OBVIOUS
      <4>1. packages.items[i] \in Members(packages) /\ packages.items[i].type = "sequence"
        BY <2>10 DEF Members
      <4>2. packages.type = "set"
        BY <2>5, <2>7 DEF IsSet
      <4> DEFINE m == packages.items[i]
      <4>3. m.good /\ Len(m.items) = 2 /\ (m.items[2].type = "integer" => m.items[2].good)
        BY <1>3, <2>e, <4>1, <4>2 DEF IsStructured
      <4> QED BY <2>3, <4>1, <4>3, PackageInfoIs
    <3> QED BY <2>1, <2>8, <3>3, <3>4, Outcomes
  <2> QED BY <1>3, <2>0, <2>11, <2>12 DEF id, packages, signatures
<1> QED BY <1>1, <1>2, <1>3

-----------------------------------------------------------------------------
\* Attributes.

Single == {"origin", "rootOfTrust", "attestationApplicationId", "unreadText", "ignored"}

\* A tag is in one class only.
LEMMA TagsApart ==
    ASSUME NEW tag
    PROVE  /\ tag \in IntTags => tag \notin IntSetTags \cup PatchTags \cup Single
           /\ tag \in IntSetTags => tag \notin IntTags \cup PatchTags \cup Single
           /\ tag \in PatchTags => tag \notin IntTags \cup IntSetTags \cup Single
           /\ tag \in Single => tag \notin IntTags \cup IntSetTags \cup PatchTags
           /\ tag \in KNOWN_TAGS <=> tag \in IntTags \cup IntSetTags \cup PatchTags \cup Single
<1>1. tag \in IntTags => tag \notin IntSetTags
  BY SMT DEF IntTags, UnreadIntTags, IntSetTags, UnreadIntSetTags
<1>2. tag \in IntTags => tag \notin PatchTags \cup Single
  BY SMT DEF IntTags, UnreadIntTags, PatchTags, Single
<1>3. tag \in IntSetTags => tag \notin PatchTags \cup Single
  BY SMT DEF IntSetTags, UnreadIntSetTags, PatchTags, Single
<1>4. tag \in PatchTags => tag \notin Single
  BY SMT DEF PatchTags, Single
<1>5. tag \in KNOWN_TAGS <=> tag \in IntTags \cup IntSetTags \cup PatchTags \cup Single
  BY SMT DEF KNOWN_TAGS, Single
<1> QED BY <1>1, <1>2, <1>3, <1>4, <1>5, Zenon

LEMMA ConvertIs ==
    ASSUME NEW tag, NEW t
    PROVE  /\ tag \in IntTags => Convert(tag, t) = ToInt(t)
           /\ tag \in IntSetTags => Convert(tag, t) = ToIntSet(t)
           /\ tag \in PatchTags =>
                 Convert(tag, t) = IF t.type = "integer" THEN ToInt(t) ELSE Abandon
           /\ tag = "origin" => Convert(tag, t) = Within(ToInt(t), 0 .. 4)
           /\ tag = "rootOfTrust" => Convert(tag, t) = ToRootOfTrust(t)
           /\ tag = "attestationApplicationId" => Convert(tag, t) = ToAttestationApplicationId(t)
           /\ tag = "unreadText" => Convert(tag, t) = ToStr(t)
           /\ tag = "ignored" => Convert(tag, t) = Null
<1>1. tag \in IntTags => Convert(tag, t) = ToInt(t)
  BY TagsApart, Zenon DEF Convert, Single
<1>2. tag \in IntSetTags => Convert(tag, t) = ToIntSet(t)
  BY TagsApart, Zenon DEF Convert, Single
<1>3. tag \in PatchTags => Convert(tag, t) = IF t.type = "integer" THEN ToInt(t) ELSE Abandon
  BY TagsApart, Zenon DEF Convert, Single
<1>4. tag = "origin" => Convert(tag, t) = Within(ToInt(t), 0 .. 4)
  BY TagsApart, Zenon DEF Convert, Single
<1>5. tag = "rootOfTrust" => Convert(tag, t) = ToRootOfTrust(t)
  BY TagsApart, Zenon DEF Convert, Single
<1>6. tag = "attestationApplicationId" => Convert(tag, t) = ToAttestationApplicationId(t)
  BY TagsApart, Zenon DEF Convert, Single
<1>7. tag = "unreadText" => Convert(tag, t) = ToStr(t)
  BY TagsApart, Zenon DEF Convert, Single
<1>8. tag = "ignored" => Convert(tag, t) = Null
  BY TagsApart, Zenon DEF Convert, Single
<1> QED BY <1>1, <1>2, <1>3, <1>4, <1>5, <1>6, <1>7, <1>8, Zenon

LEMMA SoundIs ==
    ASSUME NEW tag, NEW e
    PROVE  /\ tag \in IntTags \cup PatchTags => (IsSound(tag, e) <=> IsInt(e))
           /\ tag \in IntSetTags =>
                 (IsSound(tag, e) <=> IsSet(e) /\ \A m \in Members(e) : IsInt(m))
           /\ tag = "origin" => (IsSound(tag, e) <=> IsInt(e) /\ e.num \in 0 .. 4)
           /\ tag = "rootOfTrust" => (IsSound(tag, e) <=> RootOfTrustIsSound(e))
           /\ tag = "attestationApplicationId" => (IsSound(tag, e) <=> ApplicationIdIsSound(e))
           /\ tag = "unreadText" => (IsSound(tag, e) <=> IsOctets(e) /\ e.good)
<1>1. tag \in IntTags \cup PatchTags => (IsSound(tag, e) <=> IsInt(e))
  BY TagsApart, Zenon DEF IsSound, Single
<1>2. tag \in IntSetTags => (IsSound(tag, e) <=> IsSet(e) /\ \A m \in Members(e) : IsInt(m))
  BY TagsApart, Zenon DEF IsSound, Single
<1>3. tag = "origin" => (IsSound(tag, e) <=> IsInt(e) /\ e.num \in 0 .. 4)
  BY TagsApart, Zenon DEF IsSound, Single
<1>4. tag = "rootOfTrust" => (IsSound(tag, e) <=> RootOfTrustIsSound(e))
  BY TagsApart, Zenon DEF IsSound, Single
<1>5. tag = "attestationApplicationId" => (IsSound(tag, e) <=> ApplicationIdIsSound(e))
  BY TagsApart, Zenon DEF IsSound, Single
<1>6. tag = "unreadText" => (IsSound(tag, e) <=> IsOctets(e) /\ e.good)
  BY TagsApart, Zenon DEF IsSound, Single
<1> QED BY <1>1, <1>2, <1>3, <1>4, <1>5, <1>6, Zenon

\* What an attribute comes to: every tag but "ignored" has a value exactly when it is sound,
\* a number or a set of numbers is that, and a patch level is never merely given up.
LEMMA ConversionIs ==
    ASSUME NEW tag \in KNOWN_TAGS, NEW e \in Elements
    PROVE  /\ tag # "ignored" => (Failed(Convert(tag, e)) <=> ~IsSound(tag, e))
           /\ IsSound(tag, e) => Convert(tag, e) # Abandon
           /\ tag \in IntTags \cup PatchTags \cup {"origin"} /\ IsSound(tag, e) =>
                 Convert(tag, e) = Value(e.num)
           /\ tag \in IntSetTags /\ IsSound(tag, e) =>
                 Convert(tag, e) = Value({m.num : m \in Members(e)})
           /\ tag \in PatchTags /\ ~IsSound(tag, e) => Convert(tag, e) = Abandon
<1> DEFINE number == tag \in IntTags \cup PatchTags \cup {"origin"}
<1>1. CASE tag \in IntTags
  <2>1. Convert(tag, e) = ToInt(e) /\ (IsSound(tag, e) <=> IsInt(e))
    BY <1>1, ConvertIs, SoundIs
  <2>2. tag \notin IntSetTags \cup PatchTags /\ tag # "ignored"
    BY <1>1, TagsApart, Zenon DEF Single
  <2> QED BY <2>1, <2>2, IntIs, Outcomes
<1>2. CASE tag \in IntSetTags
  <2>1. Convert(tag, e) = ToIntSet(e)
    BY <1>2, ConvertIs
  <2>2. IsSound(tag, e) <=> IsSet(e) /\ \A m \in Members(e) : IsInt(m)
    BY <1>2, SoundIs
  <2>3. /\ IsSound(tag, e) => Convert(tag, e) = Value({m.num : m \in Members(e)})
        /\ ~IsSound(tag, e) => Failed(Convert(tag, e))
    BY <2>1, <2>2, IntSetIs, Zenon
  <2>4. tag \notin IntTags \cup PatchTags \cup {"origin"} /\ tag # "ignored"
    BY <1>2, TagsApart, Zenon DEF Single
  <2>5. ~Failed(Value({m.num : m \in Members(e)})) /\ Failed(Abandon)
    BY Outcomes, Zenon
  <2> QED BY <1>2, <2>3, <2>4, <2>5, Zenon
<1>3. CASE tag \in PatchTags
  <2>1. Convert(tag, e) = IF e.type = "integer" THEN ToInt(e) ELSE Abandon
    BY <1>3, ConvertIs
  <2>2. IsSound(tag, e) <=> IsInt(e)
    BY <1>3, SoundIs
  <2>3. ToInt(e) = IF e.type # "integer" THEN Null ELSE IF e.good THEN Value(e.num) ELSE Abandon
    BY NumberIs, Zenon DEF ToInt
  <2>4. IsSound(tag, e) => Convert(tag, e) = Value(e.num)
    BY <2>1, <2>2, <2>3 DEF IsInt
  <2>5. ~IsSound(tag, e) => Convert(tag, e) = Abandon
    BY <2>1, <2>2, <2>3 DEF IsInt
  <2>6. tag \notin IntSetTags /\ tag # "ignored"
    BY <1>3, TagsApart, Zenon DEF Single
  <2> QED BY <2>4, <2>5, <2>6, Outcomes
<1>4. CASE tag = "origin"
  <2>1. Convert(tag, e) = Within(ToInt(e), 0 .. 4)
    BY <1>4, ConvertIs
  <2>2. IsSound(tag, e) <=> IsInt(e) /\ e.num \in 0 .. 4
    BY <1>4, SoundIs
  <2>3. /\ IsSound(tag, e) => Convert(tag, e) = Value(e.num)
        /\ ~IsSound(tag, e) => Failed(Convert(tag, e))
    <3>1. IsInt(e) => ToInt(e) = Value(e.num)
      BY IntIs
    <3>2. ~IsInt(e) => Failed(ToInt(e))
      BY IntIs
    <3> HIDE DEF number
    <3> QED BY <2>1, <2>2, <3>1, <3>2, WithinIs, Outcomes
  <2>4. tag \notin IntSetTags \cup PatchTags /\ tag # "ignored"
    BY <1>4, TagsApart, Zenon DEF Single
  <2> QED BY <1>4, <2>3, <2>4, Outcomes
<1>5. CASE tag = "rootOfTrust"
  <2>0. Convert(tag, e) = ToRootOfTrust(e) /\ (IsSound(tag, e) <=> RootOfTrustIsSound(e))
    BY <1>5, ConvertIs, SoundIs
  <2>1. Failed(Convert(tag, e)) <=> ~IsSound(tag, e)
    BY <2>0, RootOfTrustIs, Outcomes
  <2>2. tag \notin IntTags \cup PatchTags \cup {"origin"} \cup IntSetTags
    BY <1>5, TagsApart, Zenon DEF Single
  <2> QED BY <2>1, <2>2, Outcomes
<1>6. CASE tag = "attestationApplicationId"
  <2>1. Convert(tag, e) = ToAttestationApplicationId(e) /\ (IsSound(tag, e) <=> ApplicationIdIsSound(e))
    BY <1>6, ConvertIs, SoundIs
  <2>2. Failed(Convert(tag, e)) <=> ~IsSound(tag, e)
    BY <2>1, ApplicationIdIs, Outcomes
  <2>3. tag \notin IntTags \cup PatchTags \cup {"origin"} \cup IntSetTags
    BY <1>6, TagsApart, Zenon DEF Single
  <2> QED BY <2>2, <2>3, Outcomes
<1>7. CASE tag = "unreadText"
  <2>1. Failed(Convert(tag, e)) <=> ~IsSound(tag, e)
    BY <1>7, ConvertIs, SoundIs, TextIs, Outcomes
  <2>2. tag \notin IntTags \cup PatchTags \cup {"origin"} \cup IntSetTags
    BY <1>7, TagsApart, Zenon DEF Single
  <2> QED BY <2>1, <2>2, Outcomes
<1>8. CASE tag = "ignored"
  <2>1. Convert(tag, e) = Null
    BY <1>8, ConvertIs
  <2>2. tag \notin IntTags \cup PatchTags \cup {"origin"} \cup IntSetTags
    BY <1>8, TagsApart, Zenon DEF Single
  <2> QED BY <1>8, <2>1, <2>2, Outcomes
<1> QED BY <1>1, <1>2, <1>3, <1>4, <1>5, <1>6, <1>7, <1>8, TagsApart, Zenon DEF Single

Entries == Seq([tag : STRING, explicit : BOOLEAN, inner : Elements])

\* Of several entries with one tag the last counts, and Last names its element.
LEMMA AttributeIs ==
    ASSUME NEW list, list.items \in Entries, NEW tag
    PROVE  \/ /\ Last(list, tag) = {} /\ Attribute(list, tag) = Null
              /\ \A i \in DOMAIN list.items : list.items[i].tag # tag
           \/ \E i \in DOMAIN list.items :
                 /\ list.items[i].tag = tag /\ list.items[i].inner \in Elements
                 /\ Last(list, tag) = {list.items[i].inner}
                 /\ Attribute(list, tag) = Convert(tag, list.items[i].inner)
<1> DEFINE items == list.items
           places == {i \in DOMAIN items : items[i].tag = tag}
<1>1. /\ Len(items) \in Nat /\ DOMAIN items = 1 .. Len(items)
      /\ \A i \in DOMAIN items : items[i].inner \in Elements
  <2>1. items \in Seq([tag : STRING, explicit : BOOLEAN, inner : Elements])
    BY DEF Entries
  <2>2. \A T : \A q \in Seq(T) : \A i \in DOMAIN q : q[i] \in T
    OBVIOUS
  <2>3. \A i \in DOMAIN items : items[i] \in [tag : STRING, explicit : BOOLEAN, inner : Elements]
    BY <2>1, <2>2, Zenon
  <2>4. Len(items) \in Nat /\ DOMAIN items = 1 .. Len(items)
    BY <2>1
  <2>5. \A r \in [tag : STRING, explicit : BOOLEAN, inner : Elements] : r.inner \in Elements
    OBVIOUS
  <2> HIDE DEF items
  <2> QED BY <2>3, <2>4, <2>5, Zenon
<1>2. CASE places = {}
  <2>1. Attribute(list, tag) = Null
    BY <1>2, Zenon DEF Attribute
  <2>2. \A i \in DOMAIN items : items[i].tag # tag
    BY <1>2
  <2>3. Last(list, tag) = {}
    BY <2>2 DEF Last
  <2> QED BY <2>1, <2>2, <2>3
<1>3. CASE places # {}
  <2>1. Attribute(list, tag) = Convert(tag, items[Max(places)].inner)
    BY <1>3, Zenon DEF Attribute
  <2>2. places \in SUBSET (1 .. Len(items))
    BY <1>1
  <2>3. Max(places) \in places /\ \A k \in places : Max(places) >= k
    BY <1>1, <1>3, <2>2, MaxIsGreatest
  <2> DEFINE m == Max(places)
  <2>4. \A k \in DOMAIN items : items[k].tag = tag => k <= m
    BY <1>1, <2>3
  <2>5. m \in DOMAIN items /\ items[m].tag = tag
    BY <2>3
  <2> HIDE DEF m, places
  <2>6. \A j \in DOMAIN items :
            (items[j].tag = tag /\ \A k \in DOMAIN items : k > j => items[k].tag # tag) <=> j = m
    BY <1>1, <2>4, <2>5
  <2>7. Last(list, tag) = {items[m].inner}
    BY <2>5, <2>6 DEF Last
  <2> QED BY <1>1, <2>1, <2>5, <2>7 DEF m
<1> QED BY <1>2, <1>3

\* An attribute has a value exactly when its last entry is sound, and then the value of that
\* entry; a patch level that is there has one, or the whole list is abandoned.
LEMMA AttributeHolds ==
    ASSUME NEW list, list.items \in Entries, NEW tag \in KNOWN_TAGS \ {"ignored"}
    PROVE  /\ ~Failed(Attribute(list, tag)) <=> \E e \in Last(list, tag) : IsSound(tag, e)
           /\ tag \in IntTags \cup PatchTags \cup {"origin"} =>
                 \A e \in Last(list, tag) : IsSound(tag, e) => Attribute(list, tag) = Value(e.num)
           /\ tag \in IntSetTags =>
                 \A e \in Last(list, tag) : IsSound(tag, e) =>
                     Attribute(list, tag) = Value({m.num : m \in Members(e)})
           /\ tag \in PatchTags /\ Attribute(list, tag) # Abandon =>
                 \A e \in Last(list, tag) : IsSound(tag, e)
           /\ \A e \in Last(list, tag) : e \in Elements /\ Attribute(list, tag) = Convert(tag, e)
<1>1. CASE Last(list, tag) = {}
  <2>1. Attribute(list, tag) = Null
    BY <1>1, AttributeIs
  <2>2. Failed(Attribute(list, tag))
    BY <2>1, Outcomes
  <2> QED BY <1>1, <2>2, Zenon
<1>2. CASE Last(list, tag) # {}
  <2>1. PICK e \in Elements : Last(list, tag) = {e} /\ Attribute(list, tag) = Convert(tag, e)
    BY <1>2, AttributeIs
  <2> QED BY <2>1, ConversionIs
<1> QED BY <1>1, <1>2

LEMMA HasNumberIs ==
    ASSUME NEW tag \in IntTags \cup {"origin"}, NEW n, Hardware.items \in Entries,
           tag = "origin" => n \in 0 .. 4
    PROVE  HasNumber(tag, n) <=> Is(Attribute(Hardware, tag), n)
<1>1. tag \in KNOWN_TAGS \ {"ignored"}
  BY TagsApart, Zenon DEF Single
<1>2. \A e : /\ IsSound(tag, e) => IsInt(e)
             /\ IsInt(e) /\ e.num = n => IsSound(tag, e)
  BY SoundIs, TagsApart
<1>3. /\ ~Failed(Attribute(Hardware, tag)) <=> \E e \in Last(Hardware, tag) : IsSound(tag, e)
      /\ \A e \in Last(Hardware, tag) : IsSound(tag, e) => Attribute(Hardware, tag) = Value(e.num)
  BY <1>1, AttributeHolds
<1> QED BY <1>2, <1>3, Outcomes DEF HasNumber, Is

LEMMA HasOnlyIs ==
    ASSUME NEW tag \in IntSetTags, NEW n, Hardware.items \in Entries
    PROVE  HasOnly(tag, n) <=> Is(Attribute(Hardware, tag), {n})
<1>1. tag \in KNOWN_TAGS \ {"ignored"}
  BY TagsApart, Zenon DEF Single
<1>2. \A e : IsSound(tag, e) <=> IsSet(e) /\ \A m \in Members(e) : IsInt(m)
  BY SoundIs
<1>3. /\ ~Failed(Attribute(Hardware, tag)) <=> \E e \in Last(Hardware, tag) : IsSound(tag, e)
      /\ \A e \in Last(Hardware, tag) : IsSound(tag, e) =>
            Attribute(Hardware, tag) = Value({m.num : m \in Members(e)})
  BY <1>1, AttributeHolds
<1>4. \A e : {m.num : m \in Members(e)} = {n} <=>
                Members(e) # {} /\ \A m \in Members(e) : m.num = n
  OBVIOUS
<1>5. \A e : Value({m.num : m \in Members(e)}).is = {m.num : m \in Members(e)}
  BY Outcomes, Zenon
<1>6. ASSUME HasOnly(tag, n) PROVE Is(Attribute(Hardware, tag), {n})
  <2>1. PICK e \in Last(Hardware, tag) :
            IsSet(e) /\ Members(e) # {} /\ \A m \in Members(e) : IsInt(m) /\ m.num = n
    BY <1>6 DEF HasOnly
  <2>2. IsSound(tag, e)
    BY <1>2, <2>1
  <2>3. Attribute(Hardware, tag).is = {n}
    BY <1>3, <1>4, <1>5, <2>1, <2>2
  <2> QED BY <1>3, <2>2, <2>3 DEF Is
<1>7. ASSUME Is(Attribute(Hardware, tag), {n}) PROVE HasOnly(tag, n)
  <2>1. PICK e \in Last(Hardware, tag) : IsSound(tag, e)
    BY <1>3, <1>7 DEF Is
  <2>2. {m.num : m \in Members(e)} = {n}
    BY <1>3, <1>5, <1>7, <2>1 DEF Is
  <2>3. IsSet(e) /\ Members(e) # {} /\ \A m \in Members(e) : IsInt(m) /\ m.num = n
    BY <1>2, <1>4, <2>1, <2>2
  <2> QED BY <2>1, <2>3 DEF HasOnly
<1> QED BY <1>6, <1>7

-----------------------------------------------------------------------------
\* Lists and descriptions.

LEMMA ListIs ==
    ASSUME NEW list
    PROVE  ~Failed(ParseAuthorizationList(list)) =>
              /\ ParseAuthorizationList(list).is = [tag \in KNOWN_TAGS |-> Attribute(list, tag)]
              /\ \A tag \in KNOWN_TAGS : Attribute(list, tag) # Abandon
BY Outcomes, Zenon DEF ParseAuthorizationList

LEMMA SoundListIs ==
    ASSUME NEW list, list.items \in Entries, NEW tags, ListIsSoundBut(list, tags),
           \A tag \in tags \cap KNOWN_TAGS : Attribute(list, tag) # Abandon
    PROVE  ~Failed(ParseAuthorizationList(list))
<1>1. ASSUME NEW tag \in KNOWN_TAGS, Attribute(list, tag) = Abandon PROVE FALSE
  <2>1. PICK i \in DOMAIN list.items :
           /\ list.items[i].tag = tag /\ list.items[i].inner \in Elements
           /\ Attribute(list, tag) = Convert(tag, list.items[i].inner)
    BY <1>1, AttributeIs, Outcomes
  <2>2. tag \notin tags
    BY <1>1
  <2>3. IsSound(tag, list.items[i].inner)
    BY <2>1, <2>2 DEF ListIsSoundBut, Members
  <2> QED BY <1>1, <2>1, <2>3, ConversionIs
<1>2. list.type = "sequence" /\ list.good
      /\ \A i \in DOMAIN list.items : list.items[i].explicit /\ list.items[i].tag \in KNOWN_TAGS
  BY DEF ListIsSoundBut, Members
<1>3. ParseAuthorizationList(list) = Value([tag \in KNOWN_TAGS |-> Attribute(list, tag)])
  BY <1>1, <1>2, Zenon DEF ParseAuthorizationList
<1> QED BY <1>3, Outcomes, Zenon

LEMMA ListsOf ==
    ASSUME submission \in Submissions, Len(Description.items) = 8
    PROVE  Software.items \in Entries /\ Hardware.items \in Entries
<1>1. \A i \in 7 .. 8 : Description.items[i].items \in Entries
  BY ElementsAssumption, Zenon DEF Description, Entries
<1>2. 7 \in 7 .. 8 /\ 8 \in 7 .. 8
  OBVIOUS
<1> QED BY <1>1, <1>2, Zenon DEF Software, Hardware

\* What the parser returns, if it returns anything.
LEMMA ParsedIs ==
    ASSUME ~Failed(Parsed)
    PROVE  /\ Len(Description.items) = 8
           /\ IsEnumerated(Description.items[2], 0 .. 2) /\ IsEnumerated(Description.items[4], 0 .. 2)
           /\ IsOctets(Description.items[5])
           /\ Parsed.is.attestationSecurityLevel = Description.items[2].num
           /\ Parsed.is.keyMintSecurityLevel = Description.items[4].num
           /\ Parsed.is.attestationChallenge = Description.items[5].text
           /\ \A tag \in KNOWN_TAGS :
                 /\ Parsed.is.softwareEnforced[tag] = Attribute(Software, tag)
                 /\ Parsed.is.hardwareEnforced[tag] = Attribute(Hardware, tag)
                 /\ Attribute(Software, tag) # Abandon /\ Attribute(Hardware, tag) # Abandon
<1> DEFINE items == Description.items
           software == ParseAuthorizationList(items[7])
           hardware == ParseAuthorizationList(items[8])
           parts == {ToInt(items[1]), ToInt(items[3])} \cup
                    {ToSecurityLevel(items[2]), ToSecurityLevel(items[4])}
           v == [attestationSecurityLevel |-> items[2].num,
                 keyMintSecurityLevel |-> items[4].num,
                 attestationChallenge |-> items[5].text,
                 softwareEnforced |-> software.is,
                 hardwareEnforced |-> hardware.is]
<1>1. Failed(Abandon)
  BY Outcomes, Zenon
<1>2. /\ Len(items) = 8
      /\ \A p \in parts : ~Failed(p)
      /\ ~Failed(ToBytes(items[5])) /\ ~Failed(software) /\ ~Failed(hardware)
      /\ Parsed = Value(v)
  BY <1>1, Zenon DEF Parsed, ParseKeyDescription
<1>3. ~Failed(ToSecurityLevel(items[2])) /\ ~Failed(ToSecurityLevel(items[4]))
  BY <1>2
<1>4. {SOFTWARE, TRUSTED_ENVIRONMENT, STRONG_BOX} = 0 .. 2
  BY DEF SOFTWARE, TRUSTED_ENVIRONMENT, STRONG_BOX
<1>5. IsEnumerated(items[2], 0 .. 2) /\ IsEnumerated(items[4], 0 .. 2)
  BY <1>3, <1>4, EnumeratedIs, Zenon DEF ToSecurityLevel
<1>6. IsOctets(items[5])
  BY <1>2, TextIs, Outcomes
<1>7. Parsed.is = v
  BY <1>2, Outcomes, Zenon
<1>8. /\ software.is = [tag \in KNOWN_TAGS |-> Attribute(items[7], tag)]
      /\ hardware.is = [tag \in KNOWN_TAGS |-> Attribute(items[8], tag)]
      /\ \A tag \in KNOWN_TAGS :
            Attribute(items[7], tag) # Abandon /\ Attribute(items[8], tag) # Abandon
  BY <1>2, ListIs, Zenon
<1>9. /\ v.attestationSecurityLevel = items[2].num /\ v.keyMintSecurityLevel = items[4].num
      /\ v.attestationChallenge = items[5].text
      /\ v.softwareEnforced = software.is /\ v.hardwareEnforced = hardware.is
  OBVIOUS
<1> HIDE DEF v, software, hardware, parts
<1> QED BY <1>2, <1>5, <1>6, <1>7, <1>8, <1>9 DEF Software, Hardware

\* A sound description is parsed, whatever its application id, unless that is abandoned.
LEMMA SoundIsParsed ==
    ASSUME submission \in Submissions, NEW tags, DescriptionIsSoundBut(tags),
           \A tag \in tags \cap KNOWN_TAGS : Attribute(Software, tag) # Abandon
    PROVE  ~Failed(Parsed)
<1> DEFINE items == Description.items
           software == ParseAuthorizationList(items[7])
           hardware == ParseAuthorizationList(items[8])
           v == [attestationSecurityLevel |-> items[2].num,
                 keyMintSecurityLevel |-> items[4].num,
                 attestationChallenge |-> items[5].text,
                 softwareEnforced |-> software.is,
                 hardwareEnforced |-> hardware.is]
<1>1. /\ Description.type = "sequence" /\ Description.good /\ Len(items) = 8
      /\ IsInt(items[1]) /\ IsInt(items[3])
      /\ IsEnumerated(items[2], 0 .. 2) /\ IsEnumerated(items[4], 0 .. 2)
      /\ IsOctets(items[5]) /\ IsOctets(items[6])
      /\ ListIsSoundBut(items[7], tags) /\ ListIsSoundBut(items[8], {})
  BY DEF DescriptionIsSoundBut, IsSequence, Software, Hardware
<1>2. items[7].items \in Entries /\ items[8].items \in Entries
  BY <1>1, ListsOf DEF Software, Hardware
<1>3. ~Failed(software)
  BY <1>1, <1>2, SoundListIs DEF Software
<1>4. ~Failed(hardware)
  BY <1>1, <1>2, SoundListIs
<1>5. ~Failed(ToInt(items[1])) /\ ~Failed(ToInt(items[3]))
  BY <1>1, IntIs, Outcomes
<1>6. {SOFTWARE, TRUSTED_ENVIRONMENT, STRONG_BOX} = 0 .. 2
  BY DEF SOFTWARE, TRUSTED_ENVIRONMENT, STRONG_BOX
<1>7. ~Failed(ToSecurityLevel(items[2])) /\ ~Failed(ToSecurityLevel(items[4]))
  <2>1. /\ ToSecurityLevel(items[2]) = Value(items[2].num)
        /\ ToSecurityLevel(items[4]) = Value(items[4].num)
    BY <1>1, <1>6, EnumeratedIs, Zenon DEF ToSecurityLevel
  <2> QED BY <2>1, Outcomes
<1>8. ~Failed(ToBytes(items[5])) /\ ~Failed(ToBytes(items[6]))
  BY <1>1, TextIs, Outcomes
<1>9. Parsed = Value(v)
  <2> HIDE DEF v
  <2>1. \A p \in {ToInt(items[1]), ToInt(items[3])} \cup
                 {ToSecurityLevel(items[2]), ToSecurityLevel(items[4])} : ~Failed(p)
    BY <1>5, <1>7
  <2> QED BY <1>1, <1>3, <1>4, <1>8, <2>1, Zenon DEF Parsed, ParseKeyDescription, v
<1> QED BY <1>9, Outcomes, Zenon

\* An application id that is no two elements in an octet string takes the description with it.
LEMMA BrokenIdFails ==
    ASSUME submission \in Submissions, Len(Description.items) = 8,
           NEW e \in Last(Software, "attestationApplicationId"),
           IsOctets(e), ~e.good \/ Len(e.items) # 2
    PROVE  Failed(Parsed)
<1>1. "attestationApplicationId" \in KNOWN_TAGS \ {"ignored"}
  BY DEF KNOWN_TAGS
<1>2. e \in Elements /\ Attribute(Software, "attestationApplicationId") =
                            Convert("attestationApplicationId", e)
  BY <1>1, ListsOf, AttributeHolds
<1>3. Attribute(Software, "attestationApplicationId") = Abandon
  BY <1>2, ConvertIs, ApplicationIdIs
<1> QED BY <1>1, <1>3, ParsedIs

-----------------------------------------------------------------------------
\* Constraints, each as what it says of the description.

LEMMA LevelIs ==
    ASSUME ~Failed(Parsed)
    PROVE  HardwareLevel <=> /\ Parsed.is.keyMintSecurityLevel = Parsed.is.attestationSecurityLevel
                             /\ Parsed.is.attestationSecurityLevel # SOFTWARE
                             /\ MatchesCertificate(Parsed.is)
<1> DEFINE first == Description.items[2].num
           second == Description.items[4].num
           tees == chain[2].subject \in TeeNames
           boxes == chain[2].subject \in StrongBoxNames
           mentions == {chain[2].subject, Chain!Intermediate.subject} \cap StrongBoxMentions # {}
           strongBox == \/ Chain!Method = "remote" /\ boxes /\ ~tees
                        \/ Chain!Method = "factory" /\ mentions
           tee == ~strongBox /\ (Chain!Method = "remote" => tees)
<1>1. /\ IsEnumerated(Description.items[2], 0 .. 2) /\ IsEnumerated(Description.items[4], 0 .. 2)
      /\ Parsed.is.attestationSecurityLevel = first /\ Parsed.is.keyMintSecurityLevel = second
  BY ParsedIs
<1>2. /\ first \in 0 .. 2 /\ second \in 0 .. 2
      /\ \A level : /\ IsEnumerated(Description.items[2], {level}) <=> first = level
                    /\ IsEnumerated(Description.items[4], {level}) <=> second = level
  BY <1>1 DEF IsEnumerated
<1>3. HardwareLevel <=> \E level \in {1, 2} : first = level /\ second = level
                                              /\ IF level = 2 THEN strongBox ELSE tee
  BY <1>2, Zenon DEF HardwareLevel, TRUSTED_ENVIRONMENT, STRONG_BOX
<1>4. PathSecurityLevel = IF Chain!Method = "unknown" THEN -1
                          ELSE IF Chain!Method = "remote"
                          THEN IF tees THEN 1 ELSE IF boxes THEN 2 ELSE 0
                          ELSE IF mentions THEN 2 ELSE -1
  BY Zenon DEF PathSecurityLevel, NoLevel, TRUSTED_ENVIRONMENT, STRONG_BOX, SOFTWARE
<1>5. Chain!Method \in {"factory", "remote", "unknown"}
  BY Zenon DEF Chain!Method
<1>6. MatchesCertificate(Parsed.is) <=>
          IF second = 2 THEN PathSecurityLevel = 2 ELSE PathSecurityLevel \in {-1, second}
  BY <1>1, Zenon DEF MatchesCertificate, NoLevel, STRONG_BOX
<1>7. Parsed.is.attestationSecurityLevel # SOFTWARE <=> first # 0
  BY <1>1 DEF SOFTWARE
<1>8. (PathSecurityLevel = 2 <=> strongBox) /\ (PathSecurityLevel \in {-1, 1} <=> tee)
  BY <1>4, <1>5
<1> HIDE DEF first, second, tees, boxes, mentions, strongBox, tee
<1> QED BY <1>1, <1>2, <1>3, <1>6, <1>7, <1>8

LEMMA AppIs ==
    ASSUME submission \in Submissions, ~Failed(Parsed)
    PROVE  RightApp <=> AppIdentity(Parsed.is)
<1> DEFINE app == Attribute(Software, "attestationApplicationId")
           last == Last(Software, "attestationApplicationId")
           Packages(e) == {<<p.items[1].text, p.items[2].num>> : p \in Members(e.items[1])}
           Signatures(e) == {s.text : s \in Members(e.items[2])}
           Alone(e) == /\ \E p \in Members(e.items[1]) :
                             /\ p.items[1].text = PackageName
                             /\ \A q \in Members(e.items[1]) :
                                   q.items[1].text = PackageName /\ q.items[2].num = p.items[2].num
                       /\ Signatures(e) = {Signer}
<1>1. "attestationApplicationId" \in KNOWN_TAGS \ {"ignored"}
  BY DEF KNOWN_TAGS
<1>2. Software.items \in Entries
  BY ParsedIs, ListsOf
<1>3. Parsed.is.softwareEnforced["attestationApplicationId"] = app
  BY <1>1, ParsedIs
<1>4. /\ ~Failed(app) <=> \E e \in last : ApplicationIdIsSound(e)
      /\ \A e \in last : e \in Elements /\ app = ToAttestationApplicationId(e)
  BY <1>1, <1>2, AttributeHolds, SoundIs, ConvertIs
<1>5. \A e \in last : ApplicationIdIsSound(e) =>
          app.is.packages = Packages(e) /\ app.is.signatures = Signatures(e)
  <2> SUFFICES ASSUME NEW e \in last, ApplicationIdIsSound(e)
               PROVE  app.is.packages = Packages(e) /\ app.is.signatures = Signatures(e)
    OBVIOUS
  <2>1. app = Value([packages |-> Packages(e), signatures |-> Signatures(e)])
    BY <1>4, ApplicationIdIs
  <2>2. app.is = [packages |-> Packages(e), signatures |-> Signatures(e)]
    BY <2>1, Outcomes, Zenon
  <2> HIDE DEF app, Packages, Signatures
  <2> QED BY <2>2
<1>6. \A e : (\E version \in {p[2] : p \in Packages(e)} : Packages(e) = {<<PackageName, version>>})
                /\ Signatures(e) = {Signer} <=> Alone(e)
  <2> SUFFICES ASSUME NEW e
               PROVE  (\E version \in {p[2] : p \in Packages(e)} :
                           Packages(e) = {<<PackageName, version>>}) <=>
                      (\E p \in Members(e.items[1]) :
                          /\ p.items[1].text = PackageName
                          /\ \A q \in Members(e.items[1]) :
                                q.items[1].text = PackageName /\ q.items[2].num = p.items[2].num)
    BY Zenon
  <2> HIDE DEF app, last, Packages, Signatures, Alone
  <2>1. ASSUME NEW version \in {p[2] : p \in Packages(e)}, Packages(e) = {<<PackageName, version>>}
        PROVE  \E p \in Members(e.items[1]) :
                  /\ p.items[1].text = PackageName
                  /\ \A q \in Members(e.items[1]) :
                        q.items[1].text = PackageName /\ q.items[2].num = p.items[2].num
    <3>1. \A q \in Members(e.items[1]) :
              <<q.items[1].text, q.items[2].num>> = <<PackageName, version>>
      <4>1. \A q \in Members(e.items[1]) : <<q.items[1].text, q.items[2].num>> \in Packages(e)
        BY Zenon DEF Packages
      <4> QED BY <2>1, <4>1
    <3>2. \A q \in Members(e.items[1]) : q.items[1].text = PackageName /\ q.items[2].num = version
      BY <3>1
    <3>3. Members(e.items[1]) # {}
      BY <2>1, Zenon DEF Packages
    <3> QED BY <3>2, <3>3
  <2>2. ASSUME NEW p \in Members(e.items[1]), p.items[1].text = PackageName,
               \A q \in Members(e.items[1]) :
                   q.items[1].text = PackageName /\ q.items[2].num = p.items[2].num
        PROVE  \E version \in {r[2] : r \in Packages(e)} : Packages(e) = {<<PackageName, version>>}
    <3>1. Packages(e) = {<<PackageName, p.items[2].num>>}
      <4>1. \A r \in Packages(e) : r = <<PackageName, p.items[2].num>>
        BY <2>2, Zenon DEF Packages
      <4>2. <<PackageName, p.items[2].num>> \in Packages(e)
        BY <2>2, Zenon DEF Packages
      <4> QED BY <4>1, <4>2
    <3>2. p.items[2].num \in {r[2] : r \in Packages(e)}
      <4> HIDE DEF Packages
      <4> QED BY <3>1
    <3> HIDE DEF Packages
    <3> QED BY <3>1, <3>2, Zenon
  <2> QED BY <2>1, <2>2
<1>7. RightApp <=> \E e \in last : ApplicationIdIsSound(e) /\ Alone(e)
  BY Zenon DEF RightApp
<1>8. AppIdentity(Parsed.is) <=>
          /\ ~Failed(app)
          /\ \E version \in {p[2] : p \in app.is.packages} :
                app.is.packages = {<<PackageName, version>>}
          /\ app.is.signatures = {Signer}
  BY <1>3, Zenon DEF AppIdentity
<1> HIDE DEF app, last, Packages, Signatures, Alone
<1>9. ASSUME NEW e \in last, ApplicationIdIsSound(e)
      PROVE  AppIdentity(Parsed.is) <=> Alone(e)
  BY <1>4, <1>5, <1>6, <1>8, <1>9, Zenon
<1>10. \A e, f \in last : e = f
  BY <1>2, AttributeIs DEF last
<1> QED BY <1>4, <1>7, <1>8, <1>9, <1>10, Zenon

LEMMA BootIs ==
    ASSUME submission \in Submissions, ~Failed(Parsed)
    PROVE  /\ HasRootOfTrust <=> ~Failed(Parsed.is.hardwareEnforced["rootOfTrust"])
           /\ LockedAndVerified <=> DeviceIntegrity(Parsed.is)
<1> DEFINE boot == Attribute(Hardware, "rootOfTrust")
           last == Last(Hardware, "rootOfTrust")
<1>1. "rootOfTrust" \in KNOWN_TAGS \ {"ignored"}
  BY DEF KNOWN_TAGS
<1>2. Hardware.items \in Entries
  BY ParsedIs, ListsOf
<1>3. Parsed.is.hardwareEnforced["rootOfTrust"] = boot
  BY <1>1, ParsedIs
<1>4. /\ ~Failed(boot) <=> \E e \in last : RootOfTrustIsSound(e)
      /\ \A e \in last : boot = ToRootOfTrust(e)
  BY <1>1, <1>2, AttributeHolds, SoundIs, ConvertIs
<1>5. \A e \in last : RootOfTrustIsSound(e) =>
          /\ boot.is.deviceLocked <=> e.items[2].num # 0
          /\ boot.is.verifiedBootState = e.items[3].num
  <2> SUFFICES ASSUME NEW e \in last, RootOfTrustIsSound(e)
               PROVE  /\ boot.is.deviceLocked <=> e.items[2].num # 0
                      /\ boot.is.verifiedBootState = e.items[3].num
    OBVIOUS
  <2>1. boot = Value([deviceLocked |-> e.items[2].num # 0, verifiedBootState |-> e.items[3].num])
    BY <1>4, RootOfTrustIs
  <2>2. boot.is = [deviceLocked |-> e.items[2].num # 0, verifiedBootState |-> e.items[3].num]
    BY <2>1, Outcomes, Zenon
  <2> DEFINE locked == e.items[2].num # 0
  <2> HIDE DEF boot, locked
  <2>3. boot.is = [deviceLocked |-> locked, verifiedBootState |-> e.items[3].num]
    BY <2>2 DEF locked
  <2>4. boot.is.deviceLocked = locked /\ boot.is.verifiedBootState = e.items[3].num
    BY <2>3
  <2> QED BY <2>4, Zenon DEF locked
<1>6. \A e, f \in last : e = f
  BY <1>2, AttributeIs DEF last
<1>7. HasRootOfTrust <=> ~Failed(boot)
  BY <1>4, Zenon DEF HasRootOfTrust
<1>8. LockedAndVerified <=> \E e \in last :
          RootOfTrustIsSound(e) /\ e.items[2].num # 0 /\ e.items[3].num = VERIFIED
  BY Zenon DEF LockedAndVerified
<1>9. DeviceIntegrity(Parsed.is) <=>
          ~Failed(boot) /\ boot.is.deviceLocked /\ boot.is.verifiedBootState = VERIFIED
  BY <1>3, Zenon DEF DeviceIntegrity
<1> HIDE DEF boot, last
<1> QED BY <1>3, <1>4, <1>5, <1>6, <1>7, <1>8, <1>9, Zenon

LEMMA SigningIs ==
    ASSUME submission \in Submissions, ~Failed(Parsed)
    PROVE  /\ Generated <=> Is(Parsed.is.hardwareEnforced["origin"], GENERATED)
           /\ SignsOnly <=> SigningKey(Parsed.is)
<1>1. Hardware.items \in Entries
  BY ParsedIs, ListsOf
<1>2. {"origin", "purpose", "algorithm", "keySize", "ecCurve", "digest"} \subseteq KNOWN_TAGS
  BY DEF KNOWN_TAGS, IntTags, IntSetTags
<1>3. \A tag \in {"origin", "purpose", "algorithm", "keySize", "ecCurve", "digest"} :
          Parsed.is.hardwareEnforced[tag] = Attribute(Hardware, tag)
  BY <1>2, ParsedIs
<1>4. /\ HasOnly("purpose", SIGN) <=> Is(Attribute(Hardware, "purpose"), {SIGN})
      /\ HasOnly("digest", SHA256) <=> Is(Attribute(Hardware, "digest"), {SHA256})
  <2>1. "purpose" \in IntSetTags /\ "digest" \in IntSetTags
    BY DEF IntSetTags
  <2> QED BY <1>1, <2>1, HasOnlyIs
<1>5. /\ HasNumber("algorithm", EC) <=> Is(Attribute(Hardware, "algorithm"), EC)
      /\ HasNumber("keySize", KEY_256) <=> Is(Attribute(Hardware, "keySize"), KEY_256)
      /\ HasNumber("ecCurve", P256) <=> Is(Attribute(Hardware, "ecCurve"), P256)
  <2>1. {"algorithm", "keySize", "ecCurve"} \subseteq IntTags
    BY DEF IntTags
  <2> QED BY <1>1, <2>1, HasNumberIs
<1>6. Generated <=> Is(Attribute(Hardware, "origin"), GENERATED)
  <2>1. "origin" \in IntTags \cup {"origin"} /\ GENERATED \in 0 .. 4
    BY DEF GENERATED
  <2> QED BY <1>1, <2>1, HasNumberIs DEF Generated
<1> QED BY <1>3, <1>4, <1>5, <1>6, Zenon DEF SignsOnly, SigningKey

\* The constraints in their order, and the code of the first that is not met.
LEMMA ConstraintVerdictIs ==
    ASSUME NEW d
    PROVE  ConstraintVerdict(d) =
               IF ~Is(d.hardwareEnforced["origin"], GENERATED) THEN "attestation_invalid"
               ELSE IF ~(/\ d.keyMintSecurityLevel = d.attestationSecurityLevel
                         /\ d.attestationSecurityLevel # SOFTWARE) THEN "no_hardware_attestation"
               ELSE IF Failed(d.hardwareEnforced["rootOfTrust"]) THEN "attestation_invalid"
               ELSE IF ~MatchesCertificate(d) THEN "no_hardware_attestation"
               ELSE IF ~AppIdentity(d) THEN "app_integrity"
               ELSE IF ~DeviceIntegrity(d) THEN "device_integrity"
               ELSE IF ~SigningKey(d) THEN "attestation_invalid"
               ELSE "constrained"
<1> DEFINE all == Constraints(d)
           met1 == Is(d.hardwareEnforced["origin"], GENERATED)
           met2 == /\ d.keyMintSecurityLevel = d.attestationSecurityLevel
                   /\ d.attestationSecurityLevel # SOFTWARE
           met3 == ~Failed(d.hardwareEnforced["rootOfTrust"])
           met4 == MatchesCertificate(d)
           met5 == AppIdentity(d)
           met6 == DeviceIntegrity(d)
           met7 == SigningKey(d)
           violated == {i \in DOMAIN all : ~all[i].met}
<1>1. /\ CodeOf("Origin") = "attestation_invalid"
      /\ CodeOf("Security level") = "no_hardware_attestation"
      /\ CodeOf("Root of trust") = "attestation_invalid"
      /\ CodeOf("App identity") = "app_integrity"
      /\ CodeOf("Device integrity") = "device_integrity"
      /\ CodeOf("Signing key") = "attestation_invalid"
  BY Zenon DEF CodeOf
<1> DEFINE c1 == Constraint("Origin", met1)
           c2 == Constraint("Security level", met2)
           c3 == Constraint("Root of trust", met3)
           c4 == Constraint("Security level", met4)
           c5 == Constraint("App identity", met5)
           c6 == Constraint("Device integrity", met6)
           c7 == Constraint("Signing key", met7)
<1>2. all = <<c1, c2, c3, c4, c5, c6, c7>>
  BY Zenon DEF Constraints
<1>3. ConstraintVerdict(d) = IF violated = {} THEN "constrained" ELSE CodeOf(all[Min(violated)].label)
  BY Zenon DEF ConstraintVerdict
<1>4. \A label, met : Constraint(label, met).label = label /\ Constraint(label, met).met = met
  BY DEF Constraint
<1> HIDE DEF all, met1, met2, met3, met4, met5, met6, met7, c1, c2, c3, c4, c5, c6, c7
<1>5. /\ DOMAIN all = 1 .. 7
      /\ all[1] = c1 /\ all[2] = c2 /\ all[3] = c3 /\ all[4] = c4 /\ all[5] = c5
      /\ all[6] = c6 /\ all[7] = c7
  BY <1>2
<1>6. /\ all[1].label = "Origin" /\ all[2].label = "Security level"
      /\ all[3].label = "Root of trust" /\ all[4].label = "Security level"
      /\ all[5].label = "App identity" /\ all[6].label = "Device integrity"
      /\ all[7].label = "Signing key"
  BY <1>4, <1>5, Zenon DEF c1, c2, c3, c4, c5, c6, c7
<1>7. /\ all[1].met = met1 /\ all[2].met = met2 /\ all[3].met = met3 /\ all[4].met = met4
      /\ all[5].met = met5 /\ all[6].met = met6 /\ all[7].met = met7
  <2>1. c1.met = met1  BY DEF c1, Constraint
  <2>2. c2.met = met2  BY DEF c2, Constraint
  <2>3. c3.met = met3  BY DEF c3, Constraint
  <2>4. c4.met = met4  BY DEF c4, Constraint
  <2>5. c5.met = met5  BY DEF c5, Constraint
  <2>6. c6.met = met6  BY DEF c6, Constraint
  <2>7. c7.met = met7  BY DEF c7, Constraint
  <2> QED BY <1>5, <2>1, <2>2, <2>3, <2>4, <2>5, <2>6, <2>7, Zenon
<1>8. \A i \in violated : i \in 1 .. 7 /\ ~all[i].met
  BY <1>5, Zenon
<1>9. \A i \in 1 .. 7 : ~all[i].met => i \in violated
  BY <1>5, Zenon
<1> HIDE DEF violated
<1>10. violated \in SUBSET Nat
  BY <1>8
<1>11. ASSUME NEW i \in 1 .. 7, ~all[i].met, \A k \in 1 .. (i - 1) : all[k].met
       PROVE  ConstraintVerdict(d) = CodeOf(all[i].label)
  <2>1. i \in violated
    BY <1>9, <1>11
  <2>2. \A k \in violated : i <= k
    <3> SUFFICES ASSUME NEW k \in violated, ~(i <= k) PROVE FALSE
      OBVIOUS
    <3>1. k \in 1 .. 7 /\ ~all[k].met
      BY <1>8
    <3>2. k \in 1 .. (i - 1)
      BY <3>1
    <3> QED BY <1>11, <3>1, <3>2, Zenon
  <2>3. Min(violated) = i
    BY <1>10, <2>1, <2>2, MinIs
  <2> QED BY <1>3, <2>1, <2>3
<1>12. /\ \A k \in 1 .. (1 - 1) : FALSE
       /\ \A k \in 1 .. (2 - 1) : k = 1
       /\ \A k \in 1 .. (3 - 1) : k = 1 \/ k = 2
       /\ \A k \in 1 .. (4 - 1) : k = 1 \/ k = 2 \/ k = 3
       /\ \A k \in 1 .. (5 - 1) : k = 1 \/ k = 2 \/ k = 3 \/ k = 4
       /\ \A k \in 1 .. (6 - 1) : k = 1 \/ k = 2 \/ k = 3 \/ k = 4 \/ k = 5
       /\ \A k \in 1 .. (7 - 1) : k = 1 \/ k = 2 \/ k = 3 \/ k = 4 \/ k = 5 \/ k = 6
       /\ \A k \in 1 .. 7 : k = 1 \/ k = 2 \/ k = 3 \/ k = 4 \/ k = 5 \/ k = 6 \/ k = 7
       /\ 1 \in 1 .. 7 /\ 2 \in 1 .. 7 /\ 3 \in 1 .. 7 /\ 4 \in 1 .. 7
       /\ 5 \in 1 .. 7 /\ 6 \in 1 .. 7 /\ 7 \in 1 .. 7
  OBVIOUS
<1>13. ~met1 => ConstraintVerdict(d) = CodeOf("Origin")
  BY <1>6, <1>7, <1>11, <1>12, Zenon
<1>14. met1 /\ ~met2 => ConstraintVerdict(d) = CodeOf("Security level")
  BY <1>6, <1>7, <1>11, <1>12, Zenon
<1>15. met1 /\ met2 /\ ~met3 => ConstraintVerdict(d) = CodeOf("Root of trust")
  BY <1>6, <1>7, <1>11, <1>12, Zenon
<1>16. met1 /\ met2 /\ met3 /\ ~met4 => ConstraintVerdict(d) = CodeOf("Security level")
  BY <1>6, <1>7, <1>11, <1>12, Zenon
<1>17. met1 /\ met2 /\ met3 /\ met4 /\ ~met5 => ConstraintVerdict(d) = CodeOf("App identity")
  BY <1>6, <1>7, <1>11, <1>12, Zenon
<1>18. met1 /\ met2 /\ met3 /\ met4 /\ met5 /\ ~met6 =>
           ConstraintVerdict(d) = CodeOf("Device integrity")
  BY <1>6, <1>7, <1>11, <1>12, Zenon
<1>19. met1 /\ met2 /\ met3 /\ met4 /\ met5 /\ met6 /\ ~met7 =>
           ConstraintVerdict(d) = CodeOf("Signing key")
  BY <1>6, <1>7, <1>11, <1>12, Zenon
<1>20. met1 /\ met2 /\ met3 /\ met4 /\ met5 /\ met6 /\ met7 =>
           ConstraintVerdict(d) = "constrained"
  <2>1. met1 /\ met2 /\ met3 /\ met4 /\ met5 /\ met6 /\ met7 => violated = {}
    BY <1>7, <1>8, <1>12, Zenon
  <2> QED BY <1>3, <2>1, Zenon
<1>21. ConstraintVerdict(d) =
           IF ~met1 THEN "attestation_invalid" ELSE IF ~met2 THEN "no_hardware_attestation"
           ELSE IF ~met3 THEN "attestation_invalid" ELSE IF ~met4 THEN "no_hardware_attestation"
           ELSE IF ~met5 THEN "app_integrity" ELSE IF ~met6 THEN "device_integrity"
           ELSE IF ~met7 THEN "attestation_invalid" ELSE "constrained"
  BY <1>1, <1>13, <1>14, <1>15, <1>16, <1>17, <1>18, <1>19, <1>20, Zenon
<1> QED BY <1>21, Zenon DEF met1, met2, met3, met4, met5, met6, met7

\* What each verdict of the constraints says of the leaf's description, and when it is
\* given (path.ts:134-157, 182-195).
THEOREM CheckVerdictIs ==
    ASSUME submission \in Submissions
    PROVE  /\ CheckVerdict = "constrained" <=>
                 /\ ~Failed(Parsed) /\ RightChallenge
                 /\ Generated /\ HardwareLevel /\ LockedAndVerified /\ RightApp /\ SignsOnly
           /\ CheckVerdict = "no_hardware_attestation" =>
                 RightChallenge /\ Generated /\ ~HardwareLevel
           /\ CheckVerdict = "app_integrity" <=>
                 /\ ~Failed(Parsed) /\ RightChallenge
                 /\ Generated /\ HardwareLevel /\ HasRootOfTrust /\ ~RightApp
           /\ CheckVerdict = "device_integrity" =>
                 /\ RightChallenge /\ Generated /\ HardwareLevel /\ HasRootOfTrust /\ RightApp
                 /\ ~LockedAndVerified
           /\ Failed(Parsed) => CheckVerdict = "attestation_invalid"
           /\ CheckVerdict \in {"constrained"} \cup ReferenceCodes
<1>1. CASE Failed(Parsed)
  BY <1>1 DEF CheckVerdict, ReferenceCodes
<1>2. CASE ~Failed(Parsed)
  <2>1. RightChallenge <=> Parsed.is.attestationChallenge = Challenge
    BY <1>2, ParsedIs DEF RightChallenge
  <2>2. LockedAndVerified => HasRootOfTrust
    BY Zenon DEF LockedAndVerified, HasRootOfTrust
  <2>3. CASE ~RightChallenge
    BY <1>2, <2>1, <2>3 DEF CheckVerdict, ReferenceCodes
  <2>4. CASE RightChallenge
    <3>1. CheckVerdict = ConstraintVerdict(Parsed.is)
      BY <1>2, <2>1, <2>4 DEF CheckVerdict
    <3>2. /\ Generated <=> Is(Parsed.is.hardwareEnforced["origin"], GENERATED)
          /\ SignsOnly <=> SigningKey(Parsed.is)
          /\ HasRootOfTrust <=> ~Failed(Parsed.is.hardwareEnforced["rootOfTrust"])
          /\ LockedAndVerified <=> DeviceIntegrity(Parsed.is)
          /\ RightApp <=> AppIdentity(Parsed.is)
          /\ HardwareLevel <=> /\ Parsed.is.keyMintSecurityLevel = Parsed.is.attestationSecurityLevel
                               /\ Parsed.is.attestationSecurityLevel # SOFTWARE
                               /\ MatchesCertificate(Parsed.is)
      BY <1>2, SigningIs, BootIs, AppIs, LevelIs
    <3> DEFINE level == /\ Parsed.is.keyMintSecurityLevel = Parsed.is.attestationSecurityLevel
                        /\ Parsed.is.attestationSecurityLevel # SOFTWARE
               matches == MatchesCertificate(Parsed.is)
    <3>3. CheckVerdict =
              IF ~Generated THEN "attestation_invalid"
              ELSE IF ~level THEN "no_hardware_attestation"
              ELSE IF ~HasRootOfTrust THEN "attestation_invalid"
              ELSE IF ~matches THEN "no_hardware_attestation"
              ELSE IF ~RightApp THEN "app_integrity"
              ELSE IF ~LockedAndVerified THEN "device_integrity"
              ELSE IF ~SignsOnly THEN "attestation_invalid"
              ELSE "constrained"
      BY <3>1, <3>2, ConstraintVerdictIs, Zenon
    <3>4. HardwareLevel <=> level /\ matches
      BY <3>2, Zenon
    <3> HIDE DEF level, matches
    <3> QED BY <1>2, <2>2, <2>4, <3>3, <3>4 DEF ReferenceCodes
  <2> QED BY <2>3, <2>4
<1> QED BY <1>1, <1>2

-----------------------------------------------------------------------------
\* Patch levels: the calendar against the arithmetic of the code.

LEMMA DivMod ==
    /\ \A y \in Nat, k \in 0 .. 99 : (y * 100 + k) \div 100 = y /\ (y * 100 + k) % 100 = k
    /\ \A y \in Nat, k \in 0 .. 11 : (y * 12 + k) \div 12 = y /\ (y * 12 + k) % 12 = k
    /\ \A m \in Nat : /\ m \div 100 \in Nat /\ m % 100 \in 0 .. 99
                      /\ m = (m \div 100) * 100 + (m % 100)
    /\ \A m \in Nat : /\ m \div 12 \in Nat /\ m % 12 \in 0 .. 11
                      /\ m = (m \div 12) * 12 + (m % 12)
BY SMTT(30)

\* Months are numbered as in PatchMonth.
MonthOf(t) == <<t \div 12, (t % 12) + 1>>

LEMMA MonthOfIs ==
    ASSUME NEW y \in Nat, NEW k \in 0 .. 11, NEW t, t = y * 12 + k
    PROVE  MonthOf(t) = <<y, k + 1>>
<1>1. t \div 12 = y /\ t % 12 = k
  BY DivMod, Zenon
<1> QED BY <1>1, Zenon DEF MonthOf

LEMMA NextMonthIs ==
    ASSUME NEW y \in Nat, NEW m \in 1 .. 12
    PROVE  NextMonth(<<y, m>>) = MonthOf(y * 12 + m)
<1>1. CASE m = 12
  <2>1. y + 1 \in Nat /\ 0 \in 0 .. 11 /\ y * 12 + m = (y + 1) * 12 + 0
    BY <1>1
  <2>2. MonthOf(y * 12 + m) = <<y + 1, 0 + 1>>
    BY <2>1, MonthOfIs, Zenon
  <2> QED BY <1>1, <2>2 DEF NextMonth
<1>2. CASE m # 12
  <2>1. m \in 0 .. 11
    BY <1>2
  <2>2. MonthOf(y * 12 + m) = <<y, m + 1>>
    BY <2>1, MonthOfIs, Zenon
  <2> QED BY <1>2, <2>2 DEF NextMonth
<1> QED BY <1>1, <1>2

LEMMA PreviousMonthIs ==
    ASSUME NEW t \in Nat \ {0}
    PROVE  PreviousMonth(MonthOf(t)) = MonthOf(t - 1)
<1> DEFINE y == t \div 12
           k == t % 12
<1>1. y \in Nat /\ k \in 0 .. 11 /\ t = y * 12 + k
  BY DivMod
<1>2. MonthOf(t) = <<y, k + 1>>
  BY DEF MonthOf
<1> HIDE DEF y, k
<1>3. CASE k = 0
  <2>1. y - 1 \in Nat /\ 11 \in 0 .. 11
    BY <1>1, <1>3
  <2>2. t - 1 = (y - 1) * 12 + 11
    BY <1>1, <1>3
  <2>3. MonthOf(t - 1) = <<y - 1, 11 + 1>>
    BY <2>1, <2>2, MonthOfIs, Zenon
  <2> QED BY <1>2, <1>3, <2>3 DEF PreviousMonth
<1>4. CASE k # 0
  <2>1. t - 1 = y * 12 + (k - 1) /\ k - 1 \in 0 .. 11 /\ (k - 1) + 1 = k
    BY <1>1, <1>4
  <2>2. MonthOf(t - 1) = <<y, (k - 1) + 1>>
    BY <1>1, <2>1, MonthOfIs, Zenon
  <2> QED BY <1>1, <1>2, <1>4, <2>1, <2>2 DEF PreviousMonth
<1> QED BY <1>3, <1>4

Current == submission.year * 12 + submission.month - 1

LEMMA CurrentIs ==
    ASSUME submission \in Submissions
    PROVE  /\ submission.year \in Nat /\ submission.month \in 1 .. 12
           /\ Current \in Nat /\ 23652 <= Current /\ Current <= 119987
<1> DEFINE y == submission.year
           m == submission.month
<1>1. y \in 1971 .. 9998 /\ m \in 1 .. 12
  BY ClockAssumption
<1> HIDE DEF y, m
<1>2. y \in Nat /\ m \in Nat /\ 1971 <= y /\ y <= 9998 /\ 1 <= m /\ m <= 12
  BY <1>1
<1>3. 23652 <= y * 12 + m - 1 /\ y * 12 + m - 1 <= 119987 /\ y * 12 + m - 1 \in Nat
  BY <1>2
<1> QED BY <1>1, <1>2, <1>3 DEF Current, y, m

\* MonthsBack counts down from the next month; it is the only function that does.
LEMMA MonthsBackIs ==
    ASSUME submission \in Submissions
    PROVE  \A n \in 0 .. 13 : MonthsBack[n] = MonthOf(Current + 1 - n)
<1> DEFINE Counts(f) == f = [n \in 0 .. 13 |->
                                IF n = 0 THEN NextMonth(<<submission.year, submission.month>>)
                                         ELSE PreviousMonth(f[n - 1])]
           back == [n \in 0 .. 13 |-> MonthOf(Current + 1 - n)]
<1>1. NextMonth(<<submission.year, submission.month>>) = MonthOf(Current + 1)
  <2>1. submission.year \in Nat /\ submission.month \in 1 .. 12
    BY CurrentIs
  <2>2. Current + 1 = submission.year * 12 + submission.month
    BY <2>1 DEF Current
  <2> QED BY <2>1, <2>2, NextMonthIs
<1>2. \A n \in 1 .. 13 : PreviousMonth(MonthOf(Current + 1 - (n - 1))) = MonthOf(Current + 1 - n)
  <2> SUFFICES ASSUME NEW n \in 1 .. 13
               PROVE  PreviousMonth(MonthOf(Current + 1 - (n - 1))) = MonthOf(Current + 1 - n)
    OBVIOUS
  <2> DEFINE t == Current + 1 - (n - 1)
  <2>1. t \in Nat \ {0} /\ t - 1 = Current + 1 - n
    BY CurrentIs
  <2> HIDE DEF t
  <2>2. PreviousMonth(MonthOf(t)) = MonthOf(t - 1)
    BY <2>1, PreviousMonthIs
  <2> QED BY <2>1, <2>2 DEF t
<1>3. Counts(back)
  <2>1. \A n \in 0 .. 13 : back[n] = IF n = 0 THEN MonthOf(Current + 1)
                                              ELSE PreviousMonth(back[n - 1])
    <3> SUFFICES ASSUME NEW n \in 0 .. 13
                 PROVE  back[n] = IF n = 0 THEN MonthOf(Current + 1)
                                           ELSE PreviousMonth(back[n - 1])
      OBVIOUS
    <3>1. CASE n = 0
      <4>1. Current + 1 - n = Current + 1
        BY <3>1, CurrentIs
      <4> QED BY <3>1, <4>1
    <3>2. CASE n # 0
      <4>1. n \in 1 .. 13 /\ n - 1 \in 0 .. 13
        BY <3>2
      <4>2. back[n - 1] = MonthOf(Current + 1 - (n - 1)) /\ back[n] = MonthOf(Current + 1 - n)
        BY <4>1, Zenon
      <4> QED BY <1>2, <3>2, <4>1, <4>2, Zenon
    <3> QED BY <3>1, <3>2
  <2> QED BY <1>1, <2>1, Zenon
<1>4. MonthsBack = CHOOSE f : Counts(f)
  BY Zenon DEF MonthsBack
<1> HIDE DEF Counts, back
<1>5. Counts(MonthsBack)
  BY <1>3, <1>4, Zenon
<1>6. /\ MonthsBack[0] = MonthOf(Current + 1)
      /\ \A n \in 1 .. 13 : MonthsBack[n] = PreviousMonth(MonthsBack[n - 1])
  <2>1. \A n \in 0 .. 13 : MonthsBack[n] = IF n = 0 THEN MonthOf(Current + 1)
                                                    ELSE PreviousMonth(MonthsBack[n - 1])
    BY <1>1, <1>5, Zenon DEF Counts
  <2> QED BY <2>1
<1> DEFINE wrong == {n \in 0 .. 13 : MonthsBack[n] # MonthOf(Current + 1 - n)}
<1>7. CASE wrong = {}
  BY <1>7, Zenon
<1>8. CASE wrong # {}
  <2>1. PICK m \in wrong : \A k \in wrong : m <= k
    <3>1. wrong \in SUBSET Nat
      OBVIOUS
    <3> HIDE DEF wrong
    <3> QED BY <1>8, <3>1, HasMin
  <2>2. m \in 0 .. 13 /\ MonthsBack[m] # MonthOf(Current + 1 - m)
    OBVIOUS
  <2>3. m # 0
    <3>1. Current + 1 - 0 = Current + 1
      BY CurrentIs
    <3> QED BY <1>6, <2>2, <3>1, Zenon
  <2>4. m \in 1 .. 13 /\ m - 1 \in 0 .. 13 /\ ~(m <= m - 1)
    BY <2>2, <2>3
  <2>5. MonthsBack[m - 1] = MonthOf(Current + 1 - (m - 1))
    BY <2>1, <2>4, Zenon
  <2> QED BY <1>2, <1>6, <2>2, <2>4, <2>5, Zenon
<1> QED BY <1>7, <1>8

LEMMA DigitsAre ==
    ASSUME NEW least \in Nat
    PROVE  \A level : level \in Digits(least) <=>
               level \in Int /\ least <= level /\ level < 10 * least
BY SMT DEF Digits

\* The form of a level, without the intervals.
Written(level) ==
    \/ level \in Int /\ 100000 <= level /\ level < 1000000
    \/ level \in Int /\ 10000000 <= level /\ level < 100000000

LEMMA WrittenIs ==
    \A level : Written(level) <=> level \in Digits(100000) \/ level \in Digits(10000000)
<1>1. \A level : level \in Digits(100000) <=> level \in Int /\ 100000 <= level /\ level < 1000000
  BY DigitsAre, SMT
<1>2. \A level : level \in Digits(10000000) <=>
                    level \in Int /\ 10000000 <= level /\ level < 100000000
  BY DigitsAre, SMT
<1> QED BY <1>1, <1>2, SMT DEF Written

\* The year and the month that a level is written for, as six digits.
WrittenFor(level, yyyymm) ==
    level = yyyymm \/ level \in (yyyymm * 100) .. (yyyymm * 100 + 99)

LEMMA WrittenForIs ==
    ASSUME NEW w \in Nat, 100000 <= w, w < 1000000, NEW level, WrittenFor(level, w)
    PROVE  Written(level) /\ YearAndMonth(level) = w
<1>1. CASE level = w
  BY <1>1, SMT DEF Written, YearAndMonth
<1>2. CASE level \in (w * 100) .. (w * 100 + 99)
  <2>1. PICK k \in 0 .. 99 : level = w * 100 + k
    <3>1. level - w * 100 \in 0 .. 99 /\ level = w * 100 + (level - w * 100)
      BY <1>2, SMT
    <3> QED BY <3>1, SMT
  <2>2. level \div 100 = w
    BY <2>1, DivMod, SMT
  <2>3. level \in Int /\ 10000000 <= level /\ level < 100000000
    BY <2>1, SMT
  <2> QED BY <2>2, <2>3, SMT DEF Written, YearAndMonth
<1> QED BY <1>1, <1>2, SMT DEF WrittenFor

LEMMA WrittenForYearAndMonth ==
    ASSUME NEW level, Written(level)
    PROVE  YearAndMonth(level) \in Nat /\ WrittenFor(level, YearAndMonth(level))
<1>1. level \in Nat
  BY SMT DEF Written
<1>2. CASE level < 1000000
  BY <1>1, <1>2, SMT DEF YearAndMonth, WrittenFor
<1>3. CASE ~(level < 1000000)
  <2> DEFINE w == level \div 100
             k == level % 100
  <2>1. w \in Nat /\ k \in 0 .. 99 /\ level = w * 100 + k
    BY <1>1, DivMod, SMT
  <2>2. YearAndMonth(level) = w
    BY <1>3, SMT DEF YearAndMonth
  <2> HIDE DEF w, k
  <2>3. level \in (w * 100) .. (w * 100 + 99)
    BY <2>1, SMT
  <2> QED BY <2>1, <2>2, <2>3, SMT DEF WrittenFor
<1> QED BY <1>2, <1>3, SMT

\* Where the months of the calendar are, by number.
LEMMA RecentMonthsAre ==
    ASSUME submission \in Submissions
    PROVE  RecentMonths = {MonthOf(t) : t \in (Current - 12) .. (Current + 1)}
<1>0. Current \in Nat /\ 12 <= Current
  BY CurrentIs, SMT
<1>1. RecentMonths = {MonthOf(Current + 1 - n) : n \in 0 .. 13}
  BY MonthsBackIs, Zenon DEF RecentMonths
<1>2. \A n \in 0 .. 13 : Current + 1 - n \in (Current - 12) .. (Current + 1)
  BY <1>0, SMT
<1>3. \A t \in (Current - 12) .. (Current + 1) :
          Current + 1 - t \in 0 .. 13 /\ t = Current + 1 - (Current + 1 - t)
  BY <1>0, SMT
<1> QED BY <1>1, <1>2, <1>3, Zenon

\* A level is recent on the calendar exactly when it is well formed and its month, as the
\* code counts months, is one of the fourteen (verifier.ts:93-113).
THEOREM RecentIs ==
    ASSUME submission \in Submissions, NEW level
    PROVE  IsRecent(level) <=>
               /\ WellFormed(level)
               /\ PatchMonth(level) \in (Current - MAX_PATCH_AGE_MONTHS) .. (Current + 1)
<1> DEFINE Recent(t) == WrittenFor(level, MonthOf(t)[1] * 100 + MonthOf(t)[2])
<1>1. IsRecent(level) <=> \E t \in (Current - 12) .. (Current + 1) : Recent(t)
  <2>1. IsRecent(level) <=> \E ym \in RecentMonths : WrittenFor(level, ym[1] * 100 + ym[2])
    BY Zenon DEF IsRecent, WrittenFor
  <2> QED BY <2>1, RecentMonthsAre, Zenon
<1>2. Current \in Nat /\ 23652 <= Current /\ Current <= 119987
  BY CurrentIs
<1> DEFINE ym == YearAndMonth(level)
<1>3. WellFormed(level) <=> Written(level) /\ ym % 100 \in 1 .. 12
  BY WrittenIs, SMT DEF WellFormed
<1>4. PatchMonth(level) = (ym \div 100) * 12 + (ym % 100) - 1
  BY SMT DEF PatchMonth
<1> HIDE DEF ym, Recent
<1>5. ASSUME NEW t \in (Current - 12) .. (Current + 1), Recent(t)
      PROVE  WellFormed(level) /\ PatchMonth(level) = t
  <2> DEFINE y == t \div 12
             k == t % 12
             w == y * 100 + (k + 1)
  <2>1. t \in Nat /\ 23640 <= t /\ t <= 119988
    BY <1>2, SMT
  <2>2. y \in Nat /\ k \in 0 .. 11 /\ t = y * 12 + k
    BY <2>1, DivMod, SMT
  <2>3. MonthOf(t)[1] = y /\ MonthOf(t)[2] = k + 1
    BY SMT DEF MonthOf
  <2>4. WrittenFor(level, w)
    BY <1>5, <2>3, SMT DEF Recent
  <2> HIDE DEF y, k
  <2>5. k + 1 \in 0 .. 99 /\ k + 1 \in 1 .. 12
    BY <2>2, SMT
  <2>6. 1970 <= y /\ y <= 9999
    BY <2>1, <2>2, SMT
  <2>7. w \in Nat /\ 100000 <= w /\ w < 1000000
    BY <2>2, <2>5, <2>6, SMT
  <2>8. w \div 100 = y /\ w % 100 = k + 1
    BY <2>2, <2>5, DivMod, SMT
  <2> HIDE DEF w
  <2>9. Written(level) /\ ym = w
    BY <2>4, <2>7, WrittenForIs, SMT DEF ym
  <2> QED BY <1>3, <1>4, <2>2, <2>5, <2>8, <2>9, SMT
<1>6. ASSUME WellFormed(level), PatchMonth(level) \in (Current - 12) .. (Current + 1)
      PROVE  Recent(PatchMonth(level))
  <2> DEFINE y == ym \div 100
             m == ym % 100
             t == PatchMonth(level)
  <2>1. Written(level) /\ m \in 1 .. 12
    BY <1>3, <1>6, SMT
  <2>2. ym \in Nat /\ WrittenFor(level, ym)
    BY <2>1, WrittenForYearAndMonth, SMT DEF ym
  <2>3. y \in Nat /\ ym = y * 100 + m
    BY <2>2, DivMod, SMT
  <2>4. t = y * 12 + m - 1
    BY <1>4, SMT
  <2> HIDE DEF y, m, t
  <2>5. t = y * 12 + (m - 1) /\ m - 1 \in 0 .. 11
    BY <2>1, <2>3, <2>4, SMT
  <2>6. MonthOf(t) = <<y, (m - 1) + 1>>
    BY <2>3, <2>5, MonthOfIs, Zenon
  <2>7. MonthOf(t)[1] = y /\ MonthOf(t)[2] = m
    BY <2>1, <2>6, SMT
  <2> QED BY <2>2, <2>3, <2>7, SMT DEF Recent, t
<1> QED BY <1>1, <1>5, <1>6, SMT DEF MAX_PATCH_AGE_MONTHS

\* The policy's test of the patch levels, on a description that was parsed.
LEMMA PatchesAre ==
    ASSUME submission \in Submissions, ~Failed(Parsed)
    PROVE  PatchesCurrent(Parsed.is.hardwareEnforced) <=>
               \A tag \in PatchTags : \E e \in Last(Hardware, tag) : IsRecent(e.num)
<1> DEFINE Recent(level) == /\ WellFormed(level)
                            /\ PatchMonth(level) \in
                                   (Current - MAX_PATCH_AGE_MONTHS) .. (Current + 1)
<1>1. Hardware.items \in Entries
  BY ParsedIs, ListsOf
<1>2. PatchesCurrent(Parsed.is.hardwareEnforced) <=>
          \A tag \in PatchTags : /\ ~Failed(Parsed.is.hardwareEnforced[tag])
                                 /\ Recent(Parsed.is.hardwareEnforced[tag].is)
  BY Zenon DEF PatchesCurrent, Current
<1>3. \A level : IsRecent(level) <=> Recent(level)
  BY RecentIs
<1> HIDE DEF Recent
<1>4. ASSUME NEW tag \in PatchTags
      PROVE  /\ ~Failed(Parsed.is.hardwareEnforced[tag])
             /\ Recent(Parsed.is.hardwareEnforced[tag].is)
             <=> \E e \in Last(Hardware, tag) : IsRecent(e.num)
  <2>1. tag \in KNOWN_TAGS \ {"ignored"}
    BY DEF KNOWN_TAGS, PatchTags
  <2>2. Parsed.is.hardwareEnforced[tag] = Attribute(Hardware, tag)
        /\ Attribute(Hardware, tag) # Abandon
    BY <2>1, ParsedIs
  <2>3. /\ ~Failed(Attribute(Hardware, tag)) <=> \E e \in Last(Hardware, tag) : IsSound(tag, e)
        /\ \A e \in Last(Hardware, tag) : IsSound(tag, e)
        /\ \A e \in Last(Hardware, tag) : Attribute(Hardware, tag) = Value(e.num)
    BY <1>1, <2>1, <2>2, AttributeHolds
  <2>4. \A e : Value(e.num).is = e.num
    BY Outcomes, Zenon
  <2>5. \A e \in Last(Hardware, tag) : Attribute(Hardware, tag).is = e.num
    BY <2>3, <2>4
  <2> QED BY <1>3, <2>2, <2>3, <2>5, Zenon
<1> QED BY <1>2, <1>4, Zenon

=============================================================================
