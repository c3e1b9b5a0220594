------------------------------ MODULE Verifier ------------------------------
(***************************************************************************)
(* AndroidVerifier.verify, from the request to its verdict: the chain is    *)
(* walked as in ChainVerifier, the key description of the leaf is parsed    *)
(* and held against the constraints in their order, the client proves that  *)
(* it has the key, and the policy is applied last.                          *)
(*                                                                          *)
(* A submission is all that a call of verify is given: the chain, the       *)
(* description that its leaf carries, the kind of the leaf's key, the proof *)
(* of possession and the month of the clock.  What is signed is represented *)
(* by the key that signed it and the message.                               *)
(***************************************************************************)
EXTENDS KeyDescription

CONSTANTS
    Names, FactoryNames, RemoteNames, Keys, Anchors, Requests,  \* as in ChainVerifier
    TeeNames,           \* names with O=TEE
    StrongBoxNames,     \* names with O=StrongBox
    StrongBoxMentions,  \* names with "strongbox" in any attribute
    PackageName,        \* what the server is configured with
    Signer,
    Challenge,          \* the challenge that the worker has verified
    Elements,           \* the DER elements that descriptions are made of
    Submissions         \* [chain, readable, description, curve, pop, year, month]

ASSUME SubmissionsAssumption == \A s \in Submissions : s.chain \in Requests

\* An element holds elements, if any, and the two lists of a description hold tagged ones.
ASSUME ElementsAssumption ==
    /\ \A e \in Elements : e.items \in Seq(Elements)
    /\ \A s \in Submissions : Len(s.description.items) = 8 =>
          \A i \in 7 .. 8 :
              s.description.items[i].items \in
                  Seq([tag : STRING, explicit : BOOLEAN, inner : Elements])

\* The worker's clock reads a month of a year that has four digits, as its neighbours do.
ASSUME ClockAssumption ==
    \A s \in Submissions : s.year \in 1971 .. 9998 /\ s.month \in 1 .. 12

VARIABLES
    chain, pc, anchor, at, step, parent,    \* as in ChainVerifier
    submission,     \* what the call was given; it never changes
    verdict         \* how far the call is after the walk, and in the end its verdict

walk == <<chain, pc, anchor, at, step, parent>>
vars == <<chain, pc, anchor, at, step, parent, submission, verdict>>

Chain == INSTANCE ChainVerifier

ASSUME WalkAssumption == Chain!ChainVerifierAssumption

PolicyCodes == {"no_remote_provisioning", "security_patch_outdated"}
ReferenceCodes == {"attestation_invalid", "app_integrity", "device_integrity",
                   "no_hardware_attestation"}
Codes == PolicyCodes \cup ReferenceCodes

TypeOK ==
    /\ Chain!TypeOK
    /\ verdict \in {"pending", "constrained", "possessed", "accepted"} \cup Codes
    /\ verdict = "pending" \/ verdict = "attestation_invalid" \/ pc = "described"

Init ==
    /\ submission \in Submissions
    /\ chain = submission.chain
    /\ Chain!Init
    /\ verdict = "pending"

-----------------------------------------------------------------------------
\* The answers about the security level that the names on the chain give.
NoLevel == -1

PathSecurityLevel ==
    LET attestation == chain[2].subject IN
    IF Chain!Method = "unknown" THEN NoLevel
    ELSE IF Chain!Method = "remote"
    THEN IF attestation \in TeeNames THEN TRUSTED_ENVIRONMENT
         ELSE IF attestation \in StrongBoxNames THEN STRONG_BOX
         ELSE SOFTWARE
    ELSE IF {attestation, Chain!Intermediate.subject} \cap StrongBoxMentions # {}
    THEN STRONG_BOX
    ELSE NoLevel

MatchesCertificate(d) ==
    IF d.keyMintSecurityLevel = STRONG_BOX
    THEN PathSecurityLevel = STRONG_BOX
    ELSE PathSecurityLevel \in {NoLevel, d.keyMintSecurityLevel}

Is(outcome, v) == ~Failed(outcome) /\ outcome.is = v

\* Exactly one package, in one version, and exactly one signer.
AppIdentity(d) ==
    LET app == d.softwareEnforced["attestationApplicationId"] IN
    /\ ~Failed(app)
    /\ \E version \in {p[2] : p \in app.is.packages} :
          app.is.packages = {<<PackageName, version>>}
    /\ app.is.signatures = {Signer}

DeviceIntegrity(d) ==
    LET boot == d.hardwareEnforced["rootOfTrust"] IN
    /\ ~Failed(boot)
    /\ boot.is.deviceLocked
    /\ boot.is.verifiedBootState = VERIFIED

SIGN == 2
EC == 3
P256 == 1
SHA256 == 4
KEY_256 == 256

SigningKey(d) ==
    /\ Is(d.hardwareEnforced["purpose"], {SIGN})
    /\ Is(d.hardwareEnforced["algorithm"], EC)
    /\ Is(d.hardwareEnforced["keySize"], KEY_256)
    /\ Is(d.hardwareEnforced["ecCurve"], P256)
    /\ Is(d.hardwareEnforced["digest"], {SHA256})

Constraint(label, met) == [label |-> label, met |-> met]

\* (Mutant: the app is looked at before the hardware.)
Constraints_AppFirst(d) ==
    <<Constraint("Origin", Is(d.hardwareEnforced["origin"], GENERATED)),
      Constraint("App identity", AppIdentity(d)),
      Constraint("Security level", /\ d.keyMintSecurityLevel = d.attestationSecurityLevel
                                   /\ d.attestationSecurityLevel # SOFTWARE),
      Constraint("Root of trust", ~Failed(d.hardwareEnforced["rootOfTrust"])),
      Constraint("Security level", MatchesCertificate(d)),
      Constraint("Device integrity", DeviceIntegrity(d)),
      Constraint("Signing key", SigningKey(d))>>

Constraints(d) ==
    <<Constraint("Origin", Is(d.hardwareEnforced["origin"], GENERATED)),
      Constraint("Security level", /\ d.keyMintSecurityLevel = d.attestationSecurityLevel
                                   /\ d.attestationSecurityLevel # SOFTWARE),
      Constraint("Root of trust", ~Failed(d.hardwareEnforced["rootOfTrust"])),
      Constraint("Security level", MatchesCertificate(d)),
      Constraint("App identity", AppIdentity(d)),
      Constraint("Device integrity", DeviceIntegrity(d)),
      Constraint("Signing key", SigningKey(d))>>

CodeOf(label) ==
    CASE label = "App identity" -> "app_integrity"
      [] label = "Device integrity" -> "device_integrity"
      [] label = "Security level" -> "no_hardware_attestation"
      [] OTHER -> "attestation_invalid"

ConstraintVerdict(d) ==
    LET violated == {i \in DOMAIN Constraints(d) : ~Constraints(d)[i].met}
    IN IF violated = {} THEN "constrained" ELSE CodeOf(Constraints(d)[Min(violated)].label)

-----------------------------------------------------------------------------
\* A level of six or eight decimal digits names a month, if it is one to twelve.
Digits(least) == least .. (10 * least - 1)

YearAndMonth(level) == IF level < 1000000 THEN level ELSE level \div 100

WellFormed(level) ==
    /\ level \in Digits(100000) \/ level \in Digits(10000000)
    /\ YearAndMonth(level) % 100 \in 1 .. 12

PatchMonth(level) ==
    (YearAndMonth(level) \div 100) * 12 + (YearAndMonth(level) % 100) - 1

MAX_PATCH_AGE_MONTHS == 12

\* (Mutant: months are compared as the numbers they are written as.)
PatchesCurrent_AsNumbers(hw) ==
    LET current == submission.year * 100 + submission.month IN
    \A tag \in PatchTags :
        /\ ~Failed(hw[tag]) /\ WellFormed(hw[tag].is)
        /\ YearAndMonth(hw[tag].is) \in (current - 100) .. (current + 1)

PatchesCurrent(hw) ==
    LET current == submission.year * 12 + submission.month - 1 IN
    \A tag \in PatchTags :
        /\ ~Failed(hw[tag]) /\ WellFormed(hw[tag].is)
        /\ PatchMonth(hw[tag].is) \in (current - MAX_PATCH_AGE_MONTHS) .. (current + 1)

-----------------------------------------------------------------------------
Listed == \E i \in DOMAIN chain : chain[i].listed

\* Too many or too few certificates, or strings that do not decode to what they should.
RefuseUnreadable ==
    /\ verdict = "pending"
    /\ pc = "completing"
    /\ ~submission.readable
    /\ verdict' = "attestation_invalid"
    /\ UNCHANGED <<walk, submission>>

WalkChain ==
    /\ verdict = "pending"
    /\ pc = "completing" => submission.readable
    /\ Chain!Next
    /\ verdict' = IF pc' = "rejected" THEN "attestation_invalid" ELSE "pending"
    /\ UNCHANGED submission

\* The description is parsed, must repeat the challenge and meet the constraints.
Description == submission.description
Parsed == ParseKeyDescription(Description)

CheckVerdict ==
    LET parsed == Parsed IN
    IF Failed(parsed) THEN "attestation_invalid"
    ELSE IF parsed.is.attestationChallenge # Challenge THEN "attestation_invalid"
    ELSE ConstraintVerdict(parsed.is)

\* (Mutant: the walk is not waited for.)
CheckDescription_Unwalked ==
    /\ verdict = "pending"
    /\ pc # "rejected"
    /\ verdict' = CheckVerdict
    /\ UNCHANGED <<walk, submission>>

CheckDescription ==
    /\ verdict = "pending"
    /\ pc = "described"
    /\ verdict' = CheckVerdict
    /\ UNCHANGED <<walk, submission>>

\* The leaf is current, its key is on the curve, and the challenge is signed with the
\* key that the walk has returned.
\* (Mutant: the policy is applied first.)
CheckPossession_PolicyFirst ==
    /\ verdict = "constrained"
    /\ verdict' = IF Chain!Method # "remote"
                  THEN "no_remote_provisioning"
                  ELSE IF /\ Chain!Leaf.validity = "current"
                          /\ submission.curve = "p256"
                          /\ submission.pop.decodes
                          /\ submission.pop.signer = parent.key
                          /\ submission.pop.message = Challenge
                       THEN "possessed"
                       ELSE "attestation_invalid"
    /\ UNCHANGED <<walk, submission>>

CheckPossession ==
    /\ verdict = "constrained"
    /\ verdict' = IF /\ Chain!Leaf.validity = "current"
                     /\ submission.curve = "p256"
                     /\ submission.pop.decodes
                     /\ submission.pop.signer = parent.key
                     /\ submission.pop.message = Challenge
                  THEN "possessed"
                  ELSE "attestation_invalid"
    /\ UNCHANGED <<walk, submission>>

ApplyPolicy ==
    /\ verdict = "possessed"
    /\ verdict' = IF Chain!Method # "remote"
                  THEN "no_remote_provisioning"
                  ELSE IF ~PatchesCurrent(Parsed.is.hardwareEnforced)
                  THEN "security_patch_outdated"
                  ELSE IF Listed
                  THEN "attestation_invalid"
                  ELSE "accepted"
    /\ UNCHANGED <<walk, submission>>

Next == RefuseUnreadable \/ WalkChain \/ CheckDescription \/ CheckPossession \/ ApplyPolicy

Spec == Init /\ [][Next]_vars

-----------------------------------------------------------------------------
\* What an honest phone encodes, read off the submission without the parser.

IsInt(e) == e.type = "integer" /\ e.good
IsEnumerated(e, values) == e.type = "enumerated" /\ e.good /\ e.num \in values
IsOctets(e) == e.type = "octets"
IsSet(e) == e.type = "set" /\ e.good
IsSequence(e, lengths) == e.type = "sequence" /\ e.good /\ Len(e.items) \in lengths

Members(e) == {e.items[i] : i \in DOMAIN e.items}

RootOfTrustIsSound(e) ==
    /\ IsSequence(e, {3, 4})
    /\ IsOctets(e.items[1]) /\ (Len(e.items) = 4 => IsOctets(e.items[4]))
    /\ e.items[2].type = "boolean" /\ e.items[2].good
    /\ IsEnumerated(e.items[3], 0 .. 3)

PackageIsSound(p) ==
    IsSequence(p, {2}) /\ IsOctets(p.items[1]) /\ p.items[1].good /\ IsInt(p.items[2])

ApplicationIdIsSound(e) ==
    /\ IsOctets(e) /\ e.good /\ Len(e.items) = 2
    /\ IsSet(e.items[1]) /\ Len(e.items[1].items) <= MaxPackages
    /\ \A p \in Members(e.items[1]) : PackageIsSound(p)
    /\ IsSet(e.items[2]) /\ Len(e.items[2].items) <= MaxSignatures
    /\ \A s \in Members(e.items[2]) : IsOctets(s)

IsSound(tag, e) ==
    CASE tag \in IntTags \cup PatchTags -> IsInt(e)
      [] tag \in IntSetTags -> IsSet(e) /\ \A m \in Members(e) : IsInt(m)
      [] tag = "origin" -> IsInt(e) /\ e.num \in 0 .. 4
      [] tag = "rootOfTrust" -> RootOfTrustIsSound(e)
      [] tag = "attestationApplicationId" -> ApplicationIdIsSound(e)
      [] tag = "unreadText" -> IsOctets(e) /\ e.good
      [] tag = "ignored" -> TRUE

\* Nothing is out of order in the list, except in attributes with these tags.
ListIsSoundBut(list, tags) ==
    /\ list.type = "sequence" /\ list.good
    /\ \A entry \in Members(list) :
          /\ entry.explicit /\ entry.tag \in KNOWN_TAGS
          /\ entry.tag \notin tags => IsSound(entry.tag, entry.inner)

Software == Description.items[7]
Hardware == Description.items[8]

DescriptionIsSoundBut(softwareTags) ==
    /\ IsSequence(Description, {8})
    /\ IsInt(Description.items[1]) /\ IsInt(Description.items[3])
    /\ IsEnumerated(Description.items[2], 0 .. 2) /\ IsEnumerated(Description.items[4], 0 .. 2)
    /\ IsOctets(Description.items[5]) /\ IsOctets(Description.items[6])
    /\ ListIsSoundBut(Software, softwareTags) /\ ListIsSoundBut(Hardware, {})

\* The element of the last entry with this tag: none or one.
Last(list, tag) ==
    {list.items[i].inner : i \in {j \in DOMAIN list.items :
        /\ list.items[j].tag = tag
        /\ \A k \in DOMAIN list.items : k > j => list.items[k].tag # tag}}

HasNumber(tag, n) == \E e \in Last(Hardware, tag) : IsInt(e) /\ e.num = n

Generated == HasNumber("origin", GENERATED)

\* Both levels are the same, of hardware, and what the names on the chain make of it.
HardwareLevel ==
    LET strongBox ==
            \/ Chain!Method = "remote" /\ chain[2].subject \in StrongBoxNames \ TeeNames
            \/ /\ Chain!Method = "factory"
               /\ {chain[2].subject, Chain!Intermediate.subject} \cap StrongBoxMentions # {}
        tee == ~strongBox /\ (Chain!Method = "remote" => chain[2].subject \in TeeNames)
    IN \E level \in {TRUSTED_ENVIRONMENT, STRONG_BOX} :
          /\ IsEnumerated(Description.items[2], {level})
          /\ IsEnumerated(Description.items[4], {level})
          /\ IF level = STRONG_BOX THEN strongBox ELSE tee

HasRootOfTrust ==
    \E e \in Last(Hardware, "rootOfTrust") : RootOfTrustIsSound(e)

LockedAndVerified ==
    \E e \in Last(Hardware, "rootOfTrust") :
        RootOfTrustIsSound(e) /\ e.items[2].num # 0 /\ e.items[3].num = VERIFIED

\* The app's package alone, in one version, signed with the app's key alone.
RightApp ==
    \E e \in Last(Software, "attestationApplicationId") :
        /\ ApplicationIdIsSound(e)
        /\ \E p \in Members(e.items[1]) :
              /\ p.items[1].text = PackageName
              /\ \A q \in Members(e.items[1]) :
                    q.items[1].text = PackageName /\ q.items[2].num = p.items[2].num
        /\ {m.text : m \in Members(e.items[2])} = {Signer}

HasOnly(tag, n) ==
    \E e \in Last(Hardware, tag) :
        /\ IsSet(e) /\ Members(e) # {}
        /\ \A m \in Members(e) : IsInt(m) /\ m.num = n

SignsOnly ==
    /\ HasOnly("purpose", SIGN) /\ HasOnly("digest", SHA256)
    /\ HasNumber("algorithm", EC) /\ HasNumber("keySize", KEY_256) /\ HasNumber("ecCurve", P256)

RightChallenge == IsOctets(Description.items[5]) /\ Description.items[5].text = Challenge

HoldsLeafKey ==
    /\ Chain!Leaf.validity = "current" /\ submission.curve = "p256"
    /\ submission.pop.decodes
    /\ submission.pop.signer = Chain!Leaf.key /\ submission.pop.message = Challenge

Proven ==
    /\ Generated /\ HardwareLevel /\ LockedAndVerified /\ RightApp /\ SignsOnly
    /\ RightChallenge /\ HoldsLeafKey

\* What every outcome after the possession check rests on: an acceptable chain, and a
\* proof made with the key of its leaf.
AcceptedIsEarned ==
    /\ verdict \in PolicyCodes \cup {"possessed", "accepted"} =>
          submission.readable /\ Chain!Acceptable /\ HoldsLeafKey
    /\ verdict = "accepted" => Chain!Method = "remote"

\* Where a verdict comes from: the constraints, or what follows when they are met.
VerdictIsFounded ==
    pc = "described" /\ verdict # "pending" =>
        \/ verdict \in ReferenceCodes /\ verdict = CheckVerdict
        \/ /\ CheckVerdict = "constrained"
           /\ verdict = "attestation_invalid" => ~HoldsLeafKey
           /\ verdict \notin ReferenceCodes \ {"attestation_invalid"}
           /\ verdict = "accepted" => PatchesCurrent(Parsed.is.hardwareEnforced)
           /\ verdict = "security_patch_outdated" => ~PatchesCurrent(Parsed.is.hardwareEnforced)

IInv ==
    /\ submission \in Submissions
    /\ TypeOK
    /\ pc \notin {"completing", "rejected"} => submission.readable
    /\ AcceptedIsEarned
    /\ VerdictIsFounded

\* "it can only turn a reference acceptance into no_remote_provisioning or
\* security_patch_outdated" (server/README.md:85): a policy code or an acceptance means
\* that chain, description and possession prove everything, from the hardware's own
\* list; and a sound description that proves everything never gets another code,
\* whatever the order of the checks (verifier.ts:155-192, path.ts:182-195).
PolicyOnlyTurnsAcceptances ==
    /\ verdict \in PolicyCodes \cup {"accepted"} =>
          submission.readable /\ Chain!Acceptable /\ Proven
    /\ verdict \in ReferenceCodes /\ pc = "described" => ~(DescriptionIsSoundBut({}) /\ Proven)
    /\ verdict = "accepted" => Chain!Method = "remote"

\* The code that a user is shown names the control that fired, and the controls before
\* it in the order hardware, app, device were met (path.ts:191-194, verifier.ts:183-189).
CodeNamesFirstControl ==
    /\ verdict = "no_hardware_attestation" => Generated /\ RightChallenge /\ ~HardwareLevel
    /\ verdict = "app_integrity" =>
          Generated /\ RightChallenge /\ HardwareLevel /\ HasRootOfTrust /\ ~RightApp
    /\ verdict = "device_integrity" =>
          /\ Generated /\ RightChallenge /\ HardwareLevel /\ HasRootOfTrust /\ RightApp
          /\ ~LockedAndVerified

\* No structural failure inside an application id.
IsStructured(e) ==
    IsOctets(e) =>
        /\ e.good /\ Len(e.items) = 2
        /\ \A s \in Members(e) : s.type = "set" =>
              /\ s.good
              /\ \A m \in Members(s) : m.type = "sequence" =>
                    m.good /\ Len(m.items) = 2 /\ (m.items[2].type = "integer" => m.items[2].good)

\* "a failed attribute conversion nulls that attribute and a later constraint names it
\* (app_integrity for a malformed attestationApplicationId); structural failures abort
\* the parse (attestation_invalid)" (server/README.md:93): in a description in which
\* all else is right, an application id that is not the app's, and not broken either, gets
\* app_integrity however it is malformed (keydescription.ts:142-181).
MalformedIdIsNamed ==
    /\ verdict # "pending" /\ pc = "described"
    /\ DescriptionIsSoundBut({"attestationApplicationId"})
    /\ Generated /\ RightChallenge /\ HardwareLevel /\ LockedAndVerified
    => /\ (\A e \in Last(Software, "attestationApplicationId") : IsStructured(e)) =>
             (verdict = "app_integrity" <=> ~RightApp)
       /\ (\E e \in Last(Software, "attestationApplicationId") :
              IsOctets(e) /\ (~e.good \/ Len(e.items) # 2)) => verdict = "attestation_invalid"

\* The next month, this one and the twelve before it, counted back on a calendar.
NextMonth(ym) == IF ym[2] = 12 THEN <<ym[1] + 1, 1>> ELSE <<ym[1], ym[2] + 1>>
PreviousMonth(ym) == IF ym[2] = 1 THEN <<ym[1] - 1, 12>> ELSE <<ym[1], ym[2] - 1>>

MonthsBack[n \in 0 .. 13] ==
    IF n = 0 THEN NextMonth(<<submission.year, submission.month>>)
             ELSE PreviousMonth(MonthsBack[n - 1])

RecentMonths == {MonthsBack[n] : n \in 0 .. 13}

\* The level is written YYYYMM or YYYYMMDD for one of those months.
IsRecent(level) ==
    \E ym \in RecentMonths :
        LET yyyymm == ym[1] * 100 + ym[2]
        IN level = yyyymm \/ level \in (yyyymm * 100) .. (yyyymm * 100 + 99)

\* All three hardware-enforced patch levels are recent, across the turn of the year and
\* however they are written, exactly when a remotely provisioned device that passed the
\* reference checks is accepted (verifier.ts:93-113).
PatchesWithinTheYear ==
    LET recent == \A tag \in PatchTags : \E e \in Last(Hardware, tag) : IsRecent(e.num)
    IN /\ verdict = "accepted" => recent
       /\ verdict = "security_patch_outdated" => ~recent

=============================================================================
