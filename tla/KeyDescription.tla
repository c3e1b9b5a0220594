--------------------------- MODULE KeyDescription ---------------------------
(***************************************************************************)
(* keydescription.ts: the parser of the attestation extension.             *)
(*                                                                          *)
(* A DER element has a type, the number it encodes or the text it holds or  *)
(* the elements inside it, and is good unless reading its content fails: a  *)
(* number that is not minimal, children that are cut off, octets that are   *)
(* no UTF-8 where a text is wanted or no single SEQUENCE where DER is.      *)
(* Anything whose type is none of those the parser asks for is "other".     *)
(*                                                                          *)
(* A conversion ends in one of three ways: with a value; with null, where   *)
(* the code throws AttributeError and the attribute is given up; or by      *)
(* abandoning the whole description, where it throws anything else.         *)
(***************************************************************************)
EXTENDS Integers, Sequences, FiniteSetsExt

CONSTANTS
    MaxPackages,    \* DEFAULT_LIMITS
    MaxSignatures

ASSUME LimitsAssumption == MaxPackages \in Nat /\ MaxSignatures \in Nat

SOFTWARE == 0
TRUSTED_ENVIRONMENT == 1
STRONG_BOX == 2
GENERATED == 0
VERIFIED == 0

Value(v) == [kind |-> "value", is |-> v]
Null == [kind |-> "null"]
Abandon == [kind |-> "abandon"]

Failed(outcome) == outcome.kind # "value"

\* Conversions made one after the other: the first that fails decides how it ends.
InOrder(outcomes, v) ==
    LET failed == {i \in DOMAIN outcomes : Failed(outcomes[i])}
    IN IF failed = {} THEN Value(v) ELSE outcomes[Min(failed)]

Within(outcome, allowed) ==
    IF ~Failed(outcome) /\ outcome.is \notin allowed THEN Abandon ELSE outcome

-----------------------------------------------------------------------------
Number(t, type) ==
    CASE t.type # type -> Null
      [] t.type = type /\ ~t.good -> Abandon
      [] OTHER -> Value(t.num)

ToInt(t) == Number(t, "integer")
ToEnumeratedValue(t) == Number(t, "enumerated")
ToBoolean(t) == Number(t, "boolean")

ToBytes(t) == IF t.type = "octets" THEN Value(t.text) ELSE Null
ToStr(t) == IF t.type = "octets" /\ t.good THEN Value(t.text) ELSE Null

ToSetOf(t, type) ==
    CASE t.type # "set" -> Null
      [] t.type = "set" /\ ~t.good -> Abandon
      [] OTHER -> IF \E i \in DOMAIN t.items : t.items[i].type # type
                  THEN Null
                  ELSE Value(t.items)

ToIntSet(t) ==
    LET items == ToSetOf(t, "integer") IN
    IF Failed(items)
    THEN items
    ELSE InOrder([i \in DOMAIN t.items |-> ToInt(t.items[i])],
                 {t.items[i].num : i \in DOMAIN t.items})

\* The range of the boot state is looked at after the types of its neighbours.
ToRootOfTrust(t) ==
    IF t.type # "sequence"
    THEN Null
    ELSE IF ~t.good \/ Len(t.items) \notin 3 .. 4
    THEN Abandon
    ELSE LET state == ToEnumeratedValue(t.items[3])
             hash == IF Len(t.items) = 4 THEN ToBytes(t.items[4]) ELSE Value("")
         IN InOrder(<<state, ToBytes(t.items[1]), ToBoolean(t.items[2]),
                      Within(state, 0 .. 3), hash>>,
                    [deviceLocked |-> t.items[2].num # 0,
                     verifiedBootState |-> t.items[3].num])

-----------------------------------------------------------------------------
\* (Mutant: too many members are a structural failure.)
AtMost_Structural(t, limit) ==
    IF t.type = "set" /\ (~t.good \/ Len(t.items) > limit) THEN Abandon ELSE Value(TRUE)

AtMost(t, limit) ==
    CASE t.type # "set" -> Value(TRUE)
      [] t.type = "set" /\ ~t.good -> Abandon
      [] OTHER -> IF Len(t.items) > limit THEN Null ELSE Value(TRUE)

PackageInfo(p) ==
    IF ~p.good \/ Len(p.items) # 2
    THEN Abandon
    ELSE InOrder(<<ToStr(p.items[1]), ToInt(p.items[2])>>, TRUE)

\* Packages and signatures are sets: repetitions are dropped.
ToAttestationApplicationId(t) ==
    IF t.type # "octets"
    THEN Null
    ELSE IF ~t.good \/ Len(t.items) # 2
    THEN Abandon
    ELSE LET packages == t.items[1]
             signatures == t.items[2]
             sets == InOrder(<<AtMost(packages, MaxPackages),
                               AtMost(signatures, MaxSignatures),
                               ToSetOf(packages, "sequence"),
                               ToSetOf(signatures, "octets")>>, TRUE)
         IN IF Failed(sets)
            THEN sets
            ELSE InOrder([i \in DOMAIN packages.items |-> PackageInfo(packages.items[i])],
                         [packages |-> {<<p.items[1].text, p.items[2].num>> :
                                           p \in {packages.items[i] : i \in DOMAIN packages.items}},
                          signatures |-> {s.text :
                                           s \in {signatures.items[i] : i \in DOMAIN signatures.items}}])

-----------------------------------------------------------------------------
\* The tags that nothing reads and that cannot abandon the description have one name for
\* those that are parsed as a text, and one for the rest; the others abandon it each on
\* its own, whatever entries follow under another tag.
UnreadIntTags ==
    {"mlDsaVariant", "rsaPublicExponent", "activeDateTime", "originationExpireDateTime",
     "usageExpireDateTime", "usageCountLimit", "userAuthType", "authTimeout",
     "creationDateTime", "osVersion"}
UnreadIntSetTags == {"blockMode", "padding", "rsaOaepMgfDigest"}
IntTags == {"algorithm", "keySize", "ecCurve"} \cup UnreadIntTags
IntSetTags == {"purpose", "digest"} \cup UnreadIntSetTags
PatchTags == {"osPatchLevel", "vendorPatchLevel", "bootPatchLevel"}
KNOWN_TAGS == IntTags \cup IntSetTags \cup PatchTags \cup
              {"origin", "rootOfTrust", "attestationApplicationId", "unreadText", "ignored"}

Convert(tag, t) ==
    CASE tag \in IntTags -> ToInt(t)
      [] tag \in IntSetTags -> ToIntSet(t)
      [] tag \in PatchTags -> IF t.type = "integer" THEN ToInt(t) ELSE Abandon
      [] tag = "origin" -> Within(ToInt(t), 0 .. 4)
      [] tag = "rootOfTrust" -> ToRootOfTrust(t)
      [] tag = "attestationApplicationId" -> ToAttestationApplicationId(t)
      [] tag = "unreadText" -> ToStr(t)
      [] tag = "ignored" -> Null

\* Of several entries with one tag the last counts.
Attribute(list, tag) ==
    LET at == {i \in DOMAIN list.items : list.items[i].tag = tag}
    IN IF at = {} THEN Null ELSE Convert(tag, list.items[Max(at)].inner)

ParseAuthorizationList(list) ==
    IF \/ list.type # "sequence" \/ ~list.good
       \/ \E i \in DOMAIN list.items :
             ~list.items[i].explicit \/ list.items[i].tag \notin KNOWN_TAGS
       \/ \E tag \in KNOWN_TAGS : Attribute(list, tag) = Abandon
    THEN Abandon
    ELSE Value([tag \in KNOWN_TAGS |-> Attribute(list, tag)])

ToSecurityLevel(t) == Within(ToEnumeratedValue(t), {SOFTWARE, TRUSTED_ENVIRONMENT, STRONG_BOX})

\* Nobody catches an AttributeError that is thrown here.
ParseKeyDescription(t) ==
    IF t.type # "sequence" \/ ~t.good \/ Len(t.items) # 8
    THEN Abandon
    ELSE LET software == ParseAuthorizationList(t.items[7])
             hardware == ParseAuthorizationList(t.items[8])
             parts == {ToInt(t.items[1]), ToInt(t.items[3])} \cup
                      {ToSecurityLevel(t.items[2]), ToSecurityLevel(t.items[4])}
         IN IF \/ \E p \in parts : Failed(p)
               \/ Failed(ToBytes(t.items[5])) \/ Failed(ToBytes(t.items[6]))
               \/ Failed(software) \/ Failed(hardware)
            THEN Abandon
            ELSE Value([attestationSecurityLevel |-> t.items[2].num,
                        keyMintSecurityLevel |-> t.items[4].num,
                        attestationChallenge |-> t.items[5].text,
                        softwareEnforced |-> software.is,
                        hardwareEnforced |-> hardware.is])

=============================================================================
