----------------------------- MODULE MCVerifier -----------------------------
(***************************************************************************)
(* Verifier on the submission of an honest phone of each kind, and on the   *)
(* submissions that differ from one of them in the chain, in the proof of   *)
(* possession, in the clock, or in one or two elements of the description.  *)
(***************************************************************************)
EXTENDS Verifier, TLC

MCNames == {"root", "factory", "factory_strongbox", "remote", "plain", "server",
            "tee", "strongbox", "other", "leaf"}
MCKeys == {"r", "k1", "k2", "k3", "k4"}

Cert(subject, issuer, key, signer, extension) ==
    [subject |-> subject, issuer |-> issuer, key |-> key, signer |-> signer,
     extension |-> extension, listed |-> FALSE, validity |-> "current"]

MCAnchors == <<Cert("root", "root", "r", "r", "none")>>

\* The leaf, the attestation certificate, a server's where there is one, the top.
Chain4(attestation) ==
    <<Cert("leaf", attestation, "k1", "k2", "noncritical"),
      Cert(attestation, "server", "k2", "k3", "none"),
      Cert("server", "remote", "k3", "k4", "none"),
      Cert("remote", "root", "k4", "r", "none")>>

Chain3(attestation, top) ==
    <<Cert("leaf", attestation, "k1", "k2", "noncritical"),
      Cert(attestation, top, "k2", "k3", "none"),
      Cert(top, "root", "k3", "r", "none")>>

Remote == Chain4("tee")
Honest == {Chain4(a) : a \in {"tee", "strongbox", "other"}} \cup
          {Chain3(a, top) : a \in {"other", "strongbox"},
                            top \in {"factory", "factory_strongbox", "plain"}}

Chains ==
    Honest \cup
    {[c EXCEPT ![1].validity = v] : c \in Honest, v \in {"early", "expired"}} \cup
    {[c EXCEPT ![1].extension = x] : c \in Honest, x \in {"none", "critical"}} \cup
    {[c EXCEPT ![2].validity = "expired"] : c \in Honest} \cup
    {[c EXCEPT ![3].listed = TRUE] : c \in Honest} \cup
    {[c EXCEPT ![1].signer = "k3"] : c \in Honest} \cup
    {Chain4("tee") \o MCAnchors, SubSeq(Chain4("tee"), 1, 1), SubSeq(Chain4("tee"), 2, 4),
     [SubSeq(Chain4("tee"), 2, 4) EXCEPT ![1].extension = "critical"]}

-----------------------------------------------------------------------------
Element(type, num, text, items) ==
    [type |-> type, good |-> TRUE, num |-> num, text |-> text, items |-> items]

IntegerOf(n) == Element("integer", n, "", <<>>)
Enumerated(n) == Element("enumerated", n, "", <<>>)
Flag(n) == Element("boolean", n, "", <<>>)
Octets(text) == Element("octets", 0, text, <<>>)
Der(items) == Element("octets", 0, "", items)
SetOf(items) == Element("set", 0, "", items)
Sequence(items) == Element("sequence", 0, "", items)
Other == Element("other", 0, "", <<>>)
Broken(e) == [e EXCEPT !.good = FALSE]

Entry(tag, e) == [tag |-> tag, explicit |-> TRUE, inner |-> e]

App(packages, signatures) == Der(<<SetOf(packages), SetOf(signatures)>>)
Package(name, version) == Sequence(<<Octets(name), IntegerOf(version)>>)
TheApp == App(<<Package("app", 1)>>, <<Octets("signer")>>)

Boot(locked, state) == Sequence(<<Octets("key"), locked, state>>)

\* Attributes in the order of their places in the list.
HardwareTags == <<"purpose", "algorithm", "keySize", "digest", "ecCurve", "origin",
                  "rootOfTrust", "osPatchLevel", "vendorPatchLevel", "bootPatchLevel">>
HardwareValues ==
    <<SetOf(<<IntegerOf(SIGN)>>), IntegerOf(EC), IntegerOf(KEY_256), SetOf(<<IntegerOf(SHA256)>>),
      IntegerOf(P256), IntegerOf(GENERATED), Boot(Flag(1), Enumerated(VERIFIED)),
      IntegerOf(202409), IntegerOf(20240905), IntegerOf(20240905)>>

TheHardware == [i \in DOMAIN HardwareTags |-> Entry(HardwareTags[i], HardwareValues[i])]
TheSoftware == <<Entry("attestationApplicationId", TheApp)>>

KD(version, level, challenge, software, hardware) ==
    Sequence(<<version, level, version, level, challenge, Octets(""),
               Sequence(software), Sequence(hardware)>>)

TheDescription(level) ==
    KD(IntegerOf(300), Enumerated(level), Octets("challenge"), TheSoftware, TheHardware)

-----------------------------------------------------------------------------
Ints == {IntegerOf(n) : n \in {0, 1, 3, 256}} \cup {Broken(IntegerOf(1)), Enumerated(3)}
IntSets ==
    {SetOf(<<>>), SetOf(<<IntegerOf(2), IntegerOf(2)>>), SetOf(<<IntegerOf(2), IntegerOf(4)>>),
     SetOf(<<Octets("x"), Broken(IntegerOf(2))>>), SetOf(<<Broken(IntegerOf(2))>>),
     Broken(SetOf(<<IntegerOf(2)>>)), Sequence(<<IntegerOf(2)>>)}
Roots ==
    {Boot(l, s) : l \in {Flag(0), Flag(1), Broken(Flag(1)), IntegerOf(1)},
                  s \in {Enumerated(0), Enumerated(2), Enumerated(9), IntegerOf(0)}} \cup
    {Sequence(<<k, Flag(1), Enumerated(n)>>) : k \in {Other, Octets("key")}, n \in {0, 9}} \cup
    {Sequence(<<Octets("key"), Flag(1), Enumerated(0), h>>) : h \in {Other, Octets("hash")}} \cup
    {Sequence(<<Octets("key"), Flag(1)>>), SetOf(<<Octets("key"), Flag(1), Enumerated(0)>>),
     Broken(Sequence(<<>>))}
Apps ==
    {App(p, s) :
        p \in {<<>>, <<Package("app", 1)>>, <<Package("app", 1), Package("app", 1)>>,
               <<Package("app", 1), Package("app", 2)>>, <<Package("other", 1)>>,
               <<Package("app", 1), Package("app", 1), Package("app", 1)>>,
               <<Sequence(<<Broken(Octets("app")), IntegerOf(1)>>)>>,
               <<Sequence(<<Octets("app"), Octets("1")>>)>>,
               <<Sequence(<<Octets("app"), Broken(IntegerOf(1))>>)>>,
               <<Sequence(<<Octets("app")>>), Other>>, <<Sequence(<<Octets("app")>>)>>},
        s \in {<<Octets("signer")>>, <<Octets("signer"), Octets("signer")>>,
               <<Octets("signer"), Octets("other")>>, <<IntegerOf(4)>>,
               <<Octets("signer"), Octets("signer"), Octets("signer")>>}} \cup
    {Other, Der(<<SetOf(<<>>)>>), Broken(TheApp),
     Der(<<Sequence(<<>>), Broken(SetOf(<<>>))>>), Der(<<Broken(SetOf(<<>>)), SetOf(<<>>)>>)}
\* Around the turn of a year, in both ways of writing, and numbers that are no level.
Patches ==
    {IntegerOf(n) : n \in {202312, 202401, 202411, 202412, 202501, 202502, 202503, 202413, 202400,
                           20231231, 20240100, 20250299, 20250301, 2024095, 2024, 0, -202409}} \cup
    {Octets("202409"), Broken(IntegerOf(202409))}

Alternatives(tag) ==
    CASE tag \in {"purpose", "digest"} -> IntSets
      [] tag \in {"algorithm", "keySize", "ecCurve"} -> Ints
      [] tag = "origin" -> Ints \cup {IntegerOf(7)}
      [] tag = "rootOfTrust" -> Roots
      [] tag \in PatchTags -> Patches
      [] tag = "attestationApplicationId" -> Apps
      [] tag \in UnreadIntTags -> {IntegerOf(1), Other, Broken(IntegerOf(1))}
      [] tag \in UnreadIntSetTags -> IntSets
      [] tag = "unreadText" -> {Octets("x"), Broken(Octets("x")), Other}
      [] OTHER -> {Other}

Odd == {[Entry("algorithm", IntegerOf(EC)) EXCEPT !.explicit = FALSE], Entry("unknown", IntegerOf(1))}

Without(list, i) == SubSeq(list, 1, i - 1) \o SubSeq(list, i + 1, Len(list))

\* An entry that abandons the description, before a sound one under its tag or another.
Overtaken ==
    {<<Entry(tag, Broken(IntegerOf(1))), Entry(next, IntegerOf(1))>> :
        tag \in {"authTimeout", "osVersion"}, next \in {"authTimeout", "osVersion"}}

\* Another value in place, an entry left out, and entries added.
Altered(list, more) ==
    UNION {{[list EXCEPT ![i].inner = e] : e \in Alternatives(list[i].tag)} : i \in DOMAIN list} \cup
    {Without(list, i) : i \in DOMAIN list} \cup
    UNION {{Append(list, Entry(tag, e)) : e \in Alternatives(tag)} : tag \in more} \cup
    {Append(list, o) : o \in Odd} \cup
    {list \o two : two \in Overtaken}

Unread == UnreadIntTags \cup UnreadIntSetTags \cup {"unreadText", "ignored"}
HardwareLists == Altered(TheHardware, Unread \cup {"purpose", "attestationApplicationId"})
SoftwareLists == Altered(TheSoftware, Unread \cup {"rootOfTrust", "origin", "osPatchLevel"})

Levels == {Enumerated(n) : n \in {-1, 0, 1, 2, 3}} \cup {IntegerOf(1)}

Shapes ==
    {[TheDescription(1) EXCEPT !.items[i] = e] :
        i \in 1 .. 8, e \in {IntegerOf(300), Enumerated(1), Octets("x"), SetOf(<<>>), Sequence(<<>>)}} \cup
    {Broken(TheDescription(1)), Octets(""), Sequence(TheDescription(1).items \o <<Other>>),
     Sequence(SubSeq(TheDescription(1).items, 1, 7))}

\* One list altered, or both where the hardware's differs in what a control reads.
Descriptions ==
    Shapes \cup
    {[TheDescription(1) EXCEPT !.items[2] = l, !.items[4] = m] : l \in Levels, m \in Levels} \cup
    {KD(IntegerOf(300), Enumerated(1), Octets("challenge"), s, TheHardware) : s \in SoftwareLists} \cup
    {KD(IntegerOf(300), Enumerated(l), Octets("challenge"), TheSoftware, h) :
        l \in {1, 2}, h \in HardwareLists} \cup
    {KD(IntegerOf(300), Enumerated(1), Octets("challenge"), s, [TheHardware EXCEPT ![i].inner = e]) :
        s \in SoftwareLists, i \in {6, 7}, e \in {Boot(Flag(0), Enumerated(0)), Other, IntegerOf(0)}}

-----------------------------------------------------------------------------
Pop(decodes, signer, message) == [decodes |-> decodes, signer |-> signer, message |-> message]
ThePop == Pop(TRUE, "k1", "challenge")
Pops == {ThePop, Pop(FALSE, "k1", "challenge"), Pop(TRUE, "k2", "challenge"), Pop(TRUE, "k1", "other")}

Submit(c, readable, description, curve, pop, ym) ==
    [chain |-> c, readable |-> readable, description |-> description, curve |-> curve,
     pop |-> pop, year |-> ym[1], month |-> ym[2]]

January == <<2025, 1>>
Months == {<<2024, 11>>, <<2024, 12>>, January, <<2025, 2>>, <<2025, 12>>, <<2026, 1>>}

MCSubmissions ==
    {Submit(Remote, TRUE, d, "p256", ThePop, January) : d \in Descriptions} \cup
    {Submit(c, TRUE, TheDescription(l), curve, p, January) :
        c \in Chains, l \in {0, 1, 2}, curve \in {"p256", "other"}, p \in Pops} \cup
    {Submit(c, FALSE, TheDescription(1), "p256", ThePop, January) : c \in Honest} \cup
    {Submit(c, TRUE, KD(IntegerOf(300), Enumerated(1), Octets("challenge"), TheSoftware,
                        [TheHardware EXCEPT ![8].inner = e, ![10].inner = f]),
            "p256", ThePop, ym) :
        c \in {Remote, Chain3("other", "factory")}, e \in Patches,
        f \in {IntegerOf(202412), IntegerOf(20241231)}, ym \in Months}

-----------------------------------------------------------------------------
\* The elements of the attributes in those descriptions.
Inside(elements) == elements \cup UNION {Members(e) : e \in elements}

Lists ==
    UNION {{d.items[7], d.items[8]} :
        d \in {e \in {s.description : s \in MCSubmissions} : Len(e.items) = 8}}

Attributes == {entry.inner : entry \in UNION {Members(list) : list \in Lists}}

MCElements == Inside(Inside(Inside(Attributes)))

=============================================================================
