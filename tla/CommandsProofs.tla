--------------------------- MODULE CommandsProofs ---------------------------
(***************************************************************************)
(* What holds of every command, document, reference, file system and       *)
(* operator.  The parsers come first: what they accept satisfies what the  *)
(* alarm rules and the impairment engine assume.  The files a command      *)
(* opens for writing come last: whether a refused command touches them,    *)
(* and whether two of them are one file.                                   *)
(***************************************************************************)
EXTENDS Commands, TLAPS

Thresholds == {"warning_c", "critical_c", "hysteresis_c", "critical_v", "hysteresis_v"}
PolicyKeys == Thresholds \cup {"alarm_on_safe", "detect_gaps"}

(* The settings of a policy that was accepted.                             *)
AcceptedPolicy(s) ==
  /\ DOMAIN s = PolicyKeys /\ s = [key \in PolicyKeys |-> s[key]]
  /\ \A key \in Thresholds : Kind(s[key]) \in {"float", "-0"} /\ Number(s[key]) \in Int
  /\ Number(s["warning_c"]) < Number(s["critical_c"])
  /\ Number(s["hysteresis_c"]) >= 0
  /\ Number(s["critical_c"]) - Number(s["hysteresis_c"]) >= Number(s["warning_c"])
  /\ Number(s["critical_v"]) > 0 /\ Number(s["hysteresis_v"]) >= 0
  /\ s["alarm_on_safe"][2] \in BOOLEAN /\ s["detect_gaps"][2] \in BOOLEAN

(* The settings of a link that was accepted.                               *)
AcceptedLink(s) ==
  /\ DOMAIN s = LinkKeys /\ s = [key \in LinkKeys |-> s[key]]
  /\ \A key \in Rates : Kind(s[key]) \in {"float", "-0"} /\ Number(s[key]) \in 0 .. Hundred
  /\ \A key \in Counts : CountInRange(key, s[key][2])

Accepted(family, s) == IF family = "policy" THEN AcceptedPolicy(s) ELSE AcceptedLink(s)

-----------------------------------------------------------------------------
(* A float stands for its own number of hundredths.                        *)
LEMMA NumberOfAFloat ==
  ASSUME NEW h
  PROVE  Number(Float(h)) = h /\ Kind(Float(h)) = "float"
BY DEF Number, ToFloat, Float, Kind

(* Conversion to a float keeps the number.                                 *)
LEMMA ToFloatKeepsTheNumber ==
  ASSUME NEW value
  PROVE  Number(ToFloat(value)) = Number(value)
BY DEF Number, ToFloat, Float, Kind, Hundred

(* A finite value is a number, and its conversion is a float.              *)
LEMMA FiniteIsANumber ==
  ASSUME NEW value, IsFinite(value)
  PROVE  /\ Number(value) \in Int
         /\ Kind(ToFloat(value)) \in {"float", "-0"}
         /\ Number(ToFloat(value)) = Number(value)
<1>1. CASE value = NegativeZero
  BY <1>1 DEF NegativeZero, Number, ToFloat, Float, Kind
<1>2. CASE Kind(value) \in {"int", "float"} /\ ToFloat(value)[2] \in -MaxFloat .. MaxFloat
  <2>1. Number(value) \in Int
    BY <1>2, MaxFloatAssumption DEF Number
  <2>2. Kind(ToFloat(value)) = "float"
    BY <1>2 DEF ToFloat, Float, Kind
  <2> QED
    BY <2>1, <2>2, ToFloatKeepsTheNumber
<1> QED
  BY <1>1, <1>2 DEF IsFinite

(* A verdict of ok says that every check was passed.                       *)
LEMMA OkMeansAll ==
  ASSUME NEW checks, Verdict(checks) = "ok"
  PROVE  \A i \in DOMAIN checks : checks[i] = "ok"
BY DEF Verdict

(* A verdict of crashed comes from a check that crashed.                   *)
LEMMA CrashedMeansOne ==
  ASSUME NEW checks, Verdict(checks) = "crashed"
  PROVE  \E i \in DOMAIN checks : checks[i] = "crashed"
BY DEF Verdict

(* Only an integer too large for a float crashes a check.                  *)
LEMMA OnlyOverflowCrashes ==
  ASSUME NEW value, RealCheck(value) = "crashed"
  PROVE  Overflows(value)
BY DEF RealCheck

Outcomes == {"ok", "crashed", "refused"}

(* What each check may say.                                                *)
LEMMA CheckOutcomes ==
  /\ \A condition : Check(condition) \in {"ok", "refused"}
  /\ \A value : RealCheck(value) \in Outcomes
BY DEF Check, RealCheck, Outcomes

(* A verdict on two lists of checks: of ok, both were passed; of crashed,  *)
(* one of either crashed.                                                  *)
LEMMA VerdictOnBoth ==
  ASSUME NEW p \in Seq(Outcomes), NEW q \in Seq(Outcomes)
  PROVE  /\ Verdict(p \o q) = "ok" => \A i \in 1 .. Len(q) : q[i] = "ok"
         /\ Verdict(p \o q) = "crashed" => \/ \E i \in 1 .. Len(p) : p[i] = "crashed"
                                           \/ \E i \in 1 .. Len(q) : q[i] = "crashed"
<1>1. /\ DOMAIN (p \o q) = 1 .. Len(p) + Len(q)
      /\ \A i \in 1 .. Len(p) : (p \o q)[i] = p[i]
      /\ \A i \in 1 .. Len(q) : (p \o q)[Len(p) + i] = q[i] /\ Len(p) + i \in DOMAIN (p \o q)
      /\ Len(p) \in Nat /\ Len(q) \in Nat
  OBVIOUS
<1>2. ASSUME Verdict(p \o q) = "ok" PROVE \A i \in 1 .. Len(q) : q[i] = "ok"
  BY <1>1, <1>2, OkMeansAll
<1>3. ASSUME Verdict(p \o q) = "crashed"
      PROVE  \/ \E i \in 1 .. Len(p) : p[i] = "crashed"
             \/ \E i \in 1 .. Len(q) : q[i] = "crashed"
  <2>1. PICK i \in 1 .. Len(p) + Len(q) : (p \o q)[i] = "crashed"
    BY <1>1, <1>3, CrashedMeansOne
  <2>2. CASE i \in 1 .. Len(p)
    BY <1>1, <2>1, <2>2
  <2>3. CASE i \notin 1 .. Len(p)
    <3>1. i - Len(p) \in 1 .. Len(q) /\ Len(p) + (i - Len(p)) = i
      BY <1>1, <2>1, <2>3
    <3> QED BY <1>1, <2>1, <3>1
  <2> QED BY <2>2, <2>3
<1> QED BY <1>2, <1>3

(* The types of an identity are right or refused.                          *)
LEMMA IdentityTypesDoNotCrash ==
  ASSUME NEW document
  PROVE  /\ IdentityTypes(document) \in Seq(Outcomes)
         /\ \A i \in 1 .. Len(IdentityTypes(document)) : IdentityTypes(document)[i] # "crashed"
<1>1. ASSUME NEW c1 \in {"ok", "refused"}, NEW c2 \in {"ok", "refused"},
             NEW c3 \in {"ok", "refused"}
      PROVE  /\ <<c1, c2, c3>> \in Seq(Outcomes)
             /\ \A i \in 1 .. Len(<<c1, c2, c3>>) : <<c1, c2, c3>>[i] # "crashed"
  BY <1>1 DEF Outcomes
<1> DEFINE version == Check(Kind(document["schema_version"]) = "int")
           name == Check(Kind(document["name"]) = "string")
           description == Check(Kind(Field(document, "description", String(""))) = "string")
<1>2. IdentityTypes(document) = <<version, name, description>>
  BY DEF IdentityTypes
<1>3. {version, name, description} \subseteq {"ok", "refused"}
  BY CheckOutcomes
<1> HIDE DEF version, name, description
<1> QED BY <1>1, <1>2, <1>3

(* Hence what decides a verdict of crashed comes after the identity.       *)
LEMMA CrashedAfterIdentity ==
  ASSUME NEW document, NEW q \in Seq(Outcomes), NEW length, Len(q) = length,
         Verdict(IdentityTypes(document) \o q) = "crashed"
  PROVE  \E i \in 1 .. length : q[i] = "crashed"
<1> DEFINE p == IdentityTypes(document)
<1>1. p \in Seq(Outcomes) /\ \A i \in 1 .. Len(p) : p[i] # "crashed"
  BY IdentityTypesDoNotCrash
<1> HIDE DEF p
<1>2. Verdict(p \o q) = "crashed" => \/ \E i \in 1 .. Len(p) : p[i] = "crashed"
                                     \/ \E i \in 1 .. Len(q) : q[i] = "crashed"
  BY <1>1, VerdictOnBoth
<1> QED BY <1>1, <1>2 DEF p

(* The two tables of thresholds, and the checks after those of the         *)
(* identity's types, of a policy document.                                 *)
TemperatureOf(document) == document["temperature"][2]
BatteryOf(document) == document["battery"][2]

PolicyChecks(document) ==
  <<RealCheck(TemperatureOf(document)["warning_c"]),
    RealCheck(TemperatureOf(document)["critical_c"]),
    RealCheck(TemperatureOf(document)["hysteresis_c"]), TemperatureCheck(TemperatureOf(document)),
    RealCheck(BatteryOf(document)["critical_v"]), RealCheck(BatteryOf(document)["hysteresis_v"]),
    BatteryCheck(BatteryOf(document)),
    BoolCheck(document["mode"][2]["alarm_on_safe"]),
    BoolCheck(document["sequence"][2]["detect_gaps"]),
    IdentityCheck(document)>>

(* They are all there is to the verdict on a policy.                       *)
LEMMA PolicyVerdictIs ==
  ASSUME NEW document
  PROVE  /\ PolicyVerdict(document) = Verdict(IdentityTypes(document) \o PolicyChecks(document))
         /\ PolicyChecks(document) \in Seq(Outcomes) /\ Len(PolicyChecks(document)) = 10
<1>1. PolicyVerdict(document) = Verdict(IdentityTypes(document) \o PolicyChecks(document))
  BY DEF PolicyVerdict, PolicyChecks, TemperatureOf, BatteryOf
<1>2. /\ TemperatureCheck(TemperatureOf(document)) \in Outcomes
      /\ BatteryCheck(BatteryOf(document)) \in Outcomes
      /\ IdentityCheck(document) \in Outcomes /\ \A v : BoolCheck(v) \in Outcomes
  BY CheckOutcomes DEF TemperatureCheck, BatteryCheck, BoolCheck, IdentityCheck, Outcomes
<1>3. PolicyChecks(document) \in Seq(Outcomes) /\ Len(PolicyChecks(document)) = 10
  BY <1>2, CheckOutcomes DEF PolicyChecks
<1> QED BY <1>1, <1>3

-----------------------------------------------------------------------------
(* The thresholds and switches of a document that parses as a policy are   *)
(* those the alarm rules were written for.                                 *)
LEMMA ParsedPolicyIsAccepted ==
  ASSUME NEW document, ParsePolicy(document)[1] = "ok"
  PROVE  AcceptedPolicy(ParsePolicy(document)[2].settings)
<1> DEFINE t == document["temperature"][2]
           b == document["battery"][2]
           s == Policy(document).settings
<1>1. PolicyShape(document) /\ PolicyVerdict(document) = "ok"
      /\ ParsePolicy(document)[2] = Policy(document)
  BY DEF ParsePolicy, Outcome, Refused
<1>2. /\ HasKeys(t, PolicySections["temperature"], PolicySections["temperature"])
      /\ HasKeys(b, PolicySections["battery"], PolicySections["battery"])
  BY <1>1 DEF PolicyShape, PolicySections
<1>3. DOMAIN t = {"warning_c", "critical_c", "hysteresis_c"}
      /\ DOMAIN b = {"critical_v", "hysteresis_v"}
  BY <1>2 DEF HasKeys, PolicySections
<1>4. \A i \in 1 .. 10 : PolicyChecks(document)[i] = "ok"
  BY <1>1, PolicyVerdictIs, IdentityTypesDoNotCrash, VerdictOnBoth
<1>5. PolicyChecks(document)[4] = "ok" /\ PolicyChecks(document)[7] = "ok"
      /\ PolicyChecks(document)[8] = "ok" /\ PolicyChecks(document)[9] = "ok"
  BY <1>4
<1>6. TemperatureCheck(t) = "ok" /\ BatteryCheck(b) = "ok"
      /\ BoolCheck(document["mode"][2]["alarm_on_safe"]) = "ok"
      /\ BoolCheck(document["sequence"][2]["detect_gaps"]) = "ok"
  BY <1>5 DEF PolicyChecks, TemperatureOf, BatteryOf
<1>7. /\ \A key \in DOMAIN t : IsFinite(t[key])
      /\ Number(t["warning_c"]) < Number(t["critical_c"])
      /\ Number(t["hysteresis_c"]) >= 0
      /\ Number(t["critical_c"]) - Number(t["hysteresis_c"]) >= Number(t["warning_c"])
  BY <1>6 DEF TemperatureCheck, Check
<1>8. /\ \A key \in DOMAIN b : IsFinite(b[key])
      /\ Number(b["critical_v"]) > 0 /\ Number(b["hysteresis_v"]) >= 0
  BY <1>6 DEF BatteryCheck, Check
<1>9. s["alarm_on_safe"][2] \in BOOLEAN /\ s["detect_gaps"][2] \in BOOLEAN
  BY <1>6 DEF BoolCheck, Check, Bool, Policy
<1>10. /\ DOMAIN s = PolicyKeys /\ s = [key \in PolicyKeys |-> s[key]]
       /\ \A key \in {"warning_c", "critical_c", "hysteresis_c"} : s[key] = ToFloat(t[key])
       /\ \A key \in {"critical_v", "hysteresis_v"} : s[key] = ToFloat(b[key])
  BY DEF Policy, PolicyKeys, Thresholds
<1>11. \A key \in {"warning_c", "critical_c", "hysteresis_c"} :
         /\ Kind(s[key]) \in {"float", "-0"} /\ Number(s[key]) \in Int
         /\ Number(s[key]) = Number(t[key])
  <2> HIDE DEF s, t
  <2> QED BY <1>3, <1>7, <1>10, FiniteIsANumber
<1>12. \A key \in {"critical_v", "hysteresis_v"} :
         /\ Kind(s[key]) \in {"float", "-0"} /\ Number(s[key]) \in Int
         /\ Number(s[key]) = Number(b[key])
  <2> HIDE DEF s, b
  <2> QED BY <1>3, <1>8, <1>10, FiniteIsANumber
<1> QED
  <2> HIDE DEF s, t, b
  <2>1. AcceptedPolicy(s)
    BY <1>7, <1>8, <1>9, <1>10, <1>11, <1>12 DEF AcceptedPolicy, Thresholds
  <2> QED BY <1>1, <2>1 DEF s

(* A document that parses as a profile has a rate for every rate and a     *)
(* count for every count, each in its range.                               *)
LEMMA ParsedProfileIsAccepted ==
  ASSUME NEW document, ParseProfile(document)[1] = "ok"
  PROVE  AcceptedLink(ParseProfile(document)[2].settings)
<1> DEFINE link == LinkTable(document)
           s == Profile(document).settings
           rest == <<LinkCheck(link), IdentityCheck(document)>>
<1>1. Verdict(rest) = "ok" /\ ParseProfile(document)[2] = Profile(document)
  BY DEF ParseProfile, Outcome, Refused
<1>2. LinkCheck(link) = "ok"
  <2>1. \A i \in DOMAIN rest : rest[i] = "ok"
    BY <1>1, OkMeansAll
  <2> QED BY <2>1
<1>3. /\ \A key \in Counts : CountInRange(key, link[key][2])
      /\ \A key \in Rates : RateInRange(link[key])
  BY <1>2 DEF LinkCheck, Check
<1>4. s = [key \in LinkKeys |-> IF key \in Rates THEN ToFloat(link[key]) ELSE link[key]]
  BY DEF Profile
<1>5. Rates \cap Counts = {} /\ LinkKeys = Rates \cup Counts
  BY DEF Rates, Counts, LinkKeys
<1>6. \A key \in Rates : Kind(s[key]) \in {"float", "-0"} /\ Number(s[key]) \in 0 .. Hundred
  <2> HIDE DEF link, s
  <2> QED BY <1>3, <1>4, <1>5, FiniteIsANumber DEF RateInRange
<1> QED
  <2> HIDE DEF link, s
  <2>1. AcceptedLink(s)
    BY <1>3, <1>4, <1>5, <1>6 DEF AcceptedLink
  <2> QED BY <1>1, <2>1 DEF s

(* Some value of some table of a document is too large for a float.        *)
OverflowIn(document) ==
  \E table \in {f \in {document[key] : key \in DOMAIN document} : Kind(f) = "table"} :
    \E key \in DOMAIN table[2] : Overflows(table[2][key])

(* Where it may be.                                                        *)
LEMMA OverflowFound ==
  ASSUME NEW document, NEW section \in DOMAIN document, Kind(document[section]) = "table",
         NEW key \in DOMAIN document[section][2], Overflows(document[section][2][key])
  PROVE  OverflowIn(document)
BY DEF OverflowIn

(* A policy document that ends the command holds such a value.             *)
LEMMA CrashedPolicyOverflows ==
  ASSUME NEW document, ParsePolicy(document)[1] = "crashed"
  PROVE  OverflowIn(document)
<1> DEFINE t == TemperatureOf(document)
           b == BatteryOf(document)
<1>1. PolicyShape(document) /\ PolicyVerdict(document) = "crashed"
  BY DEF ParsePolicy, Outcome, Refused
<1>2. /\ {"temperature", "battery"} \subseteq DOMAIN document
      /\ Kind(document["temperature"]) = "table" /\ Kind(document["battery"]) = "table"
      /\ DOMAIN t = {"warning_c", "critical_c", "hysteresis_c"}
      /\ DOMAIN b = {"critical_v", "hysteresis_v"}
  BY <1>1 DEF PolicyShape, HasKeys, PolicySections, TemperatureOf, BatteryOf
<1>3. \E i \in 1 .. 10 : PolicyChecks(document)[i] = "crashed"
  BY <1>1, PolicyVerdictIs, CrashedAfterIdentity
<1>4. /\ TemperatureCheck(t) # "crashed" /\ BatteryCheck(b) # "crashed"
      /\ IdentityCheck(document) # "crashed" /\ \A v : BoolCheck(v) # "crashed"
  BY CheckOutcomes DEF TemperatureCheck, BatteryCheck, BoolCheck, IdentityCheck
<1>5. \/ \E key \in {"warning_c", "critical_c", "hysteresis_c"} : RealCheck(t[key]) = "crashed"
      \/ \E key \in {"critical_v", "hysteresis_v"} : RealCheck(b[key]) = "crashed"
  <2> HIDE DEF t, b
  <2>1. PolicyChecks(document) =
          <<RealCheck(t["warning_c"]), RealCheck(t["critical_c"]), RealCheck(t["hysteresis_c"]),
            TemperatureCheck(t), RealCheck(b["critical_v"]), RealCheck(b["hysteresis_v"]),
            BatteryCheck(b), BoolCheck(document["mode"][2]["alarm_on_safe"]),
            BoolCheck(document["sequence"][2]["detect_gaps"]), IdentityCheck(document)>>
    BY DEF PolicyChecks, t, b
  <2> QED BY <1>3, <1>4, <2>1
<1>6. \/ \E key \in DOMAIN t : Overflows(t[key])
      \/ \E key \in DOMAIN b : Overflows(b[key])
  <2> HIDE DEF t, b
  <2> QED BY <1>2, <1>5, OnlyOverflowCrashes
<1> QED
  BY <1>2, <1>6, OverflowFound DEF TemperatureOf, BatteryOf

(* The type checks of a profile document after those of its identity.      *)
ProfileChecks(link) ==
  <<IntCheck(link["seed"]), RealCheck(link["loss_rate"]),
    RealCheck(link["duplicate_rate"]), RealCheck(link["corrupt_rate"]),
    IntCheck(link["latency_ms"]), IntCheck(link["jitter_ms"]), IntCheck(link["reorder_window"])>>

(* A profile document that ends the command holds such a value.            *)
LEMMA CrashedProfileOverflows ==
  ASSUME NEW document, ParseProfile(document)[1] = "crashed"
  PROVE  OverflowIn(document)
<1> DEFINE link == LinkTable(document)
           rest == <<LinkCheck(link), IdentityCheck(document)>>
<1>1. /\ ProfileShape(document)
      /\ \/ ProfileVerdict(document) = "crashed"
         \/ Verdict(rest) = "crashed"
  BY DEF ParseProfile, Outcome, Refused
<1>2. Verdict(rest) # "crashed"
  <2>1. LinkCheck(link) # "crashed" /\ IdentityCheck(document) # "crashed"
    BY CheckOutcomes DEF LinkCheck, IdentityCheck
  <2>2. \A i \in DOMAIN rest : rest[i] # "crashed"
    <3> HIDE DEF link
    <3> QED BY <2>1
  <2> QED BY <2>2, CrashedMeansOne
<1>3. ProfileVerdict(document) = Verdict(IdentityTypes(document) \o ProfileChecks(link))
  BY DEF ProfileVerdict, ProfileChecks
<1>4. /\ ProfileChecks(link) \in Seq(Outcomes) /\ Len(ProfileChecks(link)) = 7
      /\ \A value : IntCheck(value) # "crashed"
  <2>1. \A value : IntCheck(value) \in Outcomes /\ IntCheck(value) # "crashed"
    BY CheckOutcomes DEF IntCheck, Outcomes
  <2> HIDE DEF link
  <2> QED BY <2>1, CheckOutcomes DEF ProfileChecks
<1>5. \E i \in 1 .. 7 : ProfileChecks(link)[i] = "crashed"
  <2> HIDE DEF link
  <2> QED BY <1>1, <1>2, <1>3, <1>4, CrashedAfterIdentity
<1>6. \E key \in Rates : RealCheck(link[key]) = "crashed"
  <2> HIDE DEF link
  <2> QED BY <1>4, <1>5 DEF ProfileChecks, Rates
<1>7. PICK key \in Rates : Overflows(link[key])
  <2> HIDE DEF link
  <2> QED BY <1>6, OnlyOverflowCrashes
<1>8. key \in DOMAIN document["link"][2] /\ link[key] = document["link"][2][key]
  <2>1. link[key] = IF key \in DOMAIN document["link"][2] THEN document["link"][2][key]
                    ELSE DefaultLink[key]
    BY DEF LinkTable, Field, LinkKeys
  <2>2. DefaultLink[key] = Float(0)
    BY DEF DefaultLink, LinkKeys
  <2>3. ~Overflows(Float(0))
    BY NumberOfAFloat DEF Overflows
  <2> QED BY <1>7, <2>1, <2>2, <2>3
<1>9. "link" \in DOMAIN document /\ Kind(document["link"]) = "table"
  BY <1>1 DEF ProfileShape, HasKeys
<1> QED
  <2> HIDE DEF link
  <2> QED BY <1>7, <1>8, <1>9, OverflowFound

(* Whatever ends a command in a parser is an integer too large for a float *)
(* in a table of a document.                                               *)
LEMMA CrashedParseOverflows ==
  ASSUME NEW family, NEW content, Parse(family, content)[1] = "crashed"
  PROVE  content[1] = "toml" /\ OverflowIn(content[2])
BY CrashedPolicyOverflows, CrashedProfileOverflows DEF Parse, Refused

(* The verdict on a document is one of three; it is never that of a file   *)
(* nested too deeply.                                                      *)
LEMMA DocumentsAreJudged ==
  ASSUME NEW document
  PROVE  /\ ParsePolicy(document)[1] \in {"ok", "refused", "crashed"}
         /\ ParseProfile(document)[1] \in {"ok", "refused", "crashed"}
BY ZenonT(30) DEF ParsePolicy, ParseProfile, Outcome, Refused, PolicyVerdict, ProfileVerdict, Verdict

(* Only a file nested too deeply ends a command with RecursionError.       *)
LEMMA OnlyDeepFilesRecurse ==
  ASSUME NEW family, NEW content, Parse(family, content)[1] = "recursion"
  PROVE  content = Deep
<1>1. Refused[1] = "refused"
  BY DEF Refused
<1> QED BY <1>1, DocumentsAreJudged DEF Parse

(* The source a document is parsed to has a name and a version.            *)
LEMMA ParsedIsNamed ==
  ASSUME NEW family, NEW content, Parse(family, content)[1] = "ok"
  PROVE  /\ Parse(family, content)[2].name \in Slugs
         /\ Parse(family, content)[2].version = 1
<1> DEFINE document == content[2]
<1>1. CASE family = "policy"
  <2>1. /\ PolicyVerdict(document) = "ok"
        /\ Parse(family, content)[2] = Policy(document)
    BY <1>1 DEF Parse, ParsePolicy, Outcome, Refused
  <2>2. \A i \in 1 .. 10 : PolicyChecks(document)[i] = "ok"
    BY <2>1, PolicyVerdictIs, IdentityTypesDoNotCrash, VerdictOnBoth
  <2>3. IdentityCheck(document) = "ok"
    <3>1. PolicyChecks(document)[10] = "ok"
      BY <2>2
    <3> QED BY <3>1 DEF PolicyChecks
  <2>4. document["schema_version"][2] = 1 /\ document["name"][2] \in Slugs
    BY <2>3 DEF IdentityCheck, Check, IntValue, String
  <2> QED BY <2>1, <2>4 DEF Policy
<1>2. CASE family # "policy"
  <2> DEFINE rest == <<LinkCheck(LinkTable(document)), IdentityCheck(document)>>
  <2>1. Verdict(rest) = "ok" /\ Parse(family, content)[2] = Profile(document)
    BY <1>2 DEF Parse, ParseProfile, Outcome, Refused
  <2>2. IdentityCheck(document) = "ok"
    <3>1. \A i \in DOMAIN rest : rest[i] = "ok"
      BY <2>1, OkMeansAll
    <3> QED BY <3>1
  <2>3. document["schema_version"][2] = 1 /\ document["name"][2] \in Slugs
    BY <2>2 DEF IdentityCheck, Check, IntValue, String
  <2> QED BY <2>1, <2>3 DEF Profile
<1> QED BY <1>1, <1>2

(* An empty document is refused by both parsers.                           *)
LEMMA EmptyIsRefused ==
  ASSUME NEW family
  PROVE  Parse(family, Empty) = Refused
<1>1. DOMAIN Empty[2] = {}
  BY DEF Empty, Toml
<1>2. ~PolicyShape(Empty[2]) /\ ~ProfileShape(Empty[2])
  BY <1>1 DEF PolicyShape, ProfileShape, HasKeys
<1>3. Empty # Deep
  BY DEF Empty, Toml, Deep
<1> QED BY <1>2, <1>3 DEF Parse, ParsePolicy, ParseProfile

(* A result of a resolution: an error, or a source that is accepted.       *)
GoodResult(family, result) ==
  /\ result[1] \in {"ok", "refused", "crashed", "recursion"}
  /\ result[1] = "ok" => Accepted(family, result[2].settings)

(* A refusal is such a result.                                             *)
LEMMA RefusedIsGood ==
  ASSUME NEW family
  PROVE  GoodResult(family, Refused)
BY DEF GoodResult, Refused

(* Whatever a document or a built-in holds, its parse is such a result.    *)
LEMMA ParsedIsGood ==
  ASSUME NEW family \in Families, NEW content
  PROVE  GoodResult(family, Parse(family, content))
<1>1. /\ ParsePolicy(content[2])[1] \in {"ok", "refused", "crashed"}
      /\ ParseProfile(content[2])[1] \in {"ok", "refused", "crashed"}
  BY DocumentsAreJudged
<1> QED
  BY <1>1, RefusedIsGood, ParsedPolicyIsAccepted, ParsedProfileIsAccepted, SMTT(30)
     DEF Parse, Accepted, Families, GoodResult

(* So is what a built-in name is resolved to.                              *)
LEMMA BuiltinIsGood ==
  ASSUME NEW family \in Families, NEW name
  PROVE  GoodResult(family, LoadBuiltin(family, name))
BY ParsedIsGood, RefusedIsGood DEF LoadBuiltin

(* The defaults of both families are accepted.                             *)
LEMMA DefaultIsGood ==
  ASSUME NEW family \in Families
  PROVE  GoodResult(family, Default(family))
<1>1. AcceptedPolicy(DefaultPolicy.settings)
  <2> DEFINE s == DefaultPolicy.settings
  <2>1. /\ DOMAIN s = PolicyKeys /\ s = [key \in PolicyKeys |-> s[key]]
        /\ s["warning_c"] = Float(5000) /\ s["critical_c"] = Float(6000)
        /\ s["hysteresis_c"] = Float(0) /\ s["critical_v"] = Float(700)
        /\ s["hysteresis_v"] = Float(0)
    BY DEF DefaultPolicy, PolicyKeys, Thresholds
  <2>2. s["alarm_on_safe"][2] \in BOOLEAN /\ s["detect_gaps"][2] \in BOOLEAN
    BY Zenon DEF DefaultPolicy, Bool
  <2> HIDE DEF s
  <2>3. /\ Number(s["warning_c"]) = 5000 /\ Number(s["critical_c"]) = 6000
        /\ Number(s["hysteresis_c"]) = 0 /\ Number(s["critical_v"]) = 700
        /\ Number(s["hysteresis_v"]) = 0
    BY <2>1, NumberOfAFloat
  <2>4. \A key \in Thresholds : Kind(s[key]) = "float"
    BY <2>1, NumberOfAFloat DEF Thresholds
  <2>5. \A key \in Thresholds : Number(s[key]) \in Int
    BY <2>3 DEF Thresholds
  <2>6. AcceptedPolicy(s)
    BY <2>1, <2>2, <2>3, <2>4, <2>5 DEF AcceptedPolicy
  <2> QED
    BY <2>6 DEF s
<1>2. AcceptedLink(DefaultLink)
  <2>1. /\ DOMAIN DefaultLink = LinkKeys
        /\ \A key \in Rates : DefaultLink[key] = Float(0)
        /\ \A key \in Counts : DefaultLink[key][2] = 0
    BY DEF DefaultLink, LinkKeys, Rates, Counts, IntValue
  <2>2. \A key \in Counts : CountInRange(key, 0)
    BY LimitsAssumption DEF CountInRange
  <2>3. \A key \in Counts : CountInRange(key, DefaultLink[key][2])
    BY <2>1, <2>2
  <2>4. \A key \in Rates : Kind(DefaultLink[key]) = "float" /\ Number(DefaultLink[key]) = 0
    BY <2>1, NumberOfAFloat
  <2>5. DefaultLink = [key \in LinkKeys |-> DefaultLink[key]]
    BY DEF DefaultLink
  <2> QED
    BY <2>1, <2>3, <2>4, <2>5 DEF AcceptedLink, Hundred
<1> QED
  BY <1>1, <1>2 DEF Accepted, Default, GoodResult

(* The options of a link keep every setting in its range.                  *)
LEMMA OptionsAreAccepted ==
  ASSUME NEW s, AcceptedLink(s), NEW options,
         \A key \in DOMAIN options : OptionAccepted(key, options[key])
  PROVE  AcceptedLink(WithOptions(s, options))
<1> DEFINE w == WithOptions(s, options)
<1>1. w = [key \in LinkKeys |->
             IF key \in DOMAIN options
             THEN IF key \in Rates THEN ToFloat(options[key]) ELSE options[key]
             ELSE s[key]]
  BY DEF WithOptions, AcceptedLink
<1>2. Rates \cap Counts = {} /\ LinkKeys = Rates \cup Counts
  BY DEF Rates, Counts, LinkKeys
<1> HIDE DEF w
<1>3. \A key \in Rates : Kind(w[key]) \in {"float", "-0"} /\ Number(w[key]) \in 0 .. Hundred
  BY <1>1, <1>2, FiniteIsANumber DEF OptionAccepted, RateInRange, AcceptedLink
<1>4. \A key \in Counts : CountInRange(key, w[key][2])
  BY <1>1, <1>2 DEF OptionAccepted, AcceptedLink
<1>5. AcceptedLink(w)
  BY <1>1, <1>3, <1>4 DEF AcceptedLink
<1> QED
  BY <1>5 DEF w

-----------------------------------------------------------------------------
(* The state of a command.                                                 *)

CommandTyped ==
  /\ command.kind \in {"listen", "link", "validate"} /\ Family \in Families
  /\ command.kind = "listen" => Family = "policy"
  /\ command.kind = "link" => Family = "profile"
  /\ command.kind # "link" => DOMAIN command.options = {}
  /\ {command.recording, command.log} \subseteq Names \cup {NoOutput}

(* A reference is one the command line can hold.                           *)
ReferenceTyped ==
  \/ command.reference = NoReference
  \/ command.reference.form = "builtin"
  \/ command.reference.form \in {"file", "bare"} /\ command.reference.name \in Names \cup {""}

FilesTyped ==
  /\ at \in [Places -> Nodes \cup {Nowhere}] /\ DOMAIN data = Nodes
  /\ outputs \in [{"recording", "log"} -> Nodes \cup {Nowhere}]

Resolving  == {"start", "load", "read"}
Configured == {"bind", "record", "log", "header", "running", "done"}
Failed     == {"refused", "crashed", "killed"}

(* What a command runs with: what it chose, and its options.               *)
InForce == IF command.kind = "link" THEN Effective ELSE chosen[2].settings

SettingsAreEffective == chosen[1] = "ok" /\ UsageAccepted /\ settings = InForce

Stages ==
  /\ phase \in Resolving \cup {"resolved"} \cup Configured \cup Failed
  /\ phase \in Resolving => chosen = Unresolved
  /\ phase \in {"load", "read"} => UsageAccepted
  /\ phase \in Resolving \cup {"resolved"} => settings = NoSettings
  /\ phase = "resolved" => chosen[1] = "ok" /\ UsageAccepted
  /\ chosen[1] = "ok" => Accepted(Family, chosen[2].settings)
  /\ phase \in Configured => SettingsAreEffective
  /\ settings = NoSettings \/ SettingsAreEffective

Counters ==
  /\ reason \in {"none", "usage", "configuration", "access", "aliases", "network", "disk",
                 "overflow", "recursion", "fingerprint", "host", "identity"}
  /\ edits \in Nat /\ settled \subseteq {"resolved", "compared"}

CommandInvariant == CommandTyped /\ ReferenceTyped /\ FilesTyped /\ Stages /\ Counters

(* Every step keeps the command, and so whether its usage is accepted.     *)
LEMMA CommandIsKept ==
  ASSUME [Next]_vars
  PROVE  command' = command
BY DEF Next, Command, RefuseUsage, Resolution, Answer, AnswerFails, Override, OverrideFails, Compare,
   Opening, Kill, Operator, UseDefault, SelectBuiltin, SelectFile, InspectPath, CheckFile, ReadFile,
   AccessFails, Bind, BindFails, HostFails, Record, NoRecording, IdentityRefused, OpenLog, NoLog,
   OutputFails, WriteHeader, Remove, Write, LinkTo, Edit, Refuse, Crash, Resolved, Proceed, vars

(* What the command says of itself stays true with the command.            *)
LEMMA UsageIsKept ==
  ASSUME command' = command
  PROVE  UsageAccepted' = UsageAccepted /\ Family' = Family
BY DEF UsageAccepted, Family

(* A fresh node is free.                                                   *)
LEMMA FreshNodeIsUnused ==
  FreshNode = Nowhere \/ FreshNode \in Unused
BY DEF FreshNode

(* Opening a file for writing keeps the files' types.                      *)
LEMMA OpenKeepsTypes ==
  ASSUME FilesTyped, NEW output \in {"recording", "log"}, NEW name \in Names, Open(output, name)
  PROVE  FilesTyped'
<1>1. Canonical[name] \in Places
  BY DEF Places
<1>2. FreshNode \in Nodes \cup {Nowhere}
  BY FreshNodeIsUnused DEF Unused
<1>3. at' \in [Places -> Nodes \cup {Nowhere}]
  BY <1>1, <1>2 DEF Open, FilesTyped
<1>4. DOMAIN data' = Nodes
  BY DEF Open, FilesTyped
<1>5. outputs' \in [{"recording", "log"} -> Nodes \cup {Nowhere}]
  BY DEF Open, FilesTyped
<1> QED
  BY <1>3, <1>4, <1>5 DEF FilesTyped

(* A step that leaves choice and settings alone, and goes to a stage they  *)
(* allow.                                                                  *)
LEMMA MovingOn ==
  ASSUME CommandInvariant, UNCHANGED <<command, chosen, settings>>, FilesTyped', Counters',
         \/ phase' = phase \/ phase' \in Failed
         \/ phase \in Configured /\ phase' \in Configured
         \/ phase \in Resolving /\ phase' \in {"load", "read"} /\ UsageAccepted
  PROVE  CommandInvariant'
<1>1. CommandTyped' /\ ReferenceTyped'
  BY UsageIsKept DEF CommandInvariant, CommandTyped, ReferenceTyped
<1>2. SettingsAreEffective' = SettingsAreEffective
  BY UsageIsKept DEF SettingsAreEffective, InForce, Effective
<1>3. Stages'
  BY <1>2, UsageIsKept DEF CommandInvariant, Stages, Resolving, Configured, Failed
<1> QED
  BY <1>1, <1>3 DEF CommandInvariant

(* A reference is resolved to a result of the parsers.                     *)
LEMMA Choosing ==
  ASSUME CommandInvariant, phase \in Resolving, UsageAccepted,
         NEW result, GoodResult(Family, result), Resolved(result)
  PROVE  CommandInvariant'
<1>1. CommandTyped' /\ ReferenceTyped' /\ UsageAccepted' /\ Family' = Family
  BY UsageIsKept DEF CommandInvariant, CommandTyped, ReferenceTyped, Resolved
<1>2. FilesTyped'
  BY DEF CommandInvariant, FilesTyped, Resolved, files
<1>3. /\ Counters'
      /\ \/ phase' = "resolved" /\ result[1] = "ok"
         \/ phase' \in Failed
  BY DEF CommandInvariant, Counters, Resolved, GoodResult, Failed
<1>4. settings' = NoSettings /\ chosen' = result
  BY DEF CommandInvariant, Stages, Resolved
<1>5. chosen'[1] = "ok" => Accepted(Family, chosen'[2].settings)
  BY <1>4 DEF GoodResult
<1>6. Stages'
  BY <1>1, <1>3, <1>4, <1>5 DEF Stages, Resolving, Configured, Failed
<1> QED
  BY <1>1, <1>2, <1>3, <1>6 DEF CommandInvariant

(* The settings are fixed.                                                 *)
LEMMA Configuring ==
  ASSUME CommandInvariant, phase = "resolved", UNCHANGED <<command, chosen, outputs, files, edits>>,
         settings' = InForce, phase' \in Configured \cup Failed, Counters'
  PROVE  CommandInvariant'
<1>1. CommandTyped' /\ ReferenceTyped' /\ UsageAccepted' /\ Family' = Family
  BY UsageIsKept DEF CommandInvariant, CommandTyped, ReferenceTyped, Stages
<1>2. FilesTyped'
  BY DEF CommandInvariant, FilesTyped, files
<1>3. SettingsAreEffective'
  BY <1>1 DEF SettingsAreEffective, InForce, Effective, CommandInvariant, Stages
<1>4. Stages'
  BY <1>1, <1>3 DEF CommandInvariant, Stages, Resolving, Configured, Failed
<1> QED
  BY <1>1, <1>2, <1>4 DEF CommandInvariant

(* Every command starts with its invariant.                                *)
LEMMA CommandInvariantStarts == Init => CommandInvariant
<1> SUFFICES ASSUME Init PROVE CommandInvariant
  OBVIOUS
<1>1. PICK scene \in Scenes : /\ command = scene.command /\ at = scene.at /\ data = scene.data
                             /\ edits = scene.edits
  BY DEF Init
<1>2. CommandTyped /\ ReferenceTyped
  BY <1>1, ScenesAssumption DEF CommandTyped, ReferenceTyped, Family
<1>3. FilesTyped
  <2>1. scene.at \in [Places -> Nodes \cup {Nowhere}] /\ DOMAIN scene.data = Nodes
    BY ScenesAssumption
  <2> QED
    BY <1>1, <2>1, SMTT(30) DEF FilesTyped, Init
<1>4. Counters
  BY <1>1, ScenesAssumption DEF Counters, Init
<1>5. Stages
  BY DEF Init, Stages, Resolving, Configured, Failed, Unresolved
<1> QED
  BY <1>2, <1>3, <1>4, <1>5 DEF CommandInvariant

(* Every step of a command, and every change of the operator, keeps it.    *)
LEMMA CommandInvariantKept == CommandInvariant /\ [Next]_vars => CommandInvariant'
<1> SUFFICES ASSUME CommandInvariant, [Next]_vars PROVE CommandInvariant'
  OBVIOUS
<1> USE DEF Resolving, Configured, Failed
<1>1. Family \in Families /\ (phase \in {"load", "read"} => UsageAccepted)
  BY DEF CommandInvariant, CommandTyped, Stages
<1>2. ASSUME NEW why, Refuse(why), UNCHANGED chosen,
             why \in {"usage", "configuration", "access", "network", "disk"}
      PROVE  CommandInvariant'
  <2>1. FilesTyped' /\ Counters'
    BY <1>2 DEF Refuse, CommandInvariant, FilesTyped, Counters, files, history
  <2> QED
    BY <1>2, <2>1, MovingOn DEF Refuse
<1>3. ASSUME NEW why, Crash(why), why \in {"fingerprint", "host", "identity"}
       PROVE  CommandInvariant'
  <2>1. FilesTyped' /\ Counters'
    BY <1>3 DEF Crash, CommandInvariant, FilesTyped, Counters, files, history
  <2> QED
    BY <1>3, <2>1, MovingOn DEF Crash
<1>4. ASSUME NEW next, Proceed(next), UNCHANGED <<settings, settled>>, FilesTyped',
             \/ phase \in Configured /\ next \in Configured
             \/ phase \in Resolving /\ next \in {"load", "read"} /\ UsageAccepted
      PROVE  CommandInvariant'
  <2>1. Counters'
    BY <1>4 DEF Proceed, CommandInvariant, Counters
  <2> QED
    BY <1>4, <2>1, MovingOn DEF Proceed
<1>5. ASSUME UNCHANGED <<outputs, files>> PROVE FilesTyped'
  BY <1>5 DEF CommandInvariant, FilesTyped, files
<1>6. CASE RefuseUsage
  BY <1>2, <1>6 DEF RefuseUsage
<1>7. CASE Resolution
  <2>1. CASE UseDefault
    BY <2>1, <1>1, Choosing, DefaultIsGood DEF UseDefault
  <2>2. CASE SelectBuiltin
    BY <2>2, <1>1, Choosing, BuiltinIsGood DEF SelectBuiltin
  <2>3. CASE SelectFile
    BY <2>3, <1>1, <1>4, <1>5, Choosing, RefusedIsGood DEF SelectFile
  <2>4. CASE InspectPath
    BY <2>4, <1>1, <1>4, <1>5, Choosing, RefusedIsGood, BuiltinIsGood DEF InspectPath
  <2>5. CASE CheckFile
    BY <2>5, <1>1, <1>4, <1>5, Choosing, RefusedIsGood DEF CheckFile
  <2>6. CASE ReadFile
    BY <2>6, <1>1, Choosing, ParsedIsGood DEF ReadFile, LoadFile
  <2>7. CASE AccessFails
    BY <2>7, <1>2 DEF AccessFails
  <2> QED
    BY <1>7, <2>1, <2>2, <2>3, <2>4, <2>5, <2>6, <2>7 DEF Resolution
<1>8. CASE Answer
  <2>1. Counters'
    BY <1>8 DEF Answer, Proceed, CommandInvariant, Counters
  <2> QED
    BY <1>8, <2>1, Configuring DEF Answer, Proceed, InForce, Effective
<1>9. CASE Override
  <2>1. Counters'
    BY <1>9 DEF Override, Proceed, CommandInvariant, Counters
  <2> QED
    BY <1>9, <2>1, Configuring DEF Override, Proceed, InForce, Effective
<1>10. CASE AnswerFails \/ OverrideFails
  BY <1>2, <1>3, <1>10 DEF AnswerFails, OverrideFails
<1>11. CASE Compare
  <2>1. Counters'
    BY <1>11 DEF Compare, CommandInvariant, Counters
  <2> QED
    BY <1>11, <2>1, Configuring DEF Compare, InForce, Effective
<1>12. CASE Opening
  <2>1. CASE Bind
    BY <2>1, <1>4, <1>5 DEF Bind
  <2>2. CASE BindFails \/ HostFails
    BY <2>2, <1>2, <1>3 DEF BindFails, HostFails
  <2>3. CASE Record
    <3>1. command.recording \in Names /\ FilesTyped
      BY <2>3 DEF Record, CommandInvariant, CommandTyped
    <3>2. FilesTyped'
      BY <2>3, <3>1, OpenKeepsTypes DEF Record
    <3> QED
      BY <2>3, <3>2, <1>4 DEF Record
  <2>4. CASE NoRecording
    BY <2>4, <1>4, <1>5 DEF NoRecording
  <2>5. CASE IdentityRefused
    BY <2>5, <1>3 DEF IdentityRefused
  <2>6. CASE OpenLog
    <3>1. command.log \in Names /\ FilesTyped
      BY <2>6 DEF OpenLog, CommandInvariant, CommandTyped
    <3>2. FilesTyped'
      BY <2>6, <3>1, OpenKeepsTypes DEF OpenLog
    <3> QED
      BY <2>6, <3>2, <1>4 DEF OpenLog, AfterLog
  <2>7. CASE NoLog
    BY <2>7, <1>4, <1>5 DEF NoLog, AfterLog
  <2>8. CASE OutputFails
    BY <2>8, <1>2 DEF OutputFails
  <2>9. CASE WriteHeader
    <3>1. FilesTyped'
      BY <2>9 DEF WriteHeader, CommandInvariant, FilesTyped
    <3> QED
      BY <2>9, <3>1, <1>4 DEF WriteHeader
  <2> QED
    BY <1>12, <2>1, <2>2, <2>3, <2>4, <2>5, <2>6, <2>7, <2>8, <2>9 DEF Opening
<1>13. CASE Kill
  <2>1. FilesTyped' /\ Counters'
    BY <1>13, <1>5 DEF Kill, CommandInvariant, Counters, history
  <2> QED
    BY <1>13, <2>1, MovingOn DEF Kill
<1>14. CASE Operator
  <2>1. FilesTyped'
    <3>1. CASE \E place \in EditPlaces : Remove(place)
      BY <3>1, CommandsAssumption DEF Remove, Edit, CommandInvariant, FilesTyped
    <3>2. CASE \E place \in EditPlaces, content \in NewContents : Write(place, content)
      <4>1. FreshNode \in Nodes \cup {Nowhere}
        BY FreshNodeIsUnused DEF Unused
      <4> QED
        BY <3>2, <4>1, CommandsAssumption DEF Write, Edit, CommandInvariant, FilesTyped
    <3>3. CASE \E place, other \in EditPlaces : LinkTo(place, other)
      BY <3>3, CommandsAssumption DEF LinkTo, Edit, CommandInvariant, FilesTyped
    <3> QED
      BY <1>14, <3>1, <3>2, <3>3 DEF Operator
  <2>2. Edit
    BY <1>14 DEF Operator, Remove, Write, LinkTo
  <2>3. Counters'
    BY <2>2 DEF Edit, CommandInvariant, Counters
  <2> QED
    BY <2>1, <2>2, <2>3, MovingOn DEF Edit
<1>15. CASE UNCHANGED vars
  <2>1. FilesTyped' /\ Counters'
    BY <1>15, <1>5 DEF vars, CommandInvariant, Counters, history
  <2> QED
    BY <1>15, <2>1, MovingOn DEF vars
<1> QED
  BY <1>6, <1>7, <1>8, <1>9, <1>11, <1>12, <1>13, <1>14, <1>15, <1>10 DEF Next, Command

(* So it holds in every state.                                             *)
LEMMA CommandInvariantHolds == Spec => []CommandInvariant
BY CommandInvariantStarts, CommandInvariantKept, PTL DEF Spec

-----------------------------------------------------------------------------
(* What the invariant says of the settings.                                *)

(* Whatever a command runs with satisfies what its family accepts, with    *)
(* the options of a link over it.                                          *)
LEMMA EffectiveIsAccepted ==
  ASSUME CommandInvariant, SettingsAreEffective
  PROVE  Accepted(Family, settings)
<1>1. Accepted(Family, chosen[2].settings) /\ UsageAccepted /\ settings = InForce
  BY DEF CommandInvariant, Stages, SettingsAreEffective
<1>2. CASE command.kind = "link"
  <2>1. Family = "profile"
    BY <1>2 DEF CommandInvariant, CommandTyped
  <2>2. \A key \in DOMAIN command.options : OptionAccepted(key, command.options[key])
    BY <1>1, <1>2 DEF UsageAccepted
  <2>3. AcceptedLink(settings)
    BY <1>1, <1>2, <2>1, <2>2, OptionsAreAccepted DEF Accepted, InForce, Effective
  <2> QED
    BY <2>1, <2>3 DEF Accepted
<1>3. CASE command.kind # "link"
  BY <1>1, <1>3 DEF InForce, Effective
<1> QED
  BY <1>2, <1>3

(* Every variable has its type in every state of every command, and every  *)
(* rate and threshold in force is a float (the listeners, links and        *)
(* validations of cli.py and link/cli.py).                                 *)
THEOREM CommandTypes == Spec => []TypeOK
<1>1. CommandInvariant => TypeOK
  <2> SUFFICES ASSUME CommandInvariant PROVE TypeOK
    OBVIOUS
  <2>1. phase \in Final \cup {"start", "load", "read", "resolved", "bind", "record", "log", "header"}
    BY DEF CommandInvariant, Stages, Resolving, Configured, Failed, Final
  <2>2. \A key \in DOMAIN settings \ (Counts \cup {"alarm_on_safe", "detect_gaps"}) :
          Kind(settings[key]) \in {"float", "-0"}
    <3>1. CASE settings = NoSettings
      BY <3>1 DEF NoSettings
    <3>2. CASE SettingsAreEffective
      <4>1. AcceptedPolicy(settings) \/ AcceptedLink(settings)
        BY <3>2, EffectiveIsAccepted DEF Accepted
      <4>2. ASSUME AcceptedPolicy(settings)
            PROVE  \A key \in DOMAIN settings \ {"alarm_on_safe", "detect_gaps"} :
                     Kind(settings[key]) \in {"float", "-0"}
        BY <4>2 DEF AcceptedPolicy, PolicyKeys
      <4>3. ASSUME AcceptedLink(settings)
            PROVE  \A key \in DOMAIN settings \ Counts : Kind(settings[key]) \in {"float", "-0"}
        BY <4>3 DEF AcceptedLink, LinkKeys
      <4> QED
        BY <4>1, <4>2, <4>3
    <3> QED
      BY <3>1, <3>2 DEF CommandInvariant, Stages
  <2> QED
    BY <2>1, <2>2 DEF TypeOK, CommandInvariant, FilesTyped, Counters
<1> QED
  BY <1>1, CommandInvariantHolds, PTL

(* A listener never runs, and no policy is called valid, outside what the  *)
(* alarm rules assume; a link never runs, and no profile is called valid,  *)
(* outside what the impairment engine assumes.                             *)
THEOREM AcceptedSettingsAreSound == Spec => []RunsWithinAssumptions
<1>1. CommandInvariant => RunsWithinAssumptions
  <2> SUFFICES ASSUME CommandInvariant, phase \in {"running", "done"}
               PROVE  IF Family = "policy" THEN Rules!ValidPolicy
                      ELSE /\ \A key \in Rates : Number(settings[key]) \in 0 .. Hundred
                           /\ \A key \in Counts : settings[key][2] >= 0
                           /\ settings["seed"][2] <= MaxSeed
                           /\ settings["reorder_window"][2] <= MaxReorderWindow
    BY DEF RunsWithinAssumptions
  <2>1. Accepted(Family, settings)
    BY EffectiveIsAccepted DEF CommandInvariant, Stages, Configured
  <2>2. CASE Family = "policy"
    <3>1. AcceptedPolicy(settings)
      BY <2>1, <2>2 DEF Accepted
    <3>2. Rules!ValidPolicy
      BY <3>1 DEF AcceptedPolicy, Rules!ValidPolicy, Thresholds
    <3> QED
      BY <2>2, <3>2
  <2>3. CASE Family # "policy"
    BY <2>1, <2>3 DEF Accepted, AcceptedLink, CountInRange, Counts
  <2> QED
    BY <2>2, <2>3
<1> QED
  BY <1>1, CommandInvariantHolds, PTL

-----------------------------------------------------------------------------
(* What a reference is resolved to.                                        *)

(* While a reference is being resolved, what it means now is an answer; a  *)
(* file is looked at only for a reference that may mean a file; a command  *)
(* without a reference has the defaults.                                   *)
ResolutionInvariant ==
  /\ phase \in Resolving => Resolve(Family, command.reference, at, data) \in answers
  /\ chosen # Unresolved => chosen \in answers
  /\ phase \in {"load", "read"} =>
       /\ command.reference.name # "" /\ command.reference # NoReference
       /\ \/ command.reference.form = "file"
          \/ command.reference.form = "bare" /\ command.reference.name \notin Builtins(Family)
  /\ chosen # Unresolved /\ command.reference = NoReference => chosen = Default(Family)

(* A path that is no file reads like a document that is refused.           *)
LEMMA NoFileIsRefused ==
  ASSUME NEW name, ~IsFile(at, data, name)
  PROVE  LoadFile(Family, at, data, name) = Refused
<1>1. Missing # Deep /\ Directory # Deep
  BY DEF Missing, Directory, Deep
<1> QED BY <1>1 DEF IsFile, LoadFile, Parse, Missing, Directory

(* An answer is chosen.                                                    *)
LEMMA ChoosingAnAnswer ==
  ASSUME ResolutionInvariant, NEW result, GoodResult(Family, result), Resolved(result),
         result \in answers, command.reference = NoReference => result = Default(Family)
  PROVE  ResolutionInvariant'
<1>1. UNCHANGED <<command, answers>> /\ chosen' = result /\ Family' = Family
  BY UsageIsKept DEF Resolved
<1>2. phase' \in {"resolved", "refused", "crashed"}
  BY DEF Resolved, GoodResult
<1> QED
  BY <1>1, <1>2 DEF ResolutionInvariant, Resolving, Default

(* A step past the resolution, that leaves the choice alone.               *)
LEMMA ChoiceIsKept ==
  ASSUME ResolutionInvariant, UNCHANGED <<command, chosen, answers>>, phase' \notin Resolving
  PROVE  ResolutionInvariant'
<1>1. Family' = Family
  BY UsageIsKept
<1> QED
  BY <1>1 DEF ResolutionInvariant, Resolving, Default

(* Resolution goes on in the same files.                                   *)
LEMMA LookingOn ==
  ASSUME ResolutionInvariant, UNCHANGED <<command, chosen, answers, files>>, phase \in Resolving,
         /\ command.reference.name # "" /\ command.reference # NoReference
         /\ \/ command.reference.form = "file"
            \/ command.reference.form = "bare" /\ command.reference.name \notin Builtins(Family)
  PROVE  ResolutionInvariant'
<1>1. Family' = Family /\ at' = at /\ data' = data
  BY UsageIsKept DEF files
<1>2. Resolve(Family, command.reference, at, data)' = Resolve(Family, command.reference, at, data)
  BY <1>1
<1> QED
  BY <1>1, <1>2 DEF ResolutionInvariant, Resolving, Default

(* What the reference means now; it is chosen, or looked at again.         *)
Meaning == Resolve(Family, command.reference, at, data)

ChoosesMeaning == phase \in Resolving /\ Resolved(Meaning) /\ GoodResult(Family, Meaning)

LooksAgain ==
  /\ phase \in Resolving /\ phase' \in {"load", "read"}
  /\ UNCHANGED <<command, reason, chosen, settings, outputs, files, edits, history>>
  /\ command.reference.name # "" /\ command.reference # NoReference
  /\ \/ command.reference.form = "file"
     \/ command.reference.form = "bare" /\ command.reference.name \notin Builtins(Family)

(* Every step of a resolution chooses what the reference means now, or     *)
(* looks again, or ends in an access that failed.                          *)
LEMMA ResolutionChoosesMeaning ==
  ASSUME CommandInvariant, ResolutionInvariant, Resolution
  PROVE  ChoosesMeaning \/ LooksAgain \/ AccessFails
<1> DEFINE reference == command.reference
<1>1. Family \in Families /\ "" \notin Builtins(Family)
  BY BundleAssumption DEF CommandInvariant, CommandTyped, Builtins
<1>2. NoReference.form = "none" /\ NoReference.name = ""
  BY DEF NoReference, Reference
<1>3. ASSUME NEW next, Proceed(next), UNCHANGED <<settings, outputs, files, settled>>
      PROVE  /\ UNCHANGED <<command, reason, chosen, settings, outputs, files, edits, history>>
             /\ phase' = next
  BY <1>3 DEF Proceed, history
<1>4. CASE UseDefault
  <2>1. Meaning = Default(Family)
    BY <1>4 DEF UseDefault, Meaning, Resolve
  <2> QED
    BY <1>1, <1>4, <2>1, DefaultIsGood DEF UseDefault, Resolving, ChoosesMeaning
<1>5. CASE SelectBuiltin
  <2>1. reference # NoReference
    BY <1>2, <1>5 DEF SelectBuiltin
  <2>2. Meaning = LoadBuiltin(Family, reference.name)
    BY <1>1, <1>5, <2>1 DEF SelectBuiltin, Meaning, Resolve, LoadBuiltin
  <2> QED
    BY <1>1, <1>5, <2>2, BuiltinIsGood DEF SelectBuiltin, Resolving, ChoosesMeaning
<1>6. CASE SelectFile
  <2>1. reference # NoReference
    BY <1>2, <1>6 DEF SelectFile
  <2>2. CASE reference.name = ""
    <3>1. Meaning = Refused
      BY <2>1, <2>2 DEF Meaning, Resolve
    <3> QED
      BY <1>6, <2>2, <3>1, RefusedIsGood DEF SelectFile, Resolving, ChoosesMeaning
  <2>3. CASE reference.name # ""
    BY <1>3, <1>6, <2>1, <2>3 DEF SelectFile, Resolving, LooksAgain
  <2> QED
    BY <2>2, <2>3
<1>7. CASE InspectPath
  <2>1. reference # NoReference /\ phase \in Resolving /\ reference.form = "bare"
    BY <1>2, <1>7 DEF InspectPath, Resolving
  <2>2. CASE reference.name = ""
    <3>1. Meaning = Refused
      BY <2>1, <2>2 DEF Meaning, Resolve
    <3> QED
      BY <1>7, <2>1, <2>2, <3>1, RefusedIsGood DEF InspectPath, ChoosesMeaning
  <2>3. CASE reference.name # "" /\ reference.name \in Builtins(Family)
    <3>1. CASE IsFile(at, data, reference.name)
      <4>1. Meaning = Refused
        BY <2>1, <2>3, <3>1 DEF Meaning, Resolve
      <4> QED
        BY <1>7, <2>1, <2>3, <3>1, <4>1, RefusedIsGood DEF InspectPath, ChoosesMeaning
    <3>2. CASE ~IsFile(at, data, reference.name)
      <4>1. Meaning = LoadBuiltin(Family, reference.name)
        BY <2>1, <2>3, <3>2 DEF Meaning, Resolve
      <4> QED
        BY <1>1, <1>7, <2>1, <2>3, <3>2, <4>1, BuiltinIsGood DEF InspectPath, ChoosesMeaning
    <3> QED
      BY <3>1, <3>2
  <2>4. CASE reference.name # "" /\ reference.name \notin Builtins(Family)
    <3>1. CASE IsFile(at, data, reference.name)
      BY <1>3, <1>7, <2>1, <2>4, <3>1 DEF InspectPath, LooksAgain
    <3>2. CASE ~IsFile(at, data, reference.name)
      <4>1. Meaning = Refused
        BY <2>1, <2>4, <3>2, NoFileIsRefused DEF Meaning, Resolve
      <4> QED
        BY <1>7, <2>1, <2>4, <3>2, <4>1, RefusedIsGood DEF InspectPath, ChoosesMeaning
    <3> QED
      BY <3>1, <3>2
  <2> QED
    BY <2>2, <2>3, <2>4
<1>8. ASSUME phase \in {"load", "read"}
      PROVE  Meaning = LoadFile(Family, at, data, reference.name)
  BY <1>8 DEF ResolutionInvariant, Meaning, Resolve
<1>9. CASE CheckFile
  <2>1. CASE IsFile(at, data, reference.name)
    BY <1>3, <1>9, <2>1 DEF CheckFile, Resolving, ResolutionInvariant, LooksAgain
  <2>2. CASE ~IsFile(at, data, reference.name)
    BY <1>8, <1>9, <2>2, NoFileIsRefused, RefusedIsGood DEF CheckFile, Resolving, ChoosesMeaning
  <2> QED
    BY <2>1, <2>2
<1>10. CASE ReadFile
  <2>1. GoodResult(Family, LoadFile(Family, at, data, reference.name))
    BY <1>1, ParsedIsGood DEF LoadFile
  <2> QED
    BY <1>8, <1>10, <2>1 DEF ReadFile, Resolving, ChoosesMeaning
<1> QED
  BY <1>4, <1>5, <1>6, <1>7, <1>9, <1>10 DEF Resolution

(* The steps of a resolution choose an answer or go on.                    *)
LEMMA ResolutionChoosesAnAnswer ==
  ASSUME CommandInvariant, ResolutionInvariant, Resolution
  PROVE  ResolutionInvariant'
<1>1. CASE ChoosesMeaning
  <2>1. Meaning \in answers
    BY <1>1 DEF ChoosesMeaning, ResolutionInvariant, Meaning
  <2>2. command.reference = NoReference => Meaning = Default(Family)
    BY DEF Meaning, Resolve
  <2> QED
    BY <1>1, <2>1, <2>2, ChoosingAnAnswer DEF ChoosesMeaning
<1>2. CASE LooksAgain
  BY <1>2, LookingOn DEF LooksAgain, history
<1>3. CASE AccessFails
  BY <1>3, ChoiceIsKept DEF AccessFails, Refuse, Resolving, history
<1> QED
  BY <1>1, <1>2, <1>3, ResolutionChoosesMeaning

(* The files, the choice and the answers stay consistent in every step.    *)
LEMMA ResolutionInvariantKept ==
  CommandInvariant /\ ResolutionInvariant /\ [Next]_vars => ResolutionInvariant'
<1> SUFFICES ASSUME CommandInvariant, ResolutionInvariant, [Next]_vars PROVE ResolutionInvariant'
  OBVIOUS
<1>1. CASE Resolution
  BY <1>1, ResolutionChoosesAnAnswer
<1>2. CASE RefuseUsage \/ Answer \/ AnswerFails \/ Override \/ OverrideFails \/ Compare \/ Kill
  BY <1>2, ChoiceIsKept DEF RefuseUsage, Answer, AnswerFails, Override, OverrideFails, Compare,
     Kill, Refuse, Crash, Proceed, Resolving, history
<1>3. CASE Opening
  BY <1>3, ChoiceIsKept DEF Opening, Bind, BindFails, HostFails, Record, NoRecording,
     IdentityRefused, OpenLog, NoLog, OutputFails, WriteHeader, AfterLog, Refuse, Crash, Proceed,
     Resolving, history
<1>4. CASE Operator
  <2>1. /\ UNCHANGED <<command, phase, chosen>>
        /\ answers' = IF phase \in {"start", "load", "read"}
                      THEN answers \cup {Resolve(Family, command.reference, at', data')}
                      ELSE answers
    BY <1>4 DEF Operator, Remove, Write, LinkTo, Edit
  <2>2. Family' = Family
    BY <2>1, UsageIsKept
  <2>3. phase' \in Resolving => Resolve(Family, command.reference, at, data)' \in answers'
    BY <2>1, <2>2 DEF Resolving
  <2>4. Default(Family)' = Default(Family)
    BY <2>2
  <2> QED
    BY <2>1, <2>2, <2>3, <2>4 DEF ResolutionInvariant
<1>5. CASE UNCHANGED vars
  <2>1. UNCHANGED <<command, phase, chosen, answers, at, data>> /\ Family' = Family
    BY <1>5 DEF vars, files, history, Family
  <2> QED
    BY <2>1 DEF ResolutionInvariant
<1> QED
  BY <1>1, <1>2, <1>3, <1>4, <1>5 DEF Next, Command

(* In every state, a reference means what it meant at one moment.          *)
LEMMA ResolutionInvariantHolds == Spec => [](CommandInvariant /\ ResolutionInvariant)
<1>1. Init => ResolutionInvariant
  BY DEF Init, ResolutionInvariant, Resolving, Family
<1> QED
  BY <1>1, CommandInvariantStarts, CommandInvariantKept, ResolutionInvariantKept, PTL DEF Spec

(* However the operator changes files while resolve_alarm_policy or        *)
(* resolve_mission_profile looks at a path, checks it again and reads it,  *)
(* the outcome is what the reference meant at one moment.                  *)
THEOREM ResolutionIsOfSomeMoment == Spec => []ResolvesAsOfSomeMoment
<1>1. ResolutionInvariant => ResolvesAsOfSomeMoment
  BY DEF ResolutionInvariant, ResolvesAsOfSomeMoment
<1> QED
  BY <1>1, ResolutionInvariantHolds, PTL

(* The settings of a running link are its options, then its profile, then  *)
(* the defaults (_resolved_link_configuration).                            *)
THEOREM OptionsAreKept == Spec => []OptionsWin
<1>1. CommandInvariant /\ ResolutionInvariant => OptionsWin
  <2> SUFFICES ASSUME CommandInvariant, ResolutionInvariant,
                      phase = "running", command.kind = "link", NEW key \in LinkKeys
               PROVE  IF key \in DOMAIN command.options
                      THEN Number(settings[key]) = Number(command.options[key])
                      ELSE settings[key] = IF command.reference = NoReference THEN DefaultLink[key]
                                           ELSE chosen[2].settings[key]
    BY DEF OptionsWin
  <2>1. Family = "profile" /\ chosen[1] = "ok" /\ settings = InForce
        /\ AcceptedLink(chosen[2].settings)
    BY DEF CommandInvariant, CommandTyped, Stages, Configured, SettingsAreEffective, Accepted
  <2>2. settings[key] = IF key \in DOMAIN command.options
                        THEN IF key \in Rates THEN ToFloat(command.options[key])
                             ELSE command.options[key]
                        ELSE chosen[2].settings[key]
    BY <2>1 DEF InForce, Effective, WithOptions, AcceptedLink
  <2>3. command.reference = NoReference => chosen[2].settings = DefaultLink
    <3>1. chosen # Unresolved
      BY <2>1 DEF Unresolved
    <3>2. command.reference = NoReference => chosen = Default(Family)
      BY <3>1 DEF ResolutionInvariant
    <3>3. Family # "policy" => Default(Family)[2].settings = DefaultLink
      BY DEF Default
    <3> QED
      BY <2>1, <3>2, <3>3
  <2> QED
    BY <2>2, <2>3, ToFloatKeepsTheNumber
<1> QED
  BY <1>1, ResolutionInvariantHolds, PTL

-----------------------------------------------------------------------------
(* Refusals: no file is touched by a command that is refused.              *)

(* Nothing is open before a command is configured, nor before a listener   *)
(* has its port; only listeners and links open files, and only listeners   *)
(* record.                                                                 *)
TraceInvariant ==
  /\ phase \in Resolving \cup {"resolved"} => outputs = Silent
  /\ command.kind = "listen" /\ phase \in {"bind", "record"} => outputs = Silent
  /\ phase \in {"bind", "record", "log", "header", "running"} => command.kind \in {"listen", "link"}
  /\ phase = "record" => command.kind = "listen"
  /\ RefusalsLeaveNoTrace

(* Every step of a command, and every change of the operator, keeps it.    *)
LEMMA TraceInvariantKept ==
  CommandInvariant /\ TraceInvariant /\ [Next]_vars => TraceInvariant'
<1> SUFFICES ASSUME CommandInvariant, TraceInvariant, [Next]_vars PROVE TraceInvariant'
  OBVIOUS
<1> USE DEF TraceInvariant, Resolving, RefusalsLeaveNoTrace, Silent
<1>1. CASE RefuseUsage
  BY <1>1 DEF RefuseUsage, Refuse
<1>2. CASE Resolution
  <2>1. UNCHANGED <<command, outputs>> /\ outputs = Silent
        /\ phase' \in {"load", "read", "resolved", "refused", "crashed"}
    <3>1. \A result \in {Refused, Default(Family), LoadBuiltin(Family, command.reference.name),
                         LoadFile(Family, at, data, command.reference.name)} :
            Resolved(result) => phase' \in {"resolved", "refused", "crashed"}
      <4>1. Family \in Families
        BY DEF CommandInvariant, CommandTyped
      <4> QED
        BY <4>1, RefusedIsGood, DefaultIsGood, BuiltinIsGood, ParsedIsGood, ZenonT(60)
           DEF LoadFile, GoodResult, Resolved
    <3> QED
      BY <1>2, <3>1 DEF Resolution, UseDefault, SelectBuiltin, SelectFile, InspectPath,
         CheckFile, ReadFile, AccessFails, Resolved, Refuse, Proceed
  <2> QED
    BY <2>1
<1>3. CASE Answer \/ AnswerFails \/ Override \/ OverrideFails \/ Compare
  BY <1>3 DEF Answer, AnswerFails, Override, OverrideFails, Compare, Proceed, Refuse, Crash
<1>4. CASE Opening
  <2>1. CASE Bind \/ BindFails \/ HostFails
    BY <2>1 DEF Bind, BindFails, HostFails, Proceed, Refuse, Crash
  <2>2. CASE Record \/ NoRecording
    BY <2>2 DEF Record, NoRecording, Proceed
  <2>3. CASE OpenLog \/ NoLog
    BY <2>3 DEF OpenLog, NoLog, AfterLog, Proceed
  <2>4. CASE IdentityRefused \/ OutputFails \/ WriteHeader
    BY <2>4 DEF IdentityRefused, OutputFails, WriteHeader, Refuse, Crash, Proceed
  <2> QED
    BY <1>4, <2>1, <2>2, <2>3, <2>4 DEF Opening
<1>5. CASE Kill
  BY <1>5 DEF Kill
<1>6. CASE Operator
  BY <1>6 DEF Operator, Remove, Write, LinkTo, Edit
<1>7. CASE UNCHANGED vars
  BY <1>7 DEF vars
<1> QED
  BY <1>1, <1>2, <1>3, <1>4, <1>5, <1>6, <1>7 DEF Next, Command

(* It holds of every command from its start.                               *)
LEMMA TraceInvariantHolds == Spec => [](CommandInvariant /\ TraceInvariant)
<1>1. Init => TraceInvariant
  BY DEF Init, TraceInvariant, Resolving, RefusalsLeaveNoTrace, Silent
<1> QED
  BY <1>1, CommandInvariantStarts, CommandInvariantKept, TraceInvariantKept, PTL DEF Spec

(* main() and run_link_command refuse arguments, references, documents and *)
(* aliased destinations, and the listener a port that is taken, before a   *)
(* file is opened for writing: earlier recordings survive.                 *)
THEOREM RefusalsAreClean == Spec => []RefusalsLeaveNoTrace
<1>1. TraceInvariant => RefusalsLeaveNoTrace
  BY DEF TraceInvariant
<1> QED
  BY <1>1, TraceInvariantHolds, PTL

-----------------------------------------------------------------------------
(* Two recordings: they are not one file.                                  *)

BothNamed == command.recording # NoOutput /\ command.log # NoOutput

(* From the comparison to the opening of the second file the two names     *)
(* lead to different nodes, whatever node is made for either.              *)
ApartInvariant ==
  /\ command.kind # "listen" \/ command.recording = NoOutput => outputs["recording"] = Nowhere
  /\ phase = "log" => outputs["log"] = Nowhere
  /\ phase \in {"bind", "record"} /\ command.kind = "listen" /\ "compared" \in settled /\ BothNamed =>
       ~SameFile(command.recording, command.log)
  /\ phase = "log" /\ command.kind = "listen" /\ "compared" \in settled /\ BothNamed =>
       at[Canonical[command.log]] # outputs["recording"]
  /\ RecordingsStayApart

(* A node that is made is none of those the places and outputs have.       *)
LEMMA FreshNodesAreNew ==
  ASSUME FreshNode # Nowhere
  PROVE  /\ \A place \in Places : at[place] # FreshNode
         /\ FilesTyped => outputs["recording"] # FreshNode /\ outputs["log"] # FreshNode
BY FreshNodeIsUnused DEF Unused, FilesTyped

(* The recording that is opened is not the file the log will be.           *)
LEMMA RecordingIsApart ==
  ASSUME CommandInvariant, TraceInvariant, ApartInvariant, Record
  PROVE  ApartInvariant'
<1> DEFINE place == Canonical[command.recording]
           other == Canonical[command.log]
<1>1. /\ UNCHANGED <<command, settled>> /\ phase = "record" /\ phase' = "log"
      /\ outputs = Silent /\ command.kind = "listen" /\ command.recording # NoOutput
  BY DEF Record, Proceed, TraceInvariant
<1>2. place \in Places /\ (command.log # NoOutput => other \in Places)
  BY <1>1 DEF CommandInvariant, CommandTyped, Places
<1>3. /\ FilesTyped /\ at'[place] \in Nodes
      /\ outputs' = [outputs EXCEPT !["recording"] = at'[place]]
      /\ at' = [at EXCEPT ![place] = IF at[place] = Nowhere THEN FreshNode ELSE at[place]]
  BY DEF Record, Open, CommandInvariant
<1>4. outputs'["recording"] = at'[place] /\ outputs'["log"] = Nowhere
  BY <1>1, <1>3 DEF FilesTyped, Silent
<1>5. ASSUME "compared" \in settled, BothNamed
      PROVE  at'[other] # outputs'["recording"]
  <2>1. place # other /\ ~(at[place] # Nowhere /\ at[place] = at[other])
    BY <1>1, <1>5 DEF ApartInvariant, SameFile
  <2>2. other \in Places
    BY <1>2, <1>5 DEF BothNamed
  <2>3. at'[other] = at[other] /\ at'[place] = IF at[place] = Nowhere THEN FreshNode ELSE at[place]
    BY <1>2, <1>3, <2>1, <2>2 DEF FilesTyped
  <2>4. at'[place] # Nowhere
    BY <1>3, CommandsAssumption
  <2> QED
    BY <1>4, <2>1, <2>2, <2>3, <2>4, FreshNodesAreNew
<1> QED
  BY <1>1, <1>4, <1>5 DEF ApartInvariant, RecordingsStayApart, BothNamed

(* The log that is opened is not the file the recording is.                *)
LEMMA LogIsApart ==
  ASSUME CommandInvariant, TraceInvariant, ApartInvariant, OpenLog
  PROVE  ApartInvariant'
<1> DEFINE place == Canonical[command.log]
<1>1. /\ UNCHANGED <<command, settled>> /\ phase = "log" /\ phase' \in {"header", "bind"}
      /\ (phase' = "bind" => command.kind # "listen") /\ command.log # NoOutput
  BY DEF OpenLog, Proceed, AfterLog
<1>2. place \in Places
  BY <1>1 DEF CommandInvariant, CommandTyped, Places
<1>3. /\ FilesTyped /\ at'[place] \in Nodes
      /\ outputs' = [outputs EXCEPT !["log"] = at'[place]]
      /\ at' = [at EXCEPT ![place] = IF at[place] = Nowhere THEN FreshNode ELSE at[place]]
  BY DEF OpenLog, Open, CommandInvariant
<1>4. outputs'["log"] = at'[place] /\ outputs'["recording"] = outputs["recording"]
  BY <1>3 DEF FilesTyped
<1>5. at'[place] = IF at[place] = Nowhere THEN FreshNode ELSE at[place]
  BY <1>2, <1>3 DEF FilesTyped
<1>6. at'[place] # Nowhere
  BY <1>3, CommandsAssumption
<1>7. ASSUME "compared" \in settled, outputs["recording"] # Nowhere
      PROVE  outputs'["log"] # outputs["recording"]
  <2>1. at[place] # outputs["recording"]
    BY <1>1, <1>7 DEF ApartInvariant, BothNamed
  <2> QED
    BY <1>3, <1>4, <1>5, <1>6, <2>1, FreshNodesAreNew
<1>8. RecordingsStayApart'
  BY <1>1, <1>4, <1>7 DEF RecordingsStayApart
<1> QED
  BY <1>1, <1>4, <1>8 DEF ApartInvariant

(* A step that opens nothing, between two stages that open the same files. *)
LEMMA StayingApart ==
  ASSUME ApartInvariant, UNCHANGED <<command, outputs, at>>,
         "compared" \in settled' => "compared" \in settled,
         \/ phase' = phase
         \/ phase' \notin {"bind", "record", "log"}
         \/ phase' = "bind" /\ command.kind # "listen"
         \/ phase = "bind" /\ phase' = "record"
         \/ /\ phase' = "log" /\ outputs["log"] = Nowhere
            /\ command.kind # "listen" \/ command.recording = NoOutput
  PROVE  ApartInvariant'
<1>1. /\ SameFile(command.recording, command.log)' = SameFile(command.recording, command.log)
      /\ BothNamed' = BothNamed
  BY DEF SameFile, BothNamed
<1> QED
  BY <1>1 DEF ApartInvariant, RecordingsStayApart, BothNamed

(* Every step of a command, and every change of the operator, keeps it.    *)
LEMMA ApartInvariantKept ==
  CommandInvariant /\ TraceInvariant /\ ApartInvariant /\ [Next]_vars => ApartInvariant'
<1> SUFFICES ASSUME CommandInvariant, TraceInvariant, ApartInvariant, [Next]_vars
             PROVE  ApartInvariant'
  OBVIOUS
<1>1. CASE RefuseUsage \/ AccessFails \/ Kill
  BY <1>1, StayingApart DEF RefuseUsage, AccessFails, Kill, Refuse, files, history
<1>2. CASE Resolution /\ ~AccessFails
  <2>1. \A result \in {Refused, Default(Family), LoadBuiltin(Family, command.reference.name),
                       LoadFile(Family, at, data, command.reference.name)} :
          Resolved(result) => phase' \in {"resolved", "refused", "crashed"}
    <3>1. Family \in Families
      BY DEF CommandInvariant, CommandTyped
    <3> QED
      BY <3>1, RefusedIsGood, DefaultIsGood, BuiltinIsGood, ParsedIsGood
         DEF LoadFile, GoodResult, Resolved
  <2>2. /\ UNCHANGED <<command, outputs, at>>
        /\ "compared" \in settled' => "compared" \in settled
        /\ phase' \in {"load", "read", "resolved", "refused", "crashed"}
    BY <1>2, <2>1 DEF Resolution, UseDefault, SelectBuiltin, SelectFile, InspectPath,
       CheckFile, ReadFile, Resolved, Proceed, files
  <2> QED
    BY <2>2, StayingApart
<1>3. CASE Answer \/ AnswerFails \/ OverrideFails
  BY <1>3, StayingApart DEF Answer, AnswerFails, OverrideFails, Refuse, Crash, Proceed, files,
     history
<1>4. CASE Override
  <2>1. outputs["log"] = Nowhere
    BY <1>4 DEF Override, TraceInvariant, Silent
  <2> QED
    BY <1>4, <2>1, StayingApart DEF Override, Proceed, files
<1>5. CASE Compare
  <2>1. UNCHANGED <<command, outputs, at>> /\ outputs = Silent
    BY <1>5 DEF Compare, TraceInvariant, files
  <2>2. phase' = "refused" \/ (phase' = "bind" /\ (BothNamed => ~SameFile(command.recording, command.log)))
    BY <1>5 DEF Compare, BothNamed
  <2>3. /\ SameFile(command.recording, command.log)' = SameFile(command.recording, command.log)
        /\ BothNamed' = BothNamed
    BY <2>1 DEF SameFile, BothNamed
  <2> QED
    BY <2>1, <2>2, <2>3 DEF ApartInvariant, RecordingsStayApart, Silent
<1>6. CASE Opening
  <2>1. CASE Bind \/ BindFails \/ HostFails
    BY <2>1, StayingApart DEF Bind, BindFails, HostFails, Proceed, Refuse, Crash, files, history
  <2>2. CASE Record
    BY <2>2, RecordingIsApart
  <2>3. CASE NoRecording
    <3>1. outputs["log"] = Nowhere
      BY <2>3 DEF NoRecording, TraceInvariant, Silent
    <3> QED
      BY <2>3, <3>1, StayingApart DEF NoRecording, Proceed, files
  <2>4. CASE OpenLog
    BY <2>4, LogIsApart
  <2>5. CASE NoLog
    BY <2>5, StayingApart DEF NoLog, AfterLog, Proceed, files
  <2>6. CASE IdentityRefused \/ OutputFails \/ WriteHeader
    BY <2>6, StayingApart DEF IdentityRefused, OutputFails, WriteHeader, Proceed, Refuse, Crash,
       files, history
  <2> QED
    BY <1>6, <2>1, <2>2, <2>3, <2>4, <2>5, <2>6 DEF Opening
<1>7. CASE Operator
  <2>1. UNCHANGED <<command, phase, outputs>> /\ settled' = {}
    BY <1>7 DEF Operator, Remove, Write, LinkTo, Edit
  <2> QED
    BY <2>1 DEF ApartInvariant, RecordingsStayApart
<1>8. CASE UNCHANGED vars
  BY <1>8, StayingApart DEF vars, files, history
<1> QED
  BY <1>1, <1>2, <1>3, <1>4, <1>5, <1>6, <1>7, <1>8 DEF Next, Command, Resolution

(* Under whatever names, the listener never writes telemetry and alarms to *)
(* one file, unless the directory is changed after                         *)
(* _validate_recording_destinations has looked at it.                      *)
THEOREM RecordingsAreApart == Spec => []RecordingsStayApart
<1>1. Init => ApartInvariant
  BY DEF Init, ApartInvariant, RecordingsStayApart
<1>2. Init => TraceInvariant
  BY DEF Init, TraceInvariant, Resolving, RefusalsLeaveNoTrace, Silent
<1>3. ApartInvariant => RecordingsStayApart
  BY DEF ApartInvariant
<1> QED
  BY <1>1, <1>2, <1>3, CommandInvariantStarts, CommandInvariantKept, TraceInvariantKept,
     ApartInvariantKept, PTL DEF Spec

-----------------------------------------------------------------------------
(* What a log says of its policy or profile, and what ends a command.      *)

(* As long as the operator changes nothing, the reference still means what *)
(* was chosen, or the command wrote over the file it names.                *)
StillMeans ==
  chosen # Unresolved /\ "resolved" \in settled =>
    Meaning = chosen \/ OverItsSource(command.reference)

(* What a result of a reference that is no file is, and what every source  *)
(* has.                                                                    *)
NamedResult(family, reference, result) ==
  reference # NoReference =>
    /\ result[1] = "ok" =>
         reference.name # "" /\ result[2].name # "" /\ result[2].version > 0
    /\ \/ ReadsFile(reference)
       \/ result = Refused
       \/ result = LoadBuiltin(family, reference.name)

ChoiceIsNamed == chosen # Unresolved => NamedResult(Family, command.reference, chosen)

OverflowCrash == reason = "overflow" /\ chosen[1] = "crashed" /\ outputs = Silent

RecursionCrash ==
  /\ reason = "recursion" /\ chosen[1] = "recursion" /\ outputs = Silent
  /\ command.kind # "link"

FingerprintCrash ==
  /\ reason = "fingerprint" /\ command.kind = "validate"
  /\ chosen[1] = "ok" /\ ~Printable(chosen[2].settings)

HostCrash == reason = "host" /\ command.kind = "listen" /\ ~command.encodable

IdentityCrash ==
  /\ reason = "identity" /\ command.kind = "listen" /\ command.log # NoOutput
  /\ command.reference.form = "bare" /\ command.reference.name \in BlankNames

CrashesAreKnown ==
  phase = "crashed" =>
    OverflowCrash \/ RecursionCrash \/ FingerprintCrash \/ HostCrash \/ IdentityCrash

(* What the command has opened holds nothing but what it wrote.            *)
OutputsAreItsOwn ==
  "resolved" \in settled =>
    \A output \in {"recording", "log"} :
      outputs[output] # Nowhere =>
        data[outputs[output]] = Empty \/ data[outputs[output]][1] = "log"

HeaderTells ==
  phase = "running" /\ outputs["log"] # Nowhere /\ data[outputs["log"]][1] = "log" =>
    data[outputs["log"]][2] = Header(Family, settings, Identity)

SourceInvariant ==
  StillMeans /\ ChoiceIsNamed /\ CrashesAreKnown /\ OutputsAreItsOwn /\ HeaderTells

(* Whatever a reference means, its source has a name and a version, and it *)
(* is a built-in unless it may be a file.                                  *)
LEMMA MeaningIsNamed ==
  ASSUME CommandInvariant
  PROVE  NamedResult(Family, command.reference, Meaning)
<1> DEFINE reference == command.reference
<1> SUFFICES ASSUME reference # NoReference
             PROVE  /\ Meaning[1] = "ok" =>
                         reference.name # "" /\ Meaning[2].name # "" /\ Meaning[2].version > 0
                    /\ \/ ReadsFile(reference)
                       \/ Meaning = Refused
                       \/ Meaning = LoadBuiltin(Family, reference.name)
  BY DEF NamedResult
<1>1. reference.form \in {"builtin", "file", "bare"}
  BY DEF CommandInvariant, ReferenceTyped
<1>2. \/ Meaning = Refused
      \/ reference.name # "" /\ Meaning = LoadBuiltin(Family, reference.name)
      \/ /\ reference.name # "" /\ ReadsFile(reference)
         /\ Meaning = LoadFile(Family, at, data, reference.name)
  BY <1>1 DEF Meaning, Resolve, ReadsFile
<1>3. ASSUME NEW content, Parse(Family, content)[1] = "ok"
      PROVE  Parse(Family, content)[2].name # "" /\ Parse(Family, content)[2].version > 0
  <2> DEFINE source == Parse(Family, content)[2]
  <2>1. source.name \in Slugs /\ source.version = 1
    BY <1>3, ParsedIsNamed
  <2> HIDE DEF source
  <2>2. source.name # ""
    BY <2>1, SlugsAssumption
  <2>3. source.version > 0
    BY <2>1
  <2> QED BY <2>2, <2>3 DEF source
<1>4. Refused[1] # "ok"
  BY DEF Refused
<1>5. LoadBuiltin(Family, reference.name)[1] = "ok" =>
        /\ LoadBuiltin(Family, reference.name)[2].name # ""
        /\ LoadBuiltin(Family, reference.name)[2].version > 0
  BY <1>3, <1>4 DEF LoadBuiltin
<1>6. LoadFile(Family, at, data, reference.name)[1] = "ok" =>
        /\ LoadFile(Family, at, data, reference.name)[2].name # ""
        /\ LoadFile(Family, at, data, reference.name)[2].version > 0
  BY <1>3 DEF LoadFile
<1> QED
  BY <1>2, <1>4, <1>5, <1>6

(* No built-in and no default ends a command; only a file does.            *)
LEMMA OnlyFilesCrash ==
  ASSUME CommandInvariant, Meaning[1] \in {"crashed", "recursion"}
  PROVE  /\ ReadsFile(command.reference)
         /\ Meaning = LoadFile(Family, at, data, command.reference.name)
<1> DEFINE reference == command.reference
<1>1. Family \in Families
  BY DEF CommandInvariant, CommandTyped
<1>2. reference = NoReference \/ reference.form \in {"builtin", "file", "bare"}
  BY DEF CommandInvariant, ReferenceTyped
<1>3. LoadBuiltin(Family, reference.name)[1] \notin {"crashed", "recursion"}
  BY <1>1, PackagedAssumption DEF LoadBuiltin, Refused
<1>4. Default(Family)[1] = "ok" /\ Refused[1] = "refused"
  BY DEF Default, Refused
<1> QED
  BY <1>2, <1>3, <1>4 DEF Meaning, Resolve, ReadsFile

(* A reference means the same in files that have the same content at its   *)
(* place.                                                                  *)
LEMMA MeaningIsOfOnePlace ==
  ASSUME CommandInvariant, UNCHANGED command,
         command.reference.form \in {"file", "bare"} /\ command.reference.name # "" =>
           Content(at, data, command.reference.name)' = Content(at, data, command.reference.name)
  PROVE  Meaning' = Meaning
<1>1. Family' = Family
  BY UsageIsKept
<1>2. command.reference = NoReference \/ command.reference.form \in {"builtin", "file", "bare"}
  BY DEF CommandInvariant, ReferenceTyped
<1>3. CASE command.reference = NoReference
  BY <1>1, <1>3 DEF Meaning, Resolve
<1>4. CASE command.reference # NoReference /\ command.reference.name = ""
  BY <1>1, <1>4 DEF Meaning, Resolve
<1>5. CASE command.reference # NoReference /\ command.reference.form = "builtin"
  BY <1>1, <1>5 DEF Meaning, Resolve
<1>6. CASE command.reference.form \in {"file", "bare"} /\ command.reference.name # ""
  BY <1>1, <1>6 DEF Meaning, Resolve, LoadFile, IsFile
<1> QED BY <1>2, <1>3, <1>4, <1>5, <1>6

-----------------------------------------------------------------------------
(* Steps that touch no file.                                               *)

(* Files, choice and outputs as they were, and a stage that is neither a   *)
(* crash nor the first of a run.                                           *)
LEMMA SourceIsKept ==
  ASSUME CommandInvariant, SourceInvariant,
         UNCHANGED <<command, chosen, outputs, at, data>>,
         "resolved" \in settled' => "resolved" \in settled,
         \/ UNCHANGED <<phase, reason, settings>>
         \/ phase' \notin {"crashed", "running"}
  PROVE  SourceInvariant'
<1>1. Family' = Family /\ Meaning' = Meaning
  <2>1. Content(at, data, command.reference.name)' = Content(at, data, command.reference.name)
    OBVIOUS
  <2> QED BY <2>1, UsageIsKept, MeaningIsOfOnePlace
<1>2. OverItsSource(command.reference)' = OverItsSource(command.reference)
  BY <1>1 DEF OverItsSource
<1>3. StillMeans'
  BY <1>1, <1>2 DEF SourceInvariant, StillMeans
<1>4. ChoiceIsNamed'
  <2>1. NamedResult(Family, command.reference, chosen)'
          = NamedResult(Family, command.reference, chosen)
    BY <1>1 DEF NamedResult, ReadsFile
  <2> QED BY <2>1 DEF SourceInvariant, ChoiceIsNamed
<1>5. CrashesAreKnown'
  BY DEF SourceInvariant, CrashesAreKnown, OverflowCrash, RecursionCrash,
     FingerprintCrash, HostCrash, IdentityCrash
<1>6. OutputsAreItsOwn'
  BY DEF SourceInvariant, OutputsAreItsOwn
<1>7. HeaderTells'
  <2>1. CASE UNCHANGED <<phase, reason, settings>>
    <3>1. Header(Family, settings, Identity)' = Header(Family, settings, Identity)
      BY <1>1, <2>1 DEF Header, Identity
    <3> QED BY <2>1, <3>1 DEF SourceInvariant, HeaderTells
  <2>2. CASE phase' \notin {"crashed", "running"}
    BY <2>2 DEF HeaderTells
  <2> QED BY <2>1, <2>2
<1> QED BY <1>3, <1>4, <1>5, <1>6, <1>7 DEF SourceInvariant

(* The reference is resolved.                                              *)
LEMMA SourceIsChosen ==
  ASSUME CommandInvariant, TraceInvariant, ChoosesMeaning
  PROVE  SourceInvariant'
<1>1. /\ UNCHANGED <<command, outputs, at, data>> /\ chosen' = Meaning /\ outputs = Silent
      /\ Meaning[1] \in {"ok", "refused", "crashed", "recursion"}
  BY DEF ChoosesMeaning, Resolved, files, TraceInvariant, GoodResult
<1>2. /\ phase' \in {"resolved", "refused", "crashed"}
      /\ phase' = "crashed" =>
           \/ reason' = "overflow" /\ Meaning[1] = "crashed"
           \/ reason' = "recursion" /\ Meaning[1] = "recursion" /\ command.kind # "link"
  BY <1>1 DEF ChoosesMeaning, Resolved
<1>3. Family' = Family /\ Meaning' = Meaning
  BY <1>1, UsageIsKept, MeaningIsOfOnePlace
<1>4. StillMeans'
  BY <1>1, <1>3 DEF StillMeans
<1>5. ChoiceIsNamed'
  BY <1>1, <1>3, MeaningIsNamed DEF ChoiceIsNamed, NamedResult, ReadsFile
<1>6. CrashesAreKnown'
  BY <1>1, <1>2 DEF CrashesAreKnown, OverflowCrash, RecursionCrash, Silent
<1>7. OutputsAreItsOwn'
  BY <1>1 DEF OutputsAreItsOwn, Silent
<1>8. HeaderTells'
  BY <1>2 DEF HeaderTells
<1> QED BY <1>4, <1>5, <1>6, <1>7, <1>8 DEF SourceInvariant

-----------------------------------------------------------------------------
(* Steps that touch files.                                                 *)

(* Opening a file for writing changes what the reference means only when   *)
(* it is the reference's own.                                              *)
LEMMA OpeningKeepsTheMeaning ==
  ASSUME CommandInvariant, UNCHANGED command,
         NEW output \in {"recording", "log"}, NEW name \in Names, Open(output, name),
         outputs[output] = Nowhere
  PROVE  /\ Meaning' = Meaning \/ OverItsSource(command.reference)'
         /\ OverItsSource(command.reference) => OverItsSource(command.reference)'
<1> DEFINE place == Canonical[name]
           source == Canonical[command.reference.name]
<1>1. FilesTyped /\ place \in Places
  BY DEF CommandInvariant, Places
<1>2. /\ at' = [at EXCEPT ![place] = IF at[place] = Nowhere THEN FreshNode ELSE at[place]]
      /\ at'[place] \in Nodes /\ at'[place] # Nowhere
      /\ data' = [data EXCEPT ![at'[place]] = Empty]
      /\ outputs' = [outputs EXCEPT ![output] = at'[place]]
  BY CommandsAssumption DEF Open
<1>3. /\ outputs'[output] = at'[place]
      /\ \A other \in {"recording", "log"} \ {output} : outputs'[other] = outputs[other]
  BY <1>1, <1>2 DEF FilesTyped
<1>4. ASSUME command.reference.form \in {"file", "bare"}, command.reference.name # ""
      PROVE  source \in Places
  <2>1. NoReference.form = "none"
    BY DEF NoReference, Reference
  <2>2. command.reference.name \in Names \cup {""}
    BY <1>4, <2>1 DEF CommandInvariant, ReferenceTyped
  <2>3. command.reference.name \in Names
    BY <1>4, <2>2
  <2> QED BY <2>3 DEF Places
<1>5. \A p \in Places : /\ p # place => at'[p] = at[p]
                        /\ at[p] # Nowhere => at'[p] = at[p]
  BY <1>1, <1>2 DEF FilesTyped
<1>6. \A node \in Nodes : node # at'[place] => data'[node] = data[node]
  BY <1>1, <1>2 DEF FilesTyped
<1>7. OverItsSource(command.reference)' =
        (/\ command.reference.form \in {"file", "bare"}
         /\ at'[source] \in {outputs'["recording"], outputs'["log"]} \ {Nowhere})
  BY DEF OverItsSource
<1>8. ASSUME command.reference.form \in {"file", "bare"}, command.reference.name # "",
             ~OverItsSource(command.reference)'
      PROVE  Content(at, data, command.reference.name)' = Content(at, data, command.reference.name)
  <2> HIDE DEF place, source
  <2>1. at'[source] # at'[place]
    BY <1>2, <1>3, <1>7, <1>8
  <2>2. source # place /\ at'[source] = at[source] /\ source \in Places
    BY <1>4, <1>5, <1>8, <2>1
  <2>3. at[source] # Nowhere => data'[at[source]] = data[at[source]]
    BY <1>1, <1>6, <2>1, <2>2 DEF FilesTyped
  <2> QED
    BY <2>2, <2>3 DEF Content, ContentAt, source
<1>9. Meaning' = Meaning \/ OverItsSource(command.reference)'
  BY <1>8, MeaningIsOfOnePlace
<1>10. ASSUME OverItsSource(command.reference) PROVE OverItsSource(command.reference)'
  <2>1. /\ command.reference.form \in {"file", "bare"} /\ at[source] # Nowhere
        /\ at[source] \in {outputs["recording"], outputs["log"]}
    BY <1>10 DEF OverItsSource
  <2>2. CASE command.reference.name = ""
    <3>1. CASE source \in Places
      BY <1>3, <1>5, <1>7, <2>1, <3>1
    <3>2. CASE source \notin Places
      BY <1>1, <1>2, <1>3, <1>7, <2>1, <3>2 DEF FilesTyped
    <3> QED BY <3>1, <3>2
  <2>3. CASE command.reference.name # ""
    BY <1>3, <1>4, <1>5, <1>7, <2>1, <2>3
  <2> QED BY <2>2, <2>3
<1> QED BY <1>9, <1>10

(* The recording or the log is opened.                                     *)
LEMMA SourceIsKeptOpening ==
  ASSUME CommandInvariant, SourceInvariant, UNCHANGED <<command, chosen, settings, settled>>,
         NEW output \in {"recording", "log"}, NEW name \in Names, Open(output, name),
         outputs[output] = Nowhere, phase' \notin {"crashed", "running"}
  PROVE  SourceInvariant'
<1>1. Family' = Family
  BY UsageIsKept
<1>2. StillMeans'
  BY OpeningKeepsTheMeaning DEF SourceInvariant, StillMeans
<1>3. ChoiceIsNamed'
  BY <1>1 DEF SourceInvariant, ChoiceIsNamed, NamedResult, ReadsFile
<1>4. CrashesAreKnown' /\ HeaderTells'
  BY DEF CrashesAreKnown, HeaderTells
<1>5. OutputsAreItsOwn'
  <2>1. /\ FilesTyped
        /\ outputs' = [outputs EXCEPT ![output] = at'[Canonical[name]]]
        /\ data' = [data EXCEPT ![at'[Canonical[name]]] = Empty]
        /\ at'[Canonical[name]] \in Nodes
    BY DEF CommandInvariant, Open
  <2>2. \A node \in Nodes : data'[node] = IF node = at'[Canonical[name]] THEN Empty ELSE data[node]
    BY <2>1 DEF FilesTyped
  <2>3. \A other \in {"recording", "log"} :
          outputs'[other] = IF other = output THEN at'[Canonical[name]] ELSE outputs[other]
    BY <2>1 DEF FilesTyped
  <2>4. \A other \in {"recording", "log"} : outputs[other] # Nowhere => outputs[other] \in Nodes
    BY <2>1 DEF FilesTyped
  <2> QED
    BY <2>1, <2>2, <2>3, <2>4 DEF SourceInvariant, OutputsAreItsOwn
<1> QED BY <1>2, <1>3, <1>4, <1>5 DEF SourceInvariant

(* The first line is written: over nothing but the log.                    *)
LEMMA SourceIsKeptWriting ==
  ASSUME CommandInvariant, SourceInvariant, WriteHeader
  PROVE  SourceInvariant'
<1>1. /\ UNCHANGED <<command, reason, chosen, settings, outputs, at, settled>>
      /\ phase' = "running"
      /\ data' = IF outputs["log"] = Nowhere THEN data
                 ELSE [data EXCEPT ![outputs["log"]] = Log(Header(Family, settings, Identity))]
  BY DEF WriteHeader, Proceed
<1>2. Family' = Family /\ FilesTyped
  BY <1>1, UsageIsKept DEF CommandInvariant
<1>3. \A node \in Nodes : data'[node] = IF node # Nowhere /\ node = outputs["log"]
                                        THEN Log(Header(Family, settings, Identity)) ELSE data[node]
  BY <1>1, <1>2, CommandsAssumption DEF FilesTyped
<1>4. Header(Family, settings, Identity)' = Header(Family, settings, Identity)
  BY <1>1, <1>2 DEF Header, Identity
<1>5. Meaning' = Meaning \/ OverItsSource(command.reference)
  <2> DEFINE source == Canonical[command.reference.name]
  <2>1. ASSUME command.reference.form \in {"file", "bare"}, command.reference.name # "",
               ~OverItsSource(command.reference)
        PROVE  Content(at, data, command.reference.name)' = Content(at, data, command.reference.name)
    <3>1. source \in Places
      <4>1. NoReference.form = "none"
        BY DEF NoReference, Reference
      <4>2. command.reference.name \in Names \cup {""}
        BY <2>1, <4>1 DEF CommandInvariant, ReferenceTyped
      <4>3. command.reference.name \in Names
        BY <2>1, <4>2
      <4> QED BY <4>3 DEF Places
    <3>2. at[source] = Nowhere \/ at[source] \in Nodes
      BY <1>2, <3>1 DEF FilesTyped
    <3>3. at[source] # Nowhere => at[source] # outputs["log"]
      BY <2>1 DEF OverItsSource
    <3>4. at[source] # Nowhere => data'[at[source]] = data[at[source]]
      BY <1>3, <3>2, <3>3
    <3> QED BY <1>1, <3>4 DEF Content, ContentAt
  <2> QED BY <1>1, <2>1, MeaningIsOfOnePlace
<1>6. StillMeans'
  BY <1>1, <1>5 DEF SourceInvariant, StillMeans, OverItsSource
<1>7. ChoiceIsNamed'
  BY <1>1, <1>2 DEF SourceInvariant, ChoiceIsNamed, NamedResult, ReadsFile
<1>8. CrashesAreKnown'
  BY <1>1 DEF CrashesAreKnown
<1>9. OutputsAreItsOwn'
  <2>1. \A output \in {"recording", "log"} : outputs[output] # Nowhere => outputs[output] \in Nodes
    BY <1>2 DEF FilesTyped
  <2>2. \A header : Log(header)[1] = "log"
    BY DEF Log
  <2> QED
    BY <1>1, <1>3, <2>1, <2>2 DEF SourceInvariant, OutputsAreItsOwn
<1>10. HeaderTells'
  <2>1. outputs["log"] # Nowhere => outputs["log"] \in Nodes
    BY <1>2 DEF FilesTyped
  <2>2. outputs["log"] # Nowhere => data'[outputs["log"]][2] = Header(Family, settings, Identity)
    BY <1>3, <2>1 DEF Log
  <2> QED
    BY <1>1, <1>4, <2>2 DEF HeaderTells
<1> QED BY <1>6, <1>7, <1>8, <1>9, <1>10 DEF SourceInvariant

(* Only the blank name of a policy file is refused when the log is opened. *)
LEMMA IdentityCrashIsKnown ==
  ASSUME CommandInvariant, ResolutionInvariant, TraceInvariant, SourceInvariant, IdentityRefused
  PROVE  IdentityCrash'
<1>1. /\ UNCHANGED <<command, chosen>> /\ phase = "log" /\ command.log # NoOutput
      /\ reason' = "identity" /\ ~HeaderAccepted(Header(Family, settings, Identity))
  BY DEF IdentityRefused, Crash
<1>2. chosen[1] = "ok" /\ chosen # Unresolved /\ UsageAccepted
      /\ command.kind \in {"listen", "link"}
  BY <1>1 DEF CommandInvariant, Stages, Configured, SettingsAreEffective, TraceInvariant, Unresolved
<1>3. \/ command.kind = "listen" /\ Family = "policy"
      \/ command.kind = "link" /\ Family = "profile"
  BY <1>2 DEF CommandInvariant, CommandTyped
<1>4. /\ ~Complete(Identity)
      /\ ~(Family = "profile" /\ Identity = NoIdentity)
  BY <1>1 DEF HeaderAccepted, Header
<1>5. NoReference.form = "none" /\ Reference("builtin", "standard").form = "builtin"
  BY DEF NoReference, Reference
<1>6. command.reference # NoReference
  <2> SUFFICES ASSUME command.reference = NoReference PROVE FALSE
    OBVIOUS
  <2>1. Family = "policy"
    BY <1>3, <1>4 DEF Identity
  <2>2. chosen = <<"ok", DefaultPolicy>>
    BY <1>2, <2>1 DEF ResolutionInvariant, Default
  <2>3. /\ Identity.name = "standard" /\ Identity.version = 1
        /\ Identity.reference = Reference("builtin", "standard")
    BY <2>1, <2>2 DEF Identity, DefaultPolicy
  <2>4. ~IsBlank(Identity.reference) /\ Identity.reference # NoReference
    BY <1>5, <2>3 DEF IsBlank
  <2>5. Identity.name # "" /\ Identity.version > 0
    BY <2>3
  <2> QED
    BY <1>4, <2>4, <2>5 DEF Complete
<1>7. /\ Identity.name = chosen[2].name /\ Identity.version = chosen[2].version
      /\ Identity.reference = command.reference
  BY <1>6 DEF Identity
<1>8. /\ command.reference.name # "" /\ chosen[2].name # "" /\ chosen[2].version > 0
  BY <1>2, <1>6 DEF SourceInvariant, ChoiceIsNamed, NamedResult
<1>9. IsBlank(command.reference)
  BY <1>4, <1>6, <1>7, <1>8 DEF Complete
<1>10. command.kind = "listen"
  BY <1>2, <1>9 DEF UsageAccepted
<1>11. command.reference.form = "bare" /\ command.reference.name \in BlankNames
  BY <1>8, <1>9 DEF IsBlank
<1> QED
  BY <1>1, <1>10, <1>11 DEF IdentityCrash

(* An exception past the resolution leaves all the rest as it was.         *)
LEMMA SourceIsKeptCrashing ==
  ASSUME CommandInvariant, SourceInvariant, NEW why, Crash(why), CrashesAreKnown'
  PROVE  SourceInvariant'
<1>1. UNCHANGED <<command, chosen, settings, outputs, at, data, settled>> /\ phase' = "crashed"
  BY DEF Crash, files, history
<1>2. Family' = Family /\ Meaning' = Meaning
  <2>1. Content(at, data, command.reference.name)' = Content(at, data, command.reference.name)
    BY <1>1
  <2> QED BY <1>1, <2>1, UsageIsKept, MeaningIsOfOnePlace
<1>3. StillMeans' /\ OutputsAreItsOwn' /\ HeaderTells'
  BY <1>1, <1>2 DEF SourceInvariant, StillMeans, OutputsAreItsOwn, HeaderTells, OverItsSource
<1>4. ChoiceIsNamed'
  BY <1>1, <1>2 DEF SourceInvariant, ChoiceIsNamed, NamedResult, ReadsFile
<1> QED BY <1>3, <1>4 DEF SourceInvariant

(* A change by the operator forgets what was settled; a log it leaves in   *)
(* place still has its header.                                             *)
LEMMA SourceIsKeptByOperator ==
  ASSUME CommandInvariant, SourceInvariant, Operator
  PROVE  SourceInvariant'
<1>1. UNCHANGED <<command, phase, reason, chosen, settings, outputs>> /\ settled' = {}
  BY DEF Operator, Remove, Write, LinkTo, Edit
<1>2. Family' = Family /\ FilesTyped
  BY <1>1, UsageIsKept DEF CommandInvariant
<1>3. StillMeans' /\ OutputsAreItsOwn'
  BY <1>1 DEF StillMeans, OutputsAreItsOwn
<1>4. ChoiceIsNamed'
  BY <1>1, <1>2 DEF SourceInvariant, ChoiceIsNamed, NamedResult, ReadsFile
<1>5. CrashesAreKnown'
  BY <1>1 DEF SourceInvariant, CrashesAreKnown, OverflowCrash, RecursionCrash,
     FingerprintCrash, HostCrash, IdentityCrash
<1>6. \A node \in Nodes : data'[node] = data[node] \/ data'[node][1] # "log"
  <2>1. CASE \E place \in EditPlaces, content \in NewContents : Write(place, content)
    <3>1. PICK content \in NewContents : \E node : data' = [data EXCEPT ![node] = content]
      BY <2>1 DEF Write
    <3>2. content[1] # "log"
      BY CommandsAssumption
    <3> QED BY <1>2, <3>1, <3>2 DEF FilesTyped
  <2>2. CASE \/ \E place \in EditPlaces : Remove(place)
             \/ \E place, other \in EditPlaces : LinkTo(place, other)
    BY <2>2 DEF Remove, LinkTo
  <2> QED BY <2>1, <2>2 DEF Operator
<1>7. HeaderTells'
  <2>1. Header(Family, settings, Identity)' = Header(Family, settings, Identity)
    BY <1>1, <1>2 DEF Header, Identity
  <2>2. outputs["log"] # Nowhere => outputs["log"] \in Nodes
    BY <1>2 DEF FilesTyped
  <2> QED
    BY <1>1, <1>6, <2>1, <2>2 DEF SourceInvariant, HeaderTells
<1> QED BY <1>3, <1>4, <1>5, <1>7 DEF SourceInvariant

(* Every step of a command, and every change of the operator, keeps it.    *)
LEMMA SourceInvariantKept ==
  /\ CommandInvariant /\ ResolutionInvariant /\ TraceInvariant /\ ApartInvariant
  /\ SourceInvariant /\ [Next]_vars
  => SourceInvariant'
<1> SUFFICES ASSUME CommandInvariant, ResolutionInvariant, TraceInvariant, ApartInvariant,
                    SourceInvariant, [Next]_vars
             PROVE  SourceInvariant'
  OBVIOUS
<1>1. CASE RefuseUsage \/ AccessFails \/ Kill
  BY <1>1, SourceIsKept DEF RefuseUsage, AccessFails, Kill, Refuse, files, history
<1>2. CASE Resolution /\ ~AccessFails
  <2>1. CASE ChoosesMeaning
    BY <2>1, SourceIsChosen
  <2>2. CASE LooksAgain
    BY <2>2, SourceIsKept DEF LooksAgain, files, history
  <2> QED BY <1>2, <2>1, <2>2, ResolutionChoosesMeaning
<1>3. CASE Answer \/ Override \/ OverrideFails \/ Compare
  BY <1>3, SourceIsKept DEF Answer, Override, OverrideFails, Compare, Proceed, Refuse, files, history
<1>4. CASE AnswerFails
  <2>1. CrashesAreKnown'
    BY <1>4 DEF AnswerFails, Crash, CrashesAreKnown, FingerprintCrash, CommandInvariant, Stages
  <2> QED BY <1>4, <2>1, SourceIsKeptCrashing DEF AnswerFails
<1>5. CASE Opening
  <2>1. CASE Bind \/ BindFails
    BY <2>1, SourceIsKept DEF Bind, BindFails, Proceed, Refuse, files, history
  <2>2. CASE Record
    <3>1. command.recording \in Names /\ outputs["recording"] = Nowhere
      BY <2>2 DEF Record, CommandInvariant, CommandTyped, TraceInvariant, Silent
    <3> QED
      BY <2>2, <3>1, SourceIsKeptOpening DEF Record, Proceed
  <2>3. CASE OpenLog
    <3>1. command.log \in Names /\ outputs["log"] = Nowhere
      BY <2>3 DEF OpenLog, CommandInvariant, CommandTyped, ApartInvariant
    <3> QED
      BY <2>3, <3>1, SourceIsKeptOpening DEF OpenLog, AfterLog, Proceed
  <2>4. CASE NoRecording \/ NoLog \/ OutputFails
    BY <2>4, SourceIsKept DEF NoRecording, NoLog, OutputFails, AfterLog, Proceed, Refuse, files,
       history
  <2>5. CASE IdentityRefused
    <3>1. CrashesAreKnown'
      BY <2>5, IdentityCrashIsKnown DEF CrashesAreKnown
    <3> QED BY <2>5, <3>1, SourceIsKeptCrashing DEF IdentityRefused
  <2>6. CASE HostFails
    <3>1. CrashesAreKnown'
      BY <2>6 DEF HostFails, Crash, CrashesAreKnown, HostCrash
    <3> QED BY <2>6, <3>1, SourceIsKeptCrashing DEF HostFails
  <2>7. CASE WriteHeader
    BY <2>7, SourceIsKeptWriting
  <2> QED
    BY <1>5, <2>1, <2>2, <2>3, <2>4, <2>5, <2>6, <2>7 DEF Opening
<1>6. CASE Operator
  BY <1>6, SourceIsKeptByOperator
<1>7. CASE UNCHANGED vars
  BY <1>7, SourceIsKept DEF vars, files, history
<1> QED
  BY <1>1, <1>2, <1>3, <1>4, <1>5, <1>6, <1>7 DEF Next, Command, Resolution

AllInvariants ==
  CommandInvariant /\ ResolutionInvariant /\ TraceInvariant /\ ApartInvariant /\ SourceInvariant

(* All that is known of a command holds from its start.                    *)
LEMMA AllInvariantsHold == Spec => []AllInvariants
<1>1. Init => AllInvariants
  <2> SUFFICES ASSUME Init PROVE AllInvariants
    OBVIOUS
  <2>1. CommandInvariant
    BY CommandInvariantStarts
  <2>2. ResolutionInvariant
    BY DEF Init, ResolutionInvariant, Resolving, Family
  <2>3. TraceInvariant
    BY DEF Init, TraceInvariant, Resolving, RefusalsLeaveNoTrace, Silent
  <2>4. ApartInvariant
    BY DEF Init, ApartInvariant, RecordingsStayApart
  <2>5. SourceInvariant
    BY DEF Init, SourceInvariant, StillMeans, ChoiceIsNamed, CrashesAreKnown, OutputsAreItsOwn,
       HeaderTells
  <2> QED BY <2>1, <2>2, <2>3, <2>4, <2>5 DEF AllInvariants
<1>2. AllInvariants /\ [Next]_vars => AllInvariants'
  BY CommandInvariantKept, ResolutionInvariantKept, TraceInvariantKept, ApartInvariantKept,
     SourceInvariantKept DEF AllInvariants
<1> QED BY <1>1, <1>2, PTL DEF Spec

(* A profile that was accepted and cannot be written has a latency or a    *)
(* jitter that is too long: the other counts are bounded by less.          *)
LEMMA OnlyDelaysAreTooLong ==
  ASSUME NEW family \in Families, NEW s, Accepted(family, s), ~Printable(s)
  PROVE  \E key \in {"latency_ms", "jitter_ms"} \cap DOMAIN s : s[key][2] > MaxPrintable
<1>1. PICK key \in DOMAIN s \cap Counts : ~(s[key][2] <= MaxPrintable)
  BY DEF Printable
<1>2. AcceptedLink(s)
  <2>1. AcceptedPolicy(s) => DOMAIN s \cap Counts = {}
    BY DEF AcceptedPolicy, PolicyKeys, Thresholds, Counts
  <2> QED BY <1>1, <2>1 DEF Accepted
<1>3. CountInRange(key, s[key][2])
  BY <1>1, <1>2 DEF AcceptedLink
<1>4. s[key][2] \in Nat /\ MaxPrintable \in Nat
  BY <1>3, LimitsAssumption DEF CountInRange
<1>5. key \notin {"seed", "reorder_window"}
  BY <1>1, <1>3, <1>4, LimitsAssumption DEF CountInRange
<1>6. key \in {"latency_ms", "jitter_ms"}
  BY <1>1, <1>5 DEF Counts
<1> QED BY <1>1, <1>4, <1>6

(* A command that resolves its reference, checks its settings and opens    *)
(* its files ends with an exception only for an integer too large for a    *)
(* float or a nesting too deep in the file it read (OverflowError,         *)
(* RecursionError), a latency or a jitter too long for the fingerprint of  *)
(* a validation, a listener's host that cannot be encoded, or the blank    *)
(* name of a policy file in the header of an alarm log.                    *)
THEOREM EveryCrashIsExplained == Spec => []CrashesAreExplained
<1>1. AllInvariants => CrashesAreExplained
  <2> DEFINE content == Content(at, data, command.reference.name)
  <2>1. ASSUME AllInvariants, phase = "crashed",
               chosen[1] \in {"crashed", "recursion"}, outputs = Silent
        PROVE  /\ ReadsFile(command.reference)
               /\ "resolved" \in settled => Parse(Family, content)[1] = chosen[1]
    <3>1. chosen # Unresolved /\ chosen # Refused
      BY <2>1 DEF Unresolved, Refused
    <3>2. command.reference # NoReference
      <4>1. Default(Family)[1] = "ok"
        BY DEF Default
      <4> QED BY <2>1, <3>1, <4>1 DEF AllInvariants, ResolutionInvariant
    <3>3. LoadBuiltin(Family, command.reference.name)[1] \notin {"crashed", "recursion"}
      <4>1. Family \in Families
        BY <2>1 DEF AllInvariants, CommandInvariant, CommandTyped
      <4> QED BY <4>1, PackagedAssumption DEF LoadBuiltin, Refused
    <3>4. ReadsFile(command.reference)
      BY <2>1, <3>1, <3>2, <3>3 DEF AllInvariants, SourceInvariant, ChoiceIsNamed, NamedResult
    <3>5. ASSUME "resolved" \in settled PROVE Parse(Family, content)[1] = chosen[1]
      <4>1. ~OverItsSource(command.reference)
        BY <2>1 DEF OverItsSource, Silent
      <4>2. Meaning = chosen
        BY <2>1, <3>1, <3>5, <4>1 DEF AllInvariants, SourceInvariant, StillMeans
      <4> QED BY <2>1, <4>2, OnlyFilesCrash DEF AllInvariants, LoadFile
    <3> QED BY <3>4, <3>5
  <2> SUFFICES ASSUME AllInvariants, phase = "crashed" PROVE CrashesAreExplained
    BY DEF CrashesAreExplained
  <2>2. CASE OverflowCrash
    <3>1. reason = "overflow" /\ chosen[1] = "crashed" /\ outputs = Silent
      BY <2>2 DEF OverflowCrash
    <3>2. "resolved" \in settled => content[1] = "toml" /\ Overflowing(content)
      BY <2>1, <3>1, CrashedParseOverflows DEF Overflowing, OverflowIn
    <3> HIDE DEF content
    <3>3. ReadsFile(command.reference)
      BY <2>1, <3>1
    <3> QED BY <3>1, <3>2, <3>3 DEF CrashesAreExplained, content
  <2>3. CASE RecursionCrash
    <3>1. /\ reason = "recursion" /\ chosen[1] = "recursion" /\ outputs = Silent
          /\ command.kind # "link"
      BY <2>3 DEF RecursionCrash
    <3>2. "resolved" \in settled => content = Deep
      BY <2>1, <3>1, OnlyDeepFilesRecurse
    <3> HIDE DEF content
    <3>3. ReadsFile(command.reference)
      BY <2>1, <3>1
    <3> QED BY <3>1, <3>2, <3>3 DEF CrashesAreExplained, content
  <2>4. CASE FingerprintCrash
    <3>1. Family \in Families /\ Accepted(Family, chosen[2].settings)
      BY <2>4 DEF FingerprintCrash, AllInvariants, CommandInvariant, CommandTyped, Stages
    <3>2. \E key \in {"latency_ms", "jitter_ms"} \cap DOMAIN chosen[2].settings :
            chosen[2].settings[key][2] > MaxPrintable
      BY <2>4, <3>1, OnlyDelaysAreTooLong DEF FingerprintCrash
    <3> QED BY <2>4, <3>2 DEF FingerprintCrash, CrashesAreExplained
  <2>5. CASE HostCrash
    BY <2>5 DEF HostCrash, CrashesAreExplained
  <2>6. CASE IdentityCrash
    BY <2>6 DEF IdentityCrash, CrashesAreExplained
  <2> QED
    BY <2>2, <2>3, <2>4, <2>5, <2>6 DEF AllInvariants, SourceInvariant, CrashesAreKnown
<1> QED BY <1>1, AllInvariantsHold, PTL

-----------------------------------------------------------------------------
(* A log can be reproduced.                                                *)

(* The packaged policy `standard` parses, and is the one written out in    *)
(* Python.                                                                 *)
StandardIsPackaged ==
  /\ LoadBuiltin("policy", "standard")[1] = "ok"
  /\ LoadBuiltin("policy", "standard")[2].settings = DefaultPolicy.settings

(* The settings of a run are those of its source under its options.        *)
LEMMA EffectiveAgain ==
  ASSUME CommandInvariant, SettingsAreEffective
  PROVE  WithOptions(chosen[2].settings, command.options) = settings
<1>1. settings = InForce /\ Accepted(Family, chosen[2].settings)
  BY DEF SettingsAreEffective, CommandInvariant, Stages
<1>2. CASE command.kind = "link"
  BY <1>1, <1>2 DEF InForce, Effective
<1>3. CASE command.kind # "link"
  <2> DEFINE s == chosen[2].settings
  <2>1. DOMAIN command.options = {} /\ settings = s
    BY <1>1, <1>3 DEF CommandInvariant, CommandTyped, InForce, Effective
  <2>2. s = [key \in DOMAIN s |-> s[key]]
    <3>1. AcceptedPolicy(s) \/ AcceptedLink(s)
      BY <1>1 DEF Accepted
    <3> HIDE DEF s
    <3> QED BY <3>1 DEF AcceptedPolicy, AcceptedLink
  <2>3. WithOptions(s, command.options) = [key \in DOMAIN s |-> s[key]]
    BY <2>1 DEF WithOptions
  <2> QED BY <2>1, <2>2, <2>3
<1> QED BY <1>2, <1>3

(* A command that wrote over the file it had read would not read it again. *)
LEMMA OwnSourceIsRefused ==
  ASSUME AllInvariants, "resolved" \in settled, OverItsSource(command.reference),
         ReadsFile(command.reference)
  PROVE  Meaning = Refused
<1> DEFINE place == Canonical[command.reference.name]
<1>1. data[at[place]] = Empty \/ data[at[place]][1] = "log"
  BY DEF OverItsSource, AllInvariants, SourceInvariant, OutputsAreItsOwn
<1>2. Content(at, data, command.reference.name) = data[at[place]]
  BY DEF OverItsSource, Content, ContentAt
<1>3. LoadFile(Family, at, data, command.reference.name) = Refused
  <2>1. CASE data[at[place]] = Empty
    BY <1>2, <2>1, EmptyIsRefused DEF LoadFile
  <2>2. CASE data[at[place]][1] = "log"
    BY <1>2, <2>2 DEF LoadFile, Parse, Deep
  <2> QED BY <1>1, <2>1, <2>2
<1>4. command.reference # NoReference
  <2>1. NoReference.form = "none"
    BY DEF NoReference, Reference
  <2> QED BY <2>1 DEF ReadsFile
<1> QED
  BY <1>3, <1>4 DEF Meaning, Resolve, ReadsFile

(* The reference in a log's header, resolved once more and with the same   *)
(* options, gives the configuration that ran, unless the operator or the   *)
(* command changed the file it names; a built-in is always itself.  For    *)
(* the listener that names no policy this rests on the packaged standard   *)
(* policy being the one in alarms.py.                                      *)
THEOREM LogsAreReproducible ==
  ASSUME StandardIsPackaged
  PROVE  Spec => []ReferenceReproduces
<1>1. AllInvariants => ReferenceReproduces
  <2> DEFINE again == Resolve(Family, Identity.reference, at, data)
             same == again[1] = "ok" /\
                       Fingerprint(WithOptions(again[2].settings, command.options)) = settings
  <2> SUFFICES ASSUME AllInvariants, phase = "running", outputs["log"] # Nowhere,
                      data[outputs["log"]][1] = "log"
               PROVE  \/ same
                      \/ /\ again = Refused
                         /\ "resolved" \notin settled \/ OverItsSource(Identity.reference)
                      \/ ReadsFile(Identity.reference) /\ "resolved" \notin settled
    <3>1. AllInvariants /\ phase = "running" /\ outputs["log"] # Nowhere
            /\ data[outputs["log"]][1] = "log" =>
            /\ data[outputs["log"]][2].identity = Identity
            /\ data[outputs["log"]][2].fingerprint = settings
      BY DEF AllInvariants, SourceInvariant, HeaderTells, Header, Fingerprint
    <3> QED BY <3>1 DEF ReferenceReproduces
  <2>1. CommandInvariant /\ SettingsAreEffective /\ chosen[1] = "ok" /\ chosen # Unresolved
        /\ chosen # Refused
    BY DEF AllInvariants, CommandInvariant, Stages, Configured, SettingsAreEffective, Unresolved,
       Refused
  <2>2. ASSUME again[1] = "ok", again[2].settings = chosen[2].settings PROVE same
    BY <2>1, <2>2, EffectiveAgain DEF Fingerprint
  <2> HIDE DEF same
  <2>3. CASE command.reference = NoReference
    <3>1. chosen = Default(Family)
      BY <2>1, <2>3 DEF AllInvariants, ResolutionInvariant
    <3>2. CASE Family = "profile"
      <4>1. Identity.reference = NoReference
        BY <2>3, <3>2 DEF Identity, NoIdentity
      <4>2. again = chosen
        BY <3>1, <4>1 DEF Resolve
      <4> QED BY <2>1, <2>2, <4>2
    <3>3. CASE Family = "policy"
      <4>1. Identity.reference = Reference("builtin", "standard")
        BY <2>3, <3>3 DEF Identity
      <4>2. again = LoadBuiltin("policy", "standard")
        <5> DEFINE standard == Reference("builtin", "standard")
        <5>1. /\ standard.form = "builtin" /\ standard.name = "standard"
              /\ NoReference.form = "none"
          BY DEF NoReference, Reference
        <5> HIDE DEF standard
        <5>2. again = Resolve("policy", standard, at, data)
          BY <3>3, <4>1 DEF standard
        <5>3. standard # NoReference /\ standard.name # ""
          BY <5>1
        <5> HIDE DEF again
        <5> QED BY <5>1, <5>2, <5>3 DEF Resolve
      <4>3. chosen[2].settings = DefaultPolicy.settings
        BY <3>1, <3>3 DEF Default
      <4> QED BY <2>2, <4>2, <4>3 DEF StandardIsPackaged
    <3> QED BY <2>1, <3>2, <3>3 DEF CommandInvariant, CommandTyped, Families
  <2>4. CASE command.reference # NoReference
    <3> DEFINE reference == command.reference
    <3>1. Identity.reference = reference /\ again = Meaning
      BY <2>4 DEF Identity, Meaning
    <3>2. again = chosen => same
      BY <2>1, <2>2
    <3>3. "resolved" \in settled => again = chosen \/ OverItsSource(reference)
      BY <2>1, <3>1 DEF AllInvariants, SourceInvariant, StillMeans
    <3>4. /\ reference.name # ""
          /\ ReadsFile(reference) \/ chosen = LoadBuiltin(Family, reference.name)
      BY <2>1, <2>4 DEF AllInvariants, SourceInvariant, ChoiceIsNamed, NamedResult
    <3>5. CASE ReadsFile(reference)
      <4>1. ASSUME "resolved" \in settled, OverItsSource(reference) PROVE again = Refused
        BY <3>1, <3>5, <4>1, OwnSourceIsRefused
      <4> QED BY <3>1, <3>2, <3>3, <3>5, <4>1
    <3>6. CASE ~ReadsFile(reference)
      <4>1. reference.form = "builtin" \/ (reference.form = "bare" /\ reference.name \in Builtins(Family))
        BY <2>1, <2>4, <3>6 DEF CommandInvariant, ReferenceTyped, ReadsFile
      <4>2. again = LoadBuiltin(Family, reference.name) \/ again = Refused
        BY <2>4, <3>1, <4>1 DEF Meaning, Resolve
      <4> QED BY <3>1, <3>2, <3>3, <3>4, <3>6, <4>2
    <3> QED BY <3>5, <3>6
  <2> QED BY <2>3, <2>4
<1> QED BY <1>1, AllInvariantsHold, PTL
=============================================================================
