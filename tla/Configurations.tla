--------------------------- MODULE Configurations ---------------------------
(***************************************************************************)
(* Alarm policies and mission profiles: how their documents are parsed and *)
(* validated, what a run makes of them, the fingerprint that identifies it *)
(* and the header that records it.                                         *)
(*                                                                         *)
(* A source is what a policy or a profile is: its name, its schema version *)
(* and its settings, a function of their keys.  A fingerprint is the       *)
(* settings themselves, in exact form: a hash without collisions.          *)
(***************************************************************************)
EXTENDS Documents

CONSTANTS
  Slugs,          (* the names that are lowercase slugs                    *)
  Descriptions,   (* the descriptions of an acceptable length              *)
  BlankNames,     (* the file names made of white space                    *)
  MaxSeed,        (* 2^64 - 1                                              *)
  MaxReorderWindow,  (* 65535                                              *)
  MaxPrintable,   (* the largest integer Python turns into decimal digits  *)
  Bundle          (* family -> built-in name -> the packaged file          *)

Families == {"policy", "profile"}

ASSUME LimitsAssumption ==
  /\ MaxSeed \in Nat /\ MaxReorderWindow \in Nat /\ MaxPrintable \in Nat
  /\ MaxSeed <= MaxPrintable /\ MaxReorderWindow <= MaxPrintable

(* A slug has at least one letter or digit.                                *)
ASSUME SlugsAssumption == "" \notin Slugs

ASSUME BundleAssumption ==
  DOMAIN Bundle = Families /\ \A family \in Families : "" \notin DOMAIN Bundle[family]

Builtins(family) == DOMAIN Bundle[family]

-----------------------------------------------------------------------------
(* What both kinds of document say of themselves.                          *)

IdentityTypes(document) ==
  <<Check(Kind(document["schema_version"]) = "int"),
    Check(Kind(document["name"]) = "string"),
    Check(Kind(Field(document, "description", String(""))) = "string")>>

IdentityCheck(document) ==
  Check(/\ document["schema_version"] = IntValue(1)
        /\ document["name"] \in {String(s) : s \in Slugs}
        /\ "description" \in DOMAIN document =>
             document["description"] \in {String(d) : d \in Descriptions})

(* A document that parses is a source, one that does not is refused, or    *)
(* ends the command with an exception no handler expects.                  *)
Outcome(verdict, source) == IF verdict = "ok" THEN <<"ok", source>> ELSE <<verdict, "none">>
Refused == <<"refused", "none">>

-----------------------------------------------------------------------------
(* Alarm policies.                                                         *)

PolicySections ==
  [temperature |-> {"warning_c", "critical_c", "hysteresis_c"},
   battery     |-> {"critical_v", "hysteresis_v"},
   mode        |-> {"alarm_on_safe"},
   sequence    |-> {"detect_gaps"}]

PolicyShape(document) ==
  /\ HasKeys(document, {"schema_version", "name"} \cup DOMAIN PolicySections,
             {"schema_version", "name", "description"} \cup DOMAIN PolicySections)
  /\ \A s \in DOMAIN PolicySections :
       /\ Kind(document[s]) = "table"
       /\ HasKeys(document[s][2], PolicySections[s], PolicySections[s])

(* Mutant: the clear boundary of the critical alarm may be anywhere.       *)
TemperatureCheckOfThresholds(t) ==
  Check(/\ \A key \in DOMAIN t : IsFinite(t[key])
        /\ Number(t["warning_c"]) < Number(t["critical_c"])
        /\ Number(t["hysteresis_c"]) >= 0
        /\ \A key \in {"warning_c", "critical_c"} :
             IsFinite(Float(Number(t[key]) - Number(t["hysteresis_c"]))))

TemperatureCheck(t) ==
  Check(/\ \A key \in DOMAIN t : IsFinite(t[key])
        /\ Number(t["warning_c"]) < Number(t["critical_c"])
        /\ Number(t["hysteresis_c"]) >= 0
        /\ \A key \in {"warning_c", "critical_c"} :
             IsFinite(Float(Number(t[key]) - Number(t["hysteresis_c"])))
        /\ Number(t["critical_c"]) - Number(t["hysteresis_c"]) >= Number(t["warning_c"]))

BatteryCheck(b) ==
  Check(/\ \A key \in DOMAIN b : IsFinite(b[key])
        /\ Number(b["critical_v"]) > 0
        /\ Number(b["hysteresis_v"]) >= 0
        /\ IsFinite(Float(Number(b["critical_v"]) + Number(b["hysteresis_v"]))))

PolicyVerdict(document) ==
  LET t == document["temperature"][2]
      b == document["battery"][2]
  IN  Verdict(IdentityTypes(document)
        \o <<RealCheck(t["warning_c"]), RealCheck(t["critical_c"]),
             RealCheck(t["hysteresis_c"]), TemperatureCheck(t),
             RealCheck(b["critical_v"]), RealCheck(b["hysteresis_v"]), BatteryCheck(b),
             BoolCheck(document["mode"][2]["alarm_on_safe"]),
             BoolCheck(document["sequence"][2]["detect_gaps"]),
             IdentityCheck(document)>>)

Policy(document) ==
  [name |-> document["name"][2], version |-> document["schema_version"][2],
   settings |-> [warning_c     |-> ToFloat(document["temperature"][2]["warning_c"]),
                 critical_c    |-> ToFloat(document["temperature"][2]["critical_c"]),
                 hysteresis_c  |-> ToFloat(document["temperature"][2]["hysteresis_c"]),
                 critical_v    |-> ToFloat(document["battery"][2]["critical_v"]),
                 hysteresis_v  |-> ToFloat(document["battery"][2]["hysteresis_v"]),
                 alarm_on_safe |-> document["mode"][2]["alarm_on_safe"],
                 detect_gaps   |-> document["sequence"][2]["detect_gaps"]]]

ParsePolicy(document) ==
  IF PolicyShape(document) THEN Outcome(PolicyVerdict(document), Policy(document))
  ELSE Refused

(* Mutant: the default policy has a hysteresis the bundled one has not.    *)
DefaultPolicyWithHysteresis ==
  [name |-> "standard", version |-> 1,
   settings |-> [warning_c |-> Float(5000), critical_c |-> Float(6000),
                 hysteresis_c |-> Float(200), critical_v |-> Float(700),
                 hysteresis_v |-> Float(0), alarm_on_safe |-> Bool(TRUE),
                 detect_gaps |-> Bool(TRUE)]]

(* The policy of a listener that names none.                               *)
DefaultPolicy ==
  [name |-> "standard", version |-> 1,
   settings |-> [warning_c |-> Float(5000), critical_c |-> Float(6000),
                 hysteresis_c |-> Float(0), critical_v |-> Float(700),
                 hysteresis_v |-> Float(0), alarm_on_safe |-> Bool(TRUE),
                 detect_gaps |-> Bool(TRUE)]]

-----------------------------------------------------------------------------
(* Mission profiles and the link configuration.                            *)

Rates    == {"loss_rate", "duplicate_rate", "corrupt_rate"}
Counts   == {"seed", "latency_ms", "jitter_ms", "reorder_window"}
LinkKeys == Rates \cup Counts

DefaultLink == [key \in LinkKeys |-> IF key \in Rates THEN Float(0) ELSE IntValue(0)]

CountInRange(key, n) ==
  /\ n \in Nat
  /\ key = "seed" => n <= MaxSeed
  /\ key = "reorder_window" => n <= MaxReorderWindow

RateInRange(value) == IsFinite(value) /\ Number(value) \in 0 .. Hundred

(* What LinkConfig accepts.                                                *)
LinkCheck(link) ==
  Check(/\ \A key \in Counts : CountInRange(key, link[key][2])
        /\ \A key \in Rates : RateInRange(link[key]))

ProfileShape(document) ==
  /\ HasKeys(document, {"schema_version", "name", "link"},
             {"schema_version", "name", "description", "link"})
  /\ Kind(document["link"]) = "table"
  /\ HasKeys(document["link"][2], {}, LinkKeys)

LinkTable(document) == [key \in LinkKeys |-> Field(document["link"][2], key, DefaultLink[key])]

IntCheck(value) == Check(Kind(value) = "int")

ProfileVerdict(document) ==
  LET link == LinkTable(document)
  IN  Verdict(IdentityTypes(document)
        \o <<IntCheck(link["seed"]), RealCheck(link["loss_rate"]),
             RealCheck(link["duplicate_rate"]), RealCheck(link["corrupt_rate"]),
             IntCheck(link["latency_ms"]), IntCheck(link["jitter_ms"]),
             IntCheck(link["reorder_window"])>>)

Profile(document) ==
  [name |-> document["name"][2], version |-> document["schema_version"][2],
   settings |-> [key \in LinkKeys |->
                   IF key \in Rates THEN ToFloat(LinkTable(document)[key])
                   ELSE LinkTable(document)[key]]]

(* Types come first, then the ranges of the link, then the identity.       *)
ParseProfile(document) ==
  IF ~ProfileShape(document) THEN Refused
  ELSE LET types == ProfileVerdict(document)
       IN  Outcome(IF types # "ok" THEN types
                   ELSE Verdict(<<LinkCheck(LinkTable(document)), IdentityCheck(document)>>),
                   Profile(document))

(* An option is text: a count must be an integer of no more digits than    *)
(* int() reads, a rate a number.                                           *)
OptionAccepted(key, value) ==
  IF key \in Rates THEN RateInRange(value)
  ELSE /\ Kind(value) = "int" /\ CountInRange(key, value[2])
       /\ value[2] <= MaxPrintable

(* Defaults, then the profile, then the options that were given.           *)
WithOptions(settings, options) ==
  [key \in DOMAIN settings |->
     IF key \in DOMAIN options
     THEN IF key \in Rates THEN ToFloat(options[key]) ELSE options[key]
     ELSE settings[key]]

-----------------------------------------------------------------------------
(* References, fingerprints and headers.                                   *)

(* A reference is written builtin:<name>, file:<path> or bare; a command   *)
(* without one uses the defaults.                                          *)
Reference(form, name) == [form |-> form, name |-> name]
NoReference == Reference("none", "")

(* Mutant: the path of a reference is looked at, not the reference.        *)
IsBlankPath(reference) == reference.name \in BlankNames

IsBlank(reference) == reference.form = "bare" /\ reference.name \in BlankNames \cup {""}

Fingerprint(settings) == settings

(* The fingerprint of a link writes its counts in decimal: json.dumps      *)
(* raises ValueError for one that TOML may have given in hexadecimal.      *)
Printable(settings) ==
  \A key \in DOMAIN settings \cap Counts : settings[key][2] <= MaxPrintable

NoIdentity == [name |-> "", reference |-> NoReference, version |-> 0]

(* The first line of an alarm log or of a link log.                        *)
Header(family, settings, identity) ==
  [family |-> family, fingerprint |-> Fingerprint(settings), identity |-> identity]

Complete(identity) ==
  /\ identity.name # "" /\ ~IsBlank(identity.reference)
  /\ identity.reference # NoReference /\ identity.version > 0

(* What the readers of the two logs accept as their header.                *)
HeaderAccepted(header) ==
  \/ Complete(header.identity)
  \/ header.family = "profile" /\ header.identity = NoIdentity
=============================================================================
