----------------------------- MODULE MCCommands -----------------------------
(* The documents, references, files and operators the commands meet.        *)
EXTENDS Commands, TLC

MCSlugs == {"standard", "thermal-demo", "power-demo", "nominal", "degraded-link", "lab"}
MCDescriptions == {"text"}

PolicyDocument(name, warning, critical, hysteresis, low, recovery) ==
  [schema_version |-> IntValue(1), name |-> String(name), description |-> String("text"),
   temperature |-> Table([warning_c |-> Float(warning), critical_c |-> Float(critical),
                          hysteresis_c |-> Float(hysteresis)]),
   battery |-> Table([critical_v |-> Float(low), hysteresis_v |-> Float(recovery)]),
   mode |-> Table([alarm_on_safe |-> Bool(TRUE)]),
   sequence |-> Table([detect_gaps |-> Bool(TRUE)])]

ProfileDocument(name, link) ==
  [schema_version |-> IntValue(1), name |-> String(name), description |-> String("text"),
   link |-> Table(link)]

(* Packaged files, as they are released; one policy was not installed and   *)
(* one profile was packed under the name of another.                        *)
Nominal == ProfileDocument("nominal", [key \in {} |-> 0])
Degraded ==
  ProfileDocument("degraded-link",
    [seed |-> IntValue(42), loss_rate |-> Float(5), duplicate_rate |-> Float(2),
     corrupt_rate |-> Float(1), latency_ms |-> IntValue(120), jitter_ms |-> IntValue(30),
     reorder_window |-> IntValue(3)])

MCBundle ==
  [policy  |-> ("standard"     :> Toml(PolicyDocument("standard", 5000, 6000, 0, 700, 0)) @@
                "thermal-demo" :> Toml(PolicyDocument("thermal-demo", 3000, 3800, 200, 700, 10)) @@
                "power-demo"   :> Missing),
   profile |-> ("nominal"       :> Toml(Nominal) @@
                "degraded-link" :> Toml(Degraded) @@
                "high-latency"  :> Toml(Nominal))]

(* "other" is a second spelling of "p".                                     *)
MCNames == {"p", "other", "standard", "nominal", " ", "rec", "log"}
MCCanonical == [name \in MCNames |-> IF name = "other" THEN "p" ELSE name]
MCNodes == 1..4

Without(table, key) == [k \in DOMAIN table \ {key} |-> table[k]]
With(table, key, value) == (key :> value) @@ table

OddReals == {IntValue(46), IntValue(-1), IntValue(200000), Float(0), Float(-1), Float(4600),
             Float(5600), Float(10000000), Float(-10000000), NaN, Infinity, NegativeZero,
             Bool(TRUE), String("46")}
OddInts == {IntValue(-1), IntValue(7), IntValue(65536), IntValue(200000), Float(0), Bool(TRUE),
            String("7")}

Lab == PolicyDocument("lab", 4500, 5500, 200, 740, 20)
LabLink == ProfileDocument("lab", [loss_rate |-> IntValue(1), reorder_window |-> IntValue(2)])

(* A table with one key of one of its sections changed or taken away.       *)
Changed(document, section, values) ==
  LET table == document[section][2]
  IN  {With(document, section, Table(With(table, key, value))) :
         key \in DOMAIN table, value \in values} \cup
      {With(document, section, Table(Without(table, key))) : key \in DOMAIN table}

Misnamed(document) ==
  {Without(document, key) : key \in DOMAIN document} \cup
  {With(document, "name", String("Lab")), With(document, "name", IntValue(1)),
   With(document, "schema_version", IntValue(2)), With(document, "schema_version", Bool(TRUE)),
   With(document, "description", String("")), With(document, "description", IntValue(1)),
   With(document, "extra", IntValue(1))}

PolicyDocuments ==
  Changed(Lab, "temperature", OddReals) \cup Changed(Lab, "battery", OddReals) \cup
  Changed(Lab, "mode", {Bool(FALSE), IntValue(0)}) \cup
  Changed(Lab, "sequence", {Bool(FALSE), IntValue(0)}) \cup
  Misnamed(Lab) \cup
  {Lab, With(Lab, "battery", IntValue(7)),
   With(Lab, "battery", Table([critical_v |-> Float(10000000), hysteresis_v |-> Float(1)])),
   With(Lab, "temperature",
        Table([warning_c |-> Float(0), critical_c |-> Float(1), hysteresis_c |-> Float(2)]))}

FullLink == With(LabLink, "link", Degraded["link"])

ProfileDocuments ==
  {With(FullLink, "link", Table(With(FullLink["link"][2], key, value))) :
     key \in Rates, value \in OddReals} \cup
  {With(FullLink, "link", Table(With(FullLink["link"][2], key, value))) :
     key \in Counts, value \in OddInts} \cup
  Misnamed(LabLink) \cup
  {LabLink, With(LabLink, "link", IntValue(7)),
   With(LabLink, "link", Table([loss |-> Float(1)]))}

NoOptions == [key \in {} |-> 0]

Typed(kind, family, reference, options, port, recording, log) ==
  [kind |-> kind, family |-> family, reference |-> reference, options |-> options,
   port |-> port, encodable |-> TRUE, recording |-> recording, log |-> log]

BadHost(typed) == [typed EXCEPT !.encodable = FALSE]

(* A set of places and their contents becomes places, nodes and contents.   *)
Scene(typed, contents, changes) ==
  LET present == DOMAIN contents
      node    == CHOOSE f \in [present -> MCNodes] :
                   \A a, b \in present : a # b => f[a] # f[b]
  IN  [command |-> typed,
       at    |-> [p \in Places |-> IF p \in present THEN node[p] ELSE Nowhere],
       data  |-> [n \in MCNodes |->
                    IF \E p \in present : node[p] = n
                    THEN contents[CHOOSE p \in present : node[p] = n] ELSE Empty],
       edits |-> changes]

P == Reference("file", "p")

(* Every document, with a command that checks it and one that runs it.      *)
DocumentScenes ==
  {Scene(Typed(kind, "policy", P, NoOptions, 9000, NoOutput, "log"), "p" :> Toml(d), 0) :
     kind \in {"validate", "listen"}, d \in PolicyDocuments} \cup
  {Scene(Typed(kind, "profile", P, NoOptions, 9000, NoOutput, "log"), "p" :> Toml(d), 0) :
     kind \in {"validate", "link"}, d \in ProfileDocuments}

(* A file nested too deeply, a latency too long to be written, with an     *)
(* option instead of it or without, and a host that cannot be encoded.     *)
LongLatency == With(LabLink, "link", Table([latency_ms |-> IntValue(200000)]))

ExceptionScenes ==
  {Scene(Typed(use[1], use[2], Reference("bare", "p"), NoOptions, 9000, NoOutput, "log"),
         "p" :> Deep @@ "log" :> Unreadable, 1) :
     use \in ({"validate"} \X Families) \cup {<<"listen", "policy">>, <<"link", "profile">>}}
  \cup
  {Scene(Typed(kind, "profile", P, NoOptions, 9000, NoOutput, "log"),
         "p" :> Toml(LongLatency) @@ "log" :> Unreadable, 0) : kind \in {"validate", "link"}}
  \cup
  {Scene(Typed("link", "profile", P, options, 9000, NoOutput, "log"),
         "p" :> Toml(LongLatency) @@ "log" :> Unreadable, 0) :
     options \in {[latency_ms |-> IntValue(7)], [jitter_ms |-> IntValue(7)]}}
  \cup
  {Scene(BadHost(typed), "rec" :> Unreadable @@ "log" :> Unreadable, 0) :
     typed \in {Typed("listen", "policy", NoReference, NoOptions, 9000, "rec", "log"),
                Typed("link", "profile", NoReference, NoOptions, 9000, NoOutput, "log")}}

(* Every reference, against files that come, go and change.                 *)
References ==
  {Reference(form, name) : form \in {"builtin", "file", "bare"},
                           name \in {"", "p", " ", "standard", "nominal"}} \cup
  {NoReference, Reference("builtin", "power-demo"), Reference("bare", "thermal-demo"),
   Reference("builtin", "high-latency"), Reference("bare", "other")}

Resolvable == {r \in References : r.form \in {"file", "bare"} => r.name \in MCNames \cup {""}}

Found ==
  [policy |-> Toml(Lab), profile |-> Toml(LabLink)]

RaceScenes ==
  {Scene(Typed(IF family = "policy" THEN "listen" ELSE "link", family, reference, NoOptions,
               9000, NoOutput, "log"),
         contents, IF reference.form = "bare" THEN 2 ELSE 1) :
     family \in Families, reference \in Resolvable,
     contents \in {"p" :> Found["policy"] @@ "standard" :> Found["policy"],
                   "p" :> Found["profile"] @@ " " :> Found["policy"],
                   "p" :> Directory}}

(* Recordings under one name, under two names of one file, over the source. *)
OutputScenes ==
  {Scene(Typed("listen", "policy", reference, NoOptions, 9000, recording, log), contents, 1) :
     reference \in {P, NoReference}, recording \in {"rec", "p"},
     log \in {NoOutput, "log", "other"},
     contents \in {"p" :> Toml(Lab) @@ "log" :> Unreadable, "p" :> Toml(Lab) @@ "rec" :> Directory}}
  \cup
  {Scene(Typed("listen", "policy", Reference("bare", name), NoOptions, port, "rec", log),
         " " :> Toml(Lab) @@ "log" :> Unreadable, 0) :
     name \in {" ", "standard"}, port \in {0, 9000}, log \in {NoOutput, "log", "standard"}}

(* Options over a profile and over the defaults.                            *)
OptionScenes ==
  {Scene(Typed("link", "profile", reference, options, 9000, NoOutput, "log"), NoOptions, 0) :
     reference \in {NoReference, Reference("builtin", "degraded-link")},
     options \in UNION {[keys -> {IntValue(0), Float(0), IntValue(1), Float(50), NegativeZero, NaN}] :
                          keys \in {{"loss_rate"}, {"latency_ms"}, {"corrupt_rate", "jitter_ms"},
                                    {"seed", "reorder_window"}}}}

(* A listener whose policy has a blank name, over an earlier recording.     *)
MCBlankScenes ==
  {Scene(Typed("listen", "policy", Reference("bare", " "), NoOptions, 9000, "rec", "log"),
         " " :> Toml(Lab) @@ "rec" :> Unreadable, 1)}

MCScenes ==
  DocumentScenes \cup ExceptionScenes \cup RaceScenes \cup OutputScenes \cup OptionScenes

MCEditPlaces == {"p", "standard", "log"}
MCNewContents ==
  {Toml(PolicyDocument("lab", 4500, 5500, 0, 740, 20)), Toml(Nominal), Deep}
=============================================================================
