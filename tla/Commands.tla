------------------------------ MODULE Commands ------------------------------
(***************************************************************************)
(* One run of `orbitops listen`, `link`, `profile validate` or             *)
(* `alarm-policy validate`, from its arguments to the first line of its    *)
(* log, beside an operator who may create, rewrite, link and remove files  *)
(* between any two of its steps.                                           *)
(*                                                                         *)
(* A command is a record: what it runs (kind, family), the reference it    *)
(* was given, the options of the link, its port, whether its host can be   *)
(* encoded, and the names of its recording and its log, or NoOutput.  A    *)
(* name is canonical after links and dots are resolved; a place holds a    *)
(* node (a hard link shares it); a node holds the content.                 *)
(***************************************************************************)
EXTENDS Configurations, FiniteSets

CONSTANTS
  Names,          (* the paths that may be written in a command            *)
  Canonical,      (* name -> the place it leads to                         *)
  Nodes,          (* the nodes of the file system                          *)
  Scenes,         (* commands, and the files they meet                     *)
  EditPlaces,     (* bound: the places where the operator changes files    *)
  NewContents,    (* what the operator writes                              *)
  DiskMayFail     (* an access to a file may fail                          *)

NoOutput == ""
Nowhere == 0
Places == {Canonical[name] : name \in Names}

ASSUME CommandsAssumption ==
  /\ Canonical \in [Names -> STRING] /\ NoOutput \notin Names
  /\ Nowhere \notin Nodes /\ EditPlaces \subseteq Places /\ DiskMayFail \in BOOLEAN
  /\ \A content \in NewContents : content[1] # "log"

(* A listener has a policy, a link a profile and options; what they read   *)
(* and write has a name.                                                   *)
ASSUME ScenesAssumption ==
  \A scene \in Scenes :
    /\ scene.command.kind \in {"listen", "link", "validate"}
    /\ scene.command.family \in Families
    /\ scene.command.kind = "listen" => scene.command.family = "policy"
    /\ scene.command.kind = "link" => scene.command.family = "profile"
    /\ scene.command.kind # "link" => DOMAIN scene.command.options = {}
    /\ scene.command.encodable \in BOOLEAN
    /\ \/ scene.command.reference = NoReference
       \/ scene.command.reference.form = "builtin"
       \/ /\ scene.command.reference.form \in {"file", "bare"}
          /\ scene.command.reference.name \in Names \cup {""}
    /\ {scene.command.recording, scene.command.log} \subseteq Names \cup {NoOutput}
    /\ scene.at \in [Places -> Nodes \cup {Nowhere}]
    /\ DOMAIN scene.data = Nodes /\ scene.edits \in Nat

Toml(document)  == <<"toml", document>>   (* also a file that is no TOML   *)
Unreadable      == <<"unreadable", 0>>    (* not UTF-8, or not TOML        *)
Deep            == <<"deep", 0>>          (* nested beyond the call stack   *)
Missing         == <<"missing", 0>>       (* a resource that was not packed*)
Directory       == <<"directory", 0>>
Empty           == Toml([key \in {} |-> 0])
Log(header)     == <<"log", header>>

VARIABLES
  command,     (* the command, as it was typed                             *)
  phase,       (* where it is                                              *)
  reason,      (* why it was refused                                       *)
  chosen,      (* what its reference was resolved to                       *)
  settings,    (* the settings it runs with                                *)
  outputs,     (* the nodes it has opened for writing                      *)
  at, data,    (* the files: place -> node, node -> content                *)
  edits,       (* how many changes the operator may still make             *)
  answers,     (* history: what the reference meant at any time so far     *)
  settled      (* history: what has happened since the operator's last edit*)

files   == <<at, data>>
history == <<answers, settled>>
vars == <<command, phase, reason, chosen, settings, outputs, files, edits, history>>

Family == command.family
Unresolved == <<"none", "none">>
NoSettings == [key \in {} |-> 0]
Final == {"running", "done", "refused", "crashed", "killed"}

-----------------------------------------------------------------------------
(* The catalogues: what a reference means in one state of the files.       *)

ContentAt(places, contents, place) ==
  IF places[place] = Nowhere THEN Missing ELSE contents[places[place]]

Content(places, contents, name) == ContentAt(places, contents, Canonical[name])

IsFile(places, contents, name) == Content(places, contents, name) \notin {Missing, Directory}

(* tomllib raises RecursionError, which is no ValueError, in a nesting too *)
(* deep for it.                                                            *)
Parse(family, content) ==
  IF content = Deep THEN <<"recursion", "none">>
  ELSE IF content[1] # "toml" THEN Refused
  ELSE IF family = "policy" THEN ParsePolicy(content[2]) ELSE ParseProfile(content[2])

(* A bundled file must parse and carry the name it is packed under.        *)
LoadBuiltin(family, name) ==
  IF name \notin Builtins(family) THEN Refused
  ELSE LET result == Parse(family, Bundle[family][name])
       IN  IF result[1] = "ok" /\ result[2].name # name THEN Refused ELSE result

(* No packaged file holds a number too large for a float, or is nested.    *)
ASSUME PackagedAssumption ==
  \A family \in Families : \A name \in Builtins(family) :
    Parse(family, Bundle[family][name])[1] \notin {"crashed", "recursion"}

LoadFile(family, places, contents, name) == Parse(family, Content(places, contents, name))

Default(family) ==
  <<"ok", IF family = "policy" THEN DefaultPolicy
          ELSE [name |-> "", version |-> 0, settings |-> DefaultLink]>>

Resolve(family, reference, places, contents) ==
  LET name == reference.name
  IN  IF reference = NoReference THEN Default(family)
      ELSE IF name = "" THEN Refused
      ELSE IF reference.form = "builtin" THEN LoadBuiltin(family, name)
      ELSE IF reference.form = "file" THEN LoadFile(family, places, contents, name)
      ELSE IF name \notin Builtins(family) THEN LoadFile(family, places, contents, name)
      ELSE IF IsFile(places, contents, name) THEN Refused   (* ambiguous   *)
      ELSE LoadBuiltin(family, name)

-----------------------------------------------------------------------------
(* How a command ends before it runs.                                      *)

Refuse(why) ==
  /\ phase' = "refused" /\ reason' = why
  /\ UNCHANGED <<command, settings, outputs, files, edits, history>>

(* An exception that no handler of the command expects.                    *)
Crash(why) ==
  /\ phase' = "crashed" /\ reason' = why
  /\ UNCHANGED <<command, chosen, settings, outputs, files, edits, history>>

(* The reference was resolved, to a source, an error or an exception.  The *)
(* link expects RuntimeError, which RecursionError is; no command expects  *)
(* OverflowError.                                                          *)
Resolved(result) ==
  /\ chosen' = result
  /\ settled' = settled \cup {"resolved"}
  /\ \/ result[1] = "ok" /\ phase' = "resolved" /\ UNCHANGED reason
     \/ /\ result[1] = "refused" \/ (result[1] = "recursion" /\ command.kind = "link")
        /\ phase' = "refused" /\ reason' = "configuration"
     \/ result[1] = "crashed" /\ phase' = "crashed" /\ reason' = "overflow"
     \/ /\ result[1] = "recursion" /\ command.kind # "link"
        /\ phase' = "crashed" /\ reason' = "recursion"
  /\ UNCHANGED <<command, settings, outputs, files, edits, answers>>

Proceed(next) == phase' = next /\ UNCHANGED <<command, reason, chosen, edits, answers>>

-----------------------------------------------------------------------------
(* The steps of a command.                                                 *)

Ports == 1 .. 65535

(* argparse checks the options of a link, and that its reference is not    *)
(* blank; the listener checks its port.                                    *)
UsageAccepted ==
  /\ command.kind \in {"listen", "link"} => command.port \in Ports
  /\ command.kind = "link" =>
       /\ ~IsBlank(command.reference)
       /\ \A key \in DOMAIN command.options : OptionAccepted(key, command.options[key])

RefuseUsage ==
  /\ phase = "start" /\ ~UsageAccepted
  /\ Refuse("usage") /\ UNCHANGED chosen

UseDefault ==
  /\ phase = "start" /\ UsageAccepted
  /\ command.reference = NoReference
  /\ Resolved(Default(Family))

SelectBuiltin ==
  /\ phase = "start" /\ UsageAccepted
  /\ command.reference.form = "builtin"
  /\ Resolved(LoadBuiltin(Family, command.reference.name))

SelectFile ==
  /\ phase = "start" /\ UsageAccepted
  /\ command.reference.form = "file"
  /\ IF command.reference.name = "" THEN Resolved(Refused)
     ELSE Proceed("load") /\ UNCHANGED <<settings, outputs, files, settled>>

(* Mutant: a file hides the built-in of its name.                          *)
InspectPathFirst ==
  /\ phase = "start" /\ UsageAccepted
  /\ command.reference.form = "bare"
  /\ IF command.reference.name = "" THEN Resolved(Refused)
     ELSE IF IsFile(at, data, command.reference.name)
     THEN Proceed("load") /\ UNCHANGED <<settings, outputs, files, settled>>
     ELSE Resolved(LoadBuiltin(Family, command.reference.name))

(* A bare reference: a built-in, or else a file that exists now; a name    *)
(* that is both is ambiguous.                                              *)
InspectPath ==
  /\ phase = "start" /\ UsageAccepted
  /\ command.reference.form = "bare"
  /\ LET name    == command.reference.name
         builtin == name \in Builtins(Family)
     IN  IF name = "" THEN Resolved(Refused)
         ELSE IF builtin /\ IsFile(at, data, name) THEN Resolved(Refused)
         ELSE IF builtin THEN Resolved(LoadBuiltin(Family, name))
         ELSE IF IsFile(at, data, name)
         THEN Proceed("load") /\ UNCHANGED <<settings, outputs, files, settled>>
         ELSE Resolved(Refused)

(* The loader looks again before it reads.                                 *)
CheckFile ==
  /\ phase = "load"
  /\ IF IsFile(at, data, command.reference.name)
     THEN Proceed("read") /\ UNCHANGED <<settings, outputs, files, settled>>
     ELSE Resolved(Refused)

ReadFile ==
  /\ phase = "read"
  /\ Resolved(LoadFile(Family, at, data, command.reference.name))

AccessFails ==
  /\ DiskMayFail
  /\ \/ phase = "start" /\ UsageAccepted /\ command.reference.form = "bare"
     \/ phase \in {"load", "read"}
  /\ Refuse("access") /\ UNCHANGED chosen

(* The answer has the fingerprint, which is computed outside the try.      *)
Answer ==
  /\ phase = "resolved" /\ command.kind = "validate"
  /\ Printable(chosen[2].settings)
  /\ settings' = chosen[2].settings
  /\ Proceed("done") /\ UNCHANGED <<outputs, files, settled>>

AnswerFails ==
  /\ phase = "resolved" /\ command.kind = "validate"
  /\ ~Printable(chosen[2].settings)
  /\ Crash("fingerprint")

Effective == WithOptions(chosen[2].settings, command.options)

Override ==
  /\ phase = "resolved" /\ command.kind = "link"
  /\ Printable(Effective)
  /\ settings' = Effective
  /\ Proceed("log") /\ UNCHANGED <<outputs, files, settled>>

(* The link computes it inside, before it opens anything.                  *)
OverrideFails ==
  /\ phase = "resolved" /\ command.kind = "link"
  /\ ~Printable(Effective)
  /\ Refuse("configuration") /\ UNCHANGED chosen

(* Mutant: only the names are compared.                                    *)
SameFileByName(left, right) == left = right

(* The two names lead to one place, or to places that share a node.        *)
SameFile(left, right) ==
  \/ Canonical[left] = Canonical[right]
  \/ at[Canonical[left]] # Nowhere /\ at[Canonical[left]] = at[Canonical[right]]

Compare ==
  /\ phase = "resolved" /\ command.kind = "listen"
  /\ settings' = chosen[2].settings
  /\ settled' = settled \cup {"compared"}
  /\ IF /\ command.recording # NoOutput /\ command.log # NoOutput
        /\ SameFile(command.recording, command.log)
     THEN phase' = "refused" /\ reason' = "aliases"
     ELSE phase' = "bind" /\ UNCHANGED reason
  /\ UNCHANGED <<command, chosen, outputs, files, edits, answers>>

(* The listener binds before it opens its files, the link after.           *)
Bind ==
  /\ phase = "bind" /\ command.encodable
  /\ Proceed(IF command.kind = "listen" THEN "record" ELSE "header")
  /\ UNCHANGED <<settings, outputs, files, settled>>

BindFails ==
  /\ phase = "bind"
  /\ Refuse("network") /\ UNCHANGED chosen

(* A host that cannot be encoded for the resolver raises UnicodeError,     *)
(* which only the link expects (BindFails).                                *)
HostFails ==
  /\ phase = "bind" /\ ~command.encodable /\ command.kind = "listen"
  /\ Crash("host")

(* open(path, "w"): the file is made, or emptied.                          *)
Unused ==
  Nodes \ ({at[p] : p \in Places} \cup {outputs[o] : o \in DOMAIN outputs})

(* A bound on the nodes stands for a disk that is never that full.         *)
FreshNode == IF Unused = {} THEN Nowhere ELSE CHOOSE node \in Unused : TRUE

Open(output, name) ==
  /\ Content(at, data, name) # Directory
  /\ at' = [at EXCEPT ![Canonical[name]] = IF @ = Nowhere THEN FreshNode ELSE @]
  /\ at'[Canonical[name]] \in Nodes
  /\ data' = [data EXCEPT ![at'[Canonical[name]]] = Empty]
  /\ outputs' = [outputs EXCEPT ![output] = at'[Canonical[name]]]

OpenFails(name) == DiskMayFail \/ Content(at, data, name) = Directory

(* Mutant: the names are compared once more when the recording is open.    *)
RecordComparing ==
  /\ phase = "record" /\ command.recording # NoOutput
  /\ Open("recording", command.recording)
  /\ IF command.log # NoOutput /\ SameFile(command.recording, command.log)
     THEN phase' = "refused" /\ reason' = "aliases"
     ELSE phase' = "log" /\ UNCHANGED reason
  /\ UNCHANGED <<command, chosen, settings, edits, history>>

Record ==
  /\ phase = "record" /\ command.recording # NoOutput
  /\ Open("recording", command.recording)
  /\ Proceed("log") /\ UNCHANGED <<settings, settled>>

NoRecording ==
  /\ phase = "record" /\ command.recording = NoOutput
  /\ Proceed("log") /\ UNCHANGED <<settings, outputs, files, settled>>

(* The identity of the policy is checked before its log is opened; that of *)
(* a profile was, when its reference was parsed.                           *)
Identity ==
  IF Family = "profile" /\ command.reference = NoReference THEN NoIdentity
  ELSE [name |-> chosen[2].name, version |-> chosen[2].version,
        reference |-> IF command.reference = NoReference
                      THEN Reference("builtin", "standard") ELSE command.reference]

IdentityRefused ==
  /\ phase = "log" /\ command.log # NoOutput
  /\ ~HeaderAccepted(Header(Family, settings, Identity))
  /\ Crash("identity")

AfterLog == IF command.kind = "listen" THEN "header" ELSE "bind"

OpenLog ==
  /\ phase = "log" /\ command.log # NoOutput
  /\ HeaderAccepted(Header(Family, settings, Identity))
  /\ Open("log", command.log)
  /\ Proceed(AfterLog) /\ UNCHANGED <<settings, settled>>

NoLog ==
  /\ phase = "log" /\ command.log = NoOutput
  /\ Proceed(AfterLog) /\ UNCHANGED <<settings, outputs, files, settled>>

OutputFails ==
  /\ \/ phase = "record" /\ command.recording # NoOutput /\ OpenFails(command.recording)
     \/ /\ phase = "log" /\ command.log # NoOutput /\ OpenFails(command.log)
        /\ HeaderAccepted(Header(Family, settings, Identity))
     \/ phase = "header" /\ outputs["log"] # Nowhere /\ DiskMayFail
  /\ Refuse("disk") /\ UNCHANGED chosen

(* The first line of the log, or none; the command runs.                   *)
WriteHeader ==
  /\ phase = "header"
  /\ IF outputs["log"] = Nowhere THEN UNCHANGED data
     ELSE data' = [data EXCEPT ![outputs["log"]] = Log(Header(Family, settings, Identity))]
  /\ Proceed("running") /\ UNCHANGED <<settings, outputs, at, settled>>

Kill ==
  /\ phase \notin Final
  /\ phase' = "killed"
  /\ UNCHANGED <<command, reason, chosen, settings, outputs, files, edits, history>>

-----------------------------------------------------------------------------
(* The operator.  A change may also replace the file by another node.      *)

Edit ==
  /\ edits > 0 /\ edits' = edits - 1
  /\ settled' = {}
  /\ answers' = IF phase \in {"start", "load", "read"}
                THEN answers \cup {Resolve(Family, command.reference, at', data')} ELSE answers
  /\ UNCHANGED <<command, phase, reason, chosen, settings, outputs>>

Remove(place) ==
  /\ at[place] # Nowhere
  /\ at' = [at EXCEPT ![place] = Nowhere] /\ UNCHANGED data
  /\ Edit

Write(place, content) ==
  /\ ContentAt(at, data, place) # Directory
  /\ \E node \in {FreshNode, at[place]} \ {Nowhere} :
       /\ at' = [at EXCEPT ![place] = node]
       /\ data' = [data EXCEPT ![node] = content]
  /\ Edit

LinkTo(place, other) ==
  /\ place # other /\ at[other] # Nowhere
  /\ at' = [at EXCEPT ![place] = at[other]] /\ UNCHANGED data
  /\ Edit

-----------------------------------------------------------------------------
Init ==
  \E scene \in Scenes :
    /\ command = scene.command
    /\ at = scene.at /\ data = scene.data /\ edits = scene.edits
    /\ phase = "start" /\ reason = "none"
    /\ chosen = Unresolved /\ settings = NoSettings
    /\ outputs = [recording |-> Nowhere, log |-> Nowhere]
    /\ answers = {Resolve(command.family, command.reference, at, data)}
    /\ settled = {}

Resolution ==
  \/ UseDefault \/ SelectBuiltin \/ SelectFile \/ InspectPath \/ CheckFile \/ ReadFile
  \/ AccessFails

Opening ==
  \/ Bind \/ BindFails \/ HostFails \/ Record \/ NoRecording \/ IdentityRefused \/ OpenLog \/ NoLog
  \/ OutputFails \/ WriteHeader

Command ==
  \/ RefuseUsage \/ Resolution \/ Answer \/ AnswerFails \/ Override \/ OverrideFails
  \/ Compare \/ Opening \/ Kill

Operator ==
  \/ \E place \in EditPlaces : Remove(place)
  \/ \E place \in EditPlaces, content \in NewContents : Write(place, content)
  \/ \E place, other \in EditPlaces : LinkTo(place, other)

Next == Command \/ Operator

Spec == Init /\ [][Next]_vars

-----------------------------------------------------------------------------
(* Properties.                                                             *)

Rules == INSTANCE AlarmRules WITH
  WarningC <- Number(settings["warning_c"]), CriticalC <- Number(settings["critical_c"]),
  HysteresisC <- Number(settings["hysteresis_c"]),
  CriticalV <- Number(settings["critical_v"]), HysteresisV <- Number(settings["hysteresis_v"]),
  AlarmOnSafe <- settings["alarm_on_safe"][2], DetectGaps <- settings["detect_gaps"][2],
  SequenceModulus <- 1

(* Every variable has its type; once a source is chosen every rate and     *)
(* every threshold is a float.                                             *)
TypeOK ==
  /\ phase \in Final \cup {"start", "load", "read", "resolved", "bind", "record", "log", "header"}
  /\ reason \in {"none", "usage", "configuration", "access", "aliases", "network", "disk",
                 "overflow", "recursion", "fingerprint", "host", "identity"}
  /\ at \in [Places -> Nodes \cup {Nowhere}] /\ DOMAIN data = Nodes
  /\ outputs \in [{"recording", "log"} -> Nodes \cup {Nowhere}]
  /\ edits \in Nat /\ settled \subseteq {"resolved", "compared"}
  /\ \A key \in DOMAIN settings \ (Counts \cup {"alarm_on_safe", "detect_gaps"}) :
       Kind(settings[key]) \in {"float", "-0"}

(* The files may change while a reference is resolved, but what comes out  *)
(* is what it meant at one moment since the command started: a bare name   *)
(* of a built-in never selects a file, and no two states are mixed.        *)
ResolvesAsOfSomeMoment == chosen # Unresolved => chosen \in answers

(* A policy that was accepted is one the alarm rules were written for, a   *)
(* link configuration one the impairment engine was written for, options   *)
(* included.                                                               *)
RunsWithinAssumptions ==
  phase \in {"running", "done"} =>
    IF Family = "policy" THEN Rules!ValidPolicy
    ELSE /\ \A key \in Rates : Number(settings[key]) \in 0 .. Hundred
         /\ \A key \in Counts : settings[key][2] >= 0
         /\ settings["seed"][2] <= MaxSeed
         /\ settings["reorder_window"][2] <= MaxReorderWindow

ReadsFile(reference) ==
  reference.form = "file" \/ (reference.form = "bare" /\ reference.name \notin Builtins(Family))

(* The command has opened the file its reference names, for writing.       *)
OverItsSource(reference) ==
  reference.form \in {"file", "bare"} /\
    at[Canonical[reference.name]] \in {outputs["recording"], outputs["log"]} \ {Nowhere}

(* A log can be reproduced: its reference, resolved once more and with the *)
(* same options, has the fingerprint of the header, as long as the         *)
(* operator has changed nothing and the command did not write over its own *)
(* source.  After changes it is an error, or a file that was changed; a    *)
(* built-in is never another policy or profile than the log says.          *)
ReferenceReproduces ==
  phase = "running" /\ outputs["log"] # Nowhere /\ data[outputs["log"]][1] = "log" =>
    LET header == data[outputs["log"]][2]
        again  == Resolve(Family, header.identity.reference, at, data)
        same   == again[1] = "ok" /\
          Fingerprint(WithOptions(again[2].settings, command.options)) = header.fingerprint
    IN  \/ same
        \/ again = Refused /\ ("resolved" \notin settled \/ OverItsSource(header.identity.reference))
        \/ ReadsFile(header.identity.reference) /\ "resolved" \notin settled

Silent == [recording |-> Nowhere, log |-> Nowhere]

(* Bad arguments, references, documents and destinations end the command   *)
(* before it has opened any file for writing, and so does a port that is   *)
(* taken for the listener: the old recordings survive.  So do they when    *)
(* the command ends with an exception, but for one: a policy whose         *)
(* reference is blank ends a listener whose recording is open.  A link     *)
(* binds behind its log, and a destination that is a directory is found    *)
(* when it is opened.                                                      *)
RefusalsLeaveNoTrace ==
  outputs # Silent =>
    /\ phase = "refused" => reason = "disk" \/ (reason = "network" /\ command.kind = "link")
    /\ phase = "crashed" => reason = "identity"

(* operations.md: "Invalid profiles, policies, and CLI values fail before  *)
(* their associated socket or log side effects."                           *)
InvalidSettingsLeaveNoTrace ==
  reason \in {"usage", "configuration", "overflow", "recursion", "identity"} =>
    outputs = Silent

Overflowing(content) ==
  \E table \in {f \in {content[2][key] : key \in DOMAIN content[2]} : Kind(f) = "table"} :
    \E key \in DOMAIN table[2] : Overflows(table[2][key])

(* A command of these steps that ends with an exception has met one of     *)
(* five things, and no other command ends so: a file with an integer too   *)
(* large for a float where a real number belongs, or nested too deeply; a  *)
(* profile with a count too large to be written, which only validation     *)
(* does not expect; a listener's host that cannot be encoded; a file with  *)
(* a blank name that selects the policy of a listener with a log.  The     *)
(* file is the one that was read: it still tells, until it is edited.      *)
CrashesAreExplained ==
  phase = "crashed" =>
    LET content == Content(at, data, command.reference.name)
        read(explains) == /\ ReadsFile(command.reference)
                          /\ "resolved" \in settled => explains
    IN  CASE reason = "overflow"    -> read(content[1] = "toml" /\ Overflowing(content))
          [] reason = "recursion"   -> read(content = Deep) /\ command.kind # "link"
          [] reason = "fingerprint" ->
               /\ command.kind = "validate" /\ chosen[1] = "ok"
               /\ \E key \in {"latency_ms", "jitter_ms"} \cap DOMAIN chosen[2].settings :
                    chosen[2].settings[key][2] > MaxPrintable
          [] reason = "host"        -> command.kind = "listen" /\ ~command.encodable
          [] reason = "identity"    ->
               /\ command.kind = "listen" /\ command.log # NoOutput
               /\ command.reference.form = "bare" /\ command.reference.name \in BlankNames
          [] OTHER                  -> FALSE

(* The telemetry recording and the alarm log are different files, under    *)
(* whatever names, unless the directory was changed after the check.       *)
RecordingsStayApart ==
  outputs["recording"] # Nowhere /\ outputs["log"] # Nowhere /\ "compared" \in settled =>
    outputs["recording"] # outputs["log"]

(* Each setting of a link is the option that was given, a zero too, else   *)
(* the profile's, else the default.                                        *)
OptionsWin ==
  phase = "running" /\ command.kind = "link" =>
    \A key \in LinkKeys :
      IF key \in DOMAIN command.options
      THEN Number(settings[key]) = Number(command.options[key])
      ELSE settings[key] = IF command.reference = NoReference THEN DefaultLink[key]
                           ELSE chosen[2].settings[key]
=============================================================================
