------------------------------ MODULE Documents -----------------------------
(***************************************************************************)
(* What the configuration readers see in a TOML document, and the checks   *)
(* every one of their fields meets.                                        *)
(*                                                                         *)
(* A value is a pair of its kind and its content; a table is a function of *)
(* its keys.  A floating-point number is counted in hundredths, and one    *)
(* beyond MaxFloat hundredths is infinite; an integer is itself.           *)
(***************************************************************************)
EXTENDS Integers, Sequences

CONSTANT MaxFloat     (* the largest finite float, in hundredths           *)

ASSUME MaxFloatAssumption == MaxFloat \in Nat

Hundred == 100

IntValue(n)   == <<"int", n>>
Float(h)      == <<"float", h>>
String(s)     == <<"string", s>>
Bool(b)       == <<"bool", b>>
Table(fields) == <<"table", fields>>
NaN           == <<"nan", 0>>
Infinity      == <<"inf", 0>>
NegativeZero  == <<"-0", 0>>

Kind(value) == value[1]

(* Python's float(): an integer the format cannot hold raises              *)
(* OverflowError, which is neither a TypeError nor a ValueError.           *)
IsReal(value)    == Kind(value) \in {"int", "float", "nan", "inf", "-0"}
Overflows(value) == Kind(value) = "int" /\ ~(value[2] * Hundred \in -MaxFloat .. MaxFloat)

ToFloat(value) == IF Kind(value) = "int" THEN Float(value[2] * Hundred) ELSE value

IsFinite(value) ==
  \/ value = NegativeZero
  \/ Kind(value) \in {"int", "float"} /\ ToFloat(value)[2] \in -MaxFloat .. MaxFloat

(* The number a finite value stands for, in hundredths.                    *)
Number(value) == ToFloat(value)[2]

(* The outcome of a check: the first that is not "ok" ends the parse.      *)
Check(condition) == IF condition THEN "ok" ELSE "refused"

RealCheck(value) ==
  IF ~IsReal(value) THEN "refused" ELSE IF Overflows(value) THEN "crashed" ELSE "ok"

BoolCheck(value) == Check(value \in {Bool(b) : b \in BOOLEAN})

Verdict(checks) ==
  IF \A i \in DOMAIN checks : checks[i] = "ok" THEN "ok"
  ELSE IF \E i \in DOMAIN checks : checks[i] = "crashed" /\ \A j \in 1 .. i - 1 : checks[j] = "ok"
  THEN "crashed" ELSE "refused"

(* The keys of a table, all known and none missing that is required.       *)
HasKeys(table, required, known) == required \subseteq DOMAIN table /\ DOMAIN table \subseteq known

Field(table, key, default) == IF key \in DOMAIN table THEN table[key] ELSE default
=============================================================================
