----------------------------- MODULE JsonFields -----------------------------
(***************************************************************************)
(* How ble_service.c reads a gateway command.  There is no JSON parser:    *)
(* each field is looked for in the text on its own.  Here the text is the  *)
(* sequence of its fields, of which the readers tell apart the key, the    *)
(* kind of the value (number, text, bool or other) and the value.          *)
(***************************************************************************)
EXTENDS Integers, Sequences

Absent == -1                                  \* no such number or bool
Keep   == "keep"                              \* no such text field

\* Where the text has the key for the first time, 0 if nowhere.
Place(json, key) ==
  IF \A i \in DOMAIN json : json[i].key # key THEN 0
  ELSE CHOOSE i \in DOMAIN json :
         json[i].key = key /\ \A j \in 1..(i - 1) : json[j].key # key

Has(json, key, kind) == Place(json, key) # 0 /\ json[Place(json, key)].kind = kind

ExtractU32(json, key) ==
  IF Has(json, key, "number") THEN json[Place(json, key)].value ELSE Absent

\* Behind the key the next pair of quotes counts, whosever it is.
ExtractString(json, key) ==
  LET i == Place(json, key)
  IN  IF Has(json, key, "text") THEN json[i].value
      ELSE IF i # 0 /\ i < Len(json) THEN json[i + 1].key
      ELSE Keep

ExtractBool(json, key) ==
  IF ~Has(json, key, "bool") THEN Absent
  ELSE IF json[Place(json, key)].value THEN 1 ELSE 0

ExtractBoolTrue(json, key) == ExtractBool(json, key) = 1

\* What apply_gateway_command finds.  The settings fields of text other than
\* the subject id and sendFilenames, which is Hublink's, are left out.
Parsed(json) ==
  [timestamp  |-> ExtractU32(json, "timestamp"),
   clear      |-> ExtractBoolTrue(json, "clearMemory"),
   reset      |-> ExtractBoolTrue(json, "reset"),
   scan       |-> ExtractU32(json, "scanInterval"),
   adv        |-> ExtractU32(json, "advInterval"),
   multiplier |-> ExtractU32(json, "inactivityMultiplier"),
   vitals     |-> ExtractU32(json, "vitalsInterval"),
   subject    |-> ExtractString(json, "subjectId"),
   motion     |-> ExtractBool(json, "motionLogging")]

=============================================================================
