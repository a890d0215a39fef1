----------------------------- MODULE ConfigFile -----------------------------
(***************************************************************************)
(* loadRuntimeConfig of src/src/config.cpp: the INI reader in front of     *)
(* validateRuntimeConfig.  A line is what trim() and the first tests make  *)
(* of it: blank (or a comment), a header, key = value, or anything else.   *)
(* A value is taken as text, or is malformed for the parser of its key, or *)
(* out of the range that RuntimeConfig describes.                          *)
(***************************************************************************)
EXTENDS Sequences, Naturals

CONSTANTS
  KnownSection,  \* known_sections
  KnownKey,      \* known_keys, as pairs of a section and a key
  TextKey,       \* the keys whose value no number parser reads: serial.device
  SectionName,   \* what a header of the file may name; "" is an empty one
  KeyName,       \* what stands left of an equals sign
  MaxLines       \* bound: the lines of a file

ASSUME KeysAssumption ==
  /\ TextKey \subseteq KnownKey
  /\ \A k \in KnownKey: k[1] \in KnownSection
  /\ "" \notin KnownSection

Value == {"valid", "malformed", "out_of_range"}
Line == [kind: {"blank", "other"}]
        \cup [kind: {"header"}, name: SectionName]
        \cup [kind: {"entry"}, name: KeyName, value: Value]

VARIABLES
  file,     \* the lines read so far
  section,  \* section, "" before the first header
  seen,     \* seen_sections
  values,   \* values, a function on the keys that were assigned
  result    \* the ConfigError, "reading" while there is none yet

vars == <<file, section, seen, values, result>>

ConfigError == {"kNone", "kFileOpen", "kSyntax", "kDuplicateKey", "kUnknownKey",
                "kMissingKey", "kInvalidValue"}

\* The shape of the state.
TypeOK ==
  /\ file \in Seq(Line)
  /\ section \in SectionName \cup {""} /\ seen \subseteq KnownSection
  /\ DOMAIN values \subseteq KnownKey /\ \A k \in DOMAIN values: values[k] \in Value
  /\ result \in ConfigError \cup {"reading"}

Init ==
  /\ file = <<>> /\ section = "" /\ seen = {} /\ values = <<>>
  /\ result = "reading"

Fail(error) == result' = error /\ UNCHANGED <<seen, values>>

OpenFails ==
  /\ result = "reading" /\ file = <<>>
  /\ Fail("kFileOpen")
  /\ UNCHANGED <<file, section>>

ReadBlank(l) == l.kind = "blank" /\ UNCHANGED <<section, seen, values, result>>

\* Mutant: a section may be opened again.
ReadHeaderAgain(l) ==
  /\ l.kind = "header"
  /\ section' = l.name
  /\ IF l.name = "" THEN Fail("kSyntax")
     ELSE IF l.name \notin KnownSection THEN Fail("kUnknownKey")
     ELSE seen' = seen \cup {l.name} /\ UNCHANGED <<values, result>>

ReadHeader(l) ==
  /\ l.kind = "header"
  /\ section' = l.name
  /\ IF l.name = "" THEN Fail("kSyntax")
     ELSE IF l.name \notin KnownSection THEN Fail("kUnknownKey")
     ELSE IF l.name \in seen THEN Fail("kDuplicateKey")
     ELSE seen' = seen \cup {l.name} /\ UNCHANGED <<values, result>>

\* Mutant: a key is stored without its section.
AssignByName(key, value) ==
  values' = [k \in DOMAIN values \cup {key} |-> IF k[2] = key[2] THEN value ELSE values[k]]

Assign(key, value) ==
  values' = [k \in DOMAIN values \cup {key} |-> IF k = key THEN value ELSE values[k]]

ReadEntry(l) ==
  LET key == <<section, l.name>> IN
  /\ l.kind = "entry"
  /\ IF section = "" THEN Fail("kSyntax")
     ELSE IF key \notin KnownKey THEN Fail("kUnknownKey")
     ELSE IF key \in DOMAIN values THEN Fail("kDuplicateKey")
     ELSE Assign(key, l.value) /\ UNCHANGED <<seen, result>>
  /\ UNCHANGED section

ReadOther(l) == l.kind = "other" /\ Fail("kSyntax") /\ UNCHANGED section

ReadLine ==
  /\ result = "reading"
  /\ Len(file) < MaxLines
  /\ \E l \in Line:
       /\ file' = Append(file, l)
       /\ ReadBlank(l) \/ ReadHeader(l) \/ ReadEntry(l) \/ ReadOther(l)

\* getline stopped before the end of the file.
StreamFails ==
  /\ result = "reading"
  /\ Fail("kFileOpen")
  /\ UNCHANGED <<file, section>>

\* The numbers parse and validateRuntimeConfig agrees.  Which field of the
\* RuntimeConfig a value is assigned to is left out.
ValuesResult ==
  IF \/ \E k \in KnownKey \ TextKey: values[k] = "malformed"
     \/ \E k \in KnownKey: values[k] = "out_of_range"
  THEN "kInvalidValue" ELSE "kNone"

EndOfFile ==
  /\ result = "reading"
  /\ Fail(IF KnownKey # DOMAIN values THEN "kMissingKey" ELSE ValuesResult)
  /\ UNCHANGED <<file, section>>

Next == OpenFails \/ ReadLine \/ StreamFails \/ EndOfFile

Spec == Init /\ [][Next]_vars

-----------------------------------------------------------------------------
(* What a configuration file is *)

Headers(f) == {i \in DOMAIN f: f[i].kind = "header"}
Entries(f) == {i \in DOMAIN f: f[i].kind = "entry"}

\* The nearest header above line i governs it.
Governs(f, h, i) == h \in Headers(f) /\ h < i /\ \A j \in Headers(f): j < i => j <= h
QualifiedKeys(f, i) == {<<f[h].name, f[i].name>>: h \in {j \in DOMAIN f: Governs(f, j, i)}}

\* Every line is blank, a header or an entry; every section of the file is
\* known and has one header; every known key has exactly one entry, under
\* the header of its section, and nothing else has one.
WellFormed(f) ==
  /\ \A i \in DOMAIN f: f[i].kind # "other"
  /\ \A i \in Headers(f): f[i].name \in KnownSection
  /\ \A i, j \in Headers(f): f[i].name = f[j].name => i = j
  /\ \A i \in Entries(f): QualifiedKeys(f, i) # {} /\ QualifiedKeys(f, i) \subseteq KnownKey
  /\ \A k \in KnownKey: \E i \in Entries(f):
       k \in QualifiedKeys(f, i) /\ \A j \in Entries(f): k \in QualifiedKeys(f, j) => i = j

-----------------------------------------------------------------------------
(* Properties *)

\* Once the whole file has been read, loadRuntimeConfig has an error of form
\* exactly when the file is not well-formed, whatever the order of its
\* sections and entries and wherever the fault stands: no misplaced, doubled
\* or missing entry is accepted, and no good file is refused.
AcceptedIffWellFormed ==
  /\ result \in {"kNone", "kInvalidValue"} => WellFormed(file)
  /\ result \in {"kSyntax", "kUnknownKey", "kDuplicateKey", "kMissingKey"} => ~WellFormed(file)

\* Every value of an accepted configuration is the one its own entry gives.
ValuesAreTheFiles ==
  result = "kNone" =>
    \A i \in Entries(file): \A k \in QualifiedKeys(file, i): values[k] = file[i].value

=============================================================================
