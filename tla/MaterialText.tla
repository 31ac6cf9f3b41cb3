---------------------------- MODULE MaterialText ----------------------------
(***************************************************************************)
(* The `key = value` text files of the LWE integer material: the exporter  *)
(* writes the full material, setup reads it and writes the runtime         *)
(* material without the secrets, the runtime reads that, and the audit     *)
(* looks at everything in the runtime directory.                           *)
(*                                                                         *)
(* Neither format has a length, a checksum or an end mark, and the         *)
(* exporter never looks at its stream: a file may end anywhere, inside a   *)
(* key, a number or a vector.  What a reader makes of the line it finds    *)
(* there decides whether a cut file is taken for a whole one.              *)
(*                                                                         *)
(* A file is a sequence of lines.  A value is a number, a vector, the name *)
(* of a format, a vector without its bracket, or nothing.                  *)
(***************************************************************************)
EXTENDS Integers, SequencesExt

CONSTANTS
  Coefficients,     \* mask elements of a'
  ExportPlaces      \* where a later export may go: "beside", "over"

ASSUME MaterialAssumption ==
  /\ Coefficients \subseteq 0 .. 31
  /\ ExportPlaces \subseteq {"beside", "over"}

VARIABLES
  material,         \* what the exporter holds
  full_text,        \* its file
  runtime_text,     \* the runtime material, in the runtime directory
  stray_text,       \* another file of the runtime directory
  runtime_material, \* what the runtime has read, or <<>>
  prepared, text_loaded, audited
                    \* setup, runtime, audit: "no", "yes" or "refused"

textVars == <<material, full_text, runtime_text, stray_text,
              runtime_material, prepared, text_loaded, audited>>

-----------------------------------------------------------------------------
(* Lines and values.                                                       *)

Line(section, name, value) == [key |-> <<section, name>>, value |-> value]

Text(kind, content) == <<kind, content>>
Kind(value) == value[1]
Content(value) == value[2]
Nothing == Text("nothing", 0)

VectorNames == {"a", "s_raw", "s_mod_q"}

ValueText(name, value) ==
  Text(IF name \in VectorNames THEN "vector" ELSE "number", value)

(* The lines of some fields of a record, in this order.                    *)
Lines(section, names, record) ==
  [k \in DOMAIN names |->
     Line(section, names[k], ValueText(names[k], record[names[k]]))]

CiphertextNames ==
  <<"dimension", "ciphertext_modulus", "plaintext_modulus", "body", "a">>

(* WriteCiphertextWithDec.                                                 *)
FullCiphertextNames ==
  <<"plaintext", "dimension", "ciphertext_modulus", "plaintext_modulus",
    "body", "a", "manual_dec">>

Sections == {"a_prime", "b_prime", "one_prime"}

HskNames == <<"dimension", "modulus", "s_raw", "switched_modulus", "s_mod_q">>

TopNames == <<"logical_plaintext_bits", "plaintext_modulus">>

FullFormat == "openfhe_lwe_int_setup_material_v1"
RuntimeFormat == "openfhe_lwe_int_runtime_material_v1"

(* WriteManifest.                                                          *)
FullLines(m) ==
  <<Line("top", "format", Text("name", FullFormat))>>
    \o Lines("top", TopNames, m)
    \o Lines("hsk", HskNames, m.hsk)
    \o Lines("a_prime", FullCiphertextNames, m.a_prime)
    \o Lines("b_prime", FullCiphertextNames, m.b_prime)
    \o Lines("one_prime", FullCiphertextNames, m.one_prime)

(* WriteOpenFHELWEIntRuntimeMaterial.                                      *)
RuntimeLines(m) ==
  <<Line("top", "format", Text("name", RuntimeFormat))>>
    \o Lines("top", TopNames, m)
    \o Lines("a_prime", CiphertextNames, m.a_prime)
    \o Lines("b_prime", CiphertextNames, m.b_prime)
    \o Lines("one_prime", CiphertextNames, m.one_prime)

(* A number without its last digits; the numbers have at most ten.  A      *)
(* number of one digit has none left.                                      *)
PowersOfTen ==
  {10, 100, 1000, 10000, 100000, 1000000, 10000000, 100000000, 1000000000}

NumberHeads(n) ==
  {Text("number", head) : head \in {n \div power : power \in PowersOfTen} \ {0}}
    \cup {Nothing}

(* What may be left of the value a file ends in.                           *)
ValueHeads(value) ==
  CASE Kind(value) = "number" -> NumberHeads(Content(value))
    [] Kind(value) = "vector" ->
         {Nothing}
           \cup {Text("open vector", elements) :
                   elements \in {SubSeq(Content(value), 1, k) :
                                   k \in DOMAIN Content(value)}
                                \cup {Append(SubSeq(Content(value), 1, k - 1),
                                             Content(value)[k] \div 10) :
                                        k \in {j \in DOMAIN Content(value) :
                                                 Content(value)[j] > 9}}}
    [] OTHER -> {Nothing}

(* A file that ends after some lines, or inside the next one; a key that   *)
(* is cut leaves a line without `=`, which every reader skips.             *)
Heads(lines) ==
  {SubSeq(lines, 1, n) : n \in 0 .. Len(lines) - 1}
    \cup UNION {{Append(SubSeq(lines, 1, n - 1),
                        [lines[n] EXCEPT !.value = head]) :
                   head \in ValueHeads(lines[n].value)} : n \in DOMAIN lines}

-----------------------------------------------------------------------------
(* The readers.  The first line of a key counts (fields.emplace).          *)

Field(lines, section, name) ==
  LET n == SelectInSeq(lines, LAMBDA line : line.key = <<section, name>>)
  IN  IF n = 0 THEN Nothing ELSE lines[n].value

(* Mutant: the closing bracket is not asked for.                           *)
ParsesOpen(lines, section, name) ==
  Kind(Field(lines, section, name)) \in
    (IF name \in VectorNames THEN {"vector", "open vector"} ELSE {"number"})

(* ParseU64 throws on a field that is missing or has no digits; any digits *)
(* are a number.  ParseVector throws unless it finds both brackets.        *)
Parses(lines, section, name) ==
  Kind(Field(lines, section, name)) =
    IF name \in VectorNames THEN "vector" ELSE "number"

ParsesAll(lines, section, names) ==
  \A k \in DOMAIN names : Parses(lines, section, names[k])

Parsed(lines, section, names) ==
  [name \in ToSet(names) |-> Content(Field(lines, section, name))]

(* Mutant: manual_dec is not read.                                         *)
CiphertextParsesNoDec(lines, section, names) ==
  /\ ParsesAll(lines, section, CiphertextNames)
  /\ LET ct == Parsed(lines, section, CiphertextNames)
     IN  Len(ct.a) = ct.dimension

(* ParseCiphertext and ParseRuntimeCiphertext.                             *)
CiphertextParses(lines, section, names) ==
  /\ ParsesAll(lines, section, names)
  /\ LET ct == Parsed(lines, section, names)
     IN  /\ Len(ct.a) = ct.dimension
         /\ names = FullCiphertextNames => ct.manual_dec = ct.plaintext

MaterialParses(lines, format, names) ==
  /\ Field(lines, "top", "format") = Text("name", format)
  /\ ParsesAll(lines, "top", TopNames)
  /\ \A section \in Sections : CiphertextParses(lines, section, names)

ParsedMaterial(lines, names) ==
  [name \in ToSet(TopNames) \cup Sections |->
     IF name \in Sections THEN Parsed(lines, name, names)
     ELSE Content(Field(lines, "top", name))]

(* What a' and b' must have in common, and with the top of the file.       *)
PairUniform(m) ==
  /\ m.a_prime.dimension = m.b_prime.dimension
  /\ m.a_prime.ciphertext_modulus = m.b_prime.ciphertext_modulus
  /\ m.a_prime.plaintext_modulus = m.b_prime.plaintext_modulus
  /\ m.a_prime.plaintext_modulus = m.plaintext_modulus
  /\ m.plaintext_modulus = 2^m.logical_plaintext_bits
  /\ \E bits \in 0 .. 30 : m.a_prime.ciphertext_modulus = 2^bits

(* ModulusBits: one' is looked at here and nowhere else.                   *)
Uniform(m) ==
  /\ PairUniform(m)
  /\ \A name \in {"dimension", "ciphertext_modulus", "plaintext_modulus"} :
       m.a_prime[name] = m.one_prime[name]

(* CircuitParams, with the length of the secret.                           *)
CircuitParamsHold(m, hsk) ==
  /\ Len(hsk.s_mod_q) = hsk.dimension
  /\ PairUniform(m)
  /\ m.a_prime.dimension = Len(hsk.s_mod_q)
  /\ hsk.switched_modulus = m.a_prime.ciphertext_modulus

(* ReadOpenFHELWEIntMaterial; s_raw is written for the audit alone.        *)
ReadNames == <<"dimension", "modulus", "switched_modulus", "s_mod_q">>

FullReads(lines) ==
  /\ MaterialParses(lines, FullFormat, FullCiphertextNames)
  /\ ParsesAll(lines, "hsk", ReadNames)
  /\ LET m == ParsedMaterial(lines, FullCiphertextNames)
     IN  CircuitParamsHold(m, Parsed(lines, "hsk", ReadNames))

(* ReadOpenFHELWEIntRuntimeMaterial.                                       *)
RuntimeReads(lines) ==
  /\ MaterialParses(lines, RuntimeFormat, CiphertextNames)
  /\ Uniform(ParsedMaterial(lines, CiphertextNames))

(* What setup asks of the full material until it writes the runtime's.     *)
(* The ciphertexts here have no noise, so that every sum decodes.          *)
SetupAccepts(lines) ==
  /\ FullReads(lines)
  /\ LET m == ParsedMaterial(lines, FullCiphertextNames)
     IN  /\ m.one_prime.plaintext = 1
         /\ m.a_prime.plaintext <= m.b_prime.plaintext =>
              m.b_prime.plaintext + 1 < m.plaintext_modulus
         /\ Uniform(m)

(* ToRuntimeMaterial: the ciphertexts without plaintext and manual_dec.    *)
RuntimeMaterial(m) ==
  [name \in ToSet(TopNames) \cup Sections |->
     IF name \in Sections THEN Restrict(m[name], ToSet(CiphertextNames))
     ELSE m[name]]

-----------------------------------------------------------------------------
(* The audit.                                                              *)

RuntimeDirectory == {runtime_text, stray_text}

(* Mutant: the secret is looked for by its whole vector only.              *)
NamesSetupFieldByLiteral(line) ==
  \/ line.key[2] = "manual_dec"
  \/ line.value \in {Field(full_text, "hsk", "s_raw"),
                    Field(full_text, "hsk", "s_mod_q")}

(* Mutant: any key that begins with "plaintext" is taken for a plaintext.  *)
NamesAnyPlaintext(line) ==
  \/ line.key[2] \in {"s_raw", "s_mod_q", "manual_dec", "plaintext",
                      "plaintext_modulus"}
  \/ line.value \in {Field(full_text, "hsk", "s_raw"),
                    Field(full_text, "hsk", "s_mod_q")}

(* AuditNoSetupOnlyFieldStrings.  The string ".plaintext=" is in no line   *)
(* the exporter writes (it puts blanks around `=`), so "plaintext" is not  *)
(* one of the names.                                                       *)
NamesSetupField(line) ==
  \/ line.key[2] \in {"s_raw", "s_mod_q", "manual_dec"}
  \/ line.value \in {Field(full_text, "hsk", "s_raw"),
                    Field(full_text, "hsk", "s_mod_q")}

AuditPasses ==
  /\ FullReads(full_text)
  /\ RuntimeReads(runtime_text)
  /\ \A lines \in RuntimeDirectory :
       ~ \E n \in DOMAIN lines : NamesSetupField(lines[n])

-----------------------------------------------------------------------------

(* One context encrypts all three: q = 32, p = 16, the secret is <<1, -1>>. *)
Ciphertext(plaintext, coefficient) ==
  [plaintext |-> plaintext, dimension |-> 2, ciphertext_modulus |-> 32,
   plaintext_modulus |-> 16, a |-> <<7, coefficient>>,
   body |-> (2 * plaintext + 7 + 31 * coefficient) % 32,
   manual_dec |-> plaintext]

Materials ==
  {[logical_plaintext_bits |-> 4, plaintext_modulus |-> 16,
    hsk |-> [dimension |-> 2, modulus |-> 1024, s_raw |-> <<1, 1023>>,
             switched_modulus |-> 32, s_mod_q |-> <<1, 31>>],
    a_prime |-> Ciphertext(3, c), b_prime |-> Ciphertext(12, 31 - c),
    one_prime |-> Ciphertext(1, 31)] : c \in Coefficients}

TextInit ==
  /\ material \in Materials
  /\ full_text = <<>> /\ runtime_text = <<>> /\ stray_text = <<>>
  /\ prepared = "no" /\ text_loaded = "no" /\ audited = "no"
  /\ runtime_material = <<>>

(* The exporter: the stream is not checked, so that a cut file is as good. *)
ExportMaterial ==
  /\ prepared = "no" /\ full_text = <<>>
  /\ full_text' \in {FullLines(material)} \cup Heads(FullLines(material))
  /\ UNCHANGED <<material, runtime_text, stray_text, prepared,
                 runtime_material, text_loaded, audited>>

(* Setup: the stream is checked before it is flushed, which comes to the   *)
(* same for a file as small as this one.                                   *)
PrepareRuntime ==
  /\ prepared = "no"
  /\ SetupAccepts(full_text)
  /\ LET m == ParsedMaterial(full_text, FullCiphertextNames)
         lines == RuntimeLines(RuntimeMaterial(m))
     IN  runtime_text' \in {lines} \cup Heads(lines)
  /\ prepared' = "yes"
  /\ UNCHANGED <<material, full_text, stray_text, runtime_material,
                 text_loaded, audited>>

RefuseMaterial ==
  /\ prepared = "no"
  /\ ~SetupAccepts(full_text)
  /\ prepared' = "refused"
  /\ UNCHANGED <<material, full_text, runtime_text, stray_text,
                 runtime_material, text_loaded, audited>>

(* The exporter again, with an output path in the runtime directory, and   *)
(* interrupted or not: beside the runtime material or over it.             *)
ExportAstray ==
  /\ prepared = "yes" /\ stray_text = <<>> /\ audited = "no"
  /\ \E lines \in {FullLines(material)} \cup Heads(FullLines(material)) :
       \/ /\ "beside" \in ExportPlaces
          /\ stray_text' = lines
          /\ UNCHANGED runtime_text
       \/ /\ "over" \in ExportPlaces
          /\ runtime_text' = lines
          /\ UNCHANGED stray_text
  /\ UNCHANGED <<material, full_text, prepared, runtime_material,
                 text_loaded, audited>>

LoadRuntime ==
  /\ prepared = "yes" /\ text_loaded = "no"
  /\ IF RuntimeReads(runtime_text)
     THEN /\ runtime_material' = ParsedMaterial(runtime_text, CiphertextNames)
          /\ text_loaded' = "yes"
     ELSE text_loaded' = "refused" /\ UNCHANGED runtime_material
  /\ UNCHANGED <<material, full_text, runtime_text, stray_text, prepared,
                 audited>>

Audit ==
  /\ prepared = "yes" /\ audited = "no"
  /\ audited' = IF AuditPasses THEN "yes" ELSE "refused"
  /\ UNCHANGED <<material, full_text, runtime_text, stray_text, prepared,
                 runtime_material, text_loaded>>

TextNext ==
  \/ ExportMaterial \/ PrepareRuntime \/ RefuseMaterial
  \/ ExportAstray \/ LoadRuntime \/ Audit

-----------------------------------------------------------------------------

(* What the runtime loads is what the exporter held, however the two files *)
(* between them were cut: no number that lost its last digits, and no      *)
(* vector that lost its last elements, is believed.                        *)
LoadedIsExported ==
  text_loaded = "yes" => runtime_material = RuntimeMaterial(material)

(* Setup takes no material that was cut, though it needs nothing of the    *)
(* last line, which is the manual_dec of one', a single digit.  (What the  *)
(* pipeline's Torn assumes.)                                               *)
CutMaterialIsRefused == prepared = "yes" => full_text = FullLines(material)

(* Setup, runtime and audit refuse nothing but files that were cut and     *)
(* directories that an export went to.                                     *)
RefusedForAReason ==
  LET whole == runtime_text = RuntimeLines(RuntimeMaterial(material))
  IN  /\ prepared = "refused" => full_text # FullLines(material)
      /\ text_loaded = "refused" => ~whole
      /\ audited = "refused" => ~(whole /\ stray_text = <<>>)

(* What gives the secret or a plaintext away, whole or in part.            *)
Discloses(line) ==
  /\ line.key[2] \in {"s_raw", "s_mod_q", "plaintext", "manual_dec"}
  /\ line.value # Nothing

(* A directory that passed the audit has no digit of the secret and of no  *)
(* plaintext in it, although the audit looks for the names of three fields *)
(* and for two whole vectors: whatever is left of a material has the names *)
(* in front of the digits, and the secret in front of the plaintexts.      *)
AuditedDisclosesNothing ==
  audited = "yes" =>
    \A lines \in RuntimeDirectory :
      ~ \E n \in DOMAIN lines : Discloses(lines[n])
=============================================================================
