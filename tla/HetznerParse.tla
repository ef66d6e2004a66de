---------------------------- MODULE HetznerParse ----------------------------
(***************************************************************************)
(* hertzner.py sls(): turn Hetzner's product listing into instance types   *)
(* by suffix rules on free-text fields.                                    *)
(*                                                                         *)
(* A text is a sequence of words joined by single spaces, so              *)
(* text.endswith(' GB RAM') holds when the last words are "GB", "RAM" and  *)
(* a word precedes them, and the text before the suffix is the words       *)
(* before it.  int() accepts that text when it is one numeral word.        *)
(* 'Quad' in cpu holds when some word contains Quad.  An instance type is  *)
(* a function from the keys the code sets to their values; a key the      *)
(* rules do not set is absent.  A run reads hz.json and either writes the  *)
(* list to /tmp/hz.json or dies with ValueError, writing nothing.          *)
(***************************************************************************)
EXTENDS Naturals, SequencesExt

CONSTANTS
    Numerals,       \* numeral words, a function from word to its value
    QuadWords,      \* words containing 'Quad'
    HexaWords,      \* words containing 'Hexa'
    VServerWords,   \* words starting with 'vServer'
    Products,       \* product records a listing may contain
    ValueError      \* the exception int() raises on a non-numeral

VARIABLES data, out, done

Failed == ValueError

\* text ends with ' ' + the words of suffix.
EndsWith(text, suffix) ==
    /\ Len(text) > Len(suffix)
    /\ SubSeq(text, Len(text) - Len(suffix) + 1, Len(text)) = suffix

\* int(text[:len(text) - len(suffix)])
IntBefore(text, suffix) ==
    LET prefix == SubSeq(text, 1, Len(text) - Len(suffix))
    IN  IF Len(prefix) = 1 /\ prefix[1] \in DOMAIN Numerals
        THEN Numerals[prefix[1]] ELSE Failed

Mentions(text, words) == \E i \in DOMAIN text : text[i] \in words

\* The cpu rule: 'N Core CPU', else 'Quad' -> 4, else 'Hexa' -> 6.
CpuField(cpu) ==
    IF EndsWith(cpu, <<"Core", "CPU">>) THEN "cpu" :> IntBefore(cpu, <<"Core", "CPU">>)
    ELSE IF Mentions(cpu, QuadWords) THEN "cpu" :> 4
    ELSE IF Mentions(cpu, HexaWords) THEN "cpu" :> 6
    ELSE <<>>

\* The ram suffixes, in the order the elif chain tries them.
RamSuffixes ==
    << <<"GB", "RAM">>, <<"GB", "DDR3", "RAM">>,
       <<"GB", "DDR4", "RAM">>, <<"GB", "DDR4", "ECC", "RAM">> >>

\* The first suffix of the chain that matches decides.
RECURSIVE FirstSuffixField(_, _, _, _)
FirstSuffixField(key, text, suffixes, i) ==
    IF i > Len(suffixes) THEN <<>>
    ELSE IF EndsWith(text, suffixes[i]) THEN key :> IntBefore(text, suffixes[i])
    ELSE FirstSuffixField(key, text, suffixes, i + 1)

RamField(ram) == FirstSuffixField("ram", ram, RamSuffixes, 1)

DiskField(disk) == FirstSuffixField("disk", disk, << <<"GB", "SSD">> >>, 1)

\* s['name'].startswith('vServer')
Category(name) ==
    IF name[1] \in VServerWords THEN "Monthly Virtual Server"
    ELSE "Monthly Dedicated Server"

InstanceType(s) ==
    [k \in {"external_sku", "description", "category"} |->
        CASE k = "external_sku" -> s.id
          [] k = "description"  -> s.name
          [] k = "category"     -> Category(s.name)]
    @@ CpuField(s.description[1])
    @@ RamField(s.description[2])
    @@ DiskField(s.description[3])

\* A ValueError from any int() ends the script before the write.
Converted(listing) ==
    LET t == [i \in DOMAIN listing |-> InstanceType(listing[i])]
    IN  IF \E i \in DOMAIN t : \E k \in DOMAIN t[i] : t[i][k] = Failed
        THEN Failed ELSE t

ParseInit ==
    /\ data \in UNION {[1..n -> Products] : n \in 0..2}
    /\ out = <<>>
    /\ done = FALSE

Sls ==
    /\ ~done
    /\ out' = Converted(data)
    /\ done' = TRUE
    /\ UNCHANGED data

parseVars == <<data, out, done>>

ParseSpec == ParseInit /\ [][Sls]_parseVars

-----------------------------------------------------------------------------
(***************************************************************************)
(* The free-text rules of spec 4.2 and 7, written from the spec alone: a  *)
(* field has a value when its text ends in the pattern "N <unit>" with N  *)
(* a number, the most specific unit tried first; a CPU text without an    *)
(* "N Core CPU" pattern that names a multiplier keyword gives 4 (Quad) or  *)
(* 6 (Hexa); a text no rule matches leaves the field absent, a            *)
(* ParseWarning and not an error.                                          *)
(***************************************************************************)
HasPattern(text, unit) == \E n \in DOMAIN Numerals : IsSuffix(<<n>> \o unit, text)

PatternValue(text, unit) ==
    Numerals[CHOOSE n \in DOMAIN Numerals : IsSuffix(<<n>> \o unit, text)]

SpecRamUnits ==
    << <<"GB", "DDR4", "ECC", "RAM">>, <<"GB", "DDR4", "RAM">>,
       <<"GB", "DDR3", "RAM">>, <<"GB", "RAM">> >>

SpecCpu(text) ==
    LET names(W) == \E i \in DOMAIN text : text[i] \in W
    IN  CASE HasPattern(text, <<"Core", "CPU">>) ->
                 "cpu" :> PatternValue(text, <<"Core", "CPU">>)
          [] names(QuadWords) -> "cpu" :> 4
          [] names(HexaWords) -> "cpu" :> 6
          [] OTHER -> <<>>

SpecRam(text) ==
    LET u == SelectInSeq(SpecRamUnits, LAMBDA unit : HasPattern(text, unit))
    IN  IF u = 0 THEN <<>> ELSE "ram" :> PatternValue(text, SpecRamUnits[u])

SpecDisk(text) ==
    IF HasPattern(text, <<"GB", "SSD">>)
    THEN "disk" :> PatternValue(text, <<"GB", "SSD">>) ELSE <<>>

SpecInstanceType(s) ==
    [external_sku |-> s.id, description |-> s.name,
     category |-> IF s.name[1] \in VServerWords THEN "Monthly Virtual Server"
                  ELSE "Monthly Dedicated Server"]
    @@ SpecCpu(s.description[1]) @@ SpecRam(s.description[2])
    @@ SpecDisk(s.description[3])

(***************************************************************************)
(* A run of hertzner.py over a listing of well-formed records writes what *)
(* the spec's rules give for each record.  The code tests only the ' Core  *)
(* CPU' suffix and hands everything before it to int(): a CPU text like    *)
(* "Intel Xeon Hexa Core CPU", for which the spec gives 6, raises          *)
(* ValueError and the whole run writes nothing.                            *)
(***************************************************************************)
FreeTextRulesPerSpec ==
    done => out = [i \in DOMAIN data |-> SpecInstanceType(data[i])]

=============================================================================
