----------------------------- MODULE DiamondInit -----------------------------
(***************************************************************************)
(* Which thermostat is this?  diamond_init finds the model from the        *)
(* command line ("nlmodel=<family>-<product>.<revision>"), else from the   *)
(* revision word the boot loader passes (system_rev), else by guessing,    *)
(* and then initializes the parts of that model.  An identifier is a       *)
(* sequence of characters; a family's name counts as one character.        *)
(***************************************************************************)
EXTENDS Integers, Sequences, SequencesExt

CONSTANTS
    Identifiers,    \* what the boot loader may pass after "nlmodel="
    SystemRevs,     \* the revision words it may pass
    LongSize        \* how many values an unsigned long, and an int, has: 2^32 there

ASSUME DiamondAssumption ==
    /\ SystemRevs \subseteq Nat
    /\ LongSize \in Nat /\ LongSize >= 512 /\ LongSize % 2 = 0
    /\ \A id \in Identifiers : id \in Seq(STRING)

VARIABLES
    at,             \* the next step of the boot
    identifier,     \* __nlmodel_identifier, NoIdentifier when it was not passed
    system_rev,     \* the revision word
    model,          \* struct nlmodel
    choice,         \* family, product and revision that diamond_init works with
    didp,           \* the initialization data found, None before
    source,         \* history: which of the three gave didp
    backplate,      \* platform data of the backplate device, None before
    display         \* the display device registered with the display subsystem

boardVars == <<at, identifier, system_rev, model, choice, didp, source, backplate, display>>

None == "none"
NoIdentifier == <<"none", "none">>
Unknown == -1                           \* NL_MODEL_UNKNOWN

-----------------------------------------------------------------------------
(***************************************************************************)
(* nlmodel_parse.                                                          *)
(***************************************************************************)
Numerals == <<"0", "1", "2", "3", "4", "5", "6", "7", "8", "9">>
IsDigit(c) == \E d \in 0..9 : Numerals[d + 1] = c
Digit(c) == CHOOSE d \in 0..9 : Numerals[d + 1] = c

\* strrchr: the last c at i or after it, 0 when there is none.
Strrchr(s, i, c) == SelectLastInSubSeq(s, i, Len(s), LAMBDA x : x = c)

\* simple_strtoull: where the digits that begin at i end, and their value in an
\* unsigned long long, of which simple_strtoul returns an unsigned long.
Endp(s, i) ==
    LET e == SelectInSubSeq(s, i, Len(s), LAMBDA x : ~IsDigit(x))
    IN  IF e = 0 THEN Len(s) + 1 ELSE e
Strtoull(s) == FoldLeft(LAMBDA v, c : (10 * v + Digit(c)) % (LongSize * LongSize), 0, s)
Strtoul(s, i) == Strtoull(SubSeq(s, i, Endp(s, i) - 1)) % LongSize

\* The int that holds what is left of a number n in 32 bits.
AsInt(n) ==
    LET w == n % LongSize
    IN  IF w < LongSize \div 2 THEN w ELSE w - LongSize

NlmodelInit == [parsed |-> FALSE, family |-> <<>>, product |-> Unknown, revision |-> Unknown]

\* Mutant of NlmodelParse: the family ends at the first dash.
ParseFirstDash(s) ==
    LET dashp == SelectInSeq(s, LAMBDA x : x = "-")
        endp == Endp(s, dashp + 1)
        dotp == Strrchr(s, dashp, ".")
        enddot == Endp(s, dotp + 1)
    IN  IF dashp = 0 \/ endp = dashp + 1 \/ (endp <= Len(s) /\ s[endp] # ".")
        THEN NlmodelInit
        ELSE [parsed   |-> TRUE,
              family   |-> SubSeq(s, 1, dashp - 1),
              product  |-> AsInt(Strtoul(s, dashp + 1)),
              revision |-> IF dotp # 0 /\ enddot > dotp + 1 /\ enddot = Len(s) + 1
                           THEN AsInt(Strtoul(s, dotp + 1))
                           ELSE Unknown]

NlmodelParse(s) ==
    LET dashp == Strrchr(s, 1, "-")
        endp == Endp(s, dashp + 1)
        dotp == Strrchr(s, dashp, ".")
        enddot == Endp(s, dotp + 1)
    IN  IF \/ dashp = 0
           \/ endp = dashp + 1
           \/ (endp <= Len(s) /\ s[endp] # ".")
        THEN NlmodelInit
        ELSE [parsed   |-> TRUE,
              family   |-> SubSeq(s, 1, dashp - 1),
              product  |-> AsInt(Strtoul(s, dashp + 1)),
              revision |-> IF dotp # 0 /\ enddot > dotp + 1 /\ enddot = Len(s) + 1
                           THEN AsInt(Strtoul(s, dotp + 1))
                           ELSE Unknown]

-----------------------------------------------------------------------------
(***************************************************************************)
(* __diamond_init_data: the data for a model, None where it is not         *)
(* supported.  The revisions 8 and 9 of the first product have entries of  *)
(* their own that name the data of revision 7.  Family and product are not *)
(* compared with each other.                                               *)
(***************************************************************************)
Diamond == <<"Diamond">>
Display == <<"Display">>

DiamondData(revision) ==
    CASE revision \in 0..3 -> "development"
      [] revision = 4 -> "1_4"
      [] revision = 5 -> "1_5"
      [] revision = 6 -> "1_6"
      [] revision >= 7 -> "1_7"
      [] OTHER -> None

DisplayData(revision) ==
    CASE revision = 0 -> "2_0"
      [] revision = 1 -> "2_1"
      [] revision = 2 -> "2_2"
      [] revision = 3 -> "2_3"
      [] revision \in 4..10 -> "2_4"
      [] revision >= 11 -> "2_11"
      [] OTHER -> None

InitData(family, product, revision) ==
    IF family \notin {Diamond, Display} THEN None
    ELSE CASE product = 1 -> DiamondData(revision)
           [] product = 2 -> DisplayData(revision)
           [] OTHER -> None

Data(c) == InitData(c.family, c.product, c.revision)

-----------------------------------------------------------------------------
BoardInit ==
    /\ at = "cmdline"
    /\ identifier = NoIdentifier
    /\ system_rev \in SystemRevs
    /\ model = NlmodelInit
    /\ choice = [family |-> <<>>, product |-> Unknown, revision |-> Unknown]
    /\ didp = None
    /\ source = None
    /\ backplate = None
    /\ display = None

\* nlmodel_setup, for an argument "nlmodel=" of the command line.
NlmodelSetup(id) ==
    /\ at = "cmdline"
    /\ identifier = NoIdentifier
    /\ identifier' = id
    /\ UNCHANGED <<at, system_rev, model, choice, didp, source, backplate, display>>

\* The first part of diamond_init: the identifier, where there is one.
Identify ==
    /\ at = "cmdline"
    /\ model' = IF identifier = NoIdentifier THEN NlmodelInit ELSE NlmodelParse(identifier)
    /\ choice' = [family |-> model'.family, product |-> model'.product,
                  revision |-> model'.revision]
    /\ didp' = IF model'.parsed THEN Data(choice') ELSE None
    /\ source' = IF didp' = None THEN None ELSE "identifier"
    /\ at' = IF didp' = None THEN "fallback" ELSE "init"
    /\ UNCHANGED <<identifier, system_rev, backplate, display>>

(***************************************************************************)
(* The fallback takes the two bytes of the revision word as they are, 0.0  *)
(* as unknown, and prefers what the identifier did give; the family is the *)
(* identifier's where it was parsed.                                       *)
(***************************************************************************)
High == (system_rev \div 256) % 256
Low == system_rev % 256
Given(value, otherwise) == IF value # Unknown THEN value ELSE otherwise

\* Mutant of Fallback: the bytes of the revision word are swapped.
FallbackSwapped ==
    /\ at = "fallback"
    /\ choice' = [family   |-> IF model.parsed THEN model.family ELSE Diamond,
                  product  |-> Given(model.product, IF High + Low = 0 THEN Unknown ELSE Low),
                  revision |-> Given(model.revision, IF High + Low = 0 THEN Unknown ELSE High)]
    /\ didp' = Data(choice')
    /\ source' = IF didp' = None THEN None ELSE "system_rev"
    /\ at' = IF didp' = None THEN "guess" ELSE "init"
    /\ UNCHANGED <<identifier, system_rev, model, backplate, display>>

Fallback ==
    /\ at = "fallback"
    /\ choice' = [family   |-> IF model.parsed THEN model.family ELSE Diamond,
                  product  |-> Given(model.product, IF High + Low = 0 THEN Unknown ELSE High),
                  revision |-> Given(model.revision, IF High + Low = 0 THEN Unknown ELSE Low)]
    /\ didp' = Data(choice')
    /\ source' = IF didp' = None THEN None ELSE "system_rev"
    /\ at' = IF didp' = None THEN "guess" ELSE "init"
    /\ UNCHANGED <<identifier, system_rev, model, backplate, display>>

\* The guess, and the BUG_ON after it.
Guess ==
    /\ at = "guess"
    /\ choice' = [family |-> Diamond, product |-> 1, revision |-> 10]
    /\ didp' = Data(choice')
    /\ source' = "guess"
    /\ at' = IF didp' = None THEN "bug" ELSE "init"
    /\ UNCHANGED <<identifier, system_rev, model, backplate, display>>

\* Mutant of BackplateInit: off by one in the revision.
BackplateInitOffByOne ==
    /\ at = "init"
    /\ IF model.parsed
       THEN /\ backplate' = IF model.family = Diamond /\ model.revision < 3 THEN "old" ELSE "new"
            /\ at' = "display"
       ELSE /\ at' = "oops"
            /\ UNCHANGED backplate
    /\ UNCHANGED <<identifier, system_rev, model, choice, didp, source, display>>

(***************************************************************************)
(* diamond_model_init begins with regulators and power and comes to        *)
(* diamond_backplate_init, which compares the family of the model that was *)
(* parsed: a NULL pointer where none was.                                  *)
(***************************************************************************)
BackplateInit ==
    /\ at = "init"
    /\ IF model.parsed
       THEN /\ backplate' = IF model.family = Diamond /\ model.revision <= 3 THEN "old" ELSE "new"
            /\ at' = "display"
       ELSE /\ at' = "oops"
            /\ UNCHANGED backplate
    /\ UNCHANGED <<identifier, system_rev, model, choice, didp, source, display>>

(***************************************************************************)
(* display_init, and the rest of diamond_model_init.  The newest board     *)
(* reads from a GPIO which panel it has; when it cannot get the GPIO it    *)
(* registers no display.  diamond_init ends with nlmodel_destroy.          *)
(***************************************************************************)
DisplaysOf(data) ==
    CASE data = "development" -> {"Development"}
      [] data = "1_4" -> {"Samsung"}
      [] data = "2_11" -> {"Tianma", "Renesas", None}
      [] OTHER -> {"Tianma"}

DisplayInit ==
    /\ at = "display"
    /\ display' \in DisplaysOf(didp)
    /\ model' = NlmodelInit
    /\ at' = "up"
    /\ UNCHANGED <<identifier, system_rev, choice, didp, source, backplate>>

BoardNext ==
    \/ \E id \in Identifiers : NlmodelSetup(id)
    \/ Identify
    \/ Fallback
    \/ Guess
    \/ BackplateInit
    \/ DisplayInit

BoardSpec == BoardInit /\ [][BoardNext]_boardVars

-----------------------------------------------------------------------------
DataNames == {"development", "1_4", "1_5", "1_6", "1_7",
              "2_0", "2_1", "2_2", "2_3", "2_4", "2_11"}

\* Every variable keeps its type; a model that was chosen has data.
BoardTypeOK ==
    /\ at \in {"cmdline", "fallback", "guess", "init", "display", "up", "oops"}
    /\ identifier \in Identifiers \cup {NoIdentifier}
    /\ system_rev \in SystemRevs
    /\ model.parsed \in BOOLEAN
    /\ model.product \in -(LongSize \div 2) .. LongSize \div 2 - 1
    /\ model.revision \in -(LongSize \div 2) .. LongSize \div 2 - 1
    /\ didp \in DataNames \cup {None}
    /\ at \in {"init", "display", "up", "oops"} <=> didp # None
    /\ source \in {"identifier", "system_rev", "guess", None}
    /\ backplate \in {"old", "new", None}
    /\ display \in {"Development", "Samsung", "Tianma", "Renesas", None}

(***************************************************************************)
(* The grammar of an identifier s, stated without the parser.  <<i, j>> is *)
(* a reading of s when s[i] is a dash, s[i+1] .. s[j] are the digits of    *)
(* the product, and the tail behind them is empty or begins with a dot and *)
(* has no dash.  The revision is the number behind a dot that ends s.      *)
(***************************************************************************)
Number(s) == s # <<>> /\ \A i \in DOMAIN s : IsDigit(s[i])
Value(s) == FoldLeft(LAMBDA v, c : 10 * v + Digit(c), 0, s)

Readings(s) ==
    {r \in (1..Len(s)) \X (1..Len(s)) :
        /\ s[r[1]] = "-"
        /\ Number(SubSeq(s, r[1] + 1, r[2]))
        /\ r[2] = Len(s) \/ s[r[2] + 1] = "."
        /\ \A k \in r[2] + 1 .. Len(s) : s[k] # "-"}

RevisionsIn(s) ==
    {Value(SubSeq(s, k + 1, Len(s))) :
        k \in {k \in 1..Len(s) : s[k] = "." /\ Number(SubSeq(s, k + 1, Len(s)))}}

\* The model a reading stands for.
ModelRead(s, r) ==
    [parsed |-> TRUE,
     family |-> SubSeq(s, 1, r[1] - 1),
     product |-> Value(SubSeq(s, r[1] + 1, r[2])),
     revision |-> IF RevisionsIn(SubSeq(s, r[2] + 1, Len(s))) = {} THEN Unknown
                  ELSE CHOOSE v \in RevisionsIn(SubSeq(s, r[2] + 1, Len(s))) : TRUE]

\* What ints can hold of a model's numbers, which may be all of them.
InInts(m) ==
    [parsed |-> m.parsed, family |-> m.family,
     product |-> AsInt(m.product), revision |-> AsInt(m.revision)]
Fits(m) == InInts(m) = m

(***************************************************************************)
(* nlmodel_parse accepts an identifier exactly when it has a reading, and  *)
(* returns what the reading says; there are never two.  Numbers are read   *)
(* into ints, however many digits they have: Diamond-4294967297.4 is taken *)
(* for Diamond-1.4, and a revision of 4294967295 for none.                 *)
(***************************************************************************)
ParseAgrees ==
    at \in {"fallback", "init"} =>
        /\ model.parsed <=> Readings(identifier) # {}
        /\ \A r \in Readings(identifier) : model = InInts(ModelRead(identifier, r))

(***************************************************************************)
(* What the comment of diamond_init promises: the identifier, if it names  *)
(* a supported model; else the BCD-decoded revision word of a Diamond;     *)
(* else the guess.                                                         *)
(***************************************************************************)
FromIdentifier ==
    {Data(ModelRead(identifier, r)) : r \in Readings(identifier)} \ {None}
Bcd(byte) == 10 * (byte \div 16) + (byte % 16)
FromSystemRev ==
    IF system_rev = 0 THEN {} ELSE {InitData(Diamond, Bcd(High), Bcd(Low))} \ {None}
Promised ==
    IF FromIdentifier # {} THEN FromIdentifier
    ELSE IF FromSystemRev # {} THEN FromSystemRev
    ELSE {InitData(Diamond, 1, 10)}

(***************************************************************************)
(* The data that is chosen is the promised one, with three exceptions.     *)
(* The bytes are not BCD-decoded, which tells for one pair of them: 0x0210 *)
(* is taken for revision 16 and not 10, whatever is above these two bytes. *)
(* An identifier that can be read but names no supported model still       *)
(* decides family, product and revision where it has them: the revision    *)
(* word only fills in what it lacks.  And a product or a revision that no  *)
(* int can hold may stand for that of another model, or for none.          *)
(***************************************************************************)
ChosenAsPromised ==
    at = "init" =>
        \/ didp \in Promised
        \/ High = 2 /\ Low = 16 /\ didp = "2_11"
        \/ source # "identifier" /\ Readings(identifier) # {} /\ FromIdentifier = {}
        \/ \E r \in Readings(identifier) : ~Fits(ModelRead(identifier, r))

(***************************************************************************)
(* The kind of backplate follows from the parsed model and the rest from   *)
(* the model chosen.  They disagree only when the identifier did not       *)
(* decide, and then always by taking a new backplate for an old one.  When *)
(* no identifier could be read, and only then, the boot ends in a NULL     *)
(* pointer: whatever the fallback and the guess found is of no use.        *)
(***************************************************************************)
BackplateAgrees ==
    /\ at = "oops" => Readings(identifier) = {}
    /\ at = "display" =>
          /\ Readings(identifier) # {}
          /\ \/ backplate = "old" <=> choice.family = Diamond /\ choice.revision <= 3
             \/ source # "identifier" /\ backplate = "old"
=============================================================================
