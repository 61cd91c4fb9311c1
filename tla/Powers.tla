--------------------------------- MODULE Powers ---------------------------------
(***************************************************************************)
(* Powers, rounding to powers of two (utils/power.hpp) and sizes with a    *)
(* unit (utils/human_readable.hpp), with words that wrap around.           *)
(***************************************************************************)
EXTENDS Integers, Sequences, Bitwise

CONSTANTS WordBits,     \* of a word
          UnitExponent  \* a unit is 2 ^ UnitExponent times the one before

ASSUME PowersAssumption == WordBits \in Nat \ {0} /\ UnitExponent \in Nat \ {0}

VARIABLES
    argument,   \* a word
    second,     \* a power of two, or the text of a size: what there is of a
                \* number in it, which is the argument if it is a word, and of a unit
    answer      \* what each function has returned for them

powersVars == <<argument, second, answer>>

WordSize  == 2 ^ WordBits
Word(x)   == x % WordSize
Complement(x) == WordSize - 1 - x

RECURSIVE power(_, _)
power(base, exp) ==
    IF exp = 0 THEN 1
    ELSE IF exp = 1 THEN Word(base)
    ELSE LET tmp == power(base, exp \div 2)
         IN  IF exp % 2 = 0 THEN Word(tmp * tmp) ELSE Word(base * tmp * tmp)

\* Every bit below the highest one is set, in as many doubling shifts as the
\* word has bits.
RECURSIVE Smeared(_, _)
Smeared(x, shift) == IF shift >= WordBits THEN x ELSE Smeared(x | (x \div 2 ^ shift), 2 * shift)

next_pow2_Above(x) == Word(Smeared(x, 1) + 1)
next_pow2(x)       == Word(Smeared(Word(x - 1), 1) + 1)

is_pow2(x) == (x & Word(x - 1)) = 0

round_down_pow2(x, alignment) == x & Complement(alignment - 1)
round_up_pow2(x, alignment)   == Word(x + alignment - 1) & Complement(alignment - 1)

\* The suffixes of from_human: what to multiply by and to divide by.
UnitsUp   == <<"K", "M", "G", "T", "P", "E">>
UnitsDown == <<"m", "u", "n", "p", "f", "a", "z", "y">>
UnitSuffixes  == {UnitsUp[i] : i \in 1 .. Len(UnitsUp)} \cup {UnitsDown[i] : i \in 1 .. Len(UnitsDown)}
Unit(suffix)  == IF suffix = "k" THEN "K" ELSE suffix
PowerOfUnit(units, u) == power(2 ^ UnitExponent, CHOOSE i \in 1 .. Len(units) : units[i] = u)
Factor(u)  == IF u \in {UnitsUp[i] : i \in 1 .. Len(UnitsUp)} THEN PowerOfUnit(UnitsUp, u) ELSE 1
Divisor(u) == IF u \in {UnitsDown[i] : i \in 1 .. Len(UnitsDown)} THEN PowerOfUnit(UnitsDown, u) ELSE 1

\* Sizes as text: the number may be none, or beyond all words, and after it may
\* come nothing or something else than a unit.
SizeSuffixes == UnitSuffixes \cup {"k", "nothing", "other"}
SizeTexts    == [number : {"word", "none", "beyond"}, suffix : SizeSuffixes]

\* What from_chars leaves in the value: a number beyond all words leaves it
\* uninitialised.
ValueOf(text) == IF text.number = "beyond" THEN 0 .. WordSize - 1 ELSE {argument}

\* A number with a suffix; a divisor that has wrapped around to zero traps.
Trap   == -1
Throws == -2
from_human(text, value) ==
    LET u == Unit(text.suffix)
    IN  IF text.number = "none" \/ text.suffix = "other" THEN Throws
        ELSE IF text.suffix = "nothing" THEN value
        ELSE IF Divisor(u) = 0 THEN Trap ELSE Word(value * Factor(u)) \div Divisor(u)

-----------------------------------------------------------------------------

PowersInit ==
    /\ argument \in 0 .. WordSize - 1
    /\ second \in {[alignment |-> 2 ^ i] : i \in 0 .. WordBits - 1} \cup SizeTexts
    /\ "number" \in DOMAIN second /\ second.number # "word" => argument = 0
    /\ answer = <<>>

PowersIdle == argument = 0 /\ second = [alignment |-> 1] /\ answer = <<>>

\* The alignment must be a power of two, by an assertion.
RoundPow2 ==
    /\ answer = <<>> /\ "alignment" \in DOMAIN second /\ is_pow2(second.alignment)
    /\ answer' = [down |-> round_down_pow2(argument, second.alignment),
                  up   |-> round_up_pow2(argument, second.alignment),
                  next |-> next_pow2(argument)]
    /\ UNCHANGED <<argument, second>>

FromHuman ==
    /\ answer = <<>> /\ "number" \in DOMAIN second
    /\ \E value \in ValueOf(second) : answer' = [size |-> from_human(second, value)]
    /\ UNCHANGED <<argument, second>>

PowersNext == RoundPow2 \/ FromHuman

-----------------------------------------------------------------------------
(* Properties. *)

\* For every word and alignment the bit tricks give the multiple and the power
\* of two that are next to it, or its remainder where that is no word; and a
\* text without a number or with an unknown unit is refused, while one with a
\* word for a number is the size meant, where that is a word, except that the
\* two smallest units trap, whose powers are no words.  Of a number beyond all
\* words any size is read (power.hpp:25-58, human_readable.hpp:70-103).
PowersExact ==
    LET multiples(a) == {m \in 0 .. WordSize : m % a = 0}
        powers == {2 ^ i : i \in 0 .. WordBits}
        is(units) == \E i \in 1 .. Len(units) : units[i] = Unit(second.suffix)
        scale(units) == 2 ^ (UnitExponent * CHOOSE i \in 1 .. Len(units) : units[i] = Unit(second.suffix))
    IN  /\ answer # <<>> /\ "down" \in DOMAIN answer =>
              /\ \E m \in multiples(second.alignment) :
                    answer.down = m /\ m <= argument /\ argument < m + second.alignment
              /\ \E m \in multiples(second.alignment) :
                    answer.up = Word(m) /\ argument <= m /\ m < argument + second.alignment
              /\ argument > 0 => \E p \in powers :
                    answer.next = Word(p) /\ argument <= p /\ p < 2 * argument
              /\ argument = 0 => answer.next = 0
        /\ answer # <<>> /\ "size" \in DOMAIN answer =>
              /\ answer.size = Throws <=> second.number = "none" \/ second.suffix = "other"
              /\ answer.size = Trap <=> second.number # "none" /\ second.suffix \in {"z", "y"}
              /\ second.number = "word" /\ answer.size >= 0 =>
                    /\ second.suffix = "nothing" => answer.size = argument
                    /\ is(UnitsUp) /\ argument * scale(UnitsUp) < WordSize =>
                          answer.size = argument * scale(UnitsUp)
                    /\ is(UnitsDown) => answer.size = argument \div scale(UnitsDown)

=============================================================================
