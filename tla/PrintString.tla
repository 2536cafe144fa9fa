------------------------------ MODULE PrintString ------------------------------
(***************************************************************************)
(* PrintString of graphics.c (140-811): a first pass over the format       *)
(* counts the arguments, a second one prints it and takes them one by one. *)
(* Numbers are printed place by place, with the widths and the casts of    *)
(* the code; of doubles, whose digits come of rounded divisions, only how  *)
(* many places are printed.  'i' is the same as 'd', and 'e' and 'E' the   *)
(* same as 'f'.  A character is a string, and its paint Framebuffer's.     *)
(***************************************************************************)
EXTENDS Integers, Sequences

CONSTANTS
  ShortBits, IntBits, LongBits,   \* the widths of short, int and long
  Inputs                          \* records of a format, arguments and doubles

Infinity == -1

(***************************************************************************)
(* A double by what its conversions ask of it: whether it is below 0, and  *)
(* how often a tenth of it is taken until it is below 1.  %f asks this of  *)
(* the float it is cast to, which may be infinite where the double is not, *)
(* or 0 where it is not; %g asks it of the double.  (Not a number is       *)
(* neither below 0 nor as much as 1.)                                      *)
(***************************************************************************)
Magnitude == [negative : BOOLEAN, tenths : Nat \cup {Infinity}]
Double == [float : Magnitude, double : Magnitude]

(* b ^ n, as the loop that makes the divisors has it: n times b. *)
Power(b, n) == LET p[k \in 0 .. n] == IF k = 0 THEN 1 ELSE p[k - 1] * b IN p[n]

ASSUME PrintAssumption ==
  /\ ShortBits \in Nat \ {0}
  /\ IntBits \in Nat /\ IntBits > ShortBits
  /\ LongBits \in Nat /\ LongBits > IntBits + 1
  /\ \A input \in Inputs :
       /\ input.fmt \in Seq(STRING)
       /\ input.args \in Seq(0 .. Power(2, LongBits) - 1)
       /\ input.doubles \in Seq(Double)
       /\ Len(input.args) >= Len(input.fmt) \div 2
       /\ Len(input.doubles) >= Len(input.fmt) \div 2

VARIABLES
  input,            \* the call
  pc,
  str_scanner, num_args,            \* the first pass
  str, taken, takenDoubles,         \* the second: arguments taken so far
  conv, value, value_cpy, places,   \* the number being printed
  tenths,           \* the copy of a double: how often it can still be divided
  out,              \* the characters printed
  field,            \* history: the number just printed and where it begins
  skipped           \* history: conversions met that are Unserved

pass1 == <<str_scanner, num_args>>
number == <<conv, value, value_cpy, places, tenths>>
printVars == <<input, pc, pass1, str, taken, takenDoubles, number, out, field, skipped>>

(* The string and the zero at its end. *)
NUL == Len(input.fmt) + 1
At(k) == IF k = NUL THEN "NUL" ELSE input.fmt[k]

(* The casts. *)
Unsigned(n, bits) == n % Power(2, bits)
Signed(n, bits) ==
  IF Unsigned(n, bits) >= Power(2, bits - 1) THEN Unsigned(n, bits) - Power(2, bits)
                                             ELSE Unsigned(n, bits)
AsLong(n) == Unsigned(n, LongBits)

(***************************************************************************)
(* The conversions: the width cast to, whether the sign is looked at,      *)
(* whether places and digits are computed from the signed value, the base, *)
(* and the letters used.                                                   *)
(***************************************************************************)
Lower == <<"0", "1", "2", "3", "4", "5", "6", "7", "8", "9", "a", "b", "c", "d", "e", "f">>
Upper == <<"0", "1", "2", "3", "4", "5", "6", "7", "8", "9", "A", "B", "C", "D", "E", "F">>

Conversion(bits, signed, signedDigits, base, letters) ==
  [bits |-> bits, signed |-> signed, signedDigits |-> signedDigits,
   base |-> base, letters |-> letters]

DecimalOf(bits) == Conversion(bits, TRUE, TRUE, 10, Lower)
UnsignedOf(bits, base, letters) == Conversion(bits, FALSE, FALSE, base, letters)

LongConversions ==
  [d |-> DecimalOf(LongBits), o |-> UnsignedOf(LongBits, 8, Lower),
   u |-> UnsignedOf(LongBits, 10, Lower), x |-> UnsignedOf(LongBits, 16, Lower),
   X |-> UnsignedOf(LongBits, 16, Upper)]

ShortConversions ==
  [d |-> DecimalOf(ShortBits), o |-> UnsignedOf(ShortBits, 8, Lower),
   s |-> UnsignedOf(ShortBits, 10, Lower), u |-> UnsignedOf(ShortBits, 10, Lower),
   x |-> UnsignedOf(ShortBits, 16, Lower), X |-> UnsignedOf(ShortBits, 16, Upper)]

(* The digits of an int in octal are taken from the signed value. *)
IntConversions ==
  [d |-> DecimalOf(IntBits), o |-> Conversion(IntBits, FALSE, TRUE, 8, Lower),
   u |-> UnsignedOf(IntBits, 10, Lower), x |-> UnsignedOf(IntBits, 16, Lower),
   X |-> UnsignedOf(IntBits, 16, Upper)]

NoField == [kind |-> "none", conv |-> DecimalOf(IntBits), arg |-> 0, from |-> 0]

PrintInit ==
  /\ input \in Inputs
  /\ pc = "count"
  /\ str_scanner = 1 /\ num_args = 0
  /\ str = 1 /\ taken = 0 /\ takenDoubles = 0
  /\ conv = DecimalOf(IntBits) /\ value = 0 /\ value_cpy = 0 /\ places = 0 /\ tenths = 0
  /\ out = <<>>
  /\ field = NoField
  /\ skipped = 0

------------------------------------------------------------------------------
(* The first pass. *)

(* Slip: an unsigned number is not counted. *)
CountedWithoutU == {"h", "l", "c", "d", "f", "g", "G", "o", "s", "x", "X", "p", "n"}

Counted == {"h", "l", "c", "d", "f", "g", "G", "o", "s", "u", "x", "X", "p", "n"}

(* One turn of the loop; a length modifier skips the character after it. *)
CountTurn ==
  /\ pc = "count" /\ At(str_scanner) # "NUL"
  /\ IF At(str_scanner) = "%"
       THEN LET c == At(str_scanner + 1) IN
            /\ num_args' = (num_args + (IF c \in Counted THEN 1 ELSE 0)) % 256
            /\ str_scanner' = str_scanner + (IF c \in {"h", "l"} THEN 3 ELSE 2)
       ELSE str_scanner' = str_scanner + 1 /\ UNCHANGED num_args
  /\ pc' = IF str_scanner' > NUL THEN "overrun" ELSE "count"
  /\ UNCHANGED <<input, str, taken, takenDoubles, number, out, field, skipped>>

CountEnds ==
  /\ pc = "count" /\ At(str_scanner) = "NUL"
  /\ pc' = "print"
  /\ UNCHANGED <<input, pass1, str, taken, takenDoubles, number, out, field, skipped>>

------------------------------------------------------------------------------
(* The second pass. *)

Printing == pc = "print" /\ At(str) # "NUL"

Goes(next) ==
  /\ str' = next
  /\ pc' = IF next > NUL THEN "overrun" ELSE "print"

Literal ==
  /\ Printing /\ At(str) # "%"
  /\ out' = Append(out, At(str))
  /\ Goes(str + 1)
  /\ field' = NoField
  /\ UNCHANGED <<input, pass1, taken, takenDoubles, number, skipped>>

(* What follows a percent sign, and, after 'h' or 'l', what follows that. *)
Percent == Printing /\ At(str) = "%"
Letter == At(str + 1)
HasLength == Letter \in {"h", "l"}
SecondLetter == IF str + 2 > NUL THEN "NUL" ELSE At(str + 2)

Conversions == IF Letter = "h" THEN ShortConversions
               ELSE IF Letter = "l" THEN LongConversions ELSE IntConversions
NumberLetter == IF HasLength THEN SecondLetter ELSE Letter
IsNumber == NumberLetter \in DOMAIN Conversions
AfterPercent == str + (IF HasLength THEN 3 ELSE 2)

(***************************************************************************)
(* The conversions that the second pass prints nothing for and takes no    *)
(* argument for: %s, %p, %n, %G, and those with a length but no number.    *)
(***************************************************************************)
Unserved == Letter \in {"s", "p", "n", "G"} \/ (HasLength /\ ~IsNumber)

PrintPercent ==
  /\ Percent /\ Letter = "%"
  /\ out' = Append(out, "%")
  /\ Goes(AfterPercent)
  /\ field' = NoField
  /\ UNCHANGED <<input, pass1, taken, takenDoubles, number, skipped>>

PrintArgumentCharacter ==
  /\ Percent /\ Letter = "c"
  /\ taken' = taken + 1
  /\ out' = Append(out, "chr")
  /\ Goes(AfterPercent)
  /\ field' = NoField
  /\ UNCHANGED <<input, pass1, takenDoubles, number, skipped>>

(* Letters without a case, and those whose case only breaks. *)
Ignore ==
  /\ Percent /\ ~IsNumber /\ Letter \notin {"%", "c", "f", "g"}
  /\ skipped' = skipped + (IF Unserved THEN 1 ELSE 0)
  /\ Goes(AfterPercent)
  /\ field' = NoField
  /\ UNCHANGED <<input, pass1, taken, takenDoubles, number, out>>

(* The argument is taken and cast, a signed one to be looked at first. *)
TakeNumber ==
  /\ Percent /\ IsNumber
  /\ LET c == Conversions[NumberLetter]
         arg == input.args[taken + 1]
         cast == AsLong(IF c.signed THEN Signed(arg, c.bits) ELSE Unsigned(arg, c.bits)) IN
     /\ conv' = c
     /\ value' = cast /\ value_cpy' = cast
     /\ field' = [kind |-> "integer", conv |-> c, arg |-> arg, from |-> Len(out) + 1]
     /\ pc' = IF c.signed THEN "sign" ELSE "places"
  /\ taken' = taken + 1
  /\ places' = 0
  /\ str' = AfterPercent
  /\ UNCHANGED <<input, pass1, takenDoubles, tenths, out, skipped>>

TakeDouble ==
  /\ Percent /\ Letter \in {"f", "g"}
  /\ LET asked == IF Letter = "f" THEN input.doubles[takenDoubles + 1].float
                                 ELSE input.doubles[takenDoubles + 1].double IN
     /\ out' = IF asked.negative THEN Append(out, "-") ELSE out
     /\ tenths' = asked.tenths
     /\ field' = [kind |-> "double", conv |-> conv, arg |-> asked, from |-> Len(out) + 1]
  /\ takenDoubles' = takenDoubles + 1
  /\ places' = 0
  /\ pc' = "tenths"
  /\ str' = AfterPercent
  /\ UNCHANGED <<input, pass1, taken, conv, value, value_cpy, skipped>>

(***************************************************************************)
(* A negative number is negated.  The test for the lowest one asks for 0,  *)
(* which it is not: there are no digits to it, because it is still below 0.*)
(***************************************************************************)
PrintSign ==
  /\ pc = "sign"
  /\ IF Signed(value, conv.bits) < 0
       THEN /\ value' = AsLong(-Signed(value, conv.bits))
            /\ IF Signed(value', conv.bits) = 0
                 THEN out' = out \o <<"-", "lowest">> /\ pc' = "print"
                 ELSE out' = Append(out, "-") /\ pc' = "places"
       ELSE pc' = "places" /\ UNCHANGED <<value, out>>
  /\ value_cpy' = value'
  /\ UNCHANGED <<input, pass1, str, taken, takenDoubles, conv, places, tenths, field, skipped>>

(* What the loop over the places looks at. *)
Rest == IF conv.signed THEN Signed(value_cpy, conv.bits) ELSE Unsigned(value_cpy, conv.bits)

(* Slip: it is the number that is divided, not its copy. *)
CountPlaceOfValue ==
  /\ pc = "places" /\ Rest # 0 /\ ~(conv.signed /\ Rest < 0)
  /\ value_cpy' = value \div conv.base
  /\ places' = (places + 1) % 256
  /\ UNCHANGED <<input, pc, pass1, str, taken, takenDoubles, conv, value, tenths, out, field, skipped>>

CountPlace ==
  /\ pc = "places" /\ Rest # 0 /\ ~(conv.signed /\ Rest < 0)
  /\ value_cpy' = Rest \div conv.base
  /\ places' = (places + 1) % 256
  /\ UNCHANGED <<input, pc, pass1, str, taken, takenDoubles, conv, value, tenths, out, field, skipped>>

PlacesCounted ==
  /\ pc = "places" /\ (Rest = 0 \/ (conv.signed /\ Rest < 0))
  /\ IF places = 0
       THEN out' = Append(out, "0") /\ pc' = "print"
       ELSE pc' = "digits" /\ UNCHANGED out
  /\ UNCHANGED <<input, pass1, str, taken, takenDoubles, number, field, skipped>>

divisor == AsLong(Power(conv.base, places - 1))

(* Slip: the places start at the divisor of the one before. *)
PrintDigitFromNext ==
  /\ pc = "digits"
  /\ LET digits == IF conv.signedDigits THEN AsLong(Signed(value, conv.bits)) ELSE value
         p == (digits \div AsLong(Power(conv.base, places))) % conv.base IN
     out' = Append(out, conv.letters[p + 1])
  /\ places' = places - 1
  /\ pc' = IF places' = 0 THEN "print" ELSE "digits"
  /\ UNCHANGED <<input, pass1, str, taken, takenDoubles, conv, value, value_cpy, tenths, field, skipped>>

PrintDigit ==
  /\ pc = "digits"
  /\ LET digits == IF conv.signedDigits THEN AsLong(Signed(value, conv.bits)) ELSE value
         p == (digits \div divisor) % conv.base IN
     out' = Append(out, conv.letters[p + 1])
  /\ places' = places - 1
  /\ pc' = IF places' = 0 THEN "print" ELSE "digits"
  /\ UNCHANGED <<input, pass1, str, taken, takenDoubles, conv, value, value_cpy, tenths, field, skipped>>

------------------------------------------------------------------------------
(* Doubles.  Which digits are printed is not looked at. *)

integer == <<conv, value, value_cpy>>

(* A tenth of infinity is infinite, and not below 1. *)
CountTenth ==
  /\ pc = "tenths" /\ tenths # 0
  /\ tenths' = IF tenths = Infinity THEN Infinity ELSE tenths - 1
  /\ places' = (places + 1) % 256
  /\ UNCHANGED <<input, pc, pass1, str, taken, takenDoubles, integer, out, field, skipped>>

TenthsCounted ==
  /\ pc = "tenths" /\ tenths = 0
  /\ IF places = 0
       THEN out' = Append(out, "0") /\ pc' = "fraction"
       ELSE pc' = "whole" /\ UNCHANGED out
  /\ UNCHANGED <<input, pass1, str, taken, takenDoubles, number, field, skipped>>

(* Slip: the last place is left to the fraction. *)
PrintWholeDigitButLast ==
  /\ pc = "whole"
  /\ out' = IF places = 1 THEN out ELSE Append(out, "digit")
  /\ places' = places - 1
  /\ pc' = IF places' = 0 THEN "fraction" ELSE "whole"
  /\ UNCHANGED <<input, pass1, str, taken, takenDoubles, integer, tenths, field, skipped>>

PrintWholeDigit ==
  /\ pc = "whole"
  /\ out' = Append(out, "digit")
  /\ places' = places - 1
  /\ pc' = IF places' = 0 THEN "fraction" ELSE "whole"
  /\ UNCHANGED <<input, pass1, str, taken, takenDoubles, integer, tenths, field, skipped>>

PrintFraction ==
  /\ pc = "fraction"
  /\ out' = out \o <<".", "digit", "digit", "digit", "digit">>
  /\ places' = 4
  /\ pc' = "print"
  /\ UNCHANGED <<input, pass1, str, taken, takenDoubles, integer, tenths, field, skipped>>

Done ==
  /\ pc = "print" /\ At(str) = "NUL"
  /\ pc' = "done"
  /\ UNCHANGED <<input, pass1, str, taken, takenDoubles, number, out, field, skipped>>

Finished == pc \in {"done", "overrun"} /\ UNCHANGED printVars

Step ==
  \/ CountTurn \/ CountEnds
  \/ Literal \/ PrintPercent \/ PrintArgumentCharacter \/ Ignore
  \/ TakeNumber \/ PrintSign \/ CountPlace \/ PlacesCounted \/ PrintDigit
  \/ TakeDouble \/ CountTenth \/ TenthsCounted \/ PrintWholeDigit \/ PrintFraction
  \/ Done

PrintNext == Step \/ Finished

PrintSpec == PrintInit /\ [][PrintNext]_printVars

(* Nothing PrintString calls blocks. *)
FairSpec == PrintSpec /\ WF_printVars(Step)

------------------------------------------------------------------------------
(* What a conversion means: the number the argument stands for. *)
Meaning ==
  IF field.conv.signed THEN Signed(field.arg, field.conv.bits)
                       ELSE Unsigned(field.arg, field.conv.bits)

(* What is printed: a sign or none, and digits. *)
Minus == out[field.from] = "-"
Digits == SubSeq(out, IF Minus THEN field.from + 1 ELSE field.from, Len(out))
IsDigit(c) == \E d \in 1 .. field.conv.base : field.conv.letters[d] = c

(* A numeral read from the left, the other way round from how it is made. *)
ValueOf(digits) ==
  LET v[k \in 0 .. Len(digits)] ==
        IF k = 0 THEN 0
        ELSE v[k - 1] * field.conv.base
             + (CHOOSE d \in 1 .. field.conv.base : field.conv.letters[d] = digits[k]) - 1
  IN v[Len(digits)]

Abs(n) == IF n < 0 THEN -n ELSE n

IsNumeralOf(n) ==
  /\ Digits # <<>> /\ \A k \in 1 .. Len(Digits) : IsDigit(Digits[k])
  /\ Len(Digits) > 1 => Digits[1] # "0"
  /\ ValueOf(Digits) = Abs(n)
  /\ Minus <=> (n < 0)

(* The lowest number of each width, and ints that fill their width in octal. *)
Misprinted ==
  \/ field.conv.signed /\ Meaning = -Power(2, field.conv.bits - 1)
  \/ /\ ~field.conv.signed /\ field.conv.signedDigits
     /\ Meaning >= Power(2, field.conv.bits - 1)

PrintTypeOK ==
  /\ input \in Inputs
  /\ pc \in {"count", "print", "sign", "places", "digits", "tenths", "whole", "fraction",
             "done", "overrun"}
  /\ pc # "overrun" => str_scanner \in 1 .. NUL /\ str \in 1 .. NUL
  /\ num_args \in 0 .. 255
  /\ taken \in 0 .. Len(input.args) /\ takenDoubles \in 0 .. Len(input.doubles)
  /\ value \in 0 .. Power(2, LongBits) - 1 /\ value_cpy \in 0 .. Power(2, LongBits) - 1
  /\ tenths \in Nat \cup {Infinity}
  /\ places \in 0 .. 255
  /\ pc \in {"digits", "whole"} => places > 0
  /\ skipped \in Nat

(***************************************************************************)
(* Every whole number (%d, %o, %u, %x, %X, of each length) is shown by its *)
(* own numeral, without leading zeros, whatever was printed before, except *)
(* for exactly the ones listed: the lowest of each signed width ("-0"),    *)
(* and %o of an int with its highest bit set.                              *)
(***************************************************************************)
NumbersFaithful ==
  (pc = "print" /\ field.kind = "integer") => (IsNumeralOf(Meaning) <=> ~Misprinted)

(***************************************************************************)
(* A double is shown with its sign and all the places before its point     *)
(* unless there are more of them than the byte they are counted in holds   *)
(* (a %g of 1e255 or more): then some or all of the places are missing.    *)
(***************************************************************************)
DoublesWhole ==
  (pc = "print" /\ field.kind = "double") =>
    LET shown == Len(out) - (field.from - 1) - (IF field.arg.negative THEN 1 ELSE 0) - 5
        due == IF field.arg.tenths = 0 THEN 1 ELSE field.arg.tenths
    IN /\ field.arg.negative <=> out[field.from] = "-"
       /\ shown = due <=> due < 256

(***************************************************************************)
(* The two passes over the format, with a switch each, agree on every      *)
(* conversion but the ones that are Unserved: these the first pass counts, *)
(* and the second takes nothing for them, after which the arguments are    *)
(* out of step with the format.  (The count itself is used by nobody: it   *)
(* tells what the first switch takes for a conversion.)                    *)
(***************************************************************************)
ArgumentsInStep == pc = "done" => num_args = taken + takenDoubles + skipped

(***************************************************************************)
(* Printing comes to an end, except when a double is printed that is       *)
(* infinite, or whose float is: its places are counted for ever.  And it   *)
(* stays in its string unless that ends in the middle of a conversion.     *)
(***************************************************************************)
PrintEnds ==
  <>(\/ pc = "done"
     \/ pc = "overrun" /\ At(NUL - 1) \in {"%", "h", "l"}
     \/ pc = "tenths" /\ tenths = Infinity)

==============================================================================
