-------------------------------- MODULE Printf --------------------------------
(***************************************************************************)
(* The two formatted printers of src/kernel/libs/stdio.c: kprintf, which   *)
(* prints on the console, and vsprintf, which writes into the caller's     *)
(* buffer.  Both walk a format one character at a time with a state        *)
(* machine of their own; here both walk the same format, which the caller  *)
(* makes up as it goes, next to what C says such a format prints.          *)
(*                                                                         *)
(* A printer prints nothing between the % and the last character of a      *)
(* conversion, so the texts of one step are compared, not whole outputs.   *)
(* The widths of int and long long are the constants INT and LONG.         *)
(***************************************************************************)
EXTENDS Integers, FiniteSets, SequencesExt

CONSTANTS
    CHAR, SHORT, INT, LONG,   \* 2^8, 2^16, 2^32, 2^64: the values of the types
    Alphabet,         \* the characters of formats
    Words,            \* 64-bit arguments, as they lie in a va_list
    Texts,            \* what a char or string argument stands for
    Doubles,          \* floating-point arguments, in units of 1/UNITS
    UNITS,
    PRECISION,        \* 6: the decimals that vsprintf prints
    MaxDigits,        \* bound: the digits of a width
    MaxUnread         \* bound: the arguments that a printer leaves unread

ASSUME WidthAssumption ==
    /\ {CHAR, SHORT, INT, LONG} \subseteq Nat \ {0}
    /\ CHAR % 2 = 0 /\ SHORT % CHAR = 0 /\ INT % SHORT = 0 /\ LONG % INT = 0
ASSUME ArgumentAssumption ==
    /\ Words \subseteq 0 .. LONG - 1 /\ Texts # {} /\ Doubles \subseteq Int
    /\ UNITS \in Nat \ {0} /\ PRECISION \in Nat \ {0}
ASSUME BoundAssumption == MaxDigits \in Nat /\ MaxUnread \in Nat

VARIABLES
    k, kargs,     \* kprintf: its locals, and the arguments it has not read
    v, vargs,     \* vsprintf: likewise
    kout, vout,   \* what each printed in the last step
    conversion,   \* the conversion being spelled, from its %
    last,         \* what the last step completed, and its argument
    handled       \* vsprintf has a case for all of the format so far

vars == <<k, kargs, v, vargs, kout, vout, conversion, last, handled>>

SPACE    == " "
Decimals == <<"0", "1", "2", "3", "4", "5", "6", "7", "8", "9">>
Lower    == Decimals \o <<"a", "b", "c", "d", "e", "f">>
Upper    == Decimals \o <<"A", "B", "C", "D", "E", "F">>
hexChars(uppercase) == IF uppercase THEN Upper ELSE Lower
IsDigit(ch) == Contains(Decimals, ch)
digit(ch)   == (CHOOSE i \in 1 .. 10 : Decimals[i] = ch) - 1
times(ch, n) == [i \in 1 .. n |-> ch]   \* none when n is negative

Signed(word, size) == LET n == word % size
                      IN  IF 2 * n >= size THEN n - size ELSE n

---------------------------------------------------------------------------
(* The digits of a number, first the lowest, as the loops of the printers  *)
(* store them, and what is printed: the padding, then the digits turned.   *)
buffer(number, radix, uppercase) ==
    LET low[n \in 0 .. number] == <<hexChars(uppercase)[(n % radix) + 1]>> \o
                          (IF n < radix THEN <<>> ELSE low[n \div radix])
    IN  low[number]

printf_unsigned(number, radix, width, padding, uppercase) ==
    LET digits == buffer(number, radix, uppercase)
    IN  times(padding, width - Len(digits)) \o Reverse(digits)

(* Spaces go before the sign, zeros after it.                              *)
printf_signed(number, radix, width, padding, uppercase) ==
    CASE number >= 0 -> printf_unsigned(number, radix, width, padding, uppercase)
      [] number < 0 /\ padding = "0" ->
           <<"-">> \o printf_unsigned(-number, radix, width - 1, padding, uppercase)
      [] OTHER ->
           LET digits == buffer(-number, radix, uppercase)
           IN  times(padding, width - (Len(digits) + 1)) \o <<"-">> \o Reverse(digits)

sprintf_unsigned(number, radix, width, padding, uppercase) ==
    LET digits == buffer(number, radix, uppercase)
    IN  times(padding, width - Len(digits)) \o Reverse(digits)

sprintf_signed(number, radix, width, padding, uppercase) ==
    IF number < 0
    THEN <<"-">> \o sprintf_unsigned(-number, radix, width - 1, padding, uppercase)
    ELSE sprintf_unsigned(number, radix, width, padding, uppercase)

(* A recursive function for b ^ n, which the provers know nothing of.      *)
Power(b, n) == LET p[i \in 0 .. n] == IF i = 0 THEN 1 ELSE b * p[i - 1]
               IN  p[n]

(* The decimals are cut off, not rounded.                                  *)
sprintf_float(number, precision) ==
    LET size     == IF number < 0 THEN -number ELSE number
        diff     == size % UNITS
        decimals == [i \in 1 .. precision |->
                       Decimals[(((diff * Power(10, i)) \div UNITS) % 10) + 1]]
    IN  (IF number < 0 THEN <<"-">> ELSE <<>>)
        \o sprintf_signed(size \div UNITS, 10, 0, SPACE, FALSE)
        \o (IF precision > 0 THEN <<".">> \o decimals ELSE <<>>)

---------------------------------------------------------------------------
(* The locals of both printers at the start of a format.                   *)
fresh == [state |-> "NORMAL", length |-> "DEFAULT", radix |-> 10, sign |-> FALSE,
          number |-> FALSE, uppercase |-> FALSE, width |-> 0, padding |-> SPACE]

(* va_arg: the next argument and the rest.  Reading too many finds         *)
(* whatever follows.                                                       *)
Slots == [word : Words, text : Texts]
va_arg(args) == IF args = <<>> THEN CHOOSE slot \in Slots : TRUE ELSE Head(args)
after(args, n) == SubSeq(args, n + 1, Len(args))

(* A % in NORMAL.                                                          *)
percent(p) == [p EXCEPT !.state = "FLAGS", !.width = 0, !.padding = SPACE,
                        !.uppercase = FALSE]

(* A character in the states that lead to a conversion; "CONVERT" stands   *)
(* for the jump into SPEC with it.  A character that a state does not take *)
(* is given to the next state at once.                                     *)
flags_or_width(p, ch) ==
    IF p.state = "FLAGS" /\ ch = "0"
    THEN [p EXCEPT !.padding = "0", !.state = "WIDTH"]
    ELSE [p EXCEPT !.width = p.width * 10 + digit(ch), !.state = "WIDTH"]

(* vsprintf has no case for LENGTH_SHORT and LENGTH_LONG: it stays there.  *)
vsprintf_prefix(p, ch) ==
    IF p.state \in {"LENGTH_SHORT", "LENGTH_LONG"} THEN p
    ELSE CASE IsDigit(ch) -> flags_or_width(p, ch)
           [] ch = "h" -> [p EXCEPT !.state = "LENGTH_SHORT"]
           [] ch = "l" -> [p EXCEPT !.state = "LENGTH_LONG"]
           [] OTHER -> [p EXCEPT !.state = "CONVERT"]

kprintf_prefix(p, ch) ==
    CASE p.state \in {"FLAGS", "WIDTH"} /\ IsDigit(ch) -> flags_or_width(p, ch)
      [] p.state \in {"FLAGS", "WIDTH"} /\ ch = "h" ->
           [p EXCEPT !.length = "SHORT", !.state = "LENGTH_SHORT"]
      [] p.state \in {"FLAGS", "WIDTH"} /\ ch = "l" ->
           [p EXCEPT !.length = "LONG", !.state = "LENGTH_LONG"]
      [] p.state = "LENGTH_SHORT" /\ ch = "h" ->
           [p EXCEPT !.length = "SHORT_SHORT", !.state = "SPEC"]
      [] p.state = "LENGTH_LONG" /\ ch = "l" ->
           [p EXCEPT !.length = "LONG_LONG", !.state = "SPEC"]
      [] OTHER -> [p EXCEPT !.state = "CONVERT"]

(* The numeric conversions, and those that vsprintf knows.                 *)
numeric(p, radix, sign, uppercase) ==
    [p EXCEPT !.radix = radix, !.sign = sign, !.number = TRUE,
              !.uppercase = uppercase]

kprintf_numeric(p, ch) ==
    CASE ch \in {"d", "i"} -> numeric(p, 10, TRUE, p.uppercase)
      [] ch = "u" -> numeric(p, 10, FALSE, p.uppercase)
      [] ch = "X" -> numeric(p, 16, FALSE, TRUE)
      [] ch \in {"x", "p"} -> numeric(p, 16, FALSE, p.uppercase)
      [] ch = "o" -> numeric(p, 8, FALSE, p.uppercase)
      [] OTHER -> p

vsprintf_numeric(p, ch) ==
    IF ch \in {"o", "p"} THEN p ELSE kprintf_numeric(p, ch)

(* kprintf reads 32 bits and extends their sign, also for unsigned         *)
(* conversions, unless the length is ll.                                   *)
kprintf_value(p, word) ==
    LET read == IF p.length = "LONG_LONG" THEN Signed(word, LONG) ELSE Signed(word, INT)
    IN  IF p.sign THEN read ELSE read % LONG

(* What a step gives: the locals, what is printed, the arguments left.     *)
Gives(p, text, args) == [p |-> p, text |-> text, args |-> args]

(* The reset after a conversion.  A mutant resets the state only.          *)
reset_state(p) == [p EXCEPT !.state = "NORMAL"]

reset(p) == fresh

kprintf_spec(p, ch, args) ==
    LET q     == kprintf_numeric(p, ch)
        taken == IF ch \in {"c", "s"} THEN 1 ELSE 0
        plain == IF taken = 1 THEN va_arg(args).text
                 ELSE IF ch = "%" THEN <<"%">> ELSE <<>>
        rest  == after(args, taken)
        print(n) == IF q.sign
                    THEN printf_signed(n, q.radix, q.width, q.padding, q.uppercase)
                    ELSE printf_unsigned(n, q.radix, q.width, q.padding, q.uppercase)
    IN  IF q.number
        THEN Gives(reset(q), plain \o print(kprintf_value(q, va_arg(rest).word)), after(rest, 1))
        ELSE Gives(reset(q), plain, rest)

(* A mutant: number is not cleared before a conversion.                    *)
vsprintf_unnumbered(p) == p

vsprintf_unnumber(p) == [p EXCEPT !.number = FALSE]

(* A double is passed apart from the other arguments: it is what the       *)
(* caller passes for this conversion.                                      *)
vsprintf_spec(p, ch, args, double) ==
    LET q     == vsprintf_numeric(vsprintf_unnumber(p), ch)
        taken == IF ch \in {"c", "s"} THEN 1 ELSE 0
        plain == CASE ch \in {"c", "s"} -> va_arg(args).text
                   [] ch \in {"f", "g"} -> sprintf_float(double, PRECISION)
                   [] ch = "%" -> <<"%">>
                   [] OTHER -> <<>>
        rest  == after(args, taken)
        word  == va_arg(rest).word
        text  == IF q.sign
                 THEN sprintf_signed(Signed(word, LONG), q.radix, q.width, q.padding, q.uppercase)
                 ELSE sprintf_unsigned(word, q.radix, q.width, q.padding, q.uppercase)
        done  == [q EXCEPT !.state = "NORMAL"]
    IN  IF q.number THEN Gives(done, plain \o text, after(rest, 1))
        ELSE Gives(done, plain, rest)

(* One character of the format.                                            *)
kprintf(p, ch, args) ==
    IF p.state = "NORMAL"
    THEN IF ch = "%" THEN Gives(percent(p), <<>>, args) ELSE Gives(p, <<ch>>, args)
    ELSE LET q == kprintf_prefix(p, ch)
         IN  IF q.state = "CONVERT" THEN kprintf_spec(q, ch, args)
             ELSE Gives(q, <<>>, args)

vsprintf(p, ch, args, double) ==
    IF p.state = "NORMAL"
    THEN IF ch = "%" THEN Gives(percent(p), <<>>, args) ELSE Gives(p, <<ch>>, args)
    ELSE LET q == vsprintf_prefix(p, ch)
         IN  IF q.state = "CONVERT" THEN vsprintf_spec(q, ch, args, double)
             ELSE Gives(q, <<>>, args)

---------------------------------------------------------------------------
(* C's side: a conversion is spelled until its last character.             *)
Occurs(ch, spelled) == Cardinality({i \in DOMAIN spelled : spelled[i] = ch})
Continues(spelled, ch) ==
    /\ spelled # <<>>
    /\ \/ IsDigit(ch) /\ Occurs("h", spelled) = 0 /\ Occurs("l", spelled) = 0
       \/ ch = "h" /\ Occurs("h", spelled) < 2 /\ Occurs("l", spelled) = 0
       \/ ch = "l" /\ Occurs("l", spelled) < 2 /\ Occurs("h", spelled) = 0

(* The arguments that a caller may pass for a finished conversion.         *)
TakesWord(spelled)   == Len(spelled) > 1 /\ Last(spelled) \in {"d", "i", "u", "X", "x", "p", "o"}
TakesText(spelled)   == Len(spelled) > 1 /\ Last(spelled) \in {"c", "s"}
TakesDouble(spelled) == Len(spelled) > 1 /\ Last(spelled) \in {"f", "g"}
Passed(spelled) ==
    LET none == CHOOSE slot \in Slots : TRUE
    IN  CASE TakesWord(spelled) -> {[none EXCEPT !.word = w] : w \in Words}
          [] TakesText(spelled) -> {[none EXCEPT !.text = t] : t \in Texts}
          [] OTHER -> {none}

---------------------------------------------------------------------------
(***************************************************************************)
(* The steps.  A call starts with fresh locals; the caller extends the     *)
(* format by a character, and passes an argument for every conversion that *)
(* takes one when its last character is reached.                           *)
(***************************************************************************)
Init == /\ k = fresh /\ v = fresh /\ kargs = <<>> /\ vargs = <<>>
        /\ kout = <<>> /\ vout = <<>> /\ conversion = <<>>
        /\ last = [spelled |-> <<>>, slot |-> <<>>, double |-> 0] /\ handled = TRUE

Walk(ch, spelled, slot, double) ==
    LET kstep == kprintf(k, ch, kargs \o slot)
        vstep == vsprintf(v, ch, vargs \o slot, double)
    IN  /\ k' = kstep.p /\ kout' = kstep.text /\ kargs' = kstep.args
        /\ v' = vstep.p /\ vout' = vstep.text /\ vargs' = vstep.args
        /\ last' = [spelled |-> spelled, slot |-> slot, double |-> double]
        /\ handled' = (handled /\ (conversion = <<>> \/ ch \notin {"h", "l", "o", "p"}))
        /\ Len(kargs') <= MaxUnread /\ Len(vargs') <= MaxUnread

(* A character outside conversions.                                        *)
Literal == \E ch \in Alphabet :
    /\ conversion = <<>>
    /\ conversion' = IF ch = "%" THEN <<ch>> ELSE <<>>
    /\ Walk(ch, IF ch = "%" THEN <<>> ELSE <<ch>>, <<>>, 0)

(* One more character of a flag, a width or a length.                      *)
Spell == \E ch \in Alphabet :
    /\ Continues(conversion, ch)
    /\ IsDigit(ch) => Len(conversion) <= MaxDigits
    /\ conversion' = Append(conversion, ch)
    /\ Walk(ch, <<>>, <<>>, 0)

(* The last character of a conversion.                                     *)
Finish == \E ch \in Alphabet :
    LET spelled == Append(conversion, ch)
    IN  /\ conversion # <<>> /\ ~ Continues(conversion, ch)
        /\ conversion' = <<>>
        /\ \/ /\ TakesWord(spelled) \/ TakesText(spelled)
              /\ \E slot \in Passed(spelled) : Walk(ch, spelled, <<slot>>, 0)
           \/ /\ TakesDouble(spelled)
              /\ \E double \in Doubles : Walk(ch, spelled, <<>>, double)
           \/ /\ ~ (TakesWord(spelled) \/ TakesText(spelled) \/ TakesDouble(spelled))
              /\ Walk(ch, spelled, <<>>, 0)

(* The end of the format: another call begins.                             *)
EndOfFormat ==
    /\ k' = fresh /\ v' = fresh /\ kargs' = <<>> /\ vargs' = <<>>
    /\ kout' = <<>> /\ vout' = <<>> /\ conversion' = <<>>
    /\ last' = [spelled |-> <<>>, slot |-> <<>>, double |-> 0] /\ handled' = TRUE

Next == Literal \/ Spell \/ Finish \/ EndOfFormat
Spec == Init /\ [][Next]_vars

---------------------------------------------------------------------------
(* What C prints for a finished conversion, defined by place values.       *)
Numeral(n, radix, uppercase) ==
    LET places == CHOOSE l \in 1 .. n + 1 :
                      n < Power(radix, l) /\ (l > 1 => n >= Power(radix, l - 1))
        place(i) == Power(radix, places - i)
    IN  [i \in 1 .. places |-> hexChars(uppercase)[((n \div place(i)) % radix) + 1]]

Flagged(spelled)  == Len(spelled) > 2 /\ spelled[2] = "0"
WidthOf(spelled) ==
    LET w[i \in 0 .. Len(spelled)] ==
            IF i = 0 THEN 0
            ELSE IF IsDigit(spelled[i]) THEN w[i - 1] * 10 + digit(spelled[i]) ELSE w[i - 1]
    IN  w[Len(spelled)]

(* The values of the type that a conversion names: long has 64 bits.       *)
TypeSize(spelled) ==
    CASE Occurs("h", spelled) = 2 -> CHAR
      [] Occurs("h", spelled) = 1 -> SHORT
      [] Occurs("h", spelled) = 0 /\ Occurs("l", spelled) = 0 /\ Last(spelled) # "p" -> INT
      [] OTHER -> LONG

CValue(spelled, word) ==
    IF Last(spelled) \in {"d", "i"} THEN Signed(word, TypeSize(spelled))
    ELSE word % TypeSize(spelled)

CNumber(spelled, word) ==
    LET n      == CValue(spelled, word)
        sign   == IF n < 0 THEN <<"-">> ELSE <<>>
        radix  == CASE Last(spelled) \in {"d", "i", "u"} -> 10
                    [] Last(spelled) = "o" -> 8
                    [] OTHER -> 16
        digits == Numeral(IF n < 0 THEN -n ELSE n, radix, Last(spelled) = "X")
        gap    == WidthOf(spelled) - Len(sign) - Len(digits)
    IN  IF Flagged(spelled) THEN sign \o times("0", gap) \o digits
        ELSE times(SPACE, gap) \o sign \o digits

CFloat(number) ==
    LET size  == IF number < 0 THEN -number ELSE number
        parts == ((size % UNITS) * Power(10, PRECISION)) \div UNITS
    IN  (IF number < 0 THEN <<"-">> ELSE <<>>) \o Numeral(size \div UNITS, 10, FALSE) \o <<".">>
        \o [i \in 1 .. PRECISION |-> Decimals[((parts \div Power(10, PRECISION - i)) % 10) + 1]]

CText(spelled, slot, double) ==
    CASE Len(spelled) = 1 \/ Last(spelled) = "%" -> <<Last(spelled)>>
      [] TakesText(spelled) -> slot[1].text
      [] TakesWord(spelled) -> CNumber(spelled, slot[1].word)
      [] TakesDouble(spelled) -> CFloat(double)
      [] OTHER -> <<>>

(* The values that kprintf can tell: those of the named type, as far as    *)
(* they survive being read as a signed int, and all of long long.          *)
KprintfTells(spelled, word) ==
    \/ Occurs("l", spelled) = 2
    \/ CValue(spelled, word) = Signed(word, INT)

(* The values that vsprintf can tell: those that the caller extended to    *)
(* 64 bits, not negative where spaces would go before the sign.            *)
VsprintfTells(spelled, word) ==
    /\ CValue(spelled, word) = IF Last(spelled) \in {"d", "i"} THEN Signed(word, LONG) ELSE word
    /\ CValue(spelled, word) >= 0 \/ Flagged(spelled) \/ WidthOf(spelled) = 0

(***************************************************************************)
(* Properties.                                                             *)
(***************************************************************************)

(* The locals stay in their ranges, and arguments do not pile up.          *)
TypeOK ==
    /\ \A p \in {k, v} :
         /\ p.state \in {"NORMAL", "FLAGS", "WIDTH", "LENGTH_SHORT", "LENGTH_LONG", "SPEC"}
         /\ p.radix \in {8, 10, 16} /\ p.padding \in {SPACE, "0"}
         /\ p.width \in 0 .. Power(10, MaxDigits) - 1
    /\ Len(kargs) <= MaxUnread /\ Len(vargs) <= MaxUnread

(* Numbers are printed with any width, texts and doubles without one.      *)
Asked(spelled) == spelled # <<>> /\ (TakesWord(spelled) \/ WidthOf(spelled) = 0)

(* kprintf is between conversions when the format is, and has then read    *)
(* one argument for every conversion that takes one: a wrong count would   *)
(* give every later conversion another's argument.                         *)
KprintfKeepsStep == (k.state = "NORMAL" <=> conversion = <<>>) /\ kargs = <<>>

(* Whatever was converted before, kprintf keeps step with the format and   *)
(* prints what C prints: no flag, width, length or radix of one conversion *)
(* reaches into the next.                                                  *)
KprintfPrintsAsC ==
    LET spelled == last.spelled
    IN  /\ TypeOK /\ KprintfKeepsStep
        /\ /\ Asked(spelled) /\ ~ TakesDouble(spelled)
           /\ TakesWord(spelled) => KprintfTells(spelled, last.slot[1].word)
           => kout = CText(spelled, last.slot, last.double)

(* vsprintf keeps step and prints what C prints as long as the format has  *)
(* only what it has a case for, doubles of at most PRECISION decimals, and *)
(* values that it can tell.                                                *)
VsprintfPrintsAsC ==
    LET spelled == last.spelled
    IN  handled =>
          /\ (v.state = "NORMAL" <=> conversion = <<>>) /\ vargs = <<>>
          /\ /\ Asked(spelled)
             /\ TakesWord(spelled) => VsprintfTells(spelled, last.slot[1].word)
             /\ TakesDouble(spelled) => Last(spelled) = "f" /\ (last.double * Power(10, PRECISION)) % UNITS = 0
             => vout = CText(spelled, last.slot, last.double)

===============================================================================
