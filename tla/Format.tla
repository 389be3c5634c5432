-------------------------------- MODULE Format --------------------------------
(***************************************************************************)
(* Formatted output (SSL/src/io.c): _vsnprintf and the functions on top of *)
(* it, snprintf for a buffer, printf for the screen, serial_printf for the *)
(* COM port.  Numbers are converted with the 64-bit division of            *)
(* Arithmetic64.                                                           *)
(*                                                                         *)
(* A character is a string of length one, or "LF" or "NUL".  A format is a *)
(* sequence of items, each a literal character or a parsed directive.      *)
(***************************************************************************)
EXTENDS Arithmetic64, SequencesExt

CONSTANTS
  Bits,       \* bits of the integer types, by length modifier
  UINT16,     \* 65536, the values of the uint16_t that holds a width or precision
  NUM_BUFFER, \* 32, the characters of num_buffer
  Calls       \* the calls that may be made

\* A width or precision that is an argument, and no precision.
STAR == -1
NONE == -2

Specifiers == {"literal", "d", "i", "u", "o", "x", "X", "p", "c", "s", "n", "%", "unknown"}

Numeric == {"d", "i", "u", "o", "x", "X", "p"}

\* The arguments before the value, and all that a directive takes.
StarsOf(d) == (IF d.width = STAR THEN 1 ELSE 0) + (IF d.precision = STAR THEN 1 ELSE 0)

Taken(d) ==
  IF d.spec = "literal" THEN 0
  ELSE StarsOf(d)
       + (IF d.spec \in {"%", "unknown"} \/ (d.spec = "c" /\ d.length \in {"l", "ll"}) THEN 0 ELSE 1)

\* The loader's own texts hold no carriage return.
Chars == STRING \ {"CR"}

Directives ==
  [spec : Specifiers, char : Chars, flags : SUBSET {"-", "+", " ", "#", "0"},
   width : Nat \cup {STAR}, precision : Nat \cup {STAR, NONE}, length : DOMAIN Bits]

Arguments == [num : Int, str : Seq(Chars)]

\* What uint16_t precision holds for d, whose starred one is given.  One that is
\* not there changes nothing, like 0.
Held(d, given) ==
  CASE d.precision = NONE -> 0
    [] d.precision = STAR -> IF given < 0 THEN 0 ELSE given % UINT16
    [] OTHER              -> d.precision % UINT16

\* Call c has the arguments its format takes: item k starts with number first[k].
Positions(c, first) ==
  /\ first \in [1 .. (Len(c.format) + 1) -> 1 .. (Len(c.args) + 1)]
  /\ first[1] = 1
  /\ \A k \in DOMAIN c.format : first[k + 1] = first[k] + Taken(c.format[k])

\* The zeros that item k asks for leave room in num_buffer for prefix and sign.
Roomy(c, first, k) ==
  LET d == c.format[k]
  IN  d.spec \in Numeric => Held(d, c.args[first[k] + StarsOf(d) - 1].num) + 3 <= NUM_BUFFER

(* A call has
     device : "memory", "screen", "serial" or "none";
     n      : the size of the buffer;
     format : the literals and directives;
     args   : the arguments, one for each that the format takes.
   What a longer numeral does behind num_buffer is undefined, so no call has
   a number with such a precision; without one, prefix, sign and the digits
   of every number of MAXBITS bits fit.                                    *)
ASSUME FormatAssumption ==
  /\ \A l \in DOMAIN Bits : Bits[l] \in 1 .. MAXBITS
  /\ "p" \in DOMAIN Bits
  /\ UINT16 \in Nat \ {0}
  /\ NUM_BUFFER \in Nat /\ NUM_BUFFER >= 3 /\ Power(2, MAXBITS) <= Power(8, NUM_BUFFER - 3)
  /\ \A c \in Calls :
       /\ c.n \in Nat
       /\ c.format \in Seq(Directives) /\ c.args \in Seq(Arguments)
       /\ \E first \in [1 .. (Len(c.format) + 1) -> 1 .. (Len(c.args) + 1)] :
            Positions(c, first) /\ \A k \in DOMAIN c.format : Roomy(c, first, k)

VARIABLES
  call,
  at,         \* the item of the format that is next
  arg,        \* the argument that is next
  index,      \* index of _vsnprintf
  text,       \* history: the characters handed to "write"
  memory,     \* the bytes at s, those behind the buffer included
  sent,       \* what the screen or the port was sent
  counts,     \* what %n stored: value, and the length of the text then
  phase

callVars == <<call, at, arg, index, text, memory, sent, counts, phase>>

CallInit ==
  /\ call \in Calls
  /\ at = 1 /\ arg = 1 /\ index = 0
  /\ text = <<>> /\ sent = <<>> /\ counts = <<>>
  /\ memory = [i \in 0 .. (call.n + 1) |-> "old"]
  /\ phase = "format"

-----------------------------------------------------------------------------
(***************************************************************************)
(* _ntoa and _format_output.                                               *)
(***************************************************************************)
LowerCase == <<"0", "1", "2", "3", "4", "5", "6", "7", "8", "9", "a", "b", "c", "d", "e", "f">>
UpperCase == <<"0", "1", "2", "3", "4", "5", "6", "7", "8", "9", "A", "B", "C", "D", "E", "F">>

Repeat(char, count) == [k \in 1 .. count |-> char]

\* The digits of num, the last one first.
Digits(num, radix, alphabet) ==
  LET digits[m \in 0 .. num] ==
        LET division == unsigned_division64(m, radix)
            digit == <<alphabet[division.remainder + 1]>>
        IN  IF division.quotient = 0 THEN digit ELSE digit \o digits[division.quotient]
  IN  digits[num]

Prefix(flags, radix, hcase) ==
  IF "#" \notin flags THEN <<>>
  ELSE IF radix = 16 THEN <<IF hcase THEN "X" ELSE "x", "0">>
  ELSE IF radix = 8 THEN <<"0">>
  ELSE <<>>

Sign(flags, negative) ==
  IF negative THEN <<"-">>
  ELSE IF "+" \in flags THEN <<"+">>
  ELSE IF " " \in flags THEN <<" ">>
  ELSE <<>>

\* All of it is put together backwards and reversed at the end.
Ntoa(num, negative, radix, flags, precision, hcase) ==
  LET digits == Digits(num, radix, IF hcase THEN UpperCase ELSE LowerCase)
      padding == IF Len(digits) < precision THEN Repeat("0", precision - Len(digits)) ELSE <<>>
  IN  Reverse(digits \o padding \o Prefix(flags, radix, hcase) \o Sign(flags, negative))

Justified(output, fill, flags) == IF "-" \in flags THEN output \o fill ELSE fill \o output

FormatOutput(output, flags, width) ==
  Justified(output,
            Repeat(IF "0" \in flags THEN "0" ELSE " ",
                   IF width < Len(output) THEN 0 ELSE width - Len(output)),
            flags)

-----------------------------------------------------------------------------
(***************************************************************************)
(* The write functions.                                                    *)
(***************************************************************************)
InBuffer(i) == i < call.n

\* What the memory holds after "write" of each character of chars from start
\* on.
Stored(chars, start) ==
  [i \in DOMAIN memory |->
     IF InBuffer(i) /\ i - start + 1 \in DOMAIN chars THEN chars[i - start + 1] ELSE memory[i]]

Screen(char) ==
  CASE char = "LF"  -> <<"CR", "LF">>
    [] char = "NUL" -> <<>>
    [] OTHER        -> <<char>>

Serial(char) == IF char = "LF" THEN <<"CR", "LF">> ELSE <<char>>

Sending(chars) ==
  FlattenSeq([k \in DOMAIN chars |->
                IF call.device = "screen" THEN Screen(chars[k]) ELSE Serial(chars[k])])

\* No buffer, no write: snprintf then only measures.
Write(chars, start) ==
  /\ memory' = IF call.device = "memory" THEN Stored(chars, start) ELSE memory
  /\ sent' = IF call.device \in {"screen", "serial"} THEN sent \o Sending(chars) ELSE sent

-----------------------------------------------------------------------------
(***************************************************************************)
(* _vsnprintf.                                                             *)
(***************************************************************************)
Item == call.format[at]

\* Mutant: the pointer goes on twice.
AdvanceTwice == at + 2

Advance == at + 1

Formatting == phase = "format" /\ at \in DOMAIN call.format

\* Width and precision are taken before the value.
Stars == StarsOf(Item)

StarWidth == call.args[arg].num

StarPrecision == call.args[arg + Stars - 1].num

\* uint16_t width: a literal one wraps, an argument is truncated.
Width ==
  (IF Item.width # STAR THEN Item.width
   ELSE IF StarWidth < 0 THEN -StarWidth
   ELSE StarWidth) % UINT16

Flags == Item.flags \cup (IF Item.width = STAR /\ StarWidth < 0 THEN {"-"} ELSE {})

Precision == Held(Item, StarPrecision)

Value == call.args[arg + Stars]

\* The characters go out; used arguments are behind.
Put(chars, used) ==
  /\ Write(chars, index)
  /\ index' = index + Len(chars)
  /\ text' = text \o chars
  /\ at' = Advance
  /\ arg' = arg + used
  /\ UNCHANGED <<call, counts, phase>>

PutLiteral ==
  /\ Formatting /\ Item.spec = "literal"
  /\ Put(<<Item.char>>, 0)

\* A variable argument, converted to the type of the length modifier.
Unsigned(num, length) == num % Power(2, Bits[length])

Radix(spec) == CASE spec = "u" -> 10 [] spec = "o" -> 8 [] OTHER -> 16

UnsignedNumeral ==
  Ntoa(Unsigned(Value.num, Item.length), FALSE, Radix(Item.spec), Flags, Precision,
       Item.spec = "X")

PutUnsigned ==
  /\ Formatting /\ Item.spec \in {"u", "o", "x", "X"}
  /\ Put(FormatOutput(UnsignedNumeral, Flags, Width), Stars + 1)

PointerFlags == Flags \cup {"#"}

PointerNumeral == Ntoa(Unsigned(Value.num, "p"), FALSE, 16, PointerFlags, Precision, FALSE)

PutPointer ==
  /\ Formatting /\ Item.spec = "p"
  /\ Put(FormatOutput(PointerNumeral, PointerFlags, Width), Stars + 1)

\* The argument is put in the low part of a union that was cleared, and read
\* back as intmax_t: only an argument of that size can be negative.
Signed(num, length) ==
  LET low == Unsigned(num, length)
  IN  IF low >= Power(2, MAXBITS - 1) THEN low - Power(2, MAXBITS) ELSE low

SignedNumeral ==
  LET num == Signed(Value.num, Item.length)
  IN  Ntoa(IF num < 0 THEN -num ELSE num, num < 0, 10, Flags, Precision, FALSE)

PutSigned ==
  /\ Formatting /\ Item.spec \in {"d", "i"}
  /\ Put(FormatOutput(SignedNumeral, Flags, Width), Stars + 1)

\* A wide character is not supported: NUL goes out, and the argument stays.
PutChar ==
  /\ Formatting /\ Item.spec = "c"
  /\ IF Item.length \in {"l", "ll"}
     THEN Put(FormatOutput(<<"NUL">>, Flags, Width), Stars)
     ELSE Put(FormatOutput(Value.str, Flags, Width), Stars + 1)

\* The precision of a string is not used, and a wide string is left out.
PutString ==
  /\ Formatting /\ Item.spec = "s"
  /\ Put(IF Item.length \in {"l", "ll"} THEN <<>> ELSE FormatOutput(Value.str, Flags, Width), Stars + 1)

StoreCount ==
  /\ Formatting /\ Item.spec = "n"
  /\ counts' = Append(counts, [value |-> Unsigned(index, Item.length), length |-> Item.length,
                               before |-> Len(text)])
  /\ at' = Advance
  /\ arg' = arg + Stars + 1
  /\ UNCHANGED <<call, index, text, memory, sent, phase>>

PutPercent ==
  /\ Formatting /\ Item.spec = "%"
  /\ Put(FormatOutput(<<"%">>, Flags, Width), Stars)

\* An unknown specifier is left out.
Skip ==
  /\ Formatting /\ Item.spec = "unknown"
  /\ Put(<<>>, Stars)

\* Mutant: the terminator goes behind the text, wherever that is.
TerminatorLoose == index

\* max_size - 1 is SIZE_MAX for an empty buffer; nothing is written there.
Terminator == IF InBuffer(index) THEN index ELSE IF call.n = 0 THEN index ELSE call.n - 1

Terminate ==
  /\ phase = "format" /\ at \notin DOMAIN call.format
  /\ Write(<<"NUL">>, Terminator)
  /\ phase' = "returned"
  /\ UNCHANGED <<call, at, arg, index, text, counts>>

Returned == phase = "returned" /\ UNCHANGED callVars

CallNext ==
  \/ PutLiteral \/ PutUnsigned \/ PutPointer \/ PutSigned \/ PutChar \/ PutString
  \/ StoreCount \/ PutPercent \/ Skip \/ Terminate \/ Returned

CallSpec == CallInit /\ [][CallNext]_callVars

-----------------------------------------------------------------------------
(***************************************************************************)
(* What C says of a call.                                                  *)
(***************************************************************************)
\* The digits of num: as few as possible, but as many as the precision says.
Numeral(num, radix, precision, alphabet) ==
  LET enough == {m \in 1 .. MAXBITS : num < Power(radix, m)}
      count == Max({precision, Min(enough)})
  IN  [k \in 1 .. count |-> alphabet[((num \div Power(radix, count - k)) % radix) + 1]]

Padded(output, flags, width) ==
  LET total == Max({width, Len(output)})
      shift == IF "-" \in flags THEN 0 ELSE total - Len(output)
  IN  [k \in 1 .. total |->
         IF k - shift \in DOMAIN output THEN output[k - shift]
         ELSE IF "0" \in flags THEN "0" ELSE " "]

SignedReference(num, length) ==
  LET low == num % Power(2, Bits[length])
  IN  IF low >= Power(2, Bits[length] - 1) THEN low - Power(2, Bits[length]) ELSE low

\* The text of item d whose value is v.
Reference(d, v) ==
  LET num == IF d.spec \in {"d", "i"} THEN SignedReference(v.num, d.length)
                                      ELSE v.num % Power(2, Bits[d.length])
      radix == CASE d.spec \in {"d", "i", "u"} -> 10 [] d.spec = "o" -> 8 [] OTHER -> 16
      alphabet == IF d.spec = "X" THEN UpperCase ELSE LowerCase
      sign == IF d.spec \notin {"d", "i"} THEN <<>>
              ELSE IF num < 0 THEN <<"-">>
              ELSE IF "+" \in d.flags THEN <<"+">> ELSE IF " " \in d.flags THEN <<" ">> ELSE <<>>
      mark == IF "#" \notin d.flags THEN <<>>
              ELSE CASE d.spec = "x" -> <<"0", "x">> [] d.spec = "X" -> <<"0", "X">> [] OTHER -> <<>>
      digits == Numeral(IF num < 0 THEN -num ELSE num, radix,
                        IF d.precision = NONE THEN 1 ELSE d.precision, alphabet)
  IN  CASE d.spec = "literal" -> <<d.char>>
        [] d.spec = "%"       -> <<"%">>
        [] d.spec = "n"       -> <<>>
        [] d.spec \in {"c", "s"} -> Padded(v.str, d.flags, d.width)
        [] OTHER -> Padded(sign \o mark \o digits, d.flags, d.width)

Valued(d) == d.spec \notin {"literal", "%"}

\* The number of the argument of item k.
ArgOf(k) == Cardinality({j \in 1 .. k : Valued(call.format[j])})

ReferenceText ==
  FlattenSeq([k \in DOMAIN call.format |->
     IF Valued(call.format[k]) THEN Reference(call.format[k], call.args[ArgOf(k)])
     ELSE Reference(call.format[k], [num |-> 0, str |-> <<>>])])

\* The directives the loader's own calls are made of: no stars, nothing wide,
\* zero fill only before bare digits, marks only in hexadecimal and of numbers
\* other than 0, a precision only of numbers and not 0, widths and precisions
\* that uint16_t holds.
Plain(k) ==
  LET d == call.format[k]
      numeric == d.spec \in {"d", "i", "u", "o", "x", "X"}
  IN  /\ d.spec \notin {"unknown", "p"} /\ d.width # STAR /\ d.precision \notin {STAR, 0}
      /\ d.width < UINT16 /\ d.precision < UINT16
      /\ d.spec = "%" => d.width = 0
      /\ d.length \in {"l", "ll"} => d.spec \notin {"c", "s"}
      /\ "0" \in d.flags => numeric /\ d.flags \cap {"-", "+", " ", "#"} = {} /\ d.precision = NONE
      /\ d.flags \cap {"+", " "} # {} => d.spec \in {"d", "i"}
      /\ "#" \in d.flags => d.spec \in {"x", "X"} /\ Unsigned(call.args[ArgOf(k)].num, d.length) # 0
      /\ d.precision # NONE => numeric

\* What SelectSeq would leave; the provers cannot look into that one.
Without(char, chars) ==
  LET left[k \in 0 .. Len(chars)] ==
        IF k = 0 THEN <<>>
        ELSE IF chars[k] = char THEN left[k - 1]
        ELSE Append(left[k - 1], chars[k])
  IN  left[Len(chars)]

\* A signed item with a negative value.
Negative(k) ==
  /\ call.format[k].spec \in {"d", "i"}
  /\ SignedReference(call.args[ArgOf(k)].num, call.format[k].length) < 0

-----------------------------------------------------------------------------
(***************************************************************************)
(* Properties.                                                             *)
(***************************************************************************)
\* The state has the shape the program's declarations give it; neither the
\* format nor the arguments are read past their end.
CallTypeOK ==
  /\ at \in 1 .. (Len(call.format) + 1)
  /\ arg \in 1 .. (Len(call.args) + 1)
  /\ index \in Nat
  /\ phase \in {"format", "returned"}

\* snprintf writes what fits in n bytes with the terminator, whatever the
\* text's length and where in a directive the buffer ends; it touches nothing
\* behind, nor anything at all when n is 0; what it returns, and stores for
\* %n, is the length the whole text has; and no number _ntoa converts, with
\* prefix, sign and zeros, goes beyond num_buffer.
BufferExact ==
  /\ Formatting =>
       /\ Item.spec \in {"u", "o", "x", "X"} => Len(UnsignedNumeral) <= NUM_BUFFER
       /\ Item.spec = "p" => Len(PointerNumeral) <= NUM_BUFFER
       /\ Item.spec \in {"d", "i"} => Len(SignedNumeral) <= NUM_BUFFER
  /\ index = Len(text)
  /\ \A k \in DOMAIN counts : counts[k].value = counts[k].before % Power(2, Bits[counts[k].length])
  /\ call.device = "memory" =>
       \A i \in DOMAIN memory :
         memory[i] =
           IF i >= call.n THEN "old"
           ELSE IF phase = "returned" /\ i = Min({Len(text), call.n - 1}) THEN "NUL"
           ELSE IF i < Len(text) /\ (phase = "format" \/ i < call.n - 1) THEN text[i + 1]
           ELSE "old"

\* The text of a call is the one C prescribes, for plain directives and with
\* the exception of negative numbers in types shorter than intmax_t; the
\* division under it is exact for every divisor; and the screen is sent this
\* text with a carriage return before every line feed.
TextExact ==
  phase = "returned" =>
    /\ (\A k \in DOMAIN call.format :
          Plain(k) /\ (Negative(k) => Bits[call.format[k].length] = MAXBITS))
       => text = ReferenceText
    /\ \A k \in DOMAIN call.args : \A D \in 1 .. (Power(2, MAXBITS) - 1) :
         LET N == call.args[k].num % Power(2, MAXBITS)
         IN  unsigned_division64(N, D) = [quotient |-> N \div D, remainder |-> N % D]
    /\ call.device = "screen" =>
         /\ Without("CR", sent) = Without("NUL", text)
         /\ \A k \in DOMAIN sent : sent[k] = "LF" => k > 1 /\ sent[k - 1] = "CR"

\* "Implements printf" (io.h): plain directives for an int give the text C
\* prescribes, for negative numbers as well.
SignedExact ==
  phase = "returned" /\ (\A k \in DOMAIN call.format : Plain(k) /\ call.format[k].length = "")
    => text = ReferenceText
=============================================================================
