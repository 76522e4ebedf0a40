------------------------------- MODULE Printf -------------------------------
(***************************************************************************)
(* The printf of the restorer (src/printf.c) without exponents: one call,  *)
(* one action per piece of the format.  A format is a sequence of          *)
(* pieces: a character, or a directive                                     *)
(* %[flags][width][.precision][length]specifier.  Characters are strings   *)
(* of length one; NUL is the terminator.                                   *)
(***************************************************************************)
EXTENDS Integers, SequencesExt

CONSTANTS
  Calls,       \* the calls to check: a set of Call records
  BufferSize,  \* PRINTF_NTOA_BUFFER_SIZE, 32
  Bits,        \* the width of char, short, int and long (also of a pointer)
  SizeMax,     \* the largest size_t
  Unit,        \* a float is a multiple of 1 / Unit, and so are its products with powers of 10
  FtoaSize,    \* PRINTF_FTOA_BUFFER_SIZE, 32
  FtoaDigits,  \* the fraction is computed to this many digits, 9
  FtoaDefault, \* PRINTF_DEFAULT_FLOAT_PRECISION, 6
  MaxFloat,    \* PRINTF_MAX_FLOAT, 1e9
  Cells        \* how many characters of the caller's memory are looked at

ASSUME SizesAssumption ==
  /\ {BufferSize, Unit, FtoaSize} \subseteq Nat \ {0} /\ {FtoaDigits, FtoaDefault, MaxFloat} \subseteq Nat
  /\ Cells \in Nat /\ SizeMax \in Nat
  /\ Bits \in [{"char", "short", "int", "long"} -> Nat \ {0}]
  /\ \A type \in DOMAIN Bits : Bits[type] <= Bits["long"]

NUL == "NUL"
Star == <<-2>>
Absent == <<-1>>

(* A width is absent, a star or its decimal digits, none of them below 0;  *)
(* so is a precision, where no digits stand for a lone point.              *)
Directive(flags, width, precision, length, spec) ==
  [flags |-> flags, width |-> width, precision |-> precision, length |-> length, spec |-> spec]

IsDirective(piece) == DOMAIN piece = {"flags", "width", "precision", "length", "spec"}

Stars(field) == IF field = Star THEN 1 ELSE 0

(* fn: the function called; count: of snprintf; buffer: is there one;      *)
(* format, and args: the further arguments, numbers and strings.           *)
Call(fn, buffer, count, format, args) ==
  [fn |-> fn, buffer |-> buffer, count |-> count, format |-> format, args |-> args]

SignedSpecs == {"d", "i"}
IntegerSpecs == {"d", "i", "u", "x", "X", "o", "b"}
FloatSpecs == {"f", "F"}
ExponentialSpecs == {"e", "E", "g", "G"}
ValueSpecs == IntegerSpecs \cup FloatSpecs \cup {"p", "c", "s"}

FlagChars == {"-", "+", " ", "#", "0"}

LengthFlags ==
  [none |-> {}, l |-> {"long"}, ll |-> {"long", "long_long"}, h |-> {"short"},
   hh |-> {"short", "char"}, t |-> {"long"}, j |-> {"long"}, z |-> {"long"}]

IsSequence(s) == Len(s) \in Nat /\ s = [k \in 1..Len(s) |-> s[k]]

(* The arguments a piece takes: its stars and its value.                   *)
ArgsOf(piece) ==
  IF ~IsDirective(piece) THEN 0
  ELSE Stars(piece.width) + Stars(piece.precision) + (IF piece.spec \in ValueSpecs THEN 1 ELSE 0)

(* How many arguments the first k pieces take.                             *)
ArgsBefore(c) ==
  LET taken[k \in 0..Len(c.format)] == IF k = 0 THEN 0 ELSE taken[k - 1] + ArgsOf(c.format[k])
  IN taken

FieldOK(field) == field \in {Star, Absent} \/ field \in Seq(0..9)

(* What C asks of a caller: an argument for each star and each value, a    *)
(* number for a star, an integer or a pointer, a string for %s, a double   *)
(* for %f, flags and a length that there are, and a count that is a size_t.*)
(* _etoa is not modelled: there is no exponential specifier, and a finite  *)
(* float is inside of PRINTF_MAX_FLOAT.                                    *)
IsDefined(c) ==
  /\ c.count \in 0..SizeMax
  /\ IsSequence(c.format) /\ IsSequence(c.args)
  /\ \A k \in 0..Len(c.format) : ArgsBefore(c)[k] <= Len(c.args)
  /\ \A k \in 1..Len(c.format) : IsDirective(c.format[k]) =>
       LET piece == c.format[k]
           first == ArgsBefore(c)[k - 1] + 1
           value == first + Stars(piece.width) + Stars(piece.precision) IN
       /\ piece.flags \subseteq FlagChars /\ piece.length \in DOMAIN LengthFlags
       /\ FieldOK(piece.width) /\ FieldOK(piece.precision)
       /\ \A j \in first..value - 1 : c.args[j] \in Int
       /\ piece.spec \in IntegerSpecs \cup {"p"} => c.args[value] \in Int
       /\ piece.spec = "s" => IsSequence(c.args[value])
       /\ piece.spec \in FloatSpecs => c.args[value].kind \in {"finite", "nan", "inf", "neginf"}
       /\ piece.spec \in FloatSpecs /\ c.args[value].kind = "finite" =>
            c.args[value].n \div Unit \in -MaxFloat..MaxFloat - 1
       /\ piece.spec \notin ExponentialSpecs

ASSUME CallsAssumption == \A c \in Calls : IsDefined(c)

VARIABLES
  call,  \* the call; it never changes
  pos,   \* the next piece of the format
  arg,   \* the next argument, va
  idx,   \* the characters put out so far
  text,  \* and which they are
  mem,   \* the memory that buffer points to
  sent,  \* what _putchar or the caller's function got
  ret    \* what the call returns, -1 before it does

vars == <<call, pos, arg, idx, text, mem, sent, ret>>

-----------------------------------------------------------------------------
(* printf_, sprintf_, snprintf_, vprintf_, vsnprintf_, fctprintf: the      *)
(* output function and maxlen.                                             *)
Limited == {"snprintf", "vsnprintf"}
ToMemory == Limited \cup {"sprintf"}

out == IF call.fn \in ToMemory THEN IF call.buffer THEN "buffer" ELSE "null" ELSE "char"
maxlen == IF call.fn \in Limited THEN call.count ELSE SizeMax

(* _out_buffer for characters that start at index `at'.                    *)
OutBuffer(memory, chars, at) ==
  [k \in DOMAIN memory |->
     IF k >= at /\ k < at + Len(chars) /\ k < maxlen THEN chars[k - at + 1] ELSE memory[k]]

(* Faulty: a NUL is sent like any other character.                         *)
OutChar_SendsNul(stream, chars) == stream \o chars

WithoutNul(chars) ==
  LET kept[k \in 0..Len(chars)] ==
        IF k = 0 THEN << >>
        ELSE IF chars[k] = NUL THEN kept[k - 1] ELSE Append(kept[k - 1], chars[k])
  IN kept[Len(chars)]

(* _out_char, _out_fct: a NUL is not sent.                                 *)
OutChar(stream, chars) == stream \o WithoutNul(chars)

Out(chars, at) ==
  /\ mem' = IF out = "buffer" THEN OutBuffer(mem, chars, at) ELSE mem
  /\ sent' = IF out = "char" THEN OutChar(sent, chars) ELSE sent

(* Put out the characters of a piece and go on with the next one.          *)
Emit(chars, argsUsed) ==
  /\ Out(chars, idx)
  /\ idx' = idx + Len(chars)
  /\ text' = text \o chars
  /\ arg' = arg + argsUsed
  /\ pos' = pos + 1
  /\ UNCHANGED <<call, ret>>

-----------------------------------------------------------------------------
(* Numbers.                                                                *)

Smaller(m, n) == IF m < n THEN m ELSE n
Larger(m, n) == IF m > n THEN m ELSE n
Abs(n) == IF n < 0 THEN 0 - n ELSE n

(* base to the power of n: pow10 of _ftoa, and the sizes of types.         *)
Power(base, n) == LET power[k \in 0..n] == IF k = 0 THEN 1 ELSE base * power[k - 1] IN power[n]

(* c n times; not at all if n is negative.                                 *)
Repeat(c, n) == [k \in 1..Larger(n, 0) |-> c]

Lower == <<"0", "1", "2", "3", "4", "5", "6", "7", "8", "9", "a", "b", "c", "d", "e", "f">>
Upper == <<"0", "1", "2", "3", "4", "5", "6", "7", "8", "9", "A", "B", "C", "D", "E", "F">>

(* _atoi: the value of decimal digits, modulo the range of an int.         *)
Atoi(digits) ==
  LET i[k \in 0..Len(digits)] ==
        IF k = 0 THEN 0 ELSE (i[k - 1] * 10 + digits[k]) % Power(2, Bits["int"])
  IN i[Len(digits)]

(* The low digits of a value, the lowest first, at most n of them.         *)
Digits(value, base, upper, n) ==
  LET count == Min({n} \cup {k \in 1..n : value < Power(base, k)})
  IN [k \in 1..count |-> (IF upper THEN Upper ELSE Lower)[((value \div Power(base, k - 1)) % base) + 1]]

(* _ntoa_long, _ntoa_long_long: the digits in the conversion buffer.       *)
NtoaDigits(value, base, flags) ==
  IF "precision" \in flags /\ value = 0 THEN << >>
  ELSE Digits(value, base, "upper" \in flags, BufferSize)

(* Add zeros until the buffer holds n characters, or is full.              *)
PadZeros(buf, n) == buf \o Repeat("0", Smaller(n, BufferSize) - Len(buf))

(* Append a character if there is room.                                    *)
Put(buf, c) == IF Len(buf) < BufferSize THEN Append(buf, c) ELSE buf

(* Faulty: the room for the 0 of a prefix is not checked.                  *)
Hash_NoRoomCheck(buf, base, prec, width, flags) ==
  LET letter == IF base = 16 THEN <<IF "upper" \in flags THEN "X" ELSE "x">>
                ELSE IF base = 2 THEN <<"b">> ELSE << >>
  IN buf \o letter \o <<"0">>

(* # : a prefix takes the place of zeros that were padded - or of digits,  *)
(* when there are as many as the width says.                               *)
Hash(buf, base, prec, width, flags) ==
  LET len == Len(buf)
      taken == IF "precision" \notin flags /\ len > 0 /\ len \in {prec, width}
                 THEN IF base = 16 /\ len > 1 THEN 2 ELSE 1
                 ELSE 0
      rest == SubSeq(buf, 1, len - taken)
      letter == IF base = 16 THEN Put(rest, IF "upper" \in flags THEN "X" ELSE "x")
                ELSE IF base = 2 THEN Put(rest, "b") ELSE rest
  IN Put(letter, "0")

Sign(negative, flags) ==
  IF negative THEN <<"-">>
  ELSE IF "+" \in flags THEN <<"+">>
  ELSE IF " " \in flags THEN <<" ">> ELSE << >>

(* The width that zeros fill: a sign takes one of it.                      *)
ZeroWidth(negative, width, flags) ==
  IF "-" \notin flags /\ width > 0 /\ "0" \in flags /\ Sign(negative, flags) # << >>
    THEN width - 1 ELSE width

(* _ntoa_format up to its call of _out_rev: the conversion buffer.         *)
NtoaFormat(digits, negative, base, prec, width, flags) ==
  LET w == ZeroWidth(negative, width, flags)
      precise == IF "-" \in flags THEN digits ELSE PadZeros(digits, prec)
      padded == IF "-" \notin flags /\ "0" \in flags THEN PadZeros(precise, w) ELSE precise
      hashed == IF "#" \in flags THEN Hash(padded, base, prec, w, flags) ELSE padded
  IN IF Len(hashed) < BufferSize THEN hashed \o Sign(negative, flags) ELSE hashed

(* _out_rev.                                                               *)
OutRev(buf, width, flags) ==
  LET spaces == Repeat(" ", width - Len(buf))
  IN IF "-" \in flags THEN Reverse(buf) \o spaces
     ELSE IF "0" \in flags THEN Reverse(buf) ELSE spaces \o Reverse(buf)

(* Faulty: a fraction that is rounded up to 1 is not carried.              *)
FtoaRound_NoCarry(value, prec) ==
  LET tmp == (value % Unit) * Power(10, prec)
      rest == tmp % Unit
      frac == IF 2 * rest > Unit THEN tmp \div Unit + 1 ELSE tmp \div Unit
  IN [whole |-> value \div Unit, frac |-> frac % Power(10, prec)]

(* _ftoa: the whole part and prec digits of a fraction.  A half goes to    *)
(* the even neighbour, with prec = 0 by a second look at the whole part.   *)
FtoaRound(value, prec) ==
  LET tmp == (value % Unit) * Power(10, prec)
      rest == tmp % Unit
      cut == tmp \div Unit
      frac == IF 2 * rest > Unit \/ (2 * rest = Unit /\ (cut = 0 \/ cut % 2 = 1)) THEN cut + 1 ELSE cut
      carried == 2 * rest > Unit /\ frac >= Power(10, prec)
      whole == value \div Unit + (IF carried THEN 1 ELSE 0)
      odd == prec = 0 /\ 2 * (value - whole * Unit) >= Unit /\ whole % 2 = 1
  IN [whole |-> IF odd THEN whole + 1 ELSE whole, frac |-> IF carried THEN 0 ELSE frac]

(* _ftoa: how many digits of a fraction are wanted; the precision is       *)
(* lowered by a 0 in the conversion buffer at a time, until it is full.    *)
FtoaWanted(given, flags) == IF "precision" \in flags THEN given ELSE FtoaDefault
FtoaLowered(wanted) == Smaller(Larger(wanted - FtoaDigits, 0), FtoaSize)
FtoaPrecision(wanted) == wanted - FtoaLowered(wanted)

(* _ftoa up to its call of _out_rev, for numbers up to PRINTF_MAX_FLOAT.   *)
(* What does not fit into the conversion buffer is dropped: if zeros have  *)
(* filled it, the whole number is, whatever is read behind pow10.  A half  *)
(* that is rounded up to 1 is not carried: count wraps, and zeros fill the *)
(* buffer.                                                                 *)
FtoaBuffer(value, given, width, flags) ==
  LET wanted == FtoaWanted(given, flags)
      prec == FtoaPrecision(wanted)
      rounded == FtoaRound(Abs(value), prec)
      digits == Digits(rounded.frac, 10, FALSE, FtoaSize)
      missing == IF Len(digits) > prec THEN FtoaSize ELSE prec - Len(digits)
      fraction == IF prec = 0 THEN << >> ELSE digits \o Repeat("0", missing) \o <<".">>
      number == Repeat("0", FtoaLowered(wanted)) \o fraction \o Digits(rounded.whole, 10, FALSE, FtoaSize)
      zeros == IF "-" \notin flags /\ "0" \in flags
                 THEN Repeat("0", ZeroWidth(value < 0, width, flags) - Len(number)) ELSE << >>
      all == number \o zeros \o Sign(value < 0, flags)
  IN IF FtoaLowered(wanted) = FtoaSize THEN Repeat("0", FtoaSize)
     ELSE SubSeq(all, 1, Smaller(Len(all), FtoaSize))

(* Not a number, or an infinite one.                                       *)
Special(kind, flags) ==
  [nan |-> <<"n", "a", "n">>, neginf |-> <<"f", "n", "i", "-">>,
   inf |-> IF "+" \in flags THEN <<"f", "n", "i", "+">> ELSE <<"f", "n", "i">>][kind]

-----------------------------------------------------------------------------
(* The fields of a directive.                                              *)

Piece == call.format[pos]

Unsigned(n, bits) == n % Power(2, bits)
Signed(n, bits) ==
  LET u == Unsigned(n, bits) IN IF 2 * u >= Power(2, bits) THEN u - Power(2, bits) ELSE u

(* An int taken from the arguments.                                        *)
IntArg(k) == Signed(call.args[k], Bits["int"])

(* The arguments of a piece: of its width, of its precision, its value.    *)
PrecisionAt(at) == at + Stars(Piece.width)
ValueAt(at) == PrecisionAt(at) + Stars(Piece.precision)

WidthField(at) ==
  IF Piece.width = Star THEN IntArg(at)
  ELSE IF Piece.width = Absent THEN 0 ELSE Atoi(Piece.width)

Width(at) == Abs(WidthField(at))

Precision(at) ==
  IF Piece.precision = Star THEN Larger(IntArg(PrecisionAt(at)), 0)
  ELSE IF Piece.precision = Absent THEN 0 ELSE Atoi(Piece.precision)

(* flags when the specifier is reached.                                    *)
FlagsOf(at) ==
  Piece.flags \cup LengthFlags[Piece.length]
    \cup (IF WidthField(at) < 0 THEN {"-"} ELSE {})
    \cup (IF Piece.precision # Absent THEN {"precision"} ELSE {})

-----------------------------------------------------------------------------
(* The specifiers.                                                         *)

Base(spec) == IF spec \in {"x", "X"} THEN 16 ELSE IF spec = "o" THEN 8 ELSE IF spec = "b" THEN 2 ELSE 10

(* # has no meaning for decimals, + and space none for unsigned numbers,   *)
(* and 0 none next to a precision.                                         *)
IntegerFlags(spec, flags) ==
  (flags \ ((IF Base(spec) = 10 THEN {"#"} ELSE {})
             \cup (IF spec \notin SignedSpecs THEN {"+", " "} ELSE {})
             \cup (IF "precision" \in flags THEN {"0"} ELSE {})))
    \cup (IF spec = "X" THEN {"upper"} ELSE {})

(* The value of the argument: cut to its type.  A plain char is unsigned   *)
(* on RISC-V.                                                              *)
IntegerValue(spec, flags, n) ==
  LET bits == IF "long" \in flags THEN Bits["long"]
              ELSE IF "short" \in flags THEN Bits["short"] ELSE Bits["int"]
  IN IF "char" \in flags THEN Unsigned(n, Bits["char"])
     ELSE IF spec \in SignedSpecs THEN Signed(n, bits) ELSE Unsigned(n, bits)

(* _ntoa_long, _ntoa_long_long; no # for 0.                                *)
NtoaBuffer(value, base, prec, width, allFlags) ==
  LET flags == IF value = 0 THEN allFlags \ {"#"} ELSE allFlags
  IN NtoaFormat(NtoaDigits(Abs(value), base, flags), value < 0, base, prec, width, flags)

IntegerBuffer(at) ==
  LET flags == IntegerFlags(Piece.spec, FlagsOf(at))
      value == IntegerValue(Piece.spec, flags, call.args[ValueAt(at)])
  IN NtoaBuffer(value, Base(Piece.spec), Precision(at), Width(at), flags)

Integer ==
  /\ Piece.spec \in IntegerSpecs
  /\ Emit(OutRev(IntegerBuffer(arg), Width(arg), IntegerFlags(Piece.spec, FlagsOf(arg))),
          ValueAt(arg) + 1 - arg)

(* A floating-point argument is finite, a number of Units, or special.     *)
FloatArg(kind, n) == [kind |-> kind, n |-> n]

FloatBuffer(at) ==
  LET value == call.args[ValueAt(at)] IN
  IF value.kind = "finite" THEN FtoaBuffer(value.n, Precision(at), Width(at), FlagsOf(at))
  ELSE Special(value.kind, FlagsOf(at))

Float ==
  /\ Piece.spec \in FloatSpecs
  /\ Emit(OutRev(FloatBuffer(arg), Width(arg), FlagsOf(arg)), ValueAt(arg) + 1 - arg)

(* p: all hexadecimal digits of a pointer.                                 *)
PointerDigits == Bits["long"] \div 4

PointerFlags(at) == FlagsOf(at) \cup {"0", "upper"}

PointerBuffer(at) ==
  NtoaBuffer(Unsigned(call.args[ValueAt(at)], Bits["long"]), 16, Precision(at), PointerDigits,
             PointerFlags(at))

Pointer ==
  /\ Piece.spec = "p"
  /\ Emit(OutRev(PointerBuffer(arg), PointerDigits, PointerFlags(arg)), ValueAt(arg) + 1 - arg)

Pad(chars, width, flags) ==
  LET spaces == Repeat(" ", width - Len(chars))
  IN IF "-" \in flags THEN chars \o spaces ELSE spaces \o chars

Character ==
  /\ Piece.spec = "c"
  /\ Emit(Pad(<<call.args[ValueAt(arg)]>>, Width(arg), FlagsOf(arg)), ValueAt(arg) + 1 - arg)

(* The characters of a string that a precision leaves.                     *)
CutString(string, prec, flags) ==
  IF "precision" \in flags THEN SubSeq(string, 1, Smaller(prec, Len(string))) ELSE string

String ==
  /\ Piece.spec = "s"
  /\ Emit(Pad(CutString(call.args[ValueAt(arg)], Precision(arg), FlagsOf(arg)),
              Width(arg), FlagsOf(arg)),
          ValueAt(arg) + 1 - arg)

(* Faulty: it takes an argument.                                           *)
OtherSpec_TakesArgument ==
  /\ Piece.spec \notin ValueSpecs
  /\ Emit(<<Piece.spec>>, ValueAt(arg) + 1 - arg)

(* % and a specifier printf does not know: put out as it is, though the    *)
(* arguments of stars are gone.                                            *)
OtherSpec ==
  /\ Piece.spec \notin ValueSpecs
  /\ Emit(<<Piece.spec>>, ValueAt(arg) - arg)

Literal ==
  /\ pos <= Len(call.format) /\ ~IsDirective(Piece)
  /\ Emit(<<Piece.char>>, 0)

Convert ==
  /\ pos <= Len(call.format) /\ IsDirective(Piece)
  /\ Integer \/ Float \/ Pointer \/ Character \/ String \/ OtherSpec

(* Faulty: the terminator always goes behind the text.                     *)
TerminatorAt_NoLimit == idx

(* Where the terminator goes: maxlen - 1 wraps for 0.                      *)
TerminatorAt == IF idx < maxlen THEN idx ELSE (maxlen - 1) % (SizeMax + 1)

Terminate ==
  /\ pos = Len(call.format) + 1 /\ ret = -1
  /\ Out(<<NUL>>, TerminatorAt)
  /\ ret' = idx
  /\ UNCHANGED <<call, pos, arg, idx, text>>

Finished == ret # -1 /\ UNCHANGED vars

Init ==
  /\ call \in Calls
  /\ pos = 1 /\ arg = 1 /\ idx = 0
  /\ text = << >> /\ sent = << >>
  /\ mem = [k \in 0..Cells - 1 |-> "garbage"]
  /\ ret = -1

Next == Literal \/ Convert \/ Terminate \/ Finished

Spec == Init /\ [][Next]_vars

-----------------------------------------------------------------------------
(* What a directive stands for: the text that the C standard gives for it, *)
(* and for the binary numbers and pointers it does not have, their digits. *)
(* Where it leaves a flag or a precision open, as it does # and 0 for      *)
(* strings, that is taken as not given.                                    *)

(* A precision that a star takes is below 0: then it is as if absent.      *)
StarBelow0(at) == Piece.precision = Star /\ IntArg(PrecisionAt(at)) < 0

AskedFlags(at) == IF StarBelow0(at) THEN FlagsOf(at) \ {"precision"} ELSE FlagsOf(at)

StdDigits(value, base, upper) ==
  LET count == CHOOSE n \in 1..Bits["long"] + 1 :
                 value < Power(base, n) /\ \A m \in 1..n - 1 : value >= Power(base, m)
  IN [k \in 1..count |-> (IF upper THEN Upper ELSE Lower)
                           [((value \div Power(base, count - k)) % base) + 1]]

(* An argument of the type that length and specifier say; a char that a    *)
(* signed conversion takes is a signed one.                                *)
StdValue(n, length, signed) ==
  LET type == [none |-> "int", l |-> "long", ll |-> "long", h |-> "short", hh |-> "char",
               t |-> "long", j |-> "long", z |-> "long"][length]
  IN IF signed THEN Signed(n, Bits[type]) ELSE Unsigned(n, Bits[type])

StdPad(chars, width, flags) ==
  LET spaces == Repeat(" ", Larger(width - Len(chars), 0))
  IN IF "-" \in flags THEN chars \o spaces ELSE spaces \o chars

(* The parts of a number, the highest digit first.                         *)
StdNumber(at) ==
  LET pointer == Piece.spec = "p"
      spec == IF pointer THEN "X" ELSE Piece.spec
      flags == AskedFlags(at) \cup (IF pointer THEN {"long", "0"} ELSE {})
      width == IF pointer THEN PointerDigits ELSE Width(at)
      value == StdValue(call.args[ValueAt(at)], IF pointer THEN "l" ELSE Piece.length,
                        spec \in SignedSpecs)
      prec == IF "precision" \in flags THEN Precision(at) ELSE 1
      digits == IF "precision" \in flags /\ value = 0 THEN << >> ELSE StdDigits(Abs(value), Base(spec), spec = "X")
      prefix == IF "#" \notin flags \/ value = 0 THEN << >>
                ELSE [x |-> <<"0", "x">>, X |-> <<"0", "X">>, b |-> <<"0", "b">>, o |-> <<"0">>,
                      d |-> << >>, i |-> << >>, u |-> << >>][spec]
      sign == IF spec \in SignedSpecs THEN Sign(value < 0, flags) ELSE << >>
      missing == Larger(prec - Len(digits), 0)
      fill == IF "0" \in flags /\ {"-", "precision"} \cap flags = {}
                THEN Larger(width - Len(sign \o prefix \o digits), 0) ELSE 0
  IN [digits |-> digits, prefix |-> prefix, missing |-> missing, base |-> Base(spec),
      flags |-> flags, width |-> width,
      number |-> sign \o prefix \o Repeat("0", missing + fill) \o digits]

(* A finite float: rounded to prec digits, a half to the even number.      *)
StdFloat(at) ==
  LET value == call.args[ValueAt(at)].n
      flags == AskedFlags(at)
      prec == IF "precision" \in flags THEN Precision(at) ELSE FtoaDefault
      scaled == Abs(value) * Power(10, prec)
      rest == 2 * (scaled % Unit)
      up == rest > Unit \/ (rest = Unit /\ (scaled \div Unit) % 2 = 1)
      n == scaled \div Unit + (IF up THEN 1 ELSE 0)
      whole == StdDigits(n \div Power(10, prec), 10, FALSE)
      fraction == [k \in 1..prec |-> Lower[((n \div Power(10, prec - k)) % 10) + 1]]
      digits == IF prec = 0 THEN whole ELSE whole \o <<".">> \o fraction
      sign == Sign(value < 0, flags)
      fill == IF "0" \in flags /\ "-" \notin flags THEN Width(at) - Len(sign \o digits) ELSE 0
  IN [number |-> sign \o Repeat("0", fill) \o digits,
      exact |-> (Abs(value) * Power(10, Smaller(prec, FtoaDigits))) % Unit = 0, prec |-> prec,
      carriedHalf |-> prec > 0 /\ rest = Unit /\ n % Power(10, prec) = 0]

StdSpecial(at) ==
  LET kind == call.args[ValueAt(at)].kind
      letters == IF kind = "nan"
                   THEN IF Piece.spec = "F" THEN <<"N", "A", "N">> ELSE <<"n", "a", "n">>
                   ELSE IF Piece.spec = "F" THEN <<"I", "N", "F">> ELSE <<"i", "n", "f">>
  IN Sign(kind = "neginf", FlagsOf(at)) \o letters

StdFloatText(at) ==
  StdPad(IF call.args[ValueAt(at)].kind = "finite" THEN StdFloat(at).number ELSE StdSpecial(at),
         Width(at), FlagsOf(at))

IsNumber == Piece.spec \in IntegerSpecs \cup {"p"}

StdText(at) ==
  IF ~IsDirective(Piece) THEN <<Piece.char>>
  ELSE IF IsNumber
    THEN LET n == StdNumber(at) IN StdPad(n.number, n.width, n.flags)
  ELSE IF Piece.spec \in FloatSpecs THEN StdFloatText(at)
  ELSE IF Piece.spec \in {"c", "s"}
    THEN LET value == call.args[ValueAt(at)]
             chars == IF Piece.spec = "c" THEN <<value>>
                      ELSE [k \in 1..(IF "precision" \in AskedFlags(at)
                                        THEN Smaller(Precision(at), Len(value))
                                        ELSE Len(value)) |-> value[k]]
         IN StdPad(chars, Width(at), FlagsOf(at))
  ELSE <<"%">>

(* Numbers for which this printf knowingly or not differs: they are longer *)
(* than the conversion buffer; a precision next to - , or a negative one;  *)
(* a pointer with a precision or a sign; # with a width that the digits    *)
(* fill, or, for the octal and binary numbers, with a precision or zeros;  *)
(* a signed char, which is taken for an unsigned one.                      *)
NumberDiffers(at) ==
    LET n == StdNumber(at) IN
    \/ Len(n.number) > BufferSize
    \/ Piece.length = "hh" /\ Piece.spec \in SignedSpecs
    \/ "-" \in n.flags /\ n.missing > 0
    \/ StarBelow0(at)
    \/ Piece.spec = "p" /\ (Piece.precision # Absent \/ {"+", " "} \cap n.flags # {})
    \/ n.prefix # << >> /\ Piece.precision = Absent /\ Len(n.digits) = n.width
    \/ n.prefix # << >> /\ Piece.precision = Absent /\ Len(n.digits) < n.width /\ "0" \in n.flags
         /\ (n.base = 2 \/ n.width < Len(n.prefix) + Len(n.digits))
    \/ "#" \in n.flags /\ n.base = 8 /\ Piece.precision # Absent

(* Floats: longer than their buffer, or more digits than are computed;     *)
(* a negative star precision; # next to no digits; a half that is rounded  *)
(* up to 1, such as 0.95 with one digit.  Special ones: %F, which C has in *)
(* upper case; the sign of a nan; a space before an infinite one; a width  *)
(* next to 0.                                                              *)
FloatDiffers(at) ==
  LET kind == call.args[ValueAt(at)].kind
      flags == FlagsOf(at) IN
  IF kind # "finite"
  THEN \/ Piece.spec = "F"
       \/ kind = "nan" /\ {"+", " "} \cap flags # {}
       \/ kind = "inf" /\ " " \in flags /\ "+" \notin flags
       \/ Width(at) > 3 /\ "0" \in flags /\ "-" \notin flags
  ELSE LET f == StdFloat(at) IN
       \/ Len(f.number) > FtoaSize
       \/ f.prec > FtoaDigits /\ ~f.exact
       \/ StarBelow0(at)
       \/ "#" \in flags /\ f.prec = 0
       \/ f.carriedHalf

Percent == Directive({}, Absent, Absent, "none", "%")

(* Of the others: a string with a negative star precision, wide characters *)
(* and strings, and what C does not define, a specifier it does not know   *)
(* or a %% with anything between its signs.                                *)
Differs(at) ==
  /\ IsDirective(Piece)
  /\ \/ IsNumber /\ NumberDiffers(at)
     \/ Piece.spec \in FloatSpecs /\ FloatDiffers(at)
     \/ Piece.spec = "s" /\ StarBelow0(at)
     \/ Piece.spec \in {"c", "s"} /\ Piece.length # "none"
     \/ Piece.spec \notin ValueSpecs /\ Piece # Percent

-----------------------------------------------------------------------------
(* Properties.                                                             *)

TypeOK ==
  /\ pos \in 1..Len(call.format) + 1
  /\ arg \in 1..Len(call.args) + 1
  /\ idx \in Nat /\ idx = Len(text)
  /\ DOMAIN mem = 0..Cells - 1
  /\ ret \in {-1, idx}

(* Each piece takes the arguments that are its own and, where the code     *)
(* does not differ from the C standard, puts out what it stands for:       *)
(* digits, sign, prefix, zeros and spaces in their order, with the value   *)
(* cut to the type the length says (printf.c:229-330, 604-851).            *)
PutsOutPiece ==
  pos' = pos + 1 =>
    /\ arg' = arg + ArgsOf(Piece)
    /\ ~Differs(arg) => text' = text \o StdText(arg)

PutsOutWhatItSays == [][PutsOutPiece]_vars

(* A number never leaves its conversion buffer on the stack, whatever      *)
(* width, precision, prefix and sign add to its digits (printf.c:230-277). *)
NumberFitsBuffer ==
  pos <= Len(call.format) /\ IsDirective(Piece) /\ IsNumber =>
    Len(IF Piece.spec = "p" THEN PointerBuffer(arg) ELSE IntegerBuffer(arg)) <= BufferSize

(* snprintf leaves the text, cut to count - 1 characters, and a terminator *)
(* behind it, writes nothing behind the count, and returns the length of   *)
(* the whole text (printf.h:81-90, printf.c:855-859).                      *)
BufferIsCutText ==
  ret # -1 /\ out = "buffer" =>
    LET kept == IF maxlen = 0 THEN 0 ELSE Smaller(Len(text), maxlen - 1) IN
    /\ \A k \in DOMAIN mem :
         mem[k] = IF k < kept THEN text[k + 1]
                  ELSE IF k = kept /\ maxlen > 0 THEN NUL ELSE "garbage"
    /\ ret = Len(text)

(* Only the functions that print send characters, all of them but NULs,    *)
(* and touch no memory; a call without a buffer does neither.              *)
SentIsText ==
  /\ sent = IF out = "char" THEN WithoutNul(text) ELSE << >>
  /\ out # "buffer" => \A k \in DOMAIN mem : mem[k] = "garbage"
=============================================================================
