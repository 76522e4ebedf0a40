---------------------------- MODULE PrintfProofs ----------------------------
(***************************************************************************)
(* What TLAPS proves of Printf: the safety properties that the run checks  *)
(* on scaled-down types, for all calls that C defines, whatever the sizes  *)
(* of the types and of the conversion buffers are.                         *)
(*                                                                         *)
(* IInv is the inductive invariant. The arguments taken so far are those   *)
(* of the pieces before pos; the memory holds the text so far, cut at      *)
(* maxlen, and garbage behind it; the stream holds the text so far without *)
(* its NULs. That each piece puts out a sequence of characters, and        *)
(* numbers at most BufferSize before they are padded with spaces, follows  *)
(* from the operators that translate _ntoa_format, _ftoa and _out_rev      *)
(* alone: the first part of the module says what they return.              *)
(*                                                                         *)
(* A loop of printf.c is a recursive function in Printf; Recursion         *)
(* (Induction) turns it into a function with its equations (AtoiType,      *)
(* WithoutNulDef, ArgsBeforeDef).                                          *)
(***************************************************************************)
EXTENDS Printf, SequenceTheorems, Induction, TLAPS

-----------------------------------------------------------------------------
(* Sequences, whatever their elements are.                                 *)

(* The characters of a text, as the library's theorems want them.          *)
LEMMA ToSeq == ASSUME NEW s, IsSequence(s) PROVE s \in Seq(Range(s))
BY DEF IsSequence, Range

(* ... and back.                                                           *)
LEMMA OfSeq == ASSUME NEW S, NEW s \in Seq(S) PROVE IsSequence(s)
BY DEF IsSequence, Range

(* Texts one behind the other.                                             *)
LEMMA Concatenation ==
  ASSUME NEW s, NEW t, IsSequence(s), IsSequence(t)
  PROVE  /\ IsSequence(s \o t) /\ Len(s \o t) = Len(s) + Len(t)
         /\ \A k \in 1..Len(s) + Len(t) : (s \o t)[k] = IF k <= Len(s) THEN s[k] ELSE t[k - Len(s)]
<1> DEFINE U == Range(s) \cup Range(t)
<1>1. s \in Seq(U) /\ t \in Seq(U)
  BY ToSeq, SeqMonotonic
<1> HIDE DEF U
<1>2. QED
  BY <1>1, ConcatProperties, OfSeq

(* The texts that the code spells out.                                     *)
LEMMA Short ==
  /\ IsSequence(<< >>) /\ Len(<< >>) = 0
  /\ \A x : IsSequence(<<x>>) /\ Len(<<x>>) = 1
  /\ \A x, y, z : IsSequence(<<x, y, z>>)
  /\ \A w, x, y, z : IsSequence(<<w, x, y, z>>)
BY DEF IsSequence

(* One more character.                                                     *)
LEMMA Appending ==
  ASSUME NEW s, NEW x, IsSequence(s)
  PROVE  IsSequence(Append(s, x)) /\ Len(Append(s, x)) = Len(s) + 1
<1>1. s \in Seq(Range(s) \cup {x}) /\ x \in Range(s) \cup {x}
  BY ToSeq, SeqMonotonic
<1>2. QED
  BY <1>1, AppendProperties, OfSeq

(* _out_rev turns a buffer around, and keeps its length.                   *)
LEMMA Reversal ==
  ASSUME NEW s, IsSequence(s)
  PROVE  IsSequence(Reverse(s)) /\ Len(Reverse(s)) = Len(s)
BY DEF IsSequence, Reverse

(* The beginning of a text, for a precision of %s and a full buffer.       *)
LEMMA Cutting ==
  ASSUME NEW s, IsSequence(s), NEW m \in 0..Len(s)
  PROVE  IsSequence(SubSeq(s, 1, m)) /\ Len(SubSeq(s, 1, m)) = m
BY DEF IsSequence

(* Padding: n characters, none if n is negative (printf.c:208-210).        *)
LEMMA Repetition ==
  ASSUME NEW c, NEW n \in Int
  PROVE  IsSequence(Repeat(c, n)) /\ Len(Repeat(c, n)) = Larger(n, 0)
BY DEF IsSequence, Repeat, Larger

-----------------------------------------------------------------------------
(* Numbers stay in their conversion buffer.                                *)

(* The loop of _ntoa_long puts at least one digit, and at most as many as  *)
(* fit (printf.c:296-300).                                                 *)
LEMMA DigitsFit ==
  ASSUME NEW value, NEW base, NEW upper, NEW n \in Nat \ {0}
  PROVE  IsSequence(Digits(value, base, upper, n)) /\ Len(Digits(value, base, upper, n)) \in 1..n
<1> DEFINE C == {n} \cup {k \in 1..n : value < Power(base, k)}
<1>1. C \in SUBSET Nat /\ C # {} /\ C \subseteq 1..n
  OBVIOUS
<1>2. Min(C) \in C
  <2> HIDE DEF C
  <2>1. \E x \in C : \A y \in C : x <= y
    BY <1>1, LeastNumber
  <2>2. QED
    BY <2>1 DEF Min
<1>3. Min(C) \in 1..n
  BY <1>1, <1>2
<1>4. Digits(value, base, upper, n)
        = [k \in 1..Min(C) |-> (IF upper THEN Upper ELSE Lower)[((value \div Power(base, k - 1)) % base) + 1]]
  BY DEF Digits
<1> HIDE DEF C
<1>5. QED
  BY <1>3, <1>4 DEF IsSequence

(* Zeros are added while there is room (printf.c:237-242).                 *)
LEMMA PadZerosFit ==
  ASSUME NEW buf, IsSequence(buf), NEW n \in Int, Len(buf) <= BufferSize
  PROVE  IsSequence(PadZeros(buf, n)) /\ Len(PadZeros(buf, n)) <= BufferSize
<1>1. BufferSize \in Nat /\ Len(buf) \in Nat
  BY SizesAssumption DEF IsSequence
<1> DEFINE m == Smaller(n, BufferSize) - Len(buf)
<1>2. m \in Int /\ m <= BufferSize - Len(buf)
  BY <1>1 DEF Smaller
<1>3. IsSequence(Repeat("0", m)) /\ Len(Repeat("0", m)) = Larger(m, 0)
  BY <1>2, Repetition
<1>4. PadZeros(buf, n) = buf \o Repeat("0", m)
  BY DEF PadZeros
<1> HIDE DEF m
<1>5. QED
  BY <1>1, <1>2, <1>3, <1>4, Concatenation DEF Larger

(* So is a letter of a prefix (printf.c:253-264).                          *)
LEMMA PutFits ==
  ASSUME NEW buf, IsSequence(buf), NEW c, Len(buf) <= BufferSize
  PROVE  IsSequence(Put(buf, c)) /\ Len(Put(buf, c)) <= BufferSize
<1>1. BufferSize \in Nat /\ Len(buf) \in Nat
  BY SizesAssumption DEF IsSequence
<1>2. IsSequence(Append(buf, c)) /\ Len(Append(buf, c)) = Len(buf) + 1
  BY Appending
<1>3. QED
  BY <1>1, <1>2 DEF Put

(* And a whole prefix, which first takes away zeros or digits              *)
(* (printf.c:245-265).                                                     *)
LEMMA HashFits ==
  ASSUME NEW buf, IsSequence(buf), NEW base, NEW prec, NEW width, NEW flags, Len(buf) <= BufferSize
  PROVE  IsSequence(Hash(buf, base, prec, width, flags))
           /\ Len(Hash(buf, base, prec, width, flags)) <= BufferSize
<1> DEFINE len == Len(buf)
           taken == IF "precision" \notin flags /\ len > 0 /\ len \in {prec, width}
                      THEN IF base = 16 /\ len > 1 THEN 2 ELSE 1
                      ELSE 0
           rest == SubSeq(buf, 1, len - taken)
           letter == IF base = 16 THEN Put(rest, IF "upper" \in flags THEN "X" ELSE "x")
                     ELSE IF base = 2 THEN Put(rest, "b") ELSE rest
<1>1. len \in Nat /\ BufferSize \in Nat
  BY SizesAssumption DEF IsSequence
<1>2. len - taken \in 0..len
  BY <1>1
<1>3. IsSequence(rest) /\ Len(rest) <= BufferSize
  <2> HIDE DEF taken
  <2>1. QED
    BY <1>1, <1>2, Cutting
<1>4. IsSequence(letter) /\ Len(letter) <= BufferSize
  <2> HIDE DEF rest
  <2>1. QED
    BY <1>3, PutFits
<1>5. Hash(buf, base, prec, width, flags) = Put(letter, "0")
  BY DEF Hash
<1> HIDE DEF letter
<1>6. QED
  BY <1>4, <1>5, PutFits

(* A sign is one character, if there is one (printf.c:268-276).            *)
LEMMA SignShort ==
  ASSUME NEW negative, NEW flags
  PROVE  IsSequence(Sign(negative, flags)) /\ Len(Sign(negative, flags)) <= 1
<1>1. Sign(negative, flags) \in {<<"-">>, <<"+">>, <<" ">>, << >>}
  BY DEF Sign
<1>2. \A x : IsSequence(<<x>>) /\ Len(<<x>>) <= 1
  BY DEF IsSequence
<1>3. IsSequence(<< >>) /\ Len(<< >>) <= 1
  BY Short
<1>4. QED
  BY <1>1, <1>2, <1>3

(* The width that zeros fill is a number.                                  *)
LEMMA ZeroWidthType ==
  ASSUME NEW negative, NEW width \in Int, NEW flags
  PROVE  ZeroWidth(negative, width, flags) \in Int
BY DEF ZeroWidth

(* _ntoa_format: digits, zeros, prefix and sign never leave the buffer,    *)
(* for any value, base, width, precision and flags (printf.c:230-280).     *)
LEMMA NtoaFits ==
  ASSUME NEW value, NEW base, NEW prec \in Int, NEW width \in Int, NEW allFlags
  PROVE  IsSequence(NtoaBuffer(value, base, prec, width, allFlags))
           /\ Len(NtoaBuffer(value, base, prec, width, allFlags)) <= BufferSize
<1> DEFINE flags == IF value = 0 THEN allFlags \ {"#"} ELSE allFlags
           negative == value < 0
           digits == NtoaDigits(Abs(value), base, flags)
           w == ZeroWidth(negative, width, flags)
           precise == IF "-" \in flags THEN digits ELSE PadZeros(digits, prec)
           padded == IF "-" \notin flags /\ "0" \in flags THEN PadZeros(precise, w) ELSE precise
           hashed == IF "#" \in flags THEN Hash(padded, base, prec, w, flags) ELSE padded
           buffer == IF Len(hashed) < BufferSize THEN hashed \o Sign(negative, flags) ELSE hashed
           Fits(b) == IsSequence(b) /\ Len(b) <= BufferSize
<1>1. NtoaBuffer(value, base, prec, width, allFlags) = buffer
  BY DEF NtoaBuffer, NtoaFormat
<1> HIDE DEF flags, negative
<1>2. BufferSize \in Nat \ {0}
  BY SizesAssumption
<1>3. Fits(digits)
  BY <1>2, DigitsFit, Short DEF NtoaDigits
<1>4. w \in Int
  BY ZeroWidthType
<1> HIDE DEF digits, w
<1>5. Fits(precise)
  BY <1>3, PadZerosFit
<1> HIDE DEF precise
<1>6. Fits(padded)
  BY <1>4, <1>5, PadZerosFit
<1> HIDE DEF padded
<1>7. Fits(hashed)
  BY <1>6, HashFits
<1> HIDE DEF hashed
<1>8. Fits(buffer)
  <2>1. CASE Len(hashed) < BufferSize
    <3>1. /\ IsSequence(Sign(negative, flags)) /\ Len(Sign(negative, flags)) <= 1
          /\ Len(Sign(negative, flags)) \in Nat /\ Len(hashed) \in Nat
      BY <1>7, SignShort DEF IsSequence
    <3>2. QED
      BY <1>2, <1>7, <2>1, <3>1, Concatenation
  <2>2. CASE ~(Len(hashed) < BufferSize)
    BY <1>7, <2>2
  <2>3. QED
    BY <2>1, <2>2
<1>9. QED
  BY <1>1, <1>8

-----------------------------------------------------------------------------
(* The other pieces put out sequences of characters.                       *)

(* _out_rev (printf.c:202-226).                                            *)
LEMMA OutRevIsSequence ==
  ASSUME NEW buf, IsSequence(buf), NEW width \in Int, NEW flags
  PROVE  IsSequence(OutRev(buf, width, flags))
<1> DEFINE spaces == Repeat(" ", width - Len(buf))
<1>1. IsSequence(spaces) /\ IsSequence(Reverse(buf))
  <2>1. width - Len(buf) \in Int
    BY DEF IsSequence
  <2>2. QED
    BY <2>1, Repetition, Reversal
<1>2. OutRev(buf, width, flags)
        = IF "-" \in flags THEN Reverse(buf) \o spaces
          ELSE IF "0" \in flags THEN Reverse(buf) ELSE spaces \o Reverse(buf)
  BY DEF OutRev
<1> HIDE DEF spaces
<1>3. QED
  BY <1>1, <1>2, Concatenation

(* The spaces around %c and %s (printf.c:780-794).                         *)
LEMMA PadIsSequence ==
  ASSUME NEW chars, IsSequence(chars), NEW width \in Int, NEW flags
  PROVE  IsSequence(Pad(chars, width, flags))
<1> DEFINE spaces == Repeat(" ", width - Len(chars))
<1>1. IsSequence(spaces)
  <2>1. width - Len(chars) \in Int
    BY DEF IsSequence
  <2>2. QED
    BY <2>1, Repetition
<1>2. Pad(chars, width, flags) = IF "-" \in flags THEN chars \o spaces ELSE spaces \o chars
  BY DEF Pad
<1> HIDE DEF spaces
<1>3. QED
  BY <1>1, <1>2, Concatenation

(* A precision leaves the beginning of a string (printf.c:174-179,         *)
(* 799-806).                                                               *)
LEMMA CutStringIsSequence ==
  ASSUME NEW string, IsSequence(string), NEW prec \in Nat, NEW flags
  PROVE  IsSequence(CutString(string, prec, flags))
<1>1. Len(string) \in Nat
  BY DEF IsSequence
<1>2. Smaller(prec, Len(string)) \in 0..Len(string)
  BY <1>1 DEF Smaller
<1>3. QED
  BY <1>2, Cutting DEF CutString

(* The texts of what is not a number (printf.c:351-357).                   *)
LEMMA SpecialIsSequence ==
  ASSUME NEW kind \in {"nan", "inf", "neginf"}, NEW flags
  PROVE  IsSequence(Special(kind, flags))
<1>1. Special(kind, flags) \in
        {<<"n", "a", "n">>, <<"f", "n", "i", "-">>, <<"f", "n", "i", "+">>, <<"f", "n", "i">>}
  BY DEF Special
<1>2. QED
  BY <1>1, Short

(* _ftoa: what it leaves in its buffer (printf.c:369-465).                 *)
LEMMA FtoaIsSequence ==
  ASSUME NEW value, NEW given \in Nat, NEW width \in Int, NEW flags
  PROVE  IsSequence(FtoaBuffer(value, given, width, flags))
<1> DEFINE wanted == FtoaWanted(given, flags)
           prec == FtoaPrecision(wanted)
           rounded == FtoaRound(Abs(value), prec)
           digits == Digits(rounded.frac, 10, FALSE, FtoaSize)
           missing == IF Len(digits) > prec THEN FtoaSize ELSE prec - Len(digits)
           fraction == IF prec = 0 THEN << >> ELSE digits \o Repeat("0", missing) \o <<".">>
           whole == Digits(rounded.whole, 10, FALSE, FtoaSize)
           number == Repeat("0", FtoaLowered(wanted)) \o fraction \o whole
           zeros == IF "-" \notin flags /\ "0" \in flags
                      THEN Repeat("0", ZeroWidth(value < 0, width, flags) - Len(number)) ELSE << >>
           all == number \o zeros \o Sign(value < 0, flags)
<1>1. FtoaBuffer(value, given, width, flags)
        = IF FtoaLowered(wanted) = FtoaSize THEN Repeat("0", FtoaSize)
          ELSE SubSeq(all, 1, Smaller(Len(all), FtoaSize))
  BY DEF FtoaBuffer
<1>2. FtoaSize \in Nat \ {0} /\ FtoaLowered(wanted) \in Nat /\ prec \in Nat
  BY SizesAssumption DEF FtoaWanted, FtoaLowered, FtoaPrecision, Smaller, Larger
<1>3. IsSequence(digits) /\ IsSequence(whole)
  <2> HIDE DEF rounded
  <2>1. QED
    BY <1>2, DigitsFit
<1> HIDE DEF wanted, prec, digits, whole
<1>4. missing \in Int /\ FtoaLowered(wanted) \in Int /\ FtoaSize \in Int
  BY <1>2, <1>3 DEF IsSequence
<1> HIDE DEF missing
<1>5. IsSequence(fraction)
  BY <1>3, <1>4, Repetition, Concatenation, Short
<1> HIDE DEF fraction
<1>6. IsSequence(number)
  BY <1>3, <1>4, <1>5, Repetition, Concatenation
<1> HIDE DEF number
<1>7. IsSequence(zeros)
  <2>1. ZeroWidth(value < 0, width, flags) - Len(number) \in Int
    BY <1>6, ZeroWidthType DEF IsSequence
  <2>2. QED
    BY <2>1, Repetition, Short
<1> HIDE DEF zeros
<1>8. IsSequence(all)
  BY <1>6, <1>7, SignShort, Concatenation
<1> HIDE DEF all
<1>9. Smaller(Len(all), FtoaSize) \in 0..Len(all)
  BY <1>2, <1>8 DEF IsSequence, Smaller
<1>10. IsSequence(SubSeq(all, 1, Smaller(Len(all), FtoaSize)))
  BY <1>8, <1>9, Cutting
<1>11. IsSequence(Repeat("0", FtoaSize))
  BY <1>4, Repetition
<1>12. QED
  BY <1>1, <1>10, <1>11

-----------------------------------------------------------------------------
(* The loops.                                                              *)

(* The factors of a power, one by one.                                     *)
LEMMA PowerLoop ==
  ASSUME NEW base \in Nat, NEW n \in Nat
  PROVE  \E f \in [0..n -> Nat] :
           f[0] = 1 /\ Power(base, n) = f[n] /\ \A k \in 1..n : f[k] = base * f[k - 1]
<1> DEFINE step == [k \in 1..n |-> [x \in Nat |-> base * x]]
<1>1. step \in Steps(n, Nat)
  <2>1. \A x \in Nat : base * x \in Nat
    OBVIOUS
  <2>2. QED
    BY <2>1 DEF Steps
<1>2. PICK f \in [0..n -> Nat] : f[0] = 1 /\ \A k \in 1..n : f[k] = step[k][f[k - 1]]
  <2> HIDE DEF step
  <2>1. \E f : f \in Iterations(n, Nat, 1, step)
    BY <1>1, Recursion
  <2>2. QED
    BY <2>1 DEF Iterations
<1>3. \A k \in 1..n : f[k] = base * f[k - 1]
  <2>1. \A k \in 1..n : f[k - 1] \in Nat
    BY <1>2
  <2>2. QED
    BY <1>2, <2>1
<1> DEFINE rhs(g) == [k \in 0..n |-> IF k = 0 THEN 1 ELSE base * g[k - 1]]
           Is(g) == g = rhs(g)
           power == CHOOSE g : Is(g)
<1>4. Is(f)
  <2> HIDE DEF step
  <2>1. ASSUME NEW k \in 0..n PROVE f[k] = rhs(f)[k]
    BY <1>2, <1>3
  <2>2. QED
    BY <2>1
<1>5. Power(base, n) = power[n]
  BY DEF Power
<1>6. Is(power)
  <2> HIDE DEF Is
  <2>1. QED
    BY <1>4
<1>7. /\ power = [k \in 0..n |-> power[k]] /\ power[0] = 1
      /\ \A k \in 1..n : power[k] = base * power[k - 1]
  <2> HIDE DEF power
  <2>1. power = rhs(power)
    BY <1>6
  <2>2. power = [k \in 0..n |-> power[k]]
    BY <2>1
  <2>3. \A k \in 0..n : power[k] = IF k = 0 THEN 1 ELSE base * power[k - 1]
    BY <2>1
  <2> HIDE DEF rhs
  <2>4. power[0] = 1
    BY <2>3
  <2>5. \A k \in 1..n : power[k] = base * power[k - 1]
    BY <2>3
  <2>6. QED
    BY <2>2, <2>4, <2>5
<1> HIDE DEF power
<1>8. power = f
  <2> DEFINE T == {k \in 0..n : power[k] = f[k]}
  <2>1. 0 \in T
    BY <1>2, <1>7
  <2>2. ASSUME NEW k \in 1..n, k - 1 \in T PROVE k \in T
    <3>1. power[k] = base * power[k - 1] /\ f[k] = base * f[k - 1] /\ power[k - 1] = f[k - 1]
      BY <1>3, <1>7, <2>2
    <3>2. QED
      BY <3>1
  <2>3. 0..n \subseteq T
    <3> HIDE DEF T
    <3>1. QED
      BY <2>1, <2>2, SegmentInduction
  <2>4. QED
    BY <1>2, <1>7, <2>3
<1>9. QED
  BY <1>2, <1>3, <1>5, <1>8

(* A power is the product of base and the power before it.                 *)
LEMMA PowerDef ==
  ASSUME NEW base \in Nat \ {0}
  PROVE  /\ Power(base, 0) = 1
         /\ \A n \in Nat : Power(base, n + 1) = base * Power(base, n)
         /\ \A n \in Nat : Power(base, n) \in Nat \ {0}
<1>1. Power(base, 0) = 1
  BY PowerLoop
<1>2. ASSUME NEW n \in Nat PROVE Power(base, n + 1) = base * Power(base, n)
  <2>1. PICK f \in [0..n -> Nat] :
          f[0] = 1 /\ Power(base, n) = f[n] /\ \A k \in 1..n : f[k] = base * f[k - 1]
    BY PowerLoop
  <2>2. PICK g \in [0..n + 1 -> Nat] :
          g[0] = 1 /\ Power(base, n + 1) = g[n + 1] /\ \A k \in 1..n + 1 : g[k] = base * g[k - 1]
    <3>1. n + 1 \in Nat
      OBVIOUS
    <3> DEFINE m == n + 1
    <3> HIDE DEF m
    <3>2. \E g \in [0..m -> Nat] :
            g[0] = 1 /\ Power(base, m) = g[m] /\ \A k \in 1..m : g[k] = base * g[k - 1]
      BY <3>1, PowerLoop DEF m
    <3>3. QED
      BY <3>2 DEF m
  <2> DEFINE T == {k \in 0..n : g[k] = f[k]}
  <2>3. 0 \in T
    BY <2>1, <2>2
  <2>4. ASSUME NEW k \in 1..n, k - 1 \in T PROVE k \in T
    <3>1. k \in 1..n + 1
      OBVIOUS
    <3>2. g[k] = base * g[k - 1] /\ f[k] = base * f[k - 1] /\ g[k - 1] = f[k - 1]
      BY <2>1, <2>2, <2>4, <3>1
    <3>3. QED
      BY <3>2
  <2>5. 0..n \subseteq T
    <3> HIDE DEF T
    <3>1. QED
      BY <2>3, <2>4, SegmentInduction
  <2>6. g[n] = f[n] /\ g[n + 1] = base * g[n]
    <3>1. n \in 0..n /\ n + 1 \in 1..n + 1 /\ n + 1 - 1 = n
      OBVIOUS
    <3>2. QED
      BY <2>2, <2>5, <3>1
  <2>7. QED
    BY <2>1, <2>2, <2>6
<1>3. \A n \in Nat : Power(base, n) \in Nat \ {0}
  <2> DEFINE T == {n \in Nat : Power(base, n) \in Nat \ {0}}
  <2>1. 0 \in T
    BY <1>1
  <2>2. ASSUME NEW n \in T PROVE n + 1 \in T
    <3>1. Power(base, n) \in Nat \ {0} /\ Power(base, n + 1) = base * Power(base, n)
      BY <1>2
    <3>2. \A x \in Nat \ {0} : base * x \in Nat \ {0}
      OBVIOUS
    <3>3. QED
      BY <3>1, <3>2
  <2> HIDE DEF T
  <2>3. T \in SUBSET Nat
    BY DEF T
  <2>4. T = Nat
    BY <2>1, <2>2, <2>3, NatSetInduction
  <2>5. QED
    BY <2>4 DEF T
<1>4. QED
  BY <1>1, <1>2, <1>3

(* The sizes of the types.                                                 *)
LEMMA SizesOfTypes ==
  \A type \in DOMAIN Bits : Power(2, Bits[type]) \in Nat \ {0}
<1>1. \A type \in DOMAIN Bits : Bits[type] \in Nat
  BY SizesAssumption
<1>2. \A n \in Nat : Power(2, n) \in Nat \ {0}
  BY PowerDef
<1>3. QED
  BY <1>1, <1>2

(* A width or a precision of decimal digits is a natural number: the loop  *)
(* of _atoi wraps, and never gets negative (printf.c:191-198).             *)
LEMMA AtoiType ==
  ASSUME NEW digits \in Seq(0..9)
  PROVE  Atoi(digits) \in Nat
<1> DEFINE n == Len(digits)
           M == Power(2, Bits["int"])
           step == [k \in 1..n |-> [x \in Nat |-> (x * 10 + digits[k]) % M]]
<1>1. n \in Nat /\ 0 \in Nat
  OBVIOUS
<1>2. \A k \in 1..n : digits[k] \in 0..9
  OBVIOUS
<1>3. M \in Nat \ {0}
  BY SizesAssumption, SizesOfTypes
<1>4. step \in Steps(n, Nat)
  <2> HIDE DEF M, n
  <2>1. \A k \in 1..n, x \in Nat : x * 10 + digits[k] \in Nat
    BY <1>2
  <2>2. \A y \in Nat : y % M \in Nat
    BY <1>3
  <2>3. QED
    BY <2>1, <2>2 DEF Steps
<1>5. PICK f \in [0..n -> Nat] : f[0] = 0 /\ \A k \in 1..n : f[k] = step[k][f[k - 1]]
  <2> HIDE DEF n, step
  <2>1. \E f : f \in Iterations(n, Nat, 0, step)
    BY <1>1, <1>4, Recursion
  <2>2. QED
    BY <2>1 DEF Iterations
<1>6. \A k \in 1..n : f[k - 1] \in Nat /\ f[k] = (f[k - 1] * 10 + digits[k]) % M
  <2> HIDE DEF M
  <2>1. \A k \in 1..n : f[k - 1] \in Nat
    <3> HIDE DEF n, step
    <3>1. \A k \in 1..n : k - 1 \in 0..n
      BY <1>1
    <3>2. QED
      BY <3>1
  <2>2. QED
    BY <1>5, <2>1
<1> DEFINE rhs(g) == [k \in 0..n |-> IF k = 0 THEN 0 ELSE (g[k - 1] * 10 + digits[k]) % M]
           Is(g) == g = rhs(g)
           i == CHOOSE g : Is(g)
<1>7. Is(f)
  <2> HIDE DEF step, M
  <2>1. ASSUME NEW k \in 0..n PROVE f[k] = rhs(f)[k]
    BY <1>1, <1>5, <1>6
  <2> HIDE DEF n
  <2>2. QED
    BY <2>1
<1>8. Atoi(digits) = i[n]
  BY DEF Atoi
<1>9. Is(i)
  <2> HIDE DEF Is
  <2>1. QED
    BY <1>7
<1>10. i[n] \in Nat
  <2> HIDE DEF i, M
  <2>1. CASE n = 0
    BY <1>9, <2>1
  <2>2. CASE n # 0
    <3>1. n \in 1..n
      BY <1>1, <2>2
    <3> DEFINE T == {k \in 0..n : i[k] \in Nat}
    <3>2. 0 \in T
      BY <1>1, <1>9
    <3>3. ASSUME NEW k \in 1..n, k - 1 \in T PROVE k \in T
      <4>1. i[k] = (i[k - 1] * 10 + digits[k]) % M
        BY <1>1, <1>9
      <4>2. i[k - 1] \in Nat /\ digits[k] \in Nat
        BY <1>2, <3>3
      <4>3. QED
        BY <1>3, <4>1, <4>2
    <3> HIDE DEF n, T, Is
    <3>4. 0..n \subseteq T
      BY <1>1, <3>2, <3>3, SegmentInduction
    <3>5. QED
      BY <3>1, <3>4 DEF T
  <2>3. QED
    BY <2>1, <2>2
<1>11. QED
  BY <1>8, <1>10

(* The characters sent, one by one: each is sent unless it is a NUL        *)
(* (_out_char, printf.c:152-157).                                          *)
LEMMA WithoutNulDef ==
  ASSUME NEW S, NEW s \in Seq(S)
  PROVE  \E f \in [0..Len(s) -> Seq(S)] :
    /\ f[0] = << >> /\ WithoutNul(s) = f[Len(s)]
    /\ \A k \in 1..Len(s) : f[k] = IF s[k] = NUL THEN f[k - 1] ELSE Append(f[k - 1], s[k])
<1> DEFINE n == Len(s)
           D == Seq(S)
           step == [k \in 1..n |-> [x \in D |-> IF s[k] = NUL THEN x ELSE Append(x, s[k])]]
<1>1. n \in Nat /\ << >> \in D
  OBVIOUS
<1>2. step \in Steps(n, D)
  BY DEF Steps
<1>3. PICK f \in [0..n -> D] : f[0] = << >> /\ \A k \in 1..n : f[k] = step[k][f[k - 1]]
  <2> HIDE DEF n, D, step
  <2>1. \E f : f \in Iterations(n, D, << >>, step)
    BY <1>1, <1>2, Recursion
  <2>2. QED
    BY <2>1 DEF Iterations
<1>4. \A k \in 1..n : f[k - 1] \in D /\ f[k] = IF s[k] = NUL THEN f[k - 1] ELSE Append(f[k - 1], s[k])
  <2> HIDE DEF D
  <2>1. \A k \in 1..n : f[k - 1] \in D
    BY <1>1, <1>3
  <2>2. QED
    BY <1>3, <2>1
<1> DEFINE rhs(g) == [k \in 0..n |-> IF k = 0 THEN << >>
                       ELSE IF s[k] = NUL THEN g[k - 1] ELSE Append(g[k - 1], s[k])]
           Is(g) == g = rhs(g)
           kept == CHOOSE g : Is(g)
<1>5. Is(f)
  <2> HIDE DEF D, step
  <2>1. ASSUME NEW k \in 0..n PROVE f[k] = rhs(f)[k]
    <3>1. CASE k = 0
      BY <1>3, <3>1
    <3>2. CASE k # 0
      <4>1. k \in 1..n
        BY <1>1, <3>2
      <4>2. rhs(f)[k] = IF s[k] = NUL THEN f[k - 1] ELSE Append(f[k - 1], s[k])
        BY <3>2
      <4> HIDE DEF rhs
      <4>3. QED
        BY <1>4, <4>1, <4>2
    <3>3. QED BY <3>1, <3>2
  <2> HIDE DEF n
  <2>2. QED BY <2>1
<1>6. WithoutNul(s) = kept[n]
  BY DEF WithoutNul
<1>7. Is(kept)
  <2> HIDE DEF Is
  <2>2. QED BY <1>5
<1> HIDE DEF kept
<1>8. kept[0] = << >> /\ \A k \in 1..n : kept[k] = IF s[k] = NUL THEN kept[k - 1] ELSE Append(kept[k - 1], s[k])
  <2>1. kept = rhs(kept)
    BY <1>7
  <2>2. rhs(kept)[0] = << >>
    BY <1>1
  <2>3. ASSUME NEW k \in 1..n
        PROVE rhs(kept)[k] = IF s[k] = NUL THEN kept[k - 1] ELSE Append(kept[k - 1], s[k])
    BY <1>1
  <2> HIDE DEF rhs
  <2>4. QED
    BY <2>1, <2>2, <2>3
<1>10. \A k \in 0..n : kept[k] = f[k]
  <2> DEFINE T == {k \in 0..n : kept[k] = f[k]}
  <2> HIDE DEF n, step, D
  <2>1. 0 \in T
    BY <1>1, <1>3, <1>8
  <2>2. ASSUME NEW k \in 1..n, k - 1 \in T PROVE k \in T
    BY <1>1, <1>4, <1>8, <2>2
  <2>3. QED
    <3> HIDE DEF T
    <3>1. 0..n \subseteq T
      BY <1>1, <2>1, <2>2, SegmentInduction
    <3>2. QED BY <3>1 DEF T
<1>9. QED
  <2> HIDE DEF kept
  <2>1. QED BY <1>1, <1>3, <1>4, <1>6, <1>10

(* A field has at most one star.                                           *)
LEMMA StarsType == \A field : Stars(field) \in 0..1
BY DEF Stars

(* A piece takes at most three arguments: width, precision and value.      *)
LEMMA ArgsOfType == \A piece : ArgsOf(piece) \in 0..3
<1>1. ASSUME NEW piece PROVE ArgsOf(piece) \in 0..3
  <2>1. Stars(piece.width) \in 0..1 /\ Stars(piece.precision) \in 0..1
    BY StarsType
  <2>2. QED
    BY <2>1 DEF ArgsOf
<1>2. QED
  BY <1>1

(* The arguments of the pieces, added up one by one.                       *)
LEMMA ArgsBeforeDef ==
  ASSUME NEW c, IsSequence(c.format)
  PROVE  /\ ArgsBefore(c)[0] = 0
         /\ \A k \in 0..Len(c.format) : ArgsBefore(c)[k] \in Nat
         /\ \A k \in 1..Len(c.format) :
              ArgsBefore(c)[k] = ArgsBefore(c)[k - 1] + ArgsOf(c.format[k])
<1> DEFINE n == Len(c.format)
           args(k) == ArgsOf(c.format[k])
           step == [k \in 1..n |-> [x \in Nat |-> x + args(k)]]
<1>1. n \in Nat /\ 0 \in Nat
  BY DEF IsSequence
<1>2. \A k : args(k) \in Nat
  BY ArgsOfType
<1>3. step \in Steps(n, Nat)
  <2> HIDE DEF n, args
  <2>1. QED
    BY <1>2 DEF Steps
<1>4. PICK f \in [0..n -> Nat] : f[0] = 0 /\ \A k \in 1..n : f[k] = step[k][f[k - 1]]
  <2> HIDE DEF n, step
  <2>1. \E f : f \in Iterations(n, Nat, 0, step)
    BY <1>1, <1>3, Recursion
  <2>2. QED
    BY <2>1 DEF Iterations
<1>5. \A k \in 1..n : f[k - 1] \in Nat /\ f[k] = f[k - 1] + args(k)
  <2> HIDE DEF n, args
  <2>1. \A k \in 1..n : f[k - 1] \in Nat
    BY <1>1
  <2>2. QED
    BY <1>4, <2>1
<1> DEFINE rhs(g) == [k \in 0..n |-> IF k = 0 THEN 0 ELSE g[k - 1] + args(k)]
           Is(g) == g = rhs(g)
           taken == CHOOSE g : Is(g)
<1>6. Is(f)
  <2> HIDE DEF args, step, n
  <2>1. ASSUME NEW k \in 0..n PROVE f[k] = rhs(f)[k]
    BY <1>1, <1>4, <1>5
  <2>2. QED
    BY <2>1
<1>7. ArgsBefore(c) = taken
  BY DEF ArgsBefore
<1>8. Is(taken)
  <2> HIDE DEF Is
  <2>1. QED
    BY <1>6
<1> HIDE DEF taken, args, n
<1>9. taken[0] = 0 /\ \A k \in 1..n : taken[k] = taken[k - 1] + args(k)
  BY <1>1, <1>8
<1>10. \A k \in 0..n : taken[k] \in Nat
  <2> DEFINE T == {k \in 0..n : taken[k] \in Nat}
  <2>1. 0 \in T
    BY <1>1, <1>9
  <2>2. ASSUME NEW k \in 1..n, k - 1 \in T PROVE k \in T
    BY <1>1, <1>2, <1>9, <2>2
  <2>3. 0..n \subseteq T
    <3> HIDE DEF T
    <3>1. QED
      BY <1>1, <2>1, <2>2, SegmentInduction
  <2>4. QED
    BY <2>3
<1>11. QED
  BY <1>7, <1>9, <1>10 DEF args, n

(* What is sent of a text is a text.                                       *)
LEMMA WithoutNulType ==
  ASSUME NEW s, IsSequence(s)
  PROVE  IsSequence(WithoutNul(s))
<1>1. s \in Seq(Range(s)) /\ Len(s) \in Nat
  BY ToSeq DEF IsSequence
<1> DEFINE S == Range(s)
<1> HIDE DEF S
<1>2. PICK f \in [0..Len(s) -> Seq(S)] : WithoutNul(s) = f[Len(s)]
  BY <1>1, WithoutNulDef DEF S
<1>3. WithoutNul(s) \in Seq(S)
  BY <1>1, <1>2
<1>4. QED
  BY <1>3, OfSeq

(* The terminator is not sent (printf.c:855-856).                          *)
LEMMA NulIsNotSent == WithoutNul(<<NUL>>) = << >>
<1>1. <<NUL>> \in Seq({NUL}) /\ Len(<<NUL>>) = 1 /\ <<NUL>>[1] = NUL
  OBVIOUS
<1> DEFINE s == <<NUL>>
           S == {NUL}
<1> HIDE DEF s, S
<1>2. PICK f \in [0..Len(s) -> Seq(S)] :
        /\ f[0] = << >> /\ WithoutNul(s) = f[Len(s)]
        /\ \A k \in 1..Len(s) : f[k] = IF s[k] = NUL THEN f[k - 1] ELSE Append(f[k - 1], s[k])
  <2>1. s \in Seq(S)
    BY <1>1 DEF s, S
  <2>2. QED
    BY <2>1, WithoutNulDef
<1>3. f[1] = f[0]
  BY <1>1, <1>2 DEF s
<1>4. QED
  BY <1>1, <1>2, <1>3 DEF s

(* A character behind two texts is one behind the second.                  *)
LEMMA AppendToConcat ==
  ASSUME NEW s, NEW t, NEW x, IsSequence(s), IsSequence(t)
  PROVE  Append(s \o t, x) = s \o Append(t, x)
<1> DEFINE S == Range(s) \cup Range(t) \cup {x}
<1>1. s \in Seq(S) /\ t \in Seq(S) /\ x \in S
  BY ToSeq, SeqMonotonic
<1> HIDE DEF S
<1>2. s \o t \in Seq(S) /\ <<x>> \in Seq(S)
  BY <1>1
<1>3. Append(s \o t, x) = (s \o t) \o <<x>> /\ Append(t, x) = t \o <<x>>
  BY <1>1, <1>2, AppendIsConcat
<1>4. QED
  BY <1>1, <1>2, <1>3, ConcatAssociative

(* Sending two texts is sending the one and then the other, so that the    *)
(* stream does not depend on how a text is divided into pieces.            *)
LEMMA WithoutNulConcat ==
  ASSUME NEW s, NEW t, IsSequence(s), IsSequence(t)
  PROVE  WithoutNul(s \o t) = WithoutNul(s) \o WithoutNul(t)
<1> DEFINE S == Range(s) \cup Range(t)
           m == Len(s)
           n == Len(t)
           st == s \o t
<1>1. s \in Seq(S) /\ t \in Seq(S)
  BY ToSeq, SeqMonotonic
<1>2. m \in Nat /\ n \in Nat
  BY DEF IsSequence
<1>3. /\ st \in Seq(S) /\ Len(st) = m + n
      /\ \A k \in 1..m : st[k] = s[k]
      /\ \A k \in 1..n : st[m + k] = t[k]
  <2> HIDE DEF S
  <2>1. QED
    BY <1>1, <1>2, ConcatProperties
<1> HIDE DEF S, m, n, st
<1>4. PICK f \in [0..m -> Seq(S)] :
        /\ f[0] = << >> /\ WithoutNul(s) = f[m]
        /\ \A k \in 1..m : f[k] = IF s[k] = NUL THEN f[k - 1] ELSE Append(f[k - 1], s[k])
  BY <1>1, WithoutNulDef DEF m
<1>5. PICK g \in [0..n -> Seq(S)] :
        /\ g[0] = << >> /\ WithoutNul(t) = g[n]
        /\ \A k \in 1..n : g[k] = IF t[k] = NUL THEN g[k - 1] ELSE Append(g[k - 1], t[k])
  BY <1>1, WithoutNulDef DEF n
<1>6. PICK h \in [0..m + n -> Seq(S)] :
        /\ h[0] = << >> /\ WithoutNul(st) = h[m + n]
        /\ \A k \in 1..m + n : h[k] = IF st[k] = NUL THEN h[k - 1] ELSE Append(h[k - 1], st[k])
  BY <1>3, WithoutNulDef
<1>7. h[m] = f[m]
  <2> DEFINE T == {k \in 0..m : h[k] = f[k]}
  <2>1. 0 \in T
    BY <1>2, <1>4, <1>6
  <2>2. ASSUME NEW k \in 1..m, k - 1 \in T PROVE k \in T
    <3>1. h[k] = IF s[k] = NUL THEN h[k - 1] ELSE Append(h[k - 1], s[k])
      <4>1. k \in 1..m + n
        BY <1>2
      <4>2. QED
        BY <1>3, <1>6, <4>1
    <3>2. h[k - 1] = f[k - 1]
      BY <2>2
    <3>3. h[k] = f[k]
      BY <1>4, <3>1, <3>2
    <3>4. QED
      BY <1>2, <3>3
  <2>3. 0..m \subseteq T
    <3> HIDE DEF T
    <3>1. QED
      BY <1>2, <2>1, <2>2, SegmentInduction
  <2>4. QED
    BY <1>2, <2>3
<1>8. h[m + n] = f[m] \o g[n]
  <2> DEFINE T == {k \in 0..n : h[m + k] = f[m] \o g[k]}
  <2>0. f[m] \in Seq(S)
    BY <1>2
  <2>1. 0 \in T
    <3>1. f[m] \o << >> = f[m]
      BY <2>0
    <3>2. m + 0 = m /\ 0 \in 0..n
      BY <1>2
    <3>3. h[m + 0] = f[m] \o g[0]
      BY <1>5, <1>7, <3>1, <3>2
    <3>4. QED
      BY <3>2, <3>3
  <2>2. ASSUME NEW k \in 1..n, k - 1 \in T PROVE k \in T
    <3>1. h[m + k] = IF t[k] = NUL THEN h[m + (k - 1)] ELSE Append(h[m + (k - 1)], t[k])
      <4>1. m + k \in 1..m + n /\ (m + k) - 1 = m + (k - 1)
        BY <1>2
      <4>2. QED
        BY <1>3, <1>6, <4>1
    <3>2. h[m + (k - 1)] = f[m] \o g[k - 1]
      BY <2>2
    <3>3. g[k - 1] \in Seq(S) /\ t[k] \in S
      <4>1. k - 1 \in 0..n
        BY <1>2
      <4>2. t[k] \in S
        BY <1>1 DEF n
      <4>3. QED
        BY <4>1, <4>2
    <3>4. Append(f[m] \o g[k - 1], t[k]) = f[m] \o Append(g[k - 1], t[k])
      <4> DEFINE a == f[m]
                 b == g[k - 1]
                 x == t[k]
      <4>1. IsSequence(a) /\ IsSequence(b)
        BY <2>0, <3>3, OfSeq
      <4> HIDE DEF a, b, x
      <4>2. Append(a \o b, x) = a \o Append(b, x)
        BY ONLY <4>1, AppendToConcat
      <4>3. QED
        BY <4>2 DEF a, b, x
    <3>5. h[m + k] = f[m] \o g[k]
      BY <1>5, <3>1, <3>2, <3>4
    <3>6. k \in 0..n
      BY <1>2
    <3>7. QED
      BY <3>5, <3>6, Zenon
  <2>3. 0..n \subseteq T
    <3> HIDE DEF T
    <3>1. QED
      BY <1>2, <2>1, <2>2, SegmentInduction
  <2>4. QED
    BY <1>2, <2>3
<1>9. QED
  BY <1>4, <1>5, <1>6, <1>7, <1>8 DEF st

-----------------------------------------------------------------------------

-----------------------------------------------------------------------------
(* The inductive invariant.                                                *)

(* va is at the first argument of the next piece.                          *)
ArgumentsTaken == arg = ArgsBefore(call)[pos - 1] + 1

(* Before the terminator is written, the memory holds the text so far, as  *)
(* much of it as the count allows, and nothing else is written.            *)
BufferSoFar ==
  ret = -1 /\ out = "buffer" =>
    \A k \in DOMAIN mem :
      mem[k] = IF k < idx /\ k < maxlen THEN text[k + 1] ELSE "garbage"

(* The inductive invariant.                                                *)
IInv ==
  /\ TypeOK /\ call \in Calls /\ IsSequence(text)
  /\ ArgumentsTaken
  /\ ret # -1 => pos = Len(call.format) + 1
  /\ BufferSoFar /\ BufferIsCutText /\ SentIsText

(* A signed value is a number.                                             *)
LEMMA SignedType ==
  ASSUME NEW n \in Int
  PROVE  Signed(n, Bits["int"]) \in Int
<1> DEFINE M == Power(2, Bits["int"])
<1>1. M \in Nat \ {0}
  BY SizesAssumption, SizesOfTypes
<1>2. Signed(n, Bits["int"]) = IF 2 * (n % M) >= M THEN (n % M) - M ELSE n % M
  BY DEF Signed, Unsigned
<1> HIDE DEF M
<1>3. n % M \in Int
  BY <1>1
<1>4. QED
  BY <1>1, <1>2, <1>3

(* The next piece, if there is one, has its arguments (CallsAssumption).   *)
LEMMA ArgumentsDefined ==
  ASSUME call \in Calls, pos \in 1..Len(call.format) + 1, ArgumentsTaken
  PROVE  /\ IsSequence(call.format) /\ IsSequence(call.args)
         /\ arg \in 1..Len(call.args) + 1 /\ arg \in Nat
<1>1. IsDefined(call)
  BY CallsAssumption
<1>2. IsSequence(call.format) /\ IsSequence(call.args)
  BY <1>1 DEF IsDefined
<1>3. Len(call.format) \in Nat /\ Len(call.args) \in Nat
  BY <1>2 DEF IsSequence
<1>4. pos - 1 \in 0..Len(call.format)
  BY <1>3
<1>5. ArgsBefore(call)[pos - 1] \in Nat /\ ArgsBefore(call)[pos - 1] <= Len(call.args)
  BY <1>1, <1>2, <1>4, ArgsBeforeDef DEF IsDefined
<1>6. QED
  BY <1>2, <1>3, <1>5 DEF ArgumentsTaken

(* Width and precision of a directive are natural numbers, also when they  *)
(* come from arguments, and the value is of the kind the specifier wants   *)
(* (printf.c:617-647).                                                     *)
LEMMA FieldsType ==
  ASSUME call \in Calls, pos \in 1..Len(call.format), ArgumentsTaken, IsDirective(Piece)
  PROVE  /\ Width(arg) \in Nat /\ Precision(arg) \in Nat
         /\ ValueAt(arg) - arg = Stars(Piece.width) + Stars(Piece.precision)
         /\ Piece.flags \subseteq FlagChars /\ Piece.length \in DOMAIN LengthFlags
         /\ IsNumber => call.args[ValueAt(arg)] \in Int
         /\ Piece.spec = "s" => IsSequence(call.args[ValueAt(arg)])
         /\ Piece.spec \in FloatSpecs =>
              call.args[ValueAt(arg)].kind \in {"finite", "nan", "inf", "neginf"}
<1> DEFINE first == ArgsBefore(call)[pos - 1] + 1
           value == first + Stars(Piece.width) + Stars(Piece.precision)
<1>1. IsDefined(call)
  BY CallsAssumption
<1>2. /\ Piece.flags \subseteq FlagChars /\ Piece.length \in DOMAIN LengthFlags
      /\ FieldOK(Piece.width) /\ FieldOK(Piece.precision)
      /\ \A j \in first..value - 1 : call.args[j] \in Int
      /\ IsNumber => call.args[value] \in Int
      /\ Piece.spec = "s" => IsSequence(call.args[value])
      /\ Piece.spec \in FloatSpecs => call.args[value].kind \in {"finite", "nan", "inf", "neginf"}
  BY <1>1 DEF IsDefined, Piece, IsNumber
<1>3. Stars(Piece.width) \in 0..1 /\ Stars(Piece.precision) \in 0..1
  BY StarsType
<1>4. Len(call.format) \in Nat
  BY <1>1 DEF IsDefined, IsSequence
<1>5. arg \in Nat /\ arg = first
  BY <1>4, ArgumentsDefined DEF ArgumentsTaken
<1>6. ValueAt(arg) = value /\ PrecisionAt(arg) = arg + Stars(Piece.width)
  BY <1>5 DEF ValueAt, PrecisionAt
<1>7. WidthField(arg) \in Int
  <2>1. CASE Piece.width = Star
    <3>1. arg \in first..value - 1
      BY <1>3, <1>5, <2>1 DEF Stars
    <3>2. IntArg(arg) \in Int
      BY <1>2, <3>1, SignedType DEF IntArg
    <3>3. QED
      BY <2>1, <3>2 DEF WidthField
  <2>2. CASE Piece.width = Absent /\ Piece.width # Star
    BY <2>2 DEF WidthField
  <2>3. CASE Piece.width # Absent /\ Piece.width # Star
    BY <1>2, <2>3, AtoiType DEF WidthField, FieldOK
  <2>4. QED
    BY <2>1, <2>2, <2>3
<1>8. Precision(arg) \in Nat
  <2>1. CASE Piece.precision = Star
    <3>1. PrecisionAt(arg) \in first..value - 1
      BY <1>3, <1>5, <1>6, <2>1 DEF Stars
    <3>2. IntArg(PrecisionAt(arg)) \in Int
      BY <1>2, <3>1, SignedType DEF IntArg
    <3>3. QED
      BY <2>1, <3>2 DEF Precision, Larger
  <2>2. CASE Piece.precision = Absent /\ Piece.precision # Star
    BY <2>2 DEF Precision
  <2>3. CASE Piece.precision # Absent /\ Piece.precision # Star
    BY <1>2, <2>3, AtoiType DEF Precision, FieldOK
  <2>4. QED
    BY <2>1, <2>2, <2>3
<1>9. Width(arg) \in Nat
  BY <1>7 DEF Width, Abs
<1>10. QED
  <2>1. ValueAt(arg) - arg = Stars(Piece.width) + Stars(Piece.precision)
    BY <1>3, <1>5, <1>6
  <2>2. QED
    BY <1>2, <1>6, <1>8, <1>9, <2>1

(* The buffers of the integers and of pointers (printf.c:686-756,          *)
(* 825-841).                                                               *)
LEMMA NumberBuffers ==
  ASSUME call \in Calls, pos \in 1..Len(call.format), ArgumentsTaken, IsDirective(Piece)
  PROVE  /\ IsSequence(IntegerBuffer(arg)) /\ Len(IntegerBuffer(arg)) <= BufferSize
         /\ IsSequence(PointerBuffer(arg)) /\ Len(PointerBuffer(arg)) <= BufferSize
<1>1. Precision(arg) \in Int /\ Width(arg) \in Int
  BY FieldsType
<1>2. PointerDigits \in Int
  BY SizesAssumption DEF PointerDigits
<1>3. QED
  BY <1>1, <1>2, NtoaFits DEF IntegerBuffer, PointerBuffer

(* Each step before the terminator puts out some text for the piece and    *)
(* takes the arguments that are its own.                                   *)
LEMMA PieceStep ==
  ASSUME call \in Calls, pos \in 1..Len(call.format) + 1, ArgumentsTaken, Literal \/ Convert
  PROVE  /\ pos \in 1..Len(call.format)
         /\ \E chars : IsSequence(chars) /\ Emit(chars, ArgsOf(Piece))
<1>1. Len(call.format) \in Nat
  BY ArgumentsDefined DEF IsSequence
<1>2. pos \in 1..Len(call.format)
  BY <1>1 DEF Literal, Convert
<1>3. CASE Literal
  <2>1. IsSequence(<<Piece.char>>)
    BY Short
  <2>2. ArgsOf(Piece) = 0
    BY <1>3 DEF Literal, ArgsOf
  <2>3. QED
    BY <1>2, <1>3, <2>1, <2>2 DEF Literal
<1>4. CASE Convert
  <2>1. IsDirective(Piece)
    BY <1>4 DEF Convert
  <2>2. /\ Width(arg) \in Int /\ Precision(arg) \in Nat /\ arg \in Nat
        /\ ValueAt(arg) - arg = Stars(Piece.width) + Stars(Piece.precision)
        /\ Stars(Piece.width) \in 0..1 /\ Stars(Piece.precision) \in 0..1
    BY <1>2, <2>1, FieldsType, ArgumentsDefined, StarsType
  <2>3. Piece.spec \in ValueSpecs => ValueAt(arg) + 1 - arg = ArgsOf(Piece)
    BY <2>1, <2>2 DEF ArgsOf, ValueAt, PrecisionAt
  <2>4. CASE Integer
    <3>1. IsSequence(OutRev(IntegerBuffer(arg), Width(arg), IntegerFlags(Piece.spec, FlagsOf(arg))))
      BY <1>2, <2>1, <2>2, NumberBuffers, OutRevIsSequence
    <3>2. QED
      BY <1>2, <2>3, <2>4, <3>1 DEF Integer, ValueSpecs
  <2>5. CASE Float
    <3>1. IsSequence(FloatBuffer(arg))
      <4> DEFINE value == call.args[ValueAt(arg)]
      <4>1. value.kind \in {"finite", "nan", "inf", "neginf"}
        BY <1>2, <2>1, <2>5, FieldsType DEF Float
      <4>2. CASE value.kind = "finite"
        BY <2>2, <4>2, FtoaIsSequence DEF FloatBuffer
      <4>3. CASE value.kind # "finite"
        BY <4>1, <4>3, SpecialIsSequence DEF FloatBuffer
      <4>4. QED
        BY <4>2, <4>3
    <3>2. IsSequence(OutRev(FloatBuffer(arg), Width(arg), FlagsOf(arg)))
      BY <2>2, <3>1, OutRevIsSequence
    <3>3. QED
      BY <1>2, <2>3, <2>5, <3>2 DEF Float, ValueSpecs
  <2>6. CASE Pointer
    <3>1. PointerDigits \in Int
      BY SizesAssumption DEF PointerDigits
    <3>2. IsSequence(OutRev(PointerBuffer(arg), PointerDigits, PointerFlags(arg)))
      BY <1>2, <2>1, <3>1, NumberBuffers, OutRevIsSequence
    <3>3. QED
      BY <1>2, <2>3, <2>6, <3>2 DEF Pointer, ValueSpecs
  <2>7. CASE Character
    <3>1. IsSequence(<<call.args[ValueAt(arg)]>>)
      BY Short
    <3>2. IsSequence(Pad(<<call.args[ValueAt(arg)]>>, Width(arg), FlagsOf(arg)))
      BY <2>2, <3>1, PadIsSequence
    <3>3. QED
      BY <1>2, <2>3, <2>7, <3>2 DEF Character, ValueSpecs
  <2>8. CASE String
    <3> DEFINE cut == CutString(call.args[ValueAt(arg)], Precision(arg), FlagsOf(arg))
    <3>1. IsSequence(call.args[ValueAt(arg)])
      BY <1>2, <2>1, <2>8, FieldsType DEF String
    <3>2. IsSequence(cut)
      BY <2>2, <3>1, CutStringIsSequence
    <3>3. IsSequence(Pad(cut, Width(arg), FlagsOf(arg)))
      <4> HIDE DEF cut
      <4>1. QED
        BY <2>2, <3>2, PadIsSequence
    <3>4. QED
      BY <1>2, <2>3, <2>8, <3>3 DEF String, ValueSpecs
  <2>9. CASE OtherSpec
    <3>1. IsSequence(<<Piece.spec>>)
      BY Short
    <3>2. ValueAt(arg) - arg = ArgsOf(Piece)
      BY <2>1, <2>2, <2>9 DEF ArgsOf, OtherSpec
    <3>3. QED
      BY <1>2, <2>9, <3>1, <3>2 DEF OtherSpec
  <2>10. QED
    BY <1>4, <2>4, <2>5, <2>6, <2>7, <2>8, <2>9 DEF Convert
<1>5. QED
  BY <1>3, <1>4

(* maxlen is a size_t.                                                     *)
LEMMA MaxlenType ==
  ASSUME call \in Calls
  PROVE  maxlen \in 0..SizeMax
<1>1. call.count \in 0..SizeMax /\ SizeMax \in Nat
  BY CallsAssumption, SizesAssumption DEF IsDefined
<1>2. QED
  BY <1>1 DEF maxlen

(* Nothing is put out and no argument is taken when a call starts.         *)
LEMMA InitInv == Init => IInv
<1>1. SUFFICES ASSUME Init PROVE IInv
  OBVIOUS
<1>2. IsSequence(call.format) /\ IsSequence(call.args) /\ call \in Calls
  BY <1>1, CallsAssumption DEF Init, IsDefined
<1>3. Len(call.format) \in Nat /\ Len(call.args) \in Nat
  BY <1>2 DEF IsSequence
<1>4. ArgumentsTaken
  BY <1>1, <1>2, ArgsBeforeDef DEF Init, ArgumentsTaken
<1>5. /\ text = << >> /\ sent = << >> /\ idx = 0 /\ pos = 1 /\ arg = 1 /\ ret = -1
      /\ DOMAIN mem = 0..Cells - 1 /\ \A k \in DOMAIN mem : mem[k] = "garbage" /\ k >= 0
  BY <1>1, SizesAssumption DEF Init
<1>6. IsSequence(text) /\ Len(text) = 0
  BY <1>5, Short
<1>7. TypeOK
  BY <1>3, <1>5, <1>6 DEF TypeOK
<1>8. BufferSoFar /\ BufferIsCutText
  BY <1>5 DEF BufferSoFar, BufferIsCutText
<1>9. WithoutNul(<< >>) = << >>
  <2> DEFINE s == << >>
             S == {}
  <2>1. s \in Seq(S) /\ Len(s) = 0 /\ s = << >>
    OBVIOUS
  <2> HIDE DEF s, S
  <2>2. PICK f \in [0..Len(s) -> Seq(S)] : f[0] = << >> /\ WithoutNul(s) = f[Len(s)]
    BY <2>1, WithoutNulDef
  <2>3. QED
    BY <2>1, <2>2
<1>10. SentIsText
  BY <1>5, <1>9 DEF SentIsText
<1>11. QED
  BY <1>2, <1>4, <1>5, <1>6, <1>7, <1>8, <1>10 DEF IInv

(* Putting out a text keeps the invariant, whatever the text is:           *)
(* _out_buffer drops what is behind maxlen, _out_char the NULs.            *)
LEMMA EmitInv ==
  ASSUME IInv, pos \in 1..Len(call.format), NEW chars, IsSequence(chars),
         Emit(chars, ArgsOf(Piece))
  PROVE  IInv'
<1>1. /\ IsSequence(call.format) /\ IsSequence(call.args) /\ call \in Calls /\ call' = call
      /\ Len(call.format) \in Nat /\ Len(call.args) \in Nat
  BY ArgumentsDefined DEF IInv, TypeOK, Emit, IsSequence
<1>2. /\ ret = -1 /\ ret' = -1 /\ pos' = pos + 1 /\ pos' \in 1..Len(call.format) + 1
      /\ pos' - 1 = pos /\ pos \in Nat
  BY <1>1 DEF IInv, Emit
<1>3. ArgumentsTaken'
  <2>1. ArgsBefore(call)[pos] = ArgsBefore(call)[pos - 1] + ArgsOf(Piece)
    BY <1>1, ArgsBeforeDef DEF Piece
  <2>2. pos - 1 \in 0..Len(call.format)
    BY <1>1
  <2>3. ArgsBefore(call)[pos - 1] \in Nat /\ ArgsOf(Piece) \in Nat
    BY <1>1, <2>2, ArgsBeforeDef, ArgsOfType
  <2>4. arg' = ArgsBefore(call)[pos - 1] + 1 + ArgsOf(Piece)
    BY DEF IInv, ArgumentsTaken, Emit
  <2>5. arg' = ArgsBefore(call')[pos' - 1] + 1
    BY <1>1, <1>2, <2>1, <2>3, <2>4
  <2>6. QED
    BY <2>5 DEF ArgumentsTaken
<1>4. /\ arg' \in 1..Len(call.args) + 1
  <2>1. ArgsBefore(call)[pos] \in Nat /\ ArgsBefore(call)[pos] <= Len(call.args)
    <3>1. pos \in 0..Len(call.format)
      BY <1>1
    <3>2. QED
      BY <1>1, <3>1, ArgsBeforeDef, CallsAssumption DEF IsDefined
  <2>2. arg' = ArgsBefore(call)[pos] + 1
    BY <1>1, <1>2, <1>3 DEF ArgumentsTaken
  <2>3. QED
    BY <1>1, <2>1, <2>2
<1>5. /\ idx \in Nat /\ idx = Len(text) /\ idx' = idx + Len(chars) /\ Len(chars) \in Nat
      /\ text' = text \o chars /\ IsSequence(text)
  BY DEF IInv, TypeOK, Emit, IsSequence
<1>6. /\ IsSequence(text') /\ Len(text') = idx' /\ idx' \in Nat
      /\ \A k \in 1..idx + Len(chars) :
           text'[k] = IF k <= idx THEN text[k] ELSE chars[k - idx]
  BY <1>5, Concatenation
<1>7. DOMAIN mem' = 0..Cells - 1 /\ DOMAIN mem = 0..Cells - 1
  BY DEF IInv, TypeOK, Emit, Out, OutBuffer
<1>8. TypeOK'
  BY <1>1, <1>2, <1>4, <1>6, <1>7 DEF TypeOK
<1>9. out' = out /\ maxlen' = maxlen
  BY <1>1 DEF out, maxlen
<1>10. maxlen \in Nat
  BY <1>1, MaxlenType, SizesAssumption
<1>11. BufferSoFar'
  <2>1. SUFFICES ASSUME out = "buffer", NEW k \in DOMAIN mem'
                 PROVE  mem'[k] = IF k < idx' /\ k < maxlen THEN text'[k + 1] ELSE "garbage"
    BY <1>2, <1>9 DEF BufferSoFar
  <2>2. k \in Nat /\ k \in DOMAIN mem
    BY <1>7, SizesAssumption
  <2>3. mem'[k] = IF k >= idx /\ k < idx + Len(chars) /\ k < maxlen THEN chars[k - idx + 1]
                  ELSE mem[k]
    BY <2>1, <2>2 DEF Emit, Out, OutBuffer
  <2>4. mem[k] = IF k < idx /\ k < maxlen THEN text[k + 1] ELSE "garbage"
    BY <1>2, <2>1, <2>2 DEF IInv, BufferSoFar
  <2>5. k < idx' => text'[k + 1] = IF k < idx THEN text[k + 1] ELSE chars[k - idx + 1]
    <3>1. SUFFICES ASSUME k < idx'
                   PROVE  text'[k + 1] = IF k < idx THEN text[k + 1] ELSE chars[k - idx + 1]
      OBVIOUS
    <3> DEFINE j == k + 1
    <3>2. /\ j \in 1..idx + Len(chars) /\ j - idx = k - idx + 1
          /\ (j <= idx <=> k < idx)
      BY <1>5, <2>2, <3>1
    <3> HIDE DEF j
    <3>3. text'[j] = IF k < idx THEN text[j] ELSE chars[k - idx + 1]
      BY <1>6, <3>2
    <3>4. QED
      BY <3>3 DEF j
  <2>6. QED
    BY <1>5, <1>10, <2>2, <2>3, <2>4, <2>5
<1>12. BufferIsCutText'
  BY <1>2 DEF BufferIsCutText
<1>13. SentIsText'
  <2>1. CASE out = "char"
    <3>1. sent = WithoutNul(text) /\ mem' = mem /\ sent' = sent \o WithoutNul(chars)
      BY <2>1 DEF IInv, SentIsText, Emit, Out, OutChar
    <3>2. sent' = WithoutNul(text')
      BY <1>5, <3>1, WithoutNulConcat
    <3>3. QED
      BY <1>9, <2>1, <3>1, <3>2 DEF IInv, SentIsText
  <2>2. CASE out # "char"
    BY <1>9, <2>2 DEF IInv, SentIsText, Emit, Out
  <2>3. QED
    BY <2>1, <2>2
<1>14. QED
  BY <1>1, <1>2, <1>3, <1>6, <1>8, <1>11, <1>12, <1>13 DEF IInv

(* The terminator goes behind the text or, in its place, onto the last     *)
(* character the count allows; with a count of 0 its index wraps and       *)
(* nothing is written (printf.c:855-859).                                  *)
LEMMA TerminateInv ==
  ASSUME IInv, Terminate
  PROVE  IInv'
<1>1. /\ call' = call /\ pos' = pos /\ arg' = arg /\ idx' = idx /\ text' = text
      /\ pos = Len(call.format) + 1 /\ ret = -1 /\ ret' = idx
      /\ Out(<<NUL>>, TerminatorAt)
  BY DEF Terminate
<1>2. idx \in Nat /\ idx = Len(text) /\ IsSequence(text) /\ call \in Calls
  BY DEF IInv, TypeOK
<1>3. maxlen \in 0..SizeMax /\ SizeMax \in Nat
  BY <1>2, MaxlenType, SizesAssumption
<1>4. out' = out /\ maxlen' = maxlen
  BY <1>1 DEF out, maxlen
<1>5. DOMAIN mem' = DOMAIN mem /\ DOMAIN mem = 0..Cells - 1
  BY <1>1 DEF IInv, TypeOK, Out, OutBuffer
<1>6. TypeOK'
  BY <1>1, <1>5 DEF IInv, TypeOK
<1>7. BufferIsCutText'
  <2> DEFINE kept == IF maxlen = 0 THEN 0 ELSE Smaller(Len(text), maxlen - 1)
  <2>1. SUFFICES ASSUME out = "buffer", NEW k \in DOMAIN mem
                 PROVE  mem'[k] = IF k < kept THEN text[k + 1]
                                  ELSE IF k = kept /\ maxlen > 0 THEN NUL ELSE "garbage"
    BY <1>1, <1>2, <1>4, <1>5 DEF BufferIsCutText
  <2>2. k \in Nat
    BY <1>5, SizesAssumption
  <2>3. maxlen > 0 => TerminatorAt = kept
    <3>1. maxlen > 0 => (maxlen - 1) % (SizeMax + 1) = maxlen - 1
      BY <1>3
    <3>2. QED
      BY <1>2, <1>3, <3>1 DEF TerminatorAt, Smaller
  <2>4. mem[k] = IF k < idx /\ k < maxlen THEN text[k + 1] ELSE "garbage"
    BY <1>1, <2>1 DEF IInv, BufferSoFar
  <2>5. mem'[k] = IF k >= TerminatorAt /\ k < TerminatorAt + 1 /\ k < maxlen
                    THEN <<NUL>>[k - TerminatorAt + 1] ELSE mem[k]
    BY <1>1, <2>1 DEF Out, OutBuffer
  <2>6. CASE maxlen = 0
    BY <2>2, <2>4, <2>5, <2>6
  <2>7. CASE maxlen # 0
    <3>1. /\ maxlen > 0 /\ TerminatorAt = kept /\ kept \in Nat /\ kept < maxlen /\ kept <= idx
          /\ kept = idx \/ kept = maxlen - 1
      BY <1>2, <1>3, <2>3, <2>7 DEF Smaller
    <3> HIDE DEF kept
    <3>2. <<NUL>>[1] = NUL
      OBVIOUS
    <3>3. CASE k = kept
      BY <2>2, <2>5, <3>1, <3>2, <3>3
    <3>4. CASE k # kept
      BY <1>2, <1>3, <2>2, <2>4, <2>5, <3>1, <3>4
    <3>5. QED
      BY <3>3, <3>4
  <2>8. QED
    BY <2>6, <2>7
<1>8. SentIsText'
  <2>1. CASE out = "char"
    <3>1. sent = WithoutNul(text) /\ mem' = mem /\ sent' = sent \o << >>
      BY <1>1, <2>1, NulIsNotSent DEF IInv, SentIsText, Out, OutChar
    <3>2. IsSequence(sent)
      BY <1>2, <3>1, WithoutNulType
    <3>3. sent \o << >> = sent
      BY <3>2, ToSeq, ConcatEmptySeq
    <3>4. QED
      BY <1>1, <1>4, <2>1, <3>1, <3>3 DEF IInv, SentIsText
  <2>2. CASE out # "char"
    <3>1. sent' = sent /\ (out # "buffer" => mem' = mem)
      BY <1>1, <2>2 DEF Out
    <3>2. QED
      BY <1>1, <1>4, <2>2, <3>1 DEF IInv, SentIsText
  <2>3. QED
    BY <2>1, <2>2
<1>9. BufferSoFar' /\ ArgumentsTaken'
  BY <1>1, <1>2 DEF IInv, BufferSoFar, ArgumentsTaken
<1>10. QED
  BY <1>1, <1>2, <1>6, <1>7, <1>8, <1>9 DEF IInv

(* Every step of a call keeps the invariant.                               *)
LEMMA NextInv == IInv /\ [Next]_vars => IInv'
<1>1. SUFFICES ASSUME IInv, [Next]_vars PROVE IInv'
  OBVIOUS
<1>2. CASE Literal \/ Convert
  <2>1. pos \in 1..Len(call.format) /\ \E chars : IsSequence(chars) /\ Emit(chars, ArgsOf(Piece))
    BY <1>1, <1>2, PieceStep DEF IInv, TypeOK
  <2>2. QED
    BY <1>1, <2>1, EmitInv
<1>3. CASE Terminate
  BY <1>1, <1>3, TerminateInv
<1>4. CASE UNCHANGED vars
  BY <1>1, <1>4 DEF vars, IInv, TypeOK, ArgumentsTaken, BufferSoFar, BufferIsCutText, SentIsText,
                    out, maxlen
<1>5. QED
  BY <1>1, <1>2, <1>3, <1>4 DEF Next, Finished

(* The invariant holds throughout every call that C defines.               *)
LEMMA Invariance == Spec => []IInv
BY InitInv, NextInv, PTL DEF Spec

-----------------------------------------------------------------------------
(* What the runs check.                                                    *)

(* The variables keep their types: va stays within the arguments, for      *)
(* every format that has its arguments, and the length returned is that of *)
(* the text.                                                               *)
THEOREM TypeCorrect == Spec => []TypeOK
<1>1. IInv => TypeOK
  BY DEF IInv
<1>2. QED
  BY <1>1, Invariance, PTL

(* No width, precision, prefix, sign or value takes a number out of the    *)
(* conversion buffer on the stack (printf.c:230-277), whatever             *)
(* PRINTF_NTOA_BUFFER_SIZE and the widths of the types are.                *)
THEOREM NumbersFit == Spec => []NumberFitsBuffer
<1>1. IInv => NumberFitsBuffer
  <2>1. SUFFICES ASSUME IInv, pos <= Len(call.format), IsDirective(Piece)
                 PROVE  Len(IF Piece.spec = "p" THEN PointerBuffer(arg) ELSE IntegerBuffer(arg))
                          <= BufferSize
    BY DEF NumberFitsBuffer
  <2>2. Len(call.format) \in Nat
    BY <2>1, ArgumentsDefined DEF IInv, TypeOK, IsSequence
  <2>3. pos \in 1..Len(call.format)
    BY <2>1, <2>2 DEF IInv, TypeOK
  <2>4. QED
    BY <2>1, <2>3, NumberBuffers DEF IInv
<1>2. QED
  BY <1>1, Invariance, PTL

(* snprintf leaves the text, cut to count - 1 characters, a terminator     *)
(* behind it, and all else as it was, for any count up to SIZE_MAX, and    *)
(* returns the length of the whole text (printf.h:81-90, printf.c:133-138, *)
(* 855-859).                                                               *)
THEOREM BufferHoldsCutText == Spec => []BufferIsCutText
<1>1. IInv => BufferIsCutText
  BY DEF IInv
<1>2. QED
  BY <1>1, Invariance, PTL

(* The arguments that a piece takes are its stars and its value, if it has *)
(* one (printf.c:604-851).                                                 *)
LEMMA ArgumentsStep ==
  IInv /\ [Next]_vars => (pos' = pos + 1 => arg' = arg + ArgsOf(Piece))
<1>1. SUFFICES ASSUME IInv, [Next]_vars, pos' = pos + 1
               PROVE  arg' = arg + ArgsOf(Piece)
  OBVIOUS
<1>2. Literal \/ Convert
  <2>1. pos \in Nat
    BY <1>1, ArgumentsDefined DEF IInv, TypeOK, IsSequence
  <2>2. pos' # pos
    BY <1>1, <2>1
  <2>3. QED
    BY <1>1, <2>2 DEF Next, Terminate, Finished, vars
<1>3. PICK chars : Emit(chars, ArgsOf(Piece))
  BY <1>1, <1>2, PieceStep DEF IInv, TypeOK
<1>4. QED
  BY <1>3 DEF Emit

(* A piece that is no number: a character of the format, %c, %s, %% or a   *)
(* specifier printf does not know.                                         *)
IsText == IsDirective(Piece) => ~IsNumber /\ Piece.spec \notin FloatSpecs

(* The loops that pad %c and %s put the spaces where the standard wants    *)
(* them.                                                                   *)
LEMMA PadsAsStd ==
  ASSUME NEW chars, IsSequence(chars), NEW width \in Int, NEW flags
  PROVE  Pad(chars, width, flags) = StdPad(chars, width, flags)
<1> DEFINE n == width - Len(chars)
<1>1. n \in Int
  BY DEF IsSequence
<1>2. Larger(Larger(n, 0), 0) = Larger(n, 0)
  BY <1>1 DEF Larger
<1>3. Repeat(" ", n) = Repeat(" ", Larger(n, 0))
  BY <1>2 DEF Repeat
<1>4. QED
  BY <1>3 DEF Pad, StdPad

(* FLAGS_PRECISION stands for a precision in the format.                   *)
LEMMA PrecisionFlag ==
  ASSUME NEW at, Piece.flags \subseteq FlagChars, Piece.length \in DOMAIN LengthFlags
  PROVE  "precision" \in FlagsOf(at) <=> Piece.precision # Absent
<1>1. "precision" \notin LengthFlags[Piece.length]
  BY DEF LengthFlags
<1>2. QED
  BY <1>1 DEF FlagsOf, FlagChars

(* A step for such a piece puts out what the standard gives for it.        *)
LEMMA TextStep ==
  IInv /\ [Next]_vars => (IsText => PutsOutPiece)
<1>1. SUFFICES ASSUME IInv, [Next]_vars, IsText, pos' = pos + 1, ~Differs(arg)
               PROVE  text' = text \o StdText(arg)
  BY ArgumentsStep DEF PutsOutPiece
<1>2. Literal \/ Convert
  <2>1. pos \in Nat
    BY <1>1, ArgumentsDefined DEF IInv, TypeOK, IsSequence
  <2>2. pos' # pos
    BY <1>1, <2>1
  <2>3. QED
    BY <1>1, <2>2 DEF Next, Terminate, Finished, vars
<1>3. CASE Literal
  BY <1>3 DEF Literal, Emit, StdText
<1>4. CASE Convert
  <2>1. /\ IsDirective(Piece)
        /\ Character \/ String \/ OtherSpec
        /\ Piece.spec \notin FloatSpecs /\ ~IsNumber
    BY <1>1, <1>4 DEF Convert, IsText, IsNumber, Integer, Float, Pointer
  <2>2. pos \in 1..Len(call.format)
    BY <1>1, <1>4, PieceStep DEF IInv, TypeOK
  <2>3. /\ Width(arg) \in Int /\ Precision(arg) \in Nat
        /\ Piece.flags \subseteq FlagChars /\ Piece.length \in DOMAIN LengthFlags
        /\ Piece.spec = "s" => IsSequence(call.args[ValueAt(arg)])
    BY <1>1, <2>1, <2>2, FieldsType DEF IInv
  <2> DEFINE value == call.args[ValueAt(arg)]
  <2>4. CASE Character
    <3>1. text' = text \o Pad(<<value>>, Width(arg), FlagsOf(arg)) /\ Piece.spec = "c"
      BY <2>4 DEF Character, Emit
    <3>2. Pad(<<value>>, Width(arg), FlagsOf(arg)) = StdPad(<<value>>, Width(arg), FlagsOf(arg))
      BY <2>3, PadsAsStd, Short
    <3>3. StdText(arg) = StdPad(<<value>>, Width(arg), FlagsOf(arg))
      BY <2>1, <3>1 DEF StdText
    <3>4. QED
      BY <3>1, <3>2, <3>3
  <2>5. CASE String
    <3> DEFINE cut == CutString(value, Precision(arg), FlagsOf(arg))
               std == [k \in 1..(IF "precision" \in AskedFlags(arg)
                                   THEN Smaller(Precision(arg), Len(value))
                                   ELSE Len(value)) |-> value[k]]
    <3>1. text' = text \o Pad(cut, Width(arg), FlagsOf(arg)) /\ Piece.spec = "s"
      BY <2>5 DEF String, Emit
    <3>2. IsSequence(value)
      BY <2>3, <3>1
    <3>3. cut = std
      <4>1. AskedFlags(arg) = FlagsOf(arg)
        BY <1>1, <2>1, <3>1 DEF Differs, AskedFlags
      <4>2. QED
        BY <2>3, <3>2, <4>1 DEF CutString, IsSequence, Smaller
    <3>4. IsSequence(cut)
      BY <2>3, <3>2, CutStringIsSequence
    <3>5. StdText(arg) = StdPad(std, Width(arg), FlagsOf(arg))
      BY <2>1, <3>1 DEF StdText
    <3> HIDE DEF cut, std
    <3>6. Pad(cut, Width(arg), FlagsOf(arg)) = StdPad(cut, Width(arg), FlagsOf(arg))
      BY <2>3, <3>4, PadsAsStd
    <3>7. QED
      BY <3>1, <3>3, <3>5, <3>6
  <2>6. CASE OtherSpec
    <3>1. Piece = Percent /\ Percent.spec = "%"
      BY <1>1, <2>1, <2>6 DEF Differs, OtherSpec, Percent, Directive
    <3>2. text' = text \o <<"%">>
      BY <2>6, <3>1 DEF OtherSpec, Emit
    <3>3. StdText(arg) = <<"%">>
      BY <2>1, <3>1 DEF StdText
    <3>4. QED
      BY <3>2, <3>3
  <2>7. QED
    BY <2>1, <2>4, <2>5, <2>6
<1>5. QED
  BY <1>2, <1>3, <1>4

(* Characters of the format, %c, %s and %% come out as the C standard      *)
(* says, with any width, flags, precision and stars, for any string, but   *)
(* for a negative star precision of %s and for wide ones; these and        *)
(* specifiers printf does not know take the arguments of their stars and   *)
(* their value (printf.c:592-602, 779-823, 843-851): the part of           *)
(* PutsOutWhatItSays that is not about numbers.                            *)
THEOREM TextIsPutOut == Spec => [][IsText => PutsOutPiece]_vars
<1>1. IInv /\ [Next]_vars => [IsText => PutsOutPiece]_vars
  BY TextStep
<1>2. QED
  BY <1>1, Invariance, PTL DEF Spec

(* printf and fctprintf send the text, all but its NULs, in order and      *)
(* once; a call that has no stream sends nothing, and one without a buffer *)
(* writes no memory (printf.c:142-169).                                    *)
THEOREM SentTextIsText == Spec => []SentIsText
<1>1. IInv => SentIsText
  BY DEF IInv
<1>2. QED
  BY <1>1, Invariance, PTL
=============================================================================
