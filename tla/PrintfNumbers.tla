--------------------------- MODULE PrintfNumbers ----------------------------
(***************************************************************************)
(* What printf puts out for integers and pointers is what the C standard   *)
(* says, for any value, flags, width and precision and for types and       *)
(* buffers of any size, but for the cases that NumberDiffers lists.  The   *)
(* argument follows the code: the digits that the loop of _ntoa_long       *)
(* takes off a value are those of the standard, the lowest first; to them  *)
(* _ntoa_format adds zeros, prefix and sign, one behind the other, when    *)
(* the directive is a plain one (IsPlain); _out_rev turns all of it round  *)
(* and pads it.  A directive that NumberDiffers does not list is a plain   *)
(* one.                                                                    *)
(***************************************************************************)
EXTENDS PrintfProofs

-----------------------------------------------------------------------------
(* Powers.                                                                 *)

(* The powers of 2 are positive.                                           *)
LEMMA PowersOfTwo == \A n \in Nat : Power(2, n) \in Nat \ {0}
BY PowerDef

(* A higher power of the same number is not smaller.                       *)
LEMMA PowerGrows ==
  ASSUME NEW base \in Nat \ {0}, NEW m \in Nat, NEW n \in Nat, m <= n
  PROVE  Power(base, m) <= Power(base, n)
<1> DEFINE T == {k \in Nat : Power(base, m) <= Power(base, m + k)}
<1>1. \A k \in Nat : Power(base, k) \in Nat \ {0} /\ Power(base, k + 1) = base * Power(base, k)
  BY PowerDef
<1>2. 0 \in T
  BY <1>1
<1>3. ASSUME NEW k \in T PROVE k + 1 \in T
  <2> DEFINE x == Power(base, m + k)
  <2>1. k \in Nat /\ m + k \in Nat /\ m + (k + 1) = (m + k) + 1 /\ Power(base, m) <= x
    OBVIOUS
  <2>2. x \in Nat \ {0} /\ Power(base, m + (k + 1)) = base * x
    BY <1>1, <2>1
  <2> HIDE DEF x
  <2>3. x <= base * x
    BY <2>2
  <2>4. Power(base, m) \in Nat /\ base * x \in Nat
    BY <1>1, <2>2
  <2>5. Power(base, m) <= base * x
    BY <2>1, <2>2, <2>3, <2>4
  <2>6. QED
    BY <2>1, <2>2, <2>5
<1>4. T = Nat
  <2> HIDE DEF T
  <2>1. T \in SUBSET Nat
    BY DEF T
  <2>2. QED
    BY <1>2, <1>3, <2>1, NatSetInduction
<1>5. n - m \in Nat /\ m + (n - m) = n
  OBVIOUS
<1>6. QED
  BY <1>4, <1>5

(* Nor is the same power of a larger number than 2.                        *)
LEMMA PowerOfTwo ==
  ASSUME NEW base \in Nat, base >= 2, NEW n \in Nat
  PROVE  Power(2, n) <= Power(base, n)
<1> DEFINE T == {k \in Nat : Power(2, k) <= Power(base, k)}
<1>1. /\ Power(base, 0) = 1 /\ Power(2, 0) = 1
      /\ \A k \in Nat : Power(base, k) \in Nat \ {0} /\ Power(base, k + 1) = base * Power(base, k)
      /\ \A k \in Nat : Power(2, k) \in Nat \ {0} /\ Power(2, k + 1) = 2 * Power(2, k)
  BY PowerDef
<1>2. 0 \in T
  BY <1>1
<1>3. ASSUME NEW k \in T PROVE k + 1 \in T
  <2> DEFINE x == Power(2, k)
             y == Power(base, k)
  <2>1. x \in Nat /\ y \in Nat /\ x <= y /\ Power(2, k + 1) = 2 * x /\ Power(base, k + 1) = base * y
    BY <1>1
  <2> HIDE DEF x, y
  <2>2. 2 * x <= 2 * y /\ 2 * y <= base * y
    BY <2>1
  <2>3. base * y \in Nat
    BY <2>1
  <2>4. 2 * x <= base * y
    BY <2>1, <2>2, <2>3
  <2>5. QED
    BY <2>1, <2>4
<1>4. T = Nat
  <2> HIDE DEF T
  <2>1. T \in SUBSET Nat
    BY DEF T
  <2>2. QED
    BY <1>2, <1>3, <2>1, NatSetInduction
<1>5. QED
  BY <1>4

-----------------------------------------------------------------------------
(* Digits.                                                                 *)

(* The number of digits of value: the least n with value < base ^ n.       *)
IsCount(n, value, base) ==
  /\ n \in Nat \ {0} /\ value < Power(base, n)
  /\ \A m \in 1..n - 1 : value >= Power(base, m)

(* A value of a type has digits, fewer than the bits of a long.            *)
LEMMA CountExists ==
  ASSUME NEW value \in Nat, NEW base \in Nat, base >= 2, value < Power(2, Bits["long"])
  PROVE  \E n \in 1..Bits["long"] + 1 : IsCount(n, value, base)
<1> DEFINE L == Bits["long"]
           T == {n \in Nat \ {0} : value < Power(base, n)}
<1>1. L \in Nat \ {0}
  BY SizesAssumption
<1>2. Power(2, L) \in Nat /\ \A n \in Nat : Power(base, n) \in Nat
  <2>1. base \in Nat \ {0}
    OBVIOUS
  <2>2. \A n \in Nat : Power(base, n) \in Nat
    BY <2>1, PowerDef
  <2>3. \A n \in Nat : Power(2, n) \in Nat
    BY PowersOfTwo
  <2>4. QED
    BY <1>1, <2>2, <2>3
<1>3. L \in T
  <2>1. Power(2, L) <= Power(base, L)
    BY <1>1, PowerOfTwo
  <2>2. QED
    BY <1>1, <1>2, <2>1
<1>4. PICK n \in T : \A m \in T : n <= m
  <2>1. T \in SUBSET Nat
    OBVIOUS
  <2> HIDE DEF T
  <2>2. QED
    BY <1>3, <2>1, LeastNumber
<1>5. n \in Nat \ {0} /\ n <= L /\ value < Power(base, n)
  BY <1>3, <1>4
<1>6. ASSUME NEW m \in 1..n - 1 PROVE value >= Power(base, m)
  <2>1. m \in Nat \ {0} /\ ~(n <= m)
    BY <1>5
  <2>2. m \notin T
    BY <1>4, <2>1
  <2>3. QED
    BY <1>2, <2>1, <2>2
<1>7. QED
  BY <1>1, <1>5, <1>6 DEF IsCount

(* There is one such number.                                               *)
LEMMA CountUnique ==
  ASSUME NEW value \in Nat, NEW base \in Nat \ {0}, NEW m, NEW n,
         IsCount(m, value, base), IsCount(n, value, base)
  PROVE  m = n
<1>1. /\ m \in Nat \ {0} /\ n \in Nat \ {0}
      /\ value < Power(base, m) /\ value < Power(base, n)
      /\ \A k \in 1..m - 1 : value >= Power(base, k)
      /\ \A k \in 1..n - 1 : value >= Power(base, k)
  BY DEF IsCount
<1>2. Power(base, m) \in Nat /\ Power(base, n) \in Nat
  BY <1>1, PowerDef
<1>3. ~(m < n)
  BY <1>1, <1>2
<1>4. ~(n < m)
  BY <1>1, <1>2
<1>5. QED
  BY <1>1, <1>3, <1>4

(* The loop of _ntoa_long stops at that number, or when the buffer is      *)
(* full.                                                                   *)
LEMMA LoopStops ==
  ASSUME NEW value \in Nat, NEW base \in Nat \ {0}, NEW n \in Nat, NEW c,
         IsCount(c, value, base), c <= n
  PROVE  Min({n} \cup {k \in 1..n : value < Power(base, k)}) = c
<1> DEFINE C == {n} \cup {k \in 1..n : value < Power(base, k)}
<1>1. /\ c \in Nat \ {0} /\ value < Power(base, c)
      /\ \A m \in 1..c - 1 : value >= Power(base, m)
  BY DEF IsCount
<1>2. c \in C
  BY <1>1
<1>3. ASSUME NEW k \in C PROVE k \in Nat /\ c <= k
  <2>1. CASE k = n
    BY <2>1
  <2>2. CASE k \in 1..n /\ value < Power(base, k)
    <3>1. Power(base, k) \in Nat
      BY <2>2, PowerDef
    <3>2. QED
      BY <1>1, <2>2, <3>1
  <2>3. QED
    BY <2>1, <2>2
<1> HIDE DEF C
<1>4. \A k \in C : (\A m \in C : k <= m) => k = c
  BY <1>1, <1>2, <1>3
<1>5. QED
  BY <1>2, <1>3, <1>4 DEF Min, C

(* The digits in the conversion buffer are those of the standard,          *)
(* backwards, if they fit (printf.c:296-300).                              *)
LEMMA DigitsAsStd ==
  ASSUME NEW value \in Nat, NEW base \in Nat, base >= 2, value < Power(2, Bits["long"]),
         NEW upper, NEW n \in Nat \ {0}, Len(StdDigits(value, base, upper)) <= n
  PROVE  /\ IsSequence(Digits(value, base, upper, n))
         /\ Len(Digits(value, base, upper, n)) = Len(StdDigits(value, base, upper))
         /\ Len(Digits(value, base, upper, n)) >= 1
         /\ Reverse(Digits(value, base, upper, n)) = StdDigits(value, base, upper)
<1> DEFINE count == CHOOSE k \in 1..Bits["long"] + 1 :
                      value < Power(base, k) /\ \A m \in 1..k - 1 : value >= Power(base, m)
           symbol == [k \in 0..count - 1 |->
                        (IF upper THEN Upper ELSE Lower)[((value \div Power(base, k)) % base) + 1]]
<1>1. IsCount(count, value, base)
  <2>1. PICK k \in 1..Bits["long"] + 1 : IsCount(k, value, base)
    BY CountExists
  <2>2. value < Power(base, k) /\ \A m \in 1..k - 1 : value >= Power(base, m)
    BY <2>1 DEF IsCount
  <2>3. /\ count \in 1..Bits["long"] + 1
        /\ value < Power(base, count) /\ \A m \in 1..count - 1 : value >= Power(base, m)
    BY <2>2
  <2>4. Bits["long"] \in Nat
    BY SizesAssumption
  <2> HIDE DEF count
  <2>5. QED
    BY <2>3, <2>4 DEF IsCount
<1>2. count \in Nat \ {0}
  BY <1>1 DEF IsCount
<1>3. StdDigits(value, base, upper) = [k \in 1..count |-> symbol[count - k]]
  <2>1. StdDigits(value, base, upper)
          = [k \in 1..count |->
               (IF upper THEN Upper ELSE Lower)[((value \div Power(base, count - k)) % base) + 1]]
    BY DEF StdDigits
  <2> HIDE DEF count
  <2>2. \A k \in 1..count : count - k \in 0..count - 1
    BY <1>2
  <2>3. QED
    BY <2>1, <2>2
<1> HIDE DEF count
<1>4. Len(StdDigits(value, base, upper)) = count
  BY <1>2, <1>3
<1>5. Min({n} \cup {k \in 1..n : value < Power(base, k)}) = count
  BY <1>1, <1>4, LoopStops
<1>6. Digits(value, base, upper, n) = [k \in 1..count |-> symbol[k - 1]]
  <2>1. \A k \in 1..count : k - 1 \in 0..count - 1
    BY <1>2
  <2>2. QED
    BY <1>5, <2>1 DEF Digits
<1> HIDE DEF symbol
<1> DEFINE D == Digits(value, base, upper, n)
<1>7. IsSequence(D) /\ Len(D) = count
  BY <1>2, <1>6 DEF IsSequence
<1>8. Reverse(D) = [k \in 1..count |-> D[(count - k) + 1]]
  BY <1>7 DEF Reverse
<1>9. \A k \in 1..count : D[(count - k) + 1] = symbol[count - k]
  <2>1. SUFFICES ASSUME NEW k \in 1..count PROVE D[(count - k) + 1] = symbol[count - k]
    OBVIOUS
  <2> DEFINE m == (count - k) + 1
  <2>2. m \in 1..count /\ m - 1 = count - k
    BY <1>2
  <2> HIDE DEF m
  <2>3. D[m] = symbol[m - 1]
    BY <1>6, <2>2
  <2>4. QED
    BY <2>2, <2>3 DEF m
<1>10. QED
  BY <1>2, <1>3, <1>4, <1>7, <1>8, <1>9
-----------------------------------------------------------------------------
(* Texts.                                                                  *)

(* What is known of a text by its characters.                              *)
LEMMA SameText ==
  ASSUME NEW s, NEW t, IsSequence(s), IsSequence(t), Len(s) = Len(t),
         \A k \in 1..Len(s) : s[k] = t[k]
  PROVE  s = t
BY DEF IsSequence

(* Nothing behind and before a text.                                       *)
LEMMA NothingAdded ==
  ASSUME NEW s, IsSequence(s)
  PROVE  s \o << >> = s /\ << >> \o s = s
<1>1. s \in Seq(Range(s))
  BY ToSeq
<1>2. QED
  BY <1>1, ConcatEmptySeq

(* Texts one behind the other can be read in any grouping.                 *)
LEMMA Grouping ==
  ASSUME NEW s, NEW t, NEW u, IsSequence(s), IsSequence(t), IsSequence(u)
  PROVE  (s \o t) \o u = s \o (t \o u)
<1> DEFINE U == Range(s) \cup Range(t) \cup Range(u)
<1>1. s \in Seq(U) /\ t \in Seq(U) /\ u \in Seq(U)
  BY ToSeq, SeqMonotonic
<1> HIDE DEF U
<1>2. QED
  BY <1>1, ConcatAssociative

(* Two texts are turned around one by one.                                 *)
LEMMA ReverseConcat ==
  ASSUME NEW s, NEW t, IsSequence(s), IsSequence(t)
  PROVE  Reverse(s \o t) = Reverse(t) \o Reverse(s)
<1> DEFINE m == Len(s)
           n == Len(t)
<1>1. m \in Nat /\ n \in Nat
  BY DEF IsSequence
<1>2. /\ IsSequence(s \o t) /\ Len(s \o t) = m + n
      /\ \A k \in 1..m + n : (s \o t)[k] = IF k <= m THEN s[k] ELSE t[k - m]
  BY Concatenation
<1>3. /\ IsSequence(Reverse(s)) /\ Len(Reverse(s)) = m
      /\ IsSequence(Reverse(t)) /\ Len(Reverse(t)) = n
      /\ IsSequence(Reverse(s \o t)) /\ Len(Reverse(s \o t)) = m + n
  BY <1>2, Reversal
<1> DEFINE u == Reverse(t) \o Reverse(s)
<1>4. /\ IsSequence(u) /\ Len(u) = n + m
      /\ \A k \in 1..n + m : u[k] = IF k <= n THEN Reverse(t)[k] ELSE Reverse(s)[k - n]
  BY <1>3, Concatenation
<1>5. /\ \A k \in 1..m : Reverse(s)[k] = s[m - k + 1]
      /\ \A k \in 1..n : Reverse(t)[k] = t[n - k + 1]
      /\ \A k \in 1..m + n : Reverse(s \o t)[k] = (s \o t)[m + n - k + 1]
  BY <1>2 DEF Reverse
<1> HIDE DEF m, n, u
<1>6. \A k \in 1..m + n : Reverse(s \o t)[k] = u[k]
  <2>1. SUFFICES ASSUME NEW k \in 1..m + n PROVE Reverse(s \o t)[k] = u[k]
    OBVIOUS
  <2> DEFINE j == m + n - k + 1
  <2>2. j \in 1..m + n /\ Reverse(s \o t)[k] = (s \o t)[j]
    <3>1. j \in 1..m + n
      BY <1>1
    <3>2. Reverse(s \o t)[k] = (s \o t)[j]
      BY <1>5
    <3>3. QED
      BY <3>1, <3>2
  <2>3. CASE k <= n
    <3>1. k \in 1..n /\ ~(j <= m) /\ j - m = n - k + 1
      BY <1>1, <2>1, <2>3
    <3>2. (s \o t)[j] = t[j - m]
      BY <1>2, <2>2, <3>1
    <3>3. u[k] = t[n - k + 1]
      BY <1>1, <1>4, <1>5, <2>3, <3>1
    <3>4. QED
      BY <2>2, <3>1, <3>2, <3>3
  <2>4. CASE ~(k <= n)
    <3>1. k - n \in 1..m /\ j <= m /\ m - (k - n) + 1 = j
      BY <1>1, <2>1, <2>4
    <3>2. (s \o t)[j] = s[j]
      BY <1>2, <2>2, <3>1
    <3>3. u[k] = Reverse(s)[k - n] /\ Reverse(s)[k - n] = s[m - (k - n) + 1]
      BY <1>1, <1>4, <1>5, <2>4, <3>1
    <3>4. QED
      BY <2>2, <3>1, <3>2, <3>3
  <2>5. QED
    BY <2>3, <2>4
<1>7. Len(u) = m + n
  BY <1>1, <1>4
<1>8. Reverse(s \o t) = u
  BY <1>3, <1>4, <1>6, <1>7, SameText
<1>9. QED
  BY <1>8 DEF u

(* Padding looks the same from behind, and a text of one character too.    *)
LEMMA ReverseShort ==
  /\ \A c, n : n \in Int => Reverse(Repeat(c, n)) = Repeat(c, n)
  /\ Reverse(<< >>) = << >>
  /\ \A x : Reverse(<<x>>) = <<x>>
  /\ \A x, y : Reverse(<<x, y>>) = <<y, x>>
<1>1. ASSUME NEW c, NEW n \in Int PROVE Reverse(Repeat(c, n)) = Repeat(c, n)
  <2> DEFINE m == Larger(n, 0)
  <2>1. m \in Nat
    BY DEF Larger
  <2>2. Repeat(c, n) = [k \in 1..m |-> c]
    BY DEF Repeat
  <2> HIDE DEF m
  <2>3. Len(Repeat(c, n)) = m
    BY <2>1, <2>2
  <2>4. \A k \in 1..m : (m - k) + 1 \in 1..m
    BY <2>1
  <2>5. QED
    BY <2>2, <2>3, <2>4 DEF Reverse
<1>2. Reverse(<< >>) = << >>
  BY DEF Reverse
<1>3. ASSUME NEW x PROVE Reverse(<<x>>) = <<x>>
  BY DEF Reverse
<1>4. ASSUME NEW x, NEW y PROVE Reverse(<<x, y>>) = <<y, x>>
  BY DEF Reverse
<1>5. QED
  BY <1>1, <1>2, <1>3, <1>4

(* No padding, and padding that is counted from 0.                         *)
LEMMA RepeatNone ==
  ASSUME NEW c, NEW n \in Int
  PROVE  /\ Repeat(c, Larger(n, 0)) = Repeat(c, n)
         /\ n <= 0 => Repeat(c, n) = << >>
<1>1. Larger(Larger(n, 0), 0) = Larger(n, 0)
  BY DEF Larger
<1>2. n <= 0 => Larger(n, 0) = 0
  BY DEF Larger
<1>3. QED
  BY <1>1, <1>2 DEF Repeat

(* Padding by a natural number.                                            *)
LEMMA RepeatNat ==
  ASSUME NEW c, NEW n \in Nat
  PROVE  IsSequence(Repeat(c, n)) /\ Len(Repeat(c, n)) = n /\ \A k \in 1..n : Repeat(c, n)[k] = c
<1>1. Larger(n, 0) = n
  BY DEF Larger
<1>2. Repeat(c, n) = [k \in 1..n |-> c]
  BY <1>1 DEF Repeat
<1>3. QED
  BY <1>2 DEF IsSequence

(* Some of the zeros that were padded are taken away.                      *)
LEMMA CutZeros ==
  ASSUME NEW s, IsSequence(s), NEW c, NEW m \in Nat, NEW n \in Nat, m <= n
  PROVE  SubSeq(s \o Repeat(c, n), 1, Len(s) + m) = s \o Repeat(c, m)
<1> DEFINE d == Len(s)
           long == s \o Repeat(c, n)
           short == s \o Repeat(c, m)
<1>1. d \in Nat
  BY DEF IsSequence
<1>2. /\ IsSequence(Repeat(c, n)) /\ Len(Repeat(c, n)) = n /\ \A k \in 1..n : Repeat(c, n)[k] = c
      /\ IsSequence(Repeat(c, m)) /\ Len(Repeat(c, m)) = m /\ \A k \in 1..m : Repeat(c, m)[k] = c
  BY RepeatNat
<1>3. /\ IsSequence(long) /\ Len(long) = d + n
      /\ \A k \in 1..d + n : long[k] = IF k <= d THEN s[k] ELSE Repeat(c, n)[k - d]
      /\ IsSequence(short) /\ Len(short) = d + m
      /\ \A k \in 1..d + m : short[k] = IF k <= d THEN s[k] ELSE Repeat(c, m)[k - d]
  BY <1>2, Concatenation
<1> HIDE DEF long, short, d
<1>4. SubSeq(long, 1, d + m) = [k \in 1..d + m |-> long[k]]
  BY <1>1 DEF SubSeq
<1>5. \A k \in 1..d + m : long[k] = short[k]
  <2>1. SUFFICES ASSUME NEW k \in 1..d + m PROVE long[k] = short[k]
    OBVIOUS
  <2>2. k \in 1..d + n /\ (~(k <= d) => k - d \in 1..m /\ k - d \in 1..n)
    BY <1>1
  <2>3. QED
    BY <1>2, <1>3, <2>2
<1>6. short = [k \in 1..d + m |-> short[k]]
  BY <1>3 DEF IsSequence
<1>7. SubSeq(long, 1, d + m) = short
  BY <1>4, <1>5, <1>6
<1>8. QED
  BY <1>7 DEF long, short, d
-----------------------------------------------------------------------------
(* Prefixes.                                                               *)

(* The prefix of # as it stands in the conversion buffer: backwards.       *)
Letter(base, flags) ==
  IF base = 16 THEN <<IF "upper" \in flags THEN "X" ELSE "x">>
  ELSE IF base = 2 THEN <<"b">> ELSE << >>

PrefixBuffer(base, flags) == Letter(base, flags) \o <<"0">>

(* It has one or two characters.                                           *)
LEMMA PrefixType ==
  ASSUME NEW base, NEW flags
  PROVE  /\ IsSequence(Letter(base, flags)) /\ IsSequence(PrefixBuffer(base, flags))
         /\ Len(Letter(base, flags)) = IF base \in {2, 16} THEN 1 ELSE 0
         /\ Len(PrefixBuffer(base, flags)) = IF base \in {2, 16} THEN 2 ELSE 1
         /\ Len(PrefixBuffer(base, flags)) = Len(Letter(base, flags)) + 1
<1>1. IsSequence(Letter(base, flags)) /\ Len(Letter(base, flags)) = IF base \in {2, 16} THEN 1 ELSE 0
  BY Short DEF Letter
<1>2. IsSequence(<<"0">>) /\ Len(<<"0">>) = 1
  BY Short
<1>3. IsSequence(PrefixBuffer(base, flags)) /\ Len(PrefixBuffer(base, flags)) = Len(Letter(base, flags)) + 1
  BY <1>1, <1>2, Concatenation DEF PrefixBuffer
<1>4. QED
  BY <1>1, <1>3

(* Where there is room for the prefix all of it is put.                    *)
LEMMA PutPrefix ==
  ASSUME NEW rest, IsSequence(rest), NEW base, NEW flags,
         Len(rest) + Len(PrefixBuffer(base, flags)) <= BufferSize
  PROVE  Put(IF base = 16 THEN Put(rest, IF "upper" \in flags THEN "X" ELSE "x")
             ELSE IF base = 2 THEN Put(rest, "b") ELSE rest, "0")
           = rest \o PrefixBuffer(base, flags)
<1> DEFINE l == Letter(base, flags)
           letter == IF base = 16 THEN Put(rest, IF "upper" \in flags THEN "X" ELSE "x")
                     ELSE IF base = 2 THEN Put(rest, "b") ELSE rest
<1>1. BufferSize \in Nat /\ Len(rest) \in Nat
  BY SizesAssumption DEF IsSequence
<1>2. \A x : Append(rest, x) = rest \o <<x>>
  BY AppendIsConcat
<1>3. letter = rest \o l
  <2>1. CASE base \in {2, 16}
    <3>1. Len(rest) < BufferSize
      BY <1>1, <2>1, PrefixType
    <3>2. QED
      BY <1>2, <2>1, <3>1 DEF Put, Letter
  <2>2. CASE base \notin {2, 16}
    BY <2>2, NothingAdded DEF Letter
  <2>3. QED
    BY <2>1, <2>2
<1>4. IsSequence(l) /\ IsSequence(<<"0">>) /\ Len(<<"0">>) = 1
  BY PrefixType, Short
<1>5. IsSequence(rest \o l) /\ Len(rest \o l) = Len(rest) + Len(l)
  BY <1>4, Concatenation
<1>6. Len(rest \o l) < BufferSize
  <2>1. Len(l) \in Nat /\ Len(PrefixBuffer(base, flags)) = Len(l) + 1
    <3>1. IsSequence(l) /\ Len(PrefixBuffer(base, flags)) = Len(l) + 1
      BY PrefixType
    <3>2. QED
      BY <3>1 DEF IsSequence
  <2> HIDE DEF l
  <2>2. QED
    BY <1>1, <1>5, <2>1
<1>7. Put(letter, "0") = (rest \o l) \o <<"0">>
  BY <1>3, <1>5, <1>6, AppendIsConcat DEF Put
<1>8. (rest \o l) \o <<"0">> = rest \o (l \o <<"0">>)
  <2>1. IsSequence(rest) /\ IsSequence(l) /\ IsSequence(<<"0">>)
    BY <1>4
  <2> HIDE DEF l, letter
  <2>2. QED
    BY <2>1, Grouping
<1>9. QED
  BY <1>7, <1>8 DEF PrefixBuffer

(* A prefix goes behind a number that is not as long as its width or       *)
(* precision.                                                              *)
LEMMA HashAdds ==
  ASSUME NEW buf, IsSequence(buf), NEW base, NEW prec, NEW width, NEW flags,
         "precision" \in flags \/ Len(buf) = 0 \/ Len(buf) \notin {prec, width},
         Len(buf) + Len(PrefixBuffer(base, flags)) <= BufferSize
  PROVE  Hash(buf, base, prec, width, flags) = buf \o PrefixBuffer(base, flags)
<1> DEFINE taken == IF "precision" \notin flags /\ Len(buf) > 0 /\ Len(buf) \in {prec, width}
                      THEN IF base = 16 /\ Len(buf) > 1 THEN 2 ELSE 1
                      ELSE 0
           rest == SubSeq(buf, 1, Len(buf) - taken)
           letter == IF base = 16 THEN Put(rest, IF "upper" \in flags THEN "X" ELSE "x")
                     ELSE IF base = 2 THEN Put(rest, "b") ELSE rest
<1>1. Hash(buf, base, prec, width, flags) = Put(letter, "0")
  BY DEF Hash
<1>2. Len(buf) \in Nat
  BY DEF IsSequence
<1>3. taken = 0
  BY <1>2
<1> HIDE DEF taken
<1>4. rest = buf
  BY <1>2, <1>3 DEF IsSequence
<1> HIDE DEF rest
<1>5. QED
  BY <1>1, <1>4, PutPrefix

(* Digits, and what a prefix leaves of n zeros.                            *)
ZerosReplaced(digits, n, base, flags) ==
  (digits \o Repeat("0", n - Len(PrefixBuffer(base, flags)))) \o PrefixBuffer(base, flags)

(* It takes the place of zeros that were padded to its width, as many as   *)
(* it has characters.                                                      *)
LEMMA HashReplaces ==
  ASSUME NEW digits, IsSequence(digits), NEW n \in Nat, NEW base \in {8, 16}, NEW prec, NEW width,
         NEW flags, "precision" \notin flags, Len(digits) + n = width,
         Len(PrefixBuffer(base, flags)) <= n, Len(digits) + n <= BufferSize
  PROVE  Hash(digits \o Repeat("0", n), base, prec, width, flags)
           = ZerosReplaced(digits, n, base, flags)
<1> DEFINE p == Len(PrefixBuffer(base, flags))
           buf == digits \o Repeat("0", n)
           taken == IF "precision" \notin flags /\ Len(buf) > 0 /\ Len(buf) \in {prec, width}
                      THEN IF base = 16 /\ Len(buf) > 1 THEN 2 ELSE 1
                      ELSE 0
           rest == SubSeq(buf, 1, Len(buf) - taken)
           letter == IF base = 16 THEN Put(rest, IF "upper" \in flags THEN "X" ELSE "x")
                     ELSE IF base = 2 THEN Put(rest, "b") ELSE rest
<1>1. Hash(buf, base, prec, width, flags) = Put(letter, "0")
  BY DEF Hash
<1>2. Len(digits) \in Nat /\ p = IF base = 16 THEN 2 ELSE 1
  BY PrefixType DEF IsSequence
<1>3. IsSequence(Repeat("0", n)) /\ Len(Repeat("0", n)) = n
  BY RepeatNat
<1>4. Len(buf) = Len(digits) + n
  BY <1>3, Concatenation
<1>5. taken = p
  <2> HIDE DEF buf, p
  <2>1. p <= n
    BY DEF p
  <2>2. QED
    BY <1>2, <1>4, <2>1
<1>6. n - p \in Nat /\ n - p <= n /\ Len(buf) - taken = Len(digits) + (n - p)
  <2> HIDE DEF buf, taken, p
  <2>1. p <= n
    BY DEF p
  <2>2. QED
    BY <1>2, <1>4, <1>5, <2>1
<1>7. rest = digits \o Repeat("0", n - p)
  <2> HIDE DEF taken, p
  <2>1. QED
    BY <1>6, CutZeros
<1>8. IsSequence(rest) /\ Len(rest) + p <= BufferSize
  <2>1. IsSequence(Repeat("0", n - p)) /\ Len(Repeat("0", n - p)) = n - p
    BY <1>6, RepeatNat
  <2> HIDE DEF rest, p
  <2>2. IsSequence(rest) /\ Len(rest) = Len(digits) + (n - p)
    BY <1>7, <2>1, Concatenation
  <2>3. BufferSize \in Nat
    BY SizesAssumption
  <2>4. QED
    BY <1>2, <2>2, <2>3
<1> HIDE DEF rest, taken
<1>9. Put(letter, "0") = rest \o PrefixBuffer(base, flags)
  BY <1>8, PutPrefix
<1>10. QED
  BY <1>1, <1>7, <1>9 DEF ZerosReplaced
-----------------------------------------------------------------------------
(* The conversion buffer.                                                  *)

(* A sign has one character or none.                                       *)
LEMMA SignLength ==
  ASSUME NEW negative, NEW flags
  PROVE  /\ IsSequence(Sign(negative, flags)) /\ Len(Sign(negative, flags)) \in {0, 1}
         /\ Sign(negative, flags) = << >> <=> Len(Sign(negative, flags)) = 0
         /\ Reverse(Sign(negative, flags)) = Sign(negative, flags)
<1>1. Sign(negative, flags) \in {<<"-">>, <<"+">>, <<" ">>, << >>}
  BY DEF Sign
<1>2. \A x : IsSequence(<<x>>) /\ Len(<<x>>) = 1 /\ <<x>> # << >> /\ Reverse(<<x>>) = <<x>>
  BY Short, ReverseShort
<1>3. IsSequence(<< >>) /\ Len(<< >>) = 0 /\ Reverse(<< >>) = << >>
  BY Short, ReverseShort
<1> DEFINE s == Sign(negative, flags)
<1> HIDE DEF s
<1>4. CASE s = << >>
  BY <1>3, <1>4 DEF s
<1>5. ASSUME NEW x, s = <<x>>
      PROVE  IsSequence(s) /\ Len(s) \in {0, 1} /\ (s = << >> <=> Len(s) = 0) /\ Reverse(s) = s
  <2>1. IsSequence(s) /\ Len(s) = 1 /\ s # << >> /\ Reverse(s) = s
    BY <1>2, <1>5
  <2>2. QED
    BY <2>1
<1>6. s = << >> \/ \E x : s = <<x>>
  BY <1>1 DEF s
<1>7. QED
  BY <1>4, <1>5, <1>6 DEF s

(* How much zeros fill, with a sign to come (printf.c:233-242).            *)
LEMMA ZeroWidthIs ==
  ASSUME NEW negative, NEW width \in Nat, NEW flags
  PROVE  /\ Len(Sign(negative, flags)) = 0 => ZeroWidth(negative, width, flags) = width
         /\ "-" \notin flags /\ "0" \in flags =>
              ZeroWidth(negative, width, flags)
                = IF width > 0 THEN width - Len(Sign(negative, flags)) ELSE width
<1> DEFINE s == Sign(negative, flags)
<1>1. Len(s) \in {0, 1} /\ (s = << >> <=> Len(s) = 0)
  BY SignLength
<1>2. ZeroWidth(negative, width, flags)
        = IF "-" \notin flags /\ width > 0 /\ "0" \in flags /\ s # << >> THEN width - 1 ELSE width
  BY DEF ZeroWidth
<1> HIDE DEF s
<1>3. Len(s) = 0 => ZeroWidth(negative, width, flags) = width
  BY <1>1, <1>2
<1>4. "-" \notin flags /\ "0" \in flags =>
        ZeroWidth(negative, width, flags) = IF width > 0 THEN width - Len(s) ELSE width
  <2>1. CASE Len(s) = 0
    BY <1>3, <2>1
  <2>2. CASE Len(s) = 1
    BY <1>1, <1>2, <2>2
  <2>3. QED
    BY <1>1, <2>1, <2>2
<1>5. QED
  BY <1>3, <1>4 DEF s

(* PadZeros up to a size that the buffer has.                              *)
LEMMA PadZerosIs ==
  ASSUME NEW buf, IsSequence(buf), NEW n \in Int, NEW zeros \in Nat,
         n <= BufferSize, zeros = Larger(n - Len(buf), 0)
  PROVE  PadZeros(buf, n) = buf \o Repeat("0", zeros)
<1>1. Len(buf) \in Nat /\ BufferSize \in Nat
  BY SizesAssumption DEF IsSequence
<1>2. Smaller(n, BufferSize) = n
  BY <1>1 DEF Smaller
<1>3. n - Len(buf) \in Int
  BY <1>1
<1>4. Repeat("0", zeros) = Repeat("0", n - Len(buf))
  BY <1>3, RepeatNone
<1>5. QED
  BY <1>2, <1>4 DEF PadZeros

(* The zeros in front of the digits: those of the precision, and those     *)
(* that the flag 0 fills a width with.                                     *)
Missing(digits, prec) == Larger(prec - Len(digits), 0)

PrefixIn(base, flags) == IF "#" \in flags THEN PrefixBuffer(base, flags) ELSE << >>

Filled(digits, negative, base, width, flags) ==
  IF "0" \in flags /\ "-" \notin flags
    THEN Larger(width - (Len(Sign(negative, flags)) + Len(PrefixIn(base, flags)) + Len(digits)), 0)
    ELSE 0

Zeros(digits, negative, base, prec, width, flags) ==
  Missing(digits, prec) + Filled(digits, negative, base, width, flags)

(* The directives for which _ntoa_format puts what the standard wants.     *)
IsPlain(digits, negative, base, prec, width, flags) ==
  /\ "precision" \in flags => "0" \notin flags
  /\ "precision" \notin flags => prec = 0 /\ Len(digits) >= 1
  /\ "-" \in flags => Missing(digits, prec) = 0
  /\ Len(digits) + Zeros(digits, negative, base, prec, width, flags)
       + Len(PrefixIn(base, flags)) + Len(Sign(negative, flags)) <= BufferSize
  /\ "#" \in flags =>
       /\ base \in {2, 8, 16} /\ Len(Sign(negative, flags)) = 0
       /\ "precision" \notin flags =>
            /\ Len(digits) # width
            /\ Len(digits) < width /\ "0" \in flags =>
                 base # 2 /\ width >= Len(digits) + Len(PrefixIn(base, flags))

(* The numbers in it.                                                      *)
LEMMA ZerosType ==
  ASSUME NEW digits, IsSequence(digits), NEW negative, NEW base, NEW prec \in Nat,
         NEW width \in Nat, NEW flags
  PROVE  /\ Len(digits) \in Nat /\ Missing(digits, prec) \in Nat
         /\ IsSequence(PrefixIn(base, flags)) /\ Len(PrefixIn(base, flags)) \in Nat
         /\ Len(Sign(negative, flags)) \in {0, 1}
         /\ Filled(digits, negative, base, width, flags) \in Nat
         /\ Zeros(digits, negative, base, prec, width, flags) \in Nat
<1>1. Len(digits) \in Nat /\ Missing(digits, prec) \in Nat
  BY DEF IsSequence, Missing, Larger
<1>2. IsSequence(PrefixIn(base, flags))
  BY PrefixType, Short DEF PrefixIn
<1>3. Len(PrefixIn(base, flags)) \in Nat /\ Len(Sign(negative, flags)) \in {0, 1}
  BY <1>2, SignLength DEF IsSequence
<1>4. Filled(digits, negative, base, width, flags) \in Nat
  BY <1>1, <1>3 DEF Filled, Larger
<1>5. QED
  BY <1>1, <1>2, <1>3, <1>4 DEF Zeros

(* Digits and zeros, before the prefix (printf.c:233-242): to the          *)
(* precision, or to the width.                                             *)
LEMMA PaddedIs ==
  ASSUME NEW digits, IsSequence(digits), NEW negative, NEW base, NEW prec \in Nat,
         NEW width \in Nat, NEW flags, IsPlain(digits, negative, base, prec, width, flags)
  PROVE  LET w == ZeroWidth(negative, width, flags)
             precise == IF "-" \in flags THEN digits ELSE PadZeros(digits, prec)
             padded == IF "-" \notin flags /\ "0" \in flags THEN PadZeros(precise, w) ELSE precise
             z == IF "-" \notin flags /\ "0" \in flags THEN Larger(w - Len(digits), 0)
                  ELSE Missing(digits, prec)
         IN padded = digits \o Repeat("0", z) /\ z \in Nat
<1> DEFINE w == ZeroWidth(negative, width, flags)
           precise == IF "-" \in flags THEN digits ELSE PadZeros(digits, prec)
           d == Len(digits)
           m == Missing(digits, prec)
           f == Filled(digits, negative, base, width, flags)
           p == Len(PrefixIn(base, flags))
           s == Len(Sign(negative, flags))
<1>1. d \in Nat /\ m \in Nat /\ f \in Nat /\ p \in Nat /\ s \in {0, 1} /\ BufferSize \in Nat
  <2>1. BufferSize \in Nat
    BY SizesAssumption
  <2> HIDE DEF d, m, f, p, s, w
  <2>2. QED
    BY <2>1, ZerosType DEF d, m, f, p, s
<1>2. d + (m + f) + p + s <= BufferSize
  BY DEF IsPlain, Zeros
<1>3. m = Larger(prec - d, 0)
  BY DEF Missing
<1>4. prec <= BufferSize
  <2> HIDE DEF d, m, f, p, s
  <2>1. QED
    BY <1>1, <1>2, <1>3 DEF Larger
<1>5. PadZeros(digits, prec) = digits \o Repeat("0", m)
  <2>1. m \in Nat /\ m = Larger(prec - Len(digits), 0) /\ prec \in Int
    BY <1>1, <1>3
  <2> HIDE DEF m
  <2>2. QED
    BY <1>4, <2>1, PadZerosIs
<1>6. digits \o Repeat("0", 0) = digits
  <2>1. Repeat("0", 0) = << >>
    BY RepeatNone
  <2>2. QED
    BY <2>1, NothingAdded
<1>7. CASE "-" \in flags
  <2>1. m = 0
    BY <1>7 DEF IsPlain
  <2>2. QED
    BY <1>6, <1>7, <2>1
<1>8. CASE "-" \notin flags /\ "0" \notin flags
  BY <1>1, <1>5, <1>8
<1>9. CASE "-" \notin flags /\ "0" \in flags
  <2>1. prec = 0 /\ d >= 1
    BY <1>9 DEF IsPlain
  <2>2. m = 0
    <3> HIDE DEF d, m
    <3>1. QED
      BY <1>1, <1>3, <2>1 DEF Larger
  <2>3. precise = digits
    BY <1>5, <1>6, <1>9, <2>2
  <2>4. f = Larger(width - (s + p + d), 0)
    BY <1>9 DEF Filled
  <2>5. w = IF width > 0 THEN width - s ELSE width
    BY <1>9, ZeroWidthIs
  <2>6. w \in Int /\ w <= BufferSize /\ Larger(w - d, 0) \in Nat
    <3> HIDE DEF w, f, s, p, d, m
    <3>1. QED
      BY <1>1, <1>2, <2>4, <2>5 DEF Larger
  <2>7. PadZeros(digits, w) = digits \o Repeat("0", Larger(w - d, 0))
    <3> HIDE DEF w
    <3>1. QED
      BY <2>6, PadZerosIs
  <2>8. QED
    BY <1>9, <2>3, <2>6, <2>7
<1>10. QED
  BY <1>7, <1>8, <1>9
(* Digits, zeros and prefix: _ntoa_format before the sign.                 *)
Hashed(digits, negative, base, prec, width, flags) ==
  LET w == ZeroWidth(negative, width, flags)
      precise == IF "-" \in flags THEN digits ELSE PadZeros(digits, prec)
      padded == IF "-" \notin flags /\ "0" \in flags THEN PadZeros(precise, w) ELSE precise
  IN IF "#" \in flags THEN Hash(padded, base, prec, w, flags) ELSE padded

(* What they should be: one behind the other.                              *)
Joined(digits, negative, base, prec, width, flags) ==
  (digits \o Repeat("0", Zeros(digits, negative, base, prec, width, flags))) \o PrefixIn(base, flags)

(* They are (printf.c:233-265).                                            *)
LEMMA HashedIs ==
  ASSUME NEW digits, IsSequence(digits), NEW negative, NEW base, NEW prec \in Nat,
         NEW width \in Nat, NEW flags, IsPlain(digits, negative, base, prec, width, flags)
  PROVE  Hashed(digits, negative, base, prec, width, flags)
           = Joined(digits, negative, base, prec, width, flags)
<1> DEFINE w == ZeroWidth(negative, width, flags)
           precise == IF "-" \in flags THEN digits ELSE PadZeros(digits, prec)
           padded == IF "-" \notin flags /\ "0" \in flags THEN PadZeros(precise, w) ELSE precise
           d == Len(digits)
           m == Missing(digits, prec)
           f == Filled(digits, negative, base, width, flags)
           p == Len(PrefixIn(base, flags))
           s == Len(Sign(negative, flags))
           z == IF "-" \notin flags /\ "0" \in flags THEN Larger(w - d, 0) ELSE m
           all == Zeros(digits, negative, base, prec, width, flags)
<1>1. padded = digits \o Repeat("0", z) /\ z \in Nat
  BY PaddedIs
<1>2. /\ d \in Nat /\ m \in Nat /\ f \in Nat /\ p \in Nat /\ s \in {0, 1} /\ BufferSize \in Nat
      /\ IsSequence(PrefixIn(base, flags))
  <2>1. BufferSize \in Nat
    BY SizesAssumption
  <2> HIDE DEF d, m, f, p, s
  <2>2. QED
    BY <2>1, ZerosType DEF d, m, f, p, s
<1>3. m = Larger(prec - d, 0) /\ all = m + f /\ d + all + p + s <= BufferSize
  BY DEF Missing, Zeros, IsPlain
<1>4. f = IF "0" \in flags /\ "-" \notin flags THEN Larger(width - (s + p + d), 0) ELSE 0
  BY DEF Filled
<1>5. "0" \in flags /\ "-" \notin flags => w = IF width > 0 THEN width - s ELSE width
  BY ZeroWidthIs
<1>6. /\ "precision" \in flags => "0" \notin flags
      /\ "precision" \notin flags => prec = 0 /\ d >= 1
  BY DEF IsPlain
<1>7. "precision" \notin flags => m = 0
  <2> HIDE DEF d, m
  <2>1. QED
    BY <1>2, <1>3, <1>6 DEF Larger
<1> SUFFICES (IF "#" \in flags THEN Hash(padded, base, prec, w, flags) ELSE padded)
               = (digits \o Repeat("0", all)) \o PrefixIn(base, flags)
  BY DEF Hashed, Joined
<1>8. CASE "#" \notin flags
  <2>1. PrefixIn(base, flags) = << >> /\ p = 0
    BY <1>8, Short DEF PrefixIn
  <2>2. z = all
    <3>1. CASE "0" \in flags /\ "-" \notin flags
      <4>1. z = Larger(w - d, 0) /\ w = IF width > 0 THEN width - s ELSE width
        BY <1>5, <3>1
      <4>2. m = 0 /\ f = Larger(width - (s + p + d), 0)
        BY <1>4, <1>6, <1>7, <3>1
      <4> HIDE DEF w, d, m, f, p, s, z, all
      <4>3. QED
        BY <1>2, <1>3, <2>1, <4>1, <4>2 DEF Larger
    <3>2. CASE ~("0" \in flags /\ "-" \notin flags)
      BY <1>2, <1>3, <1>4, <3>2
    <3>3. QED
      BY <3>1, <3>2
  <2>3. IsSequence(digits \o Repeat("0", all))
    BY <1>1, <2>2, RepeatNat, Concatenation
  <2> HIDE DEF z, all, padded
  <2>4. QED
    BY <1>1, <1>8, <2>1, <2>2, <2>3, NothingAdded
<1>9. CASE "#" \in flags
  <2>1. /\ PrefixIn(base, flags) = PrefixBuffer(base, flags)
        /\ base \in {2, 8, 16} /\ s = 0 /\ w = width
        /\ p = IF base \in {2, 16} THEN 2 ELSE 1
    BY <1>9, ZeroWidthIs, PrefixType DEF IsPlain, PrefixIn
  <2>2. "precision" \notin flags =>
          d # width /\ (d < width /\ "0" \in flags => base # 2 /\ width >= d + p)
    BY <1>9 DEF IsPlain
  <2>3. CASE "0" \in flags /\ "-" \notin flags /\ d < width
    <3> DEFINE n == width - d
    <3>1. "precision" \notin flags /\ base \in {8, 16} /\ width >= d + p /\ m = 0
      BY <1>6, <1>7, <2>1, <2>2, <2>3
    <3>2. z = Larger(width - d, 0) /\ f = Larger(width - (0 + p + d), 0)
      BY <1>4, <2>1, <2>3
    <3>3. n \in Nat /\ d + n = width /\ p <= n /\ d + n <= BufferSize /\ z = n /\ all = n - p
      <4> HIDE DEF w, d, m, f, p, s, z, all
      <4>1. QED
        BY <1>2, <1>3, <2>1, <2>3, <3>1, <3>2 DEF Larger
    <3> HIDE DEF n
    <3>4. Hash(digits \o Repeat("0", n), base, prec, width, flags)
            = ZerosReplaced(digits, n, base, flags)
      <4>1. Len(PrefixBuffer(base, flags)) <= n /\ Len(digits) + n = width
            /\ Len(digits) + n <= BufferSize
        BY <2>1, <3>3
      <4> HIDE DEF w, precise, padded, d, m, f, p, s, z, all
      <4>2. QED
        BY <3>1, <3>3, <4>1, HashReplaces
    <3> HIDE DEF padded, w, z, all
    <3>5. QED
      BY <1>1, <1>9, <2>1, <3>3, <3>4 DEF ZerosReplaced
  <2>4. CASE ~("0" \in flags /\ "-" \notin flags /\ d < width)
    <3>1. z = m /\ f = 0
      <4>1. CASE "0" \in flags /\ "-" \notin flags
        <5>1. ~(d < width) /\ m = 0 /\ z = Larger(width - d, 0) /\ f = Larger(width - (0 + p + d), 0)
          BY <1>4, <1>6, <1>7, <2>1, <2>4, <4>1
        <5> HIDE DEF w, d, m, f, p, s, z, all
        <5>2. QED
          BY <1>2, <5>1 DEF Larger
      <4>2. CASE ~("0" \in flags /\ "-" \notin flags)
        BY <1>4, <4>2
      <4>3. QED
        BY <4>1, <4>2
    <3>2. z = all
      <4> HIDE DEF w, d, m, f, p, s, z, all
      <4>1. QED
        BY <1>2, <1>3, <3>1
    <3>3. IsSequence(padded) /\ Len(padded) = d + z
      <4>1. IsSequence(Repeat("0", z)) /\ Len(Repeat("0", z)) = z
        BY <1>1, RepeatNat
      <4> HIDE DEF z, padded
      <4>2. QED
        BY <1>1, <4>1, Concatenation
    <3>4. "precision" \in flags \/ Len(padded) = 0 \/ Len(padded) \notin {prec, w}
      <4>1. ASSUME "precision" \notin flags PROVE Len(padded) \notin {prec, w}
        <5>1. z = 0 /\ prec = 0 /\ d >= 1 /\ d # width
          BY <1>6, <1>7, <2>2, <3>1, <4>1
        <5> HIDE DEF padded, z, d, w
        <5>2. QED
          BY <1>2, <2>1, <3>3, <5>1
      <4>2. QED
        BY <4>1
    <3>5. Len(padded) + Len(PrefixBuffer(base, flags)) <= BufferSize
      <4>1. Len(PrefixBuffer(base, flags)) = p
        BY <2>1
      <4> HIDE DEF padded, w, d, m, f, p, s, z, all
      <4>2. QED
        <5>1. d + z + p + s <= BufferSize /\ d \in Nat /\ z \in Nat /\ p \in Nat /\ s \in Nat
                /\ BufferSize \in Nat
          <6>1. d + all + p + s <= BufferSize
            BY <1>3
          <6>2. s \in Nat
            BY <1>2
          <6>3. QED
            BY <1>1, <1>2, <3>2, <6>1, <6>2
        <5>2. Len(padded) = d + z
          BY <3>3
        <5>3. QED
          BY <4>1, <5>1, <5>2
    <3> HIDE DEF padded, w, z, all
    <3>6. Hash(padded, base, prec, w, flags) = padded \o PrefixBuffer(base, flags)
      BY <3>3, <3>4, <3>5, HashAdds
    <3>7. QED
      BY <1>1, <1>9, <2>1, <3>2, <3>6
  <2>5. QED
    BY <2>3, <2>4
<1>10. QED
  BY <1>8, <1>9

(* With the sign: the whole buffer.                                        *)
Backwards(digits, negative, base, prec, width, flags) ==
  Joined(digits, negative, base, prec, width, flags) \o Sign(negative, flags)

(* _ntoa_format, for plain directives: digits, zeros, prefix and sign, one *)
(* behind the other (printf.c:230-276).                                    *)
LEMMA FormatIs ==
  ASSUME NEW digits, IsSequence(digits), NEW negative, NEW base, NEW prec \in Nat,
         NEW width \in Nat, NEW flags, IsPlain(digits, negative, base, prec, width, flags)
  PROVE  NtoaFormat(digits, negative, base, prec, width, flags)
           = Backwards(digits, negative, base, prec, width, flags)
<1> DEFINE hashed == Hashed(digits, negative, base, prec, width, flags)
           joined == Joined(digits, negative, base, prec, width, flags)
           z == Zeros(digits, negative, base, prec, width, flags)
           d == Len(digits)
           prefix == PrefixIn(base, flags)
           p == Len(prefix)
           s == Sign(negative, flags)
<1>1. NtoaFormat(digits, negative, base, prec, width, flags)
        = IF Len(hashed) < BufferSize THEN hashed \o s ELSE hashed
  BY DEF NtoaFormat, Hashed
<1>2. hashed = joined
  BY HashedIs
<1>3. /\ d \in Nat /\ z \in Nat /\ p \in Nat /\ Len(s) \in {0, 1} /\ IsSequence(prefix)
      /\ s = << >> <=> Len(s) = 0
  BY ZerosType, SignLength
<1>4. d + z + p + Len(s) <= BufferSize /\ BufferSize \in Nat
  <2>1. d + z + p + Len(s) <= BufferSize
    BY DEF IsPlain
  <2>2. QED
    BY <2>1, SizesAssumption
<1>5. joined = (digits \o Repeat("0", z)) \o prefix
  BY DEF Joined
<1> HIDE DEF hashed, joined, z, d, prefix, p, s
<1>6. IsSequence(joined) /\ Len(joined) = d + z + p
  <2>1. IsSequence(Repeat("0", z)) /\ Len(Repeat("0", z)) = z
    BY <1>3, RepeatNat
  <2>2. IsSequence(digits \o Repeat("0", z)) /\ Len(digits \o Repeat("0", z)) = d + z
    BY <2>1, Concatenation DEF d
  <2>3. QED
    BY <1>3, <1>5, <2>2, Concatenation DEF p
<1>7. CASE d + z + p < BufferSize
  BY <1>1, <1>2, <1>6, <1>7 DEF Backwards, joined, s
<1>8. CASE ~(d + z + p < BufferSize)
  <2>1. s = << >>
    BY <1>3, <1>4, <1>8
  <2>2. joined \o s = joined
    BY <1>6, <2>1, NothingAdded
  <2>3. QED
    BY <1>1, <1>2, <1>6, <1>8, <2>2 DEF Backwards, joined, s
<1>9. QED
  BY <1>7, <1>8
-----------------------------------------------------------------------------
(* The text of a number.                                                   *)

(* Only the length of the digits counts.                                   *)
LEMMA LengthCounts ==
  ASSUME NEW digits, NEW others, Len(digits) = Len(others), NEW negative, NEW base, NEW prec,
         NEW width, NEW flags
  PROVE  /\ Zeros(digits, negative, base, prec, width, flags)
              = Zeros(others, negative, base, prec, width, flags)
         /\ IsPlain(others, negative, base, prec, width, flags)
              => IsPlain(digits, negative, base, prec, width, flags)
<1>1. /\ Missing(digits, prec) = Missing(others, prec)
      /\ Filled(digits, negative, base, width, flags) = Filled(others, negative, base, width, flags)
  BY DEF Missing, Filled
<1>2. Zeros(digits, negative, base, prec, width, flags)
        = Zeros(others, negative, base, prec, width, flags)
  BY <1>1 DEF Zeros
<1>3. QED
  BY <1>1, <1>2 DEF IsPlain

(* Sign, prefix, zeros and digits, in the order they are read in.          *)
Written(digits, negative, base, prec, width, flags) ==
  ((Sign(negative, flags) \o Reverse(PrefixIn(base, flags)))
     \o Repeat("0", Zeros(digits, negative, base, prec, width, flags))) \o digits

(* Turned round, the conversion buffer reads so.                           *)
LEMMA TurnedRound ==
  ASSUME NEW digits, IsSequence(digits), NEW negative, NEW base, NEW prec \in Nat,
         NEW width \in Nat, NEW flags
  PROVE  Reverse(Backwards(digits, negative, base, prec, width, flags))
           = Written(Reverse(digits), negative, base, prec, width, flags)
<1> DEFINE s == Sign(negative, flags)
           prefix == PrefixIn(base, flags)
           z == Zeros(digits, negative, base, prec, width, flags)
           zeros == Repeat("0", z)
           joined == Joined(digits, negative, base, prec, width, flags)
<1>1. IsSequence(s) /\ Reverse(s) = s
  BY SignLength
<1>2. IsSequence(prefix) /\ z \in Nat
  BY ZerosType
<1>3. z = Zeros(Reverse(digits), negative, base, prec, width, flags)
  BY LengthCounts, Reversal
<1>4. joined = (digits \o zeros) \o prefix
  BY DEF Joined
<1>5. Written(Reverse(digits), negative, base, prec, width, flags)
        = ((s \o Reverse(prefix)) \o zeros) \o Reverse(digits)
  BY <1>3 DEF Written
<1> HIDE DEF joined, s, prefix, z
<1>6. IsSequence(zeros) /\ Reverse(zeros) = zeros
  BY <1>2, RepeatNat, ReverseShort
<1> HIDE DEF zeros
<1>7. IsSequence(digits \o zeros) /\ Reverse(digits \o zeros) = zeros \o Reverse(digits)
  BY <1>6, Concatenation, ReverseConcat
<1>8. IsSequence(joined) /\ Reverse(joined) = Reverse(prefix) \o (zeros \o Reverse(digits))
  BY <1>2, <1>4, <1>7, Concatenation, ReverseConcat
<1>9. Reverse(joined \o s) = s \o (Reverse(prefix) \o (zeros \o Reverse(digits)))
  BY <1>1, <1>8, ReverseConcat
<1>10. IsSequence(Reverse(digits)) /\ IsSequence(Reverse(prefix))
  BY <1>2, Reversal
<1> DEFINE r == Reverse(digits)
           q == Reverse(prefix)
<1>11. IsSequence(r) /\ IsSequence(q) /\ Reverse(joined \o s) = s \o (q \o (zeros \o r))
  BY <1>9, <1>10
<1> HIDE DEF r, q
<1> DEFINE head == s \o q
           tail == zeros \o r
<1>12. IsSequence(tail) /\ IsSequence(head)
  BY <1>1, <1>6, <1>11, Concatenation
<1> HIDE DEF head, tail
<1>13. s \o (q \o tail) = head \o tail
  <2>1. (s \o q) \o tail = s \o (q \o tail)
    <3>1. IsSequence(s) /\ IsSequence(q) /\ IsSequence(tail)
      BY <1>1, <1>11, <1>12
    <3>2. QED
      BY <3>1, Grouping
  <2>2. QED
    BY <2>1 DEF head
<1>14. head \o tail = (head \o zeros) \o r
  <2>1. (head \o zeros) \o r = head \o (zeros \o r)
    <3>1. IsSequence(head) /\ IsSequence(zeros) /\ IsSequence(r)
      BY <1>6, <1>11, <1>12
    <3>2. QED
      BY <3>1, Grouping
  <2>2. QED
    BY <2>1 DEF tail
<1>15. Reverse(joined \o s) = ((s \o q) \o zeros) \o r
  BY <1>11, <1>13, <1>14 DEF head, tail
<1>16. QED
  BY <1>5, <1>15 DEF Backwards, joined, s, r, q

(* Its length.                                                             *)
LEMMA WrittenLength ==
  ASSUME NEW digits, IsSequence(digits), NEW negative, NEW base, NEW prec \in Nat,
         NEW width \in Nat, NEW flags
  PROVE  /\ IsSequence(Written(digits, negative, base, prec, width, flags))
         /\ Len(Written(digits, negative, base, prec, width, flags))
              = Len(Sign(negative, flags)) + Len(PrefixIn(base, flags))
                  + Zeros(digits, negative, base, prec, width, flags) + Len(digits)
<1> DEFINE s == Sign(negative, flags)
           q == Reverse(PrefixIn(base, flags))
           z == Zeros(digits, negative, base, prec, width, flags)
           zeros == Repeat("0", z)
<1>1. IsSequence(s)
  BY SignLength
<1>2. IsSequence(q) /\ Len(q) = Len(PrefixIn(base, flags)) /\ z \in Nat
  BY ZerosType, Reversal
<1>3. Written(digits, negative, base, prec, width, flags) = ((s \o q) \o zeros) \o digits
  BY DEF Written
<1> HIDE DEF s, q, z
<1>4. IsSequence(zeros) /\ Len(zeros) = z
  BY <1>2, RepeatNat
<1> HIDE DEF zeros
<1>5. IsSequence(s \o q) /\ Len(s \o q) = Len(s) + Len(q)
  BY <1>1, <1>2, Concatenation
<1>6. IsSequence((s \o q) \o zeros) /\ Len((s \o q) \o zeros) = Len(s) + Len(q) + z
  BY <1>4, <1>5, Concatenation
<1>7. /\ IsSequence(((s \o q) \o zeros) \o digits)
      /\ Len(((s \o q) \o zeros) \o digits) = Len(s) + Len(q) + z + Len(digits)
  BY <1>6, Concatenation
<1>8. QED
  BY <1>2, <1>3, <1>7 DEF s, z

(* _out_rev pads with spaces where zeros have not filled the width         *)
(* (printf.c:171-191).                                                     *)
LEMMA OutRevPads ==
  ASSUME NEW buf, IsSequence(buf), NEW width \in Int, NEW flags,
         "0" \in flags /\ "-" \notin flags => Len(buf) >= width
  PROVE  OutRev(buf, width, flags) = StdPad(Reverse(buf), width, flags)
<1> DEFINE r == Reverse(buf)
           spaces == Repeat(" ", width - Len(buf))
<1>1. IsSequence(r) /\ Len(r) = Len(buf) /\ Len(buf) \in Nat /\ width - Len(buf) \in Int
  BY Reversal DEF IsSequence
<1>2. StdPad(r, width, flags) = IF "-" \in flags THEN r \o spaces ELSE spaces \o r
  BY <1>1, RepeatNone DEF StdPad
<1>3. CASE "-" \in flags
  BY <1>2, <1>3 DEF OutRev
<1>4. CASE "-" \notin flags /\ "0" \notin flags
  BY <1>2, <1>4 DEF OutRev
<1>5. CASE "-" \notin flags /\ "0" \in flags
  <2>1. spaces = << >>
    <3>1. width - Len(buf) <= 0 /\ width - Len(buf) \in Int
      BY <1>1, <1>5
    <3>2. QED
      BY <3>1, RepeatNone
  <2>2. << >> \o r = r
    BY <1>1, NothingAdded
  <2>3. OutRev(buf, width, flags) = r
    BY <1>5 DEF OutRev
  <2> HIDE DEF r, spaces
  <2>4. StdPad(r, width, flags) = r
    BY <1>2, <1>5, <2>1, <2>2
  <2>5. QED
    BY <2>3, <2>4 DEF r
<1>6. QED
  BY <1>3, <1>4, <1>5
(* No prefix for 0, and no digits with a precision (printf.c:285-291).     *)
FlagsLeft(value, allFlags) == IF value = 0 THEN allFlags \ {"#"} ELSE allFlags

DigitsOf(value, base, allFlags) ==
  IF "precision" \in allFlags /\ value = 0 THEN << >>
  ELSE StdDigits(Abs(value), base, "upper" \in allFlags)

(* The digits of _ntoa_long and _ntoa_long_long, backwards                 *)
(* (printf.c:282-330), are those of the standard.                          *)
LEMMA NtoaDigitsAsStd ==
  ASSUME NEW value \in Int, Abs(value) < Power(2, Bits["long"]), NEW base \in Nat, base >= 2,
         NEW allFlags, NEW flags, flags = FlagsLeft(value, allFlags),
         NEW digits, digits = DigitsOf(value, base, allFlags),
         Len(digits) <= BufferSize
  PROVE  /\ IsSequence(digits)
         /\ IsSequence(NtoaDigits(Abs(value), base, flags))
         /\ Len(NtoaDigits(Abs(value), base, flags)) = Len(digits)
         /\ Reverse(NtoaDigits(Abs(value), base, flags)) = digits
<1> DEFINE b == NtoaDigits(Abs(value), base, flags)
<1>1. Abs(value) \in Nat /\ (Abs(value) = 0 <=> value = 0) /\ BufferSize \in Nat \ {0}
  BY SizesAssumption DEF Abs
<1>2. /\ "precision" \in flags <=> "precision" \in allFlags
      /\ "upper" \in flags <=> "upper" \in allFlags
  BY DEF FlagsLeft
<1>3. CASE "precision" \in allFlags /\ value = 0
  <2>1. digits = << >> /\ b = << >>
    BY <1>1, <1>2, <1>3 DEF NtoaDigits, DigitsOf
  <2>2. QED
    BY <2>1, Short, ReverseShort
<1>4. CASE ~("precision" \in allFlags /\ value = 0)
  <2> DEFINE upper == "upper" \in allFlags
  <2>1. digits = StdDigits(Abs(value), base, upper)
    BY <1>4 DEF DigitsOf
  <2>2. b = Digits(Abs(value), base, "upper" \in flags, BufferSize)
    BY <1>1, <1>2, <1>4 DEF NtoaDigits
  <2>3. ("upper" \in flags) = upper
    BY <1>2
  <2>4. b = Digits(Abs(value), base, upper, BufferSize)
    BY <2>2, <2>3
  <2> HIDE DEF upper, b
  <2>5. /\ IsSequence(b) /\ Len(b) = Len(digits) /\ Reverse(b) = digits
    BY <1>1, <2>1, <2>4, DigitsAsStd
  <2>6. IsSequence(digits)
    BY <2>5, Reversal
  <2>7. QED
    BY <2>5, <2>6 DEF b
<1>5. QED
  BY <1>3, <1>4

(* The text of a number, from its value, base, precision, width and flags. *)
LEMMA NtoaIsStd ==
  ASSUME NEW value \in Int, Abs(value) < Power(2, Bits["long"]), NEW base \in Nat, base >= 2,
         NEW prec \in Nat, NEW width \in Nat,
         NEW allFlags, NEW flags, flags = FlagsLeft(value, allFlags),
         NEW digits, digits = DigitsOf(value, base, allFlags),
         IsSequence(digits), IsPlain(digits, value < 0, base, prec, width, flags)
  PROVE  OutRev(NtoaBuffer(value, base, prec, width, allFlags), width, allFlags)
           = StdPad(Written(digits, value < 0, base, prec, width, flags), width, allFlags)
<1> DEFINE b == NtoaDigits(Abs(value), base, flags)
           negative == value < 0
           buf == NtoaBuffer(value, base, prec, width, allFlags)
           written == Written(digits, negative, base, prec, width, flags)
           d == Len(digits)
           z == Zeros(digits, negative, base, prec, width, flags)
           f == Filled(digits, negative, base, width, flags)
           m == Missing(digits, prec)
           p == Len(PrefixIn(base, flags))
           s == Len(Sign(negative, flags))
<1>1. /\ d \in Nat /\ z \in Nat /\ m \in Nat /\ f \in Nat /\ p \in Nat /\ s \in {0, 1}
      /\ BufferSize \in Nat
  <2>1. BufferSize \in Nat
    BY SizesAssumption
  <2> HIDE DEF negative
  <2>2. d \in Nat /\ z \in Nat /\ m \in Nat /\ f \in Nat /\ p \in Nat /\ s \in {0, 1}
    BY ZerosType
  <2>3. QED
    BY <2>1, <2>2
<1>2. d + z + p + s <= BufferSize
  BY DEF IsPlain
<1>3. Len(digits) <= BufferSize
  <2> HIDE DEF z, p, s
  <2>1. QED
    BY <1>1, <1>2
<1>4. IsSequence(b) /\ Len(b) = d /\ Reverse(b) = digits
  BY <1>3, NtoaDigitsAsStd
<1>5. buf = NtoaFormat(b, negative, base, prec, width, flags)
  BY DEF NtoaBuffer, FlagsLeft
<1> HIDE DEF b, negative, buf
<1>6. IsPlain(b, negative, base, prec, width, flags)
  BY <1>4, LengthCounts DEF negative
<1>7. buf = Backwards(b, negative, base, prec, width, flags)
  BY <1>4, <1>5, <1>6, FormatIs
<1>8. Reverse(buf) = written
  BY <1>4, <1>7, TurnedRound
<1>9. IsSequence(buf)
  BY NtoaFits DEF buf
<1>10. IsSequence(written) /\ Len(written) = s + p + z + d
  BY WrittenLength
<1>11. Len(buf) = s + p + z + d
  BY <1>8, <1>9, <1>10, Reversal
<1>12. "0" \in allFlags /\ "-" \notin allFlags => Len(buf) >= width
  <2>1. SUFFICES ASSUME "0" \in flags, "-" \notin flags
                 PROVE  Len(buf) >= width
    BY DEF FlagsLeft
  <2>2. z = m + f /\ f = Larger(width - (s + p + d), 0)
    BY <2>1 DEF Zeros, Filled
  <2> HIDE DEF d, z, f, m, p, s
  <2>3. QED
    BY <1>1, <1>11, <2>2 DEF Larger
<1> HIDE DEF written
<1>13. OutRev(buf, width, allFlags) = StdPad(Reverse(buf), width, allFlags)
  BY <1>9, <1>12, OutRevPads
<1>14. QED
  BY <1>8, <1>13 DEF buf, written, negative
-----------------------------------------------------------------------------
(* The directive of a number.                                              *)

(* What Integer and Pointer hand to _ntoa_long: specifier, flags, value    *)
(* and width (printf.c:688-746, 825-842).                                  *)
NumberSpec == IF Piece.spec = "p" THEN "X" ELSE Piece.spec

NumberFlags(at) ==
  IF Piece.spec = "p" THEN PointerFlags(at) ELSE IntegerFlags(Piece.spec, FlagsOf(at))

NumberValue(at) ==
  IF Piece.spec = "p" THEN Unsigned(call.args[ValueAt(at)], Bits["long"])
  ELSE IntegerValue(Piece.spec, IntegerFlags(Piece.spec, FlagsOf(at)), call.args[ValueAt(at)])

NumberWidth(at) == IF Piece.spec = "p" THEN PointerDigits ELSE Width(at)

(* A well-formed directive for a number that the standard covers.          *)
Covered(at) ==
  /\ IsNumber /\ IsDirective(Piece)
  /\ Piece.flags \subseteq FlagChars /\ Piece.length \in DOMAIN LengthFlags
  /\ ~NumberDiffers(at)

(* The flags of a length are no characters, and are kept.                  *)
LEMMA LengthFlagsKept ==
  ASSUME NEW at, Piece.flags \subseteq FlagChars, Piece.length \in DOMAIN LengthFlags
  PROVE  /\ \A f \in {"long", "short", "char"} : f \in FlagsOf(at) <=> f \in LengthFlags[Piece.length]
         /\ "upper" \notin FlagsOf(at)
         /\ \A f \in {"long", "short", "char"} :
              f \in IntegerFlags(Piece.spec, FlagsOf(at)) <=> f \in LengthFlags[Piece.length]
<1>1. \A f \in {"long", "short", "char", "upper"} : f \notin Piece.flags
  BY DEF FlagChars
<1>2. "upper" \notin LengthFlags[Piece.length]
  BY DEF LengthFlags
<1>3. /\ \A f \in {"long", "short", "char"} : f \in FlagsOf(at) <=> f \in LengthFlags[Piece.length]
      /\ "upper" \notin FlagsOf(at)
  BY <1>1, <1>2 DEF FlagsOf
<1> DEFINE F == FlagsOf(at)
<1> HIDE DEF F
<1>4. \A f \in {"long", "short", "char"} : f \in IntegerFlags(Piece.spec, F) <=> f \in F
  BY DEF IntegerFlags
<1>5. QED
  BY <1>3, <1>4 DEF F

(* The flags that are left.                                                *)
LEMMA FlagsLeftAre ==
  ASSUME NEW at, Covered(at)
  PROVE  /\ "precision" \in NumberFlags(at) <=> Piece.precision # Absent
         /\ "precision" \in FlagsOf(at) <=> Piece.precision # Absent
         /\ "-" \in NumberFlags(at) <=> "-" \in FlagsOf(at)
         /\ "upper" \in NumberFlags(at) <=> NumberSpec = "X"
         /\ "0" \in NumberFlags(at) <=>
              ("0" \in FlagsOf(at) \/ Piece.spec = "p") /\ Piece.precision = Absent
         /\ "#" \in NumberFlags(at) <=> "#" \in FlagsOf(at) /\ Base(NumberSpec) # 10
         /\ NumberSpec \in SignedSpecs =>
              /\ "+" \in NumberFlags(at) <=> "+" \in FlagsOf(at)
              /\ " " \in NumberFlags(at) <=> " " \in FlagsOf(at)
         /\ NumberSpec \notin SignedSpecs => {"+", " "} \cap NumberFlags(at) = {}
<1> DEFINE F == FlagsOf(at)
<1>1. "precision" \in F <=> Piece.precision # Absent
  BY PrecisionFlag DEF Covered
<1>2. "upper" \notin F
  BY LengthFlagsKept DEF Covered
<1> HIDE DEF F
<1>3. CASE Piece.spec = "p"
  <2>1. NumberSpec = "X" /\ NumberFlags(at) = F \cup {"0", "upper"} /\ Base(NumberSpec) # 10
    BY <1>3 DEF NumberSpec, NumberFlags, PointerFlags, Base, F
  <2>2. Piece.precision = Absent /\ {"+", " "} \cap F = {}
    <3> DEFINE n == StdNumber(at)
    <3>1. Piece.precision = Absent /\ {"+", " "} \cap n.flags = {}
      BY <1>3 DEF Covered, NumberDiffers
    <3>2. n.flags = F \cup {"long", "0"}
      <4>1. AskedFlags(at) = F
        BY DEF Covered, NumberDiffers, AskedFlags, F
      <4>2. QED
        BY <1>3, <4>1 DEF StdNumber
    <3> HIDE DEF n
    <3>3. QED
      BY <3>1, <3>2
  <2>3. NumberSpec \notin SignedSpecs
    BY <2>1 DEF SignedSpecs
  <2> DEFINE G == NumberFlags(at)
  <2> HIDE DEF G
  <2>4. /\ "precision" \in G <=> "precision" \in F
        /\ "-" \in G <=> "-" \in F
        /\ "#" \in G <=> "#" \in F
        /\ "upper" \in G /\ "0" \in G
        /\ {"+", " "} \cap G = {}
    BY <2>1, <2>2 DEF G
  <2>5. NumberSpec = "X" /\ Base(NumberSpec) # 10 /\ Piece.precision = Absent
    BY <2>1, <2>2
  <2>6. QED
    <3>1. "precision" \in NumberFlags(at) <=> Piece.precision # Absent
      BY <1>1, <2>4 DEF G
    <3>2. "precision" \in FlagsOf(at) <=> Piece.precision # Absent
      BY <1>1 DEF F
    <3>3. "-" \in NumberFlags(at) <=> "-" \in FlagsOf(at)
      BY <2>4 DEF F, G
    <3>4. /\ "upper" \in NumberFlags(at) <=> NumberSpec = "X"
          /\ "0" \in NumberFlags(at) <=>
              ("0" \in FlagsOf(at) \/ Piece.spec = "p") /\ Piece.precision = Absent
      BY <1>3, <2>4, <2>5 DEF G
    <3>5. "#" \in NumberFlags(at) <=> "#" \in FlagsOf(at) /\ Base(NumberSpec) # 10
      BY <2>4, <2>5 DEF F, G
    <3>6. {"+", " "} \cap NumberFlags(at) = {}
      BY <2>4 DEF G
    <3>7. QED
      BY <2>3, <3>1, <3>2, <3>3, <3>4, <3>5, <3>6
<1>4. CASE Piece.spec # "p"
  <2>1. NumberSpec = Piece.spec /\ NumberFlags(at) = IntegerFlags(Piece.spec, F)
    BY <1>4 DEF NumberSpec, NumberFlags, F
  <2>2. QED
    BY <1>1, <1>2, <1>4, <2>1 DEF IntegerFlags, F
<1>5. QED
  BY <1>3, <1>4

(* The base of the digits.                                                 *)
LEMMA BaseType == Base(NumberSpec) \in {2, 8, 10, 16}
BY DEF Base

(* Reduction to a type (printf.c:708-746).                                 *)
LEMMA ReducedType ==
  ASSUME NEW n \in Int, NEW type \in DOMAIN Bits
  PROVE  /\ Unsigned(n, Bits[type]) \in Nat /\ Unsigned(n, Bits[type]) < Power(2, Bits["long"])
         /\ Signed(n, Bits[type]) \in Int /\ Abs(Signed(n, Bits[type])) < Power(2, Bits["long"])
<1> DEFINE M == Power(2, Bits[type])
           L == Power(2, Bits["long"])
           u == n % M
<1>1. M \in Nat \ {0} /\ L \in Nat \ {0}
  <2>1. "long" \in DOMAIN Bits
    BY SizesAssumption
  <2>2. QED
    BY <2>1, SizesOfTypes
<1>2. M <= L
  <2>1. Bits[type] \in Nat /\ Bits["long"] \in Nat /\ Bits[type] <= Bits["long"]
    BY SizesAssumption
  <2>2. QED
    BY <2>1, PowerGrows
<1> DEFINE s == IF 2 * u >= M THEN u - M ELSE u
<1>3. Unsigned(n, Bits[type]) = u /\ Signed(n, Bits[type]) = s
  BY DEF Unsigned, Signed
<1> HIDE DEF M, L
<1>4. u \in 0..M - 1
  BY <1>1
<1> HIDE DEF u
<1>5. s \in Int /\ Abs(s) < L
  BY <1>1, <1>2, <1>4 DEF Abs
<1>6. u \in Nat /\ u < L
  BY <1>1, <1>2, <1>4
<1> HIDE DEF s
<1>7. QED
  BY <1>3, <1>5, <1>6 DEF L

(* The value is cut to the type that the standard says.                    *)
LEMMA ValueAsStd ==
  ASSUME NEW at, Covered(at), call.args[ValueAt(at)] \in Int
  PROVE  /\ NumberValue(at) = StdValue(call.args[ValueAt(at)],
                                       IF Piece.spec = "p" THEN "l" ELSE Piece.length,
                                       NumberSpec \in SignedSpecs)
         /\ NumberValue(at) \in Int /\ Abs(NumberValue(at)) < Power(2, Bits["long"])
         /\ NumberSpec \notin SignedSpecs => ~(NumberValue(at) < 0)
<1> DEFINE n == call.args[ValueAt(at)]
           v == NumberValue(at)
<1>1. DOMAIN Bits = {"char", "short", "int", "long"}
  BY SizesAssumption
<1>2. \A type \in DOMAIN Bits :
        /\ Unsigned(n, Bits[type]) \in Nat /\ Unsigned(n, Bits[type]) < Power(2, Bits["long"])
        /\ Signed(n, Bits[type]) \in Int /\ Abs(Signed(n, Bits[type])) < Power(2, Bits["long"])
  BY ReducedType
<1>3. \A m \in Nat : Abs(m) = m /\ ~(m < 0)
  BY DEF Abs
<1>4. CASE Piece.spec = "p"
  <2>1. v = Unsigned(n, Bits["long"]) /\ NumberSpec = "X"
    BY <1>4 DEF NumberValue, NumberSpec
  <2>2. StdValue(n, "l", NumberSpec \in SignedSpecs) = Unsigned(n, Bits["long"])
    BY <2>1 DEF StdValue, SignedSpecs
  <2> HIDE DEF n, v
  <2>3. v \in Nat /\ v < Power(2, Bits["long"])
    BY <1>1, <1>2, <2>1
  <2>4. Abs(v) = v /\ ~(v < 0)
    BY <1>3, <2>3
  <2>5. QED
    BY <1>4, <2>1, <2>2, <2>3, <2>4 DEF n, v
<1>5. CASE Piece.spec # "p"
  <2> DEFINE F == IntegerFlags(Piece.spec, FlagsOf(at))
             signed == Piece.spec \in SignedSpecs
  <2>1. NumberSpec = Piece.spec /\ v = IntegerValue(Piece.spec, F, n)
    BY <1>5 DEF NumberSpec, NumberValue
  <2>2. \A f \in {"long", "short", "char"} : f \in F <=> f \in LengthFlags[Piece.length]
    BY LengthFlagsKept DEF Covered
  <2>3. Piece.length = "hh" => ~signed
    BY DEF Covered, NumberDiffers
  <2>4. Piece.length \in {"none", "l", "ll", "h", "hh", "t", "j", "z"}
    BY DEF Covered, LengthFlags
  <2> HIDE DEF F, n, v
  <2>5. PICK type \in {"char", "short", "int", "long"} :
          /\ StdValue(n, Piece.length, signed)
               = IF signed THEN Signed(n, Bits[type]) ELSE Unsigned(n, Bits[type])
          /\ v = IF signed THEN Signed(n, Bits[type]) ELSE Unsigned(n, Bits[type])
    <3>1. CASE Piece.length = "none"
      <4>1. {"long", "short", "char"} \cap F = {}
        BY <2>2, <3>1 DEF LengthFlags
      <4>2. QED
        BY <2>1, <3>1, <4>1 DEF StdValue, IntegerValue
    <3>2. CASE Piece.length \in {"l", "ll", "t", "j", "z"}
      <4>1. "long" \in F /\ "char" \notin F
        BY <2>2, <3>2 DEF LengthFlags
      <4>2. QED
        BY <2>1, <3>2, <4>1 DEF StdValue, IntegerValue
    <3>3. CASE Piece.length = "h"
      <4>1. "short" \in F /\ {"long", "char"} \cap F = {}
        BY <2>2, <3>3 DEF LengthFlags
      <4>2. QED
        BY <2>1, <3>3, <4>1 DEF StdValue, IntegerValue
    <3>4. CASE Piece.length = "hh"
      <4>1. "char" \in F /\ ~signed
        BY <2>2, <2>3, <3>4 DEF LengthFlags
      <4>2. QED
        BY <2>1, <3>4, <4>1 DEF StdValue, IntegerValue
    <3>5. QED
      BY <2>4, <3>1, <3>2, <3>3, <3>4
  <2>6. v \in Int /\ Abs(v) < Power(2, Bits["long"]) /\ (~signed => ~(v < 0))
    <3>1. CASE signed
      BY <1>1, <1>2, <2>5, <3>1
    <3>2. CASE ~signed
      <4>1. v \in Nat /\ v < Power(2, Bits["long"])
        BY <1>1, <1>2, <2>5, <3>2
      <4>2. QED
        BY <1>3, <4>1
    <3>3. QED
      BY <3>1, <3>2
  <2>7. QED
    BY <1>5, <2>1, <2>5, <2>6 DEF n, v
<1>6. QED
  BY <1>4, <1>5
(* The standard's digits: at least one.                                    *)
LEMMA StdDigitsType ==
  ASSUME NEW value \in Nat, NEW base \in Nat, base >= 2, value < Power(2, Bits["long"]), NEW upper
  PROVE  IsSequence(StdDigits(value, base, upper)) /\ Len(StdDigits(value, base, upper)) >= 1
<1> DEFINE count == CHOOSE k \in 1..Bits["long"] + 1 :
                      value < Power(base, k) /\ \A m \in 1..k - 1 : value >= Power(base, m)
<1>1. count \in Nat /\ count >= 1
  <2>1. PICK k \in 1..Bits["long"] + 1 : IsCount(k, value, base)
    BY CountExists
  <2>2. value < Power(base, k) /\ \A m \in 1..k - 1 : value >= Power(base, m)
    BY <2>1 DEF IsCount
  <2>3. count \in 1..Bits["long"] + 1
    BY <2>2
  <2>4. Bits["long"] \in Nat
    BY SizesAssumption
  <2> HIDE DEF count
  <2>5. QED
    BY <2>3, <2>4
<1>2. StdDigits(value, base, upper)
        = [k \in 1..count |->
             (IF upper THEN Upper ELSE Lower)[((value \div Power(base, count - k)) % base) + 1]]
  BY DEF StdDigits
<1> HIDE DEF count
<1> DEFINE std == StdDigits(value, base, upper)
<1>3. DOMAIN std = 1..count
  BY <1>2
<1>4. std = [k \in DOMAIN std |-> std[k]]
  BY <1>2
<1> HIDE DEF std
<1>5. Len(std) = count
  BY <1>1, <1>3
<1>6. QED
  BY <1>1, <1>3, <1>4, <1>5 DEF IsSequence, std

(* Two characters, one behind the other.                                   *)
LEMMA Pair == \A x, y : <<x>> \o <<y>> = <<x, y>>
<1>1. SUFFICES ASSUME NEW x, NEW y PROVE <<x>> \o <<y>> = <<x, y>>
  OBVIOUS
<1> DEFINE s == <<x>>
           t == <<y>>
           p == <<x, y>>
<1>2. IsSequence(s) /\ Len(s) = 1 /\ IsSequence(t) /\ Len(t) = 1
  BY Short
<1>3. s[1] = x /\ t[1] = y
  OBVIOUS
<1>4. p[1] = x /\ p[2] = y /\ Len(p) = 2 /\ DOMAIN p = 1..2
  OBVIOUS
<1>5. p = [k \in 1..2 |-> p[k]]
  OBVIOUS
<1> HIDE DEF s, t, p
<1>6. IsSequence(p)
  BY <1>4, <1>5 DEF IsSequence
<1>7. /\ IsSequence(s \o t) /\ Len(s \o t) = 2
      /\ \A k \in 1..2 : (s \o t)[k] = IF k <= 1 THEN s[k] ELSE t[k - 1]
  <2>1. /\ IsSequence(s \o t) /\ Len(s \o t) = Len(s) + Len(t)
        /\ \A k \in 1..Len(s) + Len(t) :
             (s \o t)[k] = IF k <= Len(s) THEN s[k] ELSE t[k - Len(s)]
    BY <1>2, Concatenation
  <2>2. Len(s) + Len(t) = 2
    BY <1>2
  <2>3. QED
    BY <1>2, <2>1, <2>2
<1>8. \A k \in 1..2 : (s \o t)[k] = p[k]
  BY <1>3, <1>4, <1>7
<1>9. s \o t = p
  BY <1>4, <1>6, <1>7, <1>8, SameText
<1>10. QED
  BY <1>9 DEF s, t, p

(* The parts of a number as StdNumber names them.                          *)
StdFlags(at) == FlagsOf(at) \cup (IF Piece.spec = "p" THEN {"long", "0"} ELSE {})

StdPrefix(spec, flags, value) ==
  IF "#" \notin flags \/ value = 0 THEN << >>
  ELSE [x |-> <<"0", "x">>, X |-> <<"0", "X">>, b |-> <<"0", "b">>, o |-> <<"0">>,
        d |-> << >>, i |-> << >>, u |-> << >>][spec]

StdSign(spec, flags, value) == IF spec \in SignedSpecs THEN Sign(value < 0, flags) ELSE << >>

(* The flags for which the standard's parts are looked at.                 *)
LEMMA StdFlagsAre ==
  ASSUME NEW at, Covered(at)
  PROVE  /\ \A f \in {"+", " ", "-", "#", "precision"} : f \in StdFlags(at) <=> f \in FlagsOf(at)
         /\ "0" \in StdFlags(at) <=> "0" \in FlagsOf(at) \/ Piece.spec = "p"
BY DEF StdFlags

(* The prefix, read the other way round, is the standard's.                *)
LEMMA PrefixAsStd ==
  ASSUME NEW at, Covered(at), NEW value
  PROVE  LET flags == FlagsLeft(value, NumberFlags(at))
             prefix == StdPrefix(NumberSpec, StdFlags(at), value)
         IN /\ Reverse(PrefixIn(Base(NumberSpec), flags)) = prefix
            /\ IsSequence(prefix) /\ Len(prefix) = Len(PrefixIn(Base(NumberSpec), flags))
            /\ "#" \in flags <=> prefix # << >>
            /\ "#" \in flags => Base(NumberSpec) \in {2, 8, 16} /\ NumberSpec \notin SignedSpecs
<1> DEFINE flags == FlagsLeft(value, NumberFlags(at))
           prefix == StdPrefix(NumberSpec, StdFlags(at), value)
           spec == NumberSpec
           base == Base(NumberSpec)
           letter == IF "upper" \in flags THEN "X" ELSE "x"
<1>1. spec \in {"d", "i", "u", "x", "X", "o", "b"}
  BY DEF Covered, IsNumber, IntegerSpecs, NumberSpec
<1>2. base = IF spec \in {"x", "X"} THEN 16 ELSE IF spec = "o" THEN 8 ELSE IF spec = "b" THEN 2 ELSE 10
  BY DEF Base
<1>3. /\ "#" \in NumberFlags(at) <=> "#" \in StdFlags(at) /\ base # 10
      /\ "upper" \in NumberFlags(at) <=> spec = "X"
  BY FlagsLeftAre, StdFlagsAre
<1>4. /\ "#" \in flags <=> value # 0 /\ "#" \in NumberFlags(at)
      /\ "upper" \in flags <=> "upper" \in NumberFlags(at)
  BY DEF FlagsLeft
<1> HIDE DEF flags, base
<1>5. CASE "#" \notin flags
  <2>1. prefix = << >>
    BY <1>1, <1>2, <1>3, <1>4, <1>5 DEF StdPrefix
  <2>2. PrefixIn(base, flags) = << >>
    BY <1>5 DEF PrefixIn
  <2> HIDE DEF prefix
  <2>3. Reverse(PrefixIn(base, flags)) = prefix
    BY <2>1, <2>2, ReverseShort
  <2>4. QED
    BY <1>5, <2>1, <2>2, <2>3, Short DEF flags, prefix, base
<1>6. CASE "#" \in flags
  <2>1. /\ "#" \in StdFlags(at) /\ value # 0 /\ base # 10
        /\ "upper" \in flags <=> spec = "X"
    BY <1>3, <1>4, <1>6
  <2>2. prefix = IF base = 16 THEN <<"0", letter>> ELSE IF base = 2 THEN <<"0", "b">> ELSE <<"0">>
    BY <1>1, <1>2, <2>1 DEF StdPrefix
  <2>3. spec \in {"x", "X", "o", "b"} /\ base \in {2, 8, 16}
    BY <1>1, <1>2, <2>1
  <2>4. spec \notin SignedSpecs
    BY <2>3 DEF SignedSpecs
  <2>5. /\ PrefixIn(base, flags) = PrefixBuffer(base, flags)
        /\ IsSequence(PrefixBuffer(base, flags))
    BY <1>6, PrefixType DEF PrefixIn
  <2> HIDE DEF prefix, letter
  <2>6. PrefixBuffer(base, flags)
          = IF base = 16 THEN <<letter, "0">> ELSE IF base = 2 THEN <<"b", "0">> ELSE <<"0">>
    <3>1. \A x : <<x>> \o <<"0">> = <<x, "0">>
      BY Pair
    <3>2. << >> \o <<"0">> = <<"0">>
      BY NothingAdded, Short
    <3>3. QED
      BY <3>1, <3>2 DEF PrefixBuffer, Letter, letter
  <2>7. Reverse(PrefixBuffer(base, flags)) = prefix /\ prefix # << >>
    BY <2>2, <2>6, ReverseShort
  <2>8. IsSequence(prefix) /\ Len(prefix) = Len(PrefixBuffer(base, flags))
    BY <2>5, <2>7, Reversal
  <2>9. QED
    BY <1>6, <2>3, <2>4, <2>5, <2>7, <2>8 DEF flags, prefix, base
<1>7. QED
  BY <1>5, <1>6

(* So is the sign.                                                         *)
LEMMA SignAsStd ==
  ASSUME NEW at, Covered(at), NEW value, NumberSpec \notin SignedSpecs => ~(value < 0)
  PROVE  LET flags == FlagsLeft(value, NumberFlags(at))
         IN Sign(value < 0, flags) = StdSign(NumberSpec, StdFlags(at), value)
<1> DEFINE flags == FlagsLeft(value, NumberFlags(at))
<1>1. \A f \in {"+", " "} : f \in flags <=> f \in NumberFlags(at)
  BY DEF FlagsLeft
<1> HIDE DEF flags
<1>2. CASE NumberSpec \in SignedSpecs
  <2>1. \A f \in {"+", " "} : f \in flags <=> f \in StdFlags(at)
    BY <1>1, <1>2, FlagsLeftAre, StdFlagsAre
  <2>2. QED
    BY <1>2, <2>1 DEF Sign, StdSign, flags
<1>3. CASE NumberSpec \notin SignedSpecs
  <2>1. "+" \notin flags /\ " " \notin flags /\ ~(value < 0)
    BY <1>1, <1>3, FlagsLeftAre
  <2>2. QED
    BY <1>3, <2>1 DEF Sign, StdSign, flags
<1>4. QED
  BY <1>2, <1>3

(* And the digits, of which there is at least one but for a 0 with a       *)
(* precision.                                                              *)
LEMMA DigitsAreStd ==
  ASSUME NEW at, Covered(at), NEW value \in Int, Abs(value) < Power(2, Bits["long"])
  PROVE  LET digits == DigitsOf(value, Base(NumberSpec), NumberFlags(at))
         IN /\ digits = IF "precision" \in StdFlags(at) /\ value = 0 THEN << >>
                        ELSE StdDigits(Abs(value), Base(NumberSpec), NumberSpec = "X")
            /\ IsSequence(digits)
            /\ Piece.precision = Absent => Len(digits) >= 1
<1> DEFINE digits == DigitsOf(value, Base(NumberSpec), NumberFlags(at))
           base == Base(NumberSpec)
           upper == NumberSpec = "X"
           std == StdDigits(Abs(value), base, upper)
<1>1. /\ "precision" \in NumberFlags(at) <=> Piece.precision # Absent
      /\ "precision" \in StdFlags(at) <=> Piece.precision # Absent
      /\ ("upper" \in NumberFlags(at)) = upper
  <2>1. /\ "precision" \in NumberFlags(at) <=> Piece.precision # Absent
        /\ "precision" \in StdFlags(at) <=> Piece.precision # Absent
    BY FlagsLeftAre, StdFlagsAre
  <2>2. "upper" \in NumberFlags(at) <=> NumberSpec = "X"
    BY FlagsLeftAre
  <2>3. QED
    BY <2>1, <2>2
<1>2. digits = IF "precision" \in StdFlags(at) /\ value = 0 THEN << >> ELSE std
  BY <1>1 DEF DigitsOf
<1>3. base \in Nat /\ base >= 2
  BY BaseType
<1>4. Abs(value) \in Nat
  BY DEF Abs
<1> HIDE DEF upper, base
<1>5. IsSequence(std) /\ Len(std) >= 1
  BY <1>3, <1>4, StdDigitsType
<1> HIDE DEF std
<1>6. IsSequence(digits) /\ (Piece.precision = Absent => Len(digits) >= 1)
  BY <1>1, <1>2, <1>5, Short
<1>7. QED
  BY <1>2, <1>6 DEF std, base, upper
(* The zeros of a precision and of a width in StdNumber.                   *)
StdMissing(at, digits) ==
  Larger((IF "precision" \in StdFlags(at) THEN Precision(at) ELSE 1) - Len(digits), 0)

StdFill(at, sign, prefix, digits) ==
  IF "0" \in StdFlags(at) /\ {"-", "precision"} \cap StdFlags(at) = {}
    THEN Larger(NumberWidth(at) - Len(sign \o prefix \o digits), 0) ELSE 0

(* StdNumber, part by part.                                                *)
LEMMA StdNumberIs ==
  ASSUME NEW at, Covered(at), call.args[ValueAt(at)] \in Int
  PROVE  LET value == NumberValue(at)
             digits == DigitsOf(value, Base(NumberSpec), NumberFlags(at))
             prefix == StdPrefix(NumberSpec, StdFlags(at), value)
             sign == StdSign(NumberSpec, StdFlags(at), value)
             n == StdNumber(at)
         IN /\ n.digits = digits /\ n.prefix = prefix /\ n.missing = StdMissing(at, digits)
            /\ n.base = Base(NumberSpec) /\ n.flags = StdFlags(at) /\ n.width = NumberWidth(at)
            /\ n.number = sign \o prefix
                            \o Repeat("0", StdMissing(at, digits) + StdFill(at, sign, prefix, digits))
                            \o digits
<1> DEFINE value == NumberValue(at)
           digits == DigitsOf(value, Base(NumberSpec), NumberFlags(at))
           stdValue == StdValue(call.args[ValueAt(at)], IF Piece.spec = "p" THEN "l" ELSE Piece.length,
                                NumberSpec \in SignedSpecs)
           stdDigits == IF "precision" \in StdFlags(at) /\ stdValue = 0 THEN << >>
                        ELSE StdDigits(Abs(stdValue), Base(NumberSpec), NumberSpec = "X")
           prefix == StdPrefix(NumberSpec, StdFlags(at), stdValue)
           sign == StdSign(NumberSpec, StdFlags(at), stdValue)
<1>1. StdNumber(at)
        = [digits |-> stdDigits, prefix |-> prefix, missing |-> StdMissing(at, stdDigits),
           base |-> Base(NumberSpec), flags |-> StdFlags(at), width |-> NumberWidth(at),
           number |-> sign \o prefix
                        \o Repeat("0", StdMissing(at, stdDigits) + StdFill(at, sign, prefix, stdDigits))
                        \o stdDigits]
  <2>1. AskedFlags(at) = FlagsOf(at)
    BY DEF Covered, NumberDiffers, AskedFlags
  <2>2. QED
    BY <2>1 DEF StdNumber, StdFlags, StdPrefix, StdSign, StdMissing, StdFill, NumberSpec, NumberWidth
<1>2. stdValue = value /\ value \in Int /\ Abs(value) < Power(2, Bits["long"])
  BY ValueAsStd
<1> HIDE DEF stdValue, value
<1>3. digits = IF "precision" \in StdFlags(at) /\ value = 0 THEN << >>
               ELSE StdDigits(Abs(value), Base(NumberSpec), NumberSpec = "X")
  BY <1>2, DigitsAreStd
<1>4. digits = stdDigits
  BY <1>2, <1>3
<1> HIDE DEF digits, stdDigits
<1> DEFINE n == StdNumber(at)
<1>5. /\ n.digits = digits /\ n.prefix = prefix /\ n.missing = StdMissing(at, digits)
      /\ n.base = Base(NumberSpec) /\ n.flags = StdFlags(at) /\ n.width = NumberWidth(at)
      /\ n.number = sign \o prefix
                      \o Repeat("0", StdMissing(at, digits) + StdFill(at, sign, prefix, digits))
                      \o digits
  BY <1>1, <1>4
<1>6. QED
  BY <1>2, <1>5 DEF digits, value
(* For the numbers the standard covers it is what _ntoa_format has put     *)
(* into its buffer, which is the plain case of it.                         *)
LEMMA NumberIsPlain ==
  ASSUME NEW at, Covered(at), call.args[ValueAt(at)] \in Int,
         Width(at) \in Nat, Precision(at) \in Nat
  PROVE  LET value == NumberValue(at)
             flags == FlagsLeft(value, NumberFlags(at))
             base == Base(NumberSpec)
             digits == DigitsOf(value, base, NumberFlags(at))
         IN /\ IsSequence(digits) /\ NumberWidth(at) \in Nat
            /\ StdNumber(at).number
                 = Written(digits, value < 0, base, Precision(at), NumberWidth(at), flags)
            /\ IsPlain(digits, value < 0, base, Precision(at), NumberWidth(at), flags)
<1> DEFINE value == NumberValue(at)
           flags == FlagsLeft(value, NumberFlags(at))
           base == Base(NumberSpec)
           digits == DigitsOf(value, base, NumberFlags(at))
           prec == Precision(at)
           width == NumberWidth(at)
           negative == value < 0
           prefix == StdPrefix(NumberSpec, StdFlags(at), value)
           sign == StdSign(NumberSpec, StdFlags(at), value)
           n == StdNumber(at)
           d == Len(digits)
           m == Missing(digits, prec)
           f == Filled(digits, negative, base, width, flags)
           p == Len(PrefixIn(base, flags))
           s == Len(Sign(negative, flags))
<1>1. /\ value \in Int /\ Abs(value) < Power(2, Bits["long"])
      /\ NumberSpec \notin SignedSpecs => ~(value < 0)
  BY ValueAsStd
<1>2. /\ n.digits = digits /\ n.prefix = prefix /\ n.missing = StdMissing(at, digits)
      /\ n.base = base /\ n.flags = StdFlags(at) /\ n.width = width
      /\ n.number = sign \o prefix
                      \o Repeat("0", StdMissing(at, digits) + StdFill(at, sign, prefix, digits))
                      \o digits
  BY StdNumberIs
<1> HIDE DEF n
<1>3. width \in Nat /\ prec \in Nat
  <2>1. Bits["long"] \in Nat
    BY SizesAssumption
  <2>2. PointerDigits \in Nat
    BY <2>1 DEF PointerDigits
  <2>3. QED
    BY <2>2 DEF NumberWidth
<1> HIDE DEF value, width
<1>4. /\ Reverse(PrefixIn(base, flags)) = prefix /\ IsSequence(prefix) /\ Len(prefix) = p
      /\ "#" \in flags <=> prefix # << >>
      /\ "#" \in flags => base \in {2, 8, 16} /\ NumberSpec \notin SignedSpecs
  BY PrefixAsStd
<1>5. Sign(negative, flags) = sign
  BY <1>1, SignAsStd
<1>6. IsSequence(digits) /\ (Piece.precision = Absent => Len(digits) >= 1)
  BY <1>1, DigitsAreStd
<1>7. Piece.precision = Absent => prec = 0
  BY DEF Precision, Absent, Star
<1>8. /\ "precision" \in flags <=> Piece.precision # Absent
      /\ "precision" \in StdFlags(at) <=> Piece.precision # Absent
      /\ "-" \in flags <=> "-" \in StdFlags(at)
      /\ "0" \in flags <=> "0" \in StdFlags(at) /\ Piece.precision = Absent
  <2>1. \A c \in {"precision", "-", "0"} : c \in flags <=> c \in NumberFlags(at)
    BY DEF FlagsLeft
  <2> HIDE DEF flags
  <2>2. QED
    BY <2>1, FlagsLeftAre, StdFlagsAre
<1> HIDE DEF flags, base, digits, prec, prefix, sign, negative
<1>9. d \in Nat /\ m \in Nat /\ f \in Nat /\ p \in Nat /\ s \in {0, 1}
  BY <1>3, <1>6, ZerosType
<1>10. StdMissing(at, digits) = m
  <2>1. CASE Piece.precision # Absent
    BY <1>8, <2>1 DEF StdMissing, Missing, prec
  <2>2. CASE Piece.precision = Absent
    <3>1. StdMissing(at, digits) = Larger(1 - d, 0) /\ m = Larger(0 - d, 0) /\ d >= 1
      BY <1>6, <1>7, <1>8, <2>2 DEF StdMissing, Missing
    <3> HIDE DEF d, m
    <3>2. QED
      BY <1>9, <3>1 DEF Larger
  <2>3. QED
    BY <2>1, <2>2
<1>11. Len(sign \o prefix \o digits) = s + p + d
  <2>1. IsSequence(sign) /\ Len(sign) = s
    BY <1>5, SignLength
  <2>2. IsSequence(sign \o prefix) /\ Len(sign \o prefix) = s + p
    BY <1>4, <2>1, Concatenation
  <2>3. QED
    BY <1>6, <2>2, Concatenation
<1>12. StdFill(at, sign, prefix, digits) = f
  <2>1. StdFill(at, sign, prefix, digits)
          = IF "0" \in StdFlags(at) /\ "-" \notin StdFlags(at) /\ "precision" \notin StdFlags(at)
              THEN Larger(width - (s + p + d), 0) ELSE 0
    BY <1>11 DEF StdFill, width
  <2>2. f = IF "0" \in flags /\ "-" \notin flags THEN Larger(width - (s + p + d), 0) ELSE 0
    BY DEF Filled
  <2> HIDE DEF f, s, p, d
  <2>3. QED
    BY <1>8, <2>1, <2>2
<1>13. Zeros(digits, negative, base, prec, width, flags) = m + f
  BY DEF Zeros
<1>14. n.number = Written(digits, negative, base, prec, width, flags)
  BY <1>2, <1>4, <1>5, <1>10, <1>12, <1>13 DEF Written
<1>15. Len(n.number) = s + p + (m + f) + d
  BY <1>3, <1>6, <1>13, <1>14, WrittenLength
<1>16. /\ Len(n.number) <= BufferSize
       /\ ~("-" \in n.flags /\ n.missing > 0)
       /\ prefix # << >> /\ Piece.precision = Absent => Len(n.digits) # n.width
       /\ prefix # << >> /\ Piece.precision = Absent /\ Len(n.digits) < n.width /\ "0" \in n.flags =>
            n.base # 2 /\ ~(n.width < Len(n.prefix) + Len(n.digits))
  <2>1. ~NumberDiffers(at)
    BY DEF Covered
  <2>2. Len(n.number) \in Int /\ BufferSize \in Int
    <3>1. BufferSize \in Int
      BY SizesAssumption
    <3> HIDE DEF s, p, m, f, d
    <3>2. QED
      BY <1>9, <1>15, <3>1
  <2>3. ~(Len(n.number) > BufferSize)
    BY <2>1 DEF NumberDiffers, n
  <2>4. Len(n.number) <= BufferSize
    <3> DEFINE l == Len(n.number)
    <3> HIDE DEF l
    <3>1. l \in Int /\ BufferSize \in Int /\ ~(l > BufferSize)
      BY <2>2, <2>3 DEF l
    <3>2. l <= BufferSize
      BY <3>1
    <3>3. QED
      BY <3>2 DEF l
  <2>5. /\ ~("-" \in n.flags /\ n.missing > 0)
        /\ ~(n.prefix # << >> /\ Piece.precision = Absent /\ Len(n.digits) = n.width)
        /\ ~(n.prefix # << >> /\ Piece.precision = Absent /\ Len(n.digits) < n.width /\ "0" \in n.flags
                /\ (n.base = 2 \/ n.width < Len(n.prefix) + Len(n.digits)))
    BY <2>1, Zenon DEF NumberDiffers, n
  <2>6. n.prefix = prefix
    BY <1>2
  <2>7. QED
    BY <2>4, <2>5, <2>6, Zenon
<1>17. IsPlain(digits, negative, base, prec, width, flags)
  <2>1. "precision" \in flags => "0" \notin flags
    BY <1>8
  <2>2. "precision" \notin flags => prec = 0 /\ Len(digits) >= 1
    BY <1>6, <1>7, <1>8
  <2>3. "-" \in flags => m = 0
    <3>1. "-" \in flags => ~(m > 0)
      BY <1>2, <1>8, <1>10, <1>16
    <3> HIDE DEF m
    <3>2. QED
      BY <1>9, <3>1
  <2>4. d + (m + f) + p + s <= BufferSize
    <3>1. BufferSize \in Nat
      BY SizesAssumption
    <3>2. s + p + (m + f) + d <= BufferSize
      BY <1>15, <1>16
    <3> HIDE DEF d, m, f, p, s
    <3>3. QED
      BY <1>9, <3>1, <3>2
  <2>5. "#" \in flags => s = 0
    <3>1. "#" \in flags => sign = << >>
      BY <1>4 DEF sign, StdSign
    <3>2. QED
      BY <1>5, <3>1, Short
  <2>6. "#" \in flags /\ "precision" \notin flags =>
          d # width /\ (d < width /\ "0" \in flags => base # 2 /\ width >= d + p)
    <3>1. SUFFICES ASSUME "#" \in flags, "precision" \notin flags
                   PROVE  d # width /\ (d < width /\ "0" \in flags => base # 2 /\ width >= d + p)
      OBVIOUS
    <3>2. prefix # << >> /\ Piece.precision = Absent /\ Len(prefix) = p
      BY <1>4, <1>8, <3>1
    <3>3. d # width
      BY <1>2, <1>16, <3>2
    <3>4. ASSUME d < width, "0" \in flags PROVE base # 2 /\ width >= d + p
      <4>1. base # 2 /\ ~(width < p + d)
        BY <1>2, <1>8, <1>16, <3>2, <3>4
      <4> HIDE DEF d, p
      <4>2. QED
        BY <1>3, <1>9, <4>1
    <3>5. QED
      BY <3>3, <3>4
  <2>7. QED
    BY <1>4, <1>13, <2>1, <2>2, <2>3, <2>4, <2>5, <2>6 DEF IsPlain
<1>18. QED
  BY <1>3, <1>6, <1>14, <1>17 DEF value, flags, base, digits, prec, width, negative, n

(* What Integer and Pointer put out for such a number is what the standard *)
(* says (printf.c:171-330, 680-747, 825-842).                              *)
LEMMA NumberIsStd ==
  ASSUME NEW at, Covered(at), call.args[ValueAt(at)] \in Int,
         Width(at) \in Nat, Precision(at) \in Nat
  PROVE  OutRev(NtoaBuffer(NumberValue(at), Base(NumberSpec), Precision(at), NumberWidth(at),
                           NumberFlags(at)),
                NumberWidth(at), NumberFlags(at))
           = StdText(at)
<1> DEFINE value == NumberValue(at)
           all == NumberFlags(at)
           flags == FlagsLeft(value, all)
           base == Base(NumberSpec)
           digits == DigitsOf(value, base, all)
           prec == Precision(at)
           width == NumberWidth(at)
           n == StdNumber(at)
<1>1. value \in Int /\ Abs(value) < Power(2, Bits["long"])
  BY ValueAsStd
<1>2. base \in Nat /\ base >= 2
  BY BaseType
<1>3. /\ IsSequence(digits) /\ width \in Nat
      /\ n.number = Written(digits, value < 0, base, prec, width, flags)
      /\ IsPlain(digits, value < 0, base, prec, width, flags)
  BY NumberIsPlain
<1>4. n.flags = StdFlags(at) /\ n.width = width
  BY StdNumberIs
<1>5. "-" \in all <=> "-" \in StdFlags(at)
  BY FlagsLeftAre, StdFlagsAre
<1>6. StdText(at) = StdPad(n.number, n.width, n.flags)
  BY DEF StdText, Covered
<1> HIDE DEF value, all, base, width, n
<1>7. prec \in Nat
  OBVIOUS
<1> HIDE DEF prec
<1>8. OutRev(NtoaBuffer(value, base, prec, width, all), width, all)
        = StdPad(Written(digits, value < 0, base, prec, width, flags), width, all)
  BY <1>1, <1>2, <1>3, <1>7, NtoaIsStd
<1>9. \A chars : StdPad(chars, width, all) = StdPad(chars, width, StdFlags(at))
  BY <1>5 DEF StdPad
<1>10. OutRev(NtoaBuffer(value, base, prec, width, all), width, all) = StdText(at)
  BY <1>3, <1>4, <1>6, <1>8, <1>9
<1>11. QED
  BY <1>10 DEF value, all, base, prec, width

(* The pieces that are numbers.                                            *)
IsNumberPiece == pos <= Len(call.format) /\ IsDirective(Piece) /\ IsNumber

(* A step for such a piece puts out what the standard gives for it.        *)
LEMMA NumberStep ==
  IInv /\ [Next]_vars => (IsNumberPiece => PutsOutPiece)
<1>1. SUFFICES ASSUME IInv, [Next]_vars, IsNumberPiece, pos' = pos + 1, ~Differs(arg)
               PROVE  text' = text \o StdText(arg)
  BY ArgumentsStep DEF PutsOutPiece
<1>2. Literal \/ Convert
  <2>1. pos \in Nat
    BY <1>1, ArgumentsDefined DEF IInv, TypeOK, IsSequence
  <2>2. pos' # pos
    BY <1>1, <2>1
  <2>3. QED
    BY <1>1, <2>2 DEF Next, Terminate, Finished, vars
<1>3. /\ IsDirective(Piece)
      /\ Integer \/ Pointer
  BY <1>1, <1>2 DEF IsNumberPiece, Literal, Convert, IsNumber, Integer, Pointer, Float, Character,
                    String, OtherSpec, IntegerSpecs, FloatSpecs, ValueSpecs
<1>4. pos \in 1..Len(call.format)
  BY <1>1, <1>2, PieceStep DEF IInv, TypeOK
<1>5. /\ Width(arg) \in Nat /\ Precision(arg) \in Nat
      /\ Piece.flags \subseteq FlagChars /\ Piece.length \in DOMAIN LengthFlags
      /\ call.args[ValueAt(arg)] \in Int
  BY <1>1, <1>3, <1>4, FieldsType DEF IInv, IsNumberPiece
<1>6. Covered(arg)
  BY <1>1, <1>3, <1>5 DEF Covered, Differs, IsNumberPiece
<1>7. OutRev(NtoaBuffer(NumberValue(arg), Base(NumberSpec), Precision(arg), NumberWidth(arg),
                        NumberFlags(arg)),
             NumberWidth(arg), NumberFlags(arg))
        = StdText(arg)
  BY <1>5, <1>6, NumberIsStd
<1>8. CASE Integer
  <2>1. Piece.spec # "p"
    BY <1>8 DEF Integer, IntegerSpecs
  <2>2. text' = text \o OutRev(IntegerBuffer(arg), Width(arg), IntegerFlags(Piece.spec, FlagsOf(arg)))
    BY <1>8 DEF Integer, Emit
  <2>3. QED
    BY <1>7, <2>1, <2>2 DEF IntegerBuffer, NumberValue, NumberSpec, NumberWidth, NumberFlags
<1>9. CASE Pointer
  <2>1. text' = text \o OutRev(PointerBuffer(arg), PointerDigits, PointerFlags(arg))
    BY <1>9 DEF Pointer, Emit
  <2>2. Piece.spec = "p" /\ Base("X") = 16
    BY <1>9 DEF Pointer, Base
  <2>3. QED
    BY <1>7, <2>1, <2>2 DEF PointerBuffer, NumberValue, NumberSpec, NumberWidth, NumberFlags
<1>10. QED
  BY <1>3, <1>8, <1>9

(* Integers and pointers come out as the C standard says, with any value,  *)
(* length, flags, width and precision, for buffers and types of any size,  *)
(* but for the cases listed in NumberDiffers: the part of                  *)
(* PutsOutWhatItSays that is about them.                                   *)
THEOREM NumbersArePutOut == Spec => [][IsNumberPiece => PutsOutPiece]_vars
<1>1. IInv /\ [Next]_vars => [IsNumberPiece => PutsOutPiece]_vars
  BY NumberStep
<1>2. QED
  BY <1>1, Invariance, PTL DEF Spec
=============================================================================
