------------------------------ MODULE MCPrintf ------------------------------
(* Calls of printf for TLC.  All sizes are scaled down.                    *)
EXTENDS Printf

ScaledBits == [char |-> 2, short |-> 3, int |-> 4, long |-> 8]

PrintfCall(format, args) == Call("printf", FALSE, 0, format, args)

(* One number: every set of flags with widths and precisions on both sides *)
(* of the digits and of the conversion buffer.                             *)
NumberCalls ==
  {PrintfCall(<<Directive(f, w, p, "none", s)>>, <<n>>) :
     f \in SUBSET {"0", "-", "+", " ", "#"}, w \in {Absent, <<2>>, <<3>>, <<5>>},
     p \in {Absent, << >>, <<1>>, <<2>>, <<5>>}, s \in {"d", "x", "X", "o", "b"}, n \in {0, 7, -3}}

(* Values of every type, and those that do not fit it.                     *)
LengthCalls ==
  {PrintfCall(<<Directive(f, Absent, Absent, l, s)>>, <<n>>) :
     f \in {{}, {"+"}}, l \in DOMAIN LengthFlags, s \in IntegerSpecs,
     n \in {-128, -9, -8, -5, -4, -1, 0, 1, 3, 4, 5, 7, 8, 9, 15, 16, 17, 100, 127, 255}}

(* Widths and precisions from the arguments, strings, characters, pointers *)
(* and what printf does not know.                                          *)
StarCalls ==
  {PrintfCall(<<Directive(f, Star, Star, "none", s), [char |-> ":"]>>, <<w, p, 5>>) :
     f \in {{}, {"-"}, {"0"}}, s \in {"d", "X"}, w \in {-3, 0, 4}, p \in {-1, 0, 2}}
  \cup
  {PrintfCall(<<Directive(f, w, p, "none", "s"), Directive({}, Absent, Absent, "none", "d")>>, <<t, 6>>) :
     f \in {{}, {"-"}}, w \in {Absent, <<1>>, <<4>>}, p \in {Absent, << >>, <<0>>, <<1>>, <<5>>},
     t \in {<< >>, <<"u">>, <<"u", "v">>}}
  \cup
  {PrintfCall(<<Directive(f, <<3>>, Star, "none", "s"), Directive({}, Absent, Absent, "none", "d")>>,
              <<p, <<"u", "v">>, 6>>) : f \in {{}, {"-"}}, p \in {-8, -1, 0, 1, 5}}
  \cup
  {PrintfCall(<<Directive({}, Absent, Absent, "none", "d"), Directive(f, w, Star, l, s)>>, <<6, 1>>) :
     f \in {{}, {"-"}}, w \in {Absent, <<3>>}, l \in {"none", "l"}, s \in {"q", "%"}}
  \cup
  {PrintfCall(<<Directive(f, w, Absent, l, s), Directive({}, Absent, Absent, "none", "c")>>, <<n, "z">>) :
     f \in {{}, {"-"}, {"0"}, {"#"}, {"+"}}, w \in {Absent, <<1, 0>>}, l \in {"none", "l"},
     s \in {"p", "u"}, n \in {0, 10, 171}}

(* Floats on both sides of a half, of a carry and of the buffer: multiples *)
(* of 1 / 16, and 0.95.                                                    *)
FloatCalls ==
  {PrintfCall(<<Directive(f, w, p, "none", "f")>>, <<FloatArg("finite", n)>>) :
     f \in SUBSET {"0", "-", "+", " "}, w \in {Absent, <<4>>, <<9>>},
     p \in {Absent, << >>, <<1>>, <<2>>, <<3>>, <<5>>},
     n \in {5 * k : k \in {0, 1, 7, 8, 9, 15, 16, 24, 31, 40, 159, 1600, -1, -8, -24, -159}}
             \cup {76, -76}}

(* Floats with more digits than are computed or fit, and special ones.     *)
SpecialCalls ==
  {PrintfCall(<<Directive(f, Absent, p, "none", "f")>>, <<FloatArg("finite", n)>>) :
     f \in {{}, {"0"}}, p \in {<<4>>, <<6>>, <<7>>}, n \in {0, 40, 76, 79}}
  \cup
  {PrintfCall(<<Directive(f, w, Absent, "none", s)>>, <<FloatArg(k, 0)>>) :
     f \in SUBSET {"0", "-", "+", " ", "#"}, w \in {Absent, <<3>>, <<5>>}, s \in FloatSpecs,
     k \in {"nan", "inf", "neginf", "finite"}}

(* Text of several pieces, to memory and without.                          *)
Message ==
  <<[char |-> "a"], Directive({"0"}, <<3>>, Absent, "none", "d"),
    Directive({}, <<2>>, Absent, "none", "c"), Directive({}, Absent, Absent, "none", "%")>>

FunctionCalls ==
  {Call(f, b, n, Message, <<v, c>>) :
     f \in ToMemory \cup {"printf", "vprintf", "fctprintf"}, b \in BOOLEAN, n \in 0..9,
     v \in {-2, 5}, c \in {"q", NUL}}

(* In parentheses, since TLC joins sets fastest where the left one has     *)
(* been computed before.                                                   *)
AllCalls ==
  NumberCalls \cup (LengthCalls \cup (StarCalls \cup
    (FloatCalls \cup (SpecialCalls \cup FunctionCalls))))
=============================================================================
