---------------------------- MODULE LayoutProofs ----------------------------
(* What holds of every layout, stack, slot and jal.                        *)
EXTENDS MemLayout, JalPatch, TLAPS

(* Intervals one behind the other.                                         *)
LEMMA Apart ==
  ASSUME NEW a \in Int, NEW b \in Int, NEW c \in Int, NEW d \in Int, b < c \/ d < a
  PROVE  (a .. b) \cap (c .. d) = {}
  OBVIOUS

(* Products of hart numbers and sizes.                                     *)
LEMMA Products ==
  ASSUME NEW m \in Nat, NEW n \in Nat, NEW size \in Nat, m < n
  PROVE  /\ m * size \in Nat /\ n * size \in Nat
         /\ m * size + size <= n * size
<1>1. m * size \in Nat /\ n * size \in Nat
  BY SMT
<1>2. PICK k \in Nat : n = m + 1 + k
  <2>1. n - m - 1 \in Nat /\ n = m + 1 + (n - m - 1)
    OBVIOUS
  <2> QED
    BY <2>1
<1>3. n * size = m * size + size + k * size /\ k * size \in Nat
  BY <1>2, SMT
<1> QED
  BY <1>1, <1>3

(* Every field has a length.                                               *)
LEMMA ExtentType == \A f \in Fields : Extent[f] \in Nat
  BY DEF Fields, Extent

(* The areas of two harts share no byte, whatever their layout is, as long *)
(* as it fits the size of an area (gcpt.c:116-121, decode_restore.c:107):  *)
(* no hart restores a word of another one.                                 *)
THEOREM AreasDisjoint ==
  ASSUME NEW base \in Nat, NEW size \in Nat, NEW layout \in Layout, FitsArea(layout, size),
         NEW g \in Nat, NEW h \in Nat, g # h, NEW e \in Fields, NEW f \in Fields
  PROVE  Span(GetCoreMemlayout(base, size, g, layout), e)
           \cap Span(GetCoreMemlayout(base, size, h, layout), f) = {}
<1> DEFINE area(n, d) == Span(GetCoreMemlayout(base, size, n, layout), d)
<1>1. ASSUME NEW m \in Nat, NEW n \in Nat, m < n, NEW c \in Fields, NEW d \in Fields
      PROVE  area(m, c) \cap area(n, d) = {}
  <2>1. /\ m * size \in Nat /\ n * size \in Nat
        /\ m * size + size <= n * size
    BY <1>1, Products
  <2>2. /\ layout[c] \in Nat /\ layout[d] \in Nat /\ Extent[c] \in Nat /\ Extent[d] \in Nat
        /\ layout[c] + Extent[c] <= size
    BY ExtentType DEF Layout, FitsArea
  <2>3. /\ area(m, c) = layout[c] + (m * size + base) .. layout[c] + (m * size + base) + Extent[c] - 1
        /\ area(n, d) = layout[d] + (n * size + base) .. layout[d] + (n * size + base) + Extent[d] - 1
    BY DEF Span, GetCoreMemlayout, HartOffset
  <2> DEFINE p == m * size
             q == n * size
  <2>4. p \in Nat /\ q \in Nat /\ p + size <= q
    BY <2>1
  <2>5. /\ area(m, c) = layout[c] + (p + base) .. layout[c] + (p + base) + Extent[c] - 1
        /\ area(n, d) = layout[d] + (q + base) .. layout[d] + (q + base) + Extent[d] - 1
    BY <2>3
  <2> HIDE DEF p, q
  <2>6. layout[c] + (p + base) + Extent[c] - 1 < layout[d] + (q + base)
    BY <2>2, <2>4
  <2>7. /\ layout[c] + (p + base) \in Int /\ layout[c] + (p + base) + Extent[c] - 1 \in Int
        /\ layout[d] + (q + base) \in Int /\ layout[d] + (q + base) + Extent[d] - 1 \in Int
    BY <2>2, <2>4
  <2> HIDE DEF area
  <2> QED
    BY <2>5, <2>6, <2>7, Apart
<1>2. CASE g < h
  BY <1>1, <1>2
<1>3. CASE h < g
  <2>1. area(h, f) \cap area(g, e) = {}
    BY <1>1, <1>3
  <2> QED
    BY <2>1
<1> QED
  BY <1>2, <1>3

(* The fields, one by one.                                                 *)
LEMMA FieldNames ==
  Fields = {"magic_number_cpt_addr", "pc_cpt_addr", "mode_cpt_addr", "mtime_cpt_addr",
            "mtime_cmp_cpt_addr", "misc_done_cpt_addr", "misc_reserve", "int_reg_cpt_addr",
            "int_reg_done", "float_reg_cpt_addr", "float_reg_done", "csr_reg_cpt_addr",
            "csr_reg_done", "csr_reserve", "vector_reg_cpt_addr", "vector_reg_done"}
  BY DEF Fields, Extent

(* The tables of every build are a header and a layout, and the layout     *)
(* keeps its fields apart and fits the size of an area                     *)
(* (gcpt.c:12-60, 96-121).                                                 *)
LEMMA TablesFit ==
  ASSUME NEW config \in Configs
  PROVE  /\ HeaderOf[config] \in [cpt_offset : Nat, single_core_size : Nat]
         /\ LayoutOf[config] \in Layout
         /\ FitsArea(LayoutOf[config], HeaderOf[config].single_core_size)
<1>1. /\ default_qemu_memlayout \in Layout /\ FitsArea(default_qemu_memlayout, 1048576)
  <2>1. default_qemu_memlayout \in Layout
    BY FieldNames DEF Layout, default_qemu_memlayout
  <2>2. \A f \in Fields : default_qemu_memlayout[f] + Extent[f] <= 1048576
    BY FieldNames DEF Extent, default_qemu_memlayout
  <2>3. \A f, g \in Fields : f # g =>
          \/ default_qemu_memlayout[f] + Extent[f] <= default_qemu_memlayout[g]
          \/ default_qemu_memlayout[g] + Extent[g] <= default_qemu_memlayout[f]
    BY FieldNames, SMTT(60) DEF Extent, default_qemu_memlayout
  <2> QED
    BY <2>1, <2>2, <2>3 DEF FitsArea
<1>2. /\ default_multicore_layout \in Layout /\ FitsArea(default_multicore_layout, 1048576)
  <2>1. default_multicore_layout \in Layout
    BY FieldNames DEF Layout, default_multicore_layout
  <2>2. \A f \in Fields : default_multicore_layout[f] + Extent[f] <= 1048576
    BY FieldNames DEF Extent, default_multicore_layout
  <2>3. \A f, g \in Fields : f # g =>
          \/ default_multicore_layout[f] + Extent[f] <= default_multicore_layout[g]
          \/ default_multicore_layout[g] + Extent[g] <= default_multicore_layout[f]
    BY FieldNames, SMTT(60) DEF Extent, default_multicore_layout
  <2> QED
    BY <2>1, <2>2, <2>3 DEF FitsArea
<1>3. CASE config = "bare_metal"
  BY <1>1, <1>3 DEF HeaderOf, LayoutOf, Header, MiB
<1>4. CASE config = "dual_core"
  BY <1>1, <1>4 DEF HeaderOf, LayoutOf, Header, MiB
<1>5. CASE config = "default"
  BY <1>2, <1>5 DEF HeaderOf, LayoutOf, multicore_default_header, MiB
<1> QED
  BY <1>3, <1>4, <1>5 DEF Configs

(* In every build, wherever its areas start and however many harts there   *)
(* are, no byte that one hart reads for one field is read for another      *)
(* field or by another hart: the tables put the parts of a checkpoint      *)
(* apart, and areas of one MiB hold them (gcpt.c:12-60, 96-121).           *)
THEOREM FieldsDisjoint ==
  ASSUME NEW config \in Configs, NEW base \in Nat,
         NEW g \in Nat, NEW h \in Nat, NEW e \in Fields, NEW f \in Fields, g # h \/ e # f
  PROVE  LET area(n) == GetCoreMemlayout(base, HeaderOf[config].single_core_size, n, LayoutOf[config])
         IN Span(area(g), e) \cap Span(area(h), f) = {}
<1> DEFINE size == HeaderOf[config].single_core_size
           layout == LayoutOf[config]
           p == h * size + base
<1>1. size \in Nat /\ layout \in Layout /\ FitsArea(layout, size)
  BY TablesFit
<1> HIDE DEF size, layout
<1>2. CASE g # h
  BY <1>1, <1>2, AreasDisjoint DEF size, layout
<1>3. CASE g = h /\ e # f
  <2>1. p \in Int
    BY <1>1, SMT
  <2>2. /\ layout[e] \in Nat /\ layout[f] \in Nat /\ Extent[e] \in Nat /\ Extent[f] \in Nat
        /\ layout[e] + Extent[e] <= layout[f] \/ layout[f] + Extent[f] <= layout[e]
    BY <1>1, <1>3, ExtentType DEF Layout, FitsArea
  <2>3. \A d \in Fields : Span(GetCoreMemlayout(base, size, h, layout), d)
                            = layout[d] + p .. layout[d] + p + Extent[d] - 1
    BY DEF Span, GetCoreMemlayout, HartOffset
  <2> HIDE DEF p
  <2>4. /\ Span(GetCoreMemlayout(base, size, h, layout), e)
             = layout[e] + p .. layout[e] + p + Extent[e] - 1
        /\ Span(GetCoreMemlayout(base, size, h, layout), f)
             = layout[f] + p .. layout[f] + p + Extent[f] - 1
    BY <2>3
  <2>5. /\ layout[e] + p \in Int /\ layout[e] + p + Extent[e] - 1 \in Int
        /\ layout[f] + p \in Int /\ layout[f] + p + Extent[f] - 1 \in Int
        /\ layout[e] + p + Extent[e] - 1 < layout[f] + p \/ layout[f] + p + Extent[f] - 1 < layout[e] + p
    BY <2>1, <2>2
  <2>6. Span(GetCoreMemlayout(base, size, h, layout), e)
          \cap Span(GetCoreMemlayout(base, size, h, layout), f) = {}
    BY <2>4, <2>5, Apart
  <2> QED
    BY <1>3, <2>6 DEF size, layout
<1> QED
  BY <1>2, <1>3

(* Every hart that boot.S has a stack for has one of its own, inside the   *)
(* space that is reserved for them (boot.S:36-53).                         *)
THEOREM StacksDisjoint ==
  /\ \A h \in 0..MaxHarts - 1 : Stack(h) \subseteq StackSpace
  /\ \A g, h \in 0..MaxHarts - 1 : g # h => Stack(g) \cap Stack(h) = {}
<1>1. GcptStack \in Nat
  BY BasesAssumption, SMT
<1> DEFINE low(h) == GcptStack + h * 4096
<1>2. \A h \in Int : Stack(h) = low(h) .. low(h) + 4095 /\ low(h) \in Int
  BY <1>1, SMT DEF Stack, StackTop, StackSize
<1>3. ASSUME NEW h \in 0..127
      PROVE  Stack(h) \subseteq StackSpace
  <2>1. Stack(h) = GcptStack + h * 4096 .. GcptStack + h * 4096 + 4095
    BY <1>2, SMT
  <2>2. StackSpace = GcptStack .. GcptStack + 524287
    BY <1>1, SMT DEF StackSpace, StackSize, MaxHarts
  <2> QED
    BY <1>1, <2>1, <2>2, SMT
<1>4. ASSUME NEW g \in 0..127, NEW h \in 0..127, g # h
      PROVE  Stack(g) \cap Stack(h) = {}
  <2>1. low(g) + 4095 < low(h) \/ low(h) + 4095 < low(g)
    BY <1>1, <1>4, SMT
  <2>2. /\ Stack(g) = low(g) .. low(g) + 4095 /\ low(g) \in Int /\ low(g) + 4095 \in Int
        /\ Stack(h) = low(h) .. low(h) + 4095 /\ low(h) \in Int /\ low(h) + 4095 \in Int
    BY <1>1, <1>2, SMT
  <2> HIDE DEF low
  <2> QED
    BY <2>1, <2>2, Apart, SMT
<1>5. 0..MaxHarts - 1 = 0..127
  BY SMT DEF MaxHarts
<1> QED
  BY <1>3, <1>4, <1>5, Zenon

(* The word that a hart of an M-mode checkpoint patches is the one behind  *)
(* the loads of its own slot, and two slots share no byte                  *)
(* (decode_restore.c:240, restore.S:292-309).                              *)
THEOREM PatchesOwnSlot ==
  \A h \in Nat :
    /\ PatchAddr(h) = SlotAddr(h) + 3 * 4 /\ PlaceInSlot(PatchAddr(h), h) = 3
    /\ \A g \in Nat : g # h => SlotAddr(g) .. SlotAddr(g) + SlotSize - 1
                                 \cap SlotAddr(h) .. SlotAddr(h) + SlotSize - 1 = {}
<1>1. Core0 \in Nat
  BY Core0Assumption, SMT
<1> QED
  BY <1>1, SMT DEF PatchAddr, SlotAddr, SlotSize, PlaceInSlot

(* A distance in reach survives its way through the 32-bit offset.         *)
LEMMA SignedOffset ==
  ASSUME NEW d \in Int, IsValidImm(d)
  PROVE  Signed(Offset(d)) = d
<1>1. OffsetModulus \in Nat \ {0} /\ OffsetModulus % 2097152 = 0
  BY OffsetAssumption, SMT
<1>2. OffsetModulus >= 2097152
  BY <1>1, SMT
<1>3. d >= -1048576 /\ d < 1048576
  BY SMT DEF IsValidImm, ImmBound
<1>4. CASE d >= 0
  <2>1. Offset(d) = d
    BY <1>1, <1>2, <1>3, <1>4, SMT DEF Offset
  <2> QED
    BY <2>1, <1>2, <1>3, <1>1, SMT DEF Signed
<1>5. CASE d < 0
  <2>1. Offset(d) = d + OffsetModulus
    BY <1>1, <1>2, <1>3, <1>5, SMTT(30) DEF Offset
  <2> QED
    BY <2>1, <1>2, <1>3, <1>1, <1>5, SMT DEF Signed
<1> QED
  BY <1>4, <1>5, SMT

(* ... and its halves, cut to 20 bits, keep it.                            *)
LEMMA HalvedOffset ==
  ASSUME NEW d \in Int, IsValidImm(d), d % 2 = 0
  PROVE  /\ Halved(Offset(d)) \in Int /\ 0 <= Halved(Offset(d)) /\ Halved(Offset(d)) < 1048576
         /\ d >= 0 => 2 * Halved(Offset(d)) = d
         /\ d < 0 => 2 * Halved(Offset(d)) = d + 2097152
<1>1. PICK k \in Nat \ {0} : OffsetModulus = 2097152 * k
  BY OffsetAssumption, SMT
<1>2. d >= -1048576 /\ d < 1048576
  BY SMT DEF IsValidImm, ImmBound
<1>3. PICK e \in Int : d = 2 * e
  BY SMT
<1>4. CASE d >= 0
  <2>1. Offset(d) = 2 * e
    BY <1>1, <1>2, <1>3, <1>4, SMT DEF Offset
  <2>2. Halved(Offset(d)) = e
    BY <2>1, <1>2, <1>3, <1>4, SMT DEF Halved, ImmBound
  <2> QED
    BY <2>2, <1>2, <1>3, <1>4, SMT
<1>5. CASE d < 0
  <2>1. Offset(d) = 2 * (e + 1048576 * k)
    BY <1>1, <1>2, <1>3, <1>5, SMT DEF Offset
  <2>2. (2 * (e + 1048576 * k)) \div 2 = e + 1048576 * k
    BY <1>1, SMT
  <2>3. (e + 1048576 * k) % 1048576 = e + 1048576
    BY <1>1, <1>2, <1>3, <1>5, SMT
  <2>4. Halved(Offset(d)) = e + 1048576
    BY <2>1, <2>2, <2>3, SMT DEF Halved, ImmBound
  <2> QED
    BY <2>4, <1>2, <1>3, <1>5, SMT
<1> QED
  BY <1>4, <1>5, SMT

(* The instruction that is patched in takes a hart exactly as far as it is *)
(* to the target, without a link register: the shift, the mask and the     *)
(* split into the fields of a jal lose no bit of an even distance that     *)
(* is_valid_imm accepts (decode_restore.c:19-55, 240-252).                 *)
THEOREM JalReaches ==
  ASSUME NEW d \in Int, IsValidImm(d), d % 2 = 0
  PROVE  /\ IsValidImm(Signed(Offset(d)))
         /\ PatchFor(d) \in Int
         /\ IsJal(PatchFor(d)) /\ LinkRegister(PatchFor(d)) = 0
         /\ JalDistance(PatchFor(d)) = d
<1> DEFINE imm == Halved(Offset(d))
           i20 == (imm \div 524288) % 2
           i10 == imm % 1024
           i11 == (imm \div 1024) % 2
           i19 == (imm \div 2048) % 256
<1>1. /\ imm \in Int /\ 0 <= imm /\ imm < 1048576
      /\ d >= 0 => 2 * imm = d
      /\ d < 0 => 2 * imm = d + 2097152
  BY HalvedOffset, SMT
<1>2. d >= -1048576 /\ d < 1048576
  BY SMT DEF IsValidImm, ImmBound
<1> HIDE DEF imm
<1>3. i20 \in 0..1 /\ i10 \in 0..1023 /\ i11 \in 0..1 /\ i19 \in 0..255
  BY <1>1, SMT
<1>4. imm = i10 + 1024 * i11 + 2048 * i19 + 524288 * i20
  BY <1>1, SMT
<1>5. (d >= 0 => i20 = 0) /\ (d < 0 => i20 = 1)
  BY <1>1, <1>2, SMT
<1>6. PatchFor(d) = PackJal(i20, i10, i11, i19, 0, Opcode)
  BY SMT DEF PatchFor, GenerateJal, imm
<1> HIDE DEF i20, i10, i11, i19
<1>7. 2 * i10 + 2048 * i11 + 4096 * i19 - ImmBound * i20 = d
  BY <1>1, <1>3, <1>4, <1>5, SMT DEF ImmBound
<1>8. /\ PatchFor(d) \in Int /\ IsJal(PatchFor(d)) /\ LinkRegister(PatchFor(d)) = 0
      /\ JalDistance(PatchFor(d)) = d
  <2> DEFINE word == PatchFor(d)
             high == i10 - 1024 * i20
  <2> USE <1>3
  <2>1. word = 111 + 4096 * i19 + 1048576 * i11 + 2097152 * i10 - 2147483648 * i20
    BY <1>3, <1>6, SMT DEF PackJal, Opcode
  <2> HIDE DEF word
  <2>2. word \in Int /\ high \in Int /\ i10 = high + 1024 * i20
    BY <2>1, SMT
  <2> HIDE DEF high
  <2>3. word % 128 = 111 /\ word \div 128 = 32 * i19 + 8192 * i11 + 16384 * high
    BY <2>1, <2>2, SMT
  <2>4. word \div 4096 = 256 * (i11 + 2 * high) + i19
    BY <2>1, <2>2, SMT
  <2>5. word \div 1048576 = 2 * high + i11
    BY <2>1, <2>2, SMT
  <2>6. word \div 2097152 = high
    BY <2>1, <2>2, SMT
  <2>7. (i20 = 1 => word < 0) /\ (i20 = 0 => ~(word < 0))
    BY <2>1, SMT
  <2>8. /\ (word \div 128) % 32 = 0
        /\ (word \div 4096) % 256 = i19
        /\ (word \div 1048576) % 2 = i11
        /\ (word \div 2097152) % 1024 = i10
    <3>1. (32 * (i19 + 256 * i11 + 512 * high)) % 32 = 0
      BY <2>2, SMT
    <3>2. (256 * (i11 + 2 * high) + i19) % 256 = i19
      BY <2>2, SMT
    <3>3. (2 * high + i11) % 2 = i11
      BY <2>2, SMT
    <3>4. high % 1024 = i10
      BY <2>2, SMT
    <3>5. word \div 128 = 32 * (i19 + 256 * i11 + 512 * high)
      BY <2>2, <2>3, SMT
    <3> QED
      BY <3>1, <3>2, <3>3, <3>4, <3>5, <2>4, <2>5, <2>6
  <2>9. IsJal(word) /\ LinkRegister(word) = 0
    BY <2>3, <2>8, SMT DEF IsJal, LinkRegister, Opcode
  <2>10. JalDistance(word) = d
    <3>1. CASE i20 = 1
      BY <1>7, <2>2, <2>7, <2>8, <3>1, SMT DEF JalDistance, ImmBound
    <3>2. CASE i20 = 0
      BY <1>7, <2>2, <2>7, <2>8, <3>2, SMT DEF JalDistance, ImmBound
    <3> QED
      BY <3>1, <3>2, SMT
  <2> QED
    BY <2>2, <2>9, <2>10, SMT DEF word
<1>9. IsValidImm(Signed(Offset(d)))
  BY SignedOffset, SMT
<1> QED
  BY <1>8, <1>9, SMT
=============================================================================
