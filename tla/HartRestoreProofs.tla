------------------------- MODULE HartRestoreProofs --------------------------
(* What the restore of one hart does for every scenario.                   *)
EXTENDS HartRestore, LayoutProofs

-----------------------------------------------------------------------------
(* The inductive invariant.                                                *)

NoArea    == {"select", "payload"}
Undecided == NoArea \cup {"display", "check"}
Unpatched == Undecided \cup {"patch", "bad_imm"}

MretPcs  == {"mret_sp", "mret_ints", "mret_last"}
JumpPcs  == {"jump_sp", "jump_ints", "jump_to_core", "slot", "slot_jal"}
AfterCsr == {"mtimecmp", "barrier", "left"} \cup MretPcs \cup JumpPcs
AfterF   == {"fcsr_on", "fcsr", "csr"} \cup AfterCsr
AfterV   == {"f_on", "f", "f_off"} \cup AfterF
AfterH   == {"v_on", "v", "v_off"} \cup AfterV

(* How far each loop goes.                                                 *)
IndexOK ==
  /\ pc = "h" => i \in 1..Len(HCSRS)
  /\ pc \in {"v", "f"} => i \in 1..32
  /\ pc = "csr" => i \in 1..Len(CSRS)
  /\ pc = "mret_ints" => i \in 1..30
  /\ pc = "jump_ints" => i \in 1..28
  /\ pc = "slot" => i \in 1..3

Area ==
  GetCoreMemlayout(sc.start + HeaderOf[sc.config].cpt_offset,
                   HeaderOf[sc.config].single_core_size, sc.cpu, LayoutOf[sc.config])

(* The area is the hart's own, and the decisions are those of its          *)
(* checkpoint.                                                             *)
AreaOK ==
  /\ pc \notin NoArea => lay = Area
  /\ pc \notin Undecided => could = [v |-> HasVector, h |-> Both({"H"}) /\ sc.mpv,
                                     f |-> HasFloat, jump |-> sc.mode = 3]

(* FS and VS while registers are loaded, and once mstatus is restored.     *)
StatusOK ==
  /\ pc = "v" => vs = HostVs(3)
  /\ pc \in {"f", "fcsr"} => fs = HostFs(3)
  /\ pc = "csr" /\ i = 1 => fs = HostFs(3)
  /\ pc = "csr" /\ (\E k \in 1..i - 1 : CSRS[k] = mstatus) => fs = HostFs(sc.fs) /\ vs = HostVs(sc.vs)
  /\ pc \in AfterCsr => fs = HostFs(sc.fs) /\ vs = HostVs(sc.vs)

VectorWord(r) == Word(lay.vector_reg_cpt_addr + 16 * r)
FloatWord(r)  == Word(lay.float_reg_cpt_addr + r * 8)
IntWord(r)    == Word(lay.int_reg_cpt_addr + r * 8)

(* Vector registers are the restorer's or the checkpoint's.                *)
VectorOK ==
  /\ \A r \in 0..31 : v[r] = Own \/ (pc \notin NoArea /\ v[r] = VectorWord(r))
  /\ pc = "v" => could.v /\ \A r \in 0..31 : r < i - 1 => v[r] = VectorWord(r)
  /\ pc \in {"v_off"} \cup AfterV /\ could.v => \A r \in 0..31 : v[r] = VectorWord(r)

FloatOK ==
  /\ \A r \in 0..31 : f[r] = Own \/ (pc \notin NoArea /\ f[r] = FloatWord(r))
  /\ pc = "f" => could.f /\ \A r \in 0..31 : r < i - 1 => f[r] = FloatWord(r)
  /\ pc \in {"f_off"} \cup AfterF /\ could.f => \A r \in 0..31 : f[r] = FloatWord(r)

(* So are csrs; those of a finished loop are the checkpoint's.             *)
CsrOK ==
  /\ \A c \in CsrIds \ {fflags, frm} : csr[c] = Own \/ (pc \notin NoArea /\ csr[c] = CsrWord(c))
  /\ pc = "h" => \A k \in 1..i - 1 : csr[HCSRS[k]] = CsrWord(HCSRS[k])
  /\ pc \in AfterH /\ could.h => \A k \in DOMAIN HCSRS : csr[HCSRS[k]] = CsrWord(HCSRS[k])
  /\ pc \in {"v", "v_off"} \cup AfterV /\ could.v => csr[vl] = CsrWord(vl) /\ csr[vtype] = CsrWord(vtype)
  /\ pc \in {"csr"} \cup AfterCsr => csr[fflags] = CsrWord(fcsr)
  /\ pc = "csr" => \A k \in 1..i - 1 : ~Frozen(CSRS[k]) => csr[CSRS[k]] = CsrWord(CSRS[k])
  /\ pc \in AfterCsr => \A k \in DOMAIN CSRS : ~Frozen(CSRS[k]) => csr[CSRS[k]] = CsrWord(CSRS[k])

(* mtvec is the restorer's until its turn has come, and then all that can  *)
(* trap is behind the hart.                                                *)
TrapOK ==
  /\ pc \notin {"csr"} \cup AfterCsr => csr[mtvec] = Own
  /\ pc = "csr" /\ (\A k \in 1..i - 1 : CSRS[k] # mtvec) => csr[mtvec] = Own
  /\ pc = "csr" /\ i > 3 => sc.stateen
  /\ pc = "trapped" => ~Supports

(* Integer registers, in the order of the two ways out.                    *)
IntOK ==
  /\ pc \in {"mret_ints", "mret_last", "jump_ints", "jump_to_core", "slot"} =>
       x[2] = Ptr(lay.int_reg_cpt_addr)
  /\ pc = "mret_ints" => \A k \in 1..i - 1 : x[MretOrder[k]] = IntWord(MretOrder[k])
  /\ pc = "mret_last" => \A r \in 1..31 \ {2} : x[r] = IntWord(r)
  /\ pc = "jump_ints" => \A k \in 1..i - 1 : x[JumpOrder[k]] = IntWord(JumpOrder[k])
  /\ pc \in {"jump_to_core", "slot"} => \A r \in 1..31 \ {2, 5, 6} : x[r] = IntWord(r)
  /\ pc = "slot" /\ i > 1 => x[5] = IntWord(5)
  /\ pc = "slot" /\ i > 2 => x[6] = IntWord(6)
  /\ pc \in {"slot_jal", "left"} => \A r \in 1..31 : x[r] = IntWord(r)

(* The patched jal, and where the hart leaves to.                          *)
JumpOK ==
  /\ pc \notin Unpatched /\ could.jump =>
       patch = [addr |-> PatchAddr(sc.cpu), word |-> PatchFor(sc.distance)]
         /\ IsValidImm(Signed(Offset(sc.distance)))
  /\ pc \in MretPcs => ~could.jump
  /\ pc \in JumpPcs => could.jump
  /\ pc = "bad_imm" => ~IsValidImm(Signed(Offset(sc.distance)))
  /\ pc = "left" =>
       IF could.jump
         THEN NearTarget => left = [way |-> "jump", to |-> Ptr(PatchAddr(sc.cpu) + sc.distance)]
         ELSE left = [way |-> "mret", to |-> csr[mepc]]

ShownOK ==
  /\ pc \in NoArea \cup {"display"} => shown = << >>
  /\ pc \notin NoArea \cup {"display"} => shown = IF sc.display THEN Displayed ELSE << >>
  /\ mtime = Own \/ (pc \notin NoArea /\ mtime = Word(lay.mtime_cpt_addr))

IInv ==
  /\ TypeOK /\ IndexOK /\ AreaOK /\ StatusOK /\ VectorOK /\ FloatOK /\ CsrOK /\ TrapOK
  /\ IntOK /\ JumpOK /\ ShownOK

-----------------------------------------------------------------------------
(* Facts about the constants.                                              *)

(* Which csrs the two lists of csr.h hold: no csr twice or in both, none of *)
(* fflags, vl and vtype, and those that the invariant names; frm and mepc  *)
(* are no pmp addresses, and neither are the H csrs (csr.h:21-54).         *)
LEMMA CsrFacts ==
  /\ CSRS \in Seq(Nat) /\ HCSRS \in Seq(Nat) /\ CSRS # << >> /\ HCSRS # << >>
  /\ \A j, k \in DOMAIN CSRS : CSRS[j] = CSRS[k] => j = k
  /\ \A j, k \in DOMAIN HCSRS : HCSRS[j] = HCSRS[k] => j = k
  /\ InList(CSRS) \cap InList(HCSRS) = {}
  /\ {fflags, vl, vtype} \cap (InList(CSRS) \cup InList(HCSRS)) = {}
  /\ fflags \in Nat /\ vl \in Nat /\ vtype \in Nat /\ fcsr \in Nat /\ pmpaddr0 \in Nat
  /\ fflags # vl /\ fflags # vtype /\ vl # vtype
  /\ {frm, mstatus, mtvec, mepc} \subseteq InList(CSRS)
  /\ frm # mtvec /\ frm # mstatus /\ mepc # frm
  /\ {frm, mepc} \cap (pmpaddr0 - 1 .. pmpaddr0 + 15) = {}
  /\ InList(HCSRS) \cap PmpAddrs = {}
<1>1. /\ DOMAIN CSRS = 1..47 /\ DOMAIN HCSRS = 1..28
      /\ CSRS \in Seq(Nat) /\ HCSRS \in Seq(Nat) /\ CSRS # << >> /\ HCSRS # << >>
  BY SMT DEF CSRS, HCSRS
<1>2. \A j, k \in 1..47 : CSRS[j] = CSRS[k] => j = k
  BY SMT DEF CSRS
<1>3. \A j, k \in 1..28 : HCSRS[j] = HCSRS[k] => j = k
  BY SMT DEF HCSRS
<1>4. \A j \in 1..47, k \in 1..28 : CSRS[j] # HCSRS[k]
  BY SMT DEF CSRS, HCSRS
<1>5. /\ \A j \in 1..47 : CSRS[j] \notin {fflags, vl, vtype}
      /\ \A k \in 1..28 : HCSRS[k] \notin {fflags, vl, vtype} \cup PmpAddrs
  BY SMT DEF CSRS, HCSRS, fflags, vl, vtype, PmpAddrs, pmpaddr0, pmpaddr15
<1>6. /\ fflags \in Nat /\ vl \in Nat /\ vtype \in Nat /\ fcsr \in Nat /\ pmpaddr0 \in Nat
      /\ fflags # vl /\ fflags # vtype /\ vl # vtype
      /\ frm # mtvec /\ frm # mstatus /\ mepc # frm
      /\ {frm, mepc} \cap (pmpaddr0 - 1 .. pmpaddr0 + 15) = {}
  BY SMT DEF fflags, vl, vtype, fcsr, pmpaddr0, frm, mstatus, mtvec, mepc
<1>7. CSRS[1] = frm /\ CSRS[7] = mstatus /\ CSRS[11] = mtvec /\ CSRS[14] = mepc
  BY SMT DEF CSRS, frm, mstatus, mtvec, mepc
<1>8. {frm, mstatus, mtvec, mepc} \subseteq InList(CSRS)
  BY <1>1, <1>7 DEF InList
<1>9. /\ InList(CSRS) \cap InList(HCSRS) = {}
      /\ {fflags, vl, vtype} \cap (InList(CSRS) \cup InList(HCSRS)) = {}
      /\ InList(HCSRS) \cap PmpAddrs = {}
  BY <1>1, <1>4, <1>5 DEF InList
<1> QED
  BY <1>1, <1>2, <1>3, <1>6, <1>8, <1>9

(* A scenario, the tables of its build and the instruction of its jump.    *)
LEMMA ScenarioFacts ==
  ASSUME NEW s \in Scenarios
  PROVE  /\ s.config \in Configs /\ s.start \in Nat /\ s.cpu \in Nat
         /\ s.distance \in Int /\ s.distance % 2 = 0
         /\ s.fs \in 0..3 /\ s.vs \in 0..3 /\ s.fs0 \in 0..3 /\ s.vs0 \in 0..3
         /\ HeaderOf[s.config].cpt_offset \in Nat /\ HeaderOf[s.config].single_core_size \in Nat
         /\ s.cpu * HeaderOf[s.config].single_core_size \in Nat
         /\ LayoutOf[s.config] \in Layout
         /\ PatchFor(s.distance) \in Int /\ PatchAddr(s.cpu) \in Nat
<1>1. s \in Scenario
  BY ScenariosAssumption
<1>2. /\ s.config \in Configs /\ s.start \in {MemoryBase, FlashBase} /\ s.cpu \in 0..127
      /\ s.distance \in Int /\ s.distance % 2 = 0
      /\ s.fs \in 0..3 /\ s.vs \in 0..3 /\ s.fs0 \in 0..3 /\ s.vs0 \in 0..3
  BY <1>1 DEF Scenario, MaxHarts
<1>3. s.start \in Nat /\ s.cpu \in Nat
  BY <1>2, BasesAssumption
<1>4. /\ HeaderOf[s.config] \in [cpt_offset : Nat, single_core_size : Nat]
      /\ LayoutOf[s.config] \in Layout
  BY <1>2, TablesFit
<1>5. HeaderOf[s.config].cpt_offset \in Nat /\ HeaderOf[s.config].single_core_size \in Nat
  BY <1>4
<1>6. s.cpu * HeaderOf[s.config].single_core_size \in Nat
  BY <1>3, <1>5, SMT
<1>7. PatchAddr(s.cpu) \in Nat
  BY <1>3, Core0Assumption, SMT DEF PatchAddr
<1>8. PatchFor(s.distance) \in Int
  <2> DEFINE imm == Halved(Offset(s.distance))
  <2>1. imm \in Int
    BY <1>2, OffsetAssumption, SMT DEF Halved, Offset, ImmBound
  <2> HIDE DEF imm
  <2>2. GenerateJal(imm, 0) \in Int
    BY <2>1, SMT DEF GenerateJal, PackJal, Opcode
  <2> QED
    BY <2>2 DEF PatchFor, imm
<1> QED
  BY <1>2, <1>3, <1>4, <1>5, <1>6, <1>7, <1>8

(* The status fields of the machine, and how the bits are tested.          *)
LEMMA StatusFacts ==
  /\ \A s \in 0..3 : IsOn(s) <=> s # 0
  /\ \A s \in 0..3 : HostFs(s) \in 0..3 /\ HostVs(s) \in 0..3
  /\ HostHasFloat => HostFs(3) = 3
  /\ "V" \in sc.host => HostVs(3) = 3
<1>1. \A s \in 0..3 : IsOn(s) <=> s # 0
  BY SMT DEF IsOn
<1> QED
  BY <1>1 DEF HostFs, HostVs

-----------------------------------------------------------------------------
(* The invariant holds in every reachable state.                           *)
THEOREM Invariance == Spec => []IInv
<1>1. Init => IInv
  <2> SUFFICES ASSUME Init PROVE IInv
    OBVIOUS
  <2>1. TypeOK
    <3>1. sc \in Scenarios /\ fs = HostFs(sc.fs0) /\ vs = HostVs(sc.vs0)
      BY DEF Init
    <3>2. fs \in 0..3 /\ vs \in 0..3
      BY <3>1, ScenarioFacts, StatusFacts
    <3>3. lay \in Layout
      BY DEF Init, Layout
    <3>4. patch = [addr |-> 0, word |-> 19]
      BY DEF Init, NOP
    <3>5. patch \in [addr : Nat, word : Int]
      BY <3>4
    <3>6. pc \in Pcs /\ i \in Nat \ {0} /\ shown \in {<< >>, Displayed}
      <4>1. pc = "select" /\ i = 1 /\ shown = << >>
        BY DEF Init
      <4> QED
        BY <4>1 DEF Pcs
    <3>7. could \in [v : BOOLEAN, h : BOOLEAN, f : BOOLEAN, jump : BOOLEAN]
      BY DEF Init
    <3>8. saved \in [fs : 0..3, vs : 0..3]
      <4>1. saved = [fs |-> 0, vs |-> 0]
        BY DEF Init
      <4> QED
        BY <4>1
    <3>9. Own \in Values
      BY DEF Own, Values
    <3>10. /\ x \in [1..31 -> Values] /\ f \in [0..31 -> Values] /\ v \in [0..31 -> Values]
           /\ csr \in [CsrIds -> Values] /\ mtime \in Values /\ mtimecmp \in Values
      BY <3>9 DEF Init
    <3>11. left.way \in {"not yet", "mret", "jump", "fell through"} /\ left.to \in Values
      BY <3>9 DEF Init
    <3> QED
      BY <3>1, <3>2, <3>3, <3>5, <3>6, <3>7, <3>8, <3>10, <3>11 DEF TypeOK
  <2> USE DEF Init
  <2>2. IndexOK /\ AreaOK /\ StatusOK
    BY DEF IndexOK, AreaOK, StatusOK, NoArea, Undecided, AfterCsr, MretPcs, JumpPcs
  <2>3. VectorOK /\ FloatOK /\ CsrOK
    BY DEF VectorOK, FloatOK, CsrOK, NoArea, AfterH, AfterV, AfterF, AfterCsr, MretPcs, JumpPcs
  <2>4. TrapOK /\ IntOK
    <3>1. mtvec \in CsrIds
      BY CsrFacts DEF CsrIds
    <3> QED
      BY <3>1 DEF TrapOK, IntOK, AfterCsr, MretPcs, JumpPcs, FinalPcs
  <2>5. JumpOK /\ ShownOK
    BY DEF JumpOK, ShownOK, NoArea, Unpatched, Undecided, MretPcs, JumpPcs
  <2> QED
    BY <2>1, <2>2, <2>3, <2>4, <2>5 DEF IInv
<1>2. ASSUME IInv, [Next]_vars PROVE IInv'
  <2> USE DEF vars, found, regs, status, timers, Goto, Advance
  <2>1. TypeOK /\ IndexOK /\ AreaOK /\ StatusOK /\ VectorOK /\ FloatOK /\ CsrOK /\ TrapOK
          /\ IntOK /\ JumpOK /\ ShownOK
    BY <1>2 DEF IInv
  \* What a step changes, and where it comes from.
  <2> USE DEF Next, BootPayload, SelectArea, Display, CheckpointExtCheck, NoJump, PatchJal,
    RejectTarget, RvhCsrRestore, NoRvh, NoRvv, RvvOn, RvvLoad, RvvOff, NoFloat, FloatOn,
    FloatLoad, FloatOff, FcsrOn, RestoreFcsr, RestoreCsrVector, Trap, RestoreMtimeCmp,
    PassBarrier, MoveSp, MretLoad, Mret, JumpLoad, JumpToCore, SlotLoad, SlotJal, LoadInt,
    Finished
  <2>2. sc' = sc
    BY <1>2
  <2>3. /\ SelectArea \/ lay' = lay
        /\ CheckpointExtCheck \/ could' = could
        /\ PatchJal \/ patch' = patch
        /\ MoveSp \/ MretLoad \/ Mret \/ JumpLoad \/ JumpToCore \/ SlotLoad \/ x' = x
        /\ FloatLoad \/ f' = f
        /\ RvvLoad \/ v' = v
        /\ RvhCsrRestore \/ RvvOn \/ RestoreFcsr \/ RestoreCsrVector \/ csr' = csr
        /\ RvhCsrRestore \/ FloatOn \/ FloatOff \/ RvvOff \/ FcsrOn \/ RestoreCsrVector \/ fs' = fs
        /\ RvhCsrRestore \/ RvvOn \/ RvvOff \/ FloatOff \/ RestoreCsrVector \/ vs' = vs
        /\ RvvOn \/ FloatOn \/ saved' = saved
        /\ PassBarrier \/ mtime' = mtime
        /\ RestoreMtimeCmp \/ mtimecmp' = mtimecmp
        /\ Display \/ shown' = shown
        /\ Mret \/ SlotJal \/ left' = left
    BY <1>2
  <2>4. /\ pc' = "h" => NoJump \/ PatchJal \/ RvhCsrRestore \/ UNCHANGED vars
        /\ pc' = "v" => RvvOn \/ RvvLoad \/ UNCHANGED vars
        /\ pc' = "f" => FloatOn \/ FloatLoad \/ UNCHANGED vars
        /\ pc' = "fcsr" => FcsrOn \/ UNCHANGED vars
        /\ pc' = "csr" => RestoreFcsr \/ RestoreCsrVector \/ UNCHANGED vars
        /\ pc' = "mret_ints" => (MoveSp /\ i' = 1) \/ MretLoad \/ UNCHANGED vars
        /\ pc' = "mret_last" => MretLoad \/ UNCHANGED vars
        /\ pc' = "jump_ints" => (MoveSp /\ i' = 1) \/ JumpLoad \/ UNCHANGED vars
        /\ pc' = "jump_to_core" => JumpLoad \/ UNCHANGED vars
        /\ pc' = "slot" => JumpToCore \/ SlotLoad \/ UNCHANGED vars
        /\ pc' = "slot_jal" => SlotLoad \/ UNCHANGED vars
        /\ pc' = "left" => Mret \/ SlotJal \/ UNCHANGED vars
        /\ pc' = "bad_imm" => RejectTarget \/ UNCHANGED vars
        /\ pc' = "trapped" => Trap \/ UNCHANGED vars
        /\ pc' = "payload" => BootPayload \/ UNCHANGED vars
    BY <1>2
  <2>5. /\ pc' \notin NoArea => SelectArea \/ pc \notin NoArea
        /\ pc' \notin Undecided => CheckpointExtCheck \/ pc \notin Undecided
        /\ pc' \notin Unpatched => NoJump \/ PatchJal \/ pc \notin Unpatched
        /\ pc' \notin NoArea \cup {"display"} => Display \/ pc \notin NoArea \cup {"display"}
        /\ pc' \in NoArea => pc \in NoArea
        /\ pc' \in NoArea \cup {"display"} => pc \in NoArea \cup {"display"}
    BY <1>2 DEF NoArea, Undecided, Unpatched
  <2>6. /\ pc' \in AfterH => RvhCsrRestore \/ NoRvh \/ pc \in AfterH
        /\ pc' \in {"v", "v_off"} \cup AfterV => RvvOn \/ NoRvv \/ pc \in {"v", "v_off"} \cup AfterV
        /\ pc' \in {"v_off"} \cup AfterV => RvvLoad \/ NoRvv \/ pc \in {"v_off"} \cup AfterV
        /\ pc' \in {"f_off"} \cup AfterF => FloatLoad \/ NoFloat \/ pc \in {"f_off"} \cup AfterF
        /\ pc' \in {"csr"} \cup AfterCsr => RestoreFcsr \/ pc \in {"csr"} \cup AfterCsr
        /\ pc' \in AfterCsr => RestoreCsrVector \/ pc \in AfterCsr
        /\ pc' \notin {"csr"} \cup AfterCsr => pc \notin {"csr"} \cup AfterCsr \/ Trap
        /\ pc' \in MretPcs => PassBarrier \/ pc \in MretPcs
        /\ pc' \in JumpPcs => PassBarrier \/ pc \in JumpPcs
    BY <1>2 DEF AfterH, AfterV, AfterF, AfterCsr, MretPcs, JumpPcs
  <2>7. pc' \in Pcs
    <3>1. pc' = pc \/ pc' \in FinalPcs
            \/ pc' \in {"select", "display", "check", "patch", "h", "v_on", "v", "v_off", "f_on"}
            \/ pc' \in {"f", "f_off", "fcsr_on", "fcsr", "csr", "mtimecmp", "barrier"}
            \/ pc' \in {"mret_sp", "mret_ints", "mret_last", "jump_sp", "jump_ints"}
            \/ pc' \in {"jump_to_core", "slot", "slot_jal"}
      BY <1>2 DEF FinalPcs
    <3>2. /\ {"select", "display", "check", "patch", "h", "v_on", "v", "v_off", "f_on"} \subseteq Pcs
          /\ {"f", "f_off", "fcsr_on", "fcsr", "csr", "mtimecmp", "barrier"} \subseteq Pcs
          /\ {"mret_sp", "mret_ints", "mret_last", "jump_sp", "jump_ints"} \subseteq Pcs
          /\ {"jump_to_core", "slot", "slot_jal"} \subseteq Pcs
          /\ FinalPcs \subseteq Pcs
      BY DEF Pcs
    <3>3. pc \in Pcs
      BY <2>1 DEF TypeOK
    <3> QED
      BY <3>1, <3>2, <3>3
  <2>8. /\ i' = 1 \/ i' = i \/ i' = i + 1
        /\ pc' = "h" => i' = 1 \/ (pc = "h" /\ (i' = i \/ (i' = i + 1 /\ i # Len(HCSRS))))
        /\ pc' \in {"v", "f"} => i' = 1 \/ (pc = pc' /\ (i' = i \/ (i' = i + 1 /\ i # 32)))
        /\ pc' = "csr" => i' = 1 \/ (pc = "csr" /\ (i' = i \/ (i' = i + 1 /\ i # Len(CSRS))))
        /\ pc' = "mret_ints" => i' = 1 \/ (pc = pc' /\ (i' = i \/ (i' = i + 1 /\ i # 30)))
        /\ pc' = "jump_ints" => i' = 1 \/ (pc = pc' /\ (i' = i \/ (i' = i + 1 /\ i # 28)))
        /\ pc' = "slot" => i' = 1 \/ (pc = pc' /\ (i' = i \/ (i' = i + 1 /\ i # 3)))
    BY <1>2
  <2> HIDE DEF Next, BootPayload, SelectArea, Display, CheckpointExtCheck, NoJump, PatchJal,
    RejectTarget, RvhCsrRestore, NoRvh, NoRvv, RvvOn, RvvLoad, RvvOff, NoFloat, FloatOn,
    FloatLoad, FloatOff, FcsrOn, RestoreFcsr, RestoreCsrVector, Trap, RestoreMtimeCmp,
    PassBarrier, MoveSp, MretLoad, Mret, JumpLoad, JumpToCore, SlotLoad, SlotJal, LoadInt,
    Finished
  \* How far the loops are.
  <2>9. IndexOK' /\ i' \in Nat \ {0}
    <3>1. Len(CSRS) >= 1 /\ Len(HCSRS) >= 1 /\ Len(CSRS) \in Nat /\ Len(HCSRS) \in Nat
      BY CsrFacts
    <3>2. i \in Nat \ {0}
      BY <2>1 DEF TypeOK
    <3>3. pc' = "h" => i' \in 1..Len(HCSRS)
      BY <2>1, <2>8, <3>1, <3>2 DEF IndexOK
    <3>4. pc' = "csr" => i' \in 1..Len(CSRS)
      BY <2>1, <2>8, <3>1, <3>2 DEF IndexOK
    <3>5. ASSUME NEW l \in {"v", "f"}
          PROVE  pc' = l => i' \in 1..32
      <4>1. pc = l => i \in 1..32
        BY <2>1 DEF IndexOK
      <4>2. pc' = l => i' = 1 \/ (pc = l /\ (i' = i \/ (i' = i + 1 /\ i # 32)))
        BY <2>8
      <4> QED
        BY <3>2, <4>1, <4>2
    <3>6. pc' = "mret_ints" => i' \in 1..30
      <4>1. pc = "mret_ints" => i \in 1..30
        BY <2>1 DEF IndexOK
      <4>2. pc' = "mret_ints" =>
              i' = 1 \/ (pc = "mret_ints" /\ (i' = i \/ (i' = i + 1 /\ i # 30)))
        BY <2>8
      <4> QED
        BY <3>2, <4>1, <4>2
    <3>7. pc' = "jump_ints" => i' \in 1..28
      <4>1. pc = "jump_ints" => i \in 1..28
        BY <2>1 DEF IndexOK
      <4>2. pc' = "jump_ints" =>
              i' = 1 \/ (pc = "jump_ints" /\ (i' = i \/ (i' = i + 1 /\ i # 28)))
        BY <2>8
      <4> QED
        BY <3>2, <4>1, <4>2
    <3>8. pc' = "slot" => i' \in 1..3
      <4>1. pc = "slot" => i \in 1..3
        BY <2>1 DEF IndexOK
      <4>2. pc' = "slot" =>
              i' = 1 \/ (pc = "slot" /\ (i' = i \/ (i' = i + 1 /\ i # 3)))
        BY <2>8
      <4> QED
        BY <3>2, <4>1, <4>2
    <3>9. i' \in Nat \ {0}
      BY <2>8, <3>2
    <3> QED
      BY <3>3, <3>4, <3>5, <3>6, <3>7, <3>8, <3>9 DEF IndexOK
  \* The scenario and the area.
  <2>10. sc \in Scenarios /\ Area \in Layout /\ Area' = Area
    <3>1. sc \in Scenarios
      BY <2>1 DEF TypeOK
    <3> QED
      BY <2>2, <3>1, ScenarioFacts DEF Area, GetCoreMemlayout, HartOffset, Layout
  <2>11. AreaOK'
    <3>1. pc' \notin NoArea => lay' = Area
      BY <2>1, <2>3, <2>5 DEF AreaOK, SelectArea, Area
    <3>2. pc' \notin Undecided =>
            could' = [v |-> HasVector, h |-> Both({"H"}) /\ sc.mpv, f |-> HasFloat, jump |-> sc.mode = 3]
      <4>1. CASE CheckpointExtCheck
        <5>1. (IsOn(sc.vs) <=> sc.vs # 0) /\ (IsOn(sc.fs) <=> sc.fs # 0)
          BY <2>10, ScenarioFacts, StatusFacts
        <5>2. /\ (Both({"V"}) /\ IsOn(sc.vs)) = HasVector
              /\ (Both({"D", "F"}) /\ IsOn(sc.fs)) = HasFloat
          BY <5>1 DEF HasVector, HasFloat, Both
        <5> QED
          BY <4>1, <5>2 DEF CheckpointExtCheck
      <4>2. CASE ~CheckpointExtCheck
        BY <2>1, <2>3, <2>5, <4>2 DEF AreaOK
      <4> QED
        BY <4>1, <4>2
    <3>3. HasVector' = HasVector /\ HasFloat' = HasFloat /\ Both({"H"})' = Both({"H"})
      BY <2>2 DEF HasVector, HasFloat, Both
    <3> QED
      BY <2>2, <2>10, <3>1, <3>2, <3>3 DEF AreaOK
  \* FS and VS.
  <2>12. StatusOK'
    <3>1. fs \in 0..3 /\ vs \in 0..3 /\ i \in Nat \ {0}
      BY <2>1 DEF TypeOK
    <3>2. pc' = "v" => vs' = HostVs(3)'
      BY <2>1, <2>2, <2>4 DEF StatusOK, RvvOn, RvvLoad, HostVs
    <3>3. pc' \in {"f", "fcsr"} => fs' = HostFs(3)'
      BY <2>1, <2>2, <2>4 DEF StatusOK, FloatOn, FloatLoad, FcsrOn, HostFs, HostHasFloat
    <3>4. pc' = "csr" /\ i' = 1 => fs' = HostFs(3)'
      <4>1. CASE RestoreFcsr
        BY <2>1, <2>2, <4>1 DEF StatusOK, RestoreFcsr, HostFs, HostHasFloat
      <4>2. CASE RestoreCsrVector
        BY <2>1, <3>1, <4>2 DEF RestoreCsrVector
      <4>3. CASE UNCHANGED vars
        BY <2>1, <4>3 DEF StatusOK, HostFs, HostHasFloat
      <4> QED
        BY <2>4, <4>1, <4>2, <4>3
    <3>5. HostFs(sc.fs)' = HostFs(sc.fs) /\ HostVs(sc.vs)' = HostVs(sc.vs)
      BY <2>2 DEF HostFs, HostVs, HostHasFloat
    <3>6. ASSUME RestoreCsrVector, \E k \in 1..i : CSRS[k] = mstatus
          PROVE  fs' = HostFs(sc.fs) /\ vs' = HostVs(sc.vs)
      <4>1. CASE CSRS[i] = mstatus
        BY <3>6, <4>1 DEF RestoreCsrVector, CsrsRestore
      <4>2. CASE CSRS[i] # mstatus
        <5>1. fs' = fs /\ vs' = vs /\ pc = "csr"
          BY <3>6, <4>2 DEF RestoreCsrVector, CsrsRestore
        <5>2. \E k \in 1..i - 1 : CSRS[k] = mstatus
          BY <3>1, <3>6, <4>2
        <5> QED
          BY <2>1, <5>1, <5>2 DEF StatusOK
      <4> QED
        BY <4>1, <4>2
    <3>7. pc' = "csr" /\ (\E k \in 1..i' - 1 : CSRS[k] = mstatus) =>
            fs' = HostFs(sc.fs) /\ vs' = HostVs(sc.vs)
      <4>1. CASE RestoreFcsr
        BY <4>1 DEF RestoreFcsr
      <4>2. CASE RestoreCsrVector
        <5>1. pc' = "csr" => i' = i + 1
          BY <2>1, <4>2 DEF RestoreCsrVector
        <5> QED
          BY <3>1, <3>6, <4>2, <5>1
      <4>3. CASE UNCHANGED vars
        BY <2>1, <4>3 DEF StatusOK
      <4> QED
        BY <2>4, <4>1, <4>2, <4>3
    <3>8. pc' \in AfterCsr => fs' = HostFs(sc.fs) /\ vs' = HostVs(sc.vs)
      <4>1. CASE RestoreCsrVector
        <5>1. pc = "csr" /\ (pc' \in AfterCsr => i = Len(CSRS))
          BY <4>1 DEF RestoreCsrVector, AfterCsr, MretPcs, JumpPcs
        <5>2. \E k \in 1..Len(CSRS) : CSRS[k] = mstatus
          BY CsrFacts DEF InList
        <5> QED
          BY <3>6, <4>1, <5>1, <5>2
      <4>2. CASE pc \in AfterCsr
        <5>1. fs' = fs /\ vs' = vs
          BY <2>3, <4>2 DEF AfterCsr, MretPcs, JumpPcs, RvhCsrRestore, RvvOn, RvvOff, FloatOn,
            FloatOff, FcsrOn, RestoreCsrVector
        <5> QED
          BY <2>1, <4>2, <5>1 DEF StatusOK
      <4> QED
        BY <2>6, <4>1, <4>2
    <3> QED
      BY <3>2, <3>3, <3>4, <3>5, <3>7, <3>8 DEF StatusOK
  \* The registers.
  <2>13. VectorOK'
    <3>1. i \in Nat \ {0} /\ v \in [0..31 -> Values]
      BY <2>1 DEF TypeOK
    <3>2. pc \notin NoArea => lay' = lay
      BY <2>3 DEF SelectArea, NoArea
    <3>3. ASSUME NEW r \in 0..31
          PROVE  v'[r] = Own \/ (pc' \notin NoArea /\ v'[r] = VectorWord(r)')
      <4>1. CASE RvvLoad
        <5>1. /\ pc' \notin NoArea /\ lay' = lay
              /\ (r = i - 1 => v'[r] = VectorWord(r)) /\ (r # i - 1 => v'[r] = v[r])
          BY <3>1, <4>1 DEF RvvLoad, VectorWord, NoArea
        <5>2. VectorWord(r)' = VectorWord(r)
          BY <5>1 DEF VectorWord
        <5>3. v[r] = Own \/ v[r] = VectorWord(r)
          BY <2>1 DEF VectorOK
        <5> QED
          BY <5>1, <5>2, <5>3
      <4>2. CASE v' = v
        <5>1. v[r] = Own \/ (pc \notin NoArea /\ v[r] = VectorWord(r))
          BY <2>1 DEF VectorOK
        <5>2. pc \notin NoArea => pc' \notin NoArea /\ VectorWord(r)' = VectorWord(r)
          BY <2>5, <3>2 DEF VectorWord
        <5> QED
          BY <4>2, <5>1, <5>2
      <4> QED
        BY <2>3, <4>1, <4>2
    <3>4. ASSUME RvvLoad
          PROVE  could' = could /\ could.v /\ \A r \in 0..31 : r < i => v'[r] = VectorWord(r)'
      <4>1. /\ pc = "v" /\ lay' = lay /\ could' = could
            /\ \A r \in 0..31 : v'[r] = IF r = i - 1 THEN VectorWord(r) ELSE v[r]
        BY <3>1, <3>4 DEF RvvLoad, VectorWord
      <4> QED
        BY <2>1, <3>1, <4>1 DEF VectorOK, VectorWord
    <3>5. pc' = "v" => could'.v /\ \A r \in 0..31 : r < i' - 1 => v'[r] = VectorWord(r)'
      <4>1. CASE RvvOn
        BY <4>1 DEF RvvOn
      <4>2. CASE RvvLoad
        <5>1. pc' = "v" => i' = i + 1
          BY <2>1, <4>2 DEF RvvLoad
        <5> QED
          BY <3>1, <3>4, <4>2, <5>1
      <4>3. CASE UNCHANGED vars
        BY <2>1, <4>3 DEF VectorOK, VectorWord
      <4> QED
        BY <2>4, <4>1, <4>2, <4>3
    <3>6. pc' \in {"v_off"} \cup AfterV /\ could'.v => \A r \in 0..31 : v'[r] = VectorWord(r)'
      <4>1. CASE RvvLoad
        <5>1. pc' \in {"v_off"} \cup AfterV => i = 32
          BY <4>1 DEF RvvLoad, AfterV, AfterF, AfterCsr, MretPcs, JumpPcs
        <5> QED
          BY <3>4, <4>1, <5>1
      <4>2. CASE NoRvv
        BY <4>2 DEF NoRvv
      <4>3. CASE pc \in {"v_off"} \cup AfterV
        <5>1. lay' = lay /\ could' = could /\ v' = v
          BY <2>3, <4>3 DEF SelectArea, CheckpointExtCheck, RvvLoad, AfterV, AfterF, AfterCsr,
            MretPcs, JumpPcs
        <5> QED
          BY <2>1, <4>3, <5>1 DEF VectorOK, VectorWord
      <4> QED
        BY <2>6, <4>1, <4>2, <4>3
    <3> QED
      BY <3>3, <3>5, <3>6 DEF VectorOK
  <2>14. FloatOK'
    <3>1. i \in Nat \ {0} /\ f \in [0..31 -> Values]
      BY <2>1 DEF TypeOK
    <3>2. pc \notin NoArea => lay' = lay
      BY <2>3 DEF SelectArea, NoArea
    <3>3. ASSUME NEW r \in 0..31
          PROVE  f'[r] = Own \/ (pc' \notin NoArea /\ f'[r] = FloatWord(r)')
      <4>1. CASE FloatLoad
        <5>1. /\ pc' \notin NoArea /\ lay' = lay
              /\ (r = i - 1 => f'[r] = FloatWord(r)) /\ (r # i - 1 => f'[r] = f[r])
          BY <3>1, <4>1 DEF FloatLoad, FloatWord, NoArea
        <5>2. FloatWord(r)' = FloatWord(r)
          BY <5>1 DEF FloatWord
        <5>3. f[r] = Own \/ f[r] = FloatWord(r)
          BY <2>1 DEF FloatOK
        <5> QED
          BY <5>1, <5>2, <5>3
      <4>2. CASE f' = f
        <5>1. f[r] = Own \/ (pc \notin NoArea /\ f[r] = FloatWord(r))
          BY <2>1 DEF FloatOK
        <5>2. pc \notin NoArea => pc' \notin NoArea /\ FloatWord(r)' = FloatWord(r)
          BY <2>5, <3>2 DEF FloatWord
        <5> QED
          BY <4>2, <5>1, <5>2
      <4> QED
        BY <2>3, <4>1, <4>2
    <3>4. ASSUME FloatLoad
          PROVE  could' = could /\ could.f /\ \A r \in 0..31 : r < i => f'[r] = FloatWord(r)'
      <4>1. /\ pc = "f" /\ lay' = lay /\ could' = could
            /\ \A r \in 0..31 : f'[r] = IF r = i - 1 THEN FloatWord(r) ELSE f[r]
        BY <3>1, <3>4 DEF FloatLoad, FloatWord
      <4> QED
        BY <2>1, <3>1, <4>1 DEF FloatOK, FloatWord
    <3>5. pc' = "f" => could'.f /\ \A r \in 0..31 : r < i' - 1 => f'[r] = FloatWord(r)'
      <4>1. CASE FloatOn
        BY <4>1 DEF FloatOn
      <4>2. CASE FloatLoad
        <5>1. pc' = "f" => i' = i + 1
          BY <2>1, <4>2 DEF FloatLoad
        <5> QED
          BY <3>1, <3>4, <4>2, <5>1
      <4>3. CASE UNCHANGED vars
        BY <2>1, <4>3 DEF FloatOK, FloatWord
      <4> QED
        BY <2>4, <4>1, <4>2, <4>3
    <3>6. pc' \in {"f_off"} \cup AfterF /\ could'.f => \A r \in 0..31 : f'[r] = FloatWord(r)'
      <4>1. CASE FloatLoad
        <5>1. pc' \in {"f_off"} \cup AfterF => i = 32
          BY <4>1 DEF FloatLoad, AfterF, AfterCsr, MretPcs, JumpPcs
        <5> QED
          BY <3>4, <4>1, <5>1
      <4>2. CASE NoFloat
        BY <4>2 DEF NoFloat
      <4>3. CASE pc \in {"f_off"} \cup AfterF
        <5>1. lay' = lay /\ could' = could /\ f' = f
          BY <2>3, <4>3 DEF SelectArea, CheckpointExtCheck, FloatLoad, AfterF, AfterCsr,
            MretPcs, JumpPcs
        <5> QED
          BY <2>1, <4>3, <5>1 DEF FloatOK, FloatWord
      <4> QED
        BY <2>6, <4>1, <4>2, <4>3
    <3> QED
      BY <3>3, <3>5, <3>6 DEF FloatOK
  \* What the csr writes write.
  <2>15. /\ DOMAIN CSRS = 1..Len(CSRS) /\ DOMAIN HCSRS = 1..Len(HCSRS)
         /\ Len(CSRS) \in Nat /\ Len(HCSRS) \in Nat
         /\ \A k \in 1..Len(CSRS) : CSRS[k] \in InList(CSRS) /\ CSRS[k] \in CsrIds \ {fflags, vl, vtype}
         /\ \A k \in 1..Len(HCSRS) :
              /\ HCSRS[k] \in InList(HCSRS) /\ HCSRS[k] \in CsrIds \ {fflags, vl, vtype}
              /\ HCSRS[k] \notin InList(CSRS) /\ HCSRS[k] \notin PmpAddrs
         /\ \A j, k \in 1..Len(CSRS) : CSRS[j] = CSRS[k] => j = k
         /\ \A j, k \in 1..Len(HCSRS) : HCSRS[j] = HCSRS[k] => j = k
         /\ {fflags, vl, vtype, frm, mtvec, mepc} \subseteq CsrIds
         /\ frm \in InList(CSRS) /\ mtvec \in InList(CSRS)
    <3>1. /\ DOMAIN CSRS = 1..Len(CSRS) /\ DOMAIN HCSRS = 1..Len(HCSRS)
          /\ Len(CSRS) \in Nat /\ Len(HCSRS) \in Nat
      BY CsrFacts
    <3>2. /\ \A k \in 1..Len(CSRS) : CSRS[k] \in InList(CSRS)
          /\ \A k \in 1..Len(HCSRS) : HCSRS[k] \in InList(HCSRS)
      BY <3>1 DEF InList
    <3>3. /\ InList(CSRS) \cap InList(HCSRS) = {} /\ InList(HCSRS) \cap PmpAddrs = {}
          /\ {fflags, vl, vtype} \cap (InList(CSRS) \cup InList(HCSRS)) = {}
          /\ {frm, mstatus, mtvec, mepc} \subseteq InList(CSRS)
      BY CsrFacts
    <3>4. /\ \A j, k \in 1..Len(CSRS) : CSRS[j] = CSRS[k] => j = k
          /\ \A j, k \in 1..Len(HCSRS) : HCSRS[j] = HCSRS[k] => j = k
      BY <3>1, CsrFacts
    <3> QED
      BY <3>1, <3>2, <3>3, <3>4 DEF CsrIds
  <2>16. i \in Nat \ {0} /\ csr \in [CsrIds -> Values]
    BY <2>1 DEF TypeOK
  <2>17. ASSUME pc \notin NoArea
         PROVE  lay' = lay /\ \A c : CsrWord(c)' = CsrWord(c)
    BY <2>3, <2>17 DEF SelectArea, NoArea, CsrWord
  <2>18. ASSUME NEW w \in CsrIds, CsrsRestore(w)
         PROVE  /\ \A c \in CsrIds : c # w => csr'[c] = csr[c]
                /\ csr'[w] = CsrWord(w) \/ (csr'[w] = csr[w] /\ Frozen(w))
                /\ w \notin PmpAddrs => csr'[w] = CsrWord(w)
    <3>1. Ignored(w) => Frozen(w) /\ w \in PmpAddrs
      <4>1. Ignored(w) => /\ w \in PmpAddrs
                          /\ \/ w - pmpaddr0 \in sc.locked
                             \/ w - pmpaddr0 + 1 \in sc.locked /\ w - pmpaddr0 + 1 \in sc.tor
        BY DEF Ignored, Locked
      <4>2. pmpaddr0 \in Nat
        BY CsrFacts
      <4>3. w \in PmpAddrs => /\ w = pmpaddr0 + (w - pmpaddr0)
                              /\ w = pmpaddr0 + (w - pmpaddr0 + 1) - 1
        BY <4>2 DEF PmpAddrs
      <4> QED
        BY <4>1, <4>3 DEF Frozen
    <3>2. csr' = csr \/ csr' = [csr EXCEPT ![w] = CsrWord(w)]
      BY <2>18 DEF CsrsRestore
    <3>3. ~Ignored(w) => csr' = [csr EXCEPT ![w] = CsrWord(w)]
      BY <2>18 DEF CsrsRestore
    <3>4. Ignored(w) => csr' = csr
      BY <2>18 DEF CsrsRestore
    <3> QED
      BY <2>16, <3>1, <3>2, <3>3, <3>4
  <2>19. ASSUME RvhCsrRestore
         PROVE  /\ pc = "h" /\ could.h /\ could' = could /\ i \in 1..Len(HCSRS)
                /\ i = Len(HCSRS) => pc' = "v_on" /\ i' = 1
                /\ i # Len(HCSRS) => pc' = "h" /\ i' = i + 1
                /\ \A c \in CsrIds : c # HCSRS[i] => csr'[c] = csr[c]
                /\ csr'[HCSRS[i]] = CsrWord(HCSRS[i])
    <3>1. /\ pc = "h" /\ could.h /\ could' = could /\ CsrsRestore(HCSRS[i])
          /\ i = Len(HCSRS) => pc' = "v_on" /\ i' = 1
          /\ i # Len(HCSRS) => pc' = "h" /\ i' = i + 1
      BY <2>19 DEF RvhCsrRestore
    <3>2. i \in 1..Len(HCSRS)
      BY <2>1, <3>1 DEF IndexOK
    <3>3. HCSRS[i] \in CsrIds /\ HCSRS[i] \notin PmpAddrs
      BY <2>15, <3>2
    <3> QED
      BY <2>18, <3>1, <3>2, <3>3
  <2>20. ASSUME RestoreCsrVector
         PROVE  /\ pc = "csr" /\ could' = could /\ i \in 1..Len(CSRS)
                /\ i = Len(CSRS) => pc' = "mtimecmp" /\ i' = 1
                /\ i # Len(CSRS) => pc' = "csr" /\ i' = i + 1
                /\ \A c \in CsrIds : c # CSRS[i] => csr'[c] = csr[c]
                /\ csr'[CSRS[i]] = CsrWord(CSRS[i])
                     \/ (csr'[CSRS[i]] = csr[CSRS[i]] /\ Frozen(CSRS[i]))
    <3>1. /\ pc = "csr" /\ could' = could /\ CsrsRestore(CSRS[i])
          /\ i = Len(CSRS) => pc' = "mtimecmp" /\ i' = 1
          /\ i # Len(CSRS) => pc' = "csr" /\ i' = i + 1
      BY <2>20 DEF RestoreCsrVector
    <3>2. i \in 1..Len(CSRS)
      BY <2>1, <3>1 DEF IndexOK
    <3>3. CSRS[i] \in CsrIds
      BY <2>15, <3>2
    <3> QED
      BY <2>18, <3>1, <3>2, <3>3
  <2>21. ASSUME RvvOn
         PROVE  /\ pc = "v_on" /\ could.v /\ pc' = "v"
                /\ \A c \in CsrIds \ {vl, vtype} : csr'[c] = csr[c]
                /\ csr'[vl] = CsrWord(vl) /\ csr'[vtype] = CsrWord(vtype)
    <3>1. vl # vtype
      BY CsrFacts
    <3> QED
      BY <2>15, <2>16, <2>21, <3>1 DEF RvvOn
  <2>22. ASSUME RestoreFcsr
         PROVE  /\ pc = "fcsr" /\ pc' = "csr" /\ i' = 1
                /\ \A c \in CsrIds \ {fflags, frm} : csr'[c] = csr[c]
                /\ csr'[fflags] = CsrWord(fcsr)
    <3>1. fflags # frm
      BY <2>15, CsrFacts
    <3> QED
      BY <2>15, <2>16, <2>22, <3>1 DEF RestoreFcsr
  <2>23. CsrOK'
    <3>1. ASSUME NEW c \in CsrIds \ {fflags, frm}
          PROVE  csr'[c] = Own \/ (pc' \notin NoArea /\ csr'[c] = CsrWord(c)')
      <4>1. csr[c] = Own \/ (pc \notin NoArea /\ csr[c] = CsrWord(c))
        BY <2>1 DEF CsrOK
      <4>2. pc \notin NoArea => pc' \notin NoArea /\ CsrWord(c)' = CsrWord(c)
        BY <2>5, <2>17
      <4>3. csr'[c] = csr[c] \/ (pc \notin NoArea /\ csr'[c] = CsrWord(c))
        <5>1. CASE RvhCsrRestore
          BY <2>19, <5>1 DEF NoArea
        <5>2. CASE RestoreCsrVector
          BY <2>20, <5>2 DEF NoArea
        <5>3. CASE RvvOn
          BY <2>21, <5>3 DEF NoArea
        <5>4. CASE RestoreFcsr
          BY <2>22, <5>4
        <5> QED
          BY <2>3, <5>1, <5>2, <5>3, <5>4
      <4> QED
        BY <4>1, <4>2, <4>3
    \* Each loop leaves what it has written before in place.
    <3>2. ASSUME RvhCsrRestore
          PROVE  \A k \in 1..i : csr'[HCSRS[k]] = CsrWord(HCSRS[k])'
      <4>1. \A k \in 1..i - 1 : csr[HCSRS[k]] = CsrWord(HCSRS[k])
        BY <2>1, <2>19, <3>2 DEF CsrOK
      <4>2. ASSUME NEW k \in 1..i
            PROVE  csr'[HCSRS[k]] = CsrWord(HCSRS[k])
        <5>1. CASE k = i
          BY <2>19, <3>2, <5>1
        <5>2. CASE k # i
          <6>1. k \in 1..i - 1 /\ k \in 1..Len(HCSRS) /\ i \in 1..Len(HCSRS)
            BY <2>15, <2>19, <3>2, <5>2
          <6>2. HCSRS[k] # HCSRS[i] /\ HCSRS[k] \in CsrIds
            BY <2>15, <5>2, <6>1
          <6> QED
            BY <2>19, <3>2, <4>1, <6>1, <6>2
        <5> QED
          BY <5>1, <5>2
      <4> QED
        BY <2>17, <2>19, <3>2, <4>2 DEF NoArea
    <3>3. ASSUME RestoreCsrVector
          PROVE  \A k \in 1..i : ~Frozen(CSRS[k]) => csr'[CSRS[k]] = CsrWord(CSRS[k])'
      <4>1. \A k \in 1..i - 1 : ~Frozen(CSRS[k]) => csr[CSRS[k]] = CsrWord(CSRS[k])
        BY <2>1, <2>20, <3>3 DEF CsrOK
      <4>2. ASSUME NEW k \in 1..i, ~Frozen(CSRS[k])
            PROVE  csr'[CSRS[k]] = CsrWord(CSRS[k])
        <5>1. CASE k = i
          BY <2>20, <3>3, <4>2, <5>1
        <5>2. CASE k # i
          <6>1. k \in 1..i - 1 /\ k \in 1..Len(CSRS) /\ i \in 1..Len(CSRS)
            BY <2>15, <2>20, <3>3, <5>2
          <6>2. CSRS[k] # CSRS[i] /\ CSRS[k] \in CsrIds
            BY <2>15, <5>2, <6>1
          <6> QED
            BY <2>20, <3>3, <4>1, <4>2, <6>1, <6>2
        <5> QED
          BY <5>1, <5>2
      <4> QED
        BY <2>17, <2>20, <3>3, <4>2 DEF NoArea
    <3>4. \A c : Frozen(c)' = Frozen(c)
      BY <2>2 DEF Frozen
    <3>5. pc' = "h" => \A k \in 1..i' - 1 : csr'[HCSRS[k]] = CsrWord(HCSRS[k])'
      <4>1. CASE NoJump \/ PatchJal
        BY <4>1 DEF NoJump, PatchJal
      <4>2. CASE RvhCsrRestore
        <5>1. pc' = "h" => i' = i + 1
          BY <2>19, <4>2
        <5> QED
          BY <2>16, <3>2, <4>2, <5>1
      <4>3. CASE UNCHANGED vars
        BY <2>1, <4>3 DEF CsrOK, CsrWord
      <4> QED
        BY <2>4, <4>1, <4>2, <4>3
    <3>6. pc' \in AfterH /\ could'.h => \A k \in 1..Len(HCSRS) : csr'[HCSRS[k]] = CsrWord(HCSRS[k])'
      <4>1. CASE RvhCsrRestore
        <5>1. pc' \in AfterH => i = Len(HCSRS)
          BY <2>19, <4>1 DEF AfterH, AfterV, AfterF, AfterCsr, MretPcs, JumpPcs
        <5> QED
          BY <3>2, <4>1, <5>1
      <4>2. CASE NoRvh
        BY <4>2 DEF NoRvh
      <4>3. CASE pc \in AfterH
        <5>1. pc \notin NoArea /\ could' = could
          BY <2>3, <4>3 DEF CheckpointExtCheck, NoArea, AfterH, AfterV, AfterF, AfterCsr, MretPcs, JumpPcs
        <5>2. could.h => \A k \in 1..Len(HCSRS) : csr[HCSRS[k]] = CsrWord(HCSRS[k])
          BY <2>1, <2>15, <4>3 DEF CsrOK
        <5>3. ASSUME NEW k \in 1..Len(HCSRS)
              PROVE  csr'[HCSRS[k]] = csr[HCSRS[k]]
          <6>1. ~RvhCsrRestore
            BY <2>19, <4>3 DEF AfterH, AfterV, AfterF, AfterCsr, MretPcs, JumpPcs
          <6>2. /\ HCSRS[k] \in CsrIds /\ HCSRS[k] # fflags /\ HCSRS[k] # vl /\ HCSRS[k] # vtype
                /\ HCSRS[k] # frm
            BY <2>15
          <6>3. RestoreCsrVector => HCSRS[k] # CSRS[i]
            BY <2>15, <2>20
          <6>4. CASE RestoreCsrVector
            BY <2>20, <6>2, <6>3, <6>4
          <6>5. CASE RvvOn
            BY <2>21, <6>2, <6>5
          <6>6. CASE RestoreFcsr
            BY <2>22, <6>2, <6>6
          <6> QED
            BY <2>3, <6>1, <6>4, <6>5, <6>6
        <5> QED
          BY <2>17, <5>1, <5>2, <5>3
      <4> QED
        BY <2>6, <4>1, <4>2, <4>3
    <3>7. pc' \in {"v", "v_off"} \cup AfterV /\ could'.v =>
            csr'[vl] = CsrWord(vl)' /\ csr'[vtype] = CsrWord(vtype)'
      <4>1. CASE RvvOn
        BY <2>17, <2>21, <4>1 DEF NoArea
      <4>2. CASE NoRvv
        BY <4>2 DEF NoRvv
      <4>3. CASE pc \in {"v", "v_off"} \cup AfterV
        <5>1. pc \notin NoArea /\ could' = could /\ ~RvhCsrRestore /\ ~RvvOn
          BY <2>3, <2>19, <2>21, <4>3 DEF CheckpointExtCheck, NoArea, AfterV, AfterF, AfterCsr, MretPcs, JumpPcs
        <5>2. could.v => csr[vl] = CsrWord(vl) /\ csr[vtype] = CsrWord(vtype)
          BY <2>1, <4>3 DEF CsrOK
        <5>3. /\ {vl, vtype} \subseteq CsrIds /\ fflags \notin {vl, vtype} /\ frm \notin {vl, vtype}
              /\ RestoreCsrVector => CSRS[i] \notin {vl, vtype}
          BY <2>15, <2>20, CsrFacts
        <5>4. csr'[vl] = csr[vl] /\ csr'[vtype] = csr[vtype]
          BY <2>3, <2>20, <2>22, <5>1, <5>3
        <5> QED
          BY <2>17, <5>1, <5>2, <5>4
      <4> QED
        BY <2>6, <4>1, <4>2, <4>3
    <3>8. pc' \in {"csr"} \cup AfterCsr => csr'[fflags] = CsrWord(fcsr)'
      <4>1. CASE RestoreFcsr
        BY <2>17, <2>22, <4>1 DEF NoArea
      <4>2. CASE pc \in {"csr"} \cup AfterCsr
        <5>1. pc \notin NoArea /\ ~RvhCsrRestore /\ ~RvvOn /\ ~RestoreFcsr
          BY <2>19, <2>21, <2>22, <4>2 DEF NoArea, AfterCsr, MretPcs, JumpPcs
        <5>2. csr[fflags] = CsrWord(fcsr)
          BY <2>1, <4>2 DEF CsrOK
        <5>3. fflags \in CsrIds /\ (RestoreCsrVector => CSRS[i] # fflags)
          BY <2>15, <2>20
        <5> QED
          BY <2>3, <2>17, <2>20, <5>1, <5>2, <5>3
      <4> QED
        BY <2>6, <4>1, <4>2
    <3>9. pc' = "csr" => \A k \in 1..i' - 1 : ~Frozen(CSRS[k]) => csr'[CSRS[k]] = CsrWord(CSRS[k])'
      <4>1. CASE RestoreFcsr
        BY <2>22, <4>1
      <4>2. CASE RestoreCsrVector
        <5>1. pc' = "csr" => i' = i + 1
          BY <2>20, <4>2
        <5> QED
          BY <2>16, <3>3, <4>2, <5>1
      <4>3. CASE UNCHANGED vars
        BY <2>1, <4>3 DEF CsrOK, CsrWord
      <4> QED
        BY <2>4, <4>1, <4>2, <4>3
    <3>10. pc' \in AfterCsr =>
             \A k \in 1..Len(CSRS) : ~Frozen(CSRS[k]) => csr'[CSRS[k]] = CsrWord(CSRS[k])'
      <4>1. CASE RestoreCsrVector
        <5>1. pc' \in AfterCsr => i = Len(CSRS)
          BY <2>20, <4>1 DEF AfterCsr, MretPcs, JumpPcs
        <5> QED
          BY <3>3, <4>1, <5>1
      <4>2. CASE pc \in AfterCsr
        <5>1. pc \notin NoArea /\ csr' = csr
          BY <2>3, <2>19, <2>20, <2>21, <2>22, <4>2 DEF NoArea, AfterCsr, MretPcs, JumpPcs
        <5>2. \A k \in 1..Len(CSRS) : ~Frozen(CSRS[k]) => csr[CSRS[k]] = CsrWord(CSRS[k])
          BY <2>1, <2>15, <4>2 DEF CsrOK
        <5> QED
          BY <2>17, <5>1, <5>2
      <4> QED
        BY <2>6, <4>1, <4>2
    <3> QED
      BY <2>15, <3>1, <3>4, <3>5, <3>6, <3>7, <3>8, <3>9, <3>10 DEF CsrOK
  <2>24. TrapOK'
    <3>1. mtvec \in CsrIds \ {fflags, frm, vl, vtype}
      BY <2>15, CsrFacts
    <3>2. Len(CSRS) > 3 /\ CSRS[1] = frm /\ CSRS[3] \in Stateens /\ \A k \in 1..3 : CSRS[k] # mtvec
      <4>1. CSRS[1] = \h002 /\ CSRS[2] = \h30a /\ CSRS[3] = \h30c /\ Len(CSRS) = 47
        BY DEF CSRS
      <4>2. CSRS[1] = frm /\ CSRS[3] \in Stateens
        BY <4>1 DEF frm, Stateens
      <4>3. \A k \in 1..3 : CSRS[k] # mtvec
        BY <4>1 DEF mtvec
      <4> QED
        BY <4>1, <4>2, <4>3
    <3>3. ASSUME Trap
          PROVE  /\ csr' = csr /\ sc' = sc
                 /\ pc = "csr" => csr[mtvec] = Own
                 /\ ~Supports
      <4>1. csr' = csr /\ sc' = sc
        BY <3>3 DEF Trap
      <4>2. pc \in {"h", "v", "f", "fcsr", "csr"}
        BY <3>3 DEF Trap
      <4>3. fs \in 0..3 /\ vs \in 0..3
        BY <2>1 DEF TypeOK
      <4>4. HostHasFloat => HostFs(3) = 3
        BY StatusFacts
      <4>5. could = [v |-> HasVector, h |-> Both({"H"}) /\ sc.mpv, f |-> HasFloat, jump |-> sc.mode = 3]
        BY <2>1, <4>2 DEF AreaOK, Undecided, NoArea
      <4>6. CASE pc = "h"
        <5>1. could.h /\ ~Writable(HCSRS[i]) /\ i \in 1..Len(HCSRS)
          BY <2>1, <3>3, <4>6 DEF Trap, IndexOK
        <5>2. "H" \in sc.host
          BY <4>5, <5>1 DEF Both
        <5>3. HCSRS[i] # frm
          BY <2>15, <5>1
        <5> QED
          BY <4>1, <4>6, <5>1, <5>2, <5>3 DEF Writable, Supports
      <4>7. CASE pc = "v"
        <5>1. vs = 0 /\ vs = HostVs(3) /\ could.v
          BY <2>1, <3>3, <4>7 DEF Trap, StatusOK, VectorOK
        <5>2. "V" \in sc.host
          BY <4>5, <5>1 DEF HasVector, Both
        <5> QED
          BY <5>1, <5>2, StatusFacts
      <4>8. CASE pc = "f" \/ pc = "fcsr"
        <5>1. (fs = 0 \/ "D" \notin sc.host) /\ fs = HostFs(3)
          BY <2>1, <3>3, <4>8 DEF Trap, StatusOK
        <5>2. "D" \in sc.host => fs = 3
          BY <4>4, <5>1 DEF HostHasFloat
        <5> QED
          BY <4>1, <4>8, <5>1, <5>2 DEF Supports
      <4>9. CASE pc = "csr"
        <5>1. ~Writable(CSRS[i]) /\ i \in 1..Len(CSRS)
          BY <2>1, <3>3, <4>9 DEF Trap, IndexOK
        <5>2. CSRS[i] \notin InList(HCSRS)
          BY <2>15, <5>1, CsrFacts
        <5>3. (CSRS[i] = frm /\ fs = 0) \/ (CSRS[i] \in Stateens /\ ~sc.stateen)
          BY <5>1, <5>2 DEF Writable
        <5>4. CSRS[i] = frm => i = 1
          BY <2>15, <3>2, <5>1
        <5>5. i <= 3
          <6>1. i > 3 => sc.stateen
            BY <2>1, <4>9 DEF TrapOK
          <6> QED
            BY <2>16, <5>3, <5>4, <6>1
        <5>6. csr[mtvec] = Own
          <6>1. \A k \in 1..i - 1 : CSRS[k] # mtvec
            BY <2>16, <3>2, <5>5
          <6> QED
            BY <2>1, <4>9, <6>1 DEF TrapOK
        <5>7. ~Supports
          <6>1. CASE CSRS[i] = frm /\ fs = 0
            <7>1. fs = HostFs(3)
              BY <2>1, <4>9, <5>4, <6>1 DEF StatusOK
            <7> QED
              BY <4>4, <6>1, <7>1 DEF Supports, HostHasFloat
          <6>2. CASE ~sc.stateen
            BY <6>2 DEF Supports
          <6> QED
            BY <5>3, <6>1, <6>2
        <5> QED
          BY <4>1, <5>6, <5>7
      <4> QED
        BY <4>2, <4>6, <4>7, <4>8, <4>9
    <3>4. pc' \notin {"csr"} \cup AfterCsr => csr'[mtvec] = Own
      <4>1. CASE Trap
        BY <2>1, <3>3, <4>1 DEF TrapOK, Trap, AfterCsr, MretPcs, JumpPcs
      <4>2. CASE pc \notin {"csr"} \cup AfterCsr
        <5>1. csr[mtvec] = Own /\ ~RestoreCsrVector
          BY <2>1, <2>20, <4>2 DEF TrapOK
        <5>2. RvhCsrRestore => HCSRS[i] # mtvec
          BY <2>15, <2>19
        <5> QED
          BY <2>3, <2>19, <2>21, <2>22, <3>1, <5>1, <5>2
      <4> QED
        BY <2>6, <4>1, <4>2
    <3>5. pc' = "csr" /\ (\A k \in 1..i' - 1 : CSRS[k] # mtvec) => csr'[mtvec] = Own
      <4>1. CASE RestoreFcsr
        <5>1. csr[mtvec] = Own
          BY <2>1, <2>22, <4>1 DEF TrapOK, AfterCsr, MretPcs, JumpPcs
        <5> QED
          BY <2>22, <3>1, <4>1, <5>1
      <4>2. CASE RestoreCsrVector
        <5>1. pc' = "csr" => i' = i + 1
          BY <2>20, <4>2
        <5>2. (\A k \in 1..i : CSRS[k] # mtvec) => csr[mtvec] = Own /\ CSRS[i] # mtvec
          BY <2>1, <2>16, <2>20, <4>2 DEF TrapOK
        <5> QED
          BY <2>16, <2>20, <3>1, <4>2, <5>1, <5>2
      <4>3. CASE UNCHANGED vars
        BY <2>1, <4>3 DEF TrapOK
      <4> QED
        BY <2>4, <4>1, <4>2, <4>3
    <3>6. pc' = "csr" /\ i' > 3 => sc'.stateen
      <4>1. CASE RestoreFcsr
        BY <2>22, <4>1
      <4>2. CASE RestoreCsrVector
        <5>1. pc' = "csr" => i' = i + 1
          BY <2>20, <4>2
        <5>2. i = 3 => sc.stateen
          BY <3>2, <4>2 DEF RestoreCsrVector, Writable
        <5>3. i > 3 => sc.stateen
          BY <2>1, <2>20, <4>2 DEF TrapOK
        <5> QED
          BY <2>2, <2>16, <5>1, <5>2, <5>3
      <4>3. CASE UNCHANGED vars
        BY <2>1, <4>3 DEF TrapOK
      <4> QED
        BY <2>4, <4>1, <4>2, <4>3
    <3>7. pc' = "trapped" => ~Supports'
      <4>1. Supports' = Supports
        BY <2>2 DEF Supports
      <4> QED
        BY <2>1, <2>4, <3>3, <4>1 DEF TrapOK
    <3> QED
      BY <3>4, <3>5, <3>6, <3>7 DEF TrapOK
  <2>25. IntOK'
    <3>1. /\ \A k \in 1..30 : (k = 1 => MretOrder[k] = 1) /\ (k # 1 => MretOrder[k] = k + 1)
          /\ \A k \in 1..28 : /\ k = 1 => JumpOrder[k] = 1
                              /\ k \in {2, 3} => JumpOrder[k] = k + 1
                              /\ k > 3 => JumpOrder[k] = k + 3
          /\ SlotOrder[1] = 5 /\ SlotOrder[2] = 6 /\ SlotOrder[3] = 2
      BY DEF MretOrder, JumpOrder, SlotOrder
    <3>2. x \in [1..31 -> Values]
      BY <2>1 DEF TypeOK
    <3>3. ASSUME NEW a, NEW o
          PROVE  Load(Ptr(a), o) = Word(a + o)
      BY DEF Load, Ptr
    <3>4. ASSUME pc \notin NoArea
          PROVE  lay' = lay /\ \A r : IntWord(r)' = IntWord(r)
      BY <2>17, <3>4 DEF IntWord
    <3>5. ASSUME x[2] = Ptr(lay.int_reg_cpt_addr), NEW order, LoadInt(order), order[i] \in 1..31
          PROVE  /\ \A r \in 1..31 : r # order[i] => x'[r] = x[r]
                 /\ x'[order[i]] = IntWord(order[i])
      <4>1. x' = [x EXCEPT ![order[i]] = Load(x[2], order[i] * 8)]
        BY <3>5 DEF LoadInt
      <4>2. Load(x[2], order[i] * 8) = IntWord(order[i])
        BY <3>3, <3>5 DEF IntWord
      <4> QED
        BY <3>2, <3>5, <4>1, <4>2
    <3>6. ASSUME MoveSp
          PROVE  x'[2] = Ptr(lay.int_reg_cpt_addr) /\ pc' \in {"mret_ints", "jump_ints"} /\ i' = 1
      BY <3>2, <3>6 DEF MoveSp
    <3>7. ASSUME MretLoad
          PROVE  /\ pc = "mret_ints" /\ i \in 1..30
                 /\ x'[2] = Ptr(lay.int_reg_cpt_addr)
                 /\ \A k \in 1..i : x'[MretOrder[k]] = IntWord(MretOrder[k])
                 /\ i = 30 => pc' = "mret_last"
                 /\ i # 30 => pc' = "mret_ints" /\ i' = i + 1
      <4>1. /\ pc = "mret_ints" /\ LoadInt(MretOrder)
            /\ i = 30 => pc' = "mret_last"
            /\ i # 30 => pc' = "mret_ints" /\ i' = i + 1
        BY <3>7 DEF MretLoad
      <4>2. i \in 1..30 /\ x[2] = Ptr(lay.int_reg_cpt_addr)
            /\ \A k \in 1..i - 1 : x[MretOrder[k]] = IntWord(MretOrder[k])
        BY <2>1, <4>1 DEF IndexOK, IntOK
      <4>3. /\ \A k \in 1..30 : MretOrder[k] \in 1..31 /\ MretOrder[k] # 2
            /\ \A k \in 1..30 : k # i => MretOrder[k] # MretOrder[i]
        BY <3>1, <4>2
      <4>4. /\ \A r \in 1..31 : r # MretOrder[i] => x'[r] = x[r]
            /\ x'[MretOrder[i]] = IntWord(MretOrder[i])
        BY <3>5, <4>1, <4>2, <4>3
      <4>5. x'[2] = Ptr(lay.int_reg_cpt_addr)
        BY <4>2, <4>3, <4>4
      <4>6. ASSUME NEW k \in 1..i
            PROVE  x'[MretOrder[k]] = IntWord(MretOrder[k])
        <5>1. k \in 1..30 /\ (k # i => k \in 1..i - 1)
          BY <4>2
        <5> QED
          BY <4>2, <4>3, <4>4, <5>1
      <4> QED
        BY <4>1, <4>2, <4>5, <4>6
    <3>8. ASSUME JumpLoad
          PROVE  /\ pc = "jump_ints" /\ i \in 1..28
                 /\ x'[2] = Ptr(lay.int_reg_cpt_addr)
                 /\ \A k \in 1..i : x'[JumpOrder[k]] = IntWord(JumpOrder[k])
                 /\ i = 28 => pc' = "jump_to_core"
                 /\ i # 28 => pc' = "jump_ints" /\ i' = i + 1
      <4>1. /\ pc = "jump_ints" /\ LoadInt(JumpOrder)
            /\ i = 28 => pc' = "jump_to_core"
            /\ i # 28 => pc' = "jump_ints" /\ i' = i + 1
        BY <3>8 DEF JumpLoad
      <4>2. i \in 1..28 /\ x[2] = Ptr(lay.int_reg_cpt_addr)
            /\ \A k \in 1..i - 1 : x[JumpOrder[k]] = IntWord(JumpOrder[k])
        BY <2>1, <4>1 DEF IndexOK, IntOK
      <4>3. /\ \A k \in 1..28 : JumpOrder[k] \in 1..31 /\ JumpOrder[k] # 2
            /\ \A k \in 1..28 : k # i => JumpOrder[k] # JumpOrder[i]
        BY <3>1, <4>2
      <4>4. /\ \A r \in 1..31 : r # JumpOrder[i] => x'[r] = x[r]
            /\ x'[JumpOrder[i]] = IntWord(JumpOrder[i])
        BY <3>5, <4>1, <4>2, <4>3
      <4>5. x'[2] = Ptr(lay.int_reg_cpt_addr)
        BY <4>2, <4>3, <4>4
      <4>6. ASSUME NEW k \in 1..i
            PROVE  x'[JumpOrder[k]] = IntWord(JumpOrder[k])
        <5>1. k \in 1..28 /\ (k # i => k \in 1..i - 1)
          BY <4>2
        <5> QED
          BY <4>2, <4>3, <4>4, <5>1
      <4> QED
        BY <4>1, <4>2, <4>5, <4>6
    <3>9. ASSUME JumpToCore
          PROVE  /\ pc = "jump_to_core" /\ pc' = "slot" /\ i' = 1
                 /\ x'[2] = Ptr(lay.int_reg_cpt_addr)
                 /\ \A r \in 1..31 \ {2, 5, 6} : x'[r] = IntWord(r)
      <4>1. /\ pc = "jump_to_core" /\ pc' = "slot" /\ i' = 1
            /\ x' = [x EXCEPT ![5] = Ptr(SlotAddr(sc.cpu)), ![6] = Ptr(Core0)]
        BY <3>9 DEF JumpToCore
      <4>2. x[2] = Ptr(lay.int_reg_cpt_addr) /\ \A r \in 1..31 \ {2, 5, 6} : x[r] = IntWord(r)
        BY <2>1, <4>1 DEF IntOK
      <4> QED
        BY <3>2, <4>1, <4>2
    <3>10. ASSUME SlotLoad
           PROVE  /\ pc = "slot" /\ i \in 1..3
                  /\ i = 3 => pc' = "slot_jal" /\ \A r \in 1..31 : x'[r] = IntWord(r)
                  /\ i # 3 => /\ pc' = "slot" /\ i' = i + 1 /\ x'[2] = Ptr(lay.int_reg_cpt_addr)
                              /\ \A r \in 1..31 \ {2, 5, 6} : x'[r] = IntWord(r)
                  /\ i \in {1, 2} => x'[5] = IntWord(5)
                  /\ i = 2 => x'[6] = IntWord(6)
      <4>1. /\ pc = "slot" /\ LoadInt(SlotOrder)
            /\ i = 3 => pc' = "slot_jal"
            /\ i # 3 => pc' = "slot" /\ i' = i + 1
        BY <3>10 DEF SlotLoad
      <4>2. i \in 1..3
        BY <2>1, <4>1 DEF IndexOK
      <4>3. /\ x[2] = Ptr(lay.int_reg_cpt_addr)
            /\ \A r \in 1..31 \ {2, 5, 6} : x[r] = IntWord(r)
            /\ i > 1 => x[5] = IntWord(5)
            /\ i > 2 => x[6] = IntWord(6)
        BY <2>1, <4>1 DEF IntOK
      <4>4. /\ \A r \in 1..31 : r # SlotOrder[i] => x'[r] = x[r]
            /\ x'[SlotOrder[i]] = IntWord(SlotOrder[i])
        BY <3>1, <3>5, <4>1, <4>2, <4>3
      <4>5. CASE i = 1
        BY <3>1, <4>1, <4>3, <4>4, <4>5
      <4>6. CASE i = 2
        BY <3>1, <4>1, <4>3, <4>4, <4>6
      <4>7. CASE i = 3
        <5>1. \A r \in 1..31 : x'[r] = IntWord(r)
          BY <3>1, <4>3, <4>4, <4>7
        <5> QED
          BY <4>1, <4>7, <5>1
      <4> QED
        BY <4>2, <4>5, <4>6, <4>7
    <3>11. ASSUME Mret
           PROVE  pc = "mret_last" /\ \A r \in 1..31 : x'[r] = IntWord(r)
      <4>1. pc = "mret_last" /\ x' = [x EXCEPT ![2] = Load(x[2], 2 * 8)]
        BY <3>11 DEF Mret
      <4>2. x[2] = Ptr(lay.int_reg_cpt_addr) /\ \A r \in 1..31 \ {2} : x[r] = IntWord(r)
        BY <2>1, <4>1 DEF IntOK
      <4>3. Load(x[2], 2 * 8) = IntWord(2)
        BY <3>3, <4>2 DEF IntWord
      <4> QED
        BY <3>2, <4>1, <4>2, <4>3
    <3>12. pc' \in {"mret_ints", "mret_last", "jump_ints", "jump_to_core", "slot"} =>
             x'[2] = Ptr(lay'.int_reg_cpt_addr)
      <4>1. CASE UNCHANGED vars
        BY <2>1, <4>1 DEF IntOK
      <4>2. CASE ~UNCHANGED vars
        <5>1. ASSUME pc' \in {"mret_ints", "mret_last", "jump_ints", "jump_to_core", "slot"}
              PROVE  MoveSp \/ MretLoad \/ JumpLoad \/ JumpToCore \/ SlotLoad
          BY <2>4, <4>2, <5>1
        <5>2. MoveSp => pc \notin NoArea
          BY DEF MoveSp, NoArea
        <5>3. SlotLoad => pc' = "slot_jal" \/ x'[2] = Ptr(lay.int_reg_cpt_addr)
          BY <3>10
        <5> QED
          BY <3>4, <3>6, <3>7, <3>8, <3>9, <3>10, <5>1, <5>2, <5>3 DEF NoArea
      <4> QED
        BY <4>1, <4>2
    <3>13. pc' = "mret_ints" => \A k \in 1..i' - 1 : x'[MretOrder[k]] = IntWord(MretOrder[k])'
      <4>1. CASE MretLoad
        <5>1. pc' = "mret_ints" => i' = i + 1
          BY <3>7, <4>1
        <5> QED
          BY <2>16, <3>4, <3>7, <4>1, <5>1 DEF NoArea
      <4>2. CASE UNCHANGED vars
        BY <2>1, <4>2 DEF IntOK, IntWord
      <4> QED
        BY <2>4, <4>1, <4>2
    <3>14. pc' = "mret_last" => \A r \in 1..31 \ {2} : x'[r] = IntWord(r)'
      <4>1. CASE MretLoad
        <5>1. SUFFICES ASSUME pc' = "mret_last", NEW r \in 1..31 \ {2}
                       PROVE  x'[r] = IntWord(r)
          BY <3>4, <3>7, <4>1 DEF NoArea
        <5>2. i = 30
          BY <3>7, <4>1, <5>1
        <5>3. \E k \in 1..30 : MretOrder[k] = r
          <6>1. CASE r = 1
            BY <3>1, <6>1
          <6>2. CASE r # 1
            <7>1. r - 1 \in 1..30 /\ r - 1 # 1 /\ (r - 1) + 1 = r
              BY <6>2
            <7> QED
              BY <3>1, <7>1
          <6> QED
            BY <6>1, <6>2
        <5> QED
          BY <3>7, <4>1, <5>2, <5>3
      <4>2. CASE UNCHANGED vars
        BY <2>1, <4>2 DEF IntOK, IntWord
      <4> QED
        BY <2>4, <4>1, <4>2
    <3>15. pc' = "jump_ints" => \A k \in 1..i' - 1 : x'[JumpOrder[k]] = IntWord(JumpOrder[k])'
      <4>1. CASE JumpLoad
        <5>1. pc' = "jump_ints" => i' = i + 1
          BY <3>8, <4>1
        <5> QED
          BY <2>16, <3>4, <3>8, <4>1, <5>1 DEF NoArea
      <4>2. CASE UNCHANGED vars
        BY <2>1, <4>2 DEF IntOK, IntWord
      <4> QED
        BY <2>4, <4>1, <4>2
    <3>16. pc' \in {"jump_to_core", "slot"} => \A r \in 1..31 \ {2, 5, 6} : x'[r] = IntWord(r)'
      <4>1. CASE JumpLoad
        <5>1. SUFFICES ASSUME pc' \in {"jump_to_core", "slot"}, NEW r \in 1..31 \ {2, 5, 6}
                       PROVE  x'[r] = IntWord(r)
          BY <3>4, <3>8, <4>1 DEF NoArea
        <5>2. i = 28
          BY <3>8, <4>1, <5>1
        <5>3. \E k \in 1..28 : JumpOrder[k] = r
          <6>1. CASE r = 1
            BY <3>1, <6>1
          <6>2. CASE r \in {3, 4}
            <7>1. r - 1 \in {2, 3} /\ r - 1 \in 1..28 /\ (r - 1) + 1 = r
              BY <6>2
            <7> QED
              BY <3>1, <7>1
          <6>3. CASE r > 6
            <7>1. r - 3 > 3 /\ r - 3 \in 1..28 /\ (r - 3) + 3 = r
              BY <6>3
            <7> QED
              BY <3>1, <7>1
          <6> QED
            BY <6>1, <6>2, <6>3
        <5> QED
          BY <3>8, <4>1, <5>2, <5>3
      <4>2. CASE JumpToCore \/ SlotLoad
        <5>1. pc \notin NoArea
          BY <3>9, <3>10, <4>2 DEF NoArea
        <5>2. pc' \in {"jump_to_core", "slot"} => \A r \in 1..31 \ {2, 5, 6} : x'[r] = IntWord(r)
          BY <3>9, <3>10, <4>2
        <5> QED
          BY <3>4, <5>1, <5>2
      <4>3. CASE UNCHANGED vars
        BY <2>1, <4>3 DEF IntOK, IntWord
      <4> QED
        BY <2>4, <4>1, <4>2, <4>3
    <3>17. /\ pc' = "slot" /\ i' > 1 => x'[5] = IntWord(5)'
           /\ pc' = "slot" /\ i' > 2 => x'[6] = IntWord(6)'
      <4>1. CASE JumpToCore
        BY <3>9, <4>1
      <4>2. CASE SlotLoad
        <5>1. pc' = "slot" => i \in {1, 2} /\ i' = i + 1
          BY <3>10, <4>2
        <5> QED
          BY <3>4, <3>10, <4>2, <5>1 DEF NoArea
      <4>3. CASE UNCHANGED vars
        BY <2>1, <4>3 DEF IntOK, IntWord
      <4> QED
        BY <2>4, <4>1, <4>2, <4>3
    <3>18. pc' \in {"slot_jal", "left"} => \A r \in 1..31 : x'[r] = IntWord(r)'
      <4>1. CASE SlotLoad
        <5>1. pc' \in {"slot_jal", "left"} => i = 3
          BY <3>10, <4>1
        <5> QED
          BY <3>4, <3>10, <4>1, <5>1 DEF NoArea
      <4>2. CASE Mret
        BY <3>4, <3>11, <4>2 DEF NoArea
      <4>3. CASE SlotJal
        <5>1. pc = "slot_jal" /\ x' = x
          BY <4>3 DEF SlotJal
        <5> QED
          BY <2>1, <3>4, <5>1 DEF IntOK, NoArea
      <4>4. CASE UNCHANGED vars
        BY <2>1, <4>4 DEF IntOK, IntWord
      <4> QED
        BY <2>4, <4>1, <4>2, <4>3, <4>4
    <3> QED
      BY <3>12, <3>13, <3>14, <3>15, <3>16, <3>17, <3>18 DEF IntOK
  <2>26. JumpOK'
    <3>1. /\ PatchAddr(sc.cpu)' = PatchAddr(sc.cpu) /\ PatchFor(sc.distance)' = PatchFor(sc.distance)
          /\ IsValidImm(Signed(Offset(sc.distance)))' = IsValidImm(Signed(Offset(sc.distance)))
          /\ NearTarget' = NearTarget
      BY <2>2 DEF NearTarget
    <3>2. pc \notin Undecided => could' = could
      BY <2>3 DEF CheckpointExtCheck, Undecided, NoArea
    <3>3. pc' \notin Unpatched /\ could'.jump =>
            /\ patch' = [addr |-> PatchAddr(sc.cpu), word |-> PatchFor(sc.distance)]
            /\ IsValidImm(Signed(Offset(sc.distance)))
      <4>1. CASE NoJump
        BY <4>1 DEF NoJump
      <4>2. CASE PatchJal
        BY <4>2 DEF PatchJal
      <4>3. CASE pc \notin Unpatched
        <5>1. could' = could /\ patch' = patch
          BY <2>3, <3>2, <4>3 DEF PatchJal, Unpatched
        <5> QED
          BY <2>1, <4>3, <5>1 DEF JumpOK
      <4> QED
        BY <2>5, <4>1, <4>2, <4>3
    <3>4. (pc' \in MretPcs => ~could'.jump) /\ (pc' \in JumpPcs => could'.jump)
      <4>1. CASE PassBarrier
        BY <4>1 DEF PassBarrier, MretPcs, JumpPcs
      <4>2. pc \in MretPcs \cup JumpPcs => could' = could
        BY <3>2 DEF MretPcs, JumpPcs, Undecided, NoArea
      <4> QED
        BY <2>1, <2>6, <4>1, <4>2 DEF JumpOK
    <3>5. pc' = "bad_imm" => ~IsValidImm(Signed(Offset(sc.distance)))
      <4>1. CASE RejectTarget
        BY <4>1 DEF RejectTarget
      <4>2. CASE UNCHANGED vars
        BY <2>1, <4>2 DEF JumpOK
      <4> QED
        BY <2>4, <4>1, <4>2
    <3>6. ASSUME Mret
          PROVE  ~could'.jump /\ left' = [way |-> "mret", to |-> csr'[mepc]]
      <4>1. pc \in MretPcs /\ could' = could /\ csr' = csr
            /\ left' = [way |-> "mret", to |-> csr[mepc]]
        BY <3>6 DEF Mret, MretPcs
      <4> QED
        BY <2>1, <4>1 DEF JumpOK
    <3>7. ASSUME SlotJal
          PROVE  /\ could'.jump
                 /\ NearTarget => left' = [way |-> "jump", to |-> Ptr(PatchAddr(sc.cpu) + sc.distance)]
      <4>1. /\ pc = "slot_jal" /\ could' = could
            /\ left' = IF IsJal(Fetched)
                         THEN [way |-> "jump", to |-> Ptr(SlotAddr(sc.cpu) + 3 * 4 + JalDistance(Fetched))]
                         ELSE [way |-> "fell through", to |-> Ptr(SlotAddr(sc.cpu + 1))]
        BY <3>7 DEF SlotJal
      <4>2. /\ could.jump /\ IsValidImm(Signed(Offset(sc.distance)))
            /\ patch = [addr |-> PatchAddr(sc.cpu), word |-> PatchFor(sc.distance)]
        BY <2>1, <4>1 DEF JumpOK, JumpPcs, Unpatched, Undecided, NoArea
      <4>3. PatchAddr(sc.cpu) = SlotAddr(sc.cpu) + 3 * 4
        BY <2>10, ScenarioFacts, PatchesOwnSlot
      <4>4. Fetched = PatchFor(sc.distance)
        BY <4>2, <4>3 DEF Fetched
      <4>5. ASSUME NearTarget
            PROVE  IsJal(PatchFor(sc.distance)) /\ JalDistance(PatchFor(sc.distance)) = sc.distance
        <5>1. IsValidImm(sc.distance) /\ sc.distance \in Int /\ sc.distance % 2 = 0
          BY <2>10, <4>2, <4>5, ScenarioFacts DEF NearTarget
        <5> QED
          BY <5>1, JalReaches
      <4> QED
        BY <4>1, <4>2, <4>3, <4>4, <4>5
    <3>8. pc' = "left" =>
            IF could'.jump
              THEN NearTarget => left' = [way |-> "jump", to |-> Ptr(PatchAddr(sc.cpu) + sc.distance)]
              ELSE left' = [way |-> "mret", to |-> csr'[mepc]]
      <4>1. CASE Mret
        BY <3>6, <4>1
      <4>2. CASE SlotJal
        BY <3>7, <4>2
      <4>3. CASE UNCHANGED vars
        BY <2>1, <4>3 DEF JumpOK
      <4> QED
        BY <2>4, <4>1, <4>2, <4>3
    <3> QED
      BY <2>2, <3>1, <3>3, <3>4, <3>5, <3>8 DEF JumpOK
  <2>27. ShownOK'
    <3>1. pc \notin NoArea => Displayed' = Displayed
      <4>1. ASSUME lay' = lay PROVE Displayed' = Displayed
        BY <4>1 DEF Displayed, CsrWord
      <4> QED
        BY <2>17, <4>1
    <3>2. pc' \in NoArea \cup {"display"} => shown' = << >>
      <4>1. pc' \in NoArea \cup {"display"} => pc \in NoArea \cup {"display"} /\ ~Display
        BY <2>5 DEF Display, NoArea
      <4> QED
        BY <2>1, <2>3, <4>1 DEF ShownOK
    <3>3. pc' \notin NoArea \cup {"display"} => shown' = IF sc.display THEN Displayed' ELSE << >>
      <4>1. CASE Display
        <5>1. pc = "display" /\ shown' = IF sc.display THEN Displayed ELSE shown
          BY <4>1 DEF Display
        <5>2. shown = << >>
          BY <2>1, <5>1 DEF ShownOK
        <5> QED
          BY <3>1, <5>1, <5>2 DEF NoArea
      <4>2. CASE pc \notin NoArea \cup {"display"}
        <5>1. shown' = shown
          BY <2>3, <4>2 DEF Display
        <5> QED
          BY <2>1, <3>1, <4>2, <5>1 DEF ShownOK
      <4> QED
        BY <2>5, <4>1, <4>2
    <3>4. mtime' = Own \/ (pc' \notin NoArea /\ mtime' = Word(lay'.mtime_cpt_addr))
      <4>1. CASE PassBarrier
        <5>1. pc \notin NoArea /\ mtime' \in {mtime, Word(lay.mtime_cpt_addr)}
          BY <4>1 DEF PassBarrier, NoArea
        <5> QED
          BY <2>1, <2>5, <2>17, <5>1 DEF ShownOK
      <4>2. CASE mtime' = mtime
        BY <2>1, <2>5, <2>17, <4>2 DEF ShownOK
      <4> QED
        BY <2>3, <4>1, <4>2
    <3> QED
      BY <2>2, <3>2, <3>3, <3>4 DEF ShownOK
  <2>28. TypeOK'
    <3>1. sc' \in Scenarios
      BY <2>2, <2>10
    <3>2. lay' \in Layout
      <4>1. SelectArea => lay' = Area
        BY DEF SelectArea, Area
      <4> QED
        BY <2>1, <2>3, <2>10, <4>1 DEF TypeOK
    <3>3. could' \in [v : BOOLEAN, h : BOOLEAN, f : BOOLEAN, jump : BOOLEAN]
      <4>1. CASE CheckpointExtCheck
        <5>1. could' = [v |-> Both({"V"}) /\ IsOn(sc.vs), h |-> Both({"H"}) /\ sc.mpv,
                        f |-> Both({"D", "F"}) /\ IsOn(sc.fs), jump |-> sc.mode = 3]
          BY <4>1 DEF CheckpointExtCheck
        <5>2. /\ (Both({"V"}) /\ IsOn(sc.vs)) \in BOOLEAN /\ (Both({"H"}) /\ sc.mpv) \in BOOLEAN
              /\ (Both({"D", "F"}) /\ IsOn(sc.fs)) \in BOOLEAN /\ (sc.mode = 3) \in BOOLEAN
          OBVIOUS
        <5> QED
          BY <5>1, <5>2
      <4> QED
        BY <2>1, <2>3, <4>1 DEF TypeOK
    <3>4. patch' \in [addr : Nat, word : Int]
      <4>1. PatchAddr(sc.cpu) \in Nat /\ PatchFor(sc.distance) \in Int
        BY <2>10, ScenarioFacts
      <4>2. PatchJal => patch' = [addr |-> PatchAddr(sc.cpu), word |-> PatchFor(sc.distance)]
        BY DEF PatchJal
      <4>3. [addr |-> PatchAddr(sc.cpu), word |-> PatchFor(sc.distance)] \in [addr : Nat, word : Int]
        BY <4>1
      <4>4. patch \in [addr : Nat, word : Int]
        BY <2>1 DEF TypeOK
      <4> QED
        BY <2>3, <4>2, <4>3, <4>4
    <3>5. lay \in Layout /\ \A g \in Fields : lay[g] \in Nat
      BY <2>1 DEF TypeOK, Layout
    <3>6. /\ lay.int_reg_cpt_addr \in Nat /\ lay.float_reg_cpt_addr \in Nat
          /\ lay.vector_reg_cpt_addr \in Nat /\ lay.csr_reg_cpt_addr \in Nat
          /\ lay.mtime_cpt_addr \in Nat /\ lay.mtime_cmp_cpt_addr \in Nat
      BY <3>5 DEF Fields, Extent
    <3>7. /\ \A a \in Int : Word(a) \in Values /\ Ptr(a) \in Values
          /\ Own \in Values
      BY DEF Word, Ptr, Own, Values
    <3>8. \A c \in CsrIds \cup {fcsr} : CsrWord(c) \in Values
      <4>1. CsrIds \cup {fcsr} \subseteq Nat
        <5>1. InList(CSRS) \subseteq Nat /\ InList(HCSRS) \subseteq Nat
          <6>1. /\ \A k \in DOMAIN CSRS : CSRS[k] \in Nat
                /\ \A k \in DOMAIN HCSRS : HCSRS[k] \in Nat
            <7>1. CSRS \in Seq(Nat) /\ HCSRS \in Seq(Nat)
              BY CsrFacts
            <7> QED
              BY <7>1
          <6> QED
            BY <6>1 DEF InList
        <5>2. fflags \in Nat /\ vl \in Nat /\ vtype \in Nat /\ fcsr \in Nat
          BY CsrFacts
        <5> QED
          BY <5>1, <5>2 DEF CsrIds
      <4>2. ASSUME NEW c \in Nat
            PROVE  CsrWord(c) \in Values
        BY <3>6, <3>7 DEF CsrWord
      <4> QED
        BY <4>1, <4>2
    <3>9. x' \in [1..31 -> Values]
      <4>1. x \in [1..31 -> Values]
        BY <2>1 DEF TypeOK
      <4>2. ASSUME NEW value \in Values, NEW o \in Int
            PROVE  Load(value, o) \in Values
        <5>1. value[2] \in Int
          BY DEF Values
        <5>2. value[2] + o \in Int
          BY <5>1
        <5> QED
          BY <3>7, <5>2 DEF Load
      <4>3. ASSUME NEW order, LoadInt(order), order[i] \in 1..31
            PROVE  x' \in [1..31 -> Values]
        <5>1. x' = [x EXCEPT ![order[i]] = Load(x[2], order[i] * 8)]
          BY <4>3 DEF LoadInt
        <5>2. order[i] * 8 \in Int /\ x[2] \in Values
          BY <4>1, <4>3
        <5>3. Load(x[2], order[i] * 8) \in Values
          BY <4>2, <5>2
        <5> QED
          BY <4>1, <5>1, <5>3
      <4>4. CASE MoveSp
        BY <3>6, <3>7, <4>1, <4>4 DEF MoveSp
      <4>5. CASE MretLoad
        <5>1. LoadInt(MretOrder) /\ i \in 1..30
          BY <2>1, <4>5 DEF MretLoad, IndexOK
        <5>2. MretOrder[i] \in 1..31
          BY <5>1 DEF MretOrder
        <5> QED
          BY <4>3, <5>1, <5>2
      <4>6. CASE JumpLoad
        <5>1. LoadInt(JumpOrder) /\ i \in 1..28
          BY <2>1, <4>6 DEF JumpLoad, IndexOK
        <5>2. JumpOrder[i] \in 1..31
          BY <5>1 DEF JumpOrder
        <5> QED
          BY <4>3, <5>1, <5>2
      <4>7. CASE SlotLoad
        <5>1. LoadInt(SlotOrder) /\ i \in 1..3
          BY <2>1, <4>7 DEF SlotLoad, IndexOK
        <5>2. SlotOrder[i] \in 1..31
          BY <5>1 DEF SlotOrder
        <5> QED
          BY <4>3, <5>1, <5>2
      <4>8. CASE Mret
        <5>1. x' = [x EXCEPT ![2] = Load(x[2], 2 * 8)]
          BY <4>8 DEF Mret
        <5>2. 2 * 8 \in Int /\ x[2] \in Values
          BY <4>1
        <5>3. Load(x[2], 2 * 8) \in Values
          BY <4>2, <5>2
        <5> QED
          BY <4>1, <5>1, <5>3
      <4>9. CASE JumpToCore
        <5>1. x' = [x EXCEPT ![5] = Ptr(SlotAddr(sc.cpu)), ![6] = Ptr(Core0)]
          BY <4>9 DEF JumpToCore
        <5>2. SlotAddr(sc.cpu) \in Int /\ Core0 \in Int
          BY <2>10, ScenarioFacts, Core0Assumption, SMT DEF SlotAddr, SlotSize
        <5> QED
          BY <3>7, <4>1, <5>1, <5>2
      <4> QED
        BY <2>3, <4>1, <4>4, <4>5, <4>6, <4>7, <4>8, <4>9
    <3>10. v' \in [0..31 -> Values]
      <4>1. ASSUME RvvLoad
            PROVE  v' = [v EXCEPT ![i - 1] = Word(lay.vector_reg_cpt_addr + 16 * (i - 1))]
        BY <4>1 DEF RvvLoad
      <4>2. Word(lay.vector_reg_cpt_addr + 16 * (i - 1)) \in Values
        BY <2>16, <3>6, <3>7
      <4> QED
        BY <2>1, <2>3, <4>1, <4>2 DEF TypeOK
    <3>11. f' \in [0..31 -> Values]
      <4>1. ASSUME FloatLoad
            PROVE  f' = [f EXCEPT ![i - 1] = Word(lay.float_reg_cpt_addr + (i - 1) * 8)]
        BY <4>1 DEF FloatLoad
      <4>2. Word(lay.float_reg_cpt_addr + (i - 1) * 8) \in Values
        BY <2>16, <3>6, <3>7
      <4> QED
        BY <2>1, <2>3, <4>1, <4>2 DEF TypeOK
    <3>12. csr' \in [CsrIds -> Values]
      <4>1. ASSUME NEW w \in CsrIds, CsrsRestore(w)
            PROVE  csr' \in [CsrIds -> Values]
        <5>1. csr' = csr \/ csr' = [csr EXCEPT ![w] = CsrWord(w)]
          BY <4>1 DEF CsrsRestore
        <5> QED
          BY <2>16, <3>8, <5>1
      <4>2. CASE RvhCsrRestore
        BY <2>15, <2>19, <4>1, <4>2 DEF RvhCsrRestore
      <4>3. CASE RestoreCsrVector
        BY <2>15, <2>20, <4>1, <4>3 DEF RestoreCsrVector
      <4>4. CASE RvvOn
        <5>1. csr' = [csr EXCEPT ![vl] = CsrWord(vl), ![vtype] = CsrWord(vtype)]
          BY <4>4 DEF RvvOn
        <5> QED
          BY <2>15, <2>16, <3>8, <5>1
      <4>5. CASE RestoreFcsr
        <5>1. csr' = [csr EXCEPT ![fflags] = CsrWord(fcsr), ![frm] = CsrWord(fcsr)]
          BY <4>5 DEF RestoreFcsr
        <5> QED
          BY <2>15, <2>16, <3>8, <5>1
      <4> QED
        BY <2>3, <2>16, <4>2, <4>3, <4>4, <4>5
    <3>13. fs' \in 0..3 /\ vs' \in 0..3 /\ saved' \in [fs : 0..3, vs : 0..3]
      <4>1. fs \in 0..3 /\ vs \in 0..3 /\ saved \in [fs : 0..3, vs : 0..3]
        BY <2>1 DEF TypeOK
      <4>2. /\ HostFs(3) \in 0..3 /\ HostVs(3) \in 0..3
            /\ HostFs(sc.fs) \in 0..3 /\ HostVs(sc.vs) \in 0..3
        BY <2>10, ScenarioFacts, StatusFacts
      <4>3. saved.fs \in 0..3 /\ saved.vs \in 0..3
        BY <4>1
      <4>4. fs' \in {fs, saved.fs, HostFs(3), HostFs(sc.fs)}
        BY <2>3 DEF RvhCsrRestore, RestoreCsrVector, CsrsRestore, FloatOn, FloatOff, RvvOff, FcsrOn
      <4>5. vs' \in {vs, saved.vs, HostVs(3), HostVs(sc.vs)}
        BY <2>3 DEF RvhCsrRestore, RestoreCsrVector, CsrsRestore, RvvOn, RvvOff, FloatOff
      <4>6. saved' \in {saved, [fs |-> fs, vs |-> vs]}
        BY <2>3 DEF RvvOn, FloatOn
      <4>7. [fs |-> fs, vs |-> vs] \in [fs : 0..3, vs : 0..3]
        BY <4>1
      <4> QED
        BY <4>1, <4>2, <4>3, <4>4, <4>5, <4>6, <4>7
    <3>14. mtime' \in Values /\ mtimecmp' \in Values
      <4>1. Word(lay.mtime_cpt_addr) \in Values
        BY <3>6, <3>7
      <4>2. Word(lay.mtime_cmp_cpt_addr + sc.cpu * 8) \in Values
        BY <2>10, <3>6, <3>7, ScenarioFacts
      <4>3. PassBarrier => mtime' \in {mtime, Word(lay.mtime_cpt_addr)}
        BY DEF PassBarrier
      <4>4. RestoreMtimeCmp => mtimecmp' = Word(lay.mtime_cmp_cpt_addr + sc.cpu * 8)
        BY DEF RestoreMtimeCmp
      <4> QED
        BY <2>1, <2>3, <4>1, <4>2, <4>3, <4>4 DEF TypeOK
    <3>15. shown' \in {<< >>, Displayed'}
      BY <2>27 DEF ShownOK
    <3>16. left'.way \in {"not yet", "mret", "jump", "fell through"} /\ left'.to \in Values
      <4>1. CASE Mret
        <5>1. left' = [way |-> "mret", to |-> csr[mepc]]
          BY <4>1 DEF Mret
        <5> QED
          BY <2>15, <2>16, <5>1
      <4>2. CASE SlotJal
        <5>1. Fetched \in Int
          <6>1. patch \in [addr : Nat, word : Int]
            BY <2>1 DEF TypeOK
          <6>2. patch.word \in Int
            BY <6>1
          <6>3. NOP \in Int
            BY DEF NOP
          <6> QED
            BY <6>2, <6>3 DEF Fetched
        <5>2. JalDistance(Fetched) \in Int
          <6> DEFINE word == Fetched
          <6>1. word \in Int
            BY <5>1
          <6> HIDE DEF word
          <6>2. JalDistance(word) \in Int
            BY <6>1, SMT DEF JalDistance, ImmBound
          <6> QED
            BY <6>2 DEF word
        <5>3. SlotAddr(sc.cpu) \in Int /\ SlotAddr(sc.cpu + 1) \in Int
          BY <2>10, ScenarioFacts, Core0Assumption, SMT DEF SlotAddr, SlotSize
        <5>4. \/ left' = [way |-> "jump", to |-> Ptr(SlotAddr(sc.cpu) + 3 * 4 + JalDistance(Fetched))]
              \/ left' = [way |-> "fell through", to |-> Ptr(SlotAddr(sc.cpu + 1))]
          BY <4>2 DEF SlotJal
        <5>5. SlotAddr(sc.cpu) + 3 * 4 + JalDistance(Fetched) \in Int
          BY <5>2, <5>3
        <5>6. /\ Ptr(SlotAddr(sc.cpu) + 3 * 4 + JalDistance(Fetched)) \in Values
              /\ Ptr(SlotAddr(sc.cpu + 1)) \in Values
          BY <3>7, <5>3, <5>5
        <5>7. CASE left' = [way |-> "jump", to |-> Ptr(SlotAddr(sc.cpu) + 3 * 4 + JalDistance(Fetched))]
          BY <5>6, <5>7
        <5>8. CASE left' = [way |-> "fell through", to |-> Ptr(SlotAddr(sc.cpu + 1))]
          BY <5>6, <5>8
        <5> QED
          BY <5>4, <5>7, <5>8
      <4> QED
        BY <2>1, <2>3, <4>1, <4>2 DEF TypeOK
    <3> QED
      BY <2>7, <2>9, <3>1, <3>2, <3>3, <3>4, <3>9, <3>10, <3>11, <3>12, <3>13, <3>14, <3>15, <3>16
        DEF TypeOK
  <2> QED
    BY <2>9, <2>11, <2>12, <2>13, <2>14, <2>23, <2>24, <2>25, <2>26, <2>27, <2>28 DEF IInv
<1> QED
  BY <1>1, <1>2, PTL DEF Spec

-----------------------------------------------------------------------------
(* What follows from the invariant.                                        *)

(* The variables of a restore keep their types.                            *)
THEOREM TypeCorrect == Spec => []TypeOK
<1>1. IInv => TypeOK
  BY DEF IInv
<1> QED
  BY <1>1, Invariance, PTL

(* A hart leaves with all integer registers of its own area, and with the  *)
(* float and vector registers and csrs that the checkpoint and the machine *)
(* have (restore.S:21-309).                                                *)
THEOREM RegistersRestored ==
  Spec => [](IntRegsRestored /\ FloatVectorRestored /\ CsrsRestored)
<1>1. ASSUME IInv PROVE IntRegsRestored /\ FloatVectorRestored /\ CsrsRestored
  <2> SUFFICES ASSUME pc = "left" PROVE IntRegsRestored /\ FloatVectorRestored /\ CsrsRestored
    BY DEF IntRegsRestored, FloatVectorRestored, CsrsRestored, Resumed
  <2>1. TypeOK /\ AreaOK /\ StatusOK /\ VectorOK /\ FloatOK /\ CsrOK /\ IntOK
    BY <1>1 DEF IInv
  <2>2. /\ lay = Area
        /\ could = [v |-> HasVector, h |-> Both({"H"}) /\ sc.mpv, f |-> HasFloat, jump |-> sc.mode = 3]
    BY <2>1 DEF AreaOK, Undecided, NoArea
  <2>3. sc \in Scenarios
    BY <2>1 DEF TypeOK
  <2>4. ASSUME NEW g \in Fields, NEW o \in Int
        PROVE  At(g, o) = Word(lay[g] + o)
    <3> DEFINE offset == sc.cpu * HeaderOf[sc.config].single_core_size
               cpt == HeaderOf[sc.config].cpt_offset
               place == LayoutOf[sc.config][g]
    <3>1. offset \in Nat /\ cpt \in Nat /\ sc.start \in Nat
      BY <2>3, ScenarioFacts
    <3>2. place \in Nat
      BY <2>3, ScenarioFacts DEF Layout
    <3>3. lay[g] = place + (offset + (sc.start + cpt))
      BY <2>2 DEF Area, GetCoreMemlayout, HartOffset
    <3>4. At(g, o) = Word(sc.start + cpt + offset + place + o)
      BY DEF At
    <3> HIDE DEF offset, cpt, place
    <3>5. lay[g] + o = sc.start + cpt + offset + place + o
      BY <3>1, <3>2, <3>3
    <3> QED
      BY <3>4, <3>5
  <2>5. /\ "int_reg_cpt_addr" \in Fields /\ "float_reg_cpt_addr" \in Fields
        /\ "vector_reg_cpt_addr" \in Fields /\ "csr_reg_cpt_addr" \in Fields
    BY DEF Fields, Extent
  <2>6. /\ \A r \in 1..31 : IntWord(r) = At("int_reg_cpt_addr", r * 8)
        /\ \A r \in 0..31 : FloatWord(r) = At("float_reg_cpt_addr", r * 8)
        /\ \A r \in 0..31 : VectorWord(r) = At("vector_reg_cpt_addr", r * 16)
        /\ \A c \in Nat : CsrWord(c) = At("csr_reg_cpt_addr", c * 8)
    <3>1. ASSUME NEW r \in Nat
          PROVE  /\ IntWord(r) = At("int_reg_cpt_addr", r * 8)
                 /\ FloatWord(r) = At("float_reg_cpt_addr", r * 8)
                 /\ VectorWord(r) = At("vector_reg_cpt_addr", r * 16)
                 /\ CsrWord(r) = At("csr_reg_cpt_addr", r * 8)
      <4>1. r * 8 \in Int /\ r * 16 \in Int /\ 16 * r = r * 16 /\ 8 * r = r * 8
        OBVIOUS
      <4> QED
        BY <2>4, <2>5, <4>1 DEF IntWord, FloatWord, VectorWord, CsrWord
    <3> QED
      BY <3>1
  <2>7. "left" \in AfterCsr /\ "left" \in AfterF /\ "left" \in AfterV /\ "left" \in AfterH
    BY DEF AfterCsr, AfterF, AfterV, AfterH
  <2>8. IntRegsRestored
    BY <2>1, <2>6 DEF IntRegsRestored, IntOK
  <2>9. FloatVectorRestored
    <3>1. vl \in Nat /\ vtype \in Nat
      BY CsrFacts
    <3>2. HasFloat => \A r \in 0..31 : f[r] = FloatWord(r)
      BY <2>1, <2>2, <2>7 DEF FloatOK
    <3>3. HasVector => \A r \in 0..31 : v[r] = VectorWord(r)
      BY <2>1, <2>2, <2>7 DEF VectorOK
    <3>4. HasVector => csr[vl] = CsrWord(vl) /\ csr[vtype] = CsrWord(vtype)
      BY <2>1, <2>2, <2>7 DEF CsrOK
    <3> QED
      BY <2>6, <3>1, <3>2, <3>3, <3>4 DEF FloatVectorRestored
  <2>10. CsrsRestored
    <3>1. CSRS \in Seq(Nat) /\ HCSRS \in Seq(Nat) /\ fcsr \in Nat
      BY CsrFacts
    <3>2. \A c \in InList(CSRS) : ~Frozen(c) => csr[c] = CsrWord(c) /\ c \in Nat
      <4>1. \A k \in DOMAIN CSRS : CSRS[k] \in Nat /\ (~Frozen(CSRS[k]) => csr[CSRS[k]] = CsrWord(CSRS[k]))
        BY <2>1, <2>7, <3>1 DEF CsrOK
      <4> QED
        BY <4>1 DEF InList
    <3>3. sc.mpv /\ Both({"H"}) => \A c \in InList(HCSRS) : csr[c] = CsrWord(c) /\ c \in Nat
      <4>1. could.h => \A k \in DOMAIN HCSRS : HCSRS[k] \in Nat /\ csr[HCSRS[k]] = CsrWord(HCSRS[k])
        BY <2>1, <2>7, <3>1 DEF CsrOK
      <4>2. sc.mpv /\ Both({"H"}) => could.h
        BY <2>2
      <4> QED
        BY <4>1, <4>2 DEF InList
    <3>4. csr[fflags] = CsrWord(fcsr)
      BY <2>1, <2>7 DEF CsrOK
    <3>5. fs = HostFs(sc.fs) /\ vs = HostVs(sc.vs)
      BY <2>1, <2>7 DEF StatusOK
    <3> QED
      BY <2>6, <3>1, <3>2, <3>3, <3>4, <3>5 DEF CsrsRestored
  <2> QED
    BY <2>8, <2>9, <2>10
<1> QED
  BY <1>1, Invariance, PTL

(* It leaves to the pc of the checkpoint: by mret, or by the jal that was  *)
(* patched into its own slot (decode_restore.c:229-255, restore.S:253-309).*)
THEOREM TargetReached == Spec => []ReachesTarget
<1>1. ASSUME IInv, CsrsRestored PROVE ReachesTarget
  <2>1. TypeOK /\ AreaOK /\ JumpOK
    BY <1>1 DEF IInv
  <2>2. pc = "left" \/ pc = "bad_imm" => sc.distance \in Int /\ sc.distance % 2 = 0
    BY <2>1, ScenarioFacts DEF TypeOK
  <2>3. ASSUME pc = "left"
        PROVE  IF sc.mode = 3
                 THEN NearTarget => left = [way |-> "jump", to |-> Ptr(PatchAddr(sc.cpu) + sc.distance)]
                 ELSE left = [way |-> "mret", to |-> At("csr_reg_cpt_addr", mepc * 8)]
    <3>1. could.jump = (sc.mode = 3)
      BY <2>1, <2>3 DEF AreaOK, Undecided, NoArea
    <3>2. mepc \in InList(CSRS) /\ ~Frozen(mepc)
      <4>1. /\ mepc \in InList(CSRS) /\ pmpaddr0 \in Nat
            /\ mepc \notin pmpaddr0 - 1 .. pmpaddr0 + 15
        BY CsrFacts
      <4>2. sc.locked \subseteq 0..15
        BY <2>1, ScenariosAssumption DEF TypeOK, Scenario
      <4>3. ASSUME NEW e \in sc.locked
            PROVE  mepc # pmpaddr0 + e /\ mepc # pmpaddr0 + e - 1
        BY <4>1, <4>2
      <4> QED
        BY <4>1, <4>3 DEF Frozen
    <3>3. csr[mepc] = At("csr_reg_cpt_addr", mepc * 8)
      BY <1>1, <2>3, <3>2 DEF CsrsRestored, Resumed
    <3> QED
      BY <2>1, <2>3, <3>1, <3>3 DEF JumpOK
  <2>4. pc = "bad_imm" => ~IsValidImm(sc.distance)
    BY <2>1, <2>2, JalReaches DEF JumpOK
  <2> QED
    BY <2>3, <2>4 DEF ReachesTarget, Resumed
<1> QED
  BY <1>1, Invariance, RegistersRestored, PTL

(* A machine with the extensions of the checkpoint restores without a      *)
(* trap; on another one, the trap is taken by the restorer's own handler   *)
(* (restore.S:21-215).                                                     *)
THEOREM TrapsBehave == Spec => [](SupportedNeverTraps /\ TrapsAreReported)
<1>1. IInv => SupportedNeverTraps /\ TrapsAreReported
  BY DEF IInv, TrapOK, SupportedNeverTraps, TrapsAreReported, AfterCsr, MretPcs, JumpPcs
<1> QED
  BY <1>1, Invariance, PTL

(* What --display-cpu printed is what the hart leaves with                 *)
(* (decode_restore.c:144-190).                                             *)
THEOREM DisplayIsTrue == Spec => []DisplayAgrees
<1>1. ASSUME IInv PROVE DisplayAgrees
  <2> SUFFICES ASSUME pc = "left", sc.display
               PROVE  /\ \A r \in 1..31 : x[r] = shown.int[r]
                      /\ \A r \in 0..31 : f[r] # Own => f[r] = shown.float[r]
                      /\ \A r \in 0..31 : v[r] # Own => v[r] = shown.vector[r]
                      /\ \A c \in CsrIds \ {fflags} : csr[c] # Own => csr[c] = shown.csr[c]
                      /\ mtime # Own => mtime = shown.mtime
    BY DEF DisplayAgrees, Resumed
  <2>1. TypeOK /\ VectorOK /\ FloatOK /\ CsrOK /\ IntOK /\ ShownOK
    BY <1>1 DEF IInv
  <2>2. shown = Displayed
    BY <2>1 DEF ShownOK, NoArea
  <2>3. /\ \A r \in 0..31 : shown.int[r] = IntWord(r)
        /\ \A r \in 0..31 : shown.float[r] = FloatWord(r)
        /\ \A r \in 0..31 : shown.vector[r] = Word(lay.vector_reg_cpt_addr + (2 * r) * 8)
        /\ \A c \in CsrIds : shown.csr[c] = CsrWord(c)
        /\ shown.mtime = Word(lay.mtime_cpt_addr)
    BY <2>2 DEF Displayed, IntWord, FloatWord
  <2>4. \A r \in 0..31 : shown.vector[r] = VectorWord(r)
    <3>1. \A r \in 0..31 : (2 * r) * 8 = 16 * r
      OBVIOUS
    <3> QED
      BY <2>3, <3>1 DEF VectorWord
  <2>5. csr[frm] = CsrWord(frm)
    <3>1. /\ frm \in InList(CSRS) /\ pmpaddr0 \in Nat
          /\ frm \notin pmpaddr0 - 1 .. pmpaddr0 + 15
      BY CsrFacts
    <3>2. sc.locked \subseteq 0..15
      BY <2>1, ScenariosAssumption DEF TypeOK, Scenario
    <3>3. ASSUME NEW e \in sc.locked
          PROVE  frm # pmpaddr0 + e /\ frm # pmpaddr0 + e - 1
      BY <3>1, <3>2
    <3>4. ~Frozen(frm)
      BY <3>1, <3>3 DEF Frozen
    <3>5. PICK k \in DOMAIN CSRS : CSRS[k] = frm
      BY <3>1 DEF InList
    <3> QED
      BY <2>1, <3>4, <3>5 DEF CsrOK, AfterCsr
  <2>6. \A r \in 1..31 : x[r] = shown.int[r]
    BY <2>1, <2>3 DEF IntOK
  <2>7. \A r \in 0..31 : f[r] # Own => f[r] = shown.float[r]
    BY <2>1, <2>3 DEF FloatOK
  <2>8. \A r \in 0..31 : v[r] # Own => v[r] = shown.vector[r]
    BY <2>1, <2>4 DEF VectorOK
  <2>9. \A c \in CsrIds \ {fflags} : csr[c] # Own => csr[c] = shown.csr[c]
    BY <2>1, <2>3, <2>5 DEF CsrOK
  <2>10. mtime # Own => mtime = shown.mtime
    BY <2>1, <2>3 DEF ShownOK
  <2> QED
    BY <2>6, <2>7, <2>8, <2>9, <2>10
<1> QED
  BY <1>1, Invariance, PTL
=============================================================================
