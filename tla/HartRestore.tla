---------------------------- MODULE HartRestore -----------------------------
(***************************************************************************)
(* The restore of one hart, from the choice of its area to the instruction *)
(* that leaves the restorer (src/gcpt.c, src/decode_restore.c,             *)
(* src/restore.S): one action per register or csr that is written.  What   *)
(* the harts share, the barrier, is one step here and in full in Restorer. *)
(*                                                                         *)
(* A register holds the word of memory it was loaded from, Word(address),  *)
(* an address the restorer works with, Ptr(address), or something of the   *)
(* restorer's own.  A status field FS or VS is 0 (off), 1 (initial), 2     *)
(* (clean) or 3 (dirty).                                                   *)
(***************************************************************************)
EXTENDS MemLayout, JalPatch, Sequences

CONSTANT
  Scenarios  \* builds, checkpoints and hosts: a set of Scenario records

(* config, start, display: the build, its place and --display-cpu; cpu:    *)
(* the hart; magic: the images that hold a checkpoint; misa, fs, vs, mpv,  *)
(* mode: of the checkpoint; distance: from the hart's jal to its pc;       *)
(* locked, tor: the pmp entries that it locks, and those in mode TOR;      *)
(* host, stateen, vlenb: misa, Smstateen and the bytes of a vector         *)
(* register of the machine; fs0, vs0: its status at reset.                 *)
Scenario ==
  [config : Configs, start : {MemoryBase, FlashBase}, display : BOOLEAN,
   cpu : 0..MaxHarts - 1, magic : SUBSET {MemoryBase, FlashBase},
   misa : SUBSET {"D", "F", "V", "H"}, fs : 0..3, vs : 0..3, mpv : BOOLEAN,
   mode : {0, 1, 3}, distance : {d \in Int : d % 2 = 0}, locked : SUBSET (0..15), tor : SUBSET (0..15),
   host : SUBSET {"D", "F", "V", "H"}, stateen : BOOLEAN, vlenb : {16, 32},
   fs0 : 0..3, vs0 : 0..3]

(* Instructions are at even addresses.                                     *)
ASSUME ScenariosAssumption == Scenarios \subseteq Scenario

VARIABLES
  sc,        \* the scenario; it never changes
  pc,        \* the part of the restore the hart is in
  i,         \* and the place there
  lay,       \* multi_core_mem_layout, the area of the hart
  could,     \* what checkpoint_ext_check has found
  patch,     \* the instruction that was patched in, and where
  x, f, v,   \* the integer, float and vector registers
  csr,       \* the csrs
  fs, vs,    \* mstatus.FS and mstatus.VS, live
  saved,     \* t3: mstatus before V or F was turned on
  mtime,     \* mtime of the machine
  mtimecmp,  \* and mtimecmp of the hart
  shown,     \* what display_checkpoint_registers printed
  left       \* how and where to the hart left

found  == <<lay, could>>
regs   == <<x, f, v, csr>>
status == <<fs, vs, saved>>
timers == <<mtime, mtimecmp>>
vars   == <<sc, pc, i, found, patch, regs, status, timers, shown, left>>

Word(a) == <<"word", a>>
Ptr(a)  == <<"ptr", a>>
Own     == <<"own", 0>>

(* ld of the word at `offset' from what a register holds.                  *)
Load(value, offset) == IF value[1] = "ptr" THEN Word(value[2] + offset) ELSE Own

(* Faulty: mtvec is written first.                                         *)
CSRS_MtvecFirst ==
  << \h305, \h002, \h30a, \h30c, \h30d, \h30e, \h30f, \h300, \h302, \h303,
     \h304, \h306, \h340, \h341, \h342, \h343, \h344, \h3a0, \h3a2,
     \h3b0, \h3b1, \h3b2, \h3b3, \h3b4, \h3b5, \h3b6, \h3b7,
     \h3b8, \h3b9, \h3ba, \h3bb, \h3bc, \h3bd, \h3be, \h3bf,
     \h105, \h106, \h140, \h141, \h142, \h143, \h10a,
     \h10c, \h10d, \h10e, \h10f, \h180 >>

(* CSRS, HCSRS: the csrs in the order they are written.  frm comes first,  *)
(* mstatus after frm, menvcfg and mstateen*.                               *)
CSRS ==
  << \h002, \h30a, \h30c, \h30d, \h30e, \h30f, \h300, \h302, \h303,
     \h304, \h305, \h306, \h340, \h341, \h342, \h343, \h344, \h3a0, \h3a2,
     \h3b0, \h3b1, \h3b2, \h3b3, \h3b4, \h3b5, \h3b6, \h3b7,
     \h3b8, \h3b9, \h3ba, \h3bb, \h3bc, \h3bd, \h3be, \h3bf,
     \h105, \h106, \h140, \h141, \h142, \h143, \h10a,
     \h10c, \h10d, \h10e, \h10f, \h180 >>

HCSRS ==
  << \h600, \h602, \h603, \h604, \h606, \h607, \h643, \h644, \h645, \h64a, \h60a,
     \h60c, \h60d, \h60e, \h60f, \h680, \h605, \h200, \h204, \h205, \h240, \h241,
     \h242, \h243, \h244, \h280, \h34b, \h34a >>

fflags == \h001
frm == \h002
fcsr == \h003
mstatus == \h300
mtvec == \h305
mepc == \h341
vl == \hc20
vtype == \hc21
pmpaddr0 == \h3b0
pmpaddr15 == \h3bf
PmpAddrs == pmpaddr0 .. pmpaddr15
PmpCfg(e) == IF e < 8 THEN \h3a0 ELSE \h3a2
Stateens == (\h30c .. \h30f) \cup (\h10c .. \h10f) \cup (\h60c .. \h60f)

InList(list) == {list[k] : k \in DOMAIN list}
CsrIds == InList(CSRS) \cup InList(HCSRS) \cup {fflags, vl, vtype}

(* Where the area holds csr c.                                             *)
CsrWord(c) == Word(lay.csr_reg_cpt_addr + 8 * c)

HostHasFloat == sc.host \cap {"D", "F"} # {}

(* The fields FS and VS exist with their extension only.                   *)
HostFs(s) == IF HostHasFloat THEN s ELSE 0
HostVs(s) == IF "V" \in sc.host THEN s ELSE 0

Init ==
  /\ sc \in Scenarios
  /\ pc = "select"
  /\ i = 1
  /\ lay = [g \in Fields |-> 0]
  /\ could = [v |-> FALSE, h |-> FALSE, f |-> FALSE, jump |-> FALSE]
  /\ patch = [addr |-> 0, word |-> NOP]
  /\ x = [r \in 1..31 |-> Own]
  /\ f = [r \in 0..31 |-> Own]
  /\ v = [r \in 0..31 |-> Own]
  /\ csr = [c \in CsrIds |-> Own]
  /\ fs = HostFs(sc.fs0)
  /\ vs = HostVs(sc.vs0)
  /\ saved = [fs |-> 0, vs |-> 0]
  /\ mtime = Own
  /\ mtimecmp = Own
  /\ shown = << >>
  /\ left = [way |-> "not yet", to |-> Own]

Goto(from, to) == pc = from /\ pc' = to /\ i' = 1

(* One more of the n registers of this part, the last of which ends it.    *)
Advance(n, next) ==
  /\ pc' = IF i = n THEN next ELSE pc
  /\ i' = IF i = n THEN 1 ELSE i + 1

-----------------------------------------------------------------------------
(* gcpt_c_start and multicore_decode_restore: the area of the hart.        *)

HasCheckpoint == MagicBase(sc.start, sc.config) \in sc.magic

BootPayload ==
  /\ ~HasCheckpoint
  /\ Goto("select", "payload")
  /\ UNCHANGED <<sc, found, patch, regs, status, timers, shown, left>>

SelectArea ==
  /\ HasCheckpoint
  /\ Goto("select", "display")
  /\ lay' = GetCoreMemlayout(sc.start + HeaderOf[sc.config].cpt_offset,
                             HeaderOf[sc.config].single_core_size, sc.cpu, LayoutOf[sc.config])
  /\ UNCHANGED <<sc, could, patch, regs, status, timers, shown, left>>

(* Faulty: the halves of a vector register are taken for two registers.    *)
Displayed_HalfVectors ==
  [int |-> [r \in 0..31 |-> Word(lay.int_reg_cpt_addr + r * 8)],
   float |-> [r \in 0..31 |-> Word(lay.float_reg_cpt_addr + r * 8)],
   vector |-> [r \in 0..31 |-> Word(lay.vector_reg_cpt_addr + r * 8)],
   csr |-> [c \in CsrIds |-> CsrWord(c)],
   mtime_cmp |-> Word(lay.mtime_cmp_cpt_addr),
   mtime |-> Word(lay.mtime_cpt_addr)]

(* display_checkpoint_registers; a csr is printed only if it is not 0.     *)
Displayed ==
  [int |-> [r \in 0..31 |-> Word(lay.int_reg_cpt_addr + r * 8)],
   float |-> [r \in 0..31 |-> Word(lay.float_reg_cpt_addr + r * 8)],
   vector |-> [r \in 0..31 |-> Word(lay.vector_reg_cpt_addr + (2 * r) * 8)],
   csr |-> [c \in CsrIds |-> CsrWord(c)],
   mtime_cmp |-> Word(lay.mtime_cmp_cpt_addr),
   mtime |-> Word(lay.mtime_cpt_addr)]

Display ==
  /\ Goto("display", "check")
  /\ shown' = IF sc.display THEN Displayed ELSE shown
  /\ UNCHANGED <<sc, found, patch, regs, status, timers, left>>

-----------------------------------------------------------------------------
(* checkpoint_ext_check.                                                   *)

(* Faulty: the test for clean is missing.                                  *)
IsOn_NotClean(s) == s % 2 = 1 \/ s = 3

(* The tests of the bits of initial, clean and dirty.                      *)
IsOn(s) == s % 2 = 1 \/ s \div 2 = 1 \/ s = 3

Both(ext) == sc.misa \cap ext # {} /\ sc.host \cap ext # {}

CheckpointExtCheck ==
  /\ Goto("check", "patch")
  /\ could' = [v |-> Both({"V"}) /\ IsOn(sc.vs),
               h |-> Both({"H"}) /\ sc.mpv,
               f |-> Both({"D", "F"}) /\ IsOn(sc.fs),
               jump |-> sc.mode = 3]
  /\ UNCHANGED <<sc, lay, patch, regs, status, timers, shown, left>>

-----------------------------------------------------------------------------
(* The jal of an M-mode checkpoint.                                        *)

NoJump ==
  /\ ~could.jump
  /\ Goto("patch", "h")
  /\ UNCHANGED <<sc, found, patch, regs, status, timers, shown, left>>

PatchJal ==
  /\ could.jump /\ IsValidImm(Signed(Offset(sc.distance)))
  /\ Goto("patch", "h")
  /\ patch' = [addr |-> PatchAddr(sc.cpu), word |-> PatchFor(sc.distance)]
  /\ UNCHANGED <<sc, found, regs, status, timers, shown, left>>

RejectTarget ==
  /\ could.jump /\ ~IsValidImm(Signed(Offset(sc.distance)))
  /\ Goto("patch", "bad_imm")
  /\ UNCHANGED <<sc, found, patch, regs, status, timers, shown, left>>

-----------------------------------------------------------------------------
(* Csr writes.                                                             *)

(* Entry e is locked once pmpcfg says so.                                  *)
Locked(e) == e \in sc.locked /\ csr[PmpCfg(e)] = CsrWord(PmpCfg(e))

(* A locked entry ignores writes of its address, and one in mode TOR those *)
(* of the address before it.                                               *)
Ignored(c) ==
  /\ c \in PmpAddrs
  /\ \/ Locked(c - pmpaddr0)
     \/ c # pmpaddr15 /\ Locked(c - pmpaddr0 + 1) /\ c - pmpaddr0 + 1 \in sc.tor

(* The write raises no exception on this machine.                          *)
Writable(c) ==
  /\ c = frm => fs # 0
  /\ c \in Stateens => sc.stateen
  /\ c \in InList(HCSRS) => "H" \in sc.host

(* Faulty: the bits of mstatus are set, not written.                       *)
CsrsRestore_SetBits(c) ==
  /\ csr' = IF Ignored(c) THEN csr ELSE [csr EXCEPT ![c] = CsrWord(c)]
  /\ IF c = mstatus THEN fs' = HostFs(IF fs > sc.fs THEN fs ELSE sc.fs) /\ UNCHANGED vs
                    ELSE UNCHANGED <<fs, vs>>

(* CSRS_RESTORE.                                                           *)
CsrsRestore(c) ==
  /\ csr' = IF Ignored(c) THEN csr ELSE [csr EXCEPT ![c] = CsrWord(c)]
  /\ IF c = mstatus THEN fs' = HostFs(sc.fs) /\ vs' = HostVs(sc.vs) ELSE UNCHANGED <<fs, vs>>

(* rvh_csr_restore.                                                        *)
RvhCsrRestore ==
  /\ pc = "h" /\ could.h
  /\ Writable(HCSRS[i])
  /\ CsrsRestore(HCSRS[i])
  /\ Advance(Len(HCSRS), "v_on")
  /\ UNCHANGED <<sc, found, patch, x, f, v, saved, timers, shown, left>>

NoRvh ==
  /\ ~could.h
  /\ Goto("h", "v_on")
  /\ UNCHANGED <<sc, found, patch, regs, status, timers, shown, left>>

-----------------------------------------------------------------------------
(* rvv_restore.                                                            *)

NoRvv ==
  /\ ~could.v
  /\ Goto("v_on", "f_on")
  /\ UNCHANGED <<sc, found, patch, regs, status, timers, shown, left>>

(* Turn VS on and set vl and vtype.                                        *)
RvvOn ==
  /\ could.v
  /\ Goto("v_on", "v")
  /\ saved' = [fs |-> fs, vs |-> vs]
  /\ vs' = HostVs(3)
  /\ csr' = [csr EXCEPT ![vl] = CsrWord(vl), ![vtype] = CsrWord(vtype)]
  /\ UNCHANGED <<sc, found, patch, x, f, v, fs, timers, shown, left>>

(* vl1re64.v: 16 bytes on, whatever the length of a register is.           *)
RvvLoad ==
  /\ pc = "v" /\ vs # 0
  /\ v' = [v EXCEPT ![i - 1] = Word(lay.vector_reg_cpt_addr + 16 * (i - 1))]
  /\ Advance(32, "v_off")
  /\ UNCHANGED <<sc, found, patch, x, f, csr, status, timers, shown, left>>

RvvOff ==
  /\ Goto("v_off", "f_on")
  /\ fs' = saved.fs /\ vs' = saved.vs
  /\ UNCHANGED <<sc, found, patch, regs, saved, timers, shown, left>>

(* restore_float_vector.                                                   *)

NoFloat ==
  /\ ~could.f
  /\ Goto("f_on", "fcsr_on")
  /\ UNCHANGED <<sc, found, patch, regs, status, timers, shown, left>>

FloatOn ==
  /\ could.f
  /\ Goto("f_on", "f")
  /\ saved' = [fs |-> fs, vs |-> vs]
  /\ fs' = HostFs(3)
  /\ UNCHANGED <<sc, found, patch, regs, vs, timers, shown, left>>

FloatLoad ==
  /\ pc = "f" /\ fs # 0 /\ "D" \in sc.host
  /\ f' = [f EXCEPT ![i - 1] = Word(lay.float_reg_cpt_addr + (i - 1) * 8)]
  /\ Advance(32, "f_off")
  /\ UNCHANGED <<sc, found, patch, x, v, csr, status, timers, shown, left>>

FloatOff ==
  /\ Goto("f_off", "fcsr_on")
  /\ fs' = saved.fs /\ vs' = saved.vs
  /\ UNCHANGED <<sc, found, patch, regs, saved, timers, shown, left>>

-----------------------------------------------------------------------------
(* restore_csr_vector.                                                     *)

(* Faulty: FS is left as it is.                                            *)
FcsrOn_NotTurnedOn ==
  /\ Goto("fcsr_on", "fcsr")
  /\ UNCHANGED <<sc, found, patch, regs, status, timers, shown, left>>

(* Faulty: FS is added to what is there.                                   *)
FcsrOn_Adds ==
  /\ Goto("fcsr_on", "fcsr")
  /\ fs' = HostFs(fs + 3)
  /\ UNCHANGED <<sc, found, patch, regs, vs, saved, timers, shown, left>>

FcsrOn ==
  /\ Goto("fcsr_on", "fcsr")
  /\ fs' = HostFs(3)
  /\ UNCHANGED <<sc, found, patch, regs, vs, saved, timers, shown, left>>

(* fcsr holds fflags and frm.                                              *)
RestoreFcsr ==
  /\ fs # 0
  /\ Goto("fcsr", "csr")
  /\ csr' = [csr EXCEPT ![fflags] = CsrWord(fcsr), ![frm] = CsrWord(fcsr)]
  /\ UNCHANGED <<sc, found, patch, x, f, v, status, timers, shown, left>>

RestoreCsrVector ==
  /\ pc = "csr"
  /\ Writable(CSRS[i])
  /\ CsrsRestore(CSRS[i])
  /\ Advance(Len(CSRS), "mtimecmp")
  /\ UNCHANGED <<sc, found, patch, x, f, v, saved, timers, shown, left>>

(* An instruction of these loops that the machine does not implement.      *)
Trap ==
  /\ \/ pc = "h" /\ could.h /\ ~Writable(HCSRS[i])
     \/ pc = "v" /\ vs = 0
     \/ pc = "f" /\ (fs = 0 \/ "D" \notin sc.host)
     \/ pc = "fcsr" /\ fs = 0
     \/ pc = "csr" /\ ~Writable(CSRS[i])
  /\ pc' = "trapped"
  /\ UNCHANGED <<sc, i, found, patch, regs, status, timers, shown, left>>
-----------------------------------------------------------------------------
(* The timers and the barrier.                                             *)

(* mtimecmp of the hart; its number is added to the source as well as to   *)
(* the destination.                                                        *)
RestoreMtimeCmp ==
  /\ Goto("mtimecmp", "barrier")
  /\ mtimecmp' = Word(lay.mtime_cmp_cpt_addr + sc.cpu * 8)
  /\ UNCHANGED <<sc, found, patch, regs, status, mtime, shown, left>>

(* The hart is the last one and restores mtime, or it is not.              *)
PassBarrier ==
  /\ Goto("barrier", IF could.jump THEN "jump_sp" ELSE "mret_sp")
  /\ mtime' \in {mtime, Word(lay.mtime_cpt_addr)}
  /\ UNCHANGED <<sc, found, patch, regs, status, mtimecmp, shown, left>>

-----------------------------------------------------------------------------
(* restore_int_vector_mret: x1, x3 to x31, then sp, through which all are  *)
(* loaded.                                                                 *)
MretOrder == [k \in 1..30 |-> IF k = 1 THEN 1 ELSE k + 1]

LoadInt(order) ==
  /\ x' = [x EXCEPT ![order[i]] = Load(x[2], order[i] * 8)]
  /\ UNCHANGED <<sc, found, patch, f, v, csr, status, timers, shown, left>>

(* mv sp, a0                                                               *)
MoveSp ==
  /\ Goto("mret_sp", "mret_ints") \/ Goto("jump_sp", "jump_ints")
  /\ x' = [x EXCEPT ![2] = Ptr(lay.int_reg_cpt_addr)]
  /\ UNCHANGED <<sc, found, patch, f, v, csr, status, timers, shown, left>>

MretLoad ==
  /\ pc = "mret_ints"
  /\ LoadInt(MretOrder)
  /\ Advance(30, "mret_last")

(* ld sp, 16(sp); mret                                                     *)
Mret ==
  /\ Goto("mret_last", "left")
  /\ x' = [x EXCEPT ![2] = Load(x[2], 2 * 8)]
  /\ left' = [way |-> "mret", to |-> csr[mepc]]
  /\ UNCHANGED <<sc, found, patch, f, v, csr, status, timers, shown>>

-----------------------------------------------------------------------------
(* restore_int_vector_jump: t0 and t1, which are x5 and x6, are still      *)
(* needed for the way to the slot.                                         *)
JumpOrder == [k \in 1..28 |-> IF k = 1 THEN 1 ELSE IF k < 4 THEN k + 1 ELSE k + 3]

JumpLoad ==
  /\ pc = "jump_ints"
  /\ LoadInt(JumpOrder)
  /\ Advance(28, "jump_to_core")

(* t0 and t1 hold mhartid * 16 and core0 on the way to the slot.           *)
JumpToCore ==
  /\ Goto("jump_to_core", "slot")
  /\ x' = [x EXCEPT ![5] = Ptr(SlotAddr(sc.cpu)), ![6] = Ptr(Core0)]
  /\ UNCHANGED <<sc, found, patch, f, v, csr, status, timers, shown, left>>

(* Faulty: sp is loaded before x5 and x6.                                  *)
SlotOrder_SpFirst == <<2, 5, 6>>

(* The loads of a slot.                                                    *)
SlotOrder == <<5, 6, 2>>

SlotLoad ==
  /\ pc = "slot"
  /\ LoadInt(SlotOrder)
  /\ Advance(3, "slot_jal")

(* The word behind the loads.                                              *)
Fetched ==
  IF patch.addr = SlotAddr(sc.cpu) + 3 * 4 THEN patch.word ELSE NOP

(* A slot that is not patched falls through to the next one.               *)
SlotJal ==
  /\ Goto("slot_jal", "left")
  /\ left' = IF IsJal(Fetched)
               THEN [way |-> "jump", to |-> Ptr(SlotAddr(sc.cpu) + 3 * 4 + JalDistance(Fetched))]
               ELSE [way |-> "fell through", to |-> Ptr(SlotAddr(sc.cpu + 1))]
  /\ UNCHANGED <<sc, found, patch, regs, status, timers, shown>>

-----------------------------------------------------------------------------
FinalPcs == {"payload", "bad_imm", "trapped", "left"}

(* The hart is out of the restorer, or nemu_signal has stopped it.         *)
Finished == pc \in FinalPcs /\ UNCHANGED vars

Next ==
  \/ BootPayload \/ SelectArea \/ Display \/ CheckpointExtCheck
  \/ NoJump \/ PatchJal \/ RejectTarget
  \/ RvhCsrRestore \/ NoRvh \/ NoRvv \/ RvvOn \/ RvvLoad \/ RvvOff
  \/ NoFloat \/ FloatOn \/ FloatLoad \/ FloatOff
  \/ FcsrOn \/ RestoreFcsr \/ RestoreCsrVector \/ Trap
  \/ RestoreMtimeCmp \/ PassBarrier
  \/ MoveSp \/ MretLoad \/ Mret \/ JumpLoad \/ JumpToCore \/ SlotLoad \/ SlotJal
  \/ Finished

Spec == Init /\ [][Next]_vars

-----------------------------------------------------------------------------
(* Properties.                                                             *)

Values == {"word", "ptr", "own"} \X Int

Pcs == FinalPcs \cup
  {"select", "display", "check", "patch", "h", "v_on", "v", "v_off", "f_on", "f", "f_off",
   "fcsr_on", "fcsr", "csr", "mtimecmp", "barrier", "mret_sp", "mret_ints", "mret_last",
   "jump_sp", "jump_ints", "jump_to_core", "slot", "slot_jal"}

TypeOK ==
  /\ sc \in Scenarios
  /\ pc \in Pcs
  /\ i \in Nat \ {0}
  /\ lay \in Layout
  /\ could \in [v : BOOLEAN, h : BOOLEAN, f : BOOLEAN, jump : BOOLEAN]
  /\ patch \in [addr : Nat, word : Int]
  /\ x \in [1..31 -> Values]
  /\ f \in [0..31 -> Values]
  /\ v \in [0..31 -> Values]
  /\ csr \in [CsrIds -> Values]
  /\ fs \in 0..3 /\ vs \in 0..3 /\ saved \in [fs : 0..3, vs : 0..3]
  /\ mtime \in Values /\ mtimecmp \in Values
  /\ shown \in {<< >>, Displayed}
  /\ left.way \in {"not yet", "mret", "jump", "fell through"} /\ left.to \in Values

(* The word `offset' bytes into a field of the hart's area, which starts   *)
(* behind the areas of the harts before it.                                *)
At(field, offset) ==
  LET header == HeaderOf[sc.config] IN
  Word(sc.start + header.cpt_offset + sc.cpu * header.single_core_size
         + LayoutOf[sc.config][field] + offset)

Resumed == pc = "left"

HasFloat == sc.fs # 0 /\ Both({"D", "F"})

HasVector == sc.vs # 0 /\ Both({"V"})

(* The area that a hart restores belongs to the image whose magic number   *)
(* was checked (gcpt.c:118-124), as README.md:26 has it of a dual-core     *)
(* checkpoint, "with serialized data at 0x80300000~0x80800000".            *)
RestoresWhatItChecked ==
  Resumed =>
    lay = GetCoreMemlayout(MagicBase(sc.start, sc.config) + HeaderOf[sc.config].cpt_offset,
                           HeaderOf[sc.config].single_core_size, sc.cpu, LayoutOf[sc.config])

(* The hart leaves with all integer registers of its own area: none is     *)
(* still needed for the way out when it is loaded, or clobbered on it      *)
(* (restore.S:217-309).                                                    *)
IntRegsRestored ==
  Resumed => \A r \in 1..31 : x[r] = At("int_reg_cpt_addr", r * 8)

(* ... with the float and the vector registers, if the checkpoint has them *)
(* on in any of the states initial, clean and dirty, and the machine has   *)
(* them; vector registers of 16 bytes (decode_restore.c:84-104).           *)
FloatVectorRestored ==
  Resumed =>
    /\ HasFloat => \A r \in 0..31 : f[r] = At("float_reg_cpt_addr", r * 8)
    /\ HasVector /\ sc.vlenb = 16 =>
         /\ \A r \in 0..31 : v[r] = At("vector_reg_cpt_addr", r * 16)
         /\ \A c \in {vl, vtype} : csr[c] = At("csr_reg_cpt_addr", c * 8)

(* The address of a pmp entry that is locked, or of the one before in      *)
(* front of a locked TOR: pmpcfg is in place before they are written.      *)
Frozen(c) ==
  \E e \in sc.locked : c = pmpaddr0 + e \/ (e \in sc.tor /\ c = pmpaddr0 + e - 1)

(* ... with every csr of the lists in its own place, except those, the H   *)
(* csrs of a guest included, and with FS and VS of the checkpoint, which   *)
(* the restorer has turned on and off in between.                          *)
CsrsRestored ==
  Resumed =>
    /\ \A c \in InList(CSRS) : ~Frozen(c) => csr[c] = At("csr_reg_cpt_addr", c * 8)
    /\ csr[fflags] = At("csr_reg_cpt_addr", fcsr * 8)
    /\ sc.mpv /\ Both({"H"}) =>
         \A c \in InList(HCSRS) : csr[c] = At("csr_reg_cpt_addr", c * 8)
    /\ fs = HostFs(sc.fs) /\ vs = HostVs(sc.vs)

(* A target is at its distance from the jal, or out of reach of `offset'.  *)
NearTarget == Signed(Offset(sc.distance)) = sc.distance

(* The hart leaves to the checkpoint's pc, with mret to the restored mepc  *)
(* or with the jal of its own slot, and no target in reach of a jal is     *)
(* refused (decode_restore.c:229-255, restore.S:253-309).                  *)
ReachesTarget ==
  /\ Resumed =>
       IF sc.mode = 3
         THEN NearTarget => left = [way |-> "jump", to |-> Ptr(PatchAddr(sc.cpu) + sc.distance)]
         ELSE left = [way |-> "mret", to |-> At("csr_reg_cpt_addr", mepc * 8)]
  /\ pc = "bad_imm" => ~IsValidImm(sc.distance)

(* The machine has the extensions of the checkpoint, and those that the    *)
(* restorer uses without asking: double floats and Smstateen.              *)
Supports == sc.misa \subseteq sc.host /\ "D" \in sc.host /\ sc.stateen

(* Such a machine restores without a trap, whatever FS and VS are in the   *)
(* checkpoint and at reset: both are on whenever they are needed.          *)
SupportedNeverTraps == Supports => pc # "trapped"

(* An instruction that another machine does not implement traps while      *)
(* mtvec is still the restorer's, so that its handler reports it.          *)
TrapsAreReported == pc = "trapped" => csr[mtvec] = Own

(* What --display-cpu prints of a register is what the hart leaves with    *)
(* (decode_restore.c:144-190).                                             *)
DisplayAgrees ==
  Resumed /\ sc.display =>
    /\ \A r \in 1..31 : x[r] = shown.int[r]
    /\ \A r \in 0..31 : f[r] # Own => f[r] = shown.float[r]
    /\ \A r \in 0..31 : v[r] # Own => v[r] = shown.vector[r]
    /\ \A c \in CsrIds \ {fflags} : csr[c] # Own => csr[c] = shown.csr[c]
    /\ mtime # Own => mtime = shown.mtime

(* ... and what it prints as "mtime_cmp registers memory"                  *)
(* (decode_restore.c:184) is what mtimecmp of the hart gets.               *)
MtimecmpAsDisplayed ==
  Resumed /\ sc.display => mtimecmp = shown.mtime_cmp
=============================================================================
