------------------------------ MODULE JalPatch ------------------------------
(***************************************************************************)
(* The jal that takes a hart of an M-mode checkpoint to its program, and   *)
(* the slot it is written into (src/decode_restore.c, src/restore.S).  A   *)
(* 32-bit instruction word is the signed number with these bits.           *)
(***************************************************************************)
EXTENDS Integers

CONSTANTS
  OffsetModulus,  \* 2^32: what the width of `offset' can hold
  Core0           \* the address of the slot core0

(* `offset' is wider than the immediate of a jal.                          *)
ASSUME OffsetAssumption == OffsetModulus \in Nat \ {0} /\ OffsetModulus % 2097152 = 0
ASSUME Core0Assumption == Core0 \in Nat

MaxSlots == 128
SlotSize == 16
ImmBound == 1048576   \* 1 << 20
NOP == 19             \* 0x00000013
Opcode == 111         \* 0b1101111, jal

(* The distance of target and jal as `offset' holds it, and as the int32_t *)
(* that is_valid_imm takes.                                                *)
Offset(distance) == distance % OffsetModulus

Signed(offset) ==
  IF 2 * offset >= OffsetModulus THEN offset - OffsetModulus ELSE offset

IsValidImm(imm) == imm >= -ImmBound /\ imm < ImmBound

(* (offset >> 1) & 0xFFFFF                                                 *)
Halved(offset) == (offset \div 2) % ImmBound

(* The word of the bit fields of JalInstr, the first of them lowest.       *)
PackJal(imm_20, imm_10_1, imm_11, imm_19_12, rd, opcode) ==
  opcode + rd * 128 + imm_19_12 * 4096 + imm_11 * 1048576 + imm_10_1 * 2097152
    + imm_20 * ((-1073741824) * 2)

(* Faulty: imm[11] and imm[12] are swapped.                                *)
GenerateJal_FieldOrder(imm, rd) ==
  PackJal((imm \div 524288) % 2, imm % 1024, (imm \div 2048) % 2, (imm \div 1024) % 256,
          rd, Opcode)

GenerateJal(imm, rd) ==
  PackJal((imm \div 524288) % 2, imm % 1024, (imm \div 1024) % 2, (imm \div 2048) % 256,
          rd, Opcode)

(* The instruction patched in for a target at this distance.               *)
PatchFor(distance) == GenerateJal(Halved(Offset(distance)), 0)

(* How a hart reads the word: J format, immediate imm[20|10:1|11|19:12].   *)
IsJal(word) == word % 128 = Opcode
LinkRegister(word) == (word \div 128) % 32
JalDistance(word) ==
  ((word \div 2097152) % 1024) * 2 + ((word \div 1048576) % 2) * 2048
    + ((word \div 4096) % 256) * 4096 - (IF word < 0 THEN ImmBound ELSE 0)

(* jump_to_core: the slot of a hart.                                       *)
SlotAddr(mhartid) == Core0 + mhartid * SlotSize

(* pc += 3 * (cpu_id + 1) + cpu_id, a pointer to words of 4 bytes.         *)
PatchAddr(cpu_id) == Core0 + 4 * (3 * (cpu_id + 1) + cpu_id)

(* The words of a slot by their place in it: ld x5, ld x6, ld sp, nop.     *)
PlaceInSlot(addr, mhartid) == (addr - SlotAddr(mhartid)) \div 4
=============================================================================
