----------------------------- MODULE MemLayout ------------------------------
(***************************************************************************)
(* Where the state of a hart lies in memory: the layouts of a checkpoint,  *)
(* the area of each hart, the magic number and the stacks.  An address is  *)
(* a number of bytes; a pointer the code dereferences is 8-byte aligned.   *)
(***************************************************************************)
EXTENDS Integers

CONSTANTS
  MemoryBase,   \* the first address of memory, 0x80000000
  FlashBase,    \* the first address of the flash, 0x10000000
  GcptStack     \* the address of gcpt_stack

ASSUME BasesAssumption == MemoryBase \in Nat /\ FlashBase \in Nat /\ GcptStack \in Nat

MaxHarts == 128
StackSize == 4096
MiB == 1048576

(* The fields of single_core_rvgc_rvv_rvh_memlayout, each the address of a *)
(* part of a hart's area, and how many bytes of that part the restorer     *)
(* reads: 32 integer and float registers, 4096 csrs, 32 vector registers   *)
(* of 16 bytes; a word of the others.                                      *)
Extent ==
  [magic_number_cpt_addr |-> 8, pc_cpt_addr |-> 8, mode_cpt_addr |-> 8,
   mtime_cpt_addr |-> 8, mtime_cmp_cpt_addr |-> 8, misc_done_cpt_addr |-> 8,
   misc_reserve |-> 8, int_reg_cpt_addr |-> 32 * 8, int_reg_done |-> 8,
   float_reg_cpt_addr |-> 32 * 8, float_reg_done |-> 8,
   csr_reg_cpt_addr |-> 4096 * 8, csr_reg_done |-> 8, csr_reserve |-> 8,
   vector_reg_cpt_addr |-> 32 * 16, vector_reg_done |-> 8]

Fields == DOMAIN Extent

Layout == [Fields -> Nat]

(* The layout of a single-core checkpoint: what default_rvgc_v_h_memlayout *)
(* gives as addresses, relative to the start of memory.                    *)
default_qemu_memlayout ==
  [magic_number_cpt_addr |-> \hECDB0, pc_cpt_addr |-> \hECDB8,
   mode_cpt_addr |-> \hECDC0, mtime_cpt_addr |-> \hECDC8,
   mtime_cmp_cpt_addr |-> \hECDD0, misc_done_cpt_addr |-> \hECDD8,
   misc_reserve |-> \hECDE0, int_reg_cpt_addr |-> \hEDDE0,
   int_reg_done |-> \hEDEE0, float_reg_cpt_addr |-> \hEDEE8,
   float_reg_done |-> \hEDFE8, csr_reg_cpt_addr |-> \hEDFF0,
   csr_reg_done |-> \hF5FF0, csr_reserve |-> \hF5FF8,
   vector_reg_cpt_addr |-> \hFDFF8, vector_reg_done |-> \hFFFF8]

(* The layout taken for a missing one, at absolute addresses.              *)
default_rvgc_v_h_memlayout ==
  [f \in Fields |-> MemoryBase + default_qemu_memlayout[f]]

(* The header and the layout that this repository offers to the programs   *)
(* that write multi-core checkpoints.                                      *)
multicore_default_header ==
  [cpt_offset |-> 8 * 5 + 8 * 16, single_core_size |-> 1 * MiB]

default_multicore_layout ==
  [magic_number_cpt_addr |-> \h0, pc_cpt_addr |-> \h8, mode_cpt_addr |-> \h10,
   mtime_cpt_addr |-> \h18, mtime_cmp_cpt_addr |-> \h20,
   misc_done_cpt_addr |-> \h28, misc_reserve |-> \h30,
   int_reg_cpt_addr |-> \h1000, int_reg_done |-> \h1128,
   float_reg_cpt_addr |-> \h1130, float_reg_done |-> \h1230,
   csr_reg_cpt_addr |-> \h1238, csr_reg_done |-> \h9238, csr_reserve |-> \h9240,
   vector_reg_cpt_addr |-> \h11240, vector_reg_done |-> \h13240]

(* set_checkpoint_header.                                                  *)
Header(cpt_offset, single_core_size) ==
  [cpt_offset |-> cpt_offset, single_core_size |-> single_core_size]

(* What a build takes for header and layout.  The default configuration    *)
(* decodes them from its start address; here, what such a stream may hold. *)
Configs == {"bare_metal", "dual_core", "default"}

HeaderOf ==
  [bare_metal |-> Header(0, MiB), dual_core |-> Header(\h300000, MiB),
   default |-> multicore_default_header]

LayoutOf ==
  [bare_metal |-> default_qemu_memlayout, dual_core |-> default_qemu_memlayout,
   default |-> default_multicore_layout]

(* The start of the area of hart cpu.                                      *)
HartOffset(base, size, cpu) == cpu * size + base

(* get_core_memlayout: the layout of hart cpu, at absolute addresses.      *)
GetCoreMemlayout(base, size, cpu, layout) ==
  [f \in Fields |-> layout[f] + HartOffset(base, size, cpu)]

(* The image whose magic number a restorer at start checks: the decoder    *)
(* reads it from start_address, check_magic_number from memory.            *)
MagicBase(start, config) == IF config = "default" THEN start ELSE MemoryBase

(* The bytes of a hart's area that belong to field f.                      *)
Span(layout, f) == layout[f] .. layout[f] + Extent[f] - 1

(* A layout keeps its fields apart and inside of an area of this size.     *)
FitsArea(layout, size) ==
  /\ \A f \in Fields : layout[f] + Extent[f] <= size
  /\ \A f, g \in Fields :
       f # g => layout[f] + Extent[f] <= layout[g] \/ layout[g] + Extent[g] <= layout[f]

(* The stack of a hart: it grows down from StackTop to the stack before.   *)
StackTop(mhartid) == GcptStack + mhartid * StackSize + StackSize
Stack(mhartid) == StackTop(mhartid) - StackSize .. StackTop(mhartid) - 1
StackSpace == GcptStack .. GcptStack + MaxHarts * StackSize - 1
=============================================================================
