# LibCheckpoint in TLA+

LibCheckpoint is the restorer of "rvgcpt" checkpoints: a bare-metal RISC-V
program that runs on every hart (core) of a machine at reset, reads an
architectural state that a simulator left in memory, loads it into the
registers and csrs of the harts, and jumps into the checkpointed program.
Without a checkpoint it boots a payload. This directory holds TLA+ modules of
the harts together, of the restore of one hart, register by register, and of
`printf`; the TLC configurations that check them on small instances; and proofs,
checked with TLAPS, that hold for any number of harts and any checkpoint. Paths are
relative to the root of the repository; where only a file name is given the
file is in `src/` or `include/`.

## The system

| component | files | state | operations |
|---|---|---|---|
| reset entry | boot.S, restore.lds | sp, ra, `read_complete_flag` | `boot_check`, `_entry`, `before_boot_payload`, `payload_bin` |
| boot rendezvous, path selection | gcpt.c, utils.c | `bss_lock`, all of .bss | `gcpt_c_start`, `clear_bss`, the decoders, `check_magic_number` |
| spin lock | spinlock.h | the word of a `spinlock_t` | `spinlock_lock`, `spinlock_trylock`, `spinlock_unlock` |
| locked output | utils.c | `mt_printf_lock` | `mt_printf` |
| restore driver and barrier | decode_restore.c | `globash_restore_lock`, `global_atomic_restore_counter`, `release_restore`, mtime | `multicore_decode_restore`, `single_core_rvv_rvh_rvgc_restore` |
| register and csr restore | restore.S, csr.h | registers and csrs of one hart | `restore_csr_vector`, `rvh_csr_restore`, `rvv_restore`, `restore_float_vector`, `restore_int_vector_*` |
| jal patching | decode_restore.c, restore.S | the slots `core0` .. `core127` | `generate_jal`, `is_valid_imm`, `jump_to_core` |
| memory layouts | cpt_default_values.h, decode_restore.c, gcpt.c | none | `get_core_memlayout`, `set_checkpoint_header` |
| trap handling | gcpt_trap.c, trap.S | mtvec, mstatus.MIE | `enable_gcpt_trap`, `disable_gcpt_trap`, `gcpt_trap_handler` |
| register display | decode_restore.c | none | `display_checkpoint_registers` |
| checkpoint schema | checkpoint.proto, checkpoint.pb.h | the area of a hart | decoded by nanopb |
| printf | printf.c, printf.h | the output of one call | `printf_`, `snprintf_`, `fctprintf`, ..., `_vsnprintf` |
| encodings, build | encoding.h, bits.h, Makefile, configure, restore.lds | none | |

The harts share memory only. Hart 0 clears .bss and sets `bss_lock`, for which
the others wait; each prints, enables its trap handler and decodes the
checkpoint's header. A hart with a checkpoint restores its own csrs from its own
area, takes `globash_restore_lock`, counts itself, prints (which takes
`mt_printf_lock` too), and waits for `release_restore`, unless it finds itself
the last one: then it sets `release_restore`, writes the machine timer, and
leaves. Traps go to the restorer's handler until the checkpoint's mtvec is
written. Nothing is persistent and there are no messages; the failures are
exceptions of csr writes, interrupts that the checkpoint's own csrs enable, a
jump target out of reach, a hart that is built to stop, a count of harts that
does not fit the machine, and, without a payload, the re-entry of
`gcpt_c_start`.

What is hard to get right, in the order of its weight (`PROJECT.json`,
"hazards", has each with its line):

- the barrier: who is last, what the released harts may rely on, who waits for
  ever if one hart never arrives;
- the locks live in the memory that hart 0 is clearing;
- the lock is test-and-test-and-set, and a losing swap overwrites its word;
- a trap or an interrupt with a lock held, or after mtvec has been replaced;
- the return of `gcpt_c_start` into its own call;
- one hart's restore: the order of csrs, which extensions are on, which
  registers are still needed; the arithmetic of the patched jal and of the
  addresses;
- printf's two buffers: a number is put together backwards in 32 characters
  on the stack, and the text is cut to the caller's memory.

What makes the components correct: the lock excludes and its word is exact;
.bss is cleared before anybody uses it; no arrival is lost; nobody is released
before all harts have restored their state; the timer is written once; everybody
leaves if everybody can, and the simulator is told if somebody cannot; a hart
ends with the checkpoint's csrs and registers; a jal goes where it should; the
areas, slots and stacks of two harts are disjoint; what is displayed is what is
restored; printf stays inside its buffers and puts out what the format says.

## The modules

| module | what it is |
|---|---|
| `Mutex` | what a lock promises: one process inside, and somebody gets in |
| `SpinLock` | `spinlock_t` (spinlock.h), one step per access to the word; implements `Mutex` |
| `RestoreContract` | what the restorer promises: nobody resumes before all are ready, the timer is set once |
| `Restorer` | all harts from `gcpt_c_start` to the checkpointed program; implements `RestoreContract`, and its two locks implement `SpinLock` |
| `MemLayout` | the layouts of a checkpoint, the area of each hart, the magic number, the stacks |
| `JalPatch` | the jal of an M-mode checkpoint, how a hart reads it, and the slots it is written to |
| `HartRestore` | the restore of one hart, one action per register and csr; extends `MemLayout` and `JalPatch` |
| `Printf` | one call of printf, one action per piece of the format, beside what the C standard says of it |
| `MCRestorer`, `MCHartRestore`, `MCPrintf` | machines, checkpoints, builds and calls for TLC |
| `SpinLockProofs`, `RestorerProofs`, `LayoutProofs`, `HartRestoreProofs`, `PrintfProofs` | theorems about the module of that name, for any constants |
| `RestorerRefinement` | `Restorer` implements `RestoreContract`, and its locks `SpinLock`: proofs |
| `PrintfNumbers` | the text of integers and pointers in `Printf` is the standard's: proofs |
| `Induction` | induction and recursive functions, for the loops of printf: proofs |

`Restorer` and `HartRestore` meet at the barrier. `Restorer` has every access to
shared memory and folds what a hart does alone into the step before or after;
`HartRestore` has every register and folds the barrier into `PassBarrier`.
`fault` and `badImm` of a checkpoint in `Restorer` are what `Trap` and
`RejectTarget` of `HartRestore` come to, and that a fault before mtvec is
replaced is reported (`TrapsAreReported`) is what `Restorer` supposes of it.

### State and code

`Restorer` has one action per access to shared memory; what a hart does between
two such accesses (its csrs, its stack, its area of the checkpoint) belongs to
the action before or after. All shared words are accessed with `__ATOMIC_SEQ_CST`
operations, amo instructions or between fences, so that an interleaving of the
accesses is all there is to see.

- `pc[h]` is the next access of hart h. Inside `mt_printf` it is one of
  `mt_spin`, `mt_swap`, `mt_print`, and `ret[h]` is the step after the call;
  `Loc(h)` is the step not counting such a call. All calls of `mt_printf` are
  there, because each takes a lock that all harts share: the greeting
  (gcpt.c:79), the announcements of the payload (:140, :142), the bad target
  (decode_restore.c:244), the counter, printed with the other lock held (:280),
  and the handler's five lines (gcpt_trap.c:8-12).
- `bss` is the five shared words by name, `cleared` those that the loop of
  `clear_bss` has passed. The linker chooses the order of the words, so the
  order is free. At reset a word is anything in `BootBss`, except `bss_lock`,
  which the image holds as 0 (Makefile, `--set-section-flags .bss=alloc,contents`):
  the code needs that, since other harts read it before it is cleared.
- `cpt` is the checkpoint as far as control depends on it; it never changes.
  `valid` stands for all tests that lead to `boot_payload`. `allCpuNum[h]` is
  the word at `csr_reserve` of h's own area. `badImm[h]` says that the patched
  jal of an M-mode checkpoint does not reach. `fault[h]` says that a csr write
  raises an exception, and on which side of mtvec in the order of `CSRS`.
- `mie[h]`, `mtvec[h]` are the parts of mstatus and mtvec that decide where a
  trap goes; `trapLines[h]` counts down the handler's lines; `strayed` are the
  harts that took a trap to the handler of the checkpointed program while still
  in the restorer. What they execute there is not the restorer's.
- `reentered` are the harts that came back into `gcpt_c_start`, on a machine
  without checkpoint and payload. Their cpu_id is the return value of the last
  `mt_printf`, never 0, so that they wait for `bss_lock` like secondary harts;
  their start_address is what t0 holds. Decoding from it traps
  (`BadStartAddress`) or fails (`SelectPayload`). If the address is not
  0x80000000 the hart then jumps to the restorer's own entry (`Restart`),
  otherwise to the stub again (`NoPayload`).
- `signal` is the code passed to the simulator by `nemu_signal`, which stops it
  (`Step` needs `signal = "none"`).

In `HartRestore`:

- `sc` is the scenario: the build (`config`, `start`, `display`), the hart, its
  checkpoint (misa, FS, VS, MPV, the mode, the distance to the pc, locked pmp
  entries), the images that have the magic number of one (memory, flash, both) and the machine (misa, Smstateen, the length of a vector register,
  FS and VS at reset). It never changes.
- A register holds `Word(a)`, the word at address a of the checkpoint,
  `Ptr(a)`, an address the restorer works with, or `Own`, something left over.
  A load through a register that is no pointer any more gives `Own`: this is
  what a wrong order on the way out does.
- `pc` is the part of the restore, `i` the place in a list or loop of it; the
  loops of macros (`CSRS`, `HCSRS`, the 32 vector and float loads, the integer
  loads of both ways out) are one step per register, in the order of the source.
- A write of a csr is ignored for the address of a locked pmp entry and traps
  if the machine does not have the csr (`Writable`): frm with FS off, mstateen
  without Smstateen, H csrs without H. FS and VS are read as 0 on a machine
  without the extension. Floats are loaded with `fld`, which needs D.
- `patch` is the word written by `generate_jal` and its address; `SlotJal` reads
  the word that is behind the loads of the hart's own slot and decodes it.

`MemLayout` has the tables as functions from field names to numbers and
`get_core_memlayout` as the sum it computes. `JalPatch` has an instruction as the
signed number with its bits, shifts and masks as `\div` and `%`, and the cut of
the offset to an `int` as `% OffsetModulus`.

In `Printf` a format is a sequence of pieces, a character or a directive, and a
step does what the loop of `_vsnprintf` does for one of them: the flags, width,
precision and length with their stars, the cut of the argument to its type,
`_ntoa_format` and `_ftoa` on the conversion buffer in the order in which
they append to it, `_out_rev`, and the output function. A number in the buffer
is reversed, as in the code. `StdText` says what the C standard wants of the same
piece, without a buffer; where the standard leaves a flag or a precision open (`#`
and `0` for `%s`, say), `StdText` takes it as not given, and for binary numbers
and pointers, which C does not have or leaves to the implementation, it gives their
digits. `Differs` lists where the code is known to say something else.
`PutsOutWhatItSays` demands the standard's text of everything else, and of every
piece, listed or not, that it takes its own arguments:

- a number longer than the conversion buffer is cut;
- `hh` takes a signed value without its sign;
- a precision with `-` is not filled with zeros, and a 0 with one puts out no
  digit at all: `%-.1d` of 0 is empty;
- a negative star precision counts as 0 (the standard: as none), for numbers,
  floats and strings: `%.*s` with -1 puts out nothing;
- `%p` with a precision, or with `+` or a space, which put a sign before it;
- `#` with a width or a precision that the digits reach, and in octal with a
  precision;
- a fraction of exactly one half that rounds up to 1: the carry is in one branch
  of the code only, and `%.1f` of 0.95 gives 32 characters of digits;
- more float digits than 9; `#` with precision 0;
- special floats: `%F` puts out nan and inf in lower case; `+` and space put no
  sign before a nan, and a space none before inf; `0` keeps the width from being
  filled;
- `%lc` and `%ls` are not wide;
- what C leaves undefined: a specifier there is none of, or `%%` with anything
  in between, is put out as its last character.

The restorer's own formats use none of these.

All modules are written to be proved about: constants with named assumptions, one
action per step, loops as recursive functions over the steps made. In `Printf`
`IsDefined` is what C asks of a caller (an argument for each star and each value,
a string for `%s`, a count that is a `size_t`); a call that breaks it is undefined in
the code, and `CallsAssumption` leaves it out. Two of its conditions are none of
C's but bounds of the model: no `%e`, `%E`, `%g` or `%G`, and floats below
`MaxFloat` (`PRINTF_MAX_FLOAT`, 1e9), because `_etoa` is not modelled.

Operators with "Faulty:" in their comment are plausible mistakes (a lock that is
never given back, a hart that does not wait, an off-by-one). They take no part
in the specification; replacing the operation that follows by one of them must
violate a property, which shows that the property depends on the code.

## What the runs check

| run | instance | checks |
|---|---|---|
| `spin_lock` | 4 harts | `TypeOK`, `MutualExclusion`, `WordIsExact`, `ImplementsMutex` |
| `restore` | 4 harts, a checkpoint of 4 or none, .bss of zeros and ones | `LocksExact`, `CounterExact`, `BarrierSafe`, `ImplementsContract`, no deadlock |
| `restore_live` | 3 harts, a checkpoint of 0 to 3 or none | `MtimeRestoredOnce`, `HealthyGoesOn`, `AllResume`, `AllBoot`, `LocksImplementSpinLock`, no deadlock |
| `failures` | 3 harts, one may fault or have a target out of reach, one may be interrupted at any moment | `TypeOK`, `LocksExact`, `BarrierSafe`, `FailureIsSignalled`, `OthersBlock` |
| `incomplete` | 3 harts built with `--stop-cpu=1`, a checkpoint of 3 or 4, or neither checkpoint nor payload | `IncompleteBlocks`, `OthersBlock`, `NeverWedged` |
| `hart_restore` | 1 hart, 426 scenarios: builds, checkpoints and machines | `TypeOK`, `IntRegsRestored`, `FloatVectorRestored`, `CsrsRestored`, `ReachesTarget`, `SupportedNeverTraps`, `TrapsAreReported`, `DisplayAgrees`, no deadlock |
| `printf` | 1 call of printf, snprintf, fctprintf ... | `TypeOK`, `NumberFitsBuffer`, `BufferIsCutText`, `SentIsText`, `PutsOutWhatItSays`, no deadlock |

Five runs show that the code does not do what a line of the repository says:

| run | property | what happens |
|---|---|---|
| `mtime_after_resume` | `MtimeRestoredBeforeResume` | `release_restore` is set (decode_restore.c:288) before mtime is restored (:289): a released hart runs the program with the old time |
| `irqs_in_locks` | `IrqsDisabledInLocks` | spinlock.h:6 says that M-mode interrupts are always disabled; a hart takes `globash_restore_lock` with the MIE of the checkpoint's mstatus set (csr.h:25) |
| `self_boot` | `NoSelfBoot` | a restorer in memory that re-enters `gcpt_c_start` takes the branch of one in flash (gcpt.c:134-135) and jumps to itself |
| `mtimecmp` | `MtimecmpAsDisplayed` | the number of the hart is added to the source of mtimecmp (decode_restore.c:276) in an area that is already the hart's own: hart 1 gets the next field, and not the word displayed as mtime_cmp (:183) |
| `flash_dual_core` | `RestoresWhatItChecked` | README.md:26 has the data of a dual-core checkpoint at 0x80300000; a dual-core (or bare-metal) restorer in flash looks for the magic number there (gcpt.c:118) and restores from 0x10300000 (:123) |

In three more places a comment or a document and the code differ, and no run is
spent on it. printf.c:393 handles the rollover of 0.99 with one digit; 0.95,
exactly a half, is not carried (:401-404). printf.c:380 limits the precision of
a float to 9; the loop ends when the conversion buffer is full, and from 42 on
`pow10` is read behind its end (:387). README.md writes `--stop_cpu`,
`--display_cpu`; `configure` knows `--stop-cpu` and `--display-cpu`.

**Bounds.** With four harts all classes of a hart at the barrier exist at once:
one that holds the lock, one between its read and its swap, one that waits for
the release, and one that is late. Two would not show a loser that overwrites
the winner's word while a third arrives. The harts of `Restorer` differ by
hart 0 and by the checkpoint only, and symmetry is not used. Two kinds of
garbage in .bss, 0 and 1, are enough: the code compares with 0, with 1 and with
the count. Counts one below and one above the number of harts are the two sides
of the test in line 282. Nothing in the model grows without bound, and no run
has a state constraint.

`hart_restore` takes every combination of the extensions of checkpoint and
machine with FS and VS off, clean and on, at reset too; the three builds, in
memory for harts 0, 1 and 127, and in flash for harts 0 and 2 with the magic number
in memory, in flash, in both or nowhere; distances at both ends of the reach of a
jal, at the edges of its fields, one step beyond, and beyond the width of
`offset`; pmp entries locked alone and in pairs, with and without TOR. TLC's
integers have 32 bits: memory is
at 2^30 instead of 2^31 and `offset` has 24 bits instead of 32, three more than
the reach of a jal. The proofs have no such bounds.

`printf` scales all sizes down: char, short, int and long have 2, 3, 4 and 8
bits, the conversion buffer 4 characters, that of floats 6, the caller's memory
12; floats are multiples of 1/16, and 0.95, and `MaxFloat` is 1000. Widths,
precisions and digits lie on both sides of each of these sizes, and each flag meets each other flag.
Numbers are represented by the edges of their types, since digits come from
division alone.

**Deadlock** is checked except where harts may wait for ever by design: a hart
that was stopped or that strayed leaves the others in the barrier
(`OthersBlock` says exactly that).

**Fairness.** Only the harts of `Restorer` and `SpinLock` need it; `HartRestore` and
`Printf` are sequential and cannot wait. Every hart keeps executing instructions: weak fairness of
`Step(h)` for each h. There is no scheduler, each hart is a processor of its
own. It is weak because a spinning hart whose word is free only now and then may
miss it for ever: `spinlock_lock` does not guarantee that a given hart gets the
lock, and `Mutex` promises only that some waiting hart does. It is enough,
because every hart takes each lock a bounded number of times. Interrupts are
never forced (`Interrupt` has no fairness).

## What is proved

With TLAPS, from these assumptions:

- `SpinLockProofs`, `RestorerProofs`, `RestorerRefinement`: any finite set of harts
  that contains 0, any set of checkpoints, any contents of .bss at reset
  (integers), with or without `--stop-cpu` and payload: the three ASSUMEs of
  `Restorer`, evaluated by TLC in every run. `SpinLock` has none.
- `LayoutProofs`, `HartRestoreProofs`: any scenarios, any addresses of memory,
  flash, stacks and slots, and any width of `offset` that holds the immediate of
  a jal (`BasesAssumption`, `Core0Assumption`, `OffsetAssumption`,
  `ScenariosAssumption`). What they need of the tables in the code, that the fields
  of an area do not overlap and which csrs the lists hold, is proved from the
  numbers (`TablesFit`, `CsrFacts`).
- `PrintfProofs`, `PrintfNumbers`: any set of calls that `IsDefined` covers
  (`CallsAssumption`), any sizes of the buffers, and any widths of the types, none
  of them wider than long (`SizesAssumption`). Powers are a recursive function of
  `Printf` (`Power`), since the provers know nothing of `^`.

- `SpinLockProofs`: `Exclusion`, `WordExact`, `TypeCorrect`, and `RefinesMutex`,
  the safety half of `ImplementsMutex`. The invariant is the conjunction of
  the three properties themselves: exclusion is inductive only together with
  the exactness of the word.
- `RestorerProofs`: `TypeCorrect`, `LocksAreExact`, `CounterIsExact`,
  `BarrierIsSafe`, `MtimeIsRestoredOnce`, `IncompleteIsBlocked`,
  `HealthyHartsGoOn`. The properties are not inductive. The
  invariant `IInv` adds

  1. `Rendezvous`: before `bss_lock` is set, hart 0 is in `clear_bss`, the
     others wait and all cleared words are 0; `Paths`: harts with a checkpoint
     and harts without one never mix;
  2. on this rest `LocksExact` and, because only the holder of the restore lock
     counts, `CounterExact`: the counter is the cardinality of the set of harts
     that have arrived;
  3. `BarrierInv`: release implies that all have arrived, by counting: a hart
     that passes has found the counter equal to a number that is at least the
     number of harts, and a subset of the harts with that many elements is all
     of them. `TimerInv`: when one hart has passed, a later one finds the
     counter above the number it compares with.

  Most steps change nothing that the invariant mentions; `QuietRest` and
  `SameBarrier` show this once for all of them.

  Two theorems need an invariant of their own next to `IInv`. That nobody passes
  the barrier of an incomplete machine needs `StrandedStay` (a hart that stops or
  loses itself is still in the first part of its restore, or stopped, or strayed:
  it never counts) or, where the checkpoint counts too many harts, `Blocked` (nobody
  is behind the test of the counter, which never reaches that count). That a healthy
  hart goes on needs `HealthyInv`: a hart whose mtvec is the program's has
  interrupts off.

- `RestorerRefinement`: `KeepsContract`: the initial states of `Restorer` are those of
  `RestoreContract`, and every step is one of its steps or none, if the checkpoint
  has at least as many harts as the machine (`Fits`); with one of fewer, the
  barrier opens early. `Prepare` is the increment of the counter, `SetTimer` the write of
  mtime, `Resume` the last jump. `LocksAreSpinLocks`: the same for both locks and
  `SpinLock`, on machines where no hart re-enters and the locks are free at reset.
  Without these two conditions no refinement from the first state is there to
  prove: `clear_bss` writes the words of the locks, and does so again under a
  hart that holds one, if another has come back. `LocksAreSpinLocksOnceOpened`
  needs neither: while `bss_lock` is set, every step is one of `SpinLock` or none,
  whatever .bss held before, and with harts that re-enter, stray or are lost.

- `LayoutProofs`: `AreasDisjoint`, for any layout that fits the size of an area;
  `FieldsDisjoint`, for the layouts of the builds, whose numbers fit
  (`TablesFit`): no byte is read for two fields or for two harts;
  `StacksDisjoint`, `PatchesOwnSlot`, and `JalReaches`: encode, patch and decode of any even
  distance that `is_valid_imm` accepts. The proof of the last splits the halved
  offset at the borders of the jal's fields, once for distances below zero.
- `HartRestoreProofs`: `TypeCorrect`, `RegistersRestored` (the three properties of
  registers), `TargetReached`, `TrapsBehave` (both properties of traps),
  `DisplayIsTrue`. The invariant has a part for each thing that is restored:

  1. `IndexOK`, `AreaOK`: loops stay in their lists; the area is the hart's own
     and the decisions are those of its checkpoint;
  2. `StatusOK`: FS and VS are on while registers are loaded, and what the
     checkpoint says once mstatus has been written. frm is in the list as well as
     in fcsr and is written while FS is still on, since it comes first;
  3. `VectorOK`, `FloatOK`, `CsrOK`: what a loop has passed is the checkpoint's;
     what it has not is the restorer's, which is what the display needs; a
     locked pmp entry freezes addresses that are still to come;
  4. `TrapOK`: mtvec is the restorer's until its turn, and behind it nothing is
     left that the machine could lack, because a machine without Smstateen has
     trapped at the third csr of the list. This is where the order of `CSRS` counts;
  5. `IntOK`, `JumpOK`: sp stays the base until the last load, x5 and x6 are
     loaded again after `jump_to_core` has used them, and the patched word is
     in place when the hart comes to its slot;
  6. `ShownOK`: what is shown is the words of the hart's area.

- `PrintfProofs`: `TypeCorrect`, `NumbersFit`, `BufferHoldsCutText`,
  `SentTextIsText`. The invariant says that the arguments taken are those of the
  pieces before `pos` (so that `va` never passes the last one), and what memory
  and stream hold before the terminator. `NumbersFit` follows through
  `_ntoa_format` from the check in front of each append; the one without a check,
  `PadZeros`, is bounded by its own loop. `SentTextIsText` needs that leaving out
  the NULs of two texts is leaving out those of the whole (`WithoutNulConcat`),
  an induction over the length of a text. `TextIsPutOut` is the part of
  `PutsOutWhatItSays` about characters, `%c`, `%s` and `%%`: the standard's text
  but for a negative star precision and wide characters, and the arguments that
  are taken, those of unknown specifiers too.
- `PrintfNumbers`: `NumbersArePutOut`, the part of `PutsOutWhatItSays` about
  integers and pointers. Four steps: the loop of `_ntoa_long` ends at the least n
  with value < base ^ n, which exists because no value has more binary digits than
  long has bits (`DigitsAsStd`); for a plain directive (`IsPlain`) the buffer
  holds digits, zeros, prefix and sign one behind the other, where a prefix that
  overwrites zeros is the case to look at (`HashReplaces`, `FormatIs`); turned
  round and padded that is the standard's order (`TurnedRound`, `OutRevPads`);
  and what `NumberDiffers` does not list is plain, with the value cut to the type
  of its length (`NumberIsPlain`, `ValueAsStd`). The attempt to prove it without
  them is how `%-.1d` of 0 and the sign of `%+p` came to be in that list: no call
  of the run had had them.
- `Induction`: a recursive function over 0..n has the values its equations say
  (`Recursion`), and a set of numbers with 0 and with n + 1 for each n holds them
  all. The library states both with an operator as parameter, which the provers
  cannot instantiate; a set can be.

Each `IInv`, and the invariants next to it, was first checked by TLC: those of the
restorer in four configurations, that of a hart in all scenarios of
`hart_restore`, that of printf in all calls of `printf`.

Only model-checked:

- the text of floats in `PutsOutWhatItSays`, and the arguments they take;
- all liveness: `AllResume`, `AllBoot`, `OthersBlock`, `FailureIsSignalled`,
  `NeverWedged`, and the fairness of `ImplementsContract`, `ImplementsMutex` and
  `LocksImplementSpinLock` (TLAPS does not reason about ENABLED);
- the five runs that find a property violated.

## What is not modelled

- Decoding: nanopb is an external submodule whose directory is empty in this
  commit. `Restorer` has its verdict, `MemLayout` what a stream may hold.
- `printf` with `%e` and `%g` (`_etoa`) and of floats beyond `PRINTF_MAX_FLOAT`,
  which go there too: approximations of logarithms in double arithmetic, which
  TLC cannot evaluate. Floats are exact numbers in the model; the rounding of the
  products of doubles is not there. Where `pow10` is read behind its end the value
  read does not matter: the conversion buffer is full by then.
- printf of two harts at once without the lock: output only.
- `boot_check`: compares a word of the image with a constant, in one hart.
- Address translation and MPRV: the loads after the write of mstatus use physical
  addresses in the model. What a pmp entry forbids, beyond the writes that a
  lock ignores, is not checked.
- The fields of csrs other than FS and VS. Which values of a csr a machine keeps
  (WARL) is the machine's.
- vstart, vcsr, vxrm, vxsat and stimecmp: the code never restores them.
- The names of the csrs in the display, and the other constants of encoding.h
  and bits.h, which the restorer does not use.
- `default_rvgc_v_h_memlayout` is in `MemLayout`, but not reached: no call passes
  a missing layout.
- The build without `__riscv_atomic`: the Makefile always sets rv64gc.
- Speculation, caches and the reordering of plain accesses: the shared words
  are all accessed with sequentially consistent operations.

## Plan

1. Done: `Mutex`, `SpinLock`, `RestoreContract`, `Restorer`, their runs and the
   safety theorems above.
2. Done: `MemLayout` and `JalPatch`, with theorems about areas, stacks, slots and
   the reach of a jal.
3. Done: `HartRestore`, with theorems for all of its properties.
4. Done: `Printf`, against the text of the standard.
5. Done: that `Restorer` implements the safety part of `RestoreContract`, and its
   locks that of `SpinLock`, as theorems.
6. Done: theorems for the safety properties of `Printf` and for the text of
   characters and strings.
7. Done: the text of integers and pointers as a theorem.
8. Left: the text of floats: that `FtoaRound` and the rounding of `StdFloat` agree
   outside of `FloatDiffers`, which needs a bound on the finite numbers, then the
   order of the parts as for integers; and with it all of `PutsOutWhatItSays`.
