# TLA+ models of riscv-vm

This directory holds the TLA+ models of the RV32 emulator core in
`src/riscv_core/riscv.c`, together with the TLC configurations that check
them, and of the x86-64 JIT emitters in `src/riscv_core/riscv_jit.h`.

## The system

The core is a single-threaded interpreter. A host creates a hart with
`rv_create`, gives it callbacks (`riscv_io_t`: instruction fetch, byte, half
and word reads and writes, ECALL and EBREAK), and drives it with two calls:

- `rv_reset(pc)` clears the registers, sets `sp` to `DEFAULT_STACK_ADDR`,
  sets `PC`, and clears the exception latch, `csr_cycle` and `csr_mstatus`.
- `rv_step(cycles)` computes `cycles_target = csr_cycle + cycles` as a
  `uint64_t`. It then loops while `csr_cycle < cycles_target` and no
  exception is latched. Each iteration does four things:
  1. it fetches the word at `PC`;
  2. it dispatches through `opcodes[]` on bits [6:2];
  3. it runs the handler;
  4. it increments `csr_cycle` if the handler returned true. A false return
     (branches, JAL, JALR) breaks out of the loop.

Each handler decodes its fields, updates `X`, `F`, memory (through the
callbacks), the CSRs and `PC`, and re-zeroes `x0`. The exception latch is set
by misaligned control transfers and may be set by the host's ECALL/EBREAK
callbacks. The only interactions are the host's calls and the synchronous
callbacks made within a handler; nothing runs concurrently. One callback
re-enters the core: spec 5 lets the ECALL/EBREAK callback call `rv_reset`,
after which `op_system` adds 4 to the new PC and `rv_step` counts a cycle on
the cleared counter, still against the `cycles_target` it computed on entry.

With `RISCV_VM_X64_JIT` the loop has two levels. The outer loop offers the
PC to `rv_step_jit`, which runs a translated block and returns true, or
returns false. On false the inner loop interprets as above until a handler
returns false, and that `break` leaves only the inner loop. The blocks are
built by the `gen_*` emitters of `riscv_jit.h`. Each emitter appends the
bytes of one or a few x86-64 instructions to `block->code` through
`gen_emit_data`. The translator that chooses the calls, the block cache and
`rv_step_jit` are not in the repository.

## Modules

| Module | Models |
|---|---|
| `RV32Word` | Words parameterised by `XLEN`: uint32 wrap `U`, int32 view `S`, shift masking, sign extension, bitwise ops (community `Bitwise`). |
| `RV32Alu` | The value computations of `op_op_imm`, `op_op` (RV32I and RV32M), `op_branch` and the AMO combine step, written as C computes them: truncating `/` and `%`, the divide-by-zero and `INT32_MIN / -1` special cases, wrapping signed arithmetic. |
| `RV32Isa` | Reference RISC-V semantics of the same operations, written independently from the ISA definition in spec.md (for example, arithmetic shift as complement-shift-complement). |
| `RV32Host` | The decoded instruction record, the host memory (a little-endian byte store over a window `MemAddrs`, reading 0 and dropping writes elsewhere), `mem_ifetch`, and the reset register file. This is environment, modelled from the spec. |
| `FClass` | binary32 floats as (sign, exponent, fraction). `CalcFClass` translates `calc_fclass` with its exact constants; `FClassRef` is the classification of spec 4.7. |
| `RV32Float` | The F registers as the code uses them. A register is an XLEN-bit word in a binary32-shaped format scaled with the word: E5M2 at XLEN = 8, E6M9 at 16, binary32 at 32. In each, as in binary32, every XLEN-bit integer is a finite float. It defines the FMASK fields, the C float comparisons (`OrderKey`, `FEq`/`FLt`/`FLe`), sign injection on the bits, the outcome set of `fminf`/`fmaxf`, the C conversions float→int32/uint32 with the x86-64 results of the undefined cases, int→float rounding to nearest-even, and the host's SSE arithmetic for FADD/FSUB/FMUL/FDIV/FSQRT: the exact result formed with a few guard bits and a sticky bit, `RoundExact` to nearest-even through subnormals and into infinity, the IEEE signed zeros, and NaN results (an operand's NaN quieted, either operand's for the commutative `+` and `*`, the x86 default NaN for an invalid operation). Exact intermediate values are bound once (`n \in {...}`), which keeps TLC's evaluation of `ENABLED` in the liveness check cheap. |
| `FloatRef` | Reference IEEE-754 semantics of the same five operations, written from the standard's definitions and independently of `RV32Float`'s algorithms: the result is found by search over the finite floats as the nearest to the exact value, compared as dyadic numbers, with ties to the even significand; any quiet NaN is allowed where the standard leaves the payload open. It also gives the correctly rounded value of an integer (`RefFromInt`) and the order of two floats by value (`RefCmp`). |
| `Hart` | The interpreter. Variables are the fields of `struct riscv_t` plus the loop's `running`/`target` and history counters. Actions are `Init` (rv_create), `Reset`, `Step` (rv_step entry), one action per handler (`OpLoad` … `OpAmo`, `OpLoadFp`, `OpStoreFp`, `OpFp`, `OpFused(h)` for the four multiply-add handlers, each a whole loop iteration including `PC += 4`, the zero-register rule and the `csr_cycle++` or break), and `StepReturn` (loop exit). |
| `RV32Arch` | Abstract specification: a RISC-V machine that executes the instruction at `PC` atomically with ISA semantics until an exception, plus reset. It leaves the cycle counter unconstrained. Its RV32F part follows spec 4.7 on the format's fields: an IEEE comparison by sign then (exponent, fraction), minNum/maxNum, conversions that truncate toward zero (any word when out of range, where the spec is silent), bit copies for FLW/FSW/FMV, FADD..FSQRT as `FloatRef`'s correctly rounded operations (spec: host single-precision math), and FMADD..FNMADD as spec 4.7's formulas `rs1*rs2 + rs3` … `-(rs1*rs2) - rs3`, each operation in single precision. |
| `JitSig` | The emitter interface: the names of the 60 `gen_*` functions grouped by argument kind (none, `uint32_t`, `uint64_t`, `uint8_t`, RV32 register), and the host addresses `&rv->PC` and `&rv->X[r]` they embed. |
| `JitEmit` | The emitters. The variable `code` is the buffer `block->code[0..head-1]`. `Emit(e, a)` is one call of `gen_e`: its bytes (`Encode`, one CASE group per stretch of the header, including the zero-immediate shortcuts) appended by `EmitData` (`gen_emit_data`). Immediates are written little-endian by `LEBytes`. |
| `X64Decode` | A reference x86-64 decoder for the instruction subset, written from the x86 encoding rules (REX, opcode, ModRM, little-endian immediates), and a canonical form that identifies zeroing by `xor` with `mov 0` and drops operations by 0. |
| `JitAsm` | Abstract specification of the emitters: each call appends the instructions its name and trace announce, as a listing. Reads of RV32 x0 give 0 and writes to it vanish. |
| `MC_Alu`, `MC_Hart`, `MC_FClass`, `MC_JitEmit` | Harnesses: operation and operand enumeration, instruction constructors and programs, and the refinement `ImplementsArch == Arch!ArchSpec` under the identity mapping on the shared variables. |

How the code maps onto the model:

- Every handler action's guard is `Dispatched(h)`: the loop condition plus
  the dispatch slot of the fetched instruction.
- Its effects are the handler's assignments.
- `Retire(cont)` is the loop's tail (`riscv.c:974-978`). With the constant
  `JitBuild` it is the JIT build's tail (`riscv.c:935-953`): a false return
  leaves `running` set and the outer loop goes on. `rv_step_jit` is taken to
  decline, which it may do for any PC.
- `OpSystemReset(p)` is an ECALL whose callback calls `rv_reset(p)`. The
  registers and CSRs are reset, then `PC = p + 4` and `csr_cycle = 1`.
  `RV32Arch` gives ECALL the same option, resuming at `p + 4` per spec 5.
- `MC_JitEmit` checks `ImplementsAsm == Asm!AsmSpec` with
  `Asm == INSTANCE JitAsm WITH listing <- Listing(code)`. The refinement
  mapping decodes the byte buffer, so the emitted bytes are judged by an
  independent decoder, not by a copy of the emitters' tables.
- The decoders (`riscv_private.h`) are not under `src/`. Instructions
  therefore appear in decoded form: fields and a signed immediate.

## Runs

Passing runs:

- **alu_equiv** (`MC_Alu.cfg`): checks `AluMatchesIsa` over all 36 integer
  operations and every operand pair at XLEN = 8, and over FADD/FSUB/FMUL/
  FDIV/FSQRT and every pair of `FpSample`, 88 floats: both zeros, the
  subnormals, the smallest normals, the binades around 1.0, the two largest
  binades, the infinities and all NaNs. FEQ/FLT/FLE.S are checked over all
  pairs of 8-bit floats against `RefCmp`, an order by value (infinities
  beyond the finite values, both zeros equal, false on a NaN). FCVT.S.W
  and FCVT.S.WU are checked for every integer against `RefFromInt`, the
  nearest float with ties to even. That is 5.8M states in about a
  minute. The code's integer computations equal the ISA's, including the
  corner cases of division, comparisons and shifts. Every float result the
  host arithmetic may give is the IEEE result, including ties, the
  underflow to subnormals, the overflow to infinity, `x - x = +0` and the
  invalid operations. A misaligned addend (the alignment of `AddFinite`
  three bits short) is found at once.
- **hart** (`MC_Hart.cfg`): about 8,400 states in under 10 s. The host calls `rv_step` with
  budgets 0, 1 and 3 and `rv_reset` at 0 or 88, in any order. There are four
  programs:
  - a main program that reaches every integer handler: DIV overflow, a write to x0,
    SW/LB, LR/SC, AMOADD, CSR read/write/immediate forms, FSGNJN, FMIN of +0 and -0,
    FENCE, a BNE loop, JAL/JALR with rd = rs1, ECALL and a branch to a
    misaligned target;
  - a one-instruction `JAL x0, 0` spin;
  - an RV32F program. A signaling NaN is moved into f1. FMIN of it and -3.0
    may give -3.0 or a quiet NaN. The result goes through FSW/FLW, FEQ and
    FCVT.W.S. -3.0 is converted to unsigned and 192.0 to signed, both out
    of range. FCVT.S.W[U], FMAX, FLE, FSGNJX and FMV.X.W follow;
  - an RV32F arithmetic program: 3.0 · -24.0 is a tie that rounds to even
    (-64.0), then FDIV, FSQRT of 3.0 and 3.0 + 1.75 round, `x - x` gives
    +0, the square root of a negative number gives the default NaN, FMADD
    propagates it, and FMSUB, FNMSUB and FNMADD run on finite values.

  The run checks these properties:
  - `TypeOK`;
  - `X0Zero`: x0 is always 0;
  - `StepBounded`: one rv_step retires at most `max(cycles, 0)` instructions;
  - `FetchAligned`: an action property, no handler runs at a misaligned PC;
  - `StepTerminates`: liveness, every rv_step returns;
  - `ImplementsArch`: refinement of RV32Arch.

- **jit_emit** (`MC_JitEmit.cfg`): 12,000 states in about 15 s. Up to
  `MaxCalls = 2` calls of any of 56 emitters, with edge immediates (0, 1,
  ±2^31 boundaries, -1; 8-bit 0, 31, 128; two 64-bit pointers with high
  bits set) and RV32 registers x0, x1, x31. Two calls are enough to see one
  instruction's bytes run into the next, the failure a wrong length causes.
  Checks `ImplementsAsm`. Left out are the three `uint32_t`
  loads into 64-bit registers, whose intended extension is not stated in
  the repository, and `gen_cmp_rax_imm32` (finding).
- **hart_callback_reset** (`MC_Hart_cbreset.cfg`): a program whose ECALL
  callback calls `rv_reset(12)`, so execution loops through the reset. It
  checks `ImplementsArch`. The hart resumes at 16, a JAL whose false return
  ends the rv_step. StepTerminates is not checked here. With a counted
  path back to the ECALL (`CallbackResetPCs = {0}`), every pass sets
  `csr_cycle` below the stale target, and rv_step never returns. This is a
  liveness hazard in PROJECT.json, with the same cause as
  callback_reset_budget.

Violation runs, each reproducing a finding in PROJECT.json:

- **cycle_count**: `CycleCountsRetired`. Branches and jumps are not counted
  in `csr_cycle` (spec 4.8 says they are).
- **fp_x0**: `X0Zero`. `FLE.S x0, f0, f0` writes 1 to x0; op_fp has no zero rule.
- **amo_address**: `ImplementsArch`. AMOs use the rs1 index as the address
  and write back a halfword.
- **csr_write_value**: `ImplementsArch`. CSRRW writes the rs1 index, not
  X[rs1], to mstatus.
- **jit_cmp_rax**: `ImplementsAsm`. `gen_cmp_rax_imm32` emits 2 of the 4
  immediate bytes of `CMP RAX, imm32`. The following bytes are swallowed,
  and the block decodes out of step.
- **callback_reset_budget**: `StepBounded`. `rv_reset` from the callback
  clears `csr_cycle`, but `rv_step` keeps its old target. `rv_step(3)`
  retires 4 instructions. With a reset to 0 the loop never ends.
- **jit_spin**: `StepTerminates`, in the JIT build. A `JAL x0, 0` never
  counts a cycle, and its break leaves only the inner loop, so `rv_step`
  never returns. The interpreter build returns at the break.
- **fclass**: `FClassMatchesRef` over boundary floats. `expn < 0x78000000`
  drops exponents 0xF0–0xFE, and the NaN split uses `0x7ff` rather than bit
  22.

Every property of a passing run has a seeded variant of the code that breaks
it, listed under `mutants` in PROJECT.json.

## Bounds and why they suffice

- **Word width.** TLC's integers are 32-bit, so words are checked at
  `XLEN = 8`. The F registers use E5M2 there: zeros, subnormals,
  infinities, signaling and quiet NaNs, out-of-range conversions and
  rounding (any integer above 8 in magnitude needs it) all exist. A byte is XLEN/4 bits and a half is XLEN/2 bits, keeping four
  bytes per word, and the shift mask is `XLEN - 1`. Every operation is
  defined uniformly in `XLEN`. The corner cases (sign bit, all ones, zero,
  INT_MIN/-1, shift amounts ≥ width) exist at every width, and alu_equiv
  checks all operand pairs. The float sample of alu_equiv leaves out the
  pairs of a subnormal or zero with the top finite binade for FADD/FSUB:
  `FloatRef` aligns the two addends exactly, and 29 binades apart that
  overflows TLC's integers. Pairs 28 binades apart, where the code's
  sticky unit matters, are checked.
- **Registers and memory.** Registers are x0..x3 (x2 = sp). Memory is 8
  bytes, which is enough for word accesses, aliasing and out-of-window reads.
- **Cycles.** `MaxCycle = 24` bounds `csr_cycle`; the main program retires 23
  counted instructions.
- **The 2^64 wrap.** `CycleMod` stands for 2^64. Any modulus above
  `MaxCycle + 2·2^XLEN` gives the same wrap behaviour, since the wrap happens
  exactly when `csr_cycle < -cycles`.
- **History counters.** These are ghost counters of retired instructions.
  They saturate at `HistoryCap = MaxCycle + 2` so that a taken-branch loop
  (which never counts a cycle) has a finite state space.

- **Emitter calls.** `MaxCalls = 2` bounds a block. Every emitter's bytes
  are a fixed function of its argument, so longer blocks add nothing but
  concatenation, which two calls already exercise.

## Fairness

`WF_vars(Execute \/ StepReturn)`. While the host thread is inside `rv_step`,
it executes the loop to its end: nothing else can run, so some iteration or
the exit is always taken. The host's own calls (`Step`, `Reset`) get no
fairness, because a host is free to stop calling.

## Not modelled

These are listed as components in PROJECT.json:

- **`rv_step_jit`, the translator, the block cache and the size of
  `block->code`.** None of them is in the repository. The JIT run loop is
  modelled with `rv_step_jit` declining, and blocks are never executed. So
  `gen_emit_data`'s missing bounds check (`riscv_jit.h:21`) has no bound
  to be checked against.
- **The JITPRINTF trace text.** It is logging. Three traces copy another
  emitter's text (`gen_mov_ecx_rv32reg`, `gen_mov_rcx_imm64`,
  `gen_sar_eax_imm8`), and the intent is read from the name.
- **Flags.** The listing tracks registers only. Whether a zero-immediate
  `xor` shortcut clobbers flags that a later `cmovcc` needs depends on the
  call order the translator chooses.
- **FCLASS.S in the hart.** It is checked in binary32 by `MC_FClass`,
  since its constants are binary32-specific, and it is not an action of
  the hart.
- **Other float builds.** The arithmetic is that of the x86-64 build: SSE
  single precision, no flush to zero, `a*b + c` not contracted into a fused
  operation. A build with x87 excess precision, flush-to-zero or
  `-ffp-contract=fast -mfma` computes other values; these are hazards in
  PROJECT.json.
- **FCVT.S.W rounding.** The code rounds to nearest, but spec 4.7 says
  truncate. alu_equiv checks the code against round to nearest, ties to
  even: the RISC-V result with frm = 0, the only rounding mode the code
  keeps. The hart programs convert -3 and -56, which are representable,
  and 200, which at the 8-bit width both rounding and truncation take to
  192. So the two agree on every conversion the programs make. No run checks against spec 4.7's
  truncation.
- **Unassigned op_fp encodings.** These reach `assert(!"unreachable")`.
  The programs use valid encodings only.
- **`rv_delete`.** It only frees memory.
- **Out-of-contract host arguments.** These are a negative `cycles` and a
  misaligned reset PC. They are hazards in PROJECT.json, and the checked
  runs keep to the host's contract. `StepBounded` and `FetchAligned` state
  what goes wrong outside it. With `StepArgs <- NegStepArgs`, or
  `ResetPCs <- MisalignedResetPCs`, in MC_Hart.cfg, TLC finds the
  property violated.
- **Other host behaviour during callbacks.** Spec 5 lets the host do
  anything synchronously inside a callback. The model's host does two
  things: from ECALL/EBREAK it latches an exception or calls `rv_reset`.
  Two other behaviours are left out:
  - a nested `rv_step` from `on_ecall`, a hazard in PROJECT.json, whose
    effect on the outer `op_system` (a skipped instruction) is the one
    `OpSystemReset` shows;
  - a cancellation from a memory callback, which by spec 5 takes effect
    only after the handler completes.
- **RISC-V FMIN/FMAX zero ordering.** The ISA orders -0 below +0. The
  code calls `fminf`/`fmaxf`, which C99 lets return either zero on a tie.
  Spec 4.7 defers to the host, so `ImplementsArch` accepts both zeros.
