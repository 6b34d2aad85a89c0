------------------------------ MODULE TitleShims ------------------------------
(***************************************************************************)
(* What serves a title's kernel functions when the core is too old to      *)
(* (render360-browser-title-hle.mjs): PowerPC code put behind its entry,   *)
(* which returns a constant or keeps what the title passed for the page to *)
(* read.  An address is put together from halves in a register; the core   *)
(* uses its low 32 bits (hir_correctness_executor.cpp).                    *)
(***************************************************************************)
EXTENDS Integers, Sequences, Functions, SequencesExt, TLC, Bitwise

CONSTANTS
    TitleEntries, \* entry points of titles: halves [hi, lo]
    RingBases,    \* addresses a title gives its ring buffer
    RingLogs,     \* and log2 of the sizes (in 8 bytes), with VdInitializeRingBuffer
    MaxShimCalls  \* bound on the calls

VARIABLE shims

Half == 65536
Value(hi, lo) == [hi |-> hi, lo |-> lo]
ZeroWord == Value(0, 0)

(* add32: adds an offset, and fails where the address wraps.                *)
Wraps(address, offset) == address.hi + (address.lo + offset) \div Half >= Half
Add32(address, offset) ==
    [address EXCEPT !.lo = (address.lo + offset) % Half, !.hi = @ + (address.lo + offset) \div Half]

(* dform: the immediate is 16 bits; the addi of li extends its sign, ori    *)
(* and oris do not.                                                         *)
Negative(imm) == imm >= Half \div 2
Op(op, reg, base, imm) == [op |-> op, reg |-> reg, base |-> base, imm |-> imm % Half]
Li(reg, imm) == Op("li", reg, 0, imm)
Ori(reg, imm) == Op("ori", reg, reg, imm)
Oris(reg, imm) == Op("oris", reg, reg, imm)
Stw(reg, base, offset) == Op("stw", reg, base, offset)
Blr == Op("blr", 0, 0, 0)

FaultyAddressWords(reg, address) == <<Oris(reg, address.hi), Ori(reg, address.lo)>>
AddressWords(reg, address) == <<Li(reg, 0), Oris(reg, address.hi), Ori(reg, address.lo)>>
ConstantReturn(value) == AddressWords(3, value) \o <<Blr>>
CapturePair(address) == AddressWords(11, address) \o <<Stw(3, 11, 0), Stw(4, 11, 4), Blr>>

ShimBase == \hF000
Telemetry == [ringBase |-> \hFF00, ringSizeLog2 |-> \hFF04, rptrWriteback |-> \hFF08, rptrBlockSizeLog2 |-> \hFF0C]
ShimAt == ShimBase + \h000 :> "MmGetPhysicalAddress" @@ ShimBase + \h020 :> "KeQueryPerformanceFrequency"
          @@ ShimBase + \h040 :> "XGetLanguage" @@ ShimBase + \h080 :> "VdInitializeRingBuffer"
          @@ ShimBase + \h0C0 :> "VdEnableRingBufferRPtrWriteBack" @@ ShimBase + \h100 :> "VdInitializeEngines"
          @@ ShimBase + \h120 :> "VdGetGraphicsAsicID" @@ ShimBase + \h140 :> "VdEnableDisableClockGating"
          @@ ShimBase + \h160 :> "VdIsHSIOTrainingSucceeded" @@ ShimBase + \h180 :> "VdQueryVideoFlags"
          @@ ShimBase + \h1A0 :> "VdSetDisplayMode" @@ ShimBase + \h1C0 :> "VdSetDisplayModeOverride"
Shims == Range(ShimAt)
OffsetOf(name) == CHOOSE offset \in DOMAIN ShimAt : ShimAt[offset] = name

(* What the functions without arguments return.                             *)
SmallResult == [XGetLanguage |-> 1, VdInitializeEngines |-> 1, VdGetGraphicsAsicID |-> \h11,
                VdEnableDisableClockGating |-> 0, VdIsHSIOTrainingSucceeded |-> 1, VdQueryVideoFlags |-> 3,
                VdSetDisplayMode |-> 0, VdSetDisplayModeOverride |-> 0]
Frequency == Value(50000000 \div Half, 50000000 % Half)
Captured == [VdInitializeRingBuffer |-> "ringBase", VdEnableRingBufferRPtrWriteBack |-> "rptrWriteback"]

ShimCode(entry, name) ==
    CASE name = "MmGetPhysicalAddress" -> <<Blr>>
      [] name = "KeQueryPerformanceFrequency" -> ConstantReturn(Frequency)
      [] name \in DOMAIN Captured -> CapturePair(Add32(entry, Telemetry[Captured[name]]))
      [] name \in DOMAIN SmallResult -> <<Li(3, SmallResult[name]), Blr>>

(* writeWords                                                               *)
WordsAt(address, words) ==
    [a \in {Add32(address, 4 * (i - 1)) : i \in 1 .. Len(words)} |->
        words[CHOOSE i \in 1 .. Len(words) : Add32(address, 4 * (i - 1)) = a]]

ShimsInit == shims = [at |-> "none", entry |-> ZeroWord, memory |-> <<>>, calls |-> 0,
                      passed |-> <<>>, last |-> [name |-> "none", given |-> ZeroWord, r3 |-> ZeroWord]]

(* installBrowserTitleHle; the ring's telemetry starts as zeros.  A core    *)
(* that takes no word of it fails the launch.                               *)
InstallShims(entry) ==
    /\ shims.at = "none"
    /\ LET zeros == [a \in {Add32(entry, t) : t \in Range(Telemetry)} |-> ZeroWord]
           all == FoldFunctionOnSet(LAMBDA name, memory :
                        WordsAt(Add32(entry, OffsetOf(name)), ShimCode(entry, name)) @@ memory,
                    zeros, [name \in Shims |-> name], Shims)
       IN  \/ shims' = [shims EXCEPT !.at = "failed"]
           \/ /\ ~Wraps(entry, Half - 1)
              /\ shims' = [shims EXCEPT !.at = "installed", !.entry = entry, !.memory = all]

-----------------------------------------------------------------------------
(* A title's call.  m is its registers and the memory.                      *)
Stepped(m, word) ==
    LET Reg(to) == [m EXCEPT !.regs[word.reg] = to]
        from == m.regs[word.base]
        sign == IF Negative(word.imm) THEN 1 ELSE 0
    IN  CASE word.op = "li" -> Reg(Value(sign * (Half - 1), word.imm))
          [] word.op = "ori" -> Reg([from EXCEPT !.lo = @ | word.imm])
          [] word.op = "oris" -> Reg([from EXCEPT !.hi = @ | word.imm])
          [] word.op = "stw" -> [m EXCEPT !.memory = Add32(from, word.imm) :> m.regs[word.reg] @@ @]
          [] word.op = "blr" -> m

(* The words from the function's address to its return.                     *)
CodeAt(memory, address) ==
    LET Word(i) == memory[Add32(address, 4 * (i - 1))]
        length == CHOOSE n \in 1 .. 8 : Word(n) = Blr /\ \A i \in 1 .. n - 1 : Word(i) # Blr
    IN  [i \in 1 .. length |-> Word(i)]

CallShim(name, r3, r4) ==
    /\ shims.at = "installed" /\ shims.calls < MaxShimCalls
    /\ LET before == [regs |-> (0 :> ZeroWord @@ 3 :> r3 @@ 4 :> r4 @@ 11 :> r3), memory |-> shims.memory]
           after == FoldLeft(Stepped, before, CodeAt(shims.memory, Add32(shims.entry, OffsetOf(name))))
       IN  shims' = [shims EXCEPT
                        !.memory = after.memory, !.calls = @ + 1,
                        !.passed = IF name \in DOMAIN Captured
                                   THEN Captured[name] :> <<r3, r4>> @@ @ ELSE @,
                        !.last = [name |-> name, given |-> r3, r3 |-> after.regs[3]]]

ShimsNext ==
    \/ \E entry \in TitleEntries : InstallShims(entry)
    \/ \E name \in Shims, r3 \in RingBases, log \in RingLogs : CallShim(name, r3, Value(0, log))

-----------------------------------------------------------------------------
(* readBrowserTitleHleTelemetry                                             *)
TelemetryWord(name) == shims.memory[Add32(shims.entry, Telemetry[name])]
RingBytes == LET log == TelemetryWord("ringSizeLog2").lo IN IF log < 29 THEN 2 ^ (log + 3) ELSE 0
Below32(a, b) == a.hi < b.hi \/ (a.hi = b.hi /\ a.lo < b.lo)
RingInActiveWindow ==
    LET base == TelemetryWord("ringBase")
        bytes == IF RingBytes > 4 THEN RingBytes ELSE 4
        last == Add32(base, bytes - 1)
    IN  /\ base # ZeroWord /\ ~Below32(base, shims.entry)
        /\ last.hi < Half /\ ~Below32(Add32(shims.entry, Half - 1), last)

-----------------------------------------------------------------------------
(* The page reads the ring the title set up last, wherever in 32 bits it    *)
(* and the title are, and every other function returned its own constant,   *)
(* whatever its caller had in the registers: no function runs into the      *)
(* next, and none touches what another keeps.                               *)
ShimsTellTheRing ==
    shims.at = "installed" =>
        LET Given(first) == IF first \in DOMAIN shims.passed THEN shims.passed[first] ELSE <<ZeroWord, ZeroWord>>
        IN  /\ <<TelemetryWord("ringBase"), TelemetryWord("ringSizeLog2")>> = Given("ringBase")
            /\ <<TelemetryWord("rptrWriteback"), TelemetryWord("rptrBlockSizeLog2")>> = Given("rptrWriteback")
            /\ RingInActiveWindow => RingBytes <= Half
            /\ shims.last.r3 =
                   IF shims.last.name = "KeQueryPerformanceFrequency" THEN Frequency
                   ELSE IF shims.last.name \in DOMAIN SmallResult THEN Value(0, SmallResult[shims.last.name])
                   ELSE shims.last.given
=============================================================================
