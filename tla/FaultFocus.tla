----------------------------- MODULE FaultFocus -----------------------------
(***************************************************************************)
(* Why a title stopped, as the developer console names it                  *)
(* (src/developer-console.js) from what the title controller read when the *)
(* guest returned: the boundary, the captured memory fault, and the last   *)
(* stack-pointer writes and calls, which two rings of the HIR executor     *)
(* keep.  The instruction at the stop, the registers and the owners of the *)
(* calls are not captured: every report reads them from the core.  `guest' *)
(* is the running thread, with `frames' the allocations of each live       *)
(* frame, which the console cannot see; `latch' is the fault the sparse    *)
(* memory recorded last, which every later host access replaces.           *)
(***************************************************************************)
EXTENDS Integers, Sequences, SequencesExt

CONSTANTS
    HistoryCapacity,  \* events each ring holds, 32 in the code
    MaxEvents,        \* bound on the events of one execution
    FrameSizes,       \* sizes of stack frames, in units
    StackReserve,     \* from the first r1 to the stack base
    GuestCalls,       \* calls: [owner, tail]
    StopCases,        \* what is read at a stop, see CaptureStop
    NextImages,       \* what a report finds in the core under the next image:
                      \* [op, base, indexZero, owner]
    Latches           \* faults of later host accesses: [code, zone]

ASSUME FocusAssumption == HistoryCapacity \in Nat \ {0} /\ FrameSizes \subseteq Nat \ {0}

VARIABLES guest, stop, latch, first

focusVars == <<guest, stop, latch, first>>

Branch == [primary |-> 18, xo |-> 0]
NoFault == [code |-> 0, zone |-> "none"]
\* boundary, captured and afterEntry are what was read at the stop; op, base,
\* indexZero and owner are what a report finds in the core.  since: what the
\* core has done since the stop.
NoStop == [boundary |-> "running", captured |-> NoFault, afterEntry |-> FALSE,
           op |-> Branch, base |-> "other", indexZero |-> FALSE, owner |-> "recorded",
           since |-> "nothing"]
Stopped == stop.boundary # "running"
Depth == Len(guest.frames)

Push(history, event) ==
    IF Len(history) < HistoryCapacity THEN Append(history, event)
    ELSE Append(Tail(history), event)

FocusInit ==
    /\ guest = [writes |-> <<>>, calls |-> <<>>, sequence |-> 0, frames |-> <<{}>>,
                r1 |-> 0, unmatched |-> FALSE]
    /\ stop = NoStop
    /\ latch = NoFault
    /\ first = "none"

Running == ~Stopped /\ guest.sequence < MaxEvents

(* A tail call keeps the logical depth.  `owner' tells where the target     *)
(* lies: in the .pdata record of the source, at the beginning of another    *)
(* one or inside it.                                                        *)
GuestCall(owner, tail) ==
    /\ Running
    /\ guest' = [guest EXCEPT
         !.sequence = @ + 1,
         !.calls = Push(@, [sequence |-> guest.sequence + 1, depth |-> Depth,
                            owner |-> owner, tail |-> tail]),
         !.frames = IF tail THEN @ ELSE Append(@, {})]
    /\ UNCHANGED <<stop, latch, first>>

MoveR1(delta) ==
    /\ Running
    /\ guest' = [guest EXCEPT
         !.sequence = @ + 1,
         !.writes = Push(@, [sequence |-> guest.sequence + 1, depth |-> Depth,
                             delta |-> delta]),
         !.r1 = @ + delta,
         !.unmatched = delta > 0 /\ delta \notin guest.frames[Depth],
         !.frames[Depth] = IF delta < 0 THEN @ \cup {-delta} ELSE @]
    /\ UNCHANGED <<stop, latch, first>>

GuestReturn ==
    /\ ~Stopped /\ Depth > 1
    /\ guest' = [guest EXCEPT !.frames = Front(@)]
    /\ UNCHANGED <<stop, latch, first>>

-----------------------------------------------------------------------------
(* What the console reads. *)

MemoryPrimaries == 32 .. 55
IndexedLoads == {23, 55, 87, 119, 151, 183, 215, 247, 279, 311, 343, 375, 407, 439}

InstructionKind(op) ==
    CASE op.primary \in {14, 15} -> "addi"
      [] op.primary = 31 /\ op.xo \in {26, 58} -> "cntlz"
      [] op.primary = 31 /\ op.xo \in IndexedLoads -> "x-form-memory"
      [] op.primary \in {58, 62} -> "ds-form-memory"
      [] op.primary \in MemoryPrimaries -> "d-form-memory"
      [] op.primary \in {16, 18} -> "branch"
      [] op.primary = 19 /\ op.xo \in {16, 528} -> "branch-to-register"
      [] OTHER -> "other"

FaultyActiveFault == latch
(* The fault is the one captured with the result; the live latch stands in  *)
(* for it only where there is no result.                                    *)
ActiveFault == IF ~Stopped THEN latch ELSE stop.captured
Faulted == ActiveFault.code # 0

LastWrite == Last(guest.writes)
LastCall == Last(guest.calls)
HistoryReady == guest.writes # <<>> /\ guest.calls # <<>>
TailCall == guest.calls # <<>> /\ LastCall.tail

IndexedEntryZero ==
    /\ Faulted /\ ActiveFault.zone = "zero"
    /\ InstructionKind(stop.op) = "x-form-memory"
    /\ stop.afterEntry /\ stop.base = "zero" /\ stop.indexZero

LowApertureFault ==
    /\ Faulted /\ ActiveFault.zone \in {"zero", "low"}
    /\ InstructionKind(stop.op) \in {"d-form-memory", "ds-form-memory"}
    /\ stop.base = "zero"

UnresolvedTail == stop.boundary = "unresolved-guest-call" /\ TailCall
UnsupportedTail == stop.boundary = "unsupported-hir" /\ TailCall

KernelImportBlocker == stop.boundary = "kernel-import-unimplemented"

(* The call that entered the frame of the last r1 write: the newest one     *)
(* from the depth above before it.                                          *)
EnteringCalls ==
    {i \in DOMAIN guest.calls :
        /\ guest.calls[i].depth = LastWrite.depth - 1
        /\ guest.calls[i].sequence < LastWrite.sequence}
EnteringCall == guest.calls[CHOOSE i \in EnteringCalls : \A j \in EnteringCalls : j <= i]

MatchingAllocation ==
    \E i \in DOMAIN guest.writes :
        /\ guest.writes[i].depth = LastWrite.depth
        /\ EnteringCalls # {} => guest.writes[i].sequence > EnteringCall.sequence
        /\ guest.writes[i].delta = -LastWrite.delta

MissingAllocation ==
    /\ HistoryReady
    /\ LastWrite.delta > 0 /\ LastWrite.depth > 1
    /\ EnteringCalls # {} /\ ~MatchingAllocation

(* runtimeOwner looks the addresses of a call up in the image loaded now.   *)
OwnerOf(call) == IF stop.owner = "recorded" THEN call.owner ELSE stop.owner

SameOwner ==
    \/ EnteringCalls # {} /\ OwnerOf(EnteringCall) = "same"
    \/ TailCall /\ OwnerOf(LastCall) = "same"
CrossInterior ==
    \/ EnteringCalls # {} /\ EnteringCall.tail /\ OwnerOf(EnteringCall) = "interior"
    \/ TailCall /\ OwnerOf(LastCall) = "interior"

CrossedGuard == guest.r1 > StackReserve /\ ActiveFault.code = 1
\* The effective address is the fault's own, for the three memory forms.
R1Fault ==
    /\ Faulted /\ stop.base = "r1"
    /\ InstructionKind(stop.op) \in {"d-form-memory", "ds-form-memory", "x-form-memory"}

StackFocus ==
    CASE MissingAllocation /\ SameOwner -> "SAME_PDATA_TAIL_FRAME_SPLIT"
      [] MissingAllocation /\ ~SameOwner /\ CrossInterior ->
            "CROSS_PDATA_INTERIOR_TAIL_STACK_MISMATCH"
      [] OTHER ->
         CASE CrossedGuard /\ R1Fault /\ MissingAllocation -> "FRAME_ENTRY_MISSING_PROLOGUE"
           [] CrossedGuard /\ R1Fault /\ ~MissingAllocation /\ HistoryReady ->
                 "STACK_BALANCE_OR_EPILOGUE_MISMATCH"
           [] CrossedGuard /\ R1Fault /\ ~HistoryReady -> "STACK_FRAME_TEARDOWN_MISMATCH"
           [] ~(CrossedGuard /\ R1Fault) /\ Faulted -> "GUEST_MEMORY_BOUNDARY"
           [] OTHER -> "CPU_RUNTIME_BLOCKER"

(* What is named when no register that is zero explains the fault.          *)
OtherFocus ==
    CASE UnresolvedTail \/ UnsupportedTail -> "CPU_RUNTIME_BLOCKER"
      [] ~(UnresolvedTail \/ UnsupportedTail) /\ KernelImportBlocker -> "KERNEL_IMPORT_BLOCKER"
      [] OTHER -> StackFocus

ZeroRegisterCauses == {"TITLE_ENTRY_INDEXED_ZERO_DEPENDENCY", "XENIA_ZERO_APERTURE_STATE_MISSING"}

(* problemFocus: the first classification that fits. *)
ProblemFocus ==
    CASE IndexedEntryZero -> "TITLE_ENTRY_INDEXED_ZERO_DEPENDENCY"
      [] LowApertureFault /\ ~IndexedEntryZero -> "XENIA_ZERO_APERTURE_STATE_MISSING"
      [] OTHER -> OtherFocus

(* The cells the console's card shows. *)
ShownCells ==
    CASE ProblemFocus = "KERNEL_IMPORT_BLOCKER" -> "kernel service"
      [] ProblemFocus = "CPU_RUNTIME_BLOCKER" /\ (UnresolvedTail \/ UnsupportedTail) -> "tail target"
      [] OTHER -> "r1 change and fault"

-----------------------------------------------------------------------------
(* The controller reads the boundary and the fault as soon as the guest has *)
(* returned.  A service may have failed on a guest address just before, so  *)
(* a stop that is no memory fault can capture one as well; at an import the *)
(* instruction is the branch that called it.                                *)
Plausible(case) ==
    /\ case.boundary = "guest-memory-dependency" => case.captured.code # 0 /\ case.op # Branch
    /\ case.boundary = "kernel-import-unimplemented" => case.op = Branch

CaptureStop(case) ==
    /\ ~Stopped /\ Plausible(case)
    /\ stop' = [boundary |-> case.boundary, captured |-> case.captured, afterEntry |-> case.afterEntry,
                op |-> case.op, base |-> case.base, indexZero |-> case.indexZero, owner |-> "recorded",
                since |-> "nothing"]
    /\ latch' = case.captured
    /\ UNCHANGED <<guest, first>>

(* Another thread or function of the title runs on the core to its end: the *)
(* last registers are its own.  Which register is the base is in the code;  *)
(* of an indexed access it matters only whether both are zero.              *)
RunAgain(zero) ==
    /\ Stopped
    /\ stop' = [stop EXCEPT !.base = IF @ = "r1" THEN @ ELSE IF zero THEN "zero" ELSE "other",
                            !.indexZero = zero,
                            !.since = IF @ = "nothing" THEN "ran" ELSE @]
    /\ UNCHANGED <<guest, latch, first>>

(* The next launch loads its image into the same core, while the result of  *)
(* the last one is still published: code, owners and registers are others.  *)
LoadAgain(image) ==
    /\ Stopped
    /\ stop' = [stop EXCEPT !.op = image.op, !.base = image.base, !.indexZero = image.indexZero,
                            !.owner = image.owner, !.since = "loaded"]
    /\ UNCHANGED <<guest, latch, first>>

(* The first report of a stop: it reads the code around every address of    *)
(* the history, which leaves its own last access in the latch.              *)
FirstReport ==
    /\ Stopped /\ first = "none"
    /\ first' = ProblemFocus
    /\ latch' \in Latches
    /\ UNCHANGED <<guest, stop>>

HostRead(fault) ==
    /\ Stopped /\ first # "none"
    /\ latch' = fault
    /\ UNCHANGED <<guest, stop, first>>

FocusNext ==
    \/ \E kind \in GuestCalls : GuestCall(kind.owner, kind.tail)
    \/ \E size \in FrameSizes : MoveR1(size) \/ MoveR1(-size)
    \/ GuestReturn
    \/ \E case \in StopCases : CaptureStop(case)
    \/ \E zero \in BOOLEAN : RunAgain(zero)
    \/ \E image \in NextImages : LoadAgain(image)
    \/ FirstReport
    \/ \E fault \in Latches : HostRead(fault)

-----------------------------------------------------------------------------
(* A report made later names the same cause as the first one, although the  *)
(* reports themselves and the GPU read guest memory in between.  Once the   *)
(* title has run on, only a cause that lies in a register being zero can    *)
(* come or go; once another image is loaded the cause of the old stop is    *)
(* not named reliably any more.                                             *)
FocusIsOfTheStop ==
    first # "none" =>
        /\ stop.since = "nothing" => ProblemFocus = first
        /\ stop.since = "ran" => ProblemFocus = first \/ {ProblemFocus, first} \cap ZeroRegisterCauses # {}

(* A frame is said to miss its allocation exactly when it made none of the  *)
(* size it tears down, as long as the rings have dropped nothing.           *)
MissingIsReal ==
    Stopped /\ guest.sequence <= HistoryCapacity =>
        (MissingAllocation <=> guest.unmatched /\ LastWrite.depth > 1)

(* An import that is not implemented is named and shown, whatever the stack *)
(* history, the fault latch and the registers hold, until another image is  *)
(* loaded.                                                                  *)
ImportIsNamed ==
    Stopped /\ stop.boundary = "kernel-import-unimplemented" /\ stop.since # "loaded" =>
        ProblemFocus = "KERNEL_IMPORT_BLOCKER" /\ ShownCells = "kernel service"

\* A report names the cause of the stop, as far as the core still holds what
\* the report reads of it.
CauseIsNamed == FocusIsOfTheStop /\ MissingIsReal /\ ImportIsNamed
=============================================================================
