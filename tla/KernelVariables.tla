-------------------------- MODULE KernelVariables --------------------------
(***************************************************************************)
(* The variables the kernel exports to a title, laid out by hand in one    *)
(* page in front of the guest's copy of the XEX header, and the title's    *)
(* import slots relocated to them (render360-title-controller.mjs); who    *)
(* writes them later (kernel_xboxkrnl_services.cpp), and the trace that    *)
(* follows the title's module handle through them (v74-kernel-trace.mjs).  *)
(***************************************************************************)
EXTENDS Integers, FiniteSets, Functions, TLC, TitleShims

CONSTANTS
    HeaderSizes, \* bytes of a title's XEX header
    ImportPlans, \* sets of [slot, kernel, ordinal]: the variables titles import
    MaxPuts      \* bound on the later writes

ASSUME VariablesAssumption ==
    /\ HeaderSizes \subseteq {size \in Nat : size % 4 = 0 /\ size >= 24}
    /\ MaxPuts \in Nat

VARIABLE kernelData

PageSize == 4096
WordsOf(count) == {4 * i : i \in 0 .. count - 1}
Area(ordinal, offset, fields) == [ordinal |-> ordinal, offset |-> offset, fields |-> fields]

(* XENIA_KERNEL_VARIABLE_LAYOUT *)
Layout ==
    [ExConsoleGameRegion       |-> Area(\h0C,  \h00C, WordsOf(1)),
     KeDebugMonitorData        |-> Area(\h59,  \h004, WordsOf(1)),
     KeTimeStampBundle         |-> Area(\hAD,  \h040, WordsOf(6)),
     XboxHardwareInfo          |-> Area(\h156, \h010, WordsOf(4)),
     XboxKrnlVersion           |-> Area(\h158, \h020, WordsOf(2)),
     XexExecutableModuleHandle |-> Area(\h193, \h000, WordsOf(1)),
     ExLoadedCommandLine       |-> Area(\h1AE, \h800, WordsOf(256)),
     ExLoadedImageName         |-> Area(\h1AF, \h400, WordsOf(64)),
     VdGlobalDevice            |-> Area(\h1BE, \h028, WordsOf(1)),
     VdGlobalXamDevice         |-> Area(\h1BF, \h02C, WordsOf(1)),
     VdGpuClockInMHz           |-> Area(\h1C0, \h030, WordsOf(1)),
     VdHSIOCalibrationLock     |-> Area(\h1C1, \h060, WordsOf(7)),
     KeCertMonitorData         |-> Area(\h266, \h008, WordsOf(1))]

(* The rest of the page, and the header behind it.                          *)
HModule == Area(0, \h100, {\h18, \h1C, \h38, \h3C, \h58})
ProcessInfoBlock == Area(0, \h200, WordsOf(24))
HeaderOffset == \h1000
Header(size) == Area(0, HeaderOffset, WordsOf(size \div 4))

Areas(size) == "header" :> Header(size) @@ "hmodule" :> HModule @@ Layout @@ "process" :> ProcessInfoBlock

VariablesInit ==
    kernelData = [at |-> "none", header |-> 0, pages |-> 0, words |-> <<>>, slots |-> <<>>,
                  puts |-> <<>>]

(* put32 of some fields; a tag stands for what was put.                     *)
Put(words, name, area, fields, version) ==
    [a \in {area.offset + f : f \in fields} |->
          [of |-> name, field |-> a - area.offset, put |-> version]] @@ words

(* The header is copied first; the later areas overwrite what they share.   *)
FilledAreas(size) ==
    LET areas == Areas(size)
        Filled(words, name) == Put(words, name, areas[name], areas[name].fields, 0)
        header == Filled(<<>>, "header")
        module == Filled(header, "hmodule")
        handle == Filled(module, "XexExecutableModuleHandle")
        others == DOMAIN Layout \ {"XexExecutableModuleHandle"}
    IN  Filled(FoldFunctionOnSet(LAMBDA name, words : Filled(words, name),
                                 handle, [n \in others |-> n], others),
               "process")

Backed(import) ==
    {name \in DOMAIN Layout : import.kernel = "xboxkrnl" /\ Layout[name].ordinal = import.ordinal}

(* xeniaUnmappedVariableValue *)
Placeholder(ordinal) == [placeholder |-> ordinal % 4096]

Target(import) ==
    IF Backed(import) # {} THEN [address |-> Layout[CHOOSE name \in Backed(import) : TRUE].offset]
    ELSE Placeholder(import.ordinal)

(* installKernelVariableImports.  The security offset is the header's word  *)
(* at 0x10; the kernel looks for the copy's XEX2 (set_executable_module).   *)
Install(size, plan) ==
    /\ kernelData.at = "none" /\ plan # {}
    /\ LET mapped == 1 + (size + PageSize - 1) \div PageSize
           failed == [kernelData EXCEPT !.at = "failed", !.header = size, !.pages = mapped]
           Slot(import) == [kernel |-> import.kernel, ordinal |-> import.ordinal,
                            value |-> Target(import)]
       IN  \/ kernelData' = failed
           \/ kernelData' =
                 [failed EXCEPT
                    !.at = "installed", !.words = FilledAreas(size),
                    !.slots = [s \in {i.slot : i \in plan} |-> Slot(CHOOSE i \in plan : i.slot = s)],
                    !.puts = [name \in DOMAIN Areas(size) |->
                                 [f \in Areas(size)[name].fields |-> 0]]]

(* Somebody puts some fields of an area anew.                               *)
Stores(name, fields) ==
    LET area == Areas(kernelData.header)[name]
        version == 1 + kernelData.puts[name][CHOOSE f \in fields : TRUE]
    IN  /\ kernelData.at = "installed" /\ version <= MaxPuts
        /\ kernelData' = [kernelData EXCEPT !.words = Put(@, name, area, fields, version),
                                !.puts[name] = [f \in fields |-> version] @@ @]

(* RefreshTimeStampBundle: tick_count, on every kernel call.                *)
ClockTicks == Stores("KeTimeStampBundle", {\h10})

(* The title enters the lock it was given, or keeps its device.             *)
TitleStores ==
    \/ Stores("VdHSIOCalibrationLock", {\h10, \h14, \h18})
    \/ Stores("VdGlobalDevice", {0})
    \/ Stores("VdGlobalXamDevice", {0})

VariablesNext ==
    \/ \E size \in HeaderSizes, plan \in ImportPlans : Install(size, plan)
    \/ ClockTicks \/ TitleStores

-----------------------------------------------------------------------------
(* What the trace finds                                                    *)

WordAt(offset) == IF offset \in DOMAIN kernelData.words THEN kernelData.words[offset].of ELSE "nothing"

(* readGuestLoaderState: from the slot to the variable, from it to the      *)
(* module, from it to the header.                                           *)
LoaderState(slot) ==
    LET variable == kernelData.slots[slot].value
        module == IF "address" \in DOMAIN variable /\ WordAt(variable.address) = "XexExecutableModuleHandle"
                  THEN HModule.offset ELSE -1
    IN  [module |-> module,
         fields |-> {WordAt(module + f) : f \in {\h1C, \h38, \h3C, \h58}},
         magic |-> IF module >= 0 /\ WordAt(module + \h58) = "hmodule" THEN WordAt(HeaderOffset) ELSE "nothing"]

-----------------------------------------------------------------------------
(* Every word of every variable, of the module, of the process block and of *)
(* the header is what was last put into it: nothing a later write reaches   *)
(* belongs to another, and all of it is mapped.                             *)
VariablesKeepTheirs ==
    kernelData.at = "installed" =>
        \A name \in DOMAIN kernelData.puts : \A f \in DOMAIN kernelData.puts[name] :
            LET a == Areas(kernelData.header)[name].offset + f
            IN  /\ kernelData.words[a] = [of |-> name, field |-> f, put |-> kernelData.puts[name][f]]
                /\ a + 4 <= kernelData.pages * PageSize

(* A title's slot holds an address of the page exactly for a variable of    *)
(* xboxkrnl that has storage, and the module handle's leads the trace to    *)
(* the module and the header it was given, whatever is written meanwhile.   *)
SlotsLeadHome ==
    kernelData.at = "installed" =>
        \A s \in DOMAIN kernelData.slots :
            LET import == kernelData.slots[s]
            IN  /\ "address" \in DOMAIN import.value <=> Backed(import) # {}
                /\ import.kernel = "xboxkrnl" /\ import.ordinal = \h193 =>
                       /\ LoaderState(s).fields = {"hmodule"}
                       /\ LoaderState(s).magic = "header"

\* Every variable has its own words, every slot leads to its variable, and a function
\* the page serves itself returns its own and keeps what it was given.
VariablesAreTheirs == VariablesKeepTheirs /\ SlotsLeadHome /\ ShimsTellTheRing
=============================================================================
