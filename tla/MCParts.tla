------------------------------ MODULE MCParts ------------------------------
(***************************************************************************)
(* One run for the components that share no state: `part' says which of    *)
(* them moves, the others keep their initial states.                       *)
(***************************************************************************)
EXTENDS ThreadRegistry, XenosBackend, XenosFormats, GpuFoundation, FrameOutput, FramePacing,
        GuestFiles, TitleImage, PortRuntime, PageLibrary, FaultFocus, DeveloperConsole,
        RingTraffic, KernelVariables, CallTrace

VARIABLE part

Keys2 == {[base |-> 0, pitch |-> 1], [base |-> 1, pitch |-> 1]}
AllWords7e3 == 0 .. 2^10 - 1
Mantissas == {0, 1, 2, 3, 7, 8, 2^10, 2^19 - 1, 2^19, 2^20 - 8, 2^20 - 2, 2^20 - 1}
               \cup {2^k : k \in 0 .. 19}
EdgeWords20e4 == {e * 2^20 + m : e \in 0 .. 15, m \in Mantissas}
FirstRows == 0 .. 31
Reads == <<[offset |-> 0, length |-> 1], [offset |-> 3, length |-> 1], [offset |-> 1, length |-> 2],
           [offset |-> 5, length |-> 1], [offset |-> 0, length |-> 1]>>
BlockSample == UNION {i - 2 .. i + 2 : i \in {2, 170, 340, 28900, 29070, 57800}}
Images == {<<>>, <<[data |-> 3, zero |-> 0]>>,
           <<[data |-> 0, zero |-> 3], [data |-> 4, zero |-> 1]>>,
           <<[data |-> 2, zero |-> 5], [data |-> 5, zero |-> 0]>>,
           <<[data |-> 6, zero |-> 1], [data |-> 0, zero |-> 0], [data |-> 1, zero |-> 2]>>}
Chunks == <<1, 2, 3>>
OfferedFiles == "g1" :> {"f1", "f2"} @@ "g2" :> {"f1"}
TwoWorkers == <<"w1", "w2">>

Lwz == [primary |-> 32, xo |-> 0]
Lwzx == [primary |-> 31, xo |-> 23]
LowFault == [code |-> 1, zone |-> "low"]
HighFault == [code |-> 1, zone |-> "high"]
ZeroFault == [code |-> 1, zone |-> "zero"]
StopAt(boundary, fault, op, base) ==
    [boundary |-> boundary, captured |-> fault, op |-> op, base |-> base,
     indexZero |-> TRUE, afterEntry |-> TRUE]
StopSample == {StopAt("kernel-import-unimplemented", LowFault, Branch, "zero"),
               StopAt("unresolved-guest-call", NoFault, Lwz, "zero"),
               StopAt("unsupported-hir", NoFault, Lwzx, "other"),
               StopAt("guest-memory-dependency", ZeroFault, Lwzx, "zero"),
               StopAt("guest-memory-dependency", LowFault, Lwz, "zero"),
               StopAt("guest-memory-dependency", HighFault, Lwz, "r1"),
               StopAt("guest-memory-dependency", HighFault, Lwzx, "r1")}
CallForms == {[owner |-> "begin", tail |-> FALSE], [owner |-> "interior", tail |-> TRUE],
              [owner |-> "same", tail |-> TRUE]}
FaultSample == {HighFault}
ImageSample == {[op |-> Lwz, base |-> "zero", indexZero |-> FALSE, owner |-> "same"]}

ImportedVariables ==
    {{[slot |-> 1, kernel |-> "xboxkrnl", ordinal |-> \h193], [slot |-> 2, kernel |-> "xam", ordinal |-> \h59],
      [slot |-> 3, kernel |-> "xboxkrnl", ordinal |-> \h0E]},
     {[slot |-> 1, kernel |-> "xboxkrnl", ordinal |-> \hAD]}}

Entries32 == {[hi |-> \h9100, lo |-> 0], [hi |-> \h8200, lo |-> \h1F8C]}
Bases32 == {[hi |-> \h9100, lo |-> \h2000], [hi |-> \h8202, lo |-> \hF000]}

partVars == <<vars, gpuVars, pixels, foundationVars, output, pacingVars, filesVars, imageVars,
              portVars, pageVars, focusVars, consoleVars, ringVars, kernelData, shims, trace, part>>

Parts == {"threads", "backend", "formats", "shaders", "targets", "output", "policy",
          "stats", "boot", "range", "tree", "chain", "prep", "imports", "start", "pread",
          "requests", "port", "keys", "saved", "overlay", "mount", "reserve",
          "shelf", "zip", "cover", "prefs", "cache", "pool", "host", "focus", "console", "ring",
          "variables", "shims", "trace"}

PartsInit ==
    /\ part \in Parts
    /\ Init /\ GpuInit /\ FormatsInit /\ FoundationInit /\ OutputInit /\ PacingInit
    /\ BootInit /\ RangeInit /\ TreeInit /\ ChainInit
    /\ PrepInit /\ ImportsInit /\ StartInit /\ PreadInit /\ RequestsInit
    /\ PortInit /\ EngineInit /\ KeysInit /\ SavedInit /\ OverlayInit /\ MountInit /\ ReserveInit
    /\ ShelfInit /\ ZipInit /\ CoverInit /\ PrefsInit /\ CacheInit /\ PoolInit /\ HostInit
    /\ FocusInit /\ ConsoleInit /\ RingInit /\ VariablesInit /\ ShimsInit /\ TraceInit
    /\ part # "ring" => ring.native

(* Where two cases are each long, only one of them at a time: no thread is *)
(* suspended twice while an index of thread-local storage is in use; the    *)
(* longest streams are replayed with everything compiled; and when a ring   *)
(* of the stack history has dropped an event, the core does not run again   *)
(* before the reports.                                                      *)
SuspendedTwiceOrTls == tlsAllocated' # {} => \A s \in Slots : suspendCount'[s] < 2
FailedOrLongest ==
    streamed' = MaxStream => gpu'.shaders = Shaders /\ gpu'.pipelines = {"pipeline"}
DroppedOrRunAgain == guest.sequence = MaxEvents => stop'.since = "nothing"

PartMoves ==
    \/ /\ part = "threads" /\ Next /\ SuspendedTwiceOrTls
       /\ UNCHANGED <<gpuVars, pixels, foundationVars, output, pacingVars, filesVars,
                     imageVars, portVars, pageVars,
                     focusVars, consoleVars, ringVars, kernelData, shims, trace>>
    \/ /\ part = "backend" /\ GpuNext /\ FailedOrLongest
       /\ UNCHANGED <<vars, pixels, foundationVars, output, pacingVars, filesVars, imageVars,
                     portVars, pageVars,
                     focusVars, consoleVars, ringVars, kernelData, shims, trace>>
    \/ /\ part = "formats" /\ FormatsSteps
       /\ UNCHANGED <<vars, gpuVars, foundationVars, output, pacingVars, filesVars, imageVars,
                     portVars, pageVars,
                     focusVars, consoleVars, ringVars, kernelData, shims, trace>>
    \/ /\ part = "shaders" /\ ShaderSteps
       /\ UNCHANGED <<vars, gpuVars, pixels, output, pacingVars, filesVars, imageVars,
                     portVars, pageVars,
                     focusVars, consoleVars, ringVars, kernelData, shims, trace>>
    \/ /\ part = "targets" /\ TargetSteps
       /\ UNCHANGED <<vars, gpuVars, pixels, output, pacingVars, filesVars, imageVars,
                     portVars, pageVars,
                     focusVars, consoleVars, ringVars, kernelData, shims, trace>>
    \/ /\ part = "output" /\ OutputNext
       /\ UNCHANGED <<vars, gpuVars, pixels, foundationVars, pacingVars, filesVars, imageVars,
                     portVars, pageVars,
                     focusVars, consoleVars, ringVars, kernelData, shims, trace>>
    \/ /\ part = "policy" /\ PolicySteps
       /\ UNCHANGED <<vars, gpuVars, pixels, foundationVars, output, filesVars, imageVars,
                     portVars, pageVars,
                     focusVars, consoleVars, ringVars, kernelData, shims, trace>>
    \/ /\ part = "stats" /\ StatsSteps
       /\ UNCHANGED <<vars, gpuVars, pixels, foundationVars, output, filesVars, imageVars,
                     portVars, pageVars,
                     focusVars, consoleVars, ringVars, kernelData, shims, trace>>
    \/ /\ part = "boot" /\ BootSteps
       /\ UNCHANGED <<rangeCache, tree, chain, vars, gpuVars, pixels, foundationVars, output,
                     pacingVars, imageVars, portVars, pageVars,
                     focusVars, consoleVars, ringVars, kernelData, shims, trace>>
    \/ /\ part = "range" /\ RangeSteps
       /\ UNCHANGED <<boot, tree, chain, vars, gpuVars, pixels, foundationVars, output,
                     pacingVars, imageVars, portVars, pageVars,
                     focusVars, consoleVars, ringVars, kernelData, shims, trace>>
    \/ /\ part = "tree" /\ TreeSteps
       /\ UNCHANGED <<boot, rangeCache, chain, vars, gpuVars, pixels, foundationVars, output,
                     pacingVars, imageVars, portVars, pageVars,
                     focusVars, consoleVars, ringVars, kernelData, shims, trace>>
    \/ /\ part = "chain" /\ ChainSteps
       /\ UNCHANGED <<boot, rangeCache, tree, vars, gpuVars, pixels, foundationVars, output,
                     pacingVars, imageVars, portVars, pageVars,
                     focusVars, consoleVars, ringVars, kernelData, shims, trace>>
    \/ /\ part = "prep" /\ PrepSteps
       /\ UNCHANGED <<imports, start, pread, requests, vars, gpuVars, pixels, foundationVars,
                     output, pacingVars, filesVars, portVars, pageVars,
                     focusVars, consoleVars, ringVars, kernelData, shims, trace>>
    \/ /\ part = "imports" /\ ImportSteps
       /\ UNCHANGED <<prep, start, pread, requests, vars, gpuVars, pixels, foundationVars,
                     output, pacingVars, filesVars, portVars, pageVars,
                     focusVars, consoleVars, ringVars, kernelData, shims, trace>>
    \/ /\ part = "start" /\ StartSteps
       /\ UNCHANGED <<prep, imports, pread, requests, vars, gpuVars, pixels, foundationVars,
                     output, pacingVars, filesVars, portVars, pageVars,
                     focusVars, consoleVars, ringVars, kernelData, shims, trace>>
    \/ /\ part = "pread" /\ PreadSteps
       /\ UNCHANGED <<prep, imports, start, requests, vars, gpuVars, pixels, foundationVars,
                     output, pacingVars, filesVars, portVars, pageVars,
                     focusVars, consoleVars, ringVars, kernelData, shims, trace>>
    \/ /\ part = "requests" /\ RequestSteps
       /\ UNCHANGED <<prep, imports, start, pread, vars, gpuVars, pixels, foundationVars,
                     output, pacingVars, filesVars, portVars, pageVars,
                     focusVars, consoleVars, ringVars, kernelData, shims, trace>>
    \/ /\ part = "port" /\ HoldSteps
       /\ UNCHANGED <<engine, keys, saved, overlay, mount, reserve, vars, gpuVars, pixels,
                     foundationVars, output, pacingVars, filesVars, imageVars, pageVars,
                     focusVars, consoleVars, ringVars, kernelData, shims, trace>>
    \/ /\ part = "keys" /\ KeySteps
       /\ UNCHANGED <<port, engine, saved, overlay, mount, reserve, vars, gpuVars, pixels,
                     foundationVars, output, pacingVars, filesVars, imageVars, pageVars,
                     focusVars, consoleVars, ringVars, kernelData, shims, trace>>
    \/ /\ part = "saved" /\ SavedSteps
       /\ UNCHANGED <<port, engine, keys, overlay, mount, reserve, vars, gpuVars, pixels,
                     foundationVars, output, pacingVars, filesVars, imageVars, pageVars,
                     focusVars, consoleVars, ringVars, kernelData, shims, trace>>
    \/ /\ part = "overlay" /\ OverlaySteps
       /\ UNCHANGED <<port, engine, keys, saved, mount, reserve, vars, gpuVars, pixels,
                     foundationVars, output, pacingVars, filesVars, imageVars, pageVars,
                     focusVars, consoleVars, ringVars, kernelData, shims, trace>>
    \/ /\ part = "mount" /\ MountSteps
       /\ UNCHANGED <<port, engine, keys, saved, overlay, reserve, vars, gpuVars, pixels,
                     foundationVars, output, pacingVars, filesVars, imageVars, pageVars,
                     focusVars, consoleVars, ringVars, kernelData, shims, trace>>
    \/ /\ part = "reserve" /\ ReserveSteps
       /\ UNCHANGED <<port, engine, keys, saved, overlay, mount, vars, gpuVars, pixels,
                     foundationVars, output, pacingVars, filesVars, imageVars, pageVars,
                     focusVars, consoleVars, ringVars, kernelData, shims, trace>>
    \/ /\ part = "shelf" /\ ShelfSteps
       /\ UNCHANGED <<zip, cover, prefs, cache, pool, host, vars, gpuVars, pixels,
                     foundationVars, output, pacingVars, filesVars, imageVars, portVars,
                     focusVars, consoleVars, ringVars, kernelData, shims, trace>>
    \/ /\ part = "zip" /\ ZipSteps
       /\ UNCHANGED <<shelf, cover, prefs, cache, pool, host, vars, gpuVars, pixels,
                     foundationVars, output, pacingVars, filesVars, imageVars, portVars,
                     focusVars, consoleVars, ringVars, kernelData, shims, trace>>
    \/ /\ part = "cover" /\ CoverSteps
       /\ UNCHANGED <<shelf, zip, prefs, cache, pool, host, vars, gpuVars, pixels,
                     foundationVars, output, pacingVars, filesVars, imageVars, portVars,
                     focusVars, consoleVars, ringVars, kernelData, shims, trace>>
    \/ /\ part = "prefs" /\ PrefsSteps
       /\ UNCHANGED <<shelf, zip, cover, cache, pool, host, vars, gpuVars, pixels,
                     foundationVars, output, pacingVars, filesVars, imageVars, portVars,
                     focusVars, consoleVars, ringVars, kernelData, shims, trace>>
    \/ /\ part = "cache" /\ CacheSteps
       /\ UNCHANGED <<shelf, zip, cover, prefs, pool, host, vars, gpuVars, pixels,
                     foundationVars, output, pacingVars, filesVars, imageVars, portVars,
                     focusVars, consoleVars, ringVars, kernelData, shims, trace>>
    \/ /\ part = "pool" /\ PoolSteps
       /\ UNCHANGED <<shelf, zip, cover, prefs, cache, host, vars, gpuVars, pixels,
                     foundationVars, output, pacingVars, filesVars, imageVars, portVars,
                     focusVars, consoleVars, ringVars, kernelData, shims, trace>>
    \/ /\ part = "host" /\ HostSteps
       /\ UNCHANGED <<shelf, zip, cover, prefs, cache, pool, vars, gpuVars, pixels,
                     foundationVars, output, pacingVars, filesVars, imageVars, portVars,
                     focusVars, consoleVars, ringVars, kernelData, shims, trace>>
    \/ /\ part = "focus" /\ FocusNext /\ DroppedOrRunAgain
       /\ UNCHANGED <<vars, gpuVars, pixels, foundationVars, output, pacingVars,
                     filesVars, imageVars, portVars, pageVars, consoleVars, ringVars,
                     kernelData, shims, trace>>
    \/ /\ part = "console" /\ ConsoleNext
       /\ UNCHANGED <<vars, gpuVars, pixels, foundationVars, output, pacingVars,
                     filesVars, imageVars, portVars, pageVars, focusVars, ringVars,
                     kernelData, shims, trace>>
    \/ /\ part = "ring" /\ RingNext
       /\ UNCHANGED <<vars, gpuVars, pixels, foundationVars, output, pacingVars,
                     filesVars, imageVars, portVars, pageVars, focusVars, consoleVars,
                     kernelData, shims, trace>>
    \/ /\ part = "variables" /\ VariablesNext
       /\ UNCHANGED <<vars, gpuVars, pixels, foundationVars, output, pacingVars,
                     filesVars, imageVars, portVars, pageVars, focusVars, consoleVars, ringVars,
                     shims, trace>>
    \/ /\ part = "shims" /\ ShimsNext
       /\ UNCHANGED <<vars, gpuVars, pixels, foundationVars, output, pacingVars,
                     filesVars, imageVars, portVars, pageVars, focusVars, consoleVars, ringVars,
                     kernelData, trace>>
    \/ /\ part = "trace" /\ TraceNext
       /\ UNCHANGED <<vars, gpuVars, pixels, foundationVars, output, pacingVars,
                     filesVars, imageVars, portVars, pageVars, focusVars, consoleVars, ringVars,
                     kernelData, shims>>

PartsNext == UNCHANGED part /\ PartMoves

PartsSpec == PartsInit /\ [][PartsNext]_partVars

=============================================================================
