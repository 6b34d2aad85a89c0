----------------------------- MODULE TitleImage -----------------------------
(***************************************************************************)
(* From the bytes of default.xex to a started title: the retail image      *)
(* pipeline (retail-xex-image-pipeline.mjs, retail-xex-normal-pipeline.mjs)*)
(* with the chunks it feeds to the core, the kernel import plan            *)
(* (render360-kernel-imports.mjs), the order in which                      *)
(* render360-title-controller.mjs prepares the core, the host reads of     *)
(* render360-browser-wasi.mjs and the read requests that wasm-core.js      *)
(* serves.  Lengths are in units of half an AES block; a decrypted unit is *)
(* its number in the body, or Garbled.                                     *)
(***************************************************************************)
EXTENDS Integers, Sequences, FiniteSets, SequencesExt, FiniteSetsExt

CONSTANTS
    ImageBlocks,   \* bodies: sequences of [data, zero]
    ChunkUnits,    \* 0x7000
    ZeroUnits,     \* 0x4000
    CryptoUnits,   \* r360_xex_crypto_capacity
    FrameChunks,   \* the pattern of chunk lengths of the NORMAL framing
    MaxRecords,    \* import records of a library
    ImageSizes,    \* sizes of prepared images
    HostBlocks,    \* blocks of a host file
    MaxRequests    \* maxRequests of wasm-core.js

ASSUME ImageAssumption ==
    /\ ChunkUnits \in Nat \ {0} /\ ZeroUnits \in Nat \ {0} /\ CryptoUnits > 1
    /\ FrameChunks \in Seq(Nat) /\ Len(FrameChunks) > 0
    /\ ImageBlocks \subseteq Seq([data : Nat, zero : Nat]) /\ CryptoUnits \in Nat
    /\ MaxRecords \in Nat /\ MaxRequests \in Nat /\ IsFiniteSet(HostBlocks)

VARIABLES
    prep,    \* prepareRetailXexImage
    imports, \* decodeKernelImportRecords, buildKernelImportPlan, registration
    start,   \* handoffDefaultXex: two boots of one core
    pread,   \* fdPread
    requests \* mountStfs, extractStfsEntry

imageVars == <<prep, imports, start, pread, requests>>

-----------------------------------------------------------------------------
(* The image pipeline.                                                     *)

Garbled == 0
Zero == -1

Least(a, b) == IF a < b THEN a ELSE b

\* A framed block begins with the size of the next: one unit.
HeadLength(kind) == IF kind = "normal" THEN 1 ELSE 0

\* Where the blocks start in the body; the last number is its length.
BlockStarts(kind, blocks) ==
    LET from[k \in 1 .. Len(blocks) + 1] ==
            IF k = 1 THEN 0 ELSE from[k - 1] + HeadLength(kind) + blocks[k - 1].data
    IN  from
BodyLength(kind, blocks) == BlockStarts(kind, blocks)[Len(blocks) + 1]

PrepInit ==
    prep = [at |-> "idle", kind |-> "none", encrypted |-> FALSE, header |-> "plain", blocks |-> <<>>,
            extra |-> 0, chain |-> 0, off |-> 0, body |-> <<>>, block |-> 1,
             done |-> 0, turn |-> 0, out |-> <<>>]

\* The file may hold a unit more than its blocks say.
FileLength(p) == BodyLength(p.kind, p.blocks) + p.extra

\* prepareRetailXexImage up to its dispatch; r360_xex_crypto_reset.
DecodeHeader(kind, encrypted, blocks, extra) ==
    /\ prep.at = "idle"
    /\ LET p == [prep EXCEPT !.kind = kind, !.encrypted = encrypted, !.blocks = blocks, !.extra = extra,
                             !.header = IF encrypted THEN "encrypted" ELSE "plain"]
           n == FileLength(p)
       IN  prep' = [p EXCEPT !.at = IF ~encrypted THEN "begin"
                                    ELSE IF n = 0 \/ n % 2 = 1 THEN "failed" ELSE "decrypt",
                             !.body = IF encrypted THEN <<>> ELSE [i \in 1..n |-> i]]

FaultyCipherChunk(p) == Least(CryptoUnits, FileLength(p) - p.off)

\* Math.min(cap, left) & ~15
CipherChunk(p) ==
    LET n == Least(CryptoUnits, FileLength(p) - p.off) IN n - (n % 2)

\* CBC: a chunk comes out right when the chain stands where it begins.
Decrypted(p, n) ==
    [i \in 1..n |-> IF p.chain = p.off /\ n % 2 = 0 THEN p.off + i ELSE Garbled]

\* decryptBody, one chunk; afterwards the header says the body is plain.
DecryptChunk ==
    /\ prep.at = "decrypt"
    /\ LET n == CipherChunk(prep)
           p == [prep EXCEPT !.off = @ + n, !.chain = prep.off + n, !.body = @ \o Decrypted(prep, n)]
       IN  prep' = IF n = 0 THEN [prep EXCEPT !.at = "failed"]
                   ELSE IF p.off < FileLength(p) THEN p
                   ELSE [p EXCEPT !.at = "begin", !.off = 0, !.header = "plain"]

\* prepareEncryptedRetailNormal: the whole body in one crypto buffer.
DecryptWhole ==
    /\ prep.at = "decrypt" /\ prep.off = 0 /\ prep.kind = "normal"
    /\ LET n == FileLength(prep)
       IN  prep' = IF n > CryptoUnits THEN [prep EXCEPT !.at = "failed"]
                   ELSE [prep EXCEPT !.at = "begin", !.header = "plain", !.chain = n,
                                    !.body = Decrypted(prep, n)]

\* What there is to do for a block.
Whole(p, k) == p.blocks[k].data + IF p.kind = "basic" THEN p.blocks[k].zero ELSE 1

\* FinishOrAdvanceBasic: past a block that is through, and past the empty ones
\* behind it.
Advanced(p) ==
    LET more == {k \in p.block .. Len(p.blocks) :
                    (IF k = p.block THEN p.done ELSE 0) < Whole(p, k)}
        next == Min(more \cup {Len(p.blocks) + 1})
    IN  IF next = p.block THEN p ELSE [p EXCEPT !.block = next, !.done = 0]

\* r360_xex_prepare_*_begin and the status the callers demand.
BeginPreparation ==
    /\ prep.at = "begin"
    /\ LET p == IF prep.kind = "none" THEN prep ELSE Advanced(prep)
           refused == \/ p.header = "encrypted" \/ p.body = <<>>
                      \/ p.kind = "basic" /\ (p.extra > 0 \/ p.block > Len(p.blocks))
       IN  prep' = [p EXCEPT !.at = IF refused THEN "failed" ELSE "feed"]

Chunk(p, n) == SubSeq(p.body, p.off + 1, p.off + n)

\* prepareNone, one turn of its loop.
FeedNone ==
    /\ prep.at = "feed" /\ prep.kind = "none"
    /\ LET n == Least(Len(prep.body) - prep.off, ChunkUnits)
           p == [prep EXCEPT !.off = @ + n, !.out = @ \o Chunk(prep, n)]
       IN  prep' = [p EXCEPT !.at = IF p.off = Len(p.body) THEN "done" ELSE "feed"]

ZeroesLeft(p) ==
    LET b == p.blocks[p.block] IN IF p.done < b.data THEN 0 ELSE b.data + b.zero - p.done

AfterBasic(p) ==
    LET q == Advanced(p)
    IN  [q EXCEPT !.at = IF q.block <= Len(q.blocks) THEN "feed"
                         ELSE IF q.off = Len(q.body) THEN "done" ELSE "failed"]

\* prepareBasic, a turn that consumes zeroes.
FeedZeroes ==
    /\ prep.at = "feed" /\ prep.kind = "basic" /\ ZeroesLeft(prep) > 0
    /\ LET n == Least(ZeroesLeft(prep), ZeroUnits)
       IN  prep' = AfterBasic([prep EXCEPT !.done = @ + n, !.out = @ \o [i \in 1..n |-> Zero]])

\* prepareBasic, a turn that accepts data.
FeedData ==
    /\ prep.at = "feed" /\ prep.kind = "basic" /\ ZeroesLeft(prep) = 0
    /\ LET left == prep.blocks[prep.block].data - prep.done
           n == Least(Least(left, Len(prep.body) - prep.off), ChunkUnits)
       IN  prep' = IF n = 0 THEN [prep EXCEPT !.at = "failed"]
                   ELSE AfterBasic([prep EXCEPT !.done = @ + n, !.off = @ + n, !.out = @ \o Chunk(prep, n)])

\* AcceptPrepareNormalFrameChunk, one unit: heads go, payload stays.
AcceptUnit(p, unit) ==
    IF p.at # "feed" \/ p.block > Len(p.blocks) THEN [p EXCEPT !.at = "failed"]
    ELSE Advanced([p EXCEPT !.done = @ + 1, !.out = IF p.done = 0 THEN @ ELSE Append(@, unit)])

Accepted(p, units) ==
    LET after[n \in 0 .. Len(units)] ==
            IF n = 0 THEN p ELSE AcceptUnit(after[n - 1], units[n])
    IN  after[Len(units)]

\* prepareNormal: a chunk of the pattern; what the core packed is copied
\* out of the shared buffer before the next one is staged.
FeedFrames ==
    /\ prep.at = "feed" /\ prep.kind = "normal"
    /\ LET n == Least(Len(prep.body) - prep.off, FrameChunks[(prep.turn % Len(FrameChunks)) + 1])
           p == Accepted(prep, Chunk(prep, n))
           q == [p EXCEPT !.off = @ + n, !.turn = @ + 1]
       IN  prep' = IF q.at = "failed" THEN q
                   ELSE IF q.block > Len(q.blocks)
                        THEN [q EXCEPT !.at = IF q.off = Len(q.body) /\ q.out # <<>> THEN "done" ELSE "failed"]
                   ELSE IF q.off = Len(q.body) THEN [q EXCEPT !.at = "failed"] ELSE q

PrepSteps ==
    \/ \E kind \in {"none", "basic", "normal"}, encrypted \in BOOLEAN,
             blocks \in ImageBlocks, extra \in {0, 1} :
          DecodeHeader(kind, encrypted, blocks, extra)
    \/ DecryptChunk
    \/ DecryptWhole
    \/ BeginPreparation
    \/ FeedNone
    \/ FeedZeroes
    \/ FeedData
    \/ FeedFrames

\* The image the blocks describe.
DescribedBlock(kind, blocks, k) ==
    [i \in 1 .. blocks[k].data + (IF kind = "basic" THEN blocks[k].zero ELSE 0) |->
        IF i <= blocks[k].data THEN BlockStarts(kind, blocks)[k] + HeadLength(kind) + i ELSE Zero]
DescribedUpTo(kind, blocks) ==
    LET image[k \in 0 .. Len(blocks)] ==
            IF k = 0 THEN <<>> ELSE image[k - 1] \o DescribedBlock(kind, blocks, k)
    IN  image
DescribedImage(p) ==
    IF p.kind = "none" THEN [i \in 1..FileLength(p) |-> i]
    ELSE DescribedUpTo(p.kind, p.blocks)[Len(p.blocks)]

\* Whatever the chunks, a prepared image is the one its blocks describe,
\* decrypted in one chain, with every run of zeroes in its place
\* (prepareNone, prepareBasic, prepareNormal, decryptBody).
PreparedIsTheImage == prep.at = "done" => prep.out = DescribedImage(prep)

-----------------------------------------------------------------------------
(* The import plan.  A record's address is its place in the library; its   *)
(* descriptor is read from the prepared image.                             *)

\* An image: where its one section lies in memory and in the file, how much
\* of it is stored, how long the buffer is; loaded: the buffer is a memory image.
ImageLayouts == [loaded : BOOLEAN, va : {1, 2}, raw : {1}, stored : 1..2, span : 2..3,
                 length : 1..5, otherValid : BOOLEAN]

RealLayout(pe) ==
    /\ pe.stored <= pe.span /\ pe.raw <= pe.va
    /\ IF pe.loaded THEN pe.length \in (pe.va + pe.stored)..(pe.va + pe.span)
                    ELSE pe.length = pe.raw + pe.stored

ImportsInit ==
    imports = [at |-> "idle", pe |-> [loaded |-> TRUE, va |-> 1, raw |-> 1, stored |-> 1, span |-> 2,
                                        length |-> 3, otherValid |-> FALSE],
               rva |-> 0, layout |-> "none", kernel |-> FALSE, records |-> <<>>, found |-> <<>>,
               thunks |-> {}, slots |-> {}]

\* isMappedImageLayout: SizeOfImage is the end of the section.
MappedLayout(pe) ==
    \/ pe.length >= pe.va + pe.span
    \/ pe.length > pe.raw + pe.stored
    \/ pe.va + Least(pe.stored, pe.span) <= pe.length

\* resolveImportDescriptor: the places that may hold the descriptor, and
\* the one that is believed.  The true place holds a valid one.
Resolved(pe, rva) ==
    LET delta == rva - pe.va
        rawAt == pe.raw + delta
        mapped == rva < pe.length /\ (pe.loaded \/ pe.otherValid)
        raw == delta < pe.stored /\ rawAt < pe.length /\ rawAt # rva /\ (~pe.loaded \/ pe.otherValid)
    IN  IF mapped /\ raw THEN (IF MappedLayout(pe) THEN "mapped" ELSE "raw")
        ELSE IF mapped THEN "mapped" ELSE IF raw THEN "raw" ELSE "none"

\* decodeKernelImportRecords: a library, and how its records are read.
DecodeLibrary(pe, delta, kernel) ==
    /\ imports.at = "idle" /\ RealLayout(pe) /\ delta < pe.stored
    /\ LET layout == Resolved(pe, pe.va + delta)
       IN  imports' = [imports EXCEPT !.at = IF layout = "none" THEN "failed" ELSE "decode", !.pe = pe,
                                      !.rva = pe.va + delta, !.layout = layout, !.kernel = kernel]

\* A thunk belongs to the descriptor before it, if that has none yet.
Pairs(found, r) ==
    /\ found # <<>>
    /\ Last(found).ordinal = r.ordinal
    /\ Last(found).thunk = 0

DecodeRecord(r) ==
    /\ imports.at = "decode" /\ Len(imports.records) < MaxRecords
    /\ LET found == imports.found
           address == Len(imports.records) + 1
       IN  imports' = [imports EXCEPT
             !.records = Append(@, r),
             !.at = IF r.type = 2 \/ (r.type = 1 /\ ~Pairs(found, r)) THEN "failed" ELSE "decode",
             !.found = IF r.type = 0
                       THEN Append(@, [kind |-> "variable", ordinal |-> r.ordinal,
                                        value |-> address, thunk |-> 0])
                       ELSE IF r.type = 1 /\ Pairs(found, r)
                            THEN [@ EXCEPT ![Len(@)].kind = "function", ![Len(@)].thunk = address] ELSE @]

\* registerKernelImportPlan, installKernelVariableImports: the functions of
\* a kernel module are registered by thunk, its variables patched by slot.
RegisterPlan ==
    /\ imports.at = "decode"
    /\ LET ours == IF imports.kernel THEN ToSet(imports.found) ELSE {}
       IN  imports' = [imports EXCEPT !.at = "done",
                         !.thunks = {f.thunk : f \in {g \in ours : g.kind = "function"}},
                         !.slots = {f.value : f \in {g \in ours : g.kind = "variable"}}]

ImportSteps ==
    \/ \E pe \in ImageLayouts, delta \in {0, 1}, kernel \in BOOLEAN : DecodeLibrary(pe, delta, kernel)
    \/ \E type \in {0, 1, 2}, ordinal \in {1, 2} : DecodeRecord([type |-> type, ordinal |-> ordinal])
    \/ RegisterPlan

\* Every record of a kernel library is accounted for: it is the descriptor
\* of a function, that function's thunk, or a variable's slot, and no thunk
\* is shared (decodeKernelImportRecords and the two registrations).
RecordsAccounted ==
    imports.at = "done" /\ imports.kernel =>
       LET functions == {f \in ToSet(imports.found) : f.kind = "function"}
       IN  /\ imports.slots \cup imports.thunks \cup {f.value : f \in functions} = DOMAIN imports.records
           /\ Cardinality(imports.thunks) = Cardinality(functions)
           /\ \A f \in functions : f.thunk = f.value + 1

\* Descriptors of a loaded image are read at their addresses, however much
\* of its zero-filled end is missing ("Xenia always reads import records
\* from the loaded image").
LoadedImagesReadMapped ==
    imports.at # "idle" /\ imports.pe.loaded => imports.layout = "mapped"

-----------------------------------------------------------------------------
(* Boots of one core (handoffDefaultXex).  The staging buffer grows and    *)
(* moves; resets of the core forget.  A boot that throws leaves the core   *)
(* to the next one, as only a trap discards it.                            *)

\* What a file says of its pages: words the loader copies, words it refuses
\* (too many, or a page size that is neither of the two), or none at all.
PageWords == {"usable", "refused", "absent"}

\* start.failed: the boots whose image was refused before the loader came to
\* the page words.

StartInit ==
    start = [at |-> "idle", boot |-> 0, size |-> 0, pointer |-> 1, capacity |-> Min(ImageSizes), held |-> 0,
             pages |-> 0, words |-> "absent", staged |-> <<0, 0>>, loaded |-> 0, loadedPages |-> 0,
             failed |-> {}, kernel |-> 0, imports |-> 0, registers |-> 0, thread |-> 0, ran |-> 0]

\* The checks, the preparation, and the three resets of the kernel.
ResetKernel(size, words) ==
    /\ start.at = "idle" /\ start.boot < 3
    /\ start' = [start EXCEPT !.at = "reserve", !.boot = @ + 1, !.size = size, !.words = words,
                              !.kernel = start.boot + 1, !.thread = 0, !.held = start.pointer]

FaultyHeldAfter(s, moved) == s.held

\* "Never retain either view across the reserve."
HeldAfter(s, moved) == moved

\* stagePreparedPeImage: a buffer that is too small is reserved anew.
ReserveStaging ==
    /\ start.at = "reserve"
    /\ start' = IF start.size <= start.capacity THEN [start EXCEPT !.at = "pages"]
                ELSE [start EXCEPT !.at = "pages", !.capacity = start.size, !.pointer = @ + 1,
                                   !.held = HeldAfter(start, start.pointer + 1)]

\* The page words go through the same buffer; the loader copies them, or
\* refuses them and forgets what it had.  Without words it is not called.
HandPages ==
    /\ start.at = "pages"
    /\ start' = [start EXCEPT !.at = "load",
                              !.pages = CASE start.words = "usable"  -> start.boot
                                          [] start.words = "refused" -> 0
                                          [] start.words = "absent"  -> start.pages]

\* r360_pe_guest_load_at_entry takes the page words with it, whoever they
\* were handed for.
LoadImage ==
    /\ start.at = "load"
    /\ start' = [start EXCEPT !.at = "imports", !.staged = <<start.held, start.boot>>,
                              !.loaded = IF start.held = start.pointer THEN start.boot ELSE 0,
                              !.loadedPages = start.pages, !.pages = 0]

\* An image that is not a PE file, or whose sections do not fit or cannot be
\* read, is refused before the page words are taken and they stay for the
\* next load; one that cannot be mapped, copied or entered is refused after.
RefuseImage(taken) ==
    /\ start.at = "load"
    /\ start' = [start EXCEPT !.at = "idle", !.staged = <<start.held, start.boot>>, !.loaded = 0,
                              !.pages = IF taken THEN 0 ELSE @,
                              !.failed = IF taken THEN @ ELSE @ \cup {start.boot}]

\* The staging buffer cannot grow that far, or a step after the load throws.
AbandonBoot ==
    /\ start.at \in {"reserve", "imports", "warm", "context", "run"}
    /\ start' = [start EXCEPT !.at = "idle"]

\* Save/restore ranges, the shims of an old core, the plan.
RegisterImports ==
    /\ start.at = "imports"
    /\ start' = [start EXCEPT !.at = "warm", !.imports = start.boot]

\* r360_title_handoff_reset resets the execution probe: registers are gone.
WarmDecoder ==
    /\ start.at = "warm"
    /\ start' = [start EXCEPT !.at = "context", !.registers = 0]

\* prepareBrowserMainThreadContext, the entry LR, r1 and r13.
PrepareContext ==
    /\ start.at = "context"
    /\ start' = [start EXCEPT !.at = "run", !.thread = start.boot, !.registers = start.boot]

\* The scanned entry runs; the next launch may find this core again.
RunEntry ==
    /\ start.at = "run"
    /\ start' = [start EXCEPT !.at = "idle", !.ran = start.boot]

StartSteps ==
    \/ \E size \in ImageSizes, words \in PageWords : ResetKernel(size, words)
    \/ ReserveStaging
    \/ HandPages
    \/ LoadImage
    \/ \E taken \in BOOLEAN : RefuseImage(taken)
    \/ AbandonBoot
    \/ RegisterImports
    \/ WarmDecoder
    \/ PrepareContext
    \/ RunEntry

\* A title runs with its own image, imports, registers and primary thread,
\* whatever the boots before left in the core, and with its own page layout
\* when its file has a usable one.  A file that names no pages is mapped by
\* its sections alone, or by the words of a boot whose image was refused
\* before they were taken (no reset of the page's own clears them), never by
\* those of a title that was loaded.
RunsWithItsOwn ==
    start.at = "run" =>
       /\ start.loaded = start.boot /\ start.kernel = start.boot
       /\ start.loadedPages \in CASE start.words = "usable"  -> {start.boot}
                                  [] start.words = "refused" -> {0}
                                  [] start.words = "absent"  -> {0} \cup start.failed
       /\ {start.imports, start.registers, start.thread} = {start.boot}

-----------------------------------------------------------------------------
(* Host reads (fdPread): the guest's buffers are filled as far as the      *)
(* cached blocks go; nothing at all is EAGAIN and is asked again.          *)

PreadInit ==
    pread = [at |-> "idle", cached |-> {}, want |-> <<>>, position |-> 0, total |-> 0,
             bytes |-> <<>>, next |-> 1, answer |-> "none"]

FileEnd == Cardinality(HostBlocks)

Pread(want, position) ==
    /\ pread.at \in {"idle", "again"}
    /\ pread.at = "again" => want = pread.want /\ position = pread.position
    /\ pread' = [pread EXCEPT !.at = "copy", !.want = want, !.position = position, !.total = 0,
                              !.bytes = <<>>, !.next = 1]

\* Where the next buffer is read.
ReadAt(p) == p.position + p.total

\* One buffer: absent data ends the call, and so does a short read.
FillBuffer ==
    /\ pread.at = "copy" /\ pread.next <= Len(pread.want)
    /\ LET from == ReadAt(pread)
           n == Least(pread.want[pread.next], FileEnd - from)
           absent == ~((from + 1)..(from + n) \subseteq pread.cached)
       IN  pread' = IF absent
                    THEN [pread EXCEPT !.at = IF pread.total > 0 THEN "idle" ELSE "again",
                                       !.answer = IF pread.total > 0 THEN "ok" ELSE "eagain"]
                    ELSE [pread EXCEPT !.total = @ + n, !.bytes = @ \o [i \in 1..n |-> from + i],
                                        !.next = @ + 1,
                                       !.at = IF n < pread.want[pread.next] THEN "idle" ELSE "copy",
                                       !.answer = "ok"]

FinishPread ==
    /\ pread.at = "copy" /\ pread.next > Len(pread.want)
    /\ pread' = [pread EXCEPT !.at = "idle", !.answer = "ok"]

\* A block arrives between two calls.
CacheBlock(b) ==
    /\ pread.at # "copy" /\ b \notin pread.cached
    /\ pread' = [pread EXCEPT !.cached = @ \cup {b}]

PreadSteps ==
    \/ \E a, b \in 1..2, position \in 0..(FileEnd - 1) : Pread(<<a, b>>, position)
    \/ FillBuffer
    \/ FinishPread
    \/ \E b \in HostBlocks : CacheBlock(b)

\* What a read has filled is the file from its offset on, without a gap.
ReadsAreRuns ==
    pread.bytes = [i \in 1..pread.total |-> pread.position + i]

-----------------------------------------------------------------------------
(* Read requests of the native STFS code, served by wasm-core.js.  Every   *)
(* request is read from the file across an await and staged in the one     *)
(* buffer; mount and extraction follow each other on one core.             *)

RequestsInit ==
    requests = [at |-> "idle", op |-> "none", pending |-> 0, left |-> 0, count |-> 0, done |-> 0,
                dest |-> 0, wanted |-> 0, captured |-> {}, mounted |-> FALSE, source |-> "none"]

\* Render360Core.init: the network's core, or the embedded one.
InitCore(network, embedded) ==
    /\ requests.at = "idle" /\ requests.source = "none"
    /\ requests' = [requests EXCEPT !.source = IF network THEN "network"
                                            ELSE IF embedded THEN "embedded" ELSE "none",
                                    !.at = IF network \/ embedded THEN "ready" ELSE "failed"]

\* r360_stfs_mount_begin; the native code wants n reads.
BeginMount(n) ==
    /\ requests.at = "ready" /\ ~requests.mounted
    /\ requests' = [requests EXCEPT !.op = "mount", !.at = "serve", !.left = n, !.count = 0, !.done = 0]

\* mountStfs goes on to extract default.xex.
BeginExtract(n) ==
    /\ requests.at = "ready" /\ requests.mounted
    /\ requests' = [requests EXCEPT !.op = "extract", !.at = "serve",
                                 !.left = n, !.wanted = n, !.count = 0, !.done = 0]

\* ++requestCount > maxRequests
OverBudget(r) == r.count + 1 > MaxRequests

\* r360_stfs_extract_bytes_done, read before the await.
Dest(r) == r.done

\* A request is taken, or the operation gives up and resets the native state.
TakeRequest ==
    /\ requests.at = "serve" /\ requests.left > 0
    /\ requests' = IF OverBudget(requests) THEN [requests EXCEPT !.at = "failed", !.left = 0]
                   ELSE [requests EXCEPT !.at = "read", !.count = @ + 1, !.dest = Dest(requests)]

\* stageSlice: short reads end the operation.
ServeRequest(short) ==
    /\ requests.at = "read"
    /\ requests' = IF short THEN [requests EXCEPT !.at = "failed"]
                   ELSE [requests EXCEPT !.at = "serve", !.left = @ - 1, !.done = @ + 1,
                            !.captured = IF requests.op = "extract"
                                            THEN @ \cup {<<requests.dest, requests.done>>} ELSE @]

EndRequests ==
    /\ requests.at = "serve" /\ requests.left = 0
    /\ requests' = [requests EXCEPT !.at = IF requests.op = "mount" THEN "ready" ELSE "done",
                                    !.mounted = TRUE, !.op = "none"]

RequestSteps ==
    \/ \E network, embedded \in BOOLEAN : InitCore(network, embedded)
    \/ \E n \in 0..(MaxRequests + 1) : BeginMount(n) \/ BeginExtract(n)
    \/ TakeRequest
    \/ \E short \in BOOLEAN : ServeRequest(short)
    \/ EndRequests

\* An extraction that completes has every block of the entry at the place
\* it belongs, although the place is taken before the read is awaited
\* (extractStfsEntry).
CapturedInPlace ==
    requests.at = "done" => requests.captured = {<<i, i>> : i \in 0..(requests.wanted - 1)}

\* The image and its imports are what the file holds, however it is cut up.
ImageIsWhole == PreparedIsTheImage /\ RecordsAccounted /\ LoadedImagesReadMapped

\* A title starts in a core that holds nothing of the one before, and reads its
\* files without gaps.
BootIsClean == RunsWithItsOwn /\ ReadsAreRuns /\ CapturedInPlace
=============================================================================
