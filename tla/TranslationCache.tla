--------------------------- MODULE TranslationCache ---------------------------
(***************************************************************************)
(* The executor's cache of translated guest functions                      *)
(* (src/src/xenia_web_bootstrap/probe_backend.cpp) and the compiled code   *)
(* that hangs on it (hir_wasm_jit.cpp, src/render360-guest-jit.mjs).       *)
(*                                                                         *)
(* `main' holds translations with their HIR, at most Budget of them;       *)
(* `code' keeps the compiled code of evicted ones; a memo in front answers *)
(* repeated lookups as long as nothing changed.  The host compiles a hot   *)
(* translation at once, later, or never.  Guest threads are fibers: calls  *)
(* nest and end in any order, and pin what they run.  A run ends by        *)
(* abandoning its fibers; the next title boots on the same core.           *)
(***************************************************************************)
EXTENDS Integers, Sequences, FiniteSets, Functions

CONSTANTS
    GuestFunctions,  \* translation keys
    NeedsBuilder,    \* those whose compiled code refers to its HIR builder
    Budget,          \* translations whose HIR fits the arena budget
    CompiledLimit,   \* kCompiledOnlyCacheLimit
    HotThreshold,    \* runs before a function is compiled
    MaxRewrites,     \* bound on the rewrites of a title's code
    MaxRequests,     \* bound on the compile requests the host takes
    MaxFrames,       \* bound on the calls in progress
    MaxTitles        \* bound on the titles booted on the core

ASSUME TranslationAssumption == MaxFrames \in Nat

VARIABLES
    title,       \* the booted title
    generation,  \* executable content generation of each function's pages
    cached,      \* the two caches, the memo and the pending requests
    host,        \* the host compiler: enabled, requests made, its jobs
    frames,      \* calls in progress
    leaked       \* history: functions pinned by abandoned fibers

cacheVars == <<title, generation, cached, host, frames, leaked>>

Absent == [present |-> FALSE]
NoCode == [title |-> 0, generation |-> 0]
NoMemo == [key |-> CHOOSE f \in GuestFunctions : TRUE, tier |-> "none"]

Current(f) == [title |-> title, generation |-> generation[f]]

TranslationInit ==
    /\ title = 1
    /\ generation = [f \in GuestFunctions |-> 1]
    /\ cached = [main |-> [f \in GuestFunctions |-> Absent],
                 code |-> [f \in GuestFunctions |-> Absent],
                 recency |-> <<>>, memo |-> NoMemo, pending |-> {}]
    /\ host = [enabled |-> TRUE, requests |-> 0, jobs |-> {}]
    /\ frames = {}
    /\ leaked = {}

Fresh(entry, f) == entry.generation = generation[f]
RecencyWithout(recency, gone) == SelectSeq(recency, LAMBDA f : f \notin gone)
Touched(c, f) == [c EXCEPT !.recency = Append(RecencyWithout(@, {f}), f)]

FaultyReleased(c, f) == c
(* JitReleaseSlot *)
Released(c, f) == [c EXCEPT !.pending = {p \in @ : p.slot # f}]

(* Every insertion or erasure bumps g_cache_epoch: the memo no longer holds. *)
Erased(c, f) ==
    [Released(c, f) EXCEPT !.main[f] = Absent, !.memo = NoMemo,
                           !.recency = RecencyWithout(@, {f})]

CodeErased(c, f) == [c EXCEPT !.code[f] = Absent, !.memo = NoMemo]

-----------------------------------------------------------------------------
(* Lookup *)

(* LookupTranslationSlow and LookupCompiledOnly: an entry made from other   *)
(* content is dropped, unless it is running.                                *)
AfterLookup(c, f, needBuilder) ==
    IF c.main[f].present
    THEN IF Fresh(c.main[f], f) THEN Touched(c, f)
         ELSE IF c.main[f].pins > 0 THEN c ELSE Erased(c, f)
    ELSE IF /\ ~needBuilder /\ c.code[f].present
            /\ ~Fresh(c.code[f], f) /\ c.code[f].pins = 0
         THEN CodeErased(c, f) ELSE c

SlowTier(c, f, needBuilder) ==
    CASE c.main[f].present /\ Fresh(c.main[f], f) -> "main"
      [] /\ ~c.main[f].present /\ ~needBuilder /\ c.code[f].present
         /\ Fresh(c.code[f], f) /\ host.enabled -> "code"
      [] OTHER -> "none"

MemoAnswers(c, f) ==
    c.memo.key = f /\ (c.memo.tier = "main" \/ (c.memo.tier = "code" /\ host.enabled))

(* LookupTranslation *)
Looked(c, f, needBuilder) ==
    IF needBuilder THEN [tier |-> SlowTier(c, f, TRUE), cache |-> AfterLookup(c, f, TRUE)]
    ELSE IF MemoAnswers(c, f)
    THEN [tier |-> c.memo.tier,
          cache |-> IF c.memo.tier = "main" THEN Touched(c, f) ELSE c]
    ELSE LET tier == SlowTier(c, f, FALSE)
         IN  [tier |-> tier,
              cache |-> [AfterLookup(c, f, FALSE) EXCEPT !.memo = [key |-> f, tier |-> tier]]]

-----------------------------------------------------------------------------
(* Eviction and retention *)

(* What may go while `busy' makes room for itself.                          *)
Unpinned(c, busy) == {f \in GuestFunctions \ {busy} : c.main[f].present /\ c.main[f].pins = 0}
UsedBefore(c, f, g) ==
    \E i, j \in DOMAIN c.recency : i < j /\ c.recency[i] = f /\ c.recency[j] = g

(* EvictTranslations: the least recently used that is not pinned goes, until *)
(* the budget is kept.                                                      *)
Victims(c, busy) ==
    {f \in Unpinned(c, busy) :
        Cardinality({g \in Unpinned(c, busy) : UsedBefore(c, g, f)}) < Len(c.recency) - Budget}

(* Compiled code that needs no HIR is kept, in that order, while the other  *)
(* cache has room.                                                          *)
Keepable(c, f) ==
    /\ c.main[f].function # NoCode /\ f \notin NeedsBuilder
    /\ c.code[f].present => c.code[f].pins = 0

KeptCode(c, gone) ==
    LET keepable == {f \in gone : Keepable(c, f)}
    IN  {f \in keepable : Cardinality({g \in GuestFunctions : c.code[g].present}
                              \cup {g \in keepable : UsedBefore(c, g, f)}) < CompiledLimit}

Evicted(c, gone) ==
    LET kept == KeptCode(c, gone)
    IN  [c EXCEPT !.main = [f \in GuestFunctions |-> IF f \in gone THEN Absent ELSE c.main[f]],
                  !.code = [f \in GuestFunctions |-> IF f \in kept THEN c.main[f] ELSE c.code[f]],
                  !.recency = RecencyWithout(@, gone),
                  !.pending = {p \in @ : p.slot \notin gone}]

(* RetainTranslatedBuilder: it replaces what the key had, and is pinned     *)
(* while it makes room for itself.                                          *)
Retained(c, f) ==
    LET cleared == LET main == IF c.main[f].present THEN Erased(c, f) ELSE c
                   IN  IF main.code[f].present /\ main.code[f].pins = 0
                       THEN CodeErased(main, f) ELSE main
        entry == [present |-> TRUE, generation |-> generation[f], code |-> Current(f),
                  function |-> NoCode, state |-> "cold", runs |-> 0, request |-> 0, pins |-> 0]
        full == Touched([cleared EXCEPT !.main[f] = entry, !.memo = NoMemo], f)
    IN  Evicted(full, Victims(full, f))

-----------------------------------------------------------------------------
(* Compiled code *)

(* RequestCompile and the host's compile(): `outcome' is what the emitter   *)
(* and the browser make of the function.  A module too large to compile at  *)
(* once is a job; one the browser refuses at once is never answered.        *)
Outcomes == {"rejected", "now", "later", "refused"}
Requested(c, f, outcome) ==
    LET request == host.requests + 1
    IN  CASE outcome = "rejected" -> [c EXCEPT !.main[f].state = "never"]
          [] outcome = "now" -> [c EXCEPT !.main[f].function = c.main[f].code]
          [] OTHER -> [c EXCEPT !.main[f].state = "pending", !.main[f].request = request,
                                !.pending = @ \cup {[request |-> request, slot |-> f]}]

HostAsked(f, code, outcome) ==
    IF outcome = "rejected" THEN host
    ELSE [host EXCEPT !.requests = @ + 1,
                      !.jobs = IF outcome = "later"
                               THEN @ \cup {[request |-> host.requests + 1, code |-> code]} ELSE @]

Compiles(slot) ==
    /\ host.enabled /\ slot.function = NoCode /\ slot.state = "cold"
    /\ slot.runs + 1 >= HotThreshold

(* r360_jit_install *)
Installed(c, job, ok) ==
    LET own == {p \in c.pending : p.request = job.request}
        f == (CHOOSE p \in own : TRUE).slot
        slot == c.main[f]
    IN  IF own = {} \/ ~slot.present THEN [c EXCEPT !.pending = @ \ own]
        ELSE [c EXCEPT !.pending = @ \ own,
                       !.main[f] = IF ok THEN [slot EXCEPT !.function = job.code, !.state = "cold",
                                                           !.request = 0]
                                   ELSE [slot EXCEPT !.state = "never", !.request = 0]]

-----------------------------------------------------------------------------
(* The call runs what the lookup found, pinned; it notes whether that is    *)
(* what the pages hold.                                                     *)
CallBegins(f, tier, how, code) ==
    LET call(n) == [n |-> n, f |-> f, tier |-> tier, how |-> how, current |-> code = Current(f)]
        new == CHOOSE n \in 1 .. MaxFrames : call(n) \notin frames
    IN  frames' = frames \cup {call(new)}

Pinned(c, f, tier) ==
    IF tier = "main" THEN [c EXCEPT !.main[f].pins = @ + 1] ELSE [c EXCEPT !.code[f].pins = @ + 1]

(* ExecuteCachedTranslation of a translation with HIR; JitTakeFunction      *)
(* decides how.  An interior entry starts in the HIR.  Runs are counted up  *)
(* to the last one before the threshold.                                    *)
RunMain(c, f, interior) ==
    LET slot == c.main[f]
    IN  IF interior \/ ~host.enabled \/ slot.state # "cold"
           \/ (slot.function = NoCode /\ ~Compiles(slot))
        THEN /\ cached' = Pinned([c EXCEPT !.main[f].runs =
                                     IF /\ host.enabled /\ slot.state = "cold"
                                        /\ slot.function = NoCode /\ @ + 1 < HotThreshold
                                     THEN @ + 1 ELSE @], f, "main")
             /\ CallBegins(f, "main", "hir", slot.code)
             /\ UNCHANGED host
        ELSE IF slot.function # NoCode
        THEN /\ cached' = Pinned(c, f, "main")
             /\ CallBegins(f, "main", "compiled", slot.function)
             /\ UNCHANGED host
        ELSE \E outcome \in IF host.requests < MaxRequests THEN Outcomes ELSE {"rejected"} :
             LET asked == Requested(c, f, outcome)
             IN  /\ cached' = Pinned(asked, f, "main")
                 /\ host' = HostAsked(f, slot.code, outcome)
                 /\ CallBegins(f, "main", IF outcome = "now" THEN "compiled" ELSE "hir", slot.code)

(* A guest call: DefineOrRunCached.  A translation that cannot be retained, *)
(* because the one it would replace is running, runs once and is dropped.   *)
GuestCalls(f, interior) ==
    /\ Cardinality(frames) < MaxFrames
    /\ LET found == Looked(cached, f, interior)
           c == found.cache
       IN  CASE found.tier = "main" -> RunMain(c, f, interior)
             [] found.tier = "code" ->
                  /\ cached' = Pinned(c, f, "code")
                  /\ CallBegins(f, "code", "compiled", c.code[f].function)
                  /\ UNCHANGED host
             [] OTHER ->
                  IF c.main[f].present /\ c.main[f].pins > 0
                  THEN /\ cached' = c
                       /\ CallBegins(f, "none", "hir", Current(f))
                       /\ UNCHANGED host
                  ELSE RunMain(Retained(c, f), f, interior)
    /\ UNCHANGED <<title, generation, leaked>>

CallReturns(frame) ==
    /\ frames' = frames \ {frame}
    /\ cached' = IF frame.tier = "main" THEN [cached EXCEPT !.main[frame.f].pins = @ - 1]
                 ELSE IF frame.tier = "code" THEN [cached EXCEPT !.code[frame.f].pins = @ - 1]
                 ELSE cached
    /\ UNCHANGED <<title, generation, host, leaked>>

(* JitOsrFunction: a long run in the HIR, or one more interior entry, has   *)
(* its function compiled.                                                   *)
LongRun(frame) ==
    /\ frame.tier = "main" /\ frame.how = "hir" /\ host.requests < MaxRequests
    /\ LET slot == cached.main[frame.f]
       IN  /\ host.enabled /\ slot.function = NoCode /\ slot.state = "cold"
           /\ \E outcome \in Outcomes :
                /\ cached' = Requested(cached, frame.f, outcome)
                /\ host' = HostAsked(frame.f, slot.code, outcome)
    /\ UNCHANGED <<title, generation, frames, leaked>>

(* The browser has compiled a large module, or given up.                    *)
HostCompiled(job, ok) ==
    /\ host' = [host EXCEPT !.jobs = @ \ {job}]
    /\ cached' = Installed(cached, job, ok)
    /\ UNCHANGED <<title, generation, frames, leaked>>

SetJitMode(on) ==
    /\ host.enabled # on
    /\ host' = [host EXCEPT !.enabled = on]
    /\ UNCHANGED <<title, generation, cached, frames, leaked>>

(* g_executable_content_epoch *)
Rewritten(c) == [c EXCEPT !.memo = NoMemo]

(* The guest writes to the pages of a function.                             *)
RewriteCode(f) ==
    /\ FoldFunction(+, 0, generation) < Cardinality(GuestFunctions) + MaxRewrites
    /\ generation' = [generation EXCEPT ![f] = @ + 1]
    /\ cached' = Rewritten(cached)
    /\ UNCHANGED <<title, host, frames, leaked>>

(* The run ends, its fibers are abandoned, and another title boots:         *)
(* ResetSparseGuestMemory starts the generations again and                  *)
(* ResetTranslationCache drops what is not pinned.                          *)
BootNextTitle ==
    /\ title < MaxTitles
    /\ title' = title + 1
    /\ generation' = [f \in GuestFunctions |-> 1]
    /\ frames' = {}
    /\ leaked' = leaked \cup {frame.f : frame \in {fr \in frames : fr.tier # "none"}}
    /\ LET kept(tier) == [f \in GuestFunctions |->
                            IF tier[f].present /\ tier[f].pins > 0 THEN tier[f] ELSE Absent]
           main == kept(cached.main)
       IN  cached' = [main |-> main, code |-> kept(cached.code), memo |-> NoMemo,
                      recency |-> RecencyWithout(cached.recency,
                                                 {f \in GuestFunctions : ~main[f].present}),
                      pending |-> {p \in cached.pending : main[p.slot].present}]
    /\ UNCHANGED host

TranslationNext ==
    \/ \E f \in GuestFunctions, interior \in BOOLEAN : GuestCalls(f, interior)
    \/ \E frame \in frames : CallReturns(frame) \/ LongRun(frame)
    \/ \E job \in host.jobs, ok \in BOOLEAN : HostCompiled(job, ok)
    \/ \E on \in BOOLEAN : SetJitMode(on)
    \/ \E f \in GuestFunctions : RewriteCode(f)
    \/ BootNextTitle

TranslationSpec == TranslationInit /\ [][TranslationNext]_cacheVars

-----------------------------------------------------------------------------
(* A guest function runs as the code its pages hold when it is called,      *)
(* through the memo, the caches, evictions and late compilations, except    *)
(* one that an abandoned fiber keeps pinned.                                *)
RunsCurrentCode == \A frame \in frames : frame.current \/ frame.f \in leaked

(* The memo answers what the caches would.                                  *)
MemoAgrees ==
    cached.memo.tier # "none" /\ MemoAnswers(cached, cached.memo.key) =>
        SlowTier(cached, cached.memo.key, FALSE) = cached.memo.tier

(* What a call runs is not freed under it: every pin is a call's or was     *)
(* left by an abandoned fiber.                                              *)
PinnedStays ==
    \A f \in GuestFunctions :
        LET running(tier) == Cardinality({frame \in frames : frame.f = f /\ frame.tier = tier})
        IN  /\ running("main") > 0 => cached.main[f].present
            /\ running("code") > 0 => cached.code[f].present
            /\ cached.main[f].present =>
                 IF f \in leaked THEN cached.main[f].pins >= running("main")
                 ELSE cached.main[f].pins = running("main")
            /\ cached.code[f].present =>
                 IF f \in leaked THEN cached.code[f].pins >= running("code")
                 ELSE cached.code[f].pins = running("code")

(* Code is installed in the slot it was compiled for, however late the      *)
(* browser answers and whatever became of the slot; the code kept without   *)
(* its HIR does not refer to it.                                            *)
CodeIsOfItsTranslation ==
    \A f \in GuestFunctions :
        /\ cached.main[f].present => cached.main[f].function \in {NoCode, cached.main[f].code}
        /\ cached.code[f].present => cached.code[f].function = cached.code[f].code /\ f \notin NeedsBuilder

(* What the comment at CachedTranslation says: entries are dropped when the *)
(* code pages are rewritten.                                                *)
RewrittenIsDropped == \A frame \in frames : frame.current

\* A guest function runs as the code that is there, from a translation that is
\* there, through every cache.
CodeIsCurrent == RunsCurrentCode /\ MemoAgrees /\ PinnedStays /\ CodeIsOfItsTranslation
=============================================================================
