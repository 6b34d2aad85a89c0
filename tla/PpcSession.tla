----------------------------- MODULE PpcSession -----------------------------
(***************************************************************************)
(* The persistent PPC session of render360-browser-ppc-session.mjs: the    *)
(* WebAssembly modules generated for guest functions, kept by content      *)
(* generation, and the continuation slots in which a function of the CFG   *)
(* tier leaves its state when its fuel is used up.                         *)
(*                                                                         *)
(* Functions are translated before the session starts, and never again:    *)
(* code that is rewritten takes the callable module of its function away,  *)
(* while the bytes of the CFG tier stay as they are.                       *)
(*                                                                         *)
(* Addresses, sizes and lowered counts of a generated function are         *)
(* abstracted to the function and the generation of its code.  What is in  *)
(* a continuation slot is the number of quanta the function has run,       *)
(* modulo Quanta.                                                          *)
(***************************************************************************)
EXTENDS Integers, Sequences, FiniteSets

CONSTANTS
    Functions,   \* guest functions
    Keys,        \* continuation keys: thread handles, and Nested
    Nested,      \* the key of a call from generated code
    CfgSlots,    \* r360_wasm_backend_cfg_continuation_slot_count
    CacheLimit,  \* compiled modules kept (512)
    MaxGen,      \* bound: generations of a function's code
    Quanta,      \* bound: quanta are counted modulo this number
    Nothing

ASSUME SessionAssumption ==
    /\ Nested \in Keys
    /\ Nothing \notin Functions
    /\ CfgSlots \in Nat /\ CacheLimit \in Nat \ {0}
    /\ MaxGen \in Nat \ {0} /\ Quanta \in Nat \ {0}

VARIABLES
    gen,       \* the native core: generation of each function's code
    callable,  \* functions that have a callable module
    cfgFn,     \* the function translated last, if the CFG tier took it
    records,   \* functions of the last refresh, with the generation they were
               \* filed under and that of the code they run
    modules,   \* compiledModuleCache, least recently used first
    cont       \* cfgContinuations, nextCfgSlot and the slots themselves

sessionVars == <<gen, callable, cfgFn, records, modules, cont>>

Slots == 0 .. CfgSlots - 1
Owners == Functions \X Keys
Compiled == [fn : Functions, gen : 1 .. MaxGen, tier : {"callable", "cfg"}, code : 1 .. MaxGen]

SessionTypeOK ==
    /\ gen \in [Functions -> 1 .. MaxGen]
    /\ callable \subseteq Functions
    /\ cfgFn \in Functions \cup {Nothing}
    /\ records \subseteq Compiled
    /\ modules \in Seq(Compiled) /\ Len(modules) <= CacheLimit
    /\ cont.held \subseteq [owner : Owners, slot : Slots]
    /\ cont.next \in 0 .. CfgSlots
    /\ cont.slot \in [Slots -> 0 .. Quanta - 1]

NoContinuations == [held |-> {}, next |-> 0, slot |-> [s \in Slots |-> 0]]

\* The generation of all code that was translated.
Translated == 1

\* A new session has loaded nothing; its first refresh is that of a slice.  The
\* function translated last may have been taken by both tiers.
SessionInit ==
    /\ gen = [f \in Functions |-> Translated]
    /\ \E f \in Functions : callable \in {Functions \ {f}, Functions} /\ cfgFn = f
    /\ records = {}
    /\ modules = <<>>
    /\ cont = NoContinuations

-----------------------------------------------------------------------------
(* Refreshing the functions.                                               *)

Describe(f, tier) == [fn |-> f, gen |-> gen[f], tier |-> tier]

\* maybeAppendCfgFallback.
CfgFallback == {Describe(f, "cfg") : f \in {cfgFn} \ (callable \cup {Nothing})}

Descriptors == {Describe(f, "callable") : f \in callable} \cup CfgFallback

Uncompiled(m) == [fn |-> m.fn, gen |-> m.gen, tier |-> m.tier]
RegistryKey == {Uncompiled(r) : r \in records}

\* The cache key of descriptor d is that of module m.
IsFor(m, d) == Uncompiled(m) = d

InCache(d) == \E i \in DOMAIN modules : IsFor(modules[i], d)
PlaceOf(d) == CHOOSE i \in DOMAIN modules : IsFor(modules[i], d)
Cached(d) == modules[PlaceOf(d)]

\* The cache is a Map: it has one module of a key at most.
Without(d) ==
    IF InCache(d)
    THEN SubSeq(modules, 1, PlaceOf(d) - 1) \o SubSeq(modules, PlaceOf(d) + 1, Len(modules))
    ELSE modules

\* The bytes the translator left, filed under the generation of the descriptor.
Compile(d) == [fn |-> d.fn, gen |-> d.gen, tier |-> d.tier, code |-> Translated]

ModuleFor(d) == IF InCache(d) THEN [Cached(d) EXCEPT !.gen = d.gen] ELSE Compile(d)

\* The cache after d was looked up or compiled: d last, the eldest dropped.
CacheAfter(d) ==
    LET ms == Append(Without(d), ModuleFor(d))
    IN  SubSeq(ms, 1 + (IF Len(ms) > CacheLimit THEN Len(ms) - CacheLimit ELSE 0), Len(ms))

-----------------------------------------------------------------------------
(* Continuations, as functions of cont.                                    *)

FaultyOwner(f, key) == <<f, Nested>>

\* continuationOwner.
Owner(f, key) == <<f, key>>

Holds(c, o) == \E h \in c.held : h.owner = o
SlotOf(c, o) == (CHOOSE h \in c.held : h.owner = o).slot

\* acquireCfgContinuation finds a slot.
CanAcquire(c, o) == Holds(c, o) \/ c.next < CfgSlots

Acquired(c, o) ==
    IF Holds(c, o)
    THEN c
    ELSE [held |-> c.held \cup {[owner |-> o, slot |-> c.next]},
          next |-> c.next + 1,
          slot |-> [c.slot EXCEPT ![c.next] = 0]]

\* releaseCfgContinuation: the slot is reset but its number is not used again.
Released(c, o) ==
    [c EXCEPT !.slot[SlotOf(c, o)] = 0,
              !.held = {h \in @ : h.owner # o}]

\* The function ran until its fuel was used up.
Advanced(c, o) == [c EXCEPT !.slot[SlotOf(c, o)] = (@ + 1) % Quanta]

\* A guest_call to g of the CFG tier: it has to return within one quantum;
\* else the call throws and the slot stays as it is.
Returned(c, g) == Released(Acquired(c, Owner(g, Nested)), Owner(g, Nested))
Stuck(c, g) == Advanced(Acquired(c, Owner(g, Nested)), Owner(g, Nested))

\* The code pages of the functions fs have been written: their generation moves
\* on and their callable modules are erased.
CodeWritten(fs) ==
    /\ \A f \in fs : gen[f] < MaxGen
    /\ gen' = [f \in Functions |-> IF f \in fs THEN gen[f] + 1 ELSE gen[f]]
    /\ callable' = callable \ fs

-----------------------------------------------------------------------------
\* The records among rs that would run code which has been rewritten since.
Stale(rs) == {r \in rs : r.code # gen[r.fn]}

\* Two owners never keep their state in the same slot.
SlotsAreOwn == \A h, i \in cont.held : h.slot = i.slot => h = i
=============================================================================
