------------------------ MODULE TranslationCacheProofs ------------------------
(***************************************************************************)
(* That a guest function runs as the code its pages hold, through every    *)
(* cache: for all functions, budgets, thresholds and bounds, and whichever *)
(* translations an eviction takes.                                         *)
(***************************************************************************)
EXTENDS TranslationCache, FiniteSetTheorems, TLAPS

-----------------------------------------------------------------------------
(* The inductive invariant *)

Codes == [title : Nat, generation : Nat]
Entries == [present : {TRUE}, generation : Nat, code : Codes, function : Codes,
            state : {"cold", "pending", "never"}, runs : Nat, request : Nat, pins : Nat]
Slots == Entries \cup {Absent}
Requests == [request : Nat, slot : GuestFunctions]
Jobs == [request : Nat, code : Codes]
Calls == [n : 1 .. MaxFrames, f : GuestFunctions, tier : {"main", "code", "none"},
          how : {"hir", "compiled"}, current : BOOLEAN]

\* Types of the caches.  What the recency is does not matter to what is claimed.
CacheTypes(c) ==
    /\ c = [main |-> c.main, code |-> c.code, recency |-> c.recency, memo |-> c.memo,
            pending |-> c.pending]
    /\ c.main \in [GuestFunctions -> Slots]
    /\ c.code \in [GuestFunctions -> Slots]
    /\ c.pending \subseteq Requests

HostTypes(h) ==
    h \in [enabled : BOOLEAN, requests : Nat, jobs : SUBSET Jobs]

\* An entry has the code that the pages held at its generation, unless an
\* abandoned fiber keeps it; what was compiled is compiled from that.
EntriesInv(c, t, L) ==
    \A f \in GuestFunctions :
        /\ c.main[f].present =>
             /\ c.main[f].function \in {NoCode, c.main[f].code}
             /\ f \notin L => c.main[f].code = [title |-> t, generation |-> c.main[f].generation]
        /\ c.code[f].present =>
             /\ c.code[f].function = c.code[f].code /\ f \notin NeedsBuilder
             /\ f \notin L => c.code[f].code = [title |-> t, generation |-> c.code[f].generation]

\* What the memo remembers is there, and from the content the pages hold.
MemoInv(c, gen) ==
    LET f == c.memo.key
    IN  /\ c.memo.tier = "main" =>
             f \in GuestFunctions /\ c.main[f].present /\ c.main[f].generation = gen[f]
        /\ c.memo.tier = "code" =>
             /\ f \in GuestFunctions /\ ~c.main[f].present
             /\ c.code[f].present /\ c.code[f].generation = gen[f]

\* A request that is waited for is of a translation that is still there, and
\* the host's job for it compiles that one.
PendingInv(c, h) ==
    /\ \A p, q \in c.pending : p.request = q.request => p = q
    /\ \A p \in c.pending :
         /\ p.request <= h.requests /\ c.main[p.slot].present
         /\ \A job \in h.jobs : job.request = p.request => job.code = c.main[p.slot].code
    /\ \A job \in h.jobs : job.request <= h.requests

\* PinnedStays for one tier.
Running(fs, f, tier) == {frame \in fs : frame.f = f /\ frame.tier = tier}
PinsInv(slots, tier, fs, L) ==
    \A f \in GuestFunctions :
        LET n == Cardinality(Running(fs, f, tier))
        IN  /\ n > 0 => slots[f].present
            /\ slots[f].present => IF f \in L THEN slots[f].pins >= n ELSE slots[f].pins = n

CacheInv(c, t, gen, h, fs, L) ==
    /\ CacheTypes(c)
    /\ EntriesInv(c, t, L)
    /\ MemoInv(c, gen)
    /\ PendingInv(c, h)
    /\ PinsInv(c.main, "main", fs, L)
    /\ PinsInv(c.code, "code", fs, L)

WorldInv ==
    /\ title \in Nat
    /\ generation \in [GuestFunctions -> Nat]
    /\ HostTypes(host)
    /\ frames \subseteq Calls /\ IsFiniteSet(frames)

TranslationInv ==
    /\ WorldInv
    /\ RunsCurrentCode
    /\ CacheInv(cached, title, generation, host, frames, leaked)
-----------------------------------------------------------------------------
(* What the operations do to the fields of the caches                       *)

\* A slot is an entry or empty.
LEMMA SlotIs ==
    ASSUME NEW s \in Slots
    PROVE  /\ s.present \in BOOLEAN
           /\ s.present => s \in Entries
           /\ ~s.present => s = Absent
<1>1. CASE s = Absent
  BY <1>1 DEF Absent
<1>2. CASE s \in Entries
  <2>1. s.present = TRUE
    BY <1>2 DEF Entries
  <2> QED BY <1>2, <2>1
<1> QED BY <1>1, <1>2 DEF Slots

LEMMA AbsentIs == Absent \in Slots /\ ~Absent.present
BY DEF Slots, Absent

\* Touched changes the recency only.
LEMMA TouchedFields ==
    ASSUME NEW c, NEW f, CacheTypes(c)
    PROVE  LET d == Touched(c, f)
           IN  /\ CacheTypes(d)
               /\ d.main = c.main /\ d.code = c.code /\ d.memo = c.memo /\ d.pending = c.pending
<1> DEFINE r == Append(RecencyWithout(c.recency, {f}), f)
<1>1. Touched(c, f) = [c EXCEPT !.recency = r]
  BY DEF Touched
<1> HIDE DEF r
<1> QED BY <1>1 DEF CacheTypes

\* Erased empties one slot, and forgets what was asked for it.
LEMMA ErasedFields ==
    ASSUME NEW c, NEW f \in GuestFunctions, CacheTypes(c)
    PROVE  LET d == Erased(c, f)
           IN  /\ CacheTypes(d)
               /\ d.main = [c.main EXCEPT ![f] = Absent]
               /\ d.code = c.code /\ d.memo = NoMemo
               /\ d.pending = {p \in c.pending : p.slot # f}
<1> DEFINE r == RecencyWithout(c.recency, {f})
           w == {p \in c.pending : p.slot # f}
           m == [c.main EXCEPT ![f] = Absent]
<1>1. Erased(c, f) = [[c EXCEPT !.pending = w] EXCEPT !.main[f] = Absent, !.memo = NoMemo,
                                                      !.recency = r]
  BY DEF Erased, Released, CacheTypes
<1>2. m \in [GuestFunctions -> Slots] /\ w \subseteq Requests
  BY AbsentIs DEF CacheTypes
<1>3. Erased(c, f) = [main |-> m, code |-> c.code, recency |-> r, memo |-> NoMemo, pending |-> w]
  BY <1>1 DEF CacheTypes
<1> HIDE DEF r, w, m
<1>4. CacheTypes(Erased(c, f))
  BY <1>2, <1>3 DEF CacheTypes
<1> QED BY <1>3, <1>4 DEF r, w, m

LEMMA CodeErasedFields ==
    ASSUME NEW c, NEW f \in GuestFunctions, CacheTypes(c)
    PROVE  LET d == CodeErased(c, f)
           IN  /\ CacheTypes(d)
               /\ d.main = c.main
               /\ d.code = [c.code EXCEPT ![f] = Absent] /\ d.memo = NoMemo
               /\ d.pending = c.pending
<1> DEFINE m == [c.code EXCEPT ![f] = Absent]
<1>1. m \in [GuestFunctions -> Slots]
  BY AbsentIs DEF CacheTypes
<1> DEFINE a == [c EXCEPT !.code[f] = Absent]
<1>2. a = [main |-> c.main, code |-> m, recency |-> c.recency, memo |-> c.memo,
           pending |-> c.pending]
  BY DEF CacheTypes
<1>3. CodeErased(c, f) = [a EXCEPT !.memo = NoMemo]
  BY DEF CodeErased
<1> HIDE DEF m, a
<1>4. CodeErased(c, f) = [main |-> c.main, code |-> m, recency |-> c.recency, memo |-> NoMemo,
                          pending |-> c.pending]
  BY <1>2, <1>3
<1>5. CacheTypes(CodeErased(c, f))
  BY <1>1, <1>4 DEF CacheTypes
<1> QED BY <1>4, <1>5 DEF m

-----------------------------------------------------------------------------
(* What may be dropped                                                      *)

LEMMA RunningIsNat ==
    ASSUME NEW fs, IsFiniteSet(fs), NEW f, NEW tier
    PROVE  IsFiniteSet(Running(fs, f, tier)) /\ Cardinality(Running(fs, f, tier)) \in Nat
<1>1. Running(fs, f, tier) \in SUBSET fs
  BY DEF Running
<1>2. IsFiniteSet(Running(fs, f, tier))
  BY <1>1, FS_Subset
<1> QED BY <1>2, FS_CardinalityType

\* An entry without pins is not running, so its slot can be emptied or, in the
\* code tier, taken by another entry without pins.
LEMMA PinsStay ==
    ASSUME NEW slots, NEW new, NEW tier, NEW fs, NEW L, IsFiniteSet(fs),
           PinsInv(slots, tier, fs, L),
           \A f \in GuestFunctions :
               \/ new[f] = slots[f]
               \/ /\ slots[f].present => slots[f].pins = 0
                  /\ ~new[f].present \/ new[f].pins = 0
    PROVE  PinsInv(new, tier, fs, L)
<1> SUFFICES ASSUME NEW f \in GuestFunctions
             PROVE  LET n == Cardinality(Running(fs, f, tier))
                    IN  /\ n > 0 => new[f].present
                        /\ new[f].present =>
                             IF f \in L THEN new[f].pins >= n ELSE new[f].pins = n
  BY DEF PinsInv
<1> DEFINE n == Cardinality(Running(fs, f, tier))
<1>1. n \in Nat
  BY RunningIsNat
<1>2. /\ n > 0 => slots[f].present
      /\ slots[f].present => IF f \in L THEN slots[f].pins >= n ELSE slots[f].pins = n
  BY DEF PinsInv
<1> HIDE DEF n
<1>3. CASE new[f] = slots[f]
  BY <1>2, <1>3 DEF n
<1>4. CASE /\ slots[f].present => slots[f].pins = 0
           /\ ~new[f].present \/ new[f].pins = 0
  <2>1. CASE slots[f].present
    <3>1. n = 0
      BY <1>1, <1>2, <1>4, <2>1
    <3> QED BY <3>1, <1>4 DEF n
  <2>2. CASE ~slots[f].present
    <3>1. n = 0
      BY <1>1, <1>2, <2>2
    <3> QED BY <3>1, <1>4 DEF n
  <2> QED BY <2>1, <2>2
<1> QED BY <1>3, <1>4

LEMMA DroppingKeeps ==
    ASSUME NEW c, NEW d, NEW t, NEW gen, NEW h, NEW fs, NEW L, IsFiniteSet(fs),
           CacheInv(c, t, gen, h, fs, L), CacheTypes(d),
           \A f \in GuestFunctions :
               d.main[f] = c.main[f]
                   \/ (d.main[f] = Absent /\ (c.main[f].present => c.main[f].pins = 0)),
           \A f \in GuestFunctions :
               d.code[f] = c.code[f]
                   \/ (d.code[f] = Absent /\ (c.code[f].present => c.code[f].pins = 0)),
           d.memo.tier = "none" \/ MemoInv(d, gen),
           d.pending \subseteq c.pending,
           \A p \in d.pending : d.main[p.slot] = c.main[p.slot]
    PROVE  CacheInv(d, t, gen, h, fs, L)
<1> USE DEF CacheInv
<1>1. EntriesInv(d, t, L)
  BY AbsentIs DEF EntriesInv
<1>2. MemoInv(d, gen)
  <2>1. CASE d.memo.tier = "none"
    BY <2>1 DEF MemoInv
  <2> QED BY <2>1
<1>3. PendingInv(d, h)
  BY DEF PendingInv
<1>4. PinsInv(d.main, "main", fs, L)
  BY PinsStay, AbsentIs
<1>5. PinsInv(d.code, "code", fs, L)
  BY PinsStay, AbsentIs
<1> QED BY <1>1, <1>2, <1>3, <1>4, <1>5

-----------------------------------------------------------------------------
(* Lookup *)

Holds(c) == CacheInv(c, title, generation, host, frames, leaked)

LEMMA TouchedKeeps ==
    ASSUME NEW c, NEW f, IsFiniteSet(frames), Holds(c)
    PROVE  Holds(Touched(c, f))
<1> DEFINE d == Touched(c, f)
<1>1. CacheTypes(c)
  BY DEF Holds, CacheInv
<1>2. /\ CacheTypes(d)
      /\ d.main = c.main /\ d.code = c.code /\ d.memo = c.memo /\ d.pending = c.pending
  BY <1>1, TouchedFields
<1>3. MemoInv(c, generation)
  BY DEF Holds, CacheInv
<1> HIDE DEF d
<1>4. MemoInv(d, generation)
  BY <1>2, <1>3 DEF MemoInv
<1>5. CacheInv(d, title, generation, host, frames, leaked)
  BY <1>2, <1>4, DroppingKeeps DEF Holds
<1> QED BY <1>5 DEF Holds, d

LEMMA ErasedKeeps ==
    ASSUME NEW c, NEW f \in GuestFunctions, IsFiniteSet(frames), Holds(c),
           c.main[f].present => c.main[f].pins = 0
    PROVE  Holds(Erased(c, f))
<1> DEFINE d == Erased(c, f)
<1>1. CacheTypes(c)
  BY DEF Holds, CacheInv
<1>2. /\ CacheTypes(d)
      /\ d.main = [c.main EXCEPT ![f] = Absent]
      /\ d.code = c.code /\ d.memo = NoMemo
      /\ d.pending = {p \in c.pending : p.slot # f}
  BY <1>1, ErasedFields
<1> HIDE DEF d
<1>3. \A p \in d.pending : p.slot \in GuestFunctions
  BY <1>2 DEF CacheTypes, Requests
<1>4. \A g \in GuestFunctions : d.main[g] = IF g = f THEN Absent ELSE c.main[g]
  BY <1>1, <1>2 DEF CacheTypes
<1>5. d.memo.tier = "none"
  BY <1>2 DEF NoMemo
<1>6. CacheInv(d, title, generation, host, frames, leaked)
  <2>1. \A p \in d.pending : d.main[p.slot] = c.main[p.slot]
    BY <1>2, <1>3, <1>4
  <2>2. d.pending \subseteq c.pending
    BY <1>2
  <2>3. \A g \in GuestFunctions :
           d.main[g] = c.main[g]
               \/ (d.main[g] = Absent /\ (c.main[g].present => c.main[g].pins = 0))
    BY <1>4
  <2>4. CacheInv(c, title, generation, host, frames, leaked) /\ CacheTypes(d) /\ d.code = c.code
    BY <1>2 DEF Holds
  <2> QED BY <1>5, <2>1, <2>2, <2>3, <2>4, DroppingKeeps
<1> QED BY <1>6 DEF Holds, d

LEMMA CodeErasedKeeps ==
    ASSUME NEW c, NEW f \in GuestFunctions, IsFiniteSet(frames), Holds(c),
           c.code[f].present => c.code[f].pins = 0
    PROVE  Holds(CodeErased(c, f))
<1> DEFINE d == CodeErased(c, f)
<1>1. CacheTypes(c)
  BY DEF Holds, CacheInv
<1>2. /\ CacheTypes(d)
      /\ d.main = c.main
      /\ d.code = [c.code EXCEPT ![f] = Absent] /\ d.memo = NoMemo
      /\ d.pending = c.pending
  BY <1>1, CodeErasedFields
<1> HIDE DEF d
<1>3. \A g \in GuestFunctions : d.code[g] = IF g = f THEN Absent ELSE c.code[g]
  BY <1>1, <1>2 DEF CacheTypes
<1>4. d.memo.tier = "none"
  BY <1>2 DEF NoMemo
<1>5. CacheInv(d, title, generation, host, frames, leaked)
  BY <1>2, <1>3, <1>4, DroppingKeeps DEF Holds
<1> QED BY <1>5 DEF Holds, d

\* What a lookup leaves; an entry that answers is still there.
LEMMA AfterLookupKeeps ==
    ASSUME NEW c, NEW f \in GuestFunctions, NEW needBuilder \in BOOLEAN,
           IsFiniteSet(frames), Holds(c)
    PROVE  LET d == AfterLookup(c, f, needBuilder)
           IN  /\ Holds(d)
               /\ c.main[f].present /\ Fresh(c.main[f], f) => d.main[f] = c.main[f]
               /\ ~c.main[f].present => d.main[f] = c.main[f]
               /\ c.code[f].present /\ Fresh(c.code[f], f) => d.code[f] = c.code[f]
<1> DEFINE d == AfterLookup(c, f, needBuilder)
<1>1. CacheTypes(c)
  BY DEF Holds, CacheInv
<1>2. c.main[f] \in Slots /\ c.code[f] \in Slots
  BY <1>1 DEF CacheTypes
<1>3. CASE c.main[f].present
  <2>1. CASE Fresh(c.main[f], f)
    <3>1. d = Touched(c, f)
      BY <1>3, <2>1 DEF AfterLookup
    <3>2. Holds(d)
      BY <3>1, TouchedKeeps
    <3>3. d.main = c.main /\ d.code = c.code
      BY <1>1, <3>1, TouchedFields
    <3> QED BY <3>2, <3>3
  <2>2. CASE ~Fresh(c.main[f], f)
    <3>1. CASE c.main[f].pins > 0
      <4>1. d = c
        BY <1>3, <2>2, <3>1 DEF AfterLookup
      <4> QED BY <4>1, <2>2
    <3>2. CASE ~(c.main[f].pins > 0)
      <4>1. d = Erased(c, f)
        BY <1>3, <2>2, <3>2 DEF AfterLookup
      <4>2. c.main[f].pins = 0
        <5>1. c.main[f].pins \in Nat
          BY <1>2, <1>3, SlotIs DEF Entries
        <5> QED BY <3>2, <5>1
      <4>3. Holds(d)
        BY <4>1, <4>2, ErasedKeeps
      <4>4. d.code = c.code
        BY <1>1, <4>1, ErasedFields
      <4> QED BY <4>3, <4>4, <1>3, <2>2
    <3> QED BY <3>1, <3>2
  <2> QED BY <2>1, <2>2
<1>4. CASE ~c.main[f].present
  <2>1. CASE /\ ~needBuilder /\ c.code[f].present
             /\ ~Fresh(c.code[f], f) /\ c.code[f].pins = 0
    <3>1. d = CodeErased(c, f)
      BY <1>4, <2>1 DEF AfterLookup
    <3>2. Holds(d)
      BY <2>1, <3>1, CodeErasedKeeps
    <3>3. d.main = c.main
      BY <1>1, <3>1, CodeErasedFields
    <3> QED BY <3>2, <3>3, <2>1, <1>4
  <2>2. CASE ~(/\ ~needBuilder /\ c.code[f].present
               /\ ~Fresh(c.code[f], f) /\ c.code[f].pins = 0)
    <3>1. d = c
      BY <1>4, <2>2 DEF AfterLookup
    <3> QED BY <3>1
  <2> QED BY <2>1, <2>2
<1> QED BY <1>3, <1>4

\* LookupTranslation finds what is there and from the content the pages hold.
LEMMA LookedFinds ==
    ASSUME NEW c, NEW f \in GuestFunctions, NEW needBuilder \in BOOLEAN,
           IsFiniteSet(frames), Holds(c)
    PROVE  LET found == Looked(c, f, needBuilder)
           IN  /\ Holds(found.cache)
               /\ found.tier = "main" =>
                    found.cache.main[f].present /\ Fresh(found.cache.main[f], f)
               /\ found.tier = "code" =>
                    found.cache.code[f].present /\ Fresh(found.cache.code[f], f)
<1> DEFINE d == AfterLookup(c, f, needBuilder)
           tier == SlowTier(c, f, needBuilder)
<1>1. /\ Holds(d)
      /\ c.main[f].present /\ Fresh(c.main[f], f) => d.main[f] = c.main[f]
      /\ ~c.main[f].present => d.main[f] = c.main[f]
      /\ c.code[f].present /\ Fresh(c.code[f], f) => d.code[f] = c.code[f]
  BY AfterLookupKeeps
<1>2. /\ tier \in {"main", "code", "none"}
      /\ tier = "main" => c.main[f].present /\ Fresh(c.main[f], f)
      /\ tier = "code" => ~c.main[f].present /\ c.code[f].present /\ Fresh(c.code[f], f)
  BY DEF SlowTier
<1> HIDE DEF d, tier
<1>3. /\ tier = "main" => d.main[f].present /\ Fresh(d.main[f], f)
      /\ tier = "code" => ~d.main[f].present /\ d.code[f].present /\ Fresh(d.code[f], f)
  BY <1>1, <1>2
<1>4. CASE needBuilder
  <2>1. Looked(c, f, needBuilder) = [tier |-> tier, cache |-> d]
    BY <1>4 DEF Looked, d, tier
  <2> QED BY <1>1, <1>3, <2>1
<1>5. CASE ~needBuilder /\ MemoAnswers(c, f)
  <2> DEFINE e == IF c.memo.tier = "main" THEN Touched(c, f) ELSE c
  <2>1. Looked(c, f, needBuilder) = [tier |-> c.memo.tier, cache |-> e]
    BY <1>5 DEF Looked
  <2>2. Holds(e)
    BY TouchedKeeps
  <2>3. e.main = c.main /\ e.code = c.code
    BY TouchedFields DEF Holds, CacheInv
  <2> HIDE DEF e
  <2>4. MemoInv(c, generation) /\ c.memo.key = f
    BY <1>5 DEF Holds, CacheInv, MemoAnswers
  <2>5. /\ c.memo.tier = "main" => e.main[f].present /\ Fresh(e.main[f], f)
        /\ c.memo.tier = "code" => e.code[f].present /\ Fresh(e.code[f], f)
    BY <2>3, <2>4 DEF MemoInv, Fresh
  <2> QED BY <2>1, <2>2, <2>5
<1>6. CASE ~needBuilder /\ ~MemoAnswers(c, f)
  <2> DEFINE memo == [key |-> f, tier |-> tier]
             e == [d EXCEPT !.memo = memo]
  <2>1. Looked(c, f, needBuilder) = [tier |-> tier, cache |-> e]
    BY <1>6 DEF Looked, d, tier
  <2>2. CacheTypes(d)
    BY <1>1 DEF Holds, CacheInv
  <2>3. memo.key = f /\ memo.tier = tier
    OBVIOUS
  <2> HIDE DEF memo
  <2>4. e = [main |-> d.main, code |-> d.code, recency |-> d.recency, memo |-> memo,
             pending |-> d.pending]
    BY <2>2 DEF CacheTypes
  <2> HIDE DEF e
  <2>5. CacheTypes(e)
    BY <2>2, <2>4 DEF CacheTypes
  <2>6. MemoInv(e, generation)
    BY <1>3, <2>3, <2>4 DEF MemoInv, Fresh
  <2>7. CacheInv(e, title, generation, host, frames, leaked)
    <3>1. CacheInv(d, title, generation, host, frames, leaked)
      BY <1>1 DEF Holds
    <3> QED BY <2>4, <2>5, <2>6, <3>1, DroppingKeeps
  <2> QED BY <1>3, <2>1, <2>4, <2>7 DEF Holds
<1> QED BY <1>4, <1>5, <1>6

-----------------------------------------------------------------------------
(* Retention and eviction                                                   *)

\* An empty slot takes a new translation.
LEMMA FilledKeeps ==
    ASSUME NEW c, NEW d, NEW f \in GuestFunctions, NEW entry \in Entries,
           IsFiniteSet(frames), Holds(c), CacheTypes(d),
           ~c.main[f].present,
           entry.pins = 0, entry.function = NoCode,
           entry.code = [title |-> title, generation |-> entry.generation],
           d.main = [c.main EXCEPT ![f] = entry], d.code = c.code, d.pending = c.pending,
           d.memo.tier = "none"
    PROVE  Holds(d)
<1> USE DEF Holds, CacheInv
<1>1. \A g \in GuestFunctions : d.main[g] = IF g = f THEN entry ELSE c.main[g]
  BY DEF CacheTypes
<1>2. entry.present
  BY DEF Entries
<1>3. EntriesInv(d, title, leaked)
  BY <1>1 DEF EntriesInv
<1>4. MemoInv(d, generation)
  BY DEF MemoInv
<1>5. PendingInv(d, host)
  <2>1. \A p \in c.pending : p.slot \in GuestFunctions /\ c.main[p.slot].present
    BY DEF PendingInv, CacheTypes, Requests
  <2>2. \A p \in c.pending : d.main[p.slot] = c.main[p.slot]
    BY <2>1, <1>1
  <2> QED BY <2>2 DEF PendingInv
<1>6. PinsInv(d.main, "main", frames, leaked)
  <2>1. \A g \in GuestFunctions :
           \/ d.main[g] = c.main[g]
           \/ /\ c.main[g].present => c.main[g].pins = 0
              /\ ~d.main[g].present \/ d.main[g].pins = 0
    BY <1>1
  <2> QED BY <2>1, PinsStay
<1> QED BY <1>3, <1>4, <1>5, <1>6

\* Whatever has no pins may go, and its code may be kept.
LEMMA EvictedKeeps ==
    ASSUME NEW c, NEW gone, IsFiniteSet(frames), Holds(c), c.memo.tier = "none",
           \A g \in gone : g \in GuestFunctions /\ c.main[g].present /\ c.main[g].pins = 0
    PROVE  LET d == Evicted(c, gone)
           IN  /\ Holds(d)
               /\ \A g \in GuestFunctions \ gone : d.main[g] = c.main[g]
<1> DEFINE d == Evicted(c, gone)
           kept == KeptCode(c, gone)
           m == [g \in GuestFunctions |-> IF g \in gone THEN Absent ELSE c.main[g]]
           k == [g \in GuestFunctions |-> IF g \in kept THEN c.main[g] ELSE c.code[g]]
           r == RecencyWithout(c.recency, gone)
           w == {p \in c.pending : p.slot \notin gone}
<1>1. CacheTypes(c) /\ EntriesInv(c, title, leaked) /\ PendingInv(c, host)
        /\ PinsInv(c.main, "main", frames, leaked) /\ PinsInv(c.code, "code", frames, leaked)
  BY DEF Holds, CacheInv
<1>2. \A g \in kept : g \in gone /\ Keepable(c, g)
  BY DEF KeptCode
<1>3. d = [c EXCEPT !.main = m, !.code = k, !.recency = r, !.pending = w]
  BY DEF Evicted
<1>4. /\ m \in [GuestFunctions -> Slots] /\ k \in [GuestFunctions -> Slots]
      /\ w \subseteq Requests
  <2>1. m \in [GuestFunctions -> Slots]
    BY <1>1, AbsentIs DEF CacheTypes
  <2>2. k \in [GuestFunctions -> Slots]
    BY <1>1 DEF CacheTypes
  <2> QED BY <1>1, <2>1, <2>2 DEF CacheTypes
<1>5. \A g \in GuestFunctions :
         /\ m[g] = IF g \in gone THEN Absent ELSE c.main[g]
         /\ k[g] = IF g \in kept THEN c.main[g] ELSE c.code[g]
  OBVIOUS
<1>6. w = {p \in c.pending : p.slot \notin gone}
  OBVIOUS
<1> HIDE DEF d, kept, m, k, r, w
<1>7. d = [main |-> m, code |-> k, recency |-> r, memo |-> c.memo, pending |-> w]
  BY <1>1, <1>3 DEF CacheTypes
<1>8. CacheTypes(d)
  BY <1>4, <1>7 DEF CacheTypes
<1>9. d.main = m /\ d.code = k /\ d.memo = c.memo /\ d.pending = w
  BY <1>7
<1>10. EntriesInv(d, title, leaked)
  <2> SUFFICES ASSUME NEW g \in GuestFunctions
               PROVE  /\ m[g].present =>
                           /\ m[g].function \in {NoCode, m[g].code}
                           /\ g \notin leaked =>
                                m[g].code = [title |-> title, generation |-> m[g].generation]
                      /\ k[g].present =>
                           /\ k[g].function = k[g].code /\ g \notin NeedsBuilder
                           /\ g \notin leaked =>
                                k[g].code = [title |-> title, generation |-> k[g].generation]
    BY <1>9 DEF EntriesInv
  <2>1. /\ c.main[g].present =>
             /\ c.main[g].function \in {NoCode, c.main[g].code}
             /\ g \notin leaked =>
                  c.main[g].code = [title |-> title, generation |-> c.main[g].generation]
        /\ c.code[g].present =>
             /\ c.code[g].function = c.code[g].code /\ g \notin NeedsBuilder
             /\ g \notin leaked =>
                  c.code[g].code = [title |-> title, generation |-> c.code[g].generation]
    BY <1>1 DEF EntriesInv
  <2>2. CASE g \in kept
    BY <1>2, <1>5, <2>1, <2>2, AbsentIs DEF Keepable
  <2>3. CASE g \notin kept
    BY <1>5, <2>1, <2>3, AbsentIs
  <2> QED BY <2>2, <2>3
<1>11. MemoInv(d, generation)
  BY <1>9 DEF MemoInv
<1>12. PendingInv(d, host)
  <2>1. w \subseteq c.pending
    BY <1>6
  <2>2. \A p \in w : m[p.slot] = c.main[p.slot]
    BY <1>1, <1>5, <1>6 DEF CacheTypes, Requests
  <2> QED BY <1>1, <1>9, <2>1, <2>2 DEF PendingInv
<1>13. PinsInv(m, "main", frames, leaked)
  <2>1. \A g \in GuestFunctions :
           \/ m[g] = c.main[g]
           \/ /\ c.main[g].present => c.main[g].pins = 0
              /\ ~m[g].present \/ m[g].pins = 0
    BY <1>5, AbsentIs
  <2> QED BY <1>1, <2>1, PinsStay
<1>14. PinsInv(k, "code", frames, leaked)
  <2>1. \A g \in GuestFunctions :
           \/ k[g] = c.code[g]
           \/ /\ c.code[g].present => c.code[g].pins = 0
              /\ ~k[g].present \/ k[g].pins = 0
    BY <1>2, <1>5 DEF Keepable
  <2> QED BY <1>1, <2>1, PinsStay
<1>15. Holds(d)
  BY <1>8, <1>9, <1>10, <1>11, <1>12, <1>13, <1>14 DEF Holds, CacheInv
<1>16. \A g \in GuestFunctions \ gone : d.main[g] = c.main[g]
  BY <1>5, <1>9
<1> QED BY <1>15, <1>16 DEF d

\* RetainTranslatedBuilder leaves the translation of the current content.
LEMMA RetainedKeeps ==
    ASSUME NEW c, NEW f \in GuestFunctions, IsFiniteSet(frames), Holds(c),
           title \in Nat, generation \in [GuestFunctions -> Nat],
           ~(c.main[f].present /\ c.main[f].pins > 0)
    PROVE  LET d == Retained(c, f)
           IN  Holds(d) /\ d.main[f].present /\ Fresh(d.main[f], f)
                 /\ d.main[f].code = Current(f) /\ d.main[f].function = NoCode
<1> DEFINE main == IF c.main[f].present THEN Erased(c, f) ELSE c
           cleared == IF main.code[f].present /\ main.code[f].pins = 0
                      THEN CodeErased(main, f) ELSE main
           entry == [present |-> TRUE, generation |-> generation[f], code |-> Current(f),
                     function |-> NoCode, state |-> "cold", runs |-> 0, request |-> 0, pins |-> 0]
           a == [cleared EXCEPT !.main[f] = entry, !.memo = NoMemo]
           full == Touched(a, f)
           d == Evicted(full, Victims(full, f))
<1>1. Retained(c, f) = d
  BY DEF Retained
<1>2. CacheTypes(c) /\ c.main[f] \in Slots
  BY DEF Holds, CacheInv, CacheTypes
<1>3. Holds(main) /\ ~main.main[f].present
  <2>1. CASE c.main[f].present
    <3>1. c.main[f].pins \in Nat
      BY <1>2, <2>1, SlotIs DEF Entries
    <3>2. c.main[f].pins = 0
      BY <3>1, <2>1
    <3>3. Holds(Erased(c, f))
      BY <3>2, ErasedKeeps
    <3>4. Erased(c, f).main = [c.main EXCEPT ![f] = Absent]
      BY <1>2, ErasedFields
    <3>5. ~Erased(c, f).main[f].present
      BY <1>2, <3>4, AbsentIs DEF CacheTypes
    <3> QED BY <2>1, <3>3, <3>5
  <2>2. CASE ~c.main[f].present
    BY <2>2
  <2> QED BY <2>1, <2>2
<1> HIDE DEF main
<1>4. Holds(cleared) /\ ~cleared.main[f].present
  <2>1. CacheTypes(main)
    BY <1>3 DEF Holds, CacheInv
  <2>2. CASE main.code[f].present /\ main.code[f].pins = 0
    <3>1. Holds(CodeErased(main, f))
      BY <1>3, <2>2, CodeErasedKeeps
    <3>2. CodeErased(main, f).main = main.main
      BY <2>1, CodeErasedFields
    <3> QED BY <1>3, <2>2, <3>1, <3>2
  <2>3. CASE ~(main.code[f].present /\ main.code[f].pins = 0)
    BY <1>3, <2>3
  <2> QED BY <2>2, <2>3
<1> HIDE DEF cleared
<1>5. entry \in Entries
  BY DEF Entries, Codes, Current, NoCode
<1>6. /\ entry.pins = 0 /\ entry.function = NoCode /\ entry.code = Current(f)
      /\ entry.present /\ entry.generation = generation[f]
  OBVIOUS
<1> HIDE DEF entry
<1>7. CacheTypes(cleared)
  BY <1>4 DEF Holds, CacheInv
<1>8. /\ CacheTypes(a)
      /\ a.main = [cleared.main EXCEPT ![f] = entry] /\ a.code = cleared.code
      /\ a.pending = cleared.pending /\ a.memo = NoMemo
  <2> DEFINE m == [cleared.main EXCEPT ![f] = entry]
             b == [cleared EXCEPT !.main[f] = entry]
  <2>1. m \in [GuestFunctions -> Slots]
    BY <1>5, <1>7 DEF CacheTypes, Slots
  <2>2. b = [main |-> m, code |-> cleared.code, recency |-> cleared.recency,
             memo |-> cleared.memo, pending |-> cleared.pending]
    BY <1>7 DEF CacheTypes
  <2>3. a = [b EXCEPT !.memo = NoMemo]
    OBVIOUS
  <2> HIDE DEF m, b, a
  <2>4. a = [main |-> m, code |-> cleared.code, recency |-> cleared.recency,
             memo |-> NoMemo, pending |-> cleared.pending]
    BY <2>2, <2>3
  <2>5. CacheTypes(a)
    BY <1>7, <2>1, <2>4 DEF CacheTypes
  <2> QED BY <2>4, <2>5 DEF m
<1> HIDE DEF a
<1>9. NoMemo.tier = "none"
  BY DEF NoMemo
<1>10. Holds(a)
  BY <1>4, <1>5, <1>6, <1>8, <1>9, FilledKeeps DEF Current
<1>11. Holds(full) /\ full.main = a.main /\ full.memo = a.memo
  BY <1>8, <1>10, TouchedKeeps, TouchedFields
<1> HIDE DEF full
<1>12. full.main[f] = entry
  BY <1>7, <1>8, <1>11 DEF CacheTypes
<1>13. \A g \in Victims(full, f) :
          g \in GuestFunctions \ {f} /\ full.main[g].present /\ full.main[g].pins = 0
  BY DEF Victims, Unpinned
<1>14. Holds(d) /\ d.main[f] = full.main[f]
  <2>1. full.memo.tier = "none"
    BY <1>8, <1>9, <1>11
  <2> QED BY <1>11, <1>13, <2>1, EvictedKeeps
<1> HIDE DEF d
<1> QED BY <1>1, <1>6, <1>12, <1>14 DEF Fresh

-----------------------------------------------------------------------------
(* Compiled code                                                            *)

\* What happens to an entry that stays where it is: it is counted, asked to be
\* compiled, or gets its code.
LEMMA ChangedKeeps ==
    ASSUME NEW c, NEW d, NEW h, NEW f \in GuestFunctions, NEW new \in Entries,
           IsFiniteSet(frames), Holds(c), CacheTypes(d),
           c.main[f].present,
           new.pins = c.main[f].pins, new.generation = c.main[f].generation,
           new.code = c.main[f].code, new.function \in {NoCode, new.code},
           d.main = [c.main EXCEPT ![f] = new], d.code = c.code, d.memo = c.memo,
           PendingInv(d, h)
    PROVE  CacheInv(d, title, generation, h, frames, leaked)
<1> USE DEF Holds, CacheInv
<1>1. \A g \in GuestFunctions : d.main[g] = IF g = f THEN new ELSE c.main[g]
  BY DEF CacheTypes
<1>2. new.present
  BY DEF Entries
<1>3. EntriesInv(d, title, leaked)
  BY <1>1, <1>2 DEF EntriesInv
<1>4. \A g \in GuestFunctions :
         d.main[g].present = c.main[g].present /\ d.main[g].generation = c.main[g].generation
  <2>1. c.main[f].present = TRUE /\ new.present = TRUE
    BY <1>2, SlotIs DEF CacheTypes, Entries
  <2> QED BY <1>1, <2>1
<1>5. MemoInv(d, generation)
  BY <1>4 DEF MemoInv
<1>6. PinsInv(d.main, "main", frames, leaked)
  <2>1. \A g \in GuestFunctions :
           d.main[g].present = c.main[g].present /\ d.main[g].pins = c.main[g].pins
    BY <1>1, <1>4
  <2> QED BY <2>1 DEF PinsInv
<1> QED BY <1>3, <1>5, <1>6

LEMMA RequestedKeeps ==
    ASSUME NEW c, NEW f \in GuestFunctions, NEW outcome \in Outcomes,
           IsFiniteSet(frames), Holds(c), HostTypes(host),
           c.main[f].present, c.main[f].function = NoCode
    PROVE  LET d == Requested(c, f, outcome)
               h == HostAsked(f, c.main[f].code, outcome)
           IN  /\ CacheInv(d, title, generation, h, frames, leaked)
               /\ HostTypes(h)
               /\ d.main[f].present
<1> DEFINE d == Requested(c, f, outcome)
           slot == c.main[f]
           h == HostAsked(f, slot.code, outcome)
           request == host.requests + 1
           p == [request |-> request, slot |-> f]
           j == [request |-> request, code |-> slot.code]
<1>1. CacheTypes(c) /\ EntriesInv(c, title, leaked) /\ PendingInv(c, host)
  BY DEF Holds, CacheInv
<1>2. slot \in Entries
  BY <1>1, SlotIs DEF CacheTypes
<1>3. /\ host.requests \in Nat /\ request \in Nat /\ host.jobs \subseteq Jobs
      /\ slot.code \in Codes
  <2>1. host.requests \in Nat /\ host.jobs \subseteq Jobs
    BY DEF HostTypes
  <2>2. slot.code \in Codes
    BY <1>2 DEF Entries
  <2> QED BY <2>1, <2>2
<1>4. CASE outcome = "rejected"
  <2> DEFINE new == [slot EXCEPT !.state = "never"]
             m == [c.main EXCEPT ![f] = new]
  <2>1. new \in Entries /\ new.present /\ new.pins = slot.pins
          /\ new.generation = slot.generation /\ new.code = slot.code /\ new.function = NoCode
    BY <1>2 DEF Entries
  <2>2. d = [c EXCEPT !.main[f].state = "never"] /\ h = host
    BY <1>4 DEF Requested, HostAsked
  <2>3. d = [main |-> m, code |-> c.code, recency |-> c.recency, memo |-> c.memo,
             pending |-> c.pending]
    BY <1>1, <2>2 DEF CacheTypes
  <2>4. m \in [GuestFunctions -> Slots] /\ m = [c.main EXCEPT ![f] = new]
    BY <1>1, <2>1 DEF CacheTypes, Slots
  <2>5. \A g \in GuestFunctions : m[g] = IF g = f THEN new ELSE c.main[g]
    BY <1>1 DEF CacheTypes
  <2> HIDE DEF d, h, new, m
  <2>6. CacheTypes(d)
    BY <1>1, <2>3, <2>4 DEF CacheTypes
  <2>7. PendingInv(d, h)
    <3>1. \A q \in c.pending : q.slot \in GuestFunctions
      BY <1>1 DEF CacheTypes, Requests
    <3> QED BY <1>1, <2>1, <2>2, <2>3, <2>5, <3>1 DEF PendingInv
  <2>8. d.main = [c.main EXCEPT ![f] = new] /\ d.code = c.code /\ d.memo = c.memo
    BY <2>3, <2>4
  <2>9. CacheInv(d, title, generation, h, frames, leaked)
    BY <2>1, <2>6, <2>7, <2>8, ChangedKeeps
  <2> QED BY <2>1, <2>2, <2>3, <2>5, <2>9 DEF d, h
<1>5. CASE outcome = "now"
  <2> DEFINE new == [slot EXCEPT !.function = slot.code]
             m == [c.main EXCEPT ![f] = new]
  <2>1. new \in Entries /\ new.present /\ new.pins = slot.pins
          /\ new.generation = slot.generation /\ new.code = slot.code /\ new.function = slot.code
    BY <1>2 DEF Entries
  <2>2. /\ d = [c EXCEPT !.main[f].function = c.main[f].code]
        /\ h = [host EXCEPT !.requests = request]
    BY <1>5 DEF Requested, HostAsked, HostTypes
  <2>3. d = [main |-> m, code |-> c.code, recency |-> c.recency, memo |-> c.memo,
             pending |-> c.pending]
    BY <1>1, <2>2 DEF CacheTypes
  <2>4. m \in [GuestFunctions -> Slots] /\ m = [c.main EXCEPT ![f] = new]
    BY <1>1, <2>1 DEF CacheTypes, Slots
  <2>5. \A g \in GuestFunctions : m[g] = IF g = f THEN new ELSE c.main[g]
    BY <1>1 DEF CacheTypes
  <2>6. HostTypes(h) /\ h.requests = request /\ h.jobs = host.jobs
    BY <1>3, <2>2 DEF HostTypes
  <2>7. request > host.requests
    BY <1>3
  <2> HIDE DEF d, h, new, m, request
  <2>8. CacheTypes(d)
    BY <1>1, <2>3, <2>4 DEF CacheTypes
  <2>9. PendingInv(d, h)
    <3>1. \A q \in c.pending : q.slot \in GuestFunctions /\ q.request \in Nat
      BY <1>1 DEF CacheTypes, Requests
    <3>2. \A q \in c.pending : q.request <= request
      BY <1>1, <1>3, <2>7, <3>1 DEF PendingInv
    <3>3. \A q \in host.jobs : q.request <= request
      BY <1>1, <1>3, <2>7 DEF PendingInv, Jobs
    <3> QED BY <1>1, <2>1, <2>3, <2>5, <2>6, <3>1, <3>2, <3>3 DEF PendingInv
  <2>10. d.main = [c.main EXCEPT ![f] = new] /\ d.code = c.code /\ d.memo = c.memo
    BY <2>3, <2>4
  <2>11. CacheInv(d, title, generation, h, frames, leaked)
    BY <2>1, <2>8, <2>9, <2>10, ChangedKeeps
  <2> QED BY <2>1, <2>3, <2>5, <2>6, <2>11 DEF d, h
<1>6. CASE outcome \in {"later", "refused"}
  <2> DEFINE new == [slot EXCEPT !.state = "pending", !.request = request]
             m == [c.main EXCEPT ![f] = new]
             w == c.pending \cup {p}
             jobs == IF outcome = "later" THEN host.jobs \cup {j} ELSE host.jobs
  <2>1. new \in Entries /\ new.present /\ new.pins = slot.pins
          /\ new.generation = slot.generation /\ new.code = slot.code /\ new.function = NoCode
    BY <1>2, <1>3 DEF Entries
  <2>2. /\ d = [c EXCEPT !.main[f].state = "pending", !.main[f].request = request, !.pending = w]
        /\ h = [host EXCEPT !.requests = request, !.jobs = jobs]
    BY <1>1, <1>6 DEF Requested, HostAsked, HostTypes, CacheTypes
  <2>3. d = [main |-> m, code |-> c.code, recency |-> c.recency, memo |-> c.memo,
             pending |-> w]
    <3> DEFINE mid == [slot EXCEPT !.state = "pending"]
               n == [c.main EXCEPT ![f] = mid]
               b == [c EXCEPT !.main[f].state = "pending"]
               e == [b EXCEPT !.main[f].request = request]
    <3>1. b = [main |-> n, code |-> c.code, recency |-> c.recency, memo |-> c.memo,
               pending |-> c.pending]
      BY <1>1 DEF CacheTypes
    <3>2. n[f] = mid /\ n \in [GuestFunctions -> {n[g] : g \in GuestFunctions}]
            /\ [n EXCEPT ![f] = new] = m
      BY <1>1 DEF CacheTypes
    <3>3. new = [mid EXCEPT !.request = request]
      OBVIOUS
    <3>4. d = [e EXCEPT !.pending = w]
      BY <2>2
    <3> HIDE DEF mid, n, b, m, new, w, d, request
    <3>5. e = [main |-> m, code |-> c.code, recency |-> c.recency, memo |-> c.memo,
               pending |-> c.pending]
      BY <3>1, <3>2, <3>3
    <3> HIDE DEF e
    <3> QED BY <3>4, <3>5
  <2>4. m \in [GuestFunctions -> Slots] /\ m = [c.main EXCEPT ![f] = new]
    BY <1>1, <2>1 DEF CacheTypes, Slots
  <2>5. \A g \in GuestFunctions : m[g] = IF g = f THEN new ELSE c.main[g]
    BY <1>1 DEF CacheTypes
  <2>6. p \in Requests /\ p.request = request /\ p.slot = f
          /\ j \in Jobs /\ j.request = request /\ j.code = slot.code
    BY <1>3 DEF Requests, Jobs
  <2>7. w = c.pending \cup {p} /\ jobs \subseteq host.jobs \cup {j} /\ request > host.requests
    BY <1>3
  <2> HIDE DEF p, j
  <2> HIDE DEF jobs, request
  <2>8. HostTypes(h) /\ h.requests = request /\ h.jobs = jobs
    <3>1. jobs \in SUBSET Jobs /\ request \in Nat
      BY <1>3, <2>6, <2>7
    <3>2. h = [enabled |-> host.enabled, requests |-> request, jobs |-> jobs]
            /\ host.enabled \in BOOLEAN
      BY <2>2 DEF HostTypes
    <3> HIDE DEF h
    <3> QED BY <3>1, <3>2 DEF HostTypes
  <2> HIDE DEF d, h, new, m, w
  <2>9. CacheTypes(d)
    BY <1>1, <2>3, <2>4, <2>6, <2>7 DEF CacheTypes
  <2>10. PendingInv(d, h)
    <3>1. \A q \in c.pending :
             q.slot \in GuestFunctions /\ q.request \in Nat /\ q.request < request
      BY <1>1, <1>3, <2>7 DEF CacheTypes, Requests, PendingInv
    <3>2. \A q \in host.jobs : q.request \in Nat /\ q.request < request
      BY <1>1, <1>3, <2>7 DEF Jobs, PendingInv
    <3>3. \A a, b \in w : a.request = b.request => a = b
      BY <1>1, <1>3, <2>6, <2>7, <3>1 DEF PendingInv
    <3>4. \A job \in jobs : job.request <= request
      BY <1>3, <2>6, <2>7, <3>2
    <3>5. ASSUME NEW q \in w
          PROVE  /\ q.request <= request /\ m[q.slot].present
                 /\ \A job \in jobs : job.request = q.request => job.code = m[q.slot].code
      <4>1. CASE q = p
        <5>1. m[q.slot] = new
          BY <4>1, <2>5, <2>6
        <5>2. \A job \in jobs : job.request = request => job = j
          BY <1>3, <2>6, <2>7, <3>2
        <5> QED BY <1>3, <2>1, <2>6, <4>1, <5>1, <5>2
      <4>2. CASE q \in c.pending
        <5>1. \A job \in jobs : job.request = q.request => job \in host.jobs
          BY <1>3, <2>6, <2>7, <3>1, <4>2
        <5>2. /\ c.main[q.slot].present
              /\ \A job \in host.jobs : job.request = q.request => job.code = c.main[q.slot].code
          BY <1>1, <4>2 DEF PendingInv
        <5>3. m[q.slot].present /\ m[q.slot].code = c.main[q.slot].code
          BY <2>1, <2>5, <3>1, <4>2, <5>2
        <5>4. q.request <= request
          BY <1>3, <3>1, <4>2
        <5> QED BY <5>1, <5>2, <5>3, <5>4
      <4> QED BY <2>7, <4>1, <4>2
    <3> QED BY <2>3, <2>8, <3>3, <3>4, <3>5 DEF PendingInv
  <2>11. d.main = [c.main EXCEPT ![f] = new] /\ d.code = c.code /\ d.memo = c.memo
    BY <2>3, <2>4
  <2>12. CacheInv(d, title, generation, h, frames, leaked)
    BY <2>1, <2>9, <2>10, <2>11, ChangedKeeps
  <2> QED BY <2>1, <2>3, <2>5, <2>8, <2>12 DEF d, h
<1> QED BY <1>4, <1>5, <1>6 DEF Outcomes

LEMMA InstalledKeeps ==
    ASSUME NEW c, NEW job \in host.jobs, NEW ok \in BOOLEAN,
           IsFiniteSet(frames), Holds(c), HostTypes(host)
    PROVE  LET h == [host EXCEPT !.jobs = @ \ {job}]
           IN  CacheInv(Installed(c, job, ok), title, generation, h, frames, leaked) /\ HostTypes(h)
<1> DEFINE h == [host EXCEPT !.jobs = @ \ {job}]
           d == Installed(c, job, ok)
           own == {p \in c.pending : p.request = job.request}
           w == c.pending \ own
<1>1. CacheTypes(c) /\ EntriesInv(c, title, leaked) /\ PendingInv(c, host)
  BY DEF Holds, CacheInv
<1>2. HostTypes(h) /\ h.requests = host.requests /\ h.jobs = host.jobs \ {job}
  BY DEF HostTypes
<1>3. job \in Jobs
  BY DEF HostTypes
<1> HIDE DEF h
<1>4. \A p \in c.pending : p.slot \in GuestFunctions /\ c.main[p.slot].present
  BY <1>1 DEF CacheTypes, Requests, PendingInv
<1>5. CASE own = {}
  <2>1. d = [c EXCEPT !.pending = w]
    BY <1>1, <1>5 DEF Installed, CacheTypes
  <2>2. w = c.pending
    BY <1>5
  <2>3. d = [main |-> c.main, code |-> c.code, recency |-> c.recency, memo |-> c.memo,
             pending |-> c.pending]
    BY <1>1, <2>1, <2>2 DEF CacheTypes
  <2>4. d = c
    BY <1>1, <2>3 DEF CacheTypes
  <2>5. PendingInv(c, h)
    BY <1>1, <1>2 DEF PendingInv
  <2> QED BY <1>2, <2>4, <2>5 DEF Holds, CacheInv, h, d
<1>6. CASE own # {}
  <2> DEFINE q == CHOOSE p \in own : TRUE
             f == q.slot
             slot == c.main[f]
             new == IF ok THEN [slot EXCEPT !.function = job.code, !.state = "cold", !.request = 0]
                    ELSE [slot EXCEPT !.state = "never", !.request = 0]
             m == [c.main EXCEPT ![f] = new]
  <2>1. q \in c.pending /\ q.request = job.request
    BY <1>6
  <2>2. f \in GuestFunctions /\ slot.present
    BY <1>4, <2>1
  <2>3. slot \in Entries /\ slot.code = job.code
    BY <1>1, <2>1, <2>2, SlotIs DEF PendingInv, CacheTypes
  <2>4. slot.function \in {NoCode, slot.code}
    BY <1>1, <2>2 DEF EntriesInv
  <2>5. d = [c EXCEPT !.pending = w, !.main[f] = new]
    BY <1>1, <1>6, <2>2 DEF Installed, CacheTypes
  <2>6. /\ new \in Entries /\ new.present /\ new.pins = slot.pins
        /\ new.generation = slot.generation /\ new.code = slot.code
        /\ new.function \in {NoCode, new.code}
    <3>1. CASE ok
      <4>1. new = [slot EXCEPT !.function = job.code, !.state = "cold", !.request = 0]
        BY <3>1
      <4>2. job.code \in Codes
        BY <1>3 DEF Jobs
      <4> HIDE DEF new, slot
      <4> QED BY <2>3, <4>1, <4>2 DEF Entries
    <3>2. CASE ~ok
      <4>1. new = [slot EXCEPT !.state = "never", !.request = 0]
        BY <3>2
      <4> HIDE DEF new, slot
      <4> QED BY <2>3, <2>4, <4>1 DEF Entries
    <3> QED BY <3>1, <3>2
  <2> HIDE DEF new, q, d
  <2>7. d = [main |-> m, code |-> c.code, recency |-> c.recency, memo |-> c.memo,
             pending |-> w]
    <3> DEFINE b == [c EXCEPT !.pending = w]
    <3>1. b = [main |-> c.main, code |-> c.code, recency |-> c.recency, memo |-> c.memo,
               pending |-> w]
      BY <1>1 DEF CacheTypes
    <3>2. d = [b EXCEPT !.main[f] = new]
      BY <2>5
    <3> HIDE DEF b, w, f
    <3> QED BY <3>1, <3>2
  <2>8. /\ m \in [GuestFunctions -> Slots]
        /\ \A g \in GuestFunctions : m[g] = IF g = f THEN new ELSE c.main[g]
    BY <1>1, <2>2, <2>6 DEF CacheTypes, Slots
  <2>9. m = [c.main EXCEPT ![f] = new] /\ w \subseteq c.pending
    OBVIOUS
  <2> HIDE DEF m, w, f
  <2>10. CacheTypes(d)
    BY <1>1, <2>7, <2>8, <2>9 DEF CacheTypes
  <2>11. PendingInv(d, h)
    <3>1. \A p \in w : p \in c.pending /\ m[p.slot].present /\ m[p.slot].code = c.main[p.slot].code
      BY <1>4, <2>6, <2>8, <2>9
    <3> QED BY <1>1, <1>2, <2>7, <3>1 DEF PendingInv
  <2>12. d.main = [c.main EXCEPT ![f] = new] /\ d.code = c.code /\ d.memo = c.memo
    BY <2>7, <2>9
  <2>13. CacheInv(d, title, generation, h, frames, leaked)
    BY <2>2, <2>6, <2>10, <2>11, <2>12, ChangedKeeps
  <2> QED BY <1>2, <2>13 DEF d, h
<1> QED BY <1>5, <1>6

-----------------------------------------------------------------------------
(* Calls and pins                                                           *)

\* A call in progress more, or one less.
LEMMA RunningChanges ==
    ASSUME NEW fs, IsFiniteSet(fs), NEW frame, NEW f, NEW tier
    PROVE  LET n == Cardinality(Running(fs, f, tier))
           IN  /\ frame \notin fs =>
                    Cardinality(Running(fs \cup {frame}, f, tier)) =
                        IF frame.f = f /\ frame.tier = tier THEN n + 1 ELSE n
               /\ frame \in fs =>
                    Cardinality(Running(fs \ {frame}, f, tier)) =
                        IF frame.f = f /\ frame.tier = tier THEN n - 1 ELSE n
<1> DEFINE S == Running(fs, f, tier)
<1>1. IsFiniteSet(S)
  BY RunningIsNat
<1>2. CASE frame.f = f /\ frame.tier = tier
  <2>1. Running(fs \cup {frame}, f, tier) = S \cup {frame}
    BY <1>2 DEF Running
  <2>2. Running(fs \ {frame}, f, tier) = S \ {frame}
    BY DEF Running
  <2>3. frame \in S <=> frame \in fs
    BY <1>2 DEF Running
  <2>4. Cardinality(S \cup {frame}) = IF frame \in S THEN Cardinality(S) ELSE Cardinality(S) + 1
    BY <1>1, FS_AddElement
  <2>5. Cardinality(S \ {frame}) = IF frame \in S THEN Cardinality(S) - 1 ELSE Cardinality(S)
    BY <1>1, FS_RemoveElement
  <2> QED BY <1>2, <2>1, <2>2, <2>3, <2>4, <2>5
<1>3. CASE ~(frame.f = f /\ frame.tier = tier)
  <2>1. Running(fs \cup {frame}, f, tier) = S /\ Running(fs \ {frame}, f, tier) = S
    BY <1>3 DEF Running
  <2> QED BY <1>3, <2>1
<1> QED BY <1>2, <1>3

\* Another call of an entry is one more pin, ...
LEMMA PinAdded ==
    ASSUME NEW slots, NEW new, NEW tier, NEW fs, NEW L, IsFiniteSet(fs),
           PinsInv(slots, tier, fs, L), NEW frame, frame \notin fs, frame.tier = tier,
           NEW f, frame.f = f, \A g \in GuestFunctions : g # f => new[g] = slots[g],
           slots[f].present, slots[f].pins \in Nat,
           new[f].pins = slots[f].pins + 1, new[f].present
    PROVE  PinsInv(new, tier, fs \cup {frame}, L)
<1> SUFFICES ASSUME NEW g \in GuestFunctions
             PROVE  LET n == Cardinality(Running(fs \cup {frame}, g, tier))
                    IN  /\ n > 0 => new[g].present
                        /\ new[g].present =>
                             IF g \in L THEN new[g].pins >= n ELSE new[g].pins = n
  BY DEF PinsInv
<1> DEFINE n == Cardinality(Running(fs, g, tier))
           k == Cardinality(Running(fs \cup {frame}, g, tier))
<1>1. n \in Nat /\ k = IF g = f THEN n + 1 ELSE n
  BY RunningIsNat, RunningChanges
<1>2. /\ n > 0 => slots[g].present
      /\ slots[g].present => IF g \in L THEN slots[g].pins >= n ELSE slots[g].pins = n
  BY DEF PinsInv
<1> HIDE DEF n
<1>3. CASE g = f
  <2> HIDE DEF k
  <2>1. k = n + 1 /\ new[g].pins = slots[g].pins + 1 /\ slots[g].pins \in Nat
    BY <1>1, <1>3
  <2>2. IF g \in L THEN slots[g].pins >= n ELSE slots[g].pins = n
    BY <1>2, <1>3
  <2>3. IF g \in L THEN new[g].pins >= k ELSE new[g].pins = k
    BY <1>1, <2>1, <2>2
  <2> QED BY <1>3, <2>3 DEF k
<1>4. CASE g # f
  BY <1>1, <1>2, <1>4
<1> QED BY <1>3, <1>4

\* ... a return one less, ...
LEMMA PinRemoved ==
    ASSUME NEW slots, NEW new, NEW tier, NEW fs, NEW L, IsFiniteSet(fs),
           PinsInv(slots, tier, fs, L), NEW frame \in fs, frame.tier = tier,
           NEW f, frame.f = f, \A g \in GuestFunctions : g # f => new[g] = slots[g],
           slots[f].pins \in Nat,
           new[f].pins = slots[f].pins - 1, new[f].present = slots[f].present
    PROVE  PinsInv(new, tier, fs \ {frame}, L)
<1> SUFFICES ASSUME NEW g \in GuestFunctions
             PROVE  LET n == Cardinality(Running(fs \ {frame}, g, tier))
                    IN  /\ n > 0 => new[g].present
                        /\ new[g].present =>
                             IF g \in L THEN new[g].pins >= n ELSE new[g].pins = n
  BY DEF PinsInv
<1> DEFINE n == Cardinality(Running(fs, g, tier))
           k == Cardinality(Running(fs \ {frame}, g, tier))
<1>1. n \in Nat /\ k = IF g = f THEN n - 1 ELSE n
  BY RunningIsNat, RunningChanges
<1>2. /\ n > 0 => slots[g].present
      /\ slots[g].present => IF g \in L THEN slots[g].pins >= n ELSE slots[g].pins = n
  BY DEF PinsInv
<1> HIDE DEF n
<1>3. CASE g = f
  <2> HIDE DEF k
  <2>1. k = n - 1 /\ new[g].pins = slots[g].pins - 1 /\ slots[g].pins \in Nat
    BY <1>1, <1>3
  <2>2. ASSUME slots[g].present
        PROVE  IF g \in L THEN new[g].pins >= k ELSE new[g].pins = k
    BY <1>1, <1>2, <2>1, <2>2
  <2>3. k > 0 => slots[g].present
    BY <1>1, <1>2, <2>1
  <2> QED BY <1>3, <2>2, <2>3 DEF k
<1>4. CASE g # f
  BY <1>1, <1>2, <1>4
<1> QED BY <1>3, <1>4

\* ... and a call of another tier does not count.
LEMMA PinElsewhere ==
    ASSUME NEW slots, NEW tier, NEW fs, NEW L, IsFiniteSet(fs),
           PinsInv(slots, tier, fs, L), NEW frame, frame.tier # tier
    PROVE  PinsInv(slots, tier, fs \cup {frame}, L) /\ PinsInv(slots, tier, fs \ {frame}, L)
<1>1. \A f : Running(fs \cup {frame}, f, tier) = Running(fs, f, tier)
          /\ Running(fs \ {frame}, f, tier) = Running(fs, f, tier)
  BY DEF Running
<1> QED BY <1>1 DEF PinsInv

\* What pinning changes of an entry, in either tier.
MainPins(c, f, k) == [c EXCEPT !.main[f].pins = k]
CodePins(c, f, k) == [c EXCEPT !.code[f].pins = k]
MainPinned(c, d, f, k) ==
    /\ CacheTypes(d)
    /\ d.code = c.code /\ d.memo = c.memo /\ d.pending = c.pending
    /\ \A g \in GuestFunctions : g # f => d.main[g] = c.main[g]
    /\ d.main[f].present = c.main[f].present /\ d.main[f].code = c.main[f].code
    /\ d.main[f].function = c.main[f].function
    /\ d.main[f].generation = c.main[f].generation
    /\ d.main[f].pins = k
CodePinned(c, d, f, k) ==
    /\ CacheTypes(d)
    /\ d.main = c.main /\ d.memo = c.memo /\ d.pending = c.pending
    /\ \A g \in GuestFunctions : g # f => d.code[g] = c.code[g]
    /\ d.code[f].present = c.code[f].present /\ d.code[f].code = c.code[f].code
    /\ d.code[f].function = c.code[f].function
    /\ d.code[f].generation = c.code[f].generation
    /\ d.code[f].pins = k

LEMMA MainPinsFields ==
    ASSUME NEW c, NEW f \in GuestFunctions, NEW k, k \in Nat, CacheTypes(c), c.main[f].present,
           NEW d, d = MainPins(c, f, k)
    PROVE  MainPinned(c, d, f, k)
<1> DEFINE new == [c.main[f] EXCEPT !.pins = k]
           m == [c.main EXCEPT ![f] = new]
<1>1. c.main[f] \in Entries
  BY SlotIs DEF CacheTypes
<1>2. /\ new \in Entries /\ new.pins = k
        /\ new.present = c.main[f].present /\ new.code = c.main[f].code
        /\ new.function = c.main[f].function /\ new.generation = c.main[f].generation
  BY <1>1 DEF Entries
<1>3. d = [main |-> m, code |-> c.code, recency |-> c.recency, memo |-> c.memo,
           pending |-> c.pending]
  BY DEF CacheTypes, MainPins
<1> HIDE DEF new
<1>4. /\ m \in [GuestFunctions -> Slots]
      /\ \A g \in GuestFunctions : m[g] = IF g = f THEN new ELSE c.main[g]
  BY <1>2 DEF CacheTypes, Slots
<1> HIDE DEF m
<1>5. CacheTypes(d)
  BY <1>3, <1>4 DEF CacheTypes
<1>6. d.main = m /\ d.code = c.code /\ d.memo = c.memo /\ d.pending = c.pending
  BY <1>3
<1>7. m[f] = new
  BY <1>4
<1> HIDE DEF m
<1> QED BY <1>2, <1>4, <1>5, <1>6, <1>7 DEF MainPinned

LEMMA CodePinsFields ==
    ASSUME NEW c, NEW f \in GuestFunctions, NEW k, k \in Nat, CacheTypes(c), c.code[f].present,
           NEW d, d = CodePins(c, f, k)
    PROVE  CodePinned(c, d, f, k)
<1> DEFINE new == [c.code[f] EXCEPT !.pins = k]
           m == [c.code EXCEPT ![f] = new]
<1>1. c.code[f] \in Entries
  BY SlotIs DEF CacheTypes
<1>2. /\ new \in Entries /\ new.pins = k
        /\ new.present = c.code[f].present /\ new.code = c.code[f].code
        /\ new.function = c.code[f].function /\ new.generation = c.code[f].generation
  BY <1>1 DEF Entries
<1>3. d = [main |-> c.main, code |-> m, recency |-> c.recency, memo |-> c.memo,
           pending |-> c.pending]
  BY DEF CacheTypes, CodePins
<1> HIDE DEF new
<1>4. /\ m \in [GuestFunctions -> Slots]
      /\ \A g \in GuestFunctions : m[g] = IF g = f THEN new ELSE c.code[g]
  BY <1>2 DEF CacheTypes, Slots
<1> HIDE DEF m
<1>5. CacheTypes(d)
  BY <1>3, <1>4 DEF CacheTypes
<1>6. d.code = m /\ d.main = c.main /\ d.memo = c.memo /\ d.pending = c.pending
  BY <1>3
<1>7. m[f] = new
  BY <1>4
<1> HIDE DEF m
<1> QED BY <1>2, <1>4, <1>5, <1>6, <1>7 DEF CodePinned

\* Only the counts of an entry's pins speak of them.
LEMMA RepinnedKeeps ==
    ASSUME NEW c, NEW d, NEW t, NEW gen, NEW h, NEW fs, NEW new, NEW L,
           CacheInv(c, t, gen, h, fs, L), CacheTypes(d),
           d.memo = c.memo, d.pending = c.pending,
           \A f \in GuestFunctions :
               /\ d.main[f].present = c.main[f].present /\ d.main[f].code = c.main[f].code
               /\ d.main[f].function = c.main[f].function
               /\ d.main[f].generation = c.main[f].generation
               /\ d.code[f].present = c.code[f].present /\ d.code[f].code = c.code[f].code
               /\ d.code[f].function = c.code[f].function
               /\ d.code[f].generation = c.code[f].generation,
           PinsInv(d.main, "main", new, L), PinsInv(d.code, "code", new, L)
    PROVE  CacheInv(d, t, gen, h, new, L)
<1> USE DEF CacheInv
<1>1. EntriesInv(d, t, L)
  BY DEF EntriesInv
<1>2. MemoInv(d, gen)
  BY DEF MemoInv
<1>3. PendingInv(d, h)
  BY DEF PendingInv, CacheTypes, Requests
<1> QED BY <1>1, <1>2, <1>3

LEMMA PinnedKeeps ==
    ASSUME NEW c, NEW t, NEW gen, NEW h, NEW fs, NEW L, IsFiniteSet(fs),
           CacheInv(c, t, gen, h, fs, L), NEW frame \in Calls, frame \notin fs,
           NEW f \in GuestFunctions, frame.f = f,
           \/ frame.tier = "main" /\ c.main[f].present
           \/ frame.tier = "code" /\ c.code[f].present
    PROVE  CacheInv(Pinned(c, f, frame.tier), t, gen, h, fs \cup {frame}, L)
<1>2. CacheTypes(c) /\ PinsInv(c.main, "main", fs, L) /\ PinsInv(c.code, "code", fs, L)
  BY DEF CacheInv
<1>3. CASE frame.tier = "main" /\ c.main[f].present
  <2> DEFINE k == c.main[f].pins + 1
             d == MainPins(c, f, k)
  <2>1. c.main[f] \in Entries
    BY <1>2, <1>3, SlotIs DEF CacheTypes
  <2>2. c.main[f].pins \in Nat
    BY <2>1 DEF Entries
  <2>3. k \in Nat /\ k = c.main[f].pins + 1
    BY <2>2
  <2>4. Pinned(c, f, frame.tier) = d
    BY <1>2, <1>3 DEF Pinned, CacheTypes, MainPins
  <2> HIDE DEF k
  <2>5. /\ CacheTypes(d)
        /\ d.code = c.code /\ d.memo = c.memo /\ d.pending = c.pending
        /\ \A g \in GuestFunctions : g # f => d.main[g] = c.main[g]
        /\ d.main[f].present = c.main[f].present /\ d.main[f].code = c.main[f].code
        /\ d.main[f].function = c.main[f].function
        /\ d.main[f].generation = c.main[f].generation
        /\ d.main[f].pins = k
    <3>1. d = MainPins(c, f, k)
      OBVIOUS
    <3> HIDE DEF d
    <3>2. CacheTypes(c) /\ c.main[f].present /\ k \in Nat
      BY <1>2, <1>3, <2>3
    <3>3. MainPinned(c, d, f, k)
      BY <3>1, <3>2, MainPinsFields
    <3> QED BY <3>3 DEF MainPinned
  <2> HIDE DEF d
  <2>6. PinsInv(d.main, "main", fs \cup {frame}, L)
    <3>1. /\ PinsInv(c.main, "main", fs, L) /\ frame.tier = "main"
          /\ \A g \in GuestFunctions : g # f => d.main[g] = c.main[g]
          /\ c.main[f].present /\ c.main[f].pins \in Nat
          /\ d.main[f].pins = c.main[f].pins + 1 /\ d.main[f].present
      BY <1>2, <1>3, <2>2, <2>3, <2>5
    <3> QED BY <3>1, PinAdded
  <2>7. PinsInv(d.code, "code", fs \cup {frame}, L)
    BY <1>2, <1>3, <2>5, PinElsewhere
  <2>8. \A g \in GuestFunctions :
           /\ d.main[g].present = c.main[g].present /\ d.main[g].code = c.main[g].code
           /\ d.main[g].function = c.main[g].function
           /\ d.main[g].generation = c.main[g].generation
    BY <2>5
  <2>9. CacheInv(d, t, gen, h, fs \cup {frame}, L)
    BY <2>5, <2>6, <2>7, <2>8, RepinnedKeeps
  <2> QED BY <2>4, <2>9
<1>4. CASE frame.tier = "code" /\ c.code[f].present
  <2> DEFINE k == c.code[f].pins + 1
             d == CodePins(c, f, k)
  <2>1. c.code[f] \in Entries
    BY <1>2, <1>4, SlotIs DEF CacheTypes
  <2>2. c.code[f].pins \in Nat
    BY <2>1 DEF Entries
  <2>3. k \in Nat /\ k = c.code[f].pins + 1
    BY <2>2
  <2>4. Pinned(c, f, frame.tier) = d
    BY <1>2, <1>4 DEF Pinned, CacheTypes, CodePins
  <2> HIDE DEF k
  <2>5. /\ CacheTypes(d)
        /\ d.main = c.main /\ d.memo = c.memo /\ d.pending = c.pending
        /\ \A g \in GuestFunctions : g # f => d.code[g] = c.code[g]
        /\ d.code[f].present = c.code[f].present /\ d.code[f].code = c.code[f].code
        /\ d.code[f].function = c.code[f].function
        /\ d.code[f].generation = c.code[f].generation
        /\ d.code[f].pins = k
    <3>1. d = CodePins(c, f, k)
      OBVIOUS
    <3> HIDE DEF d
    <3>2. CacheTypes(c) /\ c.code[f].present /\ k \in Nat
      BY <1>2, <1>4, <2>3
    <3>3. CodePinned(c, d, f, k)
      BY <3>1, <3>2, CodePinsFields
    <3> QED BY <3>3 DEF CodePinned
  <2> HIDE DEF d
  <2>6. PinsInv(d.code, "code", fs \cup {frame}, L)
    <3>1. /\ PinsInv(c.code, "code", fs, L) /\ frame.tier = "code"
          /\ \A g \in GuestFunctions : g # f => d.code[g] = c.code[g]
          /\ c.code[f].present /\ c.code[f].pins \in Nat
          /\ d.code[f].pins = c.code[f].pins + 1 /\ d.code[f].present
      BY <1>2, <1>4, <2>2, <2>3, <2>5
    <3> QED BY <3>1, PinAdded
  <2>7. PinsInv(d.main, "main", fs \cup {frame}, L)
    BY <1>2, <1>4, <2>5, PinElsewhere
  <2>8. \A g \in GuestFunctions :
           /\ d.code[g].present = c.code[g].present /\ d.code[g].code = c.code[g].code
           /\ d.code[g].function = c.code[g].function
           /\ d.code[g].generation = c.code[g].generation
    BY <2>5
  <2>9. CacheInv(d, t, gen, h, fs \cup {frame}, L)
    BY <2>5, <2>6, <2>7, <2>8, RepinnedKeeps
  <2> QED BY <2>4, <2>9
<1> QED BY <1>3, <1>4

\* A call in progress has its pin.
LEMMA RunningIsPinned ==
    ASSUME NEW slots \in [GuestFunctions -> Slots], NEW tier, NEW fs, NEW L, IsFiniteSet(fs),
           PinsInv(slots, tier, fs, L), NEW frame \in fs, NEW f \in GuestFunctions,
           frame.f = f, frame.tier = tier
    PROVE  slots[f].present /\ slots[f].pins \in Nat /\ slots[f].pins > 0
<1> DEFINE n == Cardinality(Running(fs, f, tier))
<1>1. n \in Nat /\ n # 0
  <2>1. frame \in Running(fs, f, tier)
    BY DEF Running
  <2> QED BY <2>1, RunningIsNat, FS_EmptySet
<1>2. /\ n > 0 => slots[f].present
      /\ slots[f].present => IF f \in L THEN slots[f].pins >= n ELSE slots[f].pins = n
  BY DEF PinsInv
<1> HIDE DEF n
<1>3. slots[f].present
  BY <1>1, <1>2
<1>4. slots[f].pins \in Nat
  BY <1>3, SlotIs DEF Entries
<1> QED BY <1>1, <1>2, <1>3, <1>4

LEMMA ReturnedKeeps ==
    ASSUME NEW c, NEW t, NEW gen, NEW h, NEW fs, NEW L, IsFiniteSet(fs),
           CacheInv(c, t, gen, h, fs, L), NEW frame \in fs, NEW f \in GuestFunctions, frame.f = f
    PROVE  LET d == IF frame.tier = "main" THEN [c EXCEPT !.main[f].pins = @ - 1]
                    ELSE IF frame.tier = "code" THEN [c EXCEPT !.code[f].pins = @ - 1]
                    ELSE c
           IN  CacheInv(d, t, gen, h, fs \ {frame}, L)
<1>1. CacheTypes(c) /\ PinsInv(c.main, "main", fs, L) /\ PinsInv(c.code, "code", fs, L)
  BY DEF CacheInv
<1>2. CASE frame.tier = "main"
  <2> DEFINE k == c.main[f].pins - 1
             d == MainPins(c, f, k)
  <2>1. c.main[f].present /\ c.main[f].pins \in Nat /\ c.main[f].pins > 0
    <3>1. c.main \in [GuestFunctions -> Slots]
      BY <1>1 DEF CacheTypes
    <3> QED BY <1>1, <1>2, <3>1, RunningIsPinned
  <2>2. k \in Nat /\ k = c.main[f].pins - 1
    BY <2>1
  <2>3. [c EXCEPT !.main[f].pins = @ - 1] = d
    BY <1>1 DEF CacheTypes, MainPins
  <2> HIDE DEF k
  <2>4. MainPinned(c, d, f, k)
    <3>1. d = MainPins(c, f, k)
      OBVIOUS
    <3> HIDE DEF d
    <3>2. CacheTypes(c) /\ c.main[f].present /\ k \in Nat
      BY <1>1, <2>1, <2>2
    <3> QED BY <3>1, <3>2, MainPinsFields
  <2> HIDE DEF d
  <2>5. PinsInv(d.main, "main", fs \ {frame}, L)
    <3>1. /\ PinsInv(c.main, "main", fs, L) /\ frame.tier = "main"
          /\ \A g \in GuestFunctions : g # f => d.main[g] = c.main[g]
          /\ c.main[f].pins \in Nat
          /\ d.main[f].pins = c.main[f].pins - 1 /\ d.main[f].present = c.main[f].present
      BY <1>1, <1>2, <2>1, <2>2, <2>4 DEF MainPinned
    <3> QED BY <3>1, PinRemoved
  <2>6. PinsInv(d.code, "code", fs \ {frame}, L)
    BY <1>1, <1>2, <2>4, PinElsewhere DEF MainPinned
  <2>7. CacheInv(d, t, gen, h, fs \ {frame}, L)
    BY <2>4, <2>5, <2>6, RepinnedKeeps DEF MainPinned
  <2> QED BY <1>2, <2>3, <2>7
<1>3. CASE frame.tier = "code"
  <2> DEFINE k == c.code[f].pins - 1
             d == CodePins(c, f, k)
  <2>1. c.code[f].present /\ c.code[f].pins \in Nat /\ c.code[f].pins > 0
    <3>1. c.code \in [GuestFunctions -> Slots]
      BY <1>1 DEF CacheTypes
    <3> QED BY <1>1, <1>3, <3>1, RunningIsPinned
  <2>2. k \in Nat /\ k = c.code[f].pins - 1
    BY <2>1
  <2>3. [c EXCEPT !.code[f].pins = @ - 1] = d
    BY <1>1 DEF CacheTypes, CodePins
  <2> HIDE DEF k
  <2>4. CodePinned(c, d, f, k)
    <3>1. d = CodePins(c, f, k)
      OBVIOUS
    <3> HIDE DEF d
    <3>2. CacheTypes(c) /\ c.code[f].present /\ k \in Nat
      BY <1>1, <2>1, <2>2
    <3> QED BY <3>1, <3>2, CodePinsFields
  <2> HIDE DEF d
  <2>5. PinsInv(d.code, "code", fs \ {frame}, L)
    <3>1. /\ PinsInv(c.code, "code", fs, L) /\ frame.tier = "code"
          /\ \A g \in GuestFunctions : g # f => d.code[g] = c.code[g]
          /\ c.code[f].pins \in Nat
          /\ d.code[f].pins = c.code[f].pins - 1 /\ d.code[f].present = c.code[f].present
      BY <1>1, <1>3, <2>1, <2>2, <2>4 DEF CodePinned
    <3> QED BY <3>1, PinRemoved
  <2>6. PinsInv(d.main, "main", fs \ {frame}, L)
    BY <1>1, <1>3, <2>4, PinElsewhere DEF CodePinned
  <2>7. CacheInv(d, t, gen, h, fs \ {frame}, L)
    BY <2>4, <2>5, <2>6, RepinnedKeeps DEF CodePinned
  <2> QED BY <1>3, <2>3, <2>7
<1>4. CASE frame.tier \notin {"main", "code"}
  <2>1. PinsInv(c.main, "main", fs \ {frame}, L) /\ PinsInv(c.code, "code", fs \ {frame}, L)
    BY <1>1, <1>4, PinElsewhere
  <2> QED BY <1>4, <2>1 DEF CacheInv
<1> QED BY <1>2, <1>3, <1>4

\* As long as there is room for a call, it finds a number.
LEMMA NumberIsFree ==
    ASSUME NEW fs, IsFiniteSet(fs), Cardinality(fs) < MaxFrames,
           NEW f, NEW tier, NEW how, NEW now
    PROVE  \E n \in 1 .. MaxFrames :
               [n |-> n, f |-> f, tier |-> tier, how |-> how, current |-> now] \notin fs
<1> DEFINE call(n) == [n |-> n, f |-> f, tier |-> tier, how |-> how, current |-> now]
           calls == [n \in 1 .. MaxFrames |-> call(n)]
<1>1. IsFiniteSet(1 .. MaxFrames) /\ Cardinality(1 .. MaxFrames) = MaxFrames
  BY FS_Interval, TranslationAssumption
<1>2. ASSUME \A n \in 1 .. MaxFrames : call(n) \in fs
      PROVE  FALSE
  <2>1. calls \in [1 .. MaxFrames -> fs]
    BY <1>2
  <2> HIDE DEF calls
  <2>2. PICK x, y \in 1 .. MaxFrames : x # y /\ calls[x] = calls[y]
    BY <1>1, <2>1, FS_PigeonHole
  <2>3. call(x) = call(y)
    BY <2>2 DEF calls
  <2>4. call(x).n = x /\ call(y).n = y
    OBVIOUS
  <2> QED BY <2>2, <2>3, <2>4
<1> QED BY <1>2

-----------------------------------------------------------------------------
(* The steps                                                                *)

LEMMA CallGetsFrame ==
    ASSUME IsFiniteSet(frames), Cardinality(frames) < MaxFrames,
           NEW f \in GuestFunctions, NEW tier \in {"main", "code", "none"},
           NEW how \in {"hir", "compiled"}, NEW code, CallBegins(f, tier, how, code)
    PROVE  \E frame \in Calls :
               /\ frame \notin frames /\ frames' = frames \cup {frame}
               /\ frame.f = f /\ frame.tier = tier
               /\ code = Current(f) => frame.current
<1> DEFINE now == code = Current(f)
           call(n) == [n |-> n, f |-> f, tier |-> tier, how |-> how, current |-> now]
           new == CHOOSE n \in 1 .. MaxFrames : call(n) \notin frames
<1>1. now \in BOOLEAN /\ (code = Current(f) => now)
  OBVIOUS
<1>2. frames' = frames \cup {call(new)}
  BY DEF CallBegins
<1> HIDE DEF now
<1>3. \E n \in 1 .. MaxFrames : call(n) \notin frames
  BY NumberIsFree
<1>4. new \in 1 .. MaxFrames /\ call(new) \notin frames
  BY <1>3
<1> HIDE DEF new
<1>5. call(new) \in Calls
  BY <1>1, <1>4 DEF Calls
<1>6. call(new).f = f /\ call(new).tier = tier /\ call(new).current = now
  OBVIOUS
<1> HIDE DEF call
<1> QED BY <1>1, <1>2, <1>4, <1>5, <1>6

\* A call that runs what is current, and is counted where it runs.
LEMMA CallBegun ==
    ASSUME WorldInv, RunsCurrentCode, NEW frame \in Calls,
           frames' = frames \cup {frame}, frame.current \/ frame.f \in leaked,
           UNCHANGED <<title, generation, leaked>>, HostTypes(host'),
           CacheInv(cached', title, generation, host', frames \cup {frame}, leaked)
    PROVE  TranslationInv'
<1>1. IsFiniteSet(frames') /\ frames' \subseteq Calls
  BY FS_AddElement DEF WorldInv
<1>2. WorldInv'
  BY <1>1 DEF WorldInv
<1>3. RunsCurrentCode'
  BY DEF RunsCurrentCode
<1> QED BY <1>2, <1>3 DEF TranslationInv

LEMMA MainRuns ==
    ASSUME WorldInv, RunsCurrentCode, Cardinality(frames) < MaxFrames,
           NEW c, NEW f \in GuestFunctions, NEW interior \in BOOLEAN,
           Holds(c), c.main[f].present, f \notin leaked => c.main[f].code = Current(f),
           RunMain(c, f, interior), UNCHANGED <<title, generation, leaked>>
    PROVE  TranslationInv'
<1> DEFINE slot == c.main[f]
<1>1. CacheTypes(c) /\ EntriesInv(c, title, leaked) /\ PendingInv(c, host) /\ IsFiniteSet(frames)
        /\ HostTypes(host)
  BY DEF Holds, CacheInv, WorldInv
<1>2. slot \in Entries
  BY <1>1, SlotIs DEF CacheTypes
<1>3. slot.function \in {NoCode, slot.code}
  BY <1>1 DEF EntriesInv
<1>4. ASSUME NEW d, CacheInv(d, title, generation, host', frames, leaked), d.main[f].present,
             HostTypes(host'), cached' = Pinned(d, f, "main"),
             NEW how \in {"hir", "compiled"}, CallBegins(f, "main", how, slot.code)
      PROVE  TranslationInv'
  <2>1. PICK frame \in Calls :
             /\ frame \notin frames /\ frames' = frames \cup {frame}
             /\ frame.f = f /\ frame.tier = "main"
             /\ slot.code = Current(f) => frame.current
    BY <1>1, <1>4, CallGetsFrame
  <2>2. CacheInv(Pinned(d, f, frame.tier), title, generation, host', frames \cup {frame}, leaked)
    BY <1>1, <1>4, <2>1, PinnedKeeps
  <2>3. CacheInv(cached', title, generation, host', frames \cup {frame}, leaked)
    BY <1>4, <2>1, <2>2
  <2>4. frame.current \/ frame.f \in leaked
    BY <2>1
  <2> QED BY <1>4, <2>1, <2>3, <2>4, CallBegun
<1> DEFINE inHir == \/ interior \/ ~host.enabled \/ slot.state # "cold"
                    \/ slot.function = NoCode /\ ~Compiles(slot)
<1>5. CASE inHir
  <2> DEFINE runs == IF /\ host.enabled /\ slot.state = "cold"
                        /\ slot.function = NoCode /\ slot.runs + 1 < HotThreshold
                     THEN slot.runs + 1 ELSE slot.runs
             new == [slot EXCEPT !.runs = runs]
             m == [c.main EXCEPT ![f] = new]
             d == [c EXCEPT !.main[f].runs =
                      IF /\ host.enabled /\ slot.state = "cold"
                         /\ slot.function = NoCode /\ @ + 1 < HotThreshold
                      THEN @ + 1 ELSE @]
  <2>1. cached' = Pinned(d, f, "main") /\ CallBegins(f, "main", "hir", slot.code) /\ host' = host
    BY <1>5 DEF RunMain
  <2>2. runs \in Nat
    <3>1. slot.runs \in Nat
      BY <1>2 DEF Entries
    <3> QED BY <3>1
  <2>3. d = [main |-> m, code |-> c.code, recency |-> c.recency, memo |-> c.memo,
             pending |-> c.pending]
    BY <1>1 DEF CacheTypes
  <2> HIDE DEF runs, d
  <2>4. new \in Entries /\ new.present /\ new.pins = slot.pins
          /\ new.generation = slot.generation /\ new.code = slot.code
          /\ new.function = slot.function
    BY <1>2, <2>2 DEF Entries
  <2> HIDE DEF new
  <2>5. m \in [GuestFunctions -> Slots] /\ m = [c.main EXCEPT ![f] = new]
    BY <1>1, <2>4 DEF CacheTypes, Slots
  <2>6. \A g \in GuestFunctions : m[g] = IF g = f THEN new ELSE c.main[g]
    BY <1>1 DEF CacheTypes
  <2> HIDE DEF m
  <2>7. CacheTypes(d)
    BY <1>1, <2>3, <2>5 DEF CacheTypes
  <2>8. PendingInv(d, host)
    <3>1. \A q \in c.pending : q.slot \in GuestFunctions
      BY <1>1 DEF CacheTypes, Requests
    <3> QED BY <1>1, <2>3, <2>4, <2>6, <3>1 DEF PendingInv
  <2>9. d.main = [c.main EXCEPT ![f] = new] /\ d.code = c.code /\ d.memo = c.memo
    BY <2>3, <2>5
  <2>10. CacheInv(d, title, generation, host, frames, leaked)
    <3>1. new.function \in {NoCode, new.code}
      BY <1>3, <2>4
    <3> QED BY <1>1, <2>4, <2>7, <2>8, <2>9, <3>1, ChangedKeeps
  <2>11. d.main[f].present
    BY <2>3, <2>4, <2>6
  <2> QED BY <1>1, <1>4, <2>1, <2>10, <2>11
<1>6. CASE ~inHir /\ slot.function # NoCode
  <2>1. cached' = Pinned(c, f, "main") /\ CallBegins(f, "main", "compiled", slot.function)
          /\ host' = host
    BY <1>6 DEF RunMain
  <2>2. CallBegins(f, "main", "compiled", slot.code)
    BY <1>3, <1>6, <2>1
  <2> QED BY <1>1, <1>4, <2>1, <2>2 DEF Holds
<1>7. CASE ~inHir /\ slot.function = NoCode
  <2>1. PICK outcome \in Outcomes :
             /\ cached' = Pinned(Requested(c, f, outcome), f, "main")
             /\ host' = HostAsked(f, slot.code, outcome)
             /\ CallBegins(f, "main", IF outcome = "now" THEN "compiled" ELSE "hir", slot.code)
    BY <1>7 DEF RunMain, Outcomes
  <2> DEFINE d == Requested(c, f, outcome)
             how == IF outcome = "now" THEN "compiled" ELSE "hir"
  <2>2. /\ CacheInv(d, title, generation, host', frames, leaked)
        /\ HostTypes(host')
        /\ d.main[f].present
    BY <1>1, <1>7, <2>1, RequestedKeeps
  <2>3. how \in {"hir", "compiled"}
    OBVIOUS
  <2> HIDE DEF d, how
  <2>4. cached' = Pinned(d, f, "main") /\ CallBegins(f, "main", how, slot.code)
    BY <2>1 DEF d, how
  <2> QED BY <1>4, <2>2, <2>3, <2>4
<1> QED BY <1>5, <1>6, <1>7

\* What is fresh, and not left by an abandoned fiber, is what the pages hold.
LEMMA FreshIsCurrent ==
    ASSUME NEW c, NEW f \in GuestFunctions, Holds(c), f \notin leaked
    PROVE  /\ c.main[f].present /\ Fresh(c.main[f], f) => c.main[f].code = Current(f)
           /\ c.code[f].present /\ Fresh(c.code[f], f) => c.code[f].function = Current(f)
BY DEF Holds, CacheInv, EntriesInv, Fresh, Current

LEMMA GuestCallsKeeps ==
    ASSUME TranslationInv, NEW f \in GuestFunctions, NEW interior \in BOOLEAN,
           GuestCalls(f, interior)
    PROVE  TranslationInv'
<1> DEFINE found == Looked(cached, f, interior)
           c == found.cache
<1>1. WorldInv /\ RunsCurrentCode /\ Holds(cached) /\ IsFiniteSet(frames) /\ HostTypes(host)
        /\ title \in Nat /\ generation \in [GuestFunctions -> Nat]
  BY DEF TranslationInv, Holds, WorldInv
<1>2. Cardinality(frames) < MaxFrames /\ UNCHANGED <<title, generation, leaked>>
  BY DEF GuestCalls
<1>3. /\ Holds(c)
      /\ found.tier = "main" => c.main[f].present /\ Fresh(c.main[f], f)
      /\ found.tier = "code" => c.code[f].present /\ Fresh(c.code[f], f)
  BY <1>1, LookedFinds
<1>4. CASE found.tier = "main"
  <2>1. RunMain(c, f, interior)
    BY <1>4 DEF GuestCalls
  <2> HIDE DEF found
  <2>2. f \notin leaked => c.main[f].code = Current(f)
    BY <1>3, <1>4, FreshIsCurrent
  <2> QED BY <1>1, <1>2, <1>3, <1>4, <2>1, <2>2, MainRuns
<1>5. CASE found.tier = "code"
  <2>1. cached' = Pinned(c, f, "code") /\ host' = host
          /\ CallBegins(f, "code", "compiled", c.code[f].function)
    BY <1>5 DEF GuestCalls
  <2> HIDE DEF found
  <2>2. f \notin leaked => c.code[f].function = Current(f)
    BY <1>3, <1>5, FreshIsCurrent
  <2>3. PICK frame \in Calls :
             /\ frame \notin frames /\ frames' = frames \cup {frame}
             /\ frame.f = f /\ frame.tier = "code"
             /\ c.code[f].function = Current(f) => frame.current
    BY <1>1, <1>2, <2>1, CallGetsFrame
  <2>4. CacheInv(Pinned(c, f, frame.tier), title, generation, host, frames \cup {frame}, leaked)
    BY <1>1, <1>3, <1>5, <2>3, PinnedKeeps DEF Holds
  <2>5. CacheInv(cached', title, generation, host', frames \cup {frame}, leaked)
    BY <2>1, <2>3, <2>4
  <2>6. frame.current \/ frame.f \in leaked
    BY <2>2, <2>3
  <2>7. HostTypes(host')
    BY <1>1, <2>1
  <2> QED BY <1>1, <1>2, <2>3, <2>5, <2>6, <2>7, CallBegun
<1>6. CASE found.tier \notin {"main", "code"} /\ c.main[f].present /\ c.main[f].pins > 0
  <2>1. cached' = c /\ host' = host /\ CallBegins(f, "none", "hir", Current(f))
    BY <1>6 DEF GuestCalls
  <2> HIDE DEF found
  <2>2. PICK frame \in Calls :
             /\ frame \notin frames /\ frames' = frames \cup {frame}
             /\ frame.f = f /\ frame.tier = "none"
             /\ Current(f) = Current(f) => frame.current
    BY <1>1, <1>2, <2>1, CallGetsFrame
  <2>3. CacheInv(c, title, generation, host, frames \cup {frame}, leaked)
    <3>1. PinsInv(c.main, "main", frames, leaked) /\ PinsInv(c.code, "code", frames, leaked)
      BY <1>3 DEF Holds, CacheInv
    <3>2. PinsInv(c.main, "main", frames \cup {frame}, leaked)
            /\ PinsInv(c.code, "code", frames \cup {frame}, leaked)
      BY <1>1, <2>2, <3>1, PinElsewhere
    <3> QED BY <1>3, <3>2 DEF Holds, CacheInv
  <2>4. CacheInv(cached', title, generation, host', frames \cup {frame}, leaked)
    BY <2>1, <2>3
  <2>5. HostTypes(host')
    BY <1>1, <2>1
  <2> QED BY <1>1, <1>2, <2>2, <2>4, <2>5, CallBegun
<1>7. CASE found.tier \notin {"main", "code"} /\ ~(c.main[f].present /\ c.main[f].pins > 0)
  <2>1. RunMain(Retained(c, f), f, interior)
    BY <1>7 DEF GuestCalls
  <2> HIDE DEF found
  <2> DEFINE d == Retained(c, f)
  <2>2. Holds(d) /\ d.main[f].present /\ d.main[f].code = Current(f)
    BY <1>1, <1>3, <1>7, RetainedKeeps
  <2> HIDE DEF d
  <2>3. RunMain(d, f, interior)
    BY <2>1 DEF d
  <2> QED BY <1>1, <1>2, <2>2, <2>3, MainRuns
<1> QED BY <1>4, <1>5, <1>6, <1>7

LEMMA CallReturnsKeeps ==
    ASSUME TranslationInv, NEW frame \in frames, CallReturns(frame)
    PROVE  TranslationInv'
<1> DEFINE f == frame.f
<1>1. f \in GuestFunctions
  BY DEF TranslationInv, WorldInv, Calls
<1>2. IsFiniteSet(frames') /\ frames' \subseteq frames
  BY FS_RemoveElement DEF TranslationInv, WorldInv, CallReturns
<1>3. CacheInv(cached', title, generation, host, frames \ {frame}, leaked)
  <2>1. CacheInv(cached, title, generation, host, frames, leaked) /\ IsFiniteSet(frames)
    BY DEF TranslationInv, WorldInv
  <2>2. cached' = IF frame.tier = "main" THEN [cached EXCEPT !.main[f].pins = @ - 1]
                  ELSE IF frame.tier = "code" THEN [cached EXCEPT !.code[f].pins = @ - 1]
                  ELSE cached
    BY DEF CallReturns
  <2> QED BY <1>1, <2>1, <2>2, ReturnedKeeps
<1>4. CacheInv(cached, title, generation, host, frames, leaked)'
  BY <1>3 DEF CallReturns
<1>5. WorldInv'
  BY <1>2 DEF TranslationInv, WorldInv, CallReturns
<1>6. RunsCurrentCode'
  BY <1>2 DEF TranslationInv, RunsCurrentCode, CallReturns
<1> QED BY <1>4, <1>5, <1>6 DEF TranslationInv

LEMMA LongRunKeeps ==
    ASSUME TranslationInv, NEW frame \in frames, LongRun(frame)
    PROVE  TranslationInv'
<1> DEFINE f == frame.f
<1>1. f \in GuestFunctions /\ frame.tier = "main" /\ cached.main[f].function = NoCode
        /\ Holds(cached) /\ HostTypes(host) /\ IsFiniteSet(frames)
  BY DEF TranslationInv, WorldInv, Calls, LongRun, Holds
<1>2. cached.main[f].present
  <2>1. CacheTypes(cached) /\ PinsInv(cached.main, "main", frames, leaked)
    BY <1>1 DEF Holds, CacheInv
  <2> QED BY <1>1, <2>1, RunningIsPinned DEF CacheTypes
<1>3. PICK outcome \in Outcomes :
           /\ cached' = Requested(cached, f, outcome)
           /\ host' = HostAsked(f, cached.main[f].code, outcome)
  BY DEF LongRun
<1>4. CacheInv(cached', title, generation, host', frames, leaked) /\ HostTypes(host')
  BY <1>1, <1>2, <1>3, RequestedKeeps
<1>5. UNCHANGED <<title, generation, frames, leaked>>
  BY DEF LongRun
<1>6. WorldInv' /\ RunsCurrentCode'
  BY <1>4, <1>5 DEF TranslationInv, WorldInv, RunsCurrentCode
<1> QED BY <1>4, <1>5, <1>6 DEF TranslationInv

LEMMA HostCompiledKeeps ==
    ASSUME TranslationInv, NEW job \in host.jobs, NEW ok \in BOOLEAN, HostCompiled(job, ok)
    PROVE  TranslationInv'
<1>1. CacheInv(cached', title, generation, host', frames, leaked) /\ HostTypes(host')
  BY InstalledKeeps DEF TranslationInv, WorldInv, Holds, HostCompiled
<1>2. UNCHANGED <<title, generation, frames, leaked>>
  BY DEF HostCompiled
<1>3. WorldInv' /\ RunsCurrentCode'
  BY <1>1, <1>2 DEF TranslationInv, WorldInv, RunsCurrentCode
<1> QED BY <1>1, <1>2, <1>3 DEF TranslationInv

LEMMA SetJitModeKeeps ==
    ASSUME TranslationInv, NEW on \in BOOLEAN, SetJitMode(on)
    PROVE  TranslationInv'
<1>1. /\ host' = [host EXCEPT !.enabled = on]
      /\ UNCHANGED <<title, generation, cached, frames, leaked>>
  BY DEF SetJitMode
<1>2. HostTypes(host') /\ host'.requests = host.requests /\ host'.jobs = host.jobs
  BY <1>1 DEF TranslationInv, WorldInv, HostTypes
<1>3. PendingInv(cached, host')
  BY <1>2 DEF TranslationInv, CacheInv, PendingInv
<1>4. CacheInv(cached, title, generation, host', frames, leaked)
  BY <1>3 DEF TranslationInv, CacheInv
<1>5. WorldInv' /\ RunsCurrentCode'
  BY <1>1, <1>2 DEF TranslationInv, WorldInv, RunsCurrentCode
<1> QED BY <1>1, <1>4, <1>5 DEF TranslationInv

LEMMA RewriteCodeKeeps ==
    ASSUME TranslationInv, NEW f \in GuestFunctions, RewriteCode(f)
    PROVE  TranslationInv'
<1>1. /\ generation' = [generation EXCEPT ![f] = @ + 1]
      /\ cached' = [cached EXCEPT !.memo = NoMemo]
      /\ UNCHANGED <<title, host, frames, leaked>>
  BY DEF RewriteCode, Rewritten
<1>2. CacheTypes(cached) /\ CacheInv(cached, title, generation, host, frames, leaked)
  BY DEF TranslationInv, CacheInv
<1>3. cached' = [main |-> cached.main, code |-> cached.code, recency |-> cached.recency,
                 memo |-> NoMemo, pending |-> cached.pending]
  BY <1>1, <1>2 DEF CacheTypes
<1>4. CacheTypes(cached')
  BY <1>2, <1>3 DEF CacheTypes
<1>5. MemoInv(cached', generation')
  BY <1>3 DEF MemoInv, NoMemo
<1>6. CacheInv(cached', title, generation', host, frames, leaked)
  BY <1>2, <1>3, <1>4, <1>5 DEF CacheInv, EntriesInv, PendingInv
<1>7. generation' \in [GuestFunctions -> Nat]
  BY <1>1 DEF TranslationInv, WorldInv
<1>8. WorldInv' /\ RunsCurrentCode'
  BY <1>1, <1>7 DEF TranslationInv, WorldInv, RunsCurrentCode
<1> QED BY <1>1, <1>6, <1>8 DEF TranslationInv

\* Between titles, what stays is pinned, and then by an abandoned fiber.
LEMMA AbandonedIsLeaked ==
    ASSUME NEW slots \in [GuestFunctions -> Slots], NEW tier, tier # "none",
           NEW fs, NEW L, NEW M, IsFiniteSet(fs), PinsInv(slots, tier, fs, L),
           L \cup {frame.f : frame \in {fr \in fs : fr.tier # "none"}} \subseteq M,
           NEW f \in GuestFunctions, slots[f].present, slots[f].pins > 0
    PROVE  f \in M
<1> DEFINE n == Cardinality(Running(fs, f, tier))
<1>1. IF f \in L THEN slots[f].pins >= n ELSE slots[f].pins = n
  BY DEF PinsInv
<1>2. CASE f \in L
  BY <1>2
<1>3. CASE f \notin L
  <2>1. n # 0
    <3> HIDE DEF n
    <3> QED BY <1>1, <1>3
  <2>2. Running(fs, f, tier) # {}
    BY <2>1, FS_EmptySet
  <2>3. PICK frame \in Running(fs, f, tier) : TRUE
    BY <2>2
  <2>4. frame \in fs /\ frame.f = f /\ frame.tier # "none"
    BY <2>3 DEF Running
  <2> QED BY <2>4
<1> QED BY <1>2, <1>3

LEMMA BootNextTitleKeeps ==
    ASSUME TranslationInv, BootNextTitle
    PROVE  TranslationInv'
<1> DEFINE kept(tier) == [f \in GuestFunctions |->
                             IF tier[f].present /\ tier[f].pins > 0 THEN tier[f] ELSE Absent]
           main == kept(cached.main)
           code == kept(cached.code)
           rest == RecencyWithout(cached.recency, {f \in GuestFunctions : ~main[f].present})
           waits == {p \in cached.pending : main[p.slot].present}
           d == [main |-> main, code |-> code, memo |-> NoMemo, recency |-> rest, pending |-> waits]
<1>1. /\ title' = title + 1 /\ generation' = [f \in GuestFunctions |-> 1] /\ frames' = {}
      /\ leaked' = leaked \cup {frame.f : frame \in {fr \in frames : fr.tier # "none"}}
      /\ host' = host
  BY DEF BootNextTitle
<1>2. cached' = d
  BY DEF BootNextTitle
<1>3. CacheTypes(cached) /\ EntriesInv(cached, title, leaked) /\ PendingInv(cached, host)
        /\ PinsInv(cached.main, "main", frames, leaked)
        /\ PinsInv(cached.code, "code", frames, leaked) /\ IsFiniteSet(frames)
  BY DEF TranslationInv, CacheInv, WorldInv
<1>4. \A f \in GuestFunctions :
         /\ main[f] = IF cached.main[f].present /\ cached.main[f].pins > 0
                      THEN cached.main[f] ELSE Absent
         /\ code[f] = IF cached.code[f].present /\ cached.code[f].pins > 0
                      THEN cached.code[f] ELSE Absent
  OBVIOUS
<1>5. main \in [GuestFunctions -> Slots] /\ code \in [GuestFunctions -> Slots]
  BY <1>3, AbsentIs DEF CacheTypes
<1>6. waits = {p \in cached.pending : main[p.slot].present}
  OBVIOUS
<1>7. d.main = main /\ d.code = code /\ d.memo = NoMemo /\ d.recency = rest /\ d.pending = waits
        /\ d = [main |-> main, code |-> code, recency |-> rest, memo |-> NoMemo, pending |-> waits]
  OBVIOUS
<1> HIDE DEF kept, main, code, rest, waits, d
<1>8. CacheTypes(d)
  BY <1>3, <1>5, <1>6, <1>7 DEF CacheTypes
<1>9. \A f \in GuestFunctions :
         /\ main[f].present => f \in leaked' /\ main[f] = cached.main[f] /\ cached.main[f].present
         /\ code[f].present => f \in leaked' /\ code[f] = cached.code[f] /\ cached.code[f].present
  <2> SUFFICES ASSUME NEW f \in GuestFunctions
               PROVE  /\ main[f].present => f \in leaked' /\ main[f] = cached.main[f]
                                              /\ cached.main[f].present
                      /\ code[f].present => f \in leaked' /\ code[f] = cached.code[f]
                                              /\ cached.code[f].present
    OBVIOUS
  <2>1. ASSUME main[f].present
        PROVE  f \in leaked' /\ main[f] = cached.main[f] /\ cached.main[f].present
    <3>1. main[f] = cached.main[f] /\ cached.main[f].present /\ cached.main[f].pins > 0
      BY <1>4, <2>1, AbsentIs
    <3>2. cached.main \in [GuestFunctions -> Slots]
      BY <1>3 DEF CacheTypes
    <3> QED BY <1>1, <1>3, <3>1, <3>2, AbandonedIsLeaked
  <2>2. ASSUME code[f].present
        PROVE  f \in leaked' /\ code[f] = cached.code[f] /\ cached.code[f].present
    <3>1. code[f] = cached.code[f] /\ cached.code[f].present /\ cached.code[f].pins > 0
      BY <1>4, <2>2, AbsentIs
    <3>2. cached.code \in [GuestFunctions -> Slots]
      BY <1>3 DEF CacheTypes
    <3> QED BY <1>1, <1>3, <3>1, <3>2, AbandonedIsLeaked
  <2> QED BY <2>1, <2>2
<1>10. EntriesInv(d, title', leaked')
  BY <1>3, <1>7, <1>9 DEF EntriesInv
<1>11. MemoInv(d, generation')
  BY <1>7 DEF MemoInv, NoMemo
<1>12. PendingInv(d, host')
  <2>1. waits \subseteq cached.pending /\ \A p \in waits : main[p.slot].present
    BY <1>6
  <2>2. \A p \in waits : main[p.slot] = cached.main[p.slot]
    BY <1>3, <1>9, <2>1 DEF CacheTypes, Requests
  <2> QED BY <1>1, <1>3, <1>7, <2>1, <2>2 DEF PendingInv
<1>13. \A f : \A tier : Cardinality(Running({}, f, tier)) = 0
  <2>1. \A f : \A tier : Running({}, f, tier) = {}
    BY DEF Running
  <2> QED BY <2>1, FS_EmptySet
<1>14. \A f \in GuestFunctions :
          /\ main[f].present => main[f].pins \in Nat
          /\ code[f].present => code[f].pins \in Nat
  BY <1>5, SlotIs DEF Entries
<1>15. PinsInv(d.main, "main", {}, leaked')
  BY <1>7, <1>9, <1>13, <1>14 DEF PinsInv
<1>16. PinsInv(d.code, "code", {}, leaked')
  BY <1>7, <1>9, <1>13, <1>14 DEF PinsInv
<1>17. CacheInv(d, title', generation', host', {}, leaked')
  BY <1>8, <1>10, <1>11, <1>12, <1>15, <1>16 DEF CacheInv
<1>18. WorldInv'
  BY <1>1, FS_EmptySet DEF TranslationInv, WorldInv
<1>19. RunsCurrentCode'
  BY <1>1 DEF RunsCurrentCode
<1> QED BY <1>1, <1>2, <1>17, <1>18, <1>19 DEF TranslationInv

-----------------------------------------------------------------------------
(* The theorem                                                              *)

LEMMA InitHolds == TranslationInit => TranslationInv
<1> SUFFICES ASSUME TranslationInit
             PROVE  TranslationInv
  OBVIOUS
<1> USE DEF TranslationInit
<1>1. WorldInv
  <2>1. IsFiniteSet(frames)
    BY FS_EmptySet
  <2>2. HostTypes(host)
    BY DEF HostTypes
  <2> QED BY <2>1, <2>2 DEF WorldInv
<1>2. RunsCurrentCode
  BY DEF RunsCurrentCode
<1>3. \A f \in GuestFunctions : cached.main[f] = Absent /\ cached.code[f] = Absent
  OBVIOUS
<1>4. CacheTypes(cached)
  BY AbsentIs DEF CacheTypes
<1>5. cached.memo.tier = "none" /\ cached.pending = {} /\ host.jobs = {} /\ frames = {}
  BY DEF NoMemo
<1>6. EntriesInv(cached, title, leaked)
  BY <1>3, AbsentIs DEF EntriesInv
<1>7. MemoInv(cached, generation) /\ PendingInv(cached, host)
  BY <1>5 DEF MemoInv, PendingInv
<1>8. \A f : \A tier : Cardinality(Running(frames, f, tier)) = 0
  <2>1. \A f : \A tier : Running(frames, f, tier) = {}
    BY <1>5 DEF Running
  <2> QED BY <2>1, FS_EmptySet
<1>9. PinsInv(cached.main, "main", frames, leaked) /\ PinsInv(cached.code, "code", frames, leaked)
  BY <1>3, <1>8, AbsentIs DEF PinsInv
<1> QED BY <1>1, <1>2, <1>4, <1>6, <1>7, <1>9 DEF TranslationInv, CacheInv

LEMMA NextHolds == TranslationInv /\ [TranslationNext]_cacheVars => TranslationInv'
<1> SUFFICES ASSUME TranslationInv, [TranslationNext]_cacheVars
             PROVE  TranslationInv'
  OBVIOUS
<1>1. ASSUME NEW f \in GuestFunctions, NEW interior \in BOOLEAN, GuestCalls(f, interior)
      PROVE  TranslationInv'
  BY <1>1, GuestCallsKeeps
<1>2. ASSUME NEW frame \in frames, CallReturns(frame) \/ LongRun(frame)
      PROVE  TranslationInv'
  BY <1>2, CallReturnsKeeps, LongRunKeeps
<1>3. ASSUME NEW job \in host.jobs, NEW ok \in BOOLEAN, HostCompiled(job, ok)
      PROVE  TranslationInv'
  BY <1>3, HostCompiledKeeps
<1>4. ASSUME NEW on \in BOOLEAN, SetJitMode(on)
      PROVE  TranslationInv'
  BY <1>4, SetJitModeKeeps
<1>5. ASSUME NEW f \in GuestFunctions, RewriteCode(f)
      PROVE  TranslationInv'
  BY <1>5, RewriteCodeKeeps
<1>6. CASE BootNextTitle
  BY <1>6, BootNextTitleKeeps
<1>7. CASE UNCHANGED cacheVars
  BY <1>7 DEF cacheVars, TranslationInv, WorldInv, RunsCurrentCode
<1> QED BY <1>1, <1>2, <1>3, <1>4, <1>5, <1>6, <1>7 DEF TranslationNext

LEMMA InvGivesCurrent == TranslationInv => CodeIsCurrent
<1> SUFFICES ASSUME TranslationInv
             PROVE  CodeIsCurrent
  OBVIOUS
<1>1. CacheInv(cached, title, generation, host, frames, leaked) /\ RunsCurrentCode
  BY DEF TranslationInv
<1>2. MemoAgrees
  BY <1>1 DEF MemoAgrees, CacheInv, MemoInv, MemoAnswers, SlowTier, Fresh
<1>3. PinnedStays
  BY <1>1 DEF PinnedStays, CacheInv, PinsInv, Running
<1>4. CodeIsOfItsTranslation
  BY <1>1 DEF CodeIsOfItsTranslation, CacheInv, EntriesInv
<1> QED BY <1>1, <1>2, <1>3, <1>4 DEF CodeIsCurrent

\* Through the memo, both caches, evictions, rewrites, late compilations and
\* the next title: what runs was current when it was called, unless an
\* abandoned fiber keeps it pinned, and is not freed under its callers; the
\* memo answers what the caches would; code stays with its translation.
THEOREM CodeIsCurrentHolds == TranslationSpec => []CodeIsCurrent
<1>1. TranslationInit => TranslationInv
  BY InitHolds
<1>2. TranslationInv /\ [TranslationNext]_cacheVars => TranslationInv'
  BY NextHolds
<1>3. TranslationInv => CodeIsCurrent
  BY InvGivesCurrent
<1> QED BY <1>1, <1>2, <1>3, PTL DEF TranslationSpec
=============================================================================
