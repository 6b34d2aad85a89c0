------------------------- MODULE RunningTitleProofs -------------------------
(***************************************************************************)
(* Of what surrounds a running title: that every word of its ring runs     *)
(* once and in order, that the trace lists its calls with their results,   *)
(* that commands of the WebGPU back end run on what they were recorded     *)
(* with, that the caches of shaders, targets and pipelines hand out what   *)
(* was asked for, that its newest frame is seen, that resolution and frame *)
(* counts follow it, that a report names what stopped the title, and that  *)
(* the console keeps what was said last.  Each component has an inductive  *)
(* invariant; they share no state, and every theorem is about one          *)
(* specification.                                                          *)
(***************************************************************************)
EXTENDS RingTraffic, CallTrace, GpuFoundation, XenosBackend, FrameOutput, FramePacing, FaultFocus,
        DeveloperConsole, DataLemmas

-----------------------------------------------------------------------------
(* The command ring (RingTraffic)                                            *)

Places == 0 .. RingCapacity - 1
RingWords == [id : Nat, kind : Kinds]
CommandRings == [native : BOOLEAN, words : [Places -> RingWords], base : BOOLEAN,
          tail : Places, read : Places, write : Places, stalled : BOOLEAN, ready : BOOLEAN,
          consumed : Nat, refused : BOOLEAN]
Decoders == [status : {"idle", "success", "waiting", "invalid"}, packets : Nat, ran : Seq(Nat)]

TypesInv == ring \in CommandRings /\ decoder \in Decoders /\ queued \in Seq(RingWords)

\* The place j words after place a.
PlaceAfter(a, j) == IF a + j < RingCapacity THEN a + j ELSE a + j - RingCapacity

\* The words between the read pointer and the title's tail are the ones it has
\* queued and that have not run, in order; those up to the write pointer are
\* among them.  n words have been queued.
RingHolds(r, n) ==
    /\ r.consumed <= n /\ n - r.consumed < RingCapacity
    /\ r.tail = PlaceAfter(r.read, n - r.consumed)
    /\ \E h \in 0 .. n - r.consumed : r.write = PlaceAfter(r.read, h)
    /\ \A j \in 0 .. n - r.consumed - 1 : r.words[PlaceAfter(r.read, j)].id = r.consumed + 1 + j
    /\ ~r.base => n = 0 /\ r.read = 0
    /\ ~r.native => r.consumed = 0 /\ r.read = 0

\* What has run is what was consumed, by a core that runs the ring; any other
\* has run nothing until the page looks.
HasRun(r, d) ==
    /\ \A i \in 1 .. Len(d.ran) : d.ran[i] = i
    /\ r.native => Len(d.ran) = r.consumed
    /\ d.status = "idle" => d.packets = 0 /\ d.ran = <<>> /\ (r.native => r.write = 0)
    /\ ~r.base => d.ran = <<>>
    /\ r.native /\ d.status = "success" => r.read = r.write

RingInv ==
    /\ TypesInv
    /\ ~ring.refused => RingHolds(ring, Len(queued)) /\ HasRun(ring, decoder)

-----------------------------------------------------------------------------
(* Places and words *)

LEMMA WrapsOnce ==
    ASSUME NEW x \in 0 .. 2 * RingCapacity - 1
    PROVE  x % RingCapacity = IF x < RingCapacity THEN x ELSE x - RingCapacity
<1>0. RingCapacity \in Nat \ {0}
  BY RingAssumption
<1>1. CASE x < RingCapacity
  BY <1>0, <1>1, Z3
<1>2. CASE x >= RingCapacity
  BY <1>0, <1>2, Z3
<1> QED BY <1>0, <1>1, <1>2

LEMMA AfterIsPlace ==
    ASSUME NEW a \in Places, NEW j \in 0 .. RingCapacity
    PROVE  /\ PlaceAfter(a, j) \in Places
           /\ (a + j) % RingCapacity = PlaceAfter(a, j)
           /\ PlaceAfter(a, 0) = a
<1>0. RingCapacity \in Nat \ {0}
  BY RingAssumption
<1>1. a + j \in 0 .. 2 * RingCapacity - 1
  BY <1>0 DEF Places
<1> QED BY <1>0, <1>1, WrapsOnce DEF PlaceAfter, Places

LEMMA AfterAdds ==
    ASSUME NEW a \in Places, NEW i \in Nat, NEW j \in Nat, i + j <= RingCapacity
    PROVE  PlaceAfter(PlaceAfter(a, i), j) = PlaceAfter(a, i + j)
  BY RingAssumption DEF PlaceAfter, Places

LEMMA AfterDiffers ==
    ASSUME NEW a \in Places, NEW i \in 0 .. RingCapacity - 1, NEW j \in 0 .. RingCapacity - 1,
           PlaceAfter(a, i) = PlaceAfter(a, j)
    PROVE  i = j
  BY RingAssumption DEF PlaceAfter, Places

LEMMA UnreadCounts ==
    ASSUME NEW r \in CommandRings, NEW h \in 0 .. RingCapacity - 1, r.write = PlaceAfter(r.read, h)
    PROVE  Unread(r) = h
<1>0. RingCapacity \in Nat \ {0} /\ r.read \in Places /\ r.write \in Places
  BY RingAssumption DEF CommandRings
<1>1. r.write - r.read + RingCapacity \in 0 .. 2 * RingCapacity - 1
  BY <1>0 DEF Places
<1>2. Unread(r) = IF r.write - r.read + RingCapacity < RingCapacity
                  THEN r.write - r.read + RingCapacity ELSE r.write - r.read
  BY <1>0, <1>1, WrapsOnce DEF Unread, Places
<1> QED BY <1>0, <1>2 DEF PlaceAfter, Places

LEMMA UnreadInRange ==
    ASSUME NEW r \in CommandRings
    PROVE  Unread(r) \in 0 .. RingCapacity - 1
<1>0. RingCapacity \in Nat \ {0} /\ r.read \in Places /\ r.write \in Places
  BY RingAssumption DEF CommandRings
<1>1. r.write - r.read + RingCapacity \in 0 .. 2 * RingCapacity - 1
  BY <1>0 DEF Places
<1> QED BY <1>0, <1>1, WrapsOnce DEF Unread, Places

\* What passes are the first words.
LEMMA PrefixPasses ==
    ASSUME NEW words \in Seq(RingWords)
    PROVE  \E k \in 0 .. Len(words) : PassingPrefix(words) = SubSeq(words, 1, k)
<1> DEFINE stops == {i \in 1 .. Len(words) : ~Passes(words[i])}
<1>0. Len(words) \in Nat
  OBVIOUS
<1>1. CASE stops = {}
  <2>1. PassingPrefix(words) = words
    BY <1>1 DEF PassingPrefix
  <2>2. words = SubSeq(words, 1, Len(words))
    OBVIOUS
  <2>3. Len(words) \in 0 .. Len(words)
    BY <1>0
  <2>4. PassingPrefix(words) = SubSeq(words, 1, Len(words))
    BY <2>1, <2>2
  <2> QED BY <2>3, <2>4, Zenon
<1>2. CASE stops # {}
  <2>1. stops \in SUBSET Nat
    BY <1>0
  <2>2. \E i \in stops : \A j \in stops : i <= j
    <3> HIDE DEF stops
    <3> QED BY <1>2, <2>1, LeastExists
  <2>3. PassingPrefix(words) = SubSeq(words, 1, (CHOOSE i \in stops : \A j \in stops : i <= j) - 1)
    BY <1>2 DEF PassingPrefix
  <2>4. (CHOOSE i \in stops : \A j \in stops : i <= j) \in stops
    BY <2>2
  <2> DEFINE m == CHOOSE i \in stops : \A j \in stops : i <= j
  <2>5. m \in 1 .. Len(words)
    BY <2>4
  <2> HIDE DEF m
  <2>6. m - 1 \in 0 .. Len(words)
    BY <1>0, <2>5
  <2> QED BY <2>3, <2>6 DEF m
<1> QED BY <1>1, <1>2

\* k of the words have run, in order; all of them, if the decoder says so.
Runs(d, e, words, k) ==
    /\ e \in Decoders /\ e.status # "idle"
    /\ Len(e.ran) = Len(d.ran) + k
    /\ \A i \in 1 .. Len(d.ran) : e.ran[i] = d.ran[i]
    /\ \A i \in 1 .. k : e.ran[Len(d.ran) + i] = words[i].id
    /\ e.status = "success" => k = Len(words)

LEMMA SubmitRuns ==
    ASSUME NEW d \in Decoders, NEW words \in Seq(RingWords)
    PROVE  \E k \in 0 .. Len(words) : Runs(d, AfterSubmit(d, words), words, k)
<1>1. PICK k \in 0 .. Len(words) : PassingPrefix(words) = SubSeq(words, 1, k)
  BY PrefixPasses
<1> DEFINE run == SubSeq(words, 1, k)
           ids == [i \in 1 .. Len(run) |-> run[i].id]
           e == AfterSubmit(d, words)
<1>2. run \in Seq(RingWords) /\ Len(run) = k /\ \A i \in 1 .. k : run[i] = words[i]
  OBVIOUS
<1>3. run = words => k = Len(words)
  BY <1>2
<1> HIDE DEF run
<1>4. ids \in Seq(Nat) /\ Len(ids) = k /\ \A i \in 1 .. k : ids[i] = words[i].id
  <2>1. \A i \in 1 .. k : run[i].id \in Nat
    <3>1. \A i \in 1 .. k : run[i] \in RingWords
      BY <1>2
    <3> QED BY <3>1 DEF RingWords
  <2>2. k \in Nat
    OBVIOUS
  <2>3. ids \in [1 .. k -> Nat]
    BY <1>2, <2>1
  <2>4. ids \in Seq(Nat) /\ Len(ids) = k
    <3> HIDE DEF ids
    <3> QED BY <2>2, <2>3, FunctionIsSeq
  <2> QED BY <1>2, <2>4
<1>5. d.ran \in Seq(Nat) /\ d.packets \in Nat
  BY DEF Decoders
<1>6. /\ e.status = (IF run = words THEN "success"
                     ELSE IF words[Len(run) + 1].kind = "wait" THEN "waiting" ELSE "invalid")
      /\ e.packets = d.packets + Len(run) + (IF run = words THEN 0 ELSE 1)
      /\ e.ran = d.ran \o ids
      /\ e = [status |-> e.status, packets |-> e.packets, ran |-> e.ran]
  BY <1>1 DEF AfterSubmit, run
<1> HIDE DEF ids, e
<1>7. /\ e.ran \in Seq(Nat) /\ Len(e.ran) = Len(d.ran) + k
      /\ \A i \in 1 .. Len(d.ran) : e.ran[i] = d.ran[i]
      /\ \A i \in 1 .. k : e.ran[Len(d.ran) + i] = ids[i]
  <2>1. ASSUME NEW s \in Seq(Nat), NEW t \in Seq(Nat)
        PROVE  /\ s \o t \in Seq(Nat) /\ Len(s \o t) = Len(s) + Len(t)
               /\ \A i \in 1 .. Len(s) : (s \o t)[i] = s[i]
               /\ \A i \in 1 .. Len(t) : (s \o t)[Len(s) + i] = t[i]
    OBVIOUS
  <2>2. /\ d.ran \o ids \in Seq(Nat) /\ Len(d.ran \o ids) = Len(d.ran) + Len(ids)
        /\ \A i \in 1 .. Len(d.ran) : (d.ran \o ids)[i] = d.ran[i]
        /\ \A i \in 1 .. Len(ids) : (d.ran \o ids)[Len(d.ran) + i] = ids[i]
    BY <1>4, <1>5, <2>1, Zenon
  <2>3. e.ran = d.ran \o ids
    BY <1>6
  <2> QED BY <1>4, <2>2, <2>3, Zenon
<1>8. e.packets \in Nat
  BY <1>2, <1>5, <1>6
<1>9. e.status \in {"success", "waiting", "invalid"} /\ (e.status = "success" => run = words)
  BY <1>6
<1>10. e \in Decoders /\ e.status # "idle"
  BY <1>6, <1>7, <1>8, <1>9 DEF Decoders
<1> QED BY <1>3, <1>4, <1>7, <1>9, <1>10 DEF Runs, e

-----------------------------------------------------------------------------
(* A drain *)

Good(r, d, n) == r \in CommandRings /\ d \in Decoders /\ (~r.refused => RingHolds(r, n) /\ HasRun(r, d))

\* What a drain runs are the next words.
LEMMA PendingAreNext ==
    ASSUME NEW r \in CommandRings, NEW n \in Nat, RingHolds(r, n)
    PROVE  /\ PendingWords(r) \in Seq(RingWords) /\ Len(PendingWords(r)) = Unread(r)
           /\ Unread(r) <= n - r.consumed
           /\ r.write = PlaceAfter(r.read, Unread(r))
           /\ \A i \in 1 .. Unread(r) : PendingWords(r)[i].id = r.consumed + i
<1>0. /\ RingCapacity \in Nat \ {0} /\ r.read \in Places /\ r.words \in [Places -> RingWords]
      /\ r.consumed \in Nat
  BY RingAssumption DEF CommandRings
<1>1. PICK h \in 0 .. n - r.consumed : r.write = PlaceAfter(r.read, h)
  BY DEF RingHolds
<1>2. h \in 0 .. RingCapacity - 1
  BY <1>0 DEF RingHolds
<1>3. Unread(r) = h
  BY <1>1, <1>2, UnreadCounts
<1>4. PendingWords(r) = [i \in 1 .. h |-> r.words[(r.read + i - 1) % RingCapacity]]
  BY <1>3 DEF PendingWords
<1>5. ASSUME NEW i \in 1 .. h
      PROVE  /\ r.words[(r.read + i - 1) % RingCapacity] \in RingWords
             /\ r.words[(r.read + i - 1) % RingCapacity].id = r.consumed + i
  <2>1. i - 1 \in 0 .. RingCapacity /\ i - 1 \in 0 .. n - r.consumed - 1
    BY <1>0, <1>2
  <2>2. (r.read + (i - 1)) % RingCapacity = PlaceAfter(r.read, i - 1)
        /\ PlaceAfter(r.read, i - 1) \in Places
    BY <1>0, <2>1, AfterIsPlace
  <2>3. r.words[PlaceAfter(r.read, i - 1)].id = r.consumed + 1 + (i - 1)
    BY <2>1 DEF RingHolds
  <2>4. r.read + (i - 1) = r.read + i - 1 /\ r.consumed + 1 + (i - 1) = r.consumed + i
    BY <1>0 DEF Places
  <2> QED BY <1>0, <2>2, <2>3, <2>4
<1>6. PendingWords(r) \in [1 .. h -> RingWords]
  BY <1>4, <1>5
<1>7. PendingWords(r) \in Seq(RingWords) /\ Len(PendingWords(r)) = h
  BY <1>2, <1>6, FunctionIsSeq
<1> QED BY <1>1, <1>3, <1>4, <1>5, <1>7

\* The first k of u words handed over are consumed.
LEMMA Consumes ==
    ASSUME NEW r \in CommandRings, NEW n \in Nat, RingHolds(r, n), r.base, r.native,
           NEW u \in 0 .. n - r.consumed, r.write = PlaceAfter(r.read, u), NEW k \in 0 .. u,
           NEW s \in CommandRings, s.native = r.native, s.words = r.words, s.base = r.base,
           s.tail = r.tail, s.write = r.write, s.consumed = r.consumed + k,
           s.read = PlaceAfter(r.read, k)
    PROVE  RingHolds(s, n)
<1>0. /\ RingCapacity \in Nat \ {0} /\ r.read \in Places /\ r.consumed \in Nat
      /\ n - r.consumed \in 0 .. RingCapacity - 1
  BY RingAssumption DEF CommandRings, RingHolds
<1>1. \A j \in 0 .. n - r.consumed - k : PlaceAfter(s.read, j) = PlaceAfter(r.read, k + j)
  <2> TAKE j \in 0 .. n - r.consumed - k
  <2>1. k \in Nat /\ j \in Nat /\ k + j <= RingCapacity
    BY <1>0
  <2> QED BY <1>0, <2>1, AfterAdds
<1>2. s.consumed <= n /\ n - s.consumed < RingCapacity /\ n - s.consumed = n - r.consumed - k
  BY <1>0
<1>3. s.tail = PlaceAfter(s.read, n - s.consumed)
  <2>1. PlaceAfter(s.read, n - r.consumed - k) = PlaceAfter(r.read, k + (n - r.consumed - k))
    BY <1>0, <1>1
  <2>2. k + (n - r.consumed - k) = n - r.consumed
    BY <1>0
  <2> QED BY <1>2, <2>1, <2>2 DEF RingHolds
<1>4. \E h \in 0 .. n - s.consumed : s.write = PlaceAfter(s.read, h)
  <2>1. u - k \in 0 .. n - r.consumed - k /\ k + (u - k) = u
    BY <1>0
  <2>2. PlaceAfter(s.read, u - k) = PlaceAfter(r.read, u)
    BY <1>1, <2>1
  <2> QED BY <1>2, <2>1, <2>2
<1>5. ASSUME NEW j \in 0 .. n - s.consumed - 1
      PROVE  s.words[PlaceAfter(s.read, j)].id = s.consumed + 1 + j
  <2>1. j \in 0 .. n - r.consumed - k /\ k + j \in 0 .. n - r.consumed - 1
    BY <1>0, <1>2
  <2>2. r.words[PlaceAfter(r.read, k + j)].id = r.consumed + 1 + (k + j)
    BY <2>1 DEF RingHolds
  <2>3. r.consumed + 1 + (k + j) = s.consumed + 1 + j
    BY <1>0
  <2> QED BY <1>1, <2>1, <2>2, <2>3
<1> QED BY <1>2, <1>3, <1>4, <1>5 DEF RingHolds

LEMMA DrainKeeps ==
    ASSUME NEW r \in CommandRings, NEW n \in Nat, RingHolds(r, n), r.native, ~r.refused,
           decoder \in Decoders, \A i \in 1 .. Len(decoder.ran) : decoder.ran[i] = i,
           Len(decoder.ran) = r.consumed,
           Unread(r) # 0 \/ HasRun(r, decoder),
           Drained(r)
    PROVE  Good(ring', decoder', n)
<1>0. /\ RingCapacity \in Nat \ {0} /\ r.read \in Places /\ r.write \in Places
      /\ r.consumed \in Nat
  BY RingAssumption DEF CommandRings
<1>1. CASE Unread(r) = 0
  BY <1>1 DEF Drained, Good
<1>2. CASE Unread(r) # 0 /\ Unread(r) > DecoderCapacity
  <2>1. ring' = [r EXCEPT !.refused = TRUE] /\ decoder' = decoder
    BY <1>2 DEF Drained
  <2>2. ring' \in CommandRings /\ ring'.refused
    BY <2>1 DEF CommandRings
  <2> QED BY <2>1, <2>2 DEF Good
<1>3. CASE Unread(r) # 0 /\ ~(Unread(r) > DecoderCapacity)
  <2> DEFINE u == Unread(r)
             e == AfterSubmit(decoder, PendingWords(r))
             count == Len(e.ran) - Len(decoder.ran)
  <2>1. ring' = AfterDrain(r, e, count) /\ decoder' = e
    BY <1>3 DEF Drained
  <2>2. /\ PendingWords(r) \in Seq(RingWords) /\ Len(PendingWords(r)) = u
        /\ u <= n - r.consumed /\ r.write = PlaceAfter(r.read, u)
        /\ \A i \in 1 .. u : PendingWords(r)[i].id = r.consumed + i
    BY PendingAreNext
  <2>3. u \in 0 .. RingCapacity - 1
    BY UnreadInRange
  <2>4. PICK k \in 0 .. u : Runs(decoder, e, PendingWords(r), k)
    BY <2>2, SubmitRuns
  <2>b. r.base
    BY <1>0, <1>3, <2>2, <2>3 DEF RingHolds
  <2> HIDE DEF e, u
  <2>5. /\ e \in Decoders /\ e.status # "idle" /\ Len(e.ran) = r.consumed + k
        /\ \A i \in 1 .. r.consumed : e.ran[i] = decoder.ran[i]
        /\ \A i \in 1 .. k : e.ran[r.consumed + i] = PendingWords(r)[i].id
        /\ e.status = "success" => k = u
    BY <2>2, <2>4 DEF Runs
  <2>6. count = k
    BY <1>0, <2>3, <2>5
  <2> HIDE DEF count
  <2>7. \A i \in 1 .. Len(e.ran) : e.ran[i] = i
    <3> TAKE i \in 1 .. Len(e.ran)
    <3>1. CASE i <= r.consumed
      <4>1. i \in 1 .. r.consumed
        BY <1>0, <2>5, <3>1
      <4>2. decoder.ran[i] = i
        BY <1>0, <4>1
      <4> QED BY <2>5, <4>1, <4>2
    <3>2. CASE i > r.consumed
      <4>0. i \in 1 .. r.consumed + k /\ k \in Nat /\ u \in Nat /\ k <= u
        BY <2>3, <2>5
      <4>1. i - r.consumed \in 1 .. k /\ i - r.consumed \in 1 .. u /\ r.consumed + (i - r.consumed) = i
        BY <1>0, <3>2, <4>0
      <4> QED BY <2>2, <2>5, <4>1
    <3> QED BY <1>0, <3>1, <3>2
  <2>8. (r.read + k) % RingCapacity = PlaceAfter(r.read, k) /\ PlaceAfter(r.read, k) \in Places
    <3>1. k \in 0 .. RingCapacity
      BY <1>0, <2>3
    <3> QED BY <1>0, <3>1, AfterIsPlace
  <2>9. CASE e.status \in {"success", "waiting"}
    <3> DEFINE s == ring'
    <3>1. /\ s \in CommandRings /\ s.native = r.native /\ s.words = r.words /\ s.base = r.base
          /\ s.tail = r.tail /\ s.write = r.write /\ s.consumed = r.consumed + k
          /\ s.read = PlaceAfter(r.read, k) /\ s.refused = FALSE
      <4>1. CASE e.status = "success"
        <5>1. ring' = [r EXCEPT !.read = r.write, !.stalled = FALSE, !.consumed = r.consumed + k]
          BY <2>1, <2>6, <4>1 DEF AfterDrain
        <5>2. k = u /\ r.consumed + k \in Nat
          BY <1>0, <2>3, <2>5, <4>1
        <5> QED BY <1>0, <2>2, <5>1, <5>2 DEF CommandRings
      <4>2. CASE e.status = "waiting"
        <5>1. ring' = [r EXCEPT !.read = (r.read + k) % RingCapacity, !.stalled = TRUE,
                                !.consumed = r.consumed + k]
          BY <2>1, <2>6, <4>2 DEF AfterDrain
        <5>2. r.consumed + k \in Nat
          BY <1>0, <2>3
        <5> QED BY <1>0, <2>8, <5>1, <5>2 DEF CommandRings
      <4> QED BY <2>9, <4>1, <4>2
    <3> HIDE DEF s
    <3>2. u \in 0 .. n - r.consumed
      BY <1>0, <2>2, <2>3
    <3>3. RingHolds(s, n)
      BY <2>2, <2>b, <3>1, <3>2, Consumes
    <3>4. HasRun(s, e)
      <4>1. s.native /\ s.base /\ Len(e.ran) = s.consumed
        BY <2>5, <2>b, <3>1
      <4>2. e.status = "success" => s.read = s.write
        BY <2>2, <2>5, <3>1
      <4> QED BY <2>5, <2>7, <4>1, <4>2 DEF HasRun
    <3> QED BY <2>1, <2>5, <3>1, <3>3, <3>4 DEF Good, s
  <2>10. CASE e.status \notin {"success", "waiting"}
    <3>1. ring' = [r EXCEPT !.refused = TRUE]
      BY <2>1, <2>10 DEF AfterDrain
    <3>2. ring' \in CommandRings /\ ring'.refused
      BY <3>1 DEF CommandRings
    <3> QED BY <2>1, <2>5, <3>2 DEF Good
  <2> QED BY <2>9, <2>10
<1> QED BY <1>1, <1>2, <1>3

-----------------------------------------------------------------------------
(* The steps *)

LEMMA InitializeKeeps ==
    ASSUME RingInv, InitializeRing
    PROVE  RingInv'
<1>0. /\ ring \in CommandRings /\ decoder \in Decoders /\ queued \in Seq(RingWords)
      /\ 0 \in Places
  BY RingAssumption DEF RingInv, TypesInv, Places
<1>1. /\ ring' = [ring EXCEPT !.base = TRUE, !.read = 0, !.write = 0, !.stalled = FALSE]
      /\ decoder' = [decoder EXCEPT !.status = "idle", !.packets = 0]
      /\ queued' = queued /\ ~ring.base
  BY DEF InitializeRing, Restarted
<1>2. /\ ring' \in CommandRings /\ ring'.base = TRUE /\ ring'.read = 0 /\ ring'.write = 0
      /\ ring'.native = ring.native /\ ring'.words = ring.words /\ ring'.tail = ring.tail
      /\ ring'.consumed = ring.consumed /\ ring'.refused = ring.refused
  BY <1>0, <1>1 DEF CommandRings
<1>3. decoder' \in Decoders /\ decoder'.status = "idle" /\ decoder'.packets = 0
      /\ decoder'.ran = decoder.ran
  BY <1>0, <1>1 DEF Decoders
<1>4. ASSUME ~ring.refused PROVE RingHolds(ring', Len(queued)) /\ HasRun(ring', decoder')
  <2>1. RingHolds(ring, Len(queued)) /\ HasRun(ring, decoder)
    BY <1>4 DEF RingInv
  <2>2. Len(queued) = 0 /\ ring.read = 0 /\ decoder.ran = <<>> /\ ring.consumed \in Nat
    BY <1>0, <1>1, <2>1 DEF RingHolds, HasRun, CommandRings
  <2>3. ring.consumed = 0 /\ ring.tail = PlaceAfter(0, 0) /\ PlaceAfter(0, 0) = 0
    BY <2>1, <2>2, RingAssumption DEF RingHolds, PlaceAfter
  <2>4. RingHolds(ring', Len(queued))
    BY <1>2, <2>2, <2>3, RingAssumption DEF RingHolds
  <2>5. HasRun(ring', decoder')
    BY <1>2, <1>3, <2>1, <2>2 DEF HasRun
  <2> QED BY <2>4, <2>5
<1> QED BY <1>0, <1>1, <1>2, <1>3, <1>4 DEF RingInv, TypesInv

LEMMA QueueKeeps ==
    ASSUME RingInv, NEW kind \in Kinds, Queue(kind)
    PROVE  RingInv'
<1> DEFINE n == Len(queued)
           word == [id |-> n + 1, kind |-> kind]
           t == ring.tail
<1>0. /\ ring \in CommandRings /\ decoder \in Decoders /\ queued \in Seq(RingWords) /\ n \in Nat
      /\ t \in Places /\ ring.read \in Places /\ ring.consumed \in Nat
      /\ ring.words \in [Places -> RingWords] /\ RingCapacity \in Nat \ {0}
  BY RingAssumption DEF RingInv, TypesInv, CommandRings
<1>1. /\ ring' = [ring EXCEPT !.words = [ring.words EXCEPT ![t] = word],
                              !.tail = (t + 1) % RingCapacity]
      /\ queued' = Append(queued, word) /\ decoder' = decoder /\ ring.base
      /\ (t + 1) % RingCapacity # ring.read
  BY DEF Queue
<1>2. (t + 1) % RingCapacity = PlaceAfter(t, 1) /\ PlaceAfter(t, 1) \in Places
  <2>1. 1 \in 0 .. RingCapacity
    BY <1>0
  <2> QED BY <1>0, <2>1, AfterIsPlace
<1>3. word \in RingWords /\ word.id = n + 1
  BY <1>0 DEF RingWords
<1>4. queued' \in Seq(RingWords) /\ Len(queued') = n + 1
  BY <1>0, <1>1, <1>3
<1> HIDE DEF word, n, t
<1>5. /\ ring' \in CommandRings /\ ring'.base = ring.base /\ ring'.read = ring.read
      /\ ring'.write = ring.write /\ ring'.native = ring.native
      /\ ring'.words = [ring.words EXCEPT ![t] = word] /\ ring'.tail = PlaceAfter(t, 1)
      /\ ring'.consumed = ring.consumed /\ ring'.refused = ring.refused
  <2>1. [ring.words EXCEPT ![t] = word] \in [Places -> RingWords]
    BY <1>0, <1>3
  <2> QED BY <1>0, <1>1, <1>2, <2>1 DEF CommandRings
<1>6. ASSUME ~ring.refused PROVE RingHolds(ring', n + 1) /\ HasRun(ring', decoder')
  <2> DEFINE p == n - ring.consumed
  <2>1. RingHolds(ring, n) /\ HasRun(ring, decoder)
    BY <1>6 DEF RingInv, n
  <2>2. p \in 0 .. RingCapacity - 1 /\ t = PlaceAfter(ring.read, p)
    BY <1>0, <2>1 DEF RingHolds, t
  <2>3. PlaceAfter(t, 1) = PlaceAfter(ring.read, p + 1)
    <3>1. p \in Nat /\ 1 \in Nat /\ p + 1 <= RingCapacity
      BY <1>0, <2>2
    <3> HIDE DEF p
    <3> QED BY <1>0, <2>2, <3>1, AfterAdds
  <2>4. p + 1 < RingCapacity
    <3>1. p + 1 = RingCapacity => PlaceAfter(ring.read, p + 1) = ring.read
      <4>1. p \in Nat
        BY <1>0, <2>2
      <4> HIDE DEF p
      <4> QED BY <1>0, <4>1 DEF PlaceAfter, Places
    <3> HIDE DEF p
    <3> QED BY <1>0, <1>1, <1>2, <2>2, <2>3, <3>1
  <2>5. (n + 1) - ring.consumed = p + 1 /\ ring.consumed + 1 + p = n + 1 /\ ring.consumed <= n + 1
    BY <1>0, <2>1 DEF RingHolds
  <2>6. ASSUME NEW j \in 0 .. (p + 1) - 1
        PROVE  ring'.words[PlaceAfter(ring'.read, j)].id = ring'.consumed + 1 + j
    <3>0. j \in 0 .. RingCapacity - 1 /\ j \in 0 .. RingCapacity
      BY <1>0, <2>2
    <3>1. PlaceAfter(ring.read, j) \in Places
      BY <1>0, <3>0, AfterIsPlace
    <3>2. CASE j = p
      <4>1. PlaceAfter(ring.read, j) = t
        BY <2>2, <3>2
      <4>2. ring'.words[t] = word
        BY <1>0, <1>5
      <4>3. ring'.words[PlaceAfter(ring'.read, j)] = word
        BY <1>5, <4>1, <4>2
      <4> QED BY <1>3, <1>5, <2>5, <3>2, <4>3
    <3>3. CASE j # p
      <4>1. PlaceAfter(ring.read, j) # t
        <5> HIDE DEF p
        <5> QED BY <1>0, <2>2, <3>0, <3>3, AfterDiffers
      <4>2. j \in 0 .. n - ring.consumed - 1
        BY <1>0, <2>2, <3>3
      <4>3. ring.words[PlaceAfter(ring.read, j)].id = ring.consumed + 1 + j
        BY <2>1, <4>2 DEF RingHolds
      <4>4. ring'.words[PlaceAfter(ring.read, j)] = ring.words[PlaceAfter(ring.read, j)]
        BY <1>0, <1>5, <3>1, <4>1
      <4> QED BY <1>5, <4>3, <4>4
    <3> QED BY <3>2, <3>3
  <2>7. \E h \in 0 .. p + 1 : ring'.write = PlaceAfter(ring'.read, h)
    <3>1. PICK h \in 0 .. p : ring.write = PlaceAfter(ring.read, h)
      BY <2>1 DEF RingHolds
    <3>2. h \in 0 .. p + 1
      BY <2>2
    <3> QED BY <1>5, <3>1, <3>2
  <2> HIDE DEF p
  <2>8. RingHolds(ring', n + 1)
    <3>1. ring'.consumed <= n + 1 /\ (n + 1) - ring'.consumed = p + 1
      BY <1>5, <2>5
    <3>2. (n + 1) - ring'.consumed < RingCapacity
      BY <2>4, <3>1
    <3>3. ring'.tail = PlaceAfter(ring'.read, (n + 1) - ring'.consumed)
      BY <1>5, <2>3, <3>1
    <3>4. \E h \in 0 .. (n + 1) - ring'.consumed : ring'.write = PlaceAfter(ring'.read, h)
      BY <2>7, <3>1
    <3>5. \A j \in 0 .. (n + 1) - ring'.consumed - 1 :
             ring'.words[PlaceAfter(ring'.read, j)].id = ring'.consumed + 1 + j
      BY <2>6, <3>1, Zenon
    <3>6. ring'.base /\ (~ring'.native => ring'.consumed = 0 /\ ring'.read = 0)
      BY <1>1, <1>5, <2>1 DEF RingHolds
    <3> QED BY <3>1, <3>2, <3>3, <3>4, <3>5, <3>6, Zenon DEF RingHolds
  <2>9. HasRun(ring', decoder')
    BY <1>1, <1>5, <2>1 DEF HasRun
  <2> QED BY <2>8, <2>9
<1> QED BY <1>0, <1>1, <1>4, <1>5, <1>6 DEF RingInv, TypesInv

LEMMA WriteKeeps ==
    ASSUME RingInv, WritePointer
    PROVE  RingInv'
<1> DEFINE n == Len(queued)
           r == [ring EXCEPT !.write = ring.tail]
<1>0. /\ ring \in CommandRings /\ decoder \in Decoders /\ queued \in Seq(RingWords) /\ n \in Nat
      /\ ring.tail \in Places /\ ring.read \in Places /\ ring.consumed \in Nat
      /\ RingCapacity \in Nat \ {0}
  BY RingAssumption DEF RingInv, TypesInv, CommandRings
<1>1. /\ ring.base /\ ring.write # ring.tail /\ ~ring.refused /\ queued' = queued
      /\ IF ring.native THEN Drained(r) ELSE ring' = r /\ UNCHANGED decoder
  BY DEF WritePointer
<1>2. RingHolds(ring, n) /\ HasRun(ring, decoder)
  BY <1>1 DEF RingInv
<1>3. /\ r \in CommandRings /\ r.base = ring.base /\ r.read = ring.read /\ r.write = ring.tail
      /\ r.native = ring.native /\ r.words = ring.words /\ r.tail = ring.tail
      /\ r.consumed = ring.consumed /\ r.refused = ring.refused
  BY <1>0 DEF CommandRings
<1> HIDE DEF r, n
<1>4. n - ring.consumed \in 0 .. n - ring.consumed /\ n - ring.consumed \in 0 .. RingCapacity - 1
      /\ ring.tail = PlaceAfter(ring.read, n - ring.consumed)
  BY <1>0, <1>2 DEF RingHolds
<1>5. RingHolds(r, n)
  BY <1>2, <1>3, <1>4 DEF RingHolds
<1>6. CASE ring.native
  <2>1. Unread(r) # 0
    <3>1. Unread(r) = n - ring.consumed
      BY <1>3, <1>4, UnreadCounts
    <3>2. ASSUME n - ring.consumed = 0 PROVE FALSE
      <4>1. ring.tail = PlaceAfter(ring.read, 0)
        BY <1>4, <3>2
      <4>2. \E h \in 0 .. 0 : ring.write = PlaceAfter(ring.read, h)
        BY <1>2, <3>2 DEF RingHolds
      <4>3. ring.write = PlaceAfter(ring.read, 0)
        BY <4>2
      <4> QED BY <1>1, <4>1, <4>3
    <3> QED BY <3>1, <3>2
  <2>2. \A i \in 1 .. Len(decoder.ran) : decoder.ran[i] = i
    BY <1>2 DEF HasRun
  <2>3. Len(decoder.ran) = r.consumed
    BY <1>2, <1>3, <1>6 DEF HasRun
  <2>4. Good(ring', decoder', n)
    BY <1>0, <1>1, <1>3, <1>5, <1>6, <2>1, <2>2, <2>3, DrainKeeps
  <2> QED BY <1>0, <1>1, <2>4 DEF RingInv, TypesInv, Good, n
<1>7. CASE ~ring.native
  <2>1. ring' = r /\ decoder' = decoder
    BY <1>1, <1>7
  <2>2. HasRun(r, decoder)
    BY <1>2, <1>3, <1>7 DEF HasRun
  <2> QED BY <1>0, <1>1, <1>3, <1>5, <2>1, <2>2 DEF RingInv, TypesInv, n
<1> QED BY <1>6, <1>7

LEMMA PollKeeps ==
    ASSUME RingInv, PollChanges
    PROVE  RingInv'
<1>1. ring' = [ring EXCEPT !.ready = ~ring.ready] /\ decoder' = decoder /\ queued' = queued
  BY DEF PollChanges
<1>2. /\ ring' \in CommandRings /\ ring'.base = ring.base /\ ring'.read = ring.read
      /\ ring'.write = ring.write /\ ring'.native = ring.native
      /\ ring'.words = ring.words /\ ring'.tail = ring.tail
      /\ ring'.consumed = ring.consumed /\ ring'.refused = ring.refused
  BY <1>1 DEF RingInv, TypesInv, CommandRings
<1> QED BY <1>1, <1>2 DEF RingInv, TypesInv, RingHolds, HasRun

LEMMA PumpKeeps ==
    ASSUME RingInv, Pump
    PROVE  RingInv'
<1> DEFINE n == Len(queued)
<1>0. ring \in CommandRings /\ decoder \in Decoders /\ queued \in Seq(RingWords) /\ n \in Nat
  BY DEF RingInv, TypesInv
<1>1. ring.native /\ ~ring.refused /\ Drained(ring) /\ queued' = queued
  BY DEF Pump
<1>2. RingHolds(ring, n) /\ HasRun(ring, decoder)
  BY <1>1 DEF RingInv
<1>3. /\ \A i \in 1 .. Len(decoder.ran) : decoder.ran[i] = i
      /\ Len(decoder.ran) = ring.consumed
  BY <1>1, <1>2 DEF HasRun
<1> HIDE DEF n
<1>4. Good(ring', decoder', n)
  BY <1>0, <1>1, <1>2, <1>3, DrainKeeps
<1> QED BY <1>0, <1>1, <1>4 DEF RingInv, TypesInv, Good, n

LEMMA InspectKeeps ==
    ASSUME RingInv, InspectTraffic
    PROVE  RingInv'
<1> DEFINE n == Len(queued)
<1>0. /\ ring \in CommandRings /\ decoder \in Decoders /\ queued \in Seq(RingWords) /\ n \in Nat
      /\ ring.write \in Places /\ ring.words \in [Places -> RingWords]
      /\ RingCapacity \in Nat \ {0}
  BY RingAssumption DEF RingInv, TypesInv, CommandRings
<1>1. ring' = ring /\ queued' = queued
  BY DEF InspectTraffic
<1>2. CASE decoder' = decoder
  BY <1>1, <1>2 DEF RingInv, TypesInv
<1>3. CASE /\ ~NativeDrained(decoder) /\ WhyNotCaptured = "none"
           /\ decoder' = AfterSubmit(Restarted(decoder), CapturedWords)
  <2> DEFINE d == Restarted(decoder)
             w == ring.write
  <2>1. d \in Decoders /\ d.ran = decoder.ran /\ decoder.status = "idle"
    BY <1>0, <1>3 DEF Restarted, Decoders, NativeDrained
  <2>2. ring.base /\ w # 0
    BY <1>3 DEF WhyNotCaptured
  <2>3. CapturedWords = [i \in 1 .. w |-> ring.words[i - 1]]
    BY DEF CapturedWords
  <2>4. w \in Nat /\ \A i \in 1 .. w : i - 1 \in Places
    BY <1>0 DEF Places
  <2>5. CapturedWords \in [1 .. w -> RingWords]
    BY <1>0, <2>3, <2>4
  <2>6. CapturedWords \in Seq(RingWords) /\ Len(CapturedWords) = w
    BY <2>4, <2>5, FunctionIsSeq
  <2>7. PICK k \in 0 .. w : Runs(d, decoder', CapturedWords, k)
    <3> HIDE DEF d
    <3> QED BY <1>3, <2>1, <2>6, SubmitRuns DEF d
  <2>8. ASSUME ~ring.refused PROVE HasRun(ring, decoder')
    <3>1. RingHolds(ring, n) /\ HasRun(ring, decoder)
      BY <2>8 DEF RingInv
    <3>2. ~ring.native /\ d.ran = <<>>
      BY <2>1, <2>2, <3>1 DEF HasRun
    <3>3. Len(decoder'.ran) = k /\ \A i \in 1 .. k : decoder'.ran[i] = CapturedWords[i].id
      <4>1. Len(d.ran) = 0
        BY <3>2
      <4>2. Len(decoder'.ran) = 0 + k /\ \A i \in 1 .. k : decoder'.ran[0 + i] = CapturedWords[i].id
        BY <2>7, <4>1 DEF Runs
      <4> QED BY <2>4, <4>2
    <3>4. ring.consumed = 0 /\ ring.read = 0
      BY <3>1, <3>2 DEF RingHolds
    <3>5. PICK h \in 0 .. n : w = PlaceAfter(0, h) /\ n < RingCapacity
      BY <1>0, <3>1, <3>4 DEF RingHolds
    <3>6. w = h
      BY <1>0, <3>5 DEF PlaceAfter
    <3>7. ASSUME NEW i \in 1 .. k PROVE CapturedWords[i].id = i
      <4>1. i \in 1 .. w /\ i - 1 \in 0 .. n - 0 - 1 /\ PlaceAfter(0, i - 1) = i - 1
        BY <1>0, <2>4, <3>5, <3>6 DEF PlaceAfter
      <4>2. ring.words[PlaceAfter(0, i - 1)].id = 0 + 1 + (i - 1)
        BY <3>1, <3>4, <4>1 DEF RingHolds
      <4>3. 0 + 1 + (i - 1) = i
        BY <4>1
      <4> QED BY <2>3, <4>1, <4>2, <4>3
    <3>8. decoder'.status # "idle"
      BY <2>7 DEF Runs
    <3> QED BY <2>2, <3>2, <3>3, <3>7, <3>8 DEF HasRun
  <2>9. decoder' \in Decoders
    BY <2>7 DEF Runs
  <2> QED BY <1>0, <1>1, <2>8, <2>9 DEF RingInv, TypesInv
<1> QED BY <1>2, <1>3 DEF InspectTraffic

\* The inductive invariant.
THEOREM RingInvHolds == RingSpec => []RingInv
<1>1. RingInit => RingInv
  <2> SUFFICES ASSUME RingInit PROVE RingInv
    OBVIOUS
  <2>0. RingCapacity \in Nat \ {0} /\ 0 \in Places
    BY RingAssumption DEF Places
  <2>1. /\ ring \in CommandRings /\ ring.base = FALSE /\ ring.tail = 0 /\ ring.read = 0 /\ ring.write = 0
        /\ ring.consumed = 0
    <3>1. NoWord \in RingWords
      BY DEF NoWord, RingWords, Kinds
    <3>2. [i \in 0 .. RingCapacity - 1 |-> NoWord] \in [Places -> RingWords]
      BY <3>1 DEF Places
    <3> DEFINE none == {[i \in 0 .. RingCapacity - 1 |-> NoWord]}
    <3>3. /\ none \in SUBSET [Places -> RingWords]
          /\ ring \in [native : BOOLEAN, words : none, base : {FALSE}, tail : {0}, read : {0},
                       write : {0}, stalled : {FALSE}, ready : {FALSE}, consumed : {0},
                       refused : {FALSE}]
      BY <3>2 DEF RingInit
    <3>4. {0} \in SUBSET Places /\ {0} \in SUBSET Nat /\ {FALSE} \in SUBSET BOOLEAN
      BY <2>0
    <3> HIDE DEF none
    <3> QED BY <3>3, <3>4 DEF CommandRings
  <2>2. /\ decoder \in Decoders /\ decoder.status = "idle" /\ decoder.packets = 0
        /\ decoder.ran = <<>>
    BY DEF RingInit, Decoders
  <2>3. queued \in Seq(RingWords) /\ Len(queued) = 0
    BY DEF RingInit
  <2>4. PlaceAfter(0, 0) = 0 /\ 0 \in 0 .. 0 - 0
    BY <2>0 DEF PlaceAfter
  <2>5. RingHolds(ring, Len(queued))
    BY <2>0, <2>1, <2>3, <2>4 DEF RingHolds
  <2>6. HasRun(ring, decoder)
    BY <2>1, <2>2 DEF HasRun
  <2> QED BY <2>1, <2>2, <2>3, <2>5, <2>6 DEF RingInv, TypesInv
<1>2. RingInv /\ [RingNext]_ringVars => RingInv'
  <2> SUFFICES ASSUME RingInv, [RingNext]_ringVars PROVE RingInv'
    OBVIOUS
  <2>1. CASE UNCHANGED ringVars
    BY <2>1 DEF ringVars, RingInv, TypesInv
  <2> QED BY <2>1, InitializeKeeps, QueueKeeps, WriteKeeps, PollKeeps, PumpKeeps, InspectKeeps
          DEF RingNext
<1> QED BY <1>1, <1>2, PTL DEF RingSpec

\* RingRunsOnce, of RingTraffic: until the core refuses a word, every word runs
\* once and in the order the title queued them, through waits, wraps and what
\* the page looks at, and the page is told that the ring was drained only when
\* it was (DrainPendingRingToXenos, currentXenosResult).
THEOREM RingRunsOnceHolds == RingSpec => []RingRunsOnce
<1>1. RingInv => RingRunsOnce
  <2> SUFFICES ASSUME RingInv, ~ring.refused
               PROVE  /\ decoder.ran = [i \in 1 .. Len(decoder.ran) |-> i]
                      /\ ring.native => Len(decoder.ran) = ring.consumed
                      /\ ring.native /\ CurrentResult(decoder).submitted => ring.read = ring.write
    BY DEF RingRunsOnce, WordsRunOnce, DrainedIsDrained
  <2>1. HasRun(ring, decoder) /\ decoder.ran \in Seq(Nat)
    BY DEF RingInv, TypesInv, Decoders
  <2>2. decoder.ran = [i \in 1 .. Len(decoder.ran) |-> decoder.ran[i]]
    BY <2>1
  <2>3. decoder.ran = [i \in 1 .. Len(decoder.ran) |-> i]
    BY <2>1, <2>2 DEF HasRun
  <2> QED BY <2>1, <2>3 DEF HasRun, CurrentResult
<1> QED BY <1>1, RingInvHolds, PTL

-----------------------------------------------------------------------------
(* The trace of kernel calls (CallTrace)                                     *)

Cells == 0 .. TraceCapacity - 1
TracedCalls == [call : Nat, result : Nat]
Pointers == [at : Cells, call : Nat]
Traces == [ring : [Cells -> TracedCalls], total : Nat, pointers : [TraceCallers -> Seq(Pointers)],
           overtaken : BOOLEAN]

\* The entry of the n-th call.
CellOf(n) == (n - 1) % TraceCapacity

\* The calls the ring still holds.
Traced(total) == {n \in 1 .. total : n > total - TraceCapacity}

Unfinished(pointers, n) ==
    \E c \in TraceCallers : \E k \in 1 .. Len(pointers[c]) : pointers[c][k].call = n

\* Every call under way keeps the entry it took, and no two keep the same call.
PointersInv(pointers, total) ==
    /\ \A c \in TraceCallers : \A k \in 1 .. Len(pointers[c]) :
            /\ pointers[c][k].call \in 1 .. total
            /\ pointers[c][k].at = CellOf(pointers[c][k].call)
    /\ \A c, d \in TraceCallers : \A k \in 1 .. Len(pointers[c]), l \in 1 .. Len(pointers[d]) :
            pointers[c][k].call = pointers[d][l].call => c = d /\ k = l

\* The ring holds the last calls, each with its own result once it has returned.
CellsInv(t) ==
    /\ \A n \in Traced(t.total) : t.ring[CellOf(n)].call = n
    /\ ~t.overtaken => \A n \in Traced(t.total) :
            t.ring[CellOf(n)].result = IF Unfinished(t.pointers, n) THEN 0 ELSE n

TraceInv == trace \in Traces /\ PointersInv(trace.pointers, trace.total) /\ CellsInv(trace)

LEMMA Quotient ==
    ASSUME NEW a \in Nat, NEW m \in Nat \ {0}
    PROVE  a = m * (a \div m) + (a % m) /\ a % m \in 0 .. m - 1 /\ a \div m \in Int
  BY Z3

LEMMA Multiples ==
    ASSUME NEW m \in Nat \ {0}, NEW x \in Int, NEW y \in Int, x < y
    PROVE  m * y >= m * x + m
<1>1. PICK d \in Nat : y = x + 1 + d
  <2>1. y - x - 1 \in Nat
    OBVIOUS
  <2> QED BY <2>1
<1>2. m * y = m * x + m + m * d
  BY <1>1
<1>3. m * d >= 0
  OBVIOUS
<1>4. m * x \in Int /\ m * d \in Int /\ m * y \in Int
  BY <1>1
<1> QED BY <1>2, <1>3, <1>4

\* Numbers less than the modulus apart have different remainders.
LEMMA NearDiffer ==
    ASSUME NEW a \in Nat, NEW b \in Nat, NEW m \in Nat \ {0}, a < b, b - a < m
    PROVE  a % m # b % m
<1>1. /\ a = m * (a \div m) + (a % m) /\ b = m * (b \div m) + (b % m)
      /\ a \div m \in Int /\ b \div m \in Int /\ a % m \in Int
  BY Quotient
<1> SUFFICES ASSUME a % m = b % m PROVE FALSE
  OBVIOUS
<1>2. m * (a \div m) \in Int /\ m * (b \div m) \in Int
  BY <1>1
<1>3. m * (b \div m) > m * (a \div m) /\ m * (b \div m) < m * (a \div m) + m
  BY <1>1, <1>2
<1>4. CASE b \div m > a \div m
  BY <1>1, <1>2, <1>3, <1>4, Multiples
<1>5. CASE b \div m = a \div m
  BY <1>1, <1>2, <1>3, <1>5
<1>6. CASE b \div m < a \div m
  <2>1. m * (a \div m) >= m * (b \div m) + m
    BY <1>1, <1>6, Multiples
  <2> QED BY <1>2, <1>3, <2>1
<1> QED BY <1>1, <1>4, <1>5, <1>6

LEMMA CellsDiffer ==
    ASSUME NEW t \in Nat, NEW n \in Nat, NEW p \in Nat, n \in Traced(t), p \in Traced(t), n # p
    PROVE  CellOf(n) \in Cells /\ CellOf(n) # CellOf(p)
<1>0. TraceCapacity \in Nat \ {0}
  BY TraceAssumption
<1>1. n - 1 \in Nat /\ p - 1 \in Nat
  BY DEF Traced
<1>2. CellOf(n) \in Cells
  BY <1>0, <1>1, Quotient DEF CellOf, Cells
<1>3. CASE n < p
  <2>1. n - 1 < p - 1 /\ p - 1 - (n - 1) < TraceCapacity
    BY <1>0, <1>3 DEF Traced
  <2> QED BY <1>0, <1>1, <1>2, <2>1, NearDiffer DEF CellOf
<1>4. CASE p < n
  <2>1. p - 1 < n - 1 /\ n - 1 - (p - 1) < TraceCapacity
    BY <1>0, <1>4 DEF Traced
  <2> QED BY <1>0, <1>1, <1>2, <2>1, NearDiffer DEF CellOf
<1> QED BY <1>3, <1>4

LEMMA CellInRing ==
    ASSUME NEW n \in Nat \ {0}
    PROVE  CellOf(n) \in Cells
<1>1. n - 1 \in Nat /\ TraceCapacity \in Nat \ {0}
  BY TraceAssumption
<1> QED BY <1>1, Quotient DEF CellOf, Cells

LEMMA BeginKeepsTrace ==
    ASSUME TraceInv, NEW c \in TraceCallers, BeginTrace(c)
    PROVE  TraceInv'
<1>0. TraceCapacity \in Nat \ {0}
  BY TraceAssumption
<1> DEFINE cells == trace.ring
           total == trace.total
           pointers == trace.pointers
           new == [at |-> CellOf(total + 1), call |-> total + 1]
<1>1. /\ cells \in [Cells -> TracedCalls] /\ total \in Nat
      /\ pointers \in [TraceCallers -> Seq(Pointers)] /\ trace.overtaken \in BOOLEAN
      /\ PointersInv(pointers, total) /\ CellsInv(trace)
  BY DEF TraceInv, Traces
<1>2. total + 1 - 1 = total /\ CellOf(total + 1) = total % TraceCapacity /\ total + 1 \in Nat \ {0}
  BY <1>1 DEF CellOf
<1>3. CellOf(total + 1) \in Cells
  BY <1>2, CellInRing
<1>4. trace' = [trace EXCEPT !.ring[CellOf(total + 1)] = [call |-> total + 1, result |-> 0],
                             !.total = total + 1, !.pointers[c] = Append(@, new)]
  BY <1>2 DEF BeginTrace
<1>5. /\ trace'.ring = [cells EXCEPT ![CellOf(total + 1)] = [call |-> total + 1, result |-> 0]]
      /\ trace'.total = total + 1
      /\ trace'.pointers = [pointers EXCEPT ![c] = Append(pointers[c], new)]
      /\ trace'.overtaken = trace.overtaken
      /\ trace' = [ring |-> trace'.ring, total |-> trace'.total, pointers |-> trace'.pointers,
                   overtaken |-> trace'.overtaken]
  <2>1. trace = [ring |-> cells, total |-> total, pointers |-> pointers, overtaken |-> trace.overtaken]
    BY DEF TraceInv, Traces
  <2> QED BY <1>1, <1>4, <2>1
<1>6. new \in Pointers /\ new.call = total + 1 /\ new.at = CellOf(new.call)
  BY <1>2, <1>3 DEF Pointers
<1> HIDE DEF new
<1>7. /\ Append(pointers[c], new) \in Seq(Pointers) /\ pointers[c] \in Seq(Pointers)
      /\ Len(pointers[c]) \in Nat
      /\ Len(Append(pointers[c], new)) = Len(pointers[c]) + 1
      /\ \A k \in 1 .. Len(pointers[c]) : Append(pointers[c], new)[k] = pointers[c][k]
      /\ Append(pointers[c], new)[Len(pointers[c]) + 1] = new
  BY <1>1, <1>6, AppendProperties, LenProperties
<1>8. trace' \in Traces
  <2>1. [call |-> total + 1, result |-> 0] \in TracedCalls
    BY <1>2 DEF TracedCalls
  <2>2. trace'.ring \in [Cells -> TracedCalls]
    BY <1>1, <1>5, <2>1
  <2>3. trace'.pointers \in [TraceCallers -> Seq(Pointers)]
    BY <1>1, <1>5, <1>7
  <2> QED BY <1>1, <1>2, <1>5, <2>2, <2>3 DEF Traces
<1>9. \A d \in TraceCallers : \A k \in 1 .. Len(trace'.pointers[d]) :
        \/ /\ k \in 1 .. Len(pointers[d])
           /\ trace'.pointers[d][k] = pointers[d][k]
        \/ d = c /\ k = Len(pointers[c]) + 1 /\ trace'.pointers[d][k] = new
  <2> SUFFICES ASSUME NEW d \in TraceCallers, NEW k \in 1 .. Len(trace'.pointers[d])
               PROVE  \/ /\ k \in 1 .. Len(pointers[d])
                         /\ trace'.pointers[d][k] = pointers[d][k]
                      \/ d = c /\ k = Len(pointers[c]) + 1 /\ trace'.pointers[d][k] = new
    OBVIOUS
  <2>1. CASE d = c
    <3>1. trace'.pointers[d] = Append(pointers[c], new)
      BY <1>1, <1>5, <2>1
    <3>2. k \in 1 .. Len(pointers[c]) \/ k = Len(pointers[c]) + 1
      BY <1>7, <3>1
    <3> QED BY <1>7, <2>1, <3>1, <3>2
  <2>2. CASE d # c
    BY <1>1, <1>5, <2>2
  <2> QED BY <2>1, <2>2
<1>10. \A d \in TraceCallers : \A k \in 1 .. Len(pointers[d]) :
         k \in 1 .. Len(trace'.pointers[d]) /\ trace'.pointers[d][k] = pointers[d][k]
  <2> SUFFICES ASSUME NEW d \in TraceCallers, NEW k \in 1 .. Len(pointers[d])
               PROVE  k \in 1 .. Len(trace'.pointers[d]) /\ trace'.pointers[d][k] = pointers[d][k]
    OBVIOUS
  <2>1. CASE d = c
    <3>1. trace'.pointers[d] = Append(pointers[c], new)
      BY <1>1, <1>5, <2>1
    <3> QED BY <1>7, <2>1, <3>1
  <2>2. CASE d # c
    BY <1>1, <1>5, <2>2
  <2> QED BY <2>1, <2>2
<1>11. PointersInv(trace'.pointers, trace'.total)
  <2>1. \A d \in TraceCallers : \A k \in 1 .. Len(pointers[d]) :
            pointers[d][k].call \in 1 .. total /\ pointers[d][k].at = CellOf(pointers[d][k].call)
    BY <1>1 DEF PointersInv
  <2>2. \A d \in TraceCallers : \A k \in 1 .. Len(trace'.pointers[d]) :
            /\ trace'.pointers[d][k].call \in 1 .. total + 1
            /\ trace'.pointers[d][k].at = CellOf(trace'.pointers[d][k].call)
    <3> SUFFICES ASSUME NEW d \in TraceCallers, NEW k \in 1 .. Len(trace'.pointers[d])
                 PROVE  /\ trace'.pointers[d][k].call \in 1 .. total + 1
                        /\ trace'.pointers[d][k].at = CellOf(trace'.pointers[d][k].call)
      OBVIOUS
    <3>1. CASE k \in 1 .. Len(pointers[d]) /\ trace'.pointers[d][k] = pointers[d][k]
      <4>1. \A x \in 1 .. total : x \in 1 .. total + 1
        BY <1>1
      <4> QED BY <2>1, <3>1, <4>1
    <3>2. CASE trace'.pointers[d][k] = new
      <4>1. total + 1 \in 1 .. total + 1
        BY <1>1
      <4> QED BY <1>6, <3>2, <4>1
    <3> QED BY <1>9, <3>1, <3>2
  <2>3. ASSUME NEW d \in TraceCallers, NEW e \in TraceCallers,
               NEW k \in 1 .. Len(trace'.pointers[d]), NEW l \in 1 .. Len(trace'.pointers[e]),
               trace'.pointers[d][k].call = trace'.pointers[e][l].call
        PROVE  d = e /\ k = l
    <3>1. \A f \in TraceCallers : \A m \in 1 .. Len(pointers[f]) : pointers[f][m].call # total + 1
      BY <1>1, <2>1
    <3>2. CASE /\ k \in 1 .. Len(pointers[d]) /\ trace'.pointers[d][k] = pointers[d][k]
               /\ l \in 1 .. Len(pointers[e]) /\ trace'.pointers[e][l] = pointers[e][l]
      BY <1>1, <2>3, <3>2 DEF PointersInv
    <3> QED BY <1>6, <1>9, <2>3, <3>1, <3>2, ZenonT(60)
  <2> QED BY <1>5, <2>2, <2>3 DEF PointersInv
<1>12. \A n \in Nat : Unfinished(trace'.pointers, n) <=> Unfinished(pointers, n) \/ n = total + 1
  <2>1. c \in TraceCallers /\ Len(pointers[c]) + 1 \in 1 .. Len(trace'.pointers[c])
        /\ trace'.pointers[c][Len(pointers[c]) + 1] = new
    <3>1. trace'.pointers[c] = Append(pointers[c], new)
      BY <1>1, <1>5
    <3> QED BY <1>7, <3>1
  <2>2. ASSUME NEW n \in Nat, Unfinished(trace'.pointers, n)
        PROVE  Unfinished(pointers, n) \/ n = total + 1
    <3>1. PICK d \in TraceCallers : \E k \in 1 .. Len(trace'.pointers[d]) : trace'.pointers[d][k].call = n
      BY <2>2 DEF Unfinished
    <3>2. PICK k \in 1 .. Len(trace'.pointers[d]) : trace'.pointers[d][k].call = n
      BY <3>1
    <3> QED BY <1>6, <1>9, <3>2 DEF Unfinished
  <2>3. ASSUME NEW n \in Nat, Unfinished(pointers, n)
        PROVE  Unfinished(trace'.pointers, n)
    BY <1>10, <2>3 DEF Unfinished
  <2>4. Unfinished(trace'.pointers, total + 1)
    BY <1>6, <2>1 DEF Unfinished
  <2> QED BY <2>2, <2>3, <2>4
<1>13. ~Unfinished(pointers, total + 1)
  <2>1. total + 1 \notin 1 .. total
    BY <1>1
  <2> QED BY <1>1, <2>1 DEF Unfinished, PointersInv
<1>14. ASSUME NEW n \in Traced(trace'.total)
       PROVE  \/ n = total + 1
              \/ /\ n \in Traced(total) /\ CellOf(n) \in Cells
                 /\ CellOf(n) # CellOf(total + 1) /\ n # total + 1
  <2>1. n \in 1 .. total + 1 /\ n > total + 1 - TraceCapacity
    <3>1. n \in Traced(total + 1)
      BY <1>5
    <3> HIDE DEF total
    <3> QED BY <1>0, <1>1, <3>1 DEF Traced
  <2>2. CASE n # total + 1
    <3> HIDE DEF total
    <3>0. n \in Nat /\ n \in 1 .. total /\ n > total - TraceCapacity
      BY <1>0, <1>1, <2>1, <2>2
    <3>1. n \in Traced(total) /\ n \in Traced(total + 1)
      BY <1>0, <1>1, <2>1, <3>0 DEF Traced
    <3>2. total + 1 \in Traced(total + 1)
      BY <1>0, <1>1 DEF Traced
    <3> QED BY <1>2, <2>2, <3>0, <3>1, <3>2, CellsDiffer
  <2> QED BY <2>2
<1>15. trace'.ring[CellOf(total + 1)] = [call |-> total + 1, result |-> 0]
  BY <1>1, <1>3, <1>5
<1>16. \A x \in Cells : x # CellOf(total + 1) => trace'.ring[x] = cells[x]
  BY <1>1, <1>5
<1>17. CellsInv(trace')
  <2>1. ASSUME NEW n \in Traced(trace'.total)
        PROVE  trace'.ring[CellOf(n)].call = n
    BY <1>1, <1>14, <1>15, <1>16 DEF CellsInv
  <2>2. ASSUME ~trace'.overtaken, NEW n \in Traced(trace'.total)
        PROVE  trace'.ring[CellOf(n)].result = IF Unfinished(trace'.pointers, n) THEN 0 ELSE n
    <3>1. n \in Nat
      BY <1>1, <1>5 DEF Traced
    <3>2. CASE n = total + 1
      BY <1>12, <1>15, <3>1, <3>2
    <3>3. CASE n # total + 1
      <4>1. trace'.ring[CellOf(n)] = cells[CellOf(n)] /\ n \in Traced(total)
        BY <1>14, <1>16, <3>3
      <4>2. cells[CellOf(n)].result = IF Unfinished(pointers, n) THEN 0 ELSE n
        BY <1>1, <1>5, <2>2, <4>1 DEF CellsInv
      <4> QED BY <1>12, <3>1, <3>3, <4>1, <4>2
    <3> QED BY <3>2, <3>3
  <2> QED BY <2>1, <2>2 DEF CellsInv
<1> QED BY <1>8, <1>11, <1>17 DEF TraceInv

LEMMA TraceExcept ==
    ASSUME NEW t, NEW cells, NEW total, NEW pointers, NEW overtaken,
           t = [ring |-> cells, total |-> total, pointers |-> pointers, overtaken |-> overtaken],
           NEW r, NEW p, NEW o
    PROVE  [t EXCEPT !.ring = r, !.pointers = p, !.overtaken = o]
              = [ring |-> r, total |-> total, pointers |-> p, overtaken |-> o]
<1> DEFINE a == [t EXCEPT !.ring = r]
           b == [a EXCEPT !.pointers = p]
<1>1. a = [ring |-> r, total |-> total, pointers |-> pointers, overtaken |-> overtaken]
  OBVIOUS
<1>2. [t EXCEPT !.ring = r, !.pointers = p, !.overtaken = o] = [b EXCEPT !.overtaken = o]
  OBVIOUS
<1> HIDE DEF a
<1>3. b = [ring |-> r, total |-> total, pointers |-> p, overtaken |-> overtaken]
  BY <1>1
<1> HIDE DEF b
<1>4. [b EXCEPT !.overtaken = o] = [ring |-> r, total |-> total, pointers |-> p, overtaken |-> o]
  BY <1>3
<1> QED BY <1>2, <1>4

LEMMA FinishKeepsTrace ==
    ASSUME TraceInv, NEW c \in TraceCallers, FinishTrace(c)
    PROVE  TraceInv'
<1> DEFINE cells == trace.ring
           total == trace.total
           pointers == trace.pointers
           open == pointers[c]
           z == Len(open)
           pointer == open[z]
<1>1. /\ cells \in [Cells -> TracedCalls] /\ total \in Nat
      /\ pointers \in [TraceCallers -> Seq(Pointers)] /\ trace.overtaken \in BOOLEAN
      /\ PointersInv(pointers, total) /\ CellsInv(trace)
  BY DEF TraceInv, Traces
<1>2. open \in Seq(Pointers) /\ open # <<>> /\ z \in Nat /\ z \in 1 .. z /\ pointer \in Pointers
  <2>1. open \in Seq(Pointers) /\ open # <<>>
    BY <1>1 DEF FinishTrace
  <2>2. z \in Nat /\ z > 0
    BY <2>1, LenProperties, EmptySeq
  <2> QED BY <2>1, <2>2, ElementOfSeq
<1>3. /\ pointer.call \in 1 .. total /\ pointer.at = CellOf(pointer.call) /\ pointer.at \in Cells
  BY <1>1, <1>2 DEF PointersInv, Pointers
<1>4. trace' = [trace EXCEPT !.ring = [cells EXCEPT ![pointer.at].result = pointer.call],
                             !.pointers[c] = SubSeq(open, 1, z - 1),
                             !.overtaken = @ \/ cells[pointer.at].call # pointer.call]
  BY DEF FinishTrace, Finished
<1>5. /\ trace'.ring = [cells EXCEPT ![pointer.at].result = pointer.call]
      /\ trace'.total = total
      /\ trace'.pointers = [pointers EXCEPT ![c] = SubSeq(open, 1, z - 1)]
      /\ trace'.overtaken = (trace.overtaken \/ cells[pointer.at].call # pointer.call)
      /\ trace' = [ring |-> trace'.ring, total |-> trace'.total, pointers |-> trace'.pointers,
                   overtaken |-> trace'.overtaken]
  <2>1. trace = [ring |-> cells, total |-> total, pointers |-> pointers, overtaken |-> trace.overtaken]
    BY DEF TraceInv, Traces
  <2> DEFINE r == [cells EXCEPT ![pointer.at].result = pointer.call]
             rest == SubSeq(open, 1, z - 1)
             lost == (trace.overtaken \/ cells[pointer.at].call # pointer.call)
  <2>2. trace' = [trace EXCEPT !.ring = r, !.pointers[c] = rest, !.overtaken = lost]
    BY <1>4
  <2> DEFINE rests == [pointers EXCEPT ![c] = rest]
  <2>a. trace' = [trace EXCEPT !.ring = r, !.pointers = rests, !.overtaken = lost]
    BY <2>2
  <2> DEFINE before == trace.overtaken
  <2>c. trace = [ring |-> cells, total |-> total, pointers |-> pointers, overtaken |-> before]
    BY <2>1
  <2> HIDE DEF r, rest, rests, lost, cells, total, pointers, before
  <2>b. trace' = [ring |-> r, total |-> total, pointers |-> rests, overtaken |-> lost]
    BY <2>a, <2>c, TraceExcept
  <2>3. /\ trace'.ring = r /\ trace'.total = total /\ trace'.pointers = [pointers EXCEPT ![c] = rest]
        /\ trace'.overtaken = lost
        /\ trace' = [ring |-> trace'.ring, total |-> trace'.total, pointers |-> trace'.pointers,
                     overtaken |-> trace'.overtaken]
    BY <2>b DEF rests
  <2> QED BY <2>3 DEF r, rest, lost
<1>6. /\ SubSeq(open, 1, z - 1) \in Seq(Pointers) /\ Len(SubSeq(open, 1, z - 1)) = z - 1
      /\ \A k \in 1 .. z - 1 : SubSeq(open, 1, z - 1)[k] = open[k]
  <2>1. 1 \in Int /\ z - 1 \in Int /\ \A k \in 1 .. z - 1 : open[k] \in Pointers
    BY <1>2, ElementOfSeq
  <2>2. /\ SubSeq(open, 1, z - 1) \in Seq(Pointers)
        /\ Len(SubSeq(open, 1, z - 1)) = IF 1 <= z - 1 THEN z - 1 - 1 + 1 ELSE 0
        /\ \A k \in 1 .. z - 1 - 1 + 1 : SubSeq(open, 1, z - 1)[k] = open[1 + k - 1]
    BY <2>1, SubSeqProperties
  <2> QED BY <1>2, <2>2
<1> HIDE DEF pointer
<1>7. trace' \in Traces
  <2>1. trace'.ring \in [Cells -> TracedCalls]
    <3>1. [cells[pointer.at] EXCEPT !.result = pointer.call] \in TracedCalls
      <4>1. cells[pointer.at] \in TracedCalls /\ pointer.call \in Nat
        BY <1>1, <1>3
      <4> QED BY <4>1 DEF TracedCalls
    <3>2. trace'.ring = [cells EXCEPT ![pointer.at] = [cells[pointer.at] EXCEPT !.result = pointer.call]]
      BY <1>5
    <3> QED BY <1>1, <3>1, <3>2
  <2>2. trace'.pointers \in [TraceCallers -> Seq(Pointers)]
    BY <1>1, <1>5, <1>6
  <2>3. trace'.overtaken \in BOOLEAN
    BY <1>5
  <2> QED BY <1>1, <1>5, <2>1, <2>2, <2>3 DEF Traces
<1>8. \A d \in TraceCallers : \A k \in 1 .. Len(trace'.pointers[d]) :
        /\ k \in 1 .. Len(pointers[d]) /\ trace'.pointers[d][k] = pointers[d][k]
        /\ ~(d = c /\ k = z)
  <2> SUFFICES ASSUME NEW d \in TraceCallers, NEW k \in 1 .. Len(trace'.pointers[d])
               PROVE  /\ k \in 1 .. Len(pointers[d]) /\ trace'.pointers[d][k] = pointers[d][k]
                      /\ ~(d = c /\ k = z)
    OBVIOUS
  <2>1. CASE d = c
    <3>1. trace'.pointers[d] = SubSeq(open, 1, z - 1)
      BY <1>1, <1>5, <2>1
    <3> QED BY <1>2, <1>6, <2>1, <3>1
  <2>2. CASE d # c
    BY <1>1, <1>5, <2>2
  <2> QED BY <2>1, <2>2
<1>9. \A d \in TraceCallers : \A k \in 1 .. Len(pointers[d]) :
        \/ d = c /\ k = z
        \/ k \in 1 .. Len(trace'.pointers[d]) /\ trace'.pointers[d][k] = pointers[d][k]
  <2> SUFFICES ASSUME NEW d \in TraceCallers, NEW k \in 1 .. Len(pointers[d]), ~(d = c /\ k = z)
               PROVE  k \in 1 .. Len(trace'.pointers[d]) /\ trace'.pointers[d][k] = pointers[d][k]
    OBVIOUS
  <2>1. CASE d = c
    <3>1. trace'.pointers[d] = SubSeq(open, 1, z - 1)
      BY <1>1, <1>5, <2>1
    <3>2. k \in 1 .. z - 1
      BY <1>2, <2>1
    <3> QED BY <1>2, <1>6, <2>1, <3>1, <3>2
  <2>2. CASE d # c
    BY <1>1, <1>5, <2>2
  <2> QED BY <2>1, <2>2
<1>10. PointersInv(trace'.pointers, trace'.total)
  <2>1. ASSUME NEW d \in TraceCallers, NEW k \in 1 .. Len(trace'.pointers[d])
        PROVE  /\ trace'.pointers[d][k].call \in 1 .. total
               /\ trace'.pointers[d][k].at = CellOf(trace'.pointers[d][k].call)
    <3>1. k \in 1 .. Len(pointers[d]) /\ trace'.pointers[d][k] = pointers[d][k]
      BY <1>8
    <3> QED BY <1>1, <3>1 DEF PointersInv
  <2>2. ASSUME NEW d \in TraceCallers, NEW e \in TraceCallers,
               NEW k \in 1 .. Len(trace'.pointers[d]), NEW l \in 1 .. Len(trace'.pointers[e]),
               trace'.pointers[d][k].call = trace'.pointers[e][l].call
        PROVE  d = e /\ k = l
    <3>1. /\ k \in 1 .. Len(pointers[d]) /\ trace'.pointers[d][k] = pointers[d][k]
          /\ l \in 1 .. Len(pointers[e]) /\ trace'.pointers[e][l] = pointers[e][l]
      BY <1>8
    <3> QED BY <1>1, <2>2, <3>1 DEF PointersInv
  <2> QED BY <1>5, <2>1, <2>2 DEF PointersInv
<1>11. \A n \in Nat : Unfinished(trace'.pointers, n) <=> Unfinished(pointers, n) /\ n # pointer.call
  <2>1. ASSUME NEW n \in Nat, Unfinished(trace'.pointers, n)
        PROVE  Unfinished(pointers, n) /\ n # pointer.call
    <3>0. PICK d \in TraceCallers : \E k \in 1 .. Len(trace'.pointers[d]) : trace'.pointers[d][k].call = n
      BY <2>1 DEF Unfinished
    <3>1. PICK k \in 1 .. Len(trace'.pointers[d]) : trace'.pointers[d][k].call = n
      BY <3>0
    <3>2. /\ k \in 1 .. Len(pointers[d]) /\ pointers[d][k].call = n /\ ~(d = c /\ k = z)
      BY <1>8, <3>1
    <3>3. n # pointer.call
      BY <1>1, <1>2, <3>2, SMTT(60) DEF PointersInv, pointer
    <3> QED BY <3>2, <3>3 DEF Unfinished
  <2>2. ASSUME NEW n \in Nat, Unfinished(pointers, n), n # pointer.call
        PROVE  Unfinished(trace'.pointers, n)
    BY <1>9, <2>2 DEF Unfinished, pointer
  <2> QED BY <2>1, <2>2
<1>12. \A x \in Cells : /\ trace'.ring[x].call = cells[x].call
                        /\ x # pointer.at => trace'.ring[x] = cells[x]
                        /\ trace'.ring[pointer.at].result = pointer.call
  BY <1>1, <1>3, <1>5 DEF TracedCalls
<1>13. \A n \in Traced(total) : CellOf(n) \in Cells /\ n \in Nat
  <2>1. \A n \in Traced(total) : n \in Nat \ {0}
    BY <1>1 DEF Traced
  <2> QED BY <2>1, CellInRing
<1>14. CellsInv(trace')
  <2>1. ASSUME NEW n \in Traced(total)
        PROVE  trace'.ring[CellOf(n)].call = n
    BY <1>1, <1>12, <1>13 DEF CellsInv
  <2>2. ASSUME ~trace'.overtaken, NEW n \in Traced(total)
        PROVE  trace'.ring[CellOf(n)].result = IF Unfinished(trace'.pointers, n) THEN 0 ELSE n
    <3>1. cells[pointer.at].call = pointer.call /\ ~trace.overtaken
      BY <1>5, <2>2
    <3>2. cells[CellOf(n)].call = n /\ cells[CellOf(n)].result = IF Unfinished(pointers, n) THEN 0 ELSE n
      BY <1>1, <3>1 DEF CellsInv
    <3>3. CASE n = pointer.call
      BY <1>3, <1>11, <1>12, <1>13, <3>3
    <3>4. CASE n # pointer.call
      <4>1. CellOf(n) # pointer.at
        BY <3>1, <3>2, <3>4
      <4> QED BY <1>11, <1>12, <1>13, <3>2, <3>4, <4>1
    <3> QED BY <3>3, <3>4
  <2> QED BY <1>5, <2>1, <2>2 DEF CellsInv
<1> QED BY <1>7, <1>10, <1>14 DEF TraceInv

LEMMA TraceInvHolds == TraceSpec => []TraceInv
<1>1. TraceInit => TraceInv
  <2> SUFFICES ASSUME TraceInit PROVE TraceInv
    OBVIOUS
  <2>1. trace \in Traces
    BY TraceAssumption DEF TraceInit, Traces, Cells, TracedCalls, Unused
  <2>2. trace.total = 0 /\ \A c \in TraceCallers : trace.pointers[c] = <<>> /\ Len(trace.pointers[c]) = 0
    BY DEF TraceInit
  <2>3. Traced(0) = {} /\ 1 .. 0 = {}
    BY DEF Traced
  <2> QED BY <2>1, <2>2, <2>3 DEF TraceInv, PointersInv, CellsInv
<1>2. TraceInv /\ [TraceNext]_trace => TraceInv'
  <2> SUFFICES ASSUME TraceInv, [TraceNext]_trace PROVE TraceInv'
    OBVIOUS
  <2>1. CASE UNCHANGED trace
    BY <2>1 DEF TraceInv
  <2> QED BY <2>1, BeginKeepsTrace, FinishKeepsTrace DEF TraceNext
<1> QED BY <1>1, <1>2, PTL DEF TraceSpec

\* The entries read are those of the calls the ring holds, in their order.
LEMMA EntriesAreTraced ==
    ASSUME TraceInv, NEW index \in 0 .. Retained - 1
    PROVE  LET n == trace.total - Retained + index + 1
           IN  n \in Traced(trace.total) /\ EntryAt(index) = trace.ring[CellOf(n)]
<1>1. trace.total \in Nat /\ TraceCapacity \in Nat \ {0}
  BY TraceAssumption DEF TraceInv, Traces
<1>2. Retained \in Nat /\ Retained <= trace.total /\ Retained <= TraceCapacity
  BY <1>1 DEF Retained, Smaller
<1>3. trace.total - Retained + index + 1 - 1 = trace.total - Retained + index
  BY <1>1, <1>2
<1> QED BY <1>1, <1>2, <1>3 DEF Traced, CellOf, EntryAt

\* TraceIsTrue, of CallTrace: the lists read of the ring are of the last calls in
\* their order, and as long as no call took longer than the ring goes round each
\* has its own result, however fibers interleave (BeginKernelServiceTrace,
\* FinishKernelServiceTrace, readKernelServiceTrace).
THEOREM TraceIsTrueHolds == TraceSpec => []TraceIsTrue
<1> SUFFICES ASSUME TraceInv PROVE TraceIsTrue
  BY TraceInvHolds, PTL
<1>1. /\ trace.total \in Nat /\ Retained \in Nat /\ Retained <= trace.total
      /\ RecentLimit \in Nat /\ OldestLimit \in Nat /\ CellsInv(trace)
      /\ trace.pointers \in [TraceCallers -> Seq(Pointers)]
  BY TraceAssumption DEF TraceInv, Traces, Retained, Smaller
<1>2. \A index \in 0 .. Retained - 1 : EntryAt(index).call = trace.total - Retained + index + 1
  BY <1>1, EntriesAreTraced DEF CellsInv
<1>3. RecentAreLast
  <2> DEFINE r == Smaller(Retained, RecentLimit)
             o == Smaller(Retained, OldestLimit)
             skipped == Retained - r
  <2>1. r \in 0 .. Retained /\ o \in 0 .. Retained /\ Retained - skipped = r /\ skipped \in Nat
    BY <1>1 DEF Smaller
  <2>2. RecentCalls = [i \in 1 .. r |-> EntryAt(skipped + i - 1)]
    BY <2>1 DEF RecentCalls
  <2>3. OldestCalls = [i \in 1 .. o |-> EntryAt(i - 1)]
    BY DEF OldestCalls
  <2> HIDE DEF r, o, skipped
  <2>4. Len(RecentCalls) = r /\ DOMAIN RecentCalls = 1 .. r
    <3>1. RecentCalls \in [1 .. r -> {EntryAt(skipped + i - 1) : i \in 1 .. r}]
      BY <2>2
    <3> QED BY <2>1, <3>1, FunctionIsSeq
  <2>5. ASSUME NEW i \in DOMAIN RecentCalls
        PROVE  RecentCalls[i].call = trace.total - Len(RecentCalls) + i
    <3>1. skipped + i - 1 \in 0 .. Retained - 1 /\ i \in 1 .. r
      BY <1>1, <2>1, <2>4
    <3>2. RecentCalls[i].call = trace.total - Retained + (skipped + i - 1) + 1
      BY <1>2, <2>2, <3>1
    <3> QED BY <1>1, <2>1, <2>4, <3>1, <3>2, SMTT(60)
  <2>6. ASSUME NEW i \in DOMAIN OldestCalls
        PROVE  OldestCalls[i].call = trace.total - Retained + i
    <3>1. i - 1 \in 0 .. Retained - 1 /\ i \in 1 .. o
      BY <1>1, <2>1, <2>3
    <3>2. OldestCalls[i].call = trace.total - Retained + (i - 1) + 1
      BY <1>2, <2>3, <3>1
    <3> QED BY <1>1, <3>1, <3>2
  <2> QED BY <2>5, <2>6 DEF RecentAreLast
<1>4. ResultsAreOwn
  <2> SUFFICES ASSUME ~trace.overtaken, NEW index \in 0 .. Retained - 1
               PROVE  LET entry == EntryAt(index)
                          underWay == \E c \in TraceCallers : \E k \in DOMAIN trace.pointers[c] :
                                          trace.pointers[c][k].call = entry.call
                      IN  entry.result = (IF underWay THEN 0 ELSE entry.call)
    BY DEF ResultsAreOwn
  <2> DEFINE n == trace.total - Retained + index + 1
  <2>1. n \in Traced(trace.total) /\ EntryAt(index) = trace.ring[CellOf(n)]
    BY EntriesAreTraced
  <2> HIDE DEF n
  <2>2. EntryAt(index).call = n /\ EntryAt(index).result = IF Unfinished(trace.pointers, n) THEN 0 ELSE n
    BY <1>1, <2>1 DEF CellsInv
  <2>3. \A c \in TraceCallers : DOMAIN trace.pointers[c] = 1 .. Len(trace.pointers[c])
    BY <1>1, LenProperties
  <2> QED BY <2>2, <2>3 DEF Unfinished
<1> QED BY <1>3, <1>4 DEF TraceIsTrue

-----------------------------------------------------------------------------
(* Caches of modules, targets and pipelines (GpuFoundation)                  *)

KnownShaders == TitleShaders \cup {NoShader}
Validations == [at : {"idle", "key", "convert"}, device : Nat, type : 0 .. 1,
                key : KnownShaders, bytes : KnownShaders]
Modules == [device : Nat, type : 0 .. 1, key : KnownShaders, source : KnownShaders]

\* While the converter runs, the copy it was given is of the shader that was
\* asked for, whatever the core's buffer holds by now.
ShadersInv ==
    /\ captured \in [0 .. 1 -> KnownShaders] /\ spirvBuffer \in KnownShaders
    /\ validation \in Validations /\ moduleCache \subseteq Modules
    /\ validation.at = "convert" => validation.bytes = validation.key
    /\ ModulesMatchTheirKeys

Entries == [key : ResolveKeys, size : TargetSizes, texture : Nat]

\* Textures are numbered as they are created; a key has one entry.
CacheHolds(cache, created, gone) ==
    /\ cache \in Seq(Entries) /\ Len(cache) <= MaxTargets
    /\ \A i \in 1 .. Len(cache) : cache[i].texture \in 1 .. created /\ cache[i].texture \notin gone
    /\ \A i, j \in 1 .. Len(cache) : cache[i].key = cache[j].key => i = j

TargetsInv ==
    /\ textures \in Nat /\ destroyed \subseteq 1 .. textures
    /\ resolved \in 0 .. textures /\ resolved \notin destroyed
    /\ CacheHolds(targets, textures, destroyed)

PipelineInv ==
    /\ pipeline \in {"none", "pending", "ready"}
    /\ resolving \in [Resolvers -> {"idle", "compiling"}]
    /\ ResolvesWaitForLiveCompiles

FoundationInv == ShadersInv /\ TargetsInv /\ PipelineInv

LEMMA RemovedAt ==
    ASSUME NEW S, NEW s \in Seq(S), NEW p \in 1 .. Len(s)
    PROVE  /\ RemoveAt(s, p) \in Seq(S) /\ Len(RemoveAt(s, p)) = Len(s) - 1
           /\ \A i \in 1 .. Len(s) - 1 : RemoveAt(s, p)[i] = s[IF i < p THEN i ELSE i + 1]
<1> DEFINE a == SubSeq(s, 1, p - 1)
           b == SubSeq(s, p + 1, Len(s))
<1>0. Len(s) \in Nat /\ \A i \in 1 .. Len(s) : s[i] \in S
  BY ElementOfSeq, LenProperties
<1>1. a \in Seq(S) /\ Len(a) = p - 1 /\ \A i \in 1 .. p - 1 : a[i] = s[i]
  <2>1. 1 \in Int /\ p - 1 \in Int /\ \A i \in 1 .. p - 1 : s[i] \in S
    BY <1>0
  <2>2. /\ a \in Seq(S)
        /\ Len(a) = IF 1 <= p - 1 THEN p - 1 - 1 + 1 ELSE 0
        /\ \A i \in 1 .. p - 1 - 1 + 1 : a[i] = s[1 + i - 1]
    BY <2>1, SubSeqProperties
  <2> QED BY <2>2
<1>2. b \in Seq(S) /\ Len(b) = Len(s) - p /\ \A i \in 1 .. Len(s) - p : b[i] = s[p + i]
  <2>1. p + 1 \in Int /\ Len(s) \in Int /\ \A i \in p + 1 .. Len(s) : s[i] \in S
    BY <1>0
  <2>2. /\ b \in Seq(S)
        /\ Len(b) = IF p + 1 <= Len(s) THEN Len(s) - (p + 1) + 1 ELSE 0
        /\ \A i \in 1 .. Len(s) - (p + 1) + 1 : b[i] = s[p + 1 + i - 1]
    BY <2>1, SubSeqProperties
  <2> QED BY <1>0, <2>2
<1>3. RemoveAt(s, p) = a \o b
  BY DEF RemoveAt
<1> HIDE DEF a, b
<1>4. /\ a \o b \in Seq(S) /\ Len(a \o b) = Len(s) - 1
      /\ \A i \in 1 .. Len(s) - 1 : (a \o b)[i] = IF i <= p - 1 THEN a[i] ELSE b[i - (p - 1)]
  <2>1. /\ a \o b \in Seq(S) /\ Len(a \o b) = Len(a) + Len(b)
        /\ \A i \in 1 .. Len(a) + Len(b) : (a \o b)[i] = IF i <= Len(a) THEN a[i] ELSE b[i - Len(a)]
    BY <1>1, <1>2, ConcatProperties
  <2>2. Len(a) = p - 1 /\ Len(a) + Len(b) = Len(s) - 1
    BY <1>0, <1>1, <1>2
  <2> QED BY <2>1, <2>2
<1>5. ASSUME NEW i \in 1 .. Len(s) - 1
      PROVE  (a \o b)[i] = s[IF i < p THEN i ELSE i + 1]
  <2>1. CASE i < p
    BY <1>0, <1>1, <1>4, <2>1
  <2>2. CASE i >= p
    <3>1. i - (p - 1) \in 1 .. Len(s) - p /\ p + (i - (p - 1)) = i + 1
      BY <1>0, <2>2
    <3> QED BY <1>0, <1>2, <1>4, <2>2, <3>1
  <2>3. i < p \/ i >= p
    BY <1>0
  <2> QED BY <2>1, <2>2, <2>3
<1> QED BY <1>3, <1>4, <1>5

\* Eviction keeps the last entries, in their order.
LEMMA EvictedKeepsLast ==
    ASSUME NEW S, NEW s \in Seq(S)
    PROVE  /\ Evicted(s) \in Seq(S) /\ Len(Evicted(s)) <= MaxTargets
           /\ \E d \in Nat : /\ Len(Evicted(s)) = Len(s) - d
                             /\ \A i \in 1 .. Len(s) - d : Evicted(s)[i] = s[i + d]
                             /\ Len(s) > 0 => Len(s) - d > 0
<1>0. Len(s) \in Nat /\ (\A i \in 1 .. Len(s) : s[i] \in S) /\ MaxTargets \in Nat \ {0}
  BY ElementOfSeq, LenProperties, FoundationAssumption
<1>1. CASE Len(s) > MaxTargets
  <2> DEFINE d == Len(s) - MaxTargets
  <2>1. d \in Nat /\ d + 1 \in Int /\ Len(s) \in Int /\ \A i \in d + 1 .. Len(s) : s[i] \in S
    BY <1>0, <1>1
  <2>2. Evicted(s) = SubSeq(s, d + 1, Len(s))
    BY <1>1 DEF Evicted
  <2>3. /\ Evicted(s) \in Seq(S)
        /\ Len(Evicted(s)) = IF d + 1 <= Len(s) THEN Len(s) - (d + 1) + 1 ELSE 0
        /\ \A i \in 1 .. Len(s) - (d + 1) + 1 : Evicted(s)[i] = s[d + 1 + i - 1]
    BY <2>1, <2>2, SubSeqProperties
  <2>4. Len(Evicted(s)) = Len(s) - d /\ Len(s) - d = MaxTargets
    BY <1>0, <1>1, <2>1, <2>3
  <2>5. \A i \in 1 .. Len(s) - d : Evicted(s)[i] = s[i + d]
    BY <1>0, <2>1, <2>3
  <2>6. Len(s) > 0 => Len(s) - d > 0
    BY <1>0, <2>4
  <2>7. Len(Evicted(s)) <= MaxTargets
    BY <1>0, <2>4
  <2> HIDE DEF d
  <2> QED BY <2>1, <2>3, <2>4, <2>5, <2>6, <2>7
<1>2. CASE Len(s) <= MaxTargets
  <2>1. Evicted(s) = s
    BY <1>0, <1>2 DEF Evicted
  <2>2. /\ 0 \in Nat /\ Len(s) = Len(s) - 0 /\ \A i \in 1 .. Len(s) - 0 : s[i] = s[i + 0]
        /\ Len(s) > 0 => Len(s) - 0 > 0
    BY <1>0
  <2>3. \E d \in Nat : /\ Len(s) = Len(s) - d
                       /\ \A i \in 1 .. Len(s) - d : s[i] = s[i + d]
                       /\ Len(s) > 0 => Len(s) - d > 0
    BY <2>2
  <2> QED BY <1>2, <2>1, <2>3
<1> QED BY <1>0, <1>1, <1>2

\* Without the entry of a key, the others stay, each once.
LEMMA WithoutKeyKeeps ==
    ASSUME TargetsInv, NEW k \in ResolveKeys
    PROVE  /\ CacheHolds(WithoutKey(k), textures, destroyed)
           /\ \A i \in 1 .. Len(WithoutKey(k)) : WithoutKey(k)[i].key # k
           /\ TexturesOf(WithoutKey(k)) \subseteq TexturesOf(targets)
           /\ Held(k) # {} => Len(WithoutKey(k)) < MaxTargets
<1>0. /\ targets \in Seq(Entries) /\ Len(targets) \in Nat /\ DOMAIN targets = 1 .. Len(targets)
      /\ CacheHolds(targets, textures, destroyed)
  BY LenProperties DEF TargetsInv, CacheHolds
<1>1. CASE Held(k) = {}
  BY <1>0, <1>1 DEF WithoutKey, Held
<1>2. CASE Held(k) # {}
  <2>1. PICK p \in 1 .. Len(targets) : /\ targets[p].key = k
                                       /\ WithoutKey(k) = RemoveAt(targets, p)
    BY <1>0, <1>2 DEF WithoutKey, Held
  <2> DEFINE w == WithoutKey(k)
             Place(i) == IF i < p THEN i ELSE i + 1
  <2>2. /\ w \in Seq(Entries) /\ Len(w) = Len(targets) - 1
        /\ \A i \in 1 .. Len(targets) - 1 : w[i] = targets[Place(i)]
    BY <1>0, <2>1, RemovedAt
  <2> HIDE DEF w
  <2>3. \A i \in 1 .. Len(w) : Place(i) \in 1 .. Len(targets) /\ Place(i) # p
    BY <1>0, <2>2
  <2>4. \A i, j \in 1 .. Len(w) : Place(i) = Place(j) => i = j
    BY <1>0, <2>2
  <2>5. \A i \in 1 .. Len(w) : w[i] = targets[Place(i)]
    BY <2>2
  <2> HIDE DEF Place
  <2>6. Len(w) \in Nat /\ DOMAIN w = 1 .. Len(w) /\ Len(w) < MaxTargets
    BY <1>0, <2>2, LenProperties, FoundationAssumption DEF CacheHolds
  <2>7. CacheHolds(w, textures, destroyed)
    <3>1. \A i, j \in 1 .. Len(w) : w[i].key = w[j].key => i = j
      BY <1>0, <2>3, <2>4, <2>5 DEF CacheHolds
    <3>2. \A i \in 1 .. Len(w) : w[i].texture \in 1 .. textures /\ w[i].texture \notin destroyed
      BY <1>0, <2>3, <2>5 DEF CacheHolds
    <3>3. Len(w) <= MaxTargets
      BY <2>6, FoundationAssumption
    <3> QED BY <2>2, <3>1, <3>2, <3>3 DEF CacheHolds
  <2>8. \A i \in 1 .. Len(w) : w[i].key # k
    BY <1>0, <2>1, <2>3, <2>5 DEF CacheHolds
  <2>9. TexturesOf(w) \subseteq TexturesOf(targets)
    BY <1>0, <2>3, <2>5, <2>6 DEF TexturesOf
  <2> QED BY <2>6, <2>7, <2>8, <2>9 DEF w
<1> QED BY <1>1, <1>2

\* An entry after the others, of a key and a texture they do not have.
LEMMA AppendKeeps ==
    ASSUME NEW s, NEW n \in Nat, NEW gone, CacheHolds(s, n, gone),
           NEW e \in Entries, \A i \in 1 .. Len(s) : s[i].key # e.key
    PROVE  LET a == Append(s, e)
           IN  /\ a \in Seq(Entries) /\ Len(a) = Len(s) + 1 /\ a[Len(a)] = e
               /\ \A i, j \in 1 .. Len(a) : a[i].key = a[j].key => i = j
               /\ \A i \in 1 .. Len(s) : a[i] = s[i]
               /\ TexturesOf(a) = TexturesOf(s) \cup {e.texture}
<1> DEFINE a == Append(s, e)
<1>0. s \in Seq(Entries) /\ Len(s) \in Nat /\ DOMAIN s = 1 .. Len(s)
  BY LenProperties DEF CacheHolds
<1>1. /\ a \in Seq(Entries) /\ Len(a) = Len(s) + 1
      /\ (\A i \in 1 .. Len(s) : a[i] = s[i]) /\ a[Len(s) + 1] = e
  BY <1>0, AppendProperties
<1>2. DOMAIN a = 1 .. Len(s) + 1
  BY <1>1, LenProperties
<1> HIDE DEF a
<1>3. \A i \in 1 .. Len(s) + 1 : i \in 1 .. Len(s) \/ i = Len(s) + 1
  BY <1>0
<1>4. \A i, j \in 1 .. Len(a) : a[i].key = a[j].key => i = j
  BY <1>1, <1>3 DEF CacheHolds
<1>5. TexturesOf(a) = TexturesOf(s) \cup {e.texture}
  BY <1>0, <1>1, <1>2, <1>3 DEF TexturesOf
<1> QED BY <1>1, <1>4, <1>5 DEF a

LEMMA ResolveKeepsTargets ==
    ASSUME TargetsInv, NEW k \in ResolveKeys, NEW size \in TargetSizes, Acquire(k, size)
    PROVE  TargetsInv'
<1> DEFINE same == {i \in Held(k) : targets[i].size = size}
           entry == IF same # {} THEN targets[CHOOSE i \in same : TRUE]
                    ELSE [key |-> k, size |-> size, texture |-> textures + 1]
           others == WithoutKey(k)
           appended == Append(others, entry)
           cache == IF same # {} THEN appended ELSE Evicted(appended)
<1>1. /\ textures' = IF same # {} THEN textures ELSE textures + 1
      /\ targets' = cache
      /\ destroyed' = destroyed \cup ((TexturesOf(targets) \cup {entry.texture}) \ TexturesOf(cache))
      /\ resolved' = entry.texture
  BY DEF Acquire
<1>2. /\ targets \in Seq(Entries) /\ DOMAIN targets = 1 .. Len(targets)
      /\ CacheHolds(targets, textures, destroyed)
      /\ textures \in Nat /\ destroyed \subseteq 1 .. textures
  BY LenProperties DEF TargetsInv, CacheHolds
<1>3. /\ CacheHolds(others, textures, destroyed)
      /\ \A i \in 1 .. Len(others) : others[i].key # k
      /\ TexturesOf(others) \subseteq TexturesOf(targets)
      /\ Held(k) # {} => Len(others) < MaxTargets
  BY WithoutKeyKeeps
<1>4. /\ entry \in Entries /\ entry.key = k
      /\ entry.texture \in 1 .. textures' /\ entry.texture \notin destroyed
      /\ textures' \in Nat /\ textures <= textures'
      /\ same # {} => Held(k) # {}
  <2>1. CASE same # {}
    <3>1. PICK i \in 1 .. Len(targets) : entry = targets[i] /\ targets[i].key = k
      BY <1>2, <2>1 DEF Held
    <3>2. targets[i] \in Entries
      BY <1>2, ElementOfSeq
    <3> HIDE DEF entry
    <3> QED BY <1>1, <1>2, <2>1, <3>1, <3>2 DEF CacheHolds
  <2>2. CASE same = {}
    <3>1. entry = [key |-> k, size |-> size, texture |-> textures + 1]
      BY <2>2
    <3>2. textures + 1 \in Nat /\ textures' = textures + 1 /\ textures + 1 \notin destroyed
      BY <1>1, <1>2, <2>2
    <3> HIDE DEF entry
    <3> QED BY <1>2, <2>2, <3>1, <3>2 DEF Entries
  <2> QED BY <2>1, <2>2
<1> HIDE DEF entry, others
<1>5. /\ appended \in Seq(Entries) /\ Len(appended) = Len(others) + 1
      /\ appended[Len(appended)] = entry
      /\ \A i, j \in 1 .. Len(appended) : appended[i].key = appended[j].key => i = j
      /\ \A i \in 1 .. Len(others) : appended[i] = others[i]
  <2>1. \A i \in 1 .. Len(others) : others[i].key # entry.key
    BY <1>3, <1>4
  <2> QED BY <1>2, <1>3, <1>4, <2>1, AppendKeeps
<1>6. Len(others) \in Nat /\ Len(appended) \in Nat
  BY <1>3, <1>5, LenProperties DEF CacheHolds
<1>7. \A i \in 1 .. Len(appended) : /\ appended[i].texture \in 1 .. textures'
                                    /\ appended[i].texture \notin destroyed
                                    /\ \/ i = Len(appended)
                                       \/ appended[i].texture \in TexturesOf(targets)
  <2> SUFFICES ASSUME NEW i \in 1 .. Len(appended)
               PROVE  /\ appended[i].texture \in 1 .. textures'
                      /\ appended[i].texture \notin destroyed
                      /\ \/ i = Len(appended)
                         \/ appended[i].texture \in TexturesOf(targets)
    OBVIOUS
  <2>1. CASE i = Len(appended)
    BY <1>4, <1>5, <2>1
  <2>2. CASE i # Len(appended)
    <3>1. i \in 1 .. Len(others)
      BY <1>5, <1>6, <2>2
    <3>2. appended[i] = others[i] /\ others[i].texture \in 1 .. textures
          /\ others[i].texture \notin destroyed
      BY <1>3, <1>5, <3>1 DEF CacheHolds
    <3>3. others[i].texture \in TexturesOf(others)
      BY <1>3, <3>1, LenProperties DEF TexturesOf, CacheHolds
    <3> QED BY <1>2, <1>3, <1>4, <3>2, <3>3
  <2> QED BY <2>1, <2>2
<1> HIDE DEF appended
<1>8. PICK d \in Nat : /\ cache \in Seq(Entries) /\ Len(cache) <= MaxTargets
                       /\ Len(cache) = Len(appended) - d /\ Len(cache) > 0
                       /\ \A i \in 1 .. Len(cache) : cache[i] = appended[i + d]
  <2>1. CASE same # {}
    <3>1. cache = appended
      BY <2>1
    <3> HIDE DEF cache
    <3>2. Len(appended) <= MaxTargets /\ 0 \in Nat /\ Len(appended) = Len(appended) - 0
          /\ Len(appended) > 0 /\ \A i \in 1 .. Len(appended) : appended[i] = appended[i + 0]
      BY <1>3, <1>4, <1>5, <1>6, <2>1, FoundationAssumption
    <3> QED BY <1>5, <3>1, <3>2
  <2>2. CASE same = {}
    <3>1. cache = Evicted(appended)
      BY <2>2
    <3> HIDE DEF cache
    <3>2. /\ cache \in Seq(Entries) /\ Len(cache) <= MaxTargets
          /\ \E d \in Nat : /\ Len(cache) = Len(appended) - d
                            /\ \A i \in 1 .. Len(appended) - d : cache[i] = appended[i + d]
                            /\ Len(appended) > 0 => Len(appended) - d > 0
      BY <1>5, <3>1, EvictedKeepsLast
    <3>3. PICK d \in Nat : /\ Len(cache) = Len(appended) - d
                           /\ \A i \in 1 .. Len(appended) - d : cache[i] = appended[i + d]
                           /\ Len(appended) > 0 => Len(appended) - d > 0
      BY <3>2
    <3>4. Len(appended) > 0
      BY <1>5, <1>6
    <3>5. Len(cache) > 0 /\ \A i \in 1 .. Len(cache) : cache[i] = appended[i + d]
      BY <3>3, <3>4
    <3> QED BY <3>2, <3>3, <3>5
  <2> QED BY <2>1, <2>2
<1> HIDE DEF cache, same
<1>9. Len(cache) \in Nat /\ DOMAIN cache = 1 .. Len(cache)
      /\ \A i \in 1 .. Len(cache) : i + d \in 1 .. Len(appended)
  BY <1>6, <1>8, LenProperties
<1>10. entry.texture \in TexturesOf(cache)
  <2>1. Len(cache) \in 1 .. Len(cache) /\ Len(cache) + d = Len(appended)
    BY <1>6, <1>8, <1>9
  <2>2. cache[Len(cache)] = entry
    BY <1>5, <1>8, <2>1
  <2> QED BY <1>9, <2>1, <2>2 DEF TexturesOf
<1>11. /\ destroyed' \subseteq 1 .. textures' /\ entry.texture \notin destroyed'
       /\ \A t \in TexturesOf(cache) : t \notin destroyed => t \notin destroyed'
  <2>1. TexturesOf(targets) \subseteq 1 .. textures
    BY <1>2 DEF TexturesOf, CacheHolds
  <2>2. 1 .. textures \subseteq 1 .. textures'
    BY <1>2, <1>4
  <2> QED BY <1>1, <1>2, <1>4, <1>10, <2>1, <2>2
<1>12. \A i \in 1 .. Len(cache) : cache[i].texture \in 1 .. textures' /\ cache[i].texture \notin destroyed'
  BY <1>7, <1>8, <1>9, <1>11 DEF TexturesOf
<1>13. \A i, j \in 1 .. Len(cache) : cache[i].key = cache[j].key => i = j
  <2> SUFFICES ASSUME NEW i \in 1 .. Len(cache), NEW j \in 1 .. Len(cache), cache[i].key = cache[j].key
               PROVE  i = j
    OBVIOUS
  <2>1. i + d = j + d
    BY <1>5, <1>8, <1>9
  <2> QED BY <2>1, <1>9
<1> QED BY <1>1, <1>4, <1>8, <1>11, <1>12, <1>13 DEF TargetsInv, CacheHolds

LEMMA ShadersKeep ==
    ASSUME ShadersInv, ShaderSteps
    PROVE  ShadersInv' /\ UNCHANGED targetVars
<1>0. /\ captured \in [0 .. 1 -> KnownShaders] /\ spirvBuffer \in KnownShaders
      /\ validation \in Validations /\ moduleCache \subseteq Modules
      /\ validation.at = "convert" => validation.bytes = validation.key
      /\ \A m \in moduleCache : m.source = m.key
      /\ NoShader \in KnownShaders /\ TitleShaders \subseteq KnownShaders
  BY DEF ShadersInv, ModulesMatchTheirKeys, KnownShaders
<1>1. /\ NextShader(validation) \in Validations
      /\ NextShader(validation).at # "convert"
  <2>1. CASE validation.type = VertexShader
    <3>1. NextShader(validation) = [validation EXCEPT !.at = "key", !.type = 1, !.bytes = NoShader]
      BY <2>1 DEF NextShader, PixelShader
    <3>2. 1 \in 0 .. 1
      OBVIOUS
    <3> QED BY <1>0, <3>1, <3>2 DEF Validations
  <2>2. CASE validation.type # VertexShader
    BY <1>0, <2>2 DEF NextShader, Validations
  <2> QED BY <2>1, <2>2
<1>2. ASSUME NEW type \in 0 .. 1, NEW s \in TitleShaders, CaptureShader(type, s) PROVE ShadersInv'
  BY <1>0, <1>2 DEF CaptureShader, ShadersInv, ModulesMatchTheirKeys
<1>3. CASE InspectShaders
  BY <1>0, <1>3 DEF InspectShaders, Translates, ShadersInv, ModulesMatchTheirKeys, VertexShader, PixelShader
<1>4. CASE RequestDevice
  <2>1. validation' \in Validations /\ validation'.at = "key"
    <3>1. validation.device + 1 \in Nat
      BY <1>0 DEF Validations
    <3>2. validation' = [validation EXCEPT !.at = "key", !.device = validation.device + 1, !.type = 0]
      BY <1>4 DEF RequestDevice, VertexShader
    <3>3. 0 \in 0 .. 1
      OBVIOUS
    <3> QED BY <1>0, <3>1, <3>2, <3>3 DEF Validations
  <2> QED BY <1>0, <1>4, <2>1 DEF RequestDevice, ShadersInv, ModulesMatchTheirKeys
<1>5. CASE NoDevice
  <2>1. validation' \in Validations /\ validation'.at = "idle"
    BY <1>0, <1>5 DEF NoDevice, Validations
  <2> QED BY <1>0, <1>5, <2>1 DEF NoDevice, ShadersInv, ModulesMatchTheirKeys
<1>6. CASE CompileStarts
  <2>1. captured[validation.type] \in KnownShaders
    BY <1>0 DEF Validations
  <2>2. CASE Cached(validation.device, validation.type, captured[validation.type])
    BY <1>0, <1>1, <1>6, <2>2 DEF CompileStarts, ShadersInv, ModulesMatchTheirKeys
  <2>3. CASE ~Cached(validation.device, validation.type, captured[validation.type])
    <3>1. /\ spirvBuffer' = captured[validation.type]
          /\ validation' = [validation EXCEPT !.at = "convert", !.key = captured[validation.type],
                                              !.bytes = captured[validation.type]]
      BY <1>6, <2>3 DEF CompileStarts, Translates
    <3>2. validation' \in Validations /\ validation'.bytes = validation'.key
      BY <1>0, <2>1, <3>1 DEF Validations
    <3> QED BY <1>0, <1>6, <2>1, <3>1, <3>2 DEF CompileStarts, ShadersInv, ModulesMatchTheirKeys
  <2> QED BY <2>2, <2>3
<1>7. CASE NotTranslated
  BY <1>0, <1>1, <1>7 DEF NotTranslated, ShadersInv, ModulesMatchTheirKeys
<1>8. CASE ConverterLoads
  <2>1. validation' \in Validations /\ (validation'.at = "convert" => validation' = validation)
    BY <1>0, <1>8 DEF ConverterLoads, Validations
  <2> QED BY <1>0, <1>8, <2>1 DEF ConverterLoads, ShadersInv, ModulesMatchTheirKeys
<1>9. CASE CompileEnds
  <2> DEFINE made == [device |-> validation.device, type |-> validation.type,
                      key |-> validation.key, source |-> validation.bytes]
  <2>1. moduleCache' \in {moduleCache, moduleCache \cup {made}} /\ validation.at = "convert"
    BY <1>9 DEF CompileEnds, Copied
  <2>2. made \in Modules /\ made.source = made.key
    BY <1>0, <2>1 DEF Modules, Validations
  <2> HIDE DEF made
  <2> QED BY <1>0, <1>1, <1>9, <2>1, <2>2 DEF CompileEnds, ShadersInv, ModulesMatchTheirKeys
<1>10. UNCHANGED targetVars
  BY DEF ShaderSteps, CaptureShader, InspectShaders, RequestDevice, NoDevice, CompileStarts,
         NotTranslated, ConverterLoads, CompileEnds
<1> QED BY <1>2, <1>3, <1>4, <1>5, <1>6, <1>7, <1>8, <1>9, <1>10 DEF ShaderSteps

LEMMA TargetsKeep ==
    ASSUME TargetsInv, PipelineInv, TargetSteps
    PROVE  TargetsInv' /\ PipelineInv' /\ UNCHANGED shaderVars
<1>1. ASSUME NEW r \in Resolvers, ResolveStarts(r) PROVE TargetsInv' /\ PipelineInv' /\ UNCHANGED shaderVars
  BY <1>1 DEF ResolveStarts, TargetsInv, CacheHolds, PipelineInv, ResolvesWaitForLiveCompiles
<1>2. CASE PipelineCompiled
  BY <1>2 DEF PipelineCompiled, AfterFailure, TargetsInv, CacheHolds, PipelineInv,
              ResolvesWaitForLiveCompiles
<1>3. ASSUME NEW r \in Resolvers, NEW k \in ResolveKeys, NEW size \in TargetSizes, ResolveRuns(r, k, size)
      PROVE  TargetsInv' /\ PipelineInv' /\ UNCHANGED shaderVars
  <2>1. TargetsInv'
    BY <1>3, ResolveKeepsTargets DEF ResolveRuns
  <2>2. PipelineInv' /\ UNCHANGED shaderVars
    BY <1>3 DEF ResolveRuns, PipelineInv, ResolvesWaitForLiveCompiles
  <2> QED BY <2>1, <2>2
<1> QED BY <1>1, <1>2, <1>3 DEF TargetSteps

\* CachesAreTrue, of GpuFoundation: a module is made from the shader its key names
\* though the core's one buffer is overwritten meanwhile, eviction never destroys
\* the target just handed out, and no resolve waits for a compilation that failed
\* (compileCapturedXenosShaderForWebGPU, XenosRenderTargetCache, AsyncPipelineCache).
THEOREM CachesAreTrueHolds == FoundationSpec => []CachesAreTrue
<1>1. FoundationInit => FoundationInv
  <2> SUFFICES ASSUME FoundationInit PROVE FoundationInv
    OBVIOUS
  <2>1. ShadersInv
    BY DEF FoundationInit, ShadersInv, ModulesMatchTheirKeys, KnownShaders, Validations, NoValidation
  <2>2. TargetsInv
    <3>1. <<>> \in Seq(Entries) /\ Len(<<>>) = 0
      OBVIOUS
    <3> QED BY <3>1, FoundationAssumption DEF FoundationInit, TargetsInv, CacheHolds
  <2>3. PipelineInv
    BY DEF FoundationInit, PipelineInv, ResolvesWaitForLiveCompiles
  <2> QED BY <2>1, <2>2, <2>3 DEF FoundationInv
<1>2. FoundationInv /\ [FoundationNext]_foundationVars => FoundationInv'
  <2> SUFFICES ASSUME FoundationInv, [FoundationNext]_foundationVars PROVE FoundationInv'
    OBVIOUS
  <2>1. UNCHANGED shaderVars => ShadersInv'
    BY DEF FoundationInv, ShadersInv, ModulesMatchTheirKeys, shaderVars
  <2>2. UNCHANGED targetVars => TargetsInv' /\ PipelineInv'
    BY DEF FoundationInv, TargetsInv, CacheHolds, PipelineInv, ResolvesWaitForLiveCompiles, targetVars
  <2> QED BY <2>1, <2>2, ShadersKeep, TargetsKeep DEF FoundationInv, FoundationNext, foundationVars
<1>3. FoundationInv => CachesAreTrue
  <2> SUFFICES ASSUME FoundationInv PROVE ResolvedTargetLives
    BY DEF FoundationInv, ShadersInv, PipelineInv, CachesAreTrue
  <2>1. DOMAIN targets = 1 .. Len(targets)
    BY LenProperties DEF FoundationInv, TargetsInv, CacheHolds
  <2> QED BY <2>1 DEF FoundationInv, TargetsInv, CacheHolds, ResolvedTargetLives, TexturesOf
<1> QED BY <1>1, <1>2, <1>3, PTL DEF FoundationSpec

-----------------------------------------------------------------------------
(* What the player sees (FrameOutput)                                       *)

Pictures == [shown : BOOLEAN, picture : Nat]
Outputs == [requested : BOOLEAN, path : {"none", "pending", "ready", "lost", "failed"},
            recording : BOOLEAN, words : 0 .. MaxWords, frames : Nat, lastFrames : Nat,
            drawn : Nat, generation : Nat, at : {"slice", "presenter"}, lastSwaps : Nat,
            presenter : BOOLEAN, presented : Nat, captured : BOOLEAN,
            soft : Pictures, gpu : Pictures]

\* Only a core with a play path records; one that does not draws every frame.
RecordingInv(o) ==
    /\ o.path \in {"none", "pending", "failed"} => ~o.recording
    /\ ~o.recording => o.words = 0 /\ o.drawn = o.frames
    /\ o.path = "ready" => o.words <= MaxPending

\* The presenter is awaited for a snapshot that has not been presented.
PresenterInv(o) ==
    /\ o.presented <= o.generation
    /\ o.at = "presenter" => /\ o.presented < o.generation
                             /\ o.path \in {"none", "failed"} /\ o.frames > 0

ShownInv(o) ==
    /\ o.lastFrames = o.frames
    /\ o.at = "slice" /\ o.captured /\ o.frames > 0 /\ ~o.recording => Visible(o) = o.frames

OutputGood(o) == o \in Outputs /\ RecordingInv(o) /\ PresenterInv(o) /\ ShownInv(o)
OutputInv == OutputGood(output)

\* The facts about the numbers of a state that the steps below need.
LEMMA OutputNumbers ==
    ASSUME NEW o \in Outputs
    PROVE  /\ o.words \in Nat /\ o.frames \in Nat /\ o.lastFrames \in Nat /\ o.drawn \in Nat
           /\ o.generation \in Nat /\ o.presented \in Nat
           /\ o.recording \in BOOLEAN /\ o.captured \in BOOLEAN
           /\ o.gpu.shown \in BOOLEAN /\ o.gpu.picture \in Nat
           /\ o.soft.shown \in BOOLEAN /\ o.soft.picture \in Nat
  BY OutputAssumption DEF Outputs, Pictures

\* Two states that differ in nothing the invariant speaks of but the path.
LEMMA PathKeepsOutput ==
    ASSUME OutputInv, RequestPath \/ PathCreated \/ PathLost
    PROVE  OutputInv'
<1> USE DEF OutputInv, OutputGood
<1>1. /\ output' \in Outputs
      /\ output'.words = output.words /\ output'.frames = output.frames
      /\ output'.lastFrames = output.lastFrames /\ output'.drawn = output.drawn
      /\ output'.generation = output.generation /\ output'.presented = output.presented
      /\ output'.at = output.at /\ output'.captured = output.captured
      /\ output'.gpu = output.gpu /\ output'.soft = output.soft
  BY ZenonT(60) DEF RequestPath, PathCreated, PathLost, Outputs
<1>2. \/ /\ output.path \in {"none", "pending"} /\ output'.path \in {"pending", "failed"}
         /\ output'.recording = output.recording /\ (output.path = "none" => output.frames = 0)
      \/ output.path = "pending" /\ output'.path = "ready" /\ output'.recording
      \/ /\ output.path = "ready" /\ output'.path = "lost"
         /\ output'.recording = output.recording
  BY DEF RequestPath, PathCreated, PathLost, Outputs
<1>3. RecordingInv(output)'
  BY <1>1, <1>2, OutputNumbers, OutputAssumption DEF RecordingInv
<1>4. PresenterInv(output)'
  BY <1>1, <1>2, OutputNumbers DEF PresenterInv
<1>5. ShownInv(output)'
  BY <1>1, <1>2 DEF ShownInv, RecordingInv, Visible
<1> QED BY <1>1, <1>3, <1>4, <1>5

LEMMA HideKeepsOutput ==
    ASSUME OutputInv, HideFrames
    PROVE  OutputInv'
<1> USE DEF OutputInv, OutputGood
<1>1. /\ output' \in Outputs
      /\ output'.words = output.words /\ output'.frames = output.frames
      /\ output'.lastFrames = output.lastFrames /\ output'.drawn = output.drawn
      /\ output'.generation = output.generation /\ output'.presented = 0
      /\ output'.at = "slice" /\ ~output'.captured
      /\ output'.path = output.path /\ output'.recording = output.recording
  BY DEF HideFrames, Outputs, Pictures
<1> QED BY <1>1, OutputNumbers DEF RecordingInv, PresenterInv, ShownInv

LEMMA SliceKeepsOutput ==
    ASSUME OutputInv, GuestSlice
    PROVE  OutputInv'
<1> USE DEF OutputInv, OutputGood
<1>1. PICK n \in 0 .. 1, w \in 0 .. SliceWords, ok \in BOOLEAN :
        LET o == Replayed(AfterGuest(output, n, w))
        IN  output' = IF o.frames # o.lastFrames
                      THEN [OnFrame(o, ok) EXCEPT !.lastFrames = o.frames]
                      ELSE o
  BY DEF GuestSlice
<1>2. output.at = "slice"
  BY DEF GuestSlice
<1> DEFINE g == AfterGuest(output, n, w)
           o == Replayed(g)
<1>3. g \in Outputs
  <2>1. output.frames + n \in Nat
    BY OutputNumbers
  <2>2. (IF ~output.recording THEN output.words
         ELSE IF output.words + w > MaxWords THEN MaxWords ELSE output.words + w) \in 0 .. MaxWords
    BY OutputAssumption DEF Outputs
  <2>3. (IF output.recording THEN output.drawn ELSE output.frames + n) \in Nat
    BY OutputNumbers
  <2> QED BY <2>1, <2>2, <2>3 DEF AfterGuest, Outputs
<1>4. /\ g.frames = output.frames + n /\ g.lastFrames = output.lastFrames
      /\ g.path = output.path /\ g.recording = output.recording /\ g.at = output.at
      /\ g.soft = output.soft /\ g.gpu = output.gpu /\ g.generation = output.generation
      /\ g.presented = output.presented /\ g.captured = output.captured
      /\ g.drawn = IF output.recording THEN output.drawn ELSE output.frames + n
      /\ ~output.recording => g.words = output.words
  BY DEF AfterGuest, Outputs
<1> HIDE DEF g
<1>5. o \in Outputs
  BY <1>3, OutputAssumption DEF Replayed, Outputs
<1>6. /\ o.frames = g.frames /\ o.lastFrames = g.lastFrames
      /\ o.path = g.path /\ o.recording = g.recording /\ o.at = g.at
      /\ o.soft = g.soft /\ o.gpu = g.gpu /\ o.generation = g.generation
      /\ o.presented = g.presented /\ o.captured = g.captured /\ o.drawn = g.drawn
      /\ o.path = "ready" /\ g.words > MaxPending => o.words = 0
      /\ ~(o.path = "ready" /\ g.words > MaxPending) => o.words = g.words
  BY <1>3 DEF Replayed, Outputs
<1>7. /\ o.frames = output.frames + n /\ o.lastFrames = output.frames
      /\ o.path = output.path /\ o.recording = output.recording /\ o.at = "slice"
      /\ o.soft = output.soft /\ o.gpu = output.gpu /\ o.generation = output.generation
      /\ o.presented = output.presented /\ o.captured = output.captured
      /\ RecordingInv(o)
  <2>1. o.path = "ready" => o.words <= MaxPending
    BY <1>3, <1>5, <1>6, OutputNumbers, OutputAssumption
  <2>2. ~o.recording => o.words = 0 /\ o.drawn = o.frames
    BY <1>3, <1>4, <1>5, <1>6, OutputNumbers DEF RecordingInv
  <2> QED BY <1>2, <1>4, <1>6, <2>1, <2>2 DEF RecordingInv, ShownInv
<1>8. output' = IF o.frames # o.lastFrames
                THEN [OnFrame(o, ok) EXCEPT !.lastFrames = o.frames]
                ELSE o
  BY <1>1 DEF g
<1>9. o.frames \in Nat /\ n \in 0 .. 1 /\ output.frames \in Nat
  BY <1>5, OutputNumbers
<1> HIDE DEF o
<1>10. CASE o.frames = o.lastFrames
  <2>1. output' = o
    BY <1>8, <1>10
  <2>2. o.frames = output.frames
    BY <1>7, <1>10
  <2> QED BY <1>2, <1>5, <1>7, <2>1, <2>2 DEF PresenterInv, ShownInv, Visible
<1>11. CASE o.frames # o.lastFrames /\ o.path = "ready"
  <2>1. output' = [PathFrame([o EXCEPT !.captured = TRUE]) EXCEPT !.lastFrames = o.frames]
    BY <1>8, <1>11 DEF OnFrame
  <2> DEFINE c == [o EXCEPT !.captured = TRUE]
  <2>a. /\ c \in Outputs /\ c.path = o.path /\ c.recording = o.recording /\ c.at = o.at
        /\ c.drawn = o.drawn /\ c.frames = o.frames /\ c.generation = o.generation
        /\ c.presented = o.presented
    BY <1>5 DEF Outputs
  <2>b. output' = [[c EXCEPT !.words = 0, !.gpu = [shown |-> TRUE, picture |-> c.frames]]
                     EXCEPT !.lastFrames = o.frames]
    BY <2>1 DEF PathFrame
  <2>c. 0 \in 0 .. MaxWords /\ [shown |-> TRUE, picture |-> c.frames] \in Pictures
    BY <1>9, <2>a, OutputAssumption DEF Pictures
  <2> HIDE DEF c
  <2>2. /\ output' \in Outputs /\ output'.path = "ready" /\ output'.recording = o.recording
        /\ output'.words = 0 /\ output'.at = "slice" /\ output'.drawn = o.drawn
        /\ output'.lastFrames = o.frames /\ output'.frames = o.frames
        /\ output'.generation = o.generation /\ output'.presented = o.presented
        /\ output'.gpu = [shown |-> TRUE, picture |-> o.frames]
    BY <1>7, <1>9, <1>11, <2>a, <2>b, <2>c DEF Outputs
  <2>3. Visible(output)' = o.frames
    BY <2>2 DEF Visible
  <2> QED BY <1>7, <2>2, <2>3, OutputAssumption DEF RecordingInv, PresenterInv, ShownInv
<1>12. CASE o.frames # o.lastFrames /\ o.path # "ready" /\ ok
  <2> DEFINE s == Snapshot(o, ok)
  <2>1. s \in Outputs
    <3>1. o.generation + 1 \in Nat
      BY <1>5, OutputNumbers
    <3>2. s = [o EXCEPT !.generation = o.generation + 1, !.captured = TRUE]
      BY <1>12 DEF Snapshot
    <3> QED BY <1>5, <3>1, <3>2 DEF Outputs
  <2>2. /\ s.frames = o.frames /\ s.path = o.path /\ s.recording = o.recording /\ s.at = o.at
        /\ s.generation = o.generation + 1 /\ s.presented = o.presented
        /\ s.drawn = o.drawn /\ s.words = o.words
    BY <1>5, <1>12 DEF Snapshot, Outputs
  <2>3. output' = [OnSoft(s) EXCEPT !.lastFrames = o.frames]
    BY <1>8, <1>12 DEF OnFrame
  <2> HIDE DEF s
  <2>4. /\ output' \in Outputs /\ output'.path = s.path /\ output'.recording = s.recording
        /\ output'.words = s.words /\ output'.at = s.at /\ output'.drawn = s.drawn
        /\ output'.lastFrames = o.frames /\ output'.frames = s.frames
        /\ output'.generation = s.generation /\ output'.presented = s.presented
        /\ ~output'.gpu.shown /\ output'.soft = [shown |-> TRUE, picture |-> s.drawn]
    BY <1>5, <2>1, <2>3 DEF OnSoft, Outputs, Pictures
  <2>5. Visible(output)' = o.drawn
    BY <2>2, <2>4 DEF Visible
  <2>6. o.presented <= o.generation /\ o.generation \in Nat /\ o.presented \in Nat
    BY <1>5, <1>7, OutputNumbers DEF PresenterInv
  <2> QED BY <1>7, <2>2, <2>4, <2>5, <2>6 DEF RecordingInv, PresenterInv, ShownInv
<1>13. CASE o.frames # o.lastFrames /\ o.path # "ready" /\ ~ok
  <2>1. output' = [Snapshot(o, ok) EXCEPT !.lastFrames = o.frames]
    BY <1>8, <1>13 DEF OnFrame
  <2>2. /\ output' \in Outputs /\ output'.path = o.path /\ output'.recording = o.recording
        /\ output'.words = o.words /\ output'.at = o.at /\ output'.drawn = o.drawn
        /\ output'.lastFrames = o.frames /\ output'.frames = o.frames
        /\ output'.generation = o.generation /\ output'.presented = o.presented
        /\ ~output'.captured
    BY <1>5, <1>13, <2>1 DEF Snapshot, Outputs
  <2> QED BY <1>7, <2>2 DEF RecordingInv, PresenterInv, ShownInv
<1> QED BY <1>10, <1>11, <1>12, <1>13

\* The end of inspectRuntime keeps what holds of the state it ends in, if that
\* shows the newest frame.
LEMMA InspectEndsKeeps ==
    ASSUME NEW o \in Outputs, RecordingInv(o), o.presented <= o.generation, o.lastFrames = o.frames,
           o.captured /\ o.frames > 0 /\ ~o.recording => Visible(o) = o.frames
    PROVE  OutputGood(InspectEnds(o))
<1> DEFINE e == InspectEnds(o)
<1>1. /\ e \in Outputs /\ e.path = o.path /\ e.recording = o.recording /\ e.words = o.words
      /\ e.at = "slice" /\ e.drawn = o.drawn /\ e.lastFrames = o.lastFrames /\ e.frames = o.frames
      /\ e.generation = o.generation /\ e.presented = o.presented /\ e.captured = o.captured
      /\ e.gpu = o.gpu /\ e.soft = o.soft
  BY DEF InspectEnds, Outputs
<1> HIDE DEF e
<1>2. OutputGood(e)
  BY <1>1 DEF OutputGood, RecordingInv, PresenterInv, ShownInv, Visible
<1> QED BY <1>2 DEF e

\* What a canvas shows after one of the two was given the picture.
LEMMA SoftShows ==
    ASSUME NEW o \in Outputs, RecordingInv(o), o.presented < o.generation, o.lastFrames = o.frames,
           ~o.recording
    PROVE  OutputGood(InspectEnds(SoftFallback(o)))
<1> DEFINE s == SoftFallback(o)
<1>0. o.presented # o.generation
  BY OutputNumbers
<1>1. s = [OnSoft(o) EXCEPT !.presented = o.generation]
  BY <1>0 DEF SoftFallback
<1> DEFINE q == OnSoft(o)
<1>a. [shown |-> TRUE, picture |-> o.drawn] \in Pictures
  BY OutputNumbers DEF Pictures
<1>b. [o EXCEPT !.soft = [shown |-> TRUE, picture |-> o.drawn]] \in Outputs
  BY <1>a DEF Outputs
<1>c. /\ q \in Outputs /\ q.path = o.path /\ q.recording = o.recording /\ q.words = o.words
      /\ q.drawn = o.drawn /\ q.lastFrames = o.lastFrames /\ q.frames = o.frames
      /\ q.generation = o.generation
      /\ ~q.gpu.shown /\ q.soft = [shown |-> TRUE, picture |-> o.drawn]
  BY <1>a, <1>b DEF OnSoft, Outputs, Pictures
<1>d. s = [q EXCEPT !.presented = o.generation] /\ o.generation \in Nat
  BY <1>1, OutputNumbers
<1> HIDE DEF s, q
<1>2. /\ s \in Outputs /\ s.path = o.path /\ s.recording = o.recording /\ s.words = o.words
      /\ s.drawn = o.drawn /\ s.lastFrames = o.lastFrames /\ s.frames = o.frames
      /\ s.generation = o.generation /\ s.presented = o.generation
      /\ ~s.gpu.shown /\ s.soft = [shown |-> TRUE, picture |-> o.drawn]
  BY <1>c, <1>d DEF Outputs
<1>3. Visible(s) = s.frames /\ RecordingInv(s) /\ s.presented <= s.generation
  BY <1>2, OutputNumbers DEF Visible, RecordingInv
<1>4. OutputGood(InspectEnds(s))
  BY <1>2, <1>3, InspectEndsKeeps
<1> QED BY <1>4 DEF s

LEMMA GpuShows ==
    ASSUME NEW o \in Outputs, RecordingInv(o), o.lastFrames = o.frames, ~o.recording
    PROVE  OutputGood(InspectEnds(OnGpu(o)))
<1> DEFINE s == OnGpu(o)
<1>1. /\ s \in Outputs /\ s.path = o.path /\ s.recording = o.recording /\ s.words = o.words
      /\ s.drawn = o.drawn /\ s.lastFrames = o.lastFrames /\ s.frames = o.frames
      /\ s.generation = o.generation /\ s.presented = o.generation
      /\ s.gpu = [shown |-> TRUE, picture |-> o.drawn]
  BY DEF OnGpu, Outputs, Pictures
<1> HIDE DEF s
<1>2. Visible(s) = s.frames /\ RecordingInv(s) /\ s.presented <= s.generation
  BY <1>1, OutputNumbers DEF Visible, RecordingInv
<1>3. OutputGood(InspectEnds(s))
  BY <1>1, <1>2, InspectEndsKeeps
<1> QED BY <1>3 DEF s

LEMMA InspectKeepsOutput ==
    ASSUME OutputInv, Inspect
    PROVE  OutputInv'
<1> USE DEF OutputInv
<1>1. output \in Outputs /\ RecordingInv(output) /\ PresenterInv(output) /\ ShownInv(output)
  BY DEF OutputGood
<1>2. output.path \in {"none", "failed"} /\ ~output.recording /\ output.at = "slice"
  BY <1>1 DEF Inspect, RecordingInv
<1>3. CASE output' = InspectEnds(output)
  <2>1. OutputGood(InspectEnds(output))
    BY <1>1, <1>2, InspectEndsKeeps DEF PresenterInv, ShownInv
  <2> QED BY <1>3, <2>1
<1>4. ASSUME NEW ok \in BOOLEAN, NEW webgl2 \in BOOLEAN, output.frames # 0,
             LET o == Snapshot(output, ok)
             IN  output' = IF ~ok THEN InspectEnds(o)
                           ELSE IF webgl2 THEN InspectEnds(SoftFallback(o))
                           ELSE IF o.presenter THEN InspectEnds(OnGpu(o))
                           ELSE [o EXCEPT !.at = "presenter", !.gpu.shown = TRUE, !.soft.shown = FALSE]
      PROVE  OutputInv'
  <2> DEFINE o == Snapshot(output, ok)
  <2>1. o \in Outputs
    <3>1. (IF ok THEN output.generation + 1 ELSE output.generation) \in Nat
      BY <1>1, OutputNumbers
    <3>2. o = [output EXCEPT !.generation = IF ok THEN output.generation + 1
                                                  ELSE output.generation,
                             !.captured = ok]
      BY DEF Snapshot
    <3> QED BY <1>1, <3>1, <3>2 DEF Outputs
  <2>2. /\ o.frames = output.frames /\ o.lastFrames = output.frames
        /\ o.path = output.path /\ o.recording = output.recording /\ o.captured = ok
        /\ o.generation = IF ok THEN output.generation + 1 ELSE output.generation
        /\ o.presented = output.presented /\ o.drawn = output.drawn /\ o.words = output.words
    BY <1>1 DEF Snapshot, Outputs, ShownInv
  <2>3. output' = IF ~ok THEN InspectEnds(o)
                  ELSE IF webgl2 THEN InspectEnds(SoftFallback(o))
                  ELSE IF o.presenter THEN InspectEnds(OnGpu(o))
                  ELSE [o EXCEPT !.at = "presenter", !.gpu.shown = TRUE, !.soft.shown = FALSE]
    BY <1>4
  <2> HIDE DEF o
  <2>4. RecordingInv(o)
    BY <1>1, <2>2 DEF RecordingInv
  <2>5. o.presented <= o.generation /\ (ok => o.presented < o.generation)
    BY <1>1, <2>2, OutputNumbers DEF PresenterInv
  <2>6. CASE ~ok
    <3>1. output' = InspectEnds(o)
      BY <2>3, <2>6
    <3>2. OutputGood(InspectEnds(o))
      BY <2>1, <2>2, <2>4, <2>5, <2>6, InspectEndsKeeps
    <3> QED BY <3>1, <3>2
  <2>7. CASE ok /\ webgl2
    <3>1. output' = InspectEnds(SoftFallback(o))
      BY <2>3, <2>7
    <3>2. OutputGood(InspectEnds(SoftFallback(o)))
      BY <1>2, <2>1, <2>2, <2>4, <2>5, <2>7, SoftShows
    <3> QED BY <3>1, <3>2
  <2>8. CASE ok /\ ~webgl2 /\ o.presenter
    <3>1. output' = InspectEnds(OnGpu(o))
      BY <2>3, <2>8
    <3>2. OutputGood(InspectEnds(OnGpu(o)))
      BY <1>2, <2>1, <2>2, <2>4, GpuShows
    <3> QED BY <3>1, <3>2
  <2>9. CASE ok /\ ~webgl2 /\ ~o.presenter
    <3>1. output' = [o EXCEPT !.at = "presenter", !.gpu.shown = TRUE, !.soft.shown = FALSE]
      BY <2>3, <2>9
    <3>2. /\ output' \in Outputs /\ output'.path = o.path /\ output'.recording = o.recording
          /\ output'.words = o.words /\ output'.drawn = o.drawn /\ output'.at = "presenter"
          /\ output'.lastFrames = o.lastFrames /\ output'.frames = o.frames
          /\ output'.generation = o.generation /\ output'.presented = o.presented
      BY <2>1, <3>1 DEF Outputs, Pictures
    <3>3. RecordingInv(output)'
      BY <2>4, <3>2 DEF RecordingInv
    <3>4. PresenterInv(output)'
      <4>1. output.frames > 0
        BY <1>1, <1>4, OutputNumbers
      <4> QED BY <1>2, <2>2, <2>5, <2>9, <3>2, <4>1 DEF PresenterInv
    <3>5. ShownInv(output)'
      BY <2>2, <3>2 DEF ShownInv
    <3> QED BY <3>2, <3>3, <3>4, <3>5 DEF OutputGood
  <2> QED BY <2>6, <2>7, <2>8, <2>9
<1> QED BY <1>3, <1>4 DEF Inspect

LEMMA PresenterKeepsOutput ==
    ASSUME OutputInv, PresenterCreated
    PROVE  OutputInv'
<1> USE DEF OutputInv
<1>1. /\ output \in Outputs /\ RecordingInv(output) /\ PresenterInv(output)
      /\ output.lastFrames = output.frames
  BY DEF OutputGood, ShownInv
<1>2. output.at = "presenter" /\ ~output.recording /\ output.presented < output.generation
  BY <1>1 DEF PresenterCreated, PresenterInv, RecordingInv
<1>3. CASE output' = InspectEnds(OnGpu([output EXCEPT !.presenter = TRUE]))
  <2> DEFINE o == [output EXCEPT !.presenter = TRUE]
  <2>1. /\ o \in Outputs /\ o.path = output.path /\ o.recording = output.recording
        /\ o.words = output.words /\ o.drawn = output.drawn
        /\ o.lastFrames = output.lastFrames /\ o.frames = output.frames
    BY <1>1 DEF Outputs
  <2>2. output' = InspectEnds(OnGpu(o))
    BY <1>3
  <2> HIDE DEF o
  <2>3. RecordingInv(o)
    BY <1>1, <2>1 DEF RecordingInv
  <2>4. OutputGood(InspectEnds(OnGpu(o)))
    BY <1>1, <1>2, <2>1, <2>3, GpuShows
  <2> QED BY <2>2, <2>4
<1>4. CASE output' = InspectEnds(SoftFallback(output))
  <2>1. OutputGood(InspectEnds(SoftFallback(output)))
    BY <1>1, <1>2, SoftShows
  <2> QED BY <1>4, <2>1
<1> QED BY <1>3, <1>4 DEF PresenterCreated

\* OutputKeepsUp, of FrameOutput: the canvas on top shows the newest frame,
\* whichever path and presenter took it, and the recorded stream is replayed
\* before it outgrows its bound (guestRunOptions, inspectRuntime,
\* createXenosWebGpuPlayPath).
THEOREM OutputKeepsUpHolds == OutputSpec => []OutputKeepsUp
<1>1. OutputInit => OutputInv
  BY OutputAssumption DEF OutputInit, NothingShown, OutputInv, OutputGood, Outputs, Pictures, RecordingInv,
     PresenterInv, ShownInv, Visible
<1>2. OutputInv /\ [OutputNext]_output => OutputInv'
  <2> SUFFICES ASSUME OutputInv, [OutputNext]_output PROVE OutputInv'
    OBVIOUS
  <2>1. CASE UNCHANGED output
    BY <2>1 DEF OutputInv
  <2> QED BY <2>1, PathKeepsOutput, HideKeepsOutput, SliceKeepsOutput, InspectKeepsOutput, PresenterKeepsOutput
          DEF OutputNext
<1>3. OutputInv => OutputKeepsUp
  BY DEF OutputInv, OutputGood, RecordingInv, ShownInv, OutputKeepsUp, NewestIsVisible, Settled,
         StreamStaysBounded
<1> QED BY <1>1, <1>2, <1>3, PTL DEF OutputSpec

-----------------------------------------------------------------------------
(* Resolution and frame statistics (FramePacing)                             *)

Policies == [step : 1 .. Steps, ema : Rates, samples : 0 .. 3, recovery : 0 .. RecoverySamples,
             lastChange : Int]
Changes == [good : Nat, kind : {"none", "up", "down"}, gap : Int, after : Int]

\* The policy has not seen more good samples than there were.
PolicyInv ==
    /\ policy \in Policies /\ changes \in Changes /\ clock \in Nat
    /\ policy.recovery <= changes.good
    /\ ChangesAreSpaced

Statistics == [last : Int, total : Nat, frames : Seq(Int), real : Nat, counter : Nat, base : Nat]

\* Frames in the order they came, none of the future.
Sorted(frames) ==
    /\ \A i \in 1 .. Len(frames) : frames[i] <= clock
    /\ \A i, j \in 1 .. Len(frames) : i <= j => frames[i] <= frames[j]

StatsInv ==
    /\ stats \in Statistics
    /\ stats.total + Counted(stats) <= stats.real
    /\ Sorted(stats.frames)
    /\ FramesAreCounted

\* A sample changes the resolution only when it may, and raises it only after
\* enough good ones.
LEMMA ObservedIs ==
    ASSUME NEW p \in Policies, NEW rate \in Rates, NEW memory \in Memory, clock \in Nat
    PROVE  LET o == Observed(p, rate, memory)
               recovered == Fast(p, rate) /\ memory = "low"
           IN  /\ o \in Policies
               /\ o.step # p.step => MayChange(p) /\ o.recovery = 0
               /\ o.recovery <= IF recovered THEN p.recovery + 1 ELSE 0
               /\ o.step < p.step => recovered /\ p.recovery + 1 >= RecoverySamples
<1> DEFINE o == Observed(p, rate, memory)
           recovered == Fast(p, rate) /\ memory = "low"
           recovery == IF p.recovery < RecoverySamples THEN p.recovery + 1 ELSE RecoverySamples
           counted == [p EXCEPT !.recovery = recovery]
<1>0. /\ Steps \in Nat \ {0} /\ RecoverySamples \in Nat \ {0}
      /\ p.step \in 1 .. Steps /\ p.recovery \in 0 .. RecoverySamples /\ p.lastChange \in Int
      /\ recovery \in 0 .. RecoverySamples /\ recovery <= p.recovery + 1
      /\ recovery >= RecoverySamples => p.recovery + 1 >= RecoverySamples
  BY PacingAssumption DEF Policies
<1>1. ASSUME NEW q \in Policies, NEW s \in 1 .. Steps
      PROVE  /\ Changed(q, s) \in Policies /\ Changed(q, s).step = s /\ Changed(q, s).recovery = 0
             /\ Steady(q) \in Policies /\ Steady(q).step = q.step /\ Steady(q).recovery = 0
  <2>1. 0 \in 0 .. RecoverySamples /\ (IF s # q.step THEN clock ELSE q.lastChange) \in Int
    BY <1>0, <1>1 DEF Policies
  <2> QED BY <1>1, <2>1 DEF Changed, Steady, Policies
<1>2. /\ Lower(p, 1) \in 1 .. Steps /\ Lower(p, 1) >= p.step
      /\ Lower(p, 2) \in 1 .. Steps /\ Lower(p, 2) >= p.step
  BY <1>0 DEF Lower
<1>3. Raise(p) \in 1 .. Steps
  BY <1>0 DEF Raise
<1>4. /\ counted \in Policies /\ counted.step = p.step /\ counted.recovery = recovery
      /\ counted.lastChange = p.lastChange
  BY <1>0 DEF Policies
<1>5. CASE memory = "critical" /\ MayChange(p)
  <2>1. o = Changed(p, Lower(p, 2))
    BY <1>5 DEF Observed
  <2>2. o \in Policies /\ o.step = Lower(p, 2) /\ o.recovery = 0
    BY <1>1, <1>2, <2>1
  <2>3. o.step >= p.step /\ o.step \in Int /\ p.step \in Int /\ 0 <= p.recovery + 1
    BY <1>0, <1>2, <2>2
  <2> HIDE DEF o, recovered
  <2>4. ~(o.step < p.step)
    BY <2>3
  <2>5. o.recovery <= IF recovered THEN p.recovery + 1 ELSE 0
    BY <2>2, <2>3
  <2> QED BY <1>5, <2>2, <2>4, <2>5 DEF o, recovered
<1>6. CASE /\ ~(memory = "critical" /\ MayChange(p))
           /\ (memory # "low" \/ Slow(p, rate)) /\ MayChange(p)
  <2>1. o = Changed(p, Lower(p, 1))
    BY <1>6 DEF Observed
  <2>2. o \in Policies /\ o.step = Lower(p, 1) /\ o.recovery = 0
    BY <1>1, <1>2, <2>1
  <2>3. o.step >= p.step /\ o.step \in Int /\ p.step \in Int /\ 0 <= p.recovery + 1
    BY <1>0, <1>2, <2>2
  <2> HIDE DEF o, recovered
  <2>4. ~(o.step < p.step)
    BY <2>3
  <2>5. o.recovery <= IF recovered THEN p.recovery + 1 ELSE 0
    BY <2>2, <2>3
  <2> QED BY <1>6, <2>2, <2>4, <2>5 DEF o, recovered
<1>7. CASE /\ ~(memory = "critical" /\ MayChange(p))
           /\ ~((memory # "low" \/ Slow(p, rate)) /\ MayChange(p))
           /\ ~recovered
  <2>1. o = Steady(p)
    BY <1>7 DEF Observed
  <2> HIDE DEF o
  <2> QED BY <1>0, <1>1, <1>7, <2>1 DEF o
<1>8. CASE /\ ~(memory = "critical" /\ MayChange(p))
           /\ ~((memory # "low" \/ Slow(p, rate)) /\ MayChange(p))
           /\ recovered /\ recovery >= RecoverySamples /\ MayChange(p)
  <2>0. MayChange(counted) = MayChange(p)
    BY <1>4 DEF MayChange
  <2>1. Raise(counted) = Raise(p) /\ o = Changed(counted, Raise(counted))
    BY <1>4, <1>8, <2>0 DEF Observed, Raise
  <2> HIDE DEF o, counted, recovery
  <2> QED BY <1>0, <1>1, <1>3, <1>4, <1>8, <2>1 DEF o
<1>9. CASE /\ ~(memory = "critical" /\ MayChange(p))
           /\ ~((memory # "low" \/ Slow(p, rate)) /\ MayChange(p))
           /\ recovered /\ ~(recovery >= RecoverySamples /\ MayChange(p))
  <2>0. MayChange(counted) = MayChange(p)
    BY <1>4 DEF MayChange
  <2>1. o = counted
    BY <1>4, <1>9, <2>0 DEF Observed
  <2> HIDE DEF o, counted, recovery
  <2> QED BY <1>0, <1>4, <1>9, <2>1 DEF o
<1> QED BY <1>5, <1>6, <1>7, <1>8, <1>9

LEMMA ObserveKeeps ==
    ASSUME PolicyInv, NEW rate \in Rates, NEW memory \in Memory, NEW ema \in Rates,
           Observe(rate, ema, memory)
    PROVE  PolicyInv'
<1> DEFINE sampled == [policy EXCEPT !.ema = ema,
                                     !.samples = IF policy.samples < 3 THEN policy.samples + 1 ELSE 3]
           p == Observed(sampled, rate, memory)
           recovered == Fast(sampled, rate) /\ memory = "low"
           good == IF recovered THEN changes.good + 1 ELSE 0
           capped == IF good < RecoverySamples THEN good ELSE RecoverySamples
           gap == IF clock - policy.lastChange > Cooldown THEN Cooldown ELSE clock - policy.lastChange
           kind == IF p.step < policy.step THEN "up" ELSE "down"
<1>0. /\ RecoverySamples \in Nat \ {0} /\ Cooldown \in Nat \ {0}
      /\ policy \in Policies /\ changes \in Changes /\ clock \in Nat
      /\ policy.recovery <= changes.good /\ policy.recovery \in Nat /\ changes.good \in Nat
      /\ policy.lastChange \in Int /\ policy.step \in Int
  BY PacingAssumption DEF PolicyInv, Policies, Changes
<1>1. /\ sampled \in Policies /\ sampled.step = policy.step
      /\ sampled.recovery = policy.recovery /\ sampled.lastChange = policy.lastChange
  <2>1. (IF policy.samples < 3 THEN policy.samples + 1 ELSE 3) \in 0 .. 3
    BY <1>0 DEF Policies
  <2> QED BY <1>0, <2>1 DEF Policies
<1>2. /\ policy' = p /\ clock' = clock
      /\ changes' = IF p.step = policy.step THEN [changes EXCEPT !.good = capped]
                    ELSE [good |-> 0, kind |-> kind, gap |-> gap, after |-> capped]
  BY DEF Observe
<1> HIDE DEF sampled
<1>3. /\ p \in Policies
      /\ p.step # policy.step => MayChange(sampled) /\ p.recovery = 0
      /\ p.recovery <= IF recovered THEN policy.recovery + 1 ELSE 0
      /\ p.step < policy.step => recovered /\ policy.recovery + 1 >= RecoverySamples
  BY <1>0, <1>1, ObservedIs
<1> HIDE DEF p, recovered
<1>4. p.recovery \in 0 .. RecoverySamples /\ p.step \in Int
  BY <1>3 DEF Policies
<1>5. good \in Nat /\ capped \in Nat /\ p.recovery <= capped
  BY <1>0, <1>3, <1>4
<1>6. CASE p.step = policy.step
  <2>1. changes' = [changes EXCEPT !.good = capped]
    BY <1>2, <1>6
  <2> HIDE DEF capped
  <2>2. changes' \in Changes /\ changes'.good = capped /\ changes'.gap = changes.gap
        /\ changes'.kind = changes.kind /\ changes'.after = changes.after
    BY <1>0, <1>5, <2>1 DEF Changes
  <2> QED BY <1>0, <1>2, <1>3, <1>5, <2>2 DEF PolicyInv, ChangesAreSpaced
<1>7. CASE p.step # policy.step
  <2>1. gap \in Int /\ gap >= Cooldown
    BY <1>0, <1>1, <1>3, <1>7 DEF MayChange
  <2>2. p.step < policy.step => capped >= RecoverySamples
    BY <1>0, <1>3, <1>5
  <2> HIDE DEF capped, gap
  <2>3. changes' = [good |-> 0, kind |-> kind, gap |-> gap, after |-> capped]
    BY <1>2, <1>7
  <2>4. changes' \in Changes
    BY <1>5, <2>1, <2>3 DEF Changes
  <2>5. changes'.gap >= Cooldown /\ (changes'.kind = "up" => changes'.after >= RecoverySamples)
    BY <2>1, <2>2, <2>3
  <2>6. policy'.recovery <= changes'.good
    BY <1>2, <1>3, <1>7, <2>3
  <2> QED BY <1>0, <1>2, <1>3, <2>4, <2>5, <2>6 DEF PolicyInv, ChangesAreSpaced
<1> QED BY <1>6, <1>7

LEMMA SetScaleKeeps ==
    ASSUME PolicyInv, NEW step \in 1 .. Steps, SetScale(step)
    PROVE  PolicyInv'
<1>0. RecoverySamples \in Nat /\ policy \in Policies /\ changes \in Changes /\ clock \in Nat
  BY PacingAssumption DEF PolicyInv
<1>1. policy' \in Policies /\ policy'.recovery = 0
  <2>1. 0 \in 0 .. RecoverySamples
    BY <1>0
  <2> QED BY <1>0, <2>1 DEF SetScale, Policies
<1>2. changes' \in Changes /\ changes'.good = 0 /\ changes'.gap = changes.gap
      /\ changes'.kind = changes.kind /\ changes'.after = changes.after
  BY <1>0 DEF SetScale, Changes
<1> QED BY <1>0, <1>1, <1>2 DEF PolicyInv, ChangesAreSpaced, SetScale

\* What trimming leaves is the end of the sequence, from the window.
LEMMA TrimmedIs ==
    ASSUME NEW frames \in Seq(Int), NEW t \in Nat
    PROVE  LET f == Trimmed(frames, t)
           IN  /\ f \in Seq(Int)
               /\ Len(f) > 0 => f[1] >= t - Window
               /\ \E d \in Nat : /\ Len(f) + d <= Len(frames) \/ Len(f) = 0
                                 /\ \A i \in 1 .. Len(f) : i + d \in 1 .. Len(frames) /\ f[i] = frames[i + d]
<1> DEFINE young == {i \in DOMAIN frames : frames[i] >= t - Window}
           leading == CHOOSE i \in young : \A j \in young : i <= j
<1>0. DOMAIN frames = 1 .. Len(frames) /\ Len(frames) \in Nat /\ \A i \in 1 .. Len(frames) : frames[i] \in Int
  BY LenProperties, ElementOfSeq
<1>1. CASE young = {}
  <2>1. Trimmed(frames, t) = <<>>
    BY <1>1 DEF Trimmed
  <2>2. <<>> \in Seq(Int) /\ Len(<<>>) = 0 /\ 0 \in Nat
    OBVIOUS
  <2> QED BY <2>1, <2>2
<1>2. CASE young # {}
  <2>1. young \in SUBSET Nat
    BY <1>0
  <2>2. \E x \in young : \A y \in young : x <= y
    BY <1>2, <2>1, LeastExists
  <2>3. leading \in young
    BY <2>2
  <2>4. Trimmed(frames, t) = SubSeq(frames, leading, Len(frames))
    BY <1>2 DEF Trimmed
  <2>5. leading \in 1 .. Len(frames) /\ frames[leading] >= t - Window
    BY <1>0, <2>3
  <2> HIDE DEF leading
  <2> DEFINE f == Trimmed(frames, t)
             d == leading - 1
  <2>6. leading \in Int /\ Len(frames) \in Int /\ \A i \in leading .. Len(frames) : frames[i] \in Int
    BY <1>0, <2>5
  <2>7. /\ f \in Seq(Int)
        /\ Len(f) = IF leading <= Len(frames) THEN Len(frames) - leading + 1 ELSE 0
        /\ \A i \in 1 .. Len(frames) - leading + 1 : f[i] = frames[leading + i - 1]
    BY <2>4, <2>6, SubSeqProperties
  <2>8. /\ Len(f) = Len(frames) - d /\ d \in Nat /\ Len(f) > 0
        /\ \A i \in 1 .. Len(f) : i + d \in 1 .. Len(frames) /\ f[i] = frames[i + d]
    BY <1>0, <2>5, <2>7
  <2>9. f[1] >= t - Window
    <3>1. 1 \in 1 .. Len(frames) - leading + 1 /\ leading + 1 - 1 = leading
      BY <1>0, <2>5
    <3> QED BY <2>5, <2>7, <3>1
  <2>10. Len(f) + d <= Len(frames)
    BY <1>0, <2>8
  <2> HIDE DEF f, d
  <2> QED BY <2>7, <2>8, <2>9, <2>10 DEF f
<1> QED BY <1>1, <1>2

LEMMA CountedIs ==
    ASSUME NEW s \in Statistics
    PROVE  Counted(s) \in Nat /\ Counted(s) = IF s.last >= 0 /\ s.counter > s.last
                                             THEN s.counter - s.last ELSE 0
  BY DEF Counted, Statistics

LEMMA SubmittedKeeps ==
    ASSUME StatsInv, clock \in Nat, Submitted
    PROVE  StatsInv'
<1> DEFINE n == Counted(stats)
           more == [i \in 1 .. n |-> clock]
           all == stats.frames \o more
           frames == Trimmed(all, clock)
<1>0. /\ stats \in Statistics /\ stats.total \in Nat /\ stats.real \in Nat /\ stats.counter \in Nat
      /\ stats.frames \in Seq(Int) /\ stats.total + n <= stats.real /\ Sorted(stats.frames)
      /\ Window \in Nat
  BY PacingAssumption DEF StatsInv, Statistics
<1>1. n \in Nat
  BY <1>0, CountedIs
<1>2. stats' = [stats EXCEPT !.last = stats.counter, !.total = stats.total + n, !.frames = frames]
      /\ clock' = clock
  BY DEF Submitted
<1> HIDE DEF n
<1>3. more \in Seq(Int) /\ Len(more) = n /\ \A i \in 1 .. n : more[i] = clock
  <2>1. more \in [1 .. n -> Int]
    OBVIOUS
  <2> QED BY <1>1, <2>1, FunctionIsSeq
<1> HIDE DEF more
<1>4. /\ all \in Seq(Int) /\ Len(all) = Len(stats.frames) + n
      /\ \A i \in 1 .. Len(stats.frames) + n :
            all[i] = IF i <= Len(stats.frames) THEN stats.frames[i] ELSE more[i - Len(stats.frames)]
  BY <1>0, <1>3, ConcatProperties
<1>5. Len(stats.frames) \in Nat /\ \A i \in 1 .. Len(stats.frames) : stats.frames[i] \in Int
  BY <1>0, LenProperties, ElementOfSeq
<1>6. \A i \in 1 .. Len(all) : \/ /\ i > Len(stats.frames) /\ all[i] = clock
                               \/ /\ i \in 1 .. Len(stats.frames) /\ all[i] = stats.frames[i]
  <2> SUFFICES ASSUME NEW i \in 1 .. Len(all)
               PROVE  \/ /\ i > Len(stats.frames) /\ all[i] = clock
                      \/ /\ i \in 1 .. Len(stats.frames) /\ all[i] = stats.frames[i]
    OBVIOUS
  <2> HIDE DEF all
  <2>1. CASE i <= Len(stats.frames)
    BY <1>1, <1>4, <1>5, <2>1
  <2>2. CASE i > Len(stats.frames)
    <3>1. i - Len(stats.frames) \in 1 .. n
      BY <1>1, <1>4, <1>5, <2>2
    <3>2. all[i] = more[i - Len(stats.frames)]
      BY <1>1, <1>4, <1>5, <2>2
    <3>3. more[i - Len(stats.frames)] = clock
      BY <1>3, <3>1
    <3> QED BY <2>2, <3>2, <3>3
  <2> QED BY <1>5, <1>4, <1>1, <2>1, <2>2
<1> HIDE DEF all
<1>7. Sorted(all)
  <2>1. \A i \in 1 .. Len(all) : all[i] <= clock
    BY <1>0, <1>6 DEF Sorted
  <2>2. ASSUME NEW i \in 1 .. Len(all), NEW j \in 1 .. Len(all), i <= j
        PROVE  all[i] <= all[j]
    <3>1. CASE all[j] = clock
      BY <2>1, <3>1
    <3>2. CASE j \in 1 .. Len(stats.frames) /\ all[j] = stats.frames[j]
      <4>1. i \in 1 .. Len(stats.frames) /\ all[i] = stats.frames[i]
        BY <1>5, <1>6, <2>2, <3>2
      <4> QED BY <1>0, <2>2, <3>2, <4>1 DEF Sorted
    <3> QED BY <1>6, <3>1, <3>2
  <2> QED BY <2>1, <2>2 DEF Sorted
<1>8. /\ frames \in Seq(Int)
      /\ Len(frames) > 0 => frames[1] >= clock - Window
      /\ \E d \in Nat : /\ Len(frames) + d <= Len(all) \/ Len(frames) = 0
                        /\ \A i \in 1 .. Len(frames) : i + d \in 1 .. Len(all) /\ frames[i] = all[i + d]
  BY <1>4, TrimmedIs
<1> HIDE DEF frames
<1>9. PICK d \in Nat : \A i \in 1 .. Len(frames) : i + d \in 1 .. Len(all) /\ frames[i] = all[i + d]
  BY <1>8
<1>10. Len(frames) \in Nat /\ DOMAIN frames = 1 .. Len(frames)
       /\ \A i \in 1 .. Len(frames) : frames[i] \in Int
  BY <1>8, LenProperties, ElementOfSeq
<1>11. Sorted(frames)
  <2>1. \A i \in 1 .. Len(frames) : frames[i] <= clock
    BY <1>7, <1>9 DEF Sorted
  <2>2. ASSUME NEW i \in 1 .. Len(frames), NEW j \in 1 .. Len(frames), i <= j
        PROVE  frames[i] <= frames[j]
    <3>1. i + d <= j + d
      BY <2>2
    <3> QED BY <1>7, <1>9, <3>1 DEF Sorted
  <2> QED BY <2>1, <2>2 DEF Sorted
<1>12. /\ stats' \in Statistics /\ stats'.frames = frames /\ stats'.total = stats.total + n
       /\ stats'.last = stats.counter /\ stats'.counter = stats.counter /\ stats'.real = stats.real
  <2>1. stats.total + n \in Nat /\ stats.counter \in Int
    BY <1>0, <1>1
  <2> QED BY <1>0, <1>2, <1>8, <2>1 DEF Statistics
<1>13. Counted(stats)' = 0
  BY <1>0, <1>12 DEF Counted
<1>14. Sorted(stats.frames)'
  BY <1>2, <1>11, <1>12 DEF Sorted
<1>15. FramesAreCounted'
  <2>1. \A i \in DOMAIN frames : frames[i] >= frames[1]
    BY <1>10, <1>11 DEF Sorted
  <2>2. Len(frames) > 0 => frames[Len(frames)] - frames[1] <= Window
    <3> SUFFICES ASSUME Len(frames) > 0 PROVE frames[Len(frames)] - frames[1] <= Window
      OBVIOUS
    <3>1. Len(frames) \in 1 .. Len(frames) /\ 1 \in 1 .. Len(frames)
      BY <1>10
    <3>2. frames[Len(frames)] <= clock /\ frames[1] >= clock - Window
          /\ frames[Len(frames)] \in Int /\ frames[1] \in Int
      BY <1>8, <1>10, <1>11, <3>1 DEF Sorted
    <3> QED BY <1>0, <3>2
  <2>3. stats'.total <= stats'.real
    BY <1>0, <1>12
  <2> QED BY <1>12, <2>1, <2>2, <2>3 DEF FramesAreCounted
<1>16. stats'.total + Counted(stats)' <= stats'.real
  BY <1>0, <1>1, <1>12, <1>13
<1> QED BY <1>12, <1>14, <1>15, <1>16 DEF StatsInv

LEMMA SwapKeeps ==
    ASSUME StatsInv, GuestSwap \/ CoreReset
    PROVE  StatsInv'
<1>0. /\ stats \in Statistics /\ stats.total \in Nat /\ stats.real \in Nat /\ stats.counter \in Nat
      /\ stats.last \in Int /\ stats.total + Counted(stats) <= stats.real
  BY DEF StatsInv, Statistics
<1>1. stats' \in Statistics
  <2>1. stats.counter + 1 \in Nat /\ stats.real + (IF stats.last >= 0 THEN 1 ELSE 0) \in Nat
    BY <1>0
  <2>2. CASE GuestSwap
    <3>1. stats' = [stats EXCEPT !.counter = stats.counter + 1,
                                 !.real = stats.real + (IF stats.last >= 0 THEN 1 ELSE 0)]
      BY <2>2 DEF GuestSwap
    <3> QED BY <1>0, <2>1, <3>1 DEF Statistics
  <2>3. CASE CoreReset
    BY <1>0, <2>3 DEF CoreReset, Statistics
  <2> QED BY <2>2, <2>3
<1>2. /\ stats'.frames = stats.frames /\ stats'.total = stats.total /\ stats'.last = stats.last
      /\ clock' = clock
      /\ \/ /\ stats'.counter = stats.counter + 1
            /\ stats'.real = stats.real + (IF stats.last >= 0 THEN 1 ELSE 0)
         \/ stats'.counter = 0 /\ stats'.real = stats.real
  BY <1>0 DEF GuestSwap, CoreReset, Statistics
<1>3. stats'.total + Counted(stats)' <= stats'.real /\ stats'.total <= stats'.real
  <2>1. Counted(stats) = IF stats.last >= 0 /\ stats.counter > stats.last
                         THEN stats.counter - stats.last ELSE 0
    BY <1>0, CountedIs
  <2>2. Counted(stats)' = IF stats'.last >= 0 /\ stats'.counter > stats'.last
                          THEN stats'.counter - stats'.last ELSE 0
    BY DEF Counted
  <2> QED BY <1>0, <1>2, <2>1, <2>2
<1> QED BY <1>1, <1>2, <1>3 DEF StatsInv, Sorted, FramesAreCounted

LEMMA TickKeeps ==
    ASSUME PolicyInv, StatsInv, PacingTick
    PROVE  PolicyInv' /\ StatsInv'
<1>1. clock \in Nat /\ clock' = clock + 1 /\ stats' = stats /\ policy' = policy /\ changes' = changes
  BY DEF PacingTick, PolicyInv
<1>2. PolicyInv'
  BY <1>1 DEF PolicyInv, ChangesAreSpaced
<1>3. \A i \in 1 .. Len(stats.frames) : stats.frames[i] <= clock'
  <2>1. \A i \in 1 .. Len(stats.frames) : stats.frames[i] \in Int
    BY ElementOfSeq DEF StatsInv, Statistics
  <2> QED BY <1>1, <2>1 DEF StatsInv, Sorted
<1>4. Sorted(stats.frames)'
  BY <1>1, <1>3 DEF StatsInv, Sorted
<1>5. Counted(stats)' = Counted(stats) /\ FramesAreCounted'
  BY <1>1 DEF StatsInv, FramesAreCounted, Counted
<1> QED BY <1>1, <1>2, <1>4, <1>5 DEF StatsInv

\* PacingIsSteady, of FramePacing: changes of the resolution keep the cooldown and
\* go up only after enough good samples in a row; no frame is counted that the
\* game did not show, and those judged span no more than the window, whatever the
\* core's counter does (createAdaptivePerformancePolicy, PerfStats).
THEOREM PacingIsSteadyHolds == PacingSpec => []PacingIsSteady
<1>1. PacingInit => PolicyInv /\ StatsInv
  <2> SUFFICES ASSUME PacingInit PROVE PolicyInv /\ StatsInv
    OBVIOUS
  <2>1. PolicyInv
    BY PacingAssumption DEF PacingInit, PolicyInv, Policies, Rates, Changes, ChangesAreSpaced
  <2>2. stats \in Statistics /\ stats.frames = <<>> /\ Len(stats.frames) = 0
        /\ stats.total = 0 /\ stats.real = 0 /\ stats.last = -1
    BY DEF PacingInit, Statistics
  <2>3. Counted(stats) = 0
    BY <2>2 DEF Counted
  <2>4. Sorted(stats.frames) /\ FramesAreCounted
    BY <2>2 DEF Sorted, FramesAreCounted
  <2> QED BY <2>1, <2>2, <2>3, <2>4 DEF StatsInv
<1>2. PolicyInv /\ StatsInv /\ [PacingNext]_pacingVars => PolicyInv' /\ StatsInv'
  <2> SUFFICES ASSUME PolicyInv, StatsInv, [PacingNext]_pacingVars PROVE PolicyInv' /\ StatsInv'
    OBVIOUS
  <2>1. UNCHANGED <<policy, changes, clock>> => PolicyInv'
    BY DEF PolicyInv, ChangesAreSpaced
  <2>2. UNCHANGED <<stats, clock>> => StatsInv'
    BY DEF StatsInv, Sorted, FramesAreCounted, Counted
  <2>3. CASE UNCHANGED pacingVars
    BY <2>1, <2>2, <2>3 DEF pacingVars
  <2>4. ASSUME NEW rate \in Rates, NEW memory \in Memory, NEW ema \in Averaged(policy, rate),
               Observe(rate, ema, memory)
        PROVE  PolicyInv' /\ StatsInv'
    <3>1. ema \in Rates
      BY DEF Averaged
    <3> QED BY <2>2, <2>4, <3>1, ObserveKeeps DEF Observe
  <2>5. ASSUME NEW step \in 1 .. Steps, SetScale(step) PROVE PolicyInv' /\ StatsInv'
    BY <2>2, <2>5, SetScaleKeeps DEF SetScale
  <2>6. CASE GuestSwap \/ CoreReset
    BY <2>1, <2>6, SwapKeeps DEF GuestSwap, CoreReset
  <2>7. CASE Submitted
    BY <2>1, <2>7, SubmittedKeeps DEF Submitted, PolicyInv
  <2> QED BY <2>3, <2>4, <2>5, <2>6, <2>7, TickKeeps DEF PacingNext, PolicySteps, StatsSteps
<1>3. PolicyInv /\ StatsInv => PacingIsSteady
  BY DEF PolicyInv, StatsInv, PacingIsSteady
<1> QED BY <1>1, <1>2, <1>3, PTL DEF PacingSpec
-----------------------------------------------------------------------------
(* The WebGPU back end (XenosBackend)                                        *)

TargetObjects == {<<"target", k, r>> : k \in TargetKeys, r \in 1 .. MaxRows}
GpuObjects ==
    TargetObjects \cup {<<"scratch", n>> : n \in Nat} \cup {<<"texture", id>> : id \in TextureIds}

Sides ==
    [pass : BOOLEAN, bound : SUBSET TargetKeys, rows : 1 .. MaxRows, targets : Occupied,
     tiles : [0 .. EdramTiles - 1 -> TargetObjects \cup {NoTarget}],
     textures : SUBSET TextureIds, groups : SUBSET [id : TextureIds, view : TextureIds \cup {0}],
     shaders : SUBSET Shaders, pipelines : SUBSET {"pipeline"},
     scratch : Nat, retired : SUBSET GpuObjects,
     used : [Rings -> 0 .. RingSlots], staged : 0 .. StagingSlots,
     front : TextureIds \cup {0}, destroyed : SUBSET GpuObjects, lost : BOOLEAN,
     painted : SUBSET TargetKeys]

Queues ==
    [memory : [GpuPages -> Words], staging : [1 .. StagingSlots -> Words],
     ring : [Rings -> [1 .. RingSlots -> Words]]]

Commands ==
    [op : {"copy", "draw", "compute", "resolve", "grow", "pass", "clear"}, uses : SUBSET GpuObjects,
     at : [Rings -> SUBSET (1 .. RingSlots)], data : Words, page : GpuPages \cup {0},
     slot : 0 .. StagingSlots, sees : {<<>>} \cup [GpuPages -> Words], loses : SUBSET TargetKeys]

Backends == [gpu : Sides, queue : Queues, pending : Seq(Commands)]

-----------------------------------------------------------------------------
(* Shared memory as the commands of the encoder see it.                     *)

Writes(c, p) == c.op \in {"copy", "resolve"} /\ c.page = p
Value(b, c) == IF c.op = "copy" THEN b.queue.staging[c.slot] ELSE c.data

(* Only the commands before one, and what they copy, decide what it sees.   *)
LEMMA MemoryLocal ==
    ASSUME NEW b, NEW q, NEW i \in Nat, NEW p,
           \A j \in 1 .. i - 1 : q.pending[j] = b.pending[j],
           q.queue.memory[p] = b.queue.memory[p],
           \A j \in 1 .. i - 1 : b.pending[j].op = "copy" =>
               q.queue.staging[b.pending[j].slot] = b.queue.staging[b.pending[j].slot]
    PROVE  MemoryAt(q, i, p) = MemoryAt(b, i, p)
<1> DEFINE W(x) == {j \in 1 .. i - 1 : x.pending[j].op \in {"copy", "resolve"} /\ x.pending[j].page = p}
           last(x) == CHOOSE j \in W(x) : \A k \in W(x) : k <= j
<1>1. W(q) = W(b)
  OBVIOUS
<1>2. last(q) = last(b)
  BY <1>1
<1>3. CASE W(b) = {}
  BY <1>1, <1>3 DEF MemoryAt
<1>4. CASE W(b) # {}
  <2>1. W(b) \in SUBSET Nat /\ \A j \in W(b) : j <= i
    OBVIOUS
  <2>2. \E j \in W(b) : \A k \in W(b) : k <= j
    <3> HIDE DEF W
    <3> QED BY <1>4, <2>1, GreatestExists
  <2>3. last(b) \in W(b)
    <3> HIDE DEF W
    <3> QED BY <2>2
  <2>4. q.pending[last(b)] = b.pending[last(b)] /\ last(b) \in 1 .. i - 1
    BY <2>3
  <2>5. MemoryAt(q, i, p) = IF q.pending[last(q)].op = "copy"
                            THEN q.queue.staging[q.pending[last(q)].slot] ELSE q.pending[last(q)].data
    BY <1>1, <1>4 DEF MemoryAt
  <2>6. MemoryAt(b, i, p) = IF b.pending[last(b)].op = "copy"
                            THEN b.queue.staging[b.pending[last(b)].slot] ELSE b.pending[last(b)].data
    BY <1>4 DEF MemoryAt
  <2> HIDE DEF last
  <2> QED BY <1>2, <2>4, <2>5, <2>6
<1> QED BY <1>3, <1>4

LEMMA MemoryKept ==
    ASSUME NEW b, NEW q, q.pending = b.pending,
           q.queue.memory = b.queue.memory, q.queue.staging = b.queue.staging
    PROVE  \A i \in Nat : \A p : MemoryAt(q, i, p) = MemoryAt(b, i, p)
<1> TAKE i \in Nat
<1> TAKE p
<1>1. \A j \in 1 .. i - 1 : q.pending[j] = b.pending[j]
  OBVIOUS
<1>2. q.queue.memory[p] = b.queue.memory[p]
  OBVIOUS
<1>3. \A j \in 1 .. i - 1 : b.pending[j].op = "copy" =>
          q.queue.staging[b.pending[j].slot] = b.queue.staging[b.pending[j].slot]
  OBVIOUS
<1> QED BY <1>1, <1>2, <1>3, MemoryLocal

LEMMA MemoryUpTo ==
    ASSUME NEW b, NEW q, NEW n \in Nat, \A j \in 1 .. n : q.pending[j] = b.pending[j],
           q.queue.memory = b.queue.memory,
           \A j \in 1 .. n : b.pending[j].op = "copy" =>
               q.queue.staging[b.pending[j].slot] = b.queue.staging[b.pending[j].slot]
    PROVE  \A i \in 1 .. n + 1 : \A p : MemoryAt(q, i, p) = MemoryAt(b, i, p)
<1> TAKE i \in 1 .. n + 1
<1> TAKE p
<1>1. i \in Nat /\ \A j \in 1 .. i - 1 : j \in 1 .. n
  OBVIOUS
<1>2. \A j \in 1 .. i - 1 : q.pending[j] = b.pending[j]
  BY <1>1
<1>3. q.queue.memory[p] = b.queue.memory[p]
  OBVIOUS
<1>4. \A j \in 1 .. i - 1 : b.pending[j].op = "copy" =>
          q.queue.staging[b.pending[j].slot] = b.queue.staging[b.pending[j].slot]
  BY <1>1
<1>5. i \in Nat
  BY <1>1
<1> QED BY <1>2, <1>3, <1>4, <1>5, MemoryLocal

(* A command changes what the next one sees of the page it writes.          *)
LEMMA MemoryNext ==
    ASSUME NEW b, NEW n \in Nat \ {0}, NEW p
    PROVE  MemoryAt(b, n + 1, p) =
               IF Writes(b.pending[n], p) THEN Value(b, b.pending[n]) ELSE MemoryAt(b, n, p)
<1> DEFINE W(i) == {j \in 1 .. i - 1 : b.pending[j].op \in {"copy", "resolve"} /\ b.pending[j].page = p}
           last(i) == CHOOSE j \in W(i) : \A k \in W(i) : k <= j
<1>1. \A i : MemoryAt(b, i, p) =
               IF W(i) = {} THEN b.queue.memory[p]
               ELSE IF b.pending[last(i)].op = "copy" THEN b.queue.staging[b.pending[last(i)].slot]
               ELSE b.pending[last(i)].data
  BY DEF MemoryAt
<1>2. CASE Writes(b.pending[n], p)
  <2>1. n \in W(n + 1) /\ \A k \in W(n + 1) : k <= n /\ k \in Nat
    BY <1>2 DEF Writes
  <2>2. last(n + 1) = n
    <3> HIDE DEF W
    <3>1. \A j \in W(n + 1) : (\A k \in W(n + 1) : k <= j) => j = n
      BY <2>1
    <3>2. last(n + 1) \in W(n + 1) /\ \A k \in W(n + 1) : k <= last(n + 1)
      BY <2>1
    <3> HIDE DEF last
    <3> QED BY <3>1, <3>2
  <2>3. W(n + 1) # {}
    BY <2>1
  <2> HIDE DEF W, last
  <2> QED BY <1>1, <1>2, <2>2, <2>3 DEF Value
<1>3. CASE ~Writes(b.pending[n], p)
  <2>1. W(n + 1) = W(n)
    <3>1. ASSUME NEW j \in W(n + 1) PROVE j \in W(n)
      <4>1. j \in 1 .. n /\ j # n
        BY <1>3 DEF Writes
      <4> QED BY <4>1
    <3>2. W(n) \subseteq W(n + 1)
      OBVIOUS
    <3> HIDE DEF W
    <3> QED BY <3>1, <3>2
  <2> HIDE DEF W
  <2> QED BY <1>1, <1>3, <2>1
<1> QED BY <1>2, <1>3

(* With nothing recorded, shared memory is what it is.                      *)
LEMMA MemoryFirst ==
    ASSUME NEW b, NEW p PROVE MemoryAt(b, 1, p) = b.queue.memory[p]
  BY DEF MemoryAt

-----------------------------------------------------------------------------
(* What is always so of a backend b and the contents lat of shared memory.  *)

At(b) == 1 .. Len(b.pending)

\* Commands see what was there when they were recorded, the next one will see
\* lat, and what copies read is still in the staging buffer.
Sees(b, lat) ==
    /\ \A i \in At(b) : \A p \in DOMAIN b.pending[i].sees : MemoryAt(b, i, p) = b.pending[i].sees[p]
    /\ \A p \in GpuPages : MemoryAt(b, Len(b.pending) + 1, p) = lat[p]

SeesIn(b, lat) ==
    /\ ~b.gpu.lost => Sees(b, lat)
    /\ \A p \in GpuPages : MemoryAt(b, Len(b.pending) + 1, p) \in Words
    /\ \A i \in At(b) : b.pending[i].op = "copy" => b.pending[i].slot \in 1 .. b.gpu.staged

RingsIn(b) ==
    \A i \in At(b), r \in Rings : \A s \in b.pending[i].at[r] :
        s <= b.gpu.used[r] /\ b.queue.ring[r][s] = b.pending[i].data

\* A scratch buffer that was replaced is smaller than the one there is, and a
\* command that names what was destroyed comes before the growing that did it.
Doomed(b, i, o) == \E j \in i .. Len(b.pending) : b.pending[j].op = "grow" /\ o \in b.pending[j].uses

ScratchIn(b) ==
    /\ \A o \in b.gpu.retired : \E n \in Nat : o = Scratch(n)
    /\ \A n \in Nat : Scratch(n) \in b.gpu.retired \cup b.gpu.destroyed => n < b.gpu.scratch
    /\ \A id \in TextureIds : <<"texture", id>> \notin b.gpu.destroyed
    /\ \A i \in At(b) : \A o \in b.pending[i].uses \cap b.gpu.destroyed : Doomed(b, i, o)

LosesIn(b) == \A i \in At(b) : b.pending[i].loses = {}

DestroyedIn(b) ==
    \A k \in TargetKeys, n \in 1 .. MaxRows : <<"target", k, n>> \in b.gpu.destroyed =>
        b.gpu.targets[k] # NoTarget /\ n < b.gpu.targets[k].rows

\* The object of a tile is that of a target there is, and the tile one of its
\* tiles; the targets of grown have just been replaced by taller ones.  Only
\* targets lower than those there are were destroyed.
TilesIn(b, grown) ==
    /\ DestroyedIn(b)
    /\ \A k \in TargetKeys : b.gpu.targets[k] # NoTarget => b.gpu.targets[k].key = k
    /\ \A t \in 0 .. EdramTiles - 1 : b.gpu.tiles[t] # NoTarget =>
          \E k \in TargetKeys, n \in 1 .. MaxRows :
              /\ b.gpu.tiles[t] = <<"target", k, n>> /\ t \in TilesOf(k, n)
              /\ b.gpu.targets[k] # NoTarget
              /\ \/ n = b.gpu.targets[k].rows
                 \/ k \in grown /\ n <= b.gpu.rows
    /\ \A k \in grown : b.gpu.targets[k] # NoTarget /\ b.gpu.targets[k].rows >= b.gpu.rows

HasContents(b, k) == b.gpu.targets[k] # NoTarget /\ b.gpu.targets[k].initialized

PaintIn(b) ==
    /\ \A k \in b.gpu.painted : HasContents(b, k)
    /\ b.gpu.pass => \A k \in b.gpu.bound : HasContents(b, k)

GroupsIn(b) == \A g \in b.gpu.groups : g.view = ViewOf(b, g.id)

\* A colour target, a depth target, both or none.
BoundIn(b) == \A i, j, k \in b.gpu.bound : i = j \/ i = k \/ j = k

StreamInv(b, lat) == SeesIn(b, lat) /\ RingsIn(b) /\ ScratchIn(b) /\ LosesIn(b)
ScreenInv(b) == TilesIn(b, {}) /\ PaintIn(b) /\ GroupsIn(b) /\ BoundIn(b)

\* The target that the last command copies into a taller one.
Buried(b, o) ==
    /\ Len(b.pending) > 0 /\ b.pending[Len(b.pending)].op = "grow"
    /\ o \in b.pending[Len(b.pending)].uses /\ o \in TargetObjects

\* Nothing that commands use has changed.
SameStream(b, q) ==
    /\ q.queue = b.queue /\ q.pending = b.pending
    /\ q.gpu.used = b.gpu.used /\ q.gpu.staged = b.gpu.staged
    /\ q.gpu.scratch = b.gpu.scratch /\ q.gpu.retired = b.gpu.retired
    /\ q.gpu.lost = b.gpu.lost
    /\ \A o \in q.gpu.destroyed : o \in b.gpu.destroyed \/ Buried(b, o)

\* Nothing was retired or destroyed that was not retired or destroyed before.
Spared(b, q) == q.gpu.destroyed \cup q.gpu.retired \subseteq b.gpu.destroyed \cup b.gpu.retired

\* Nothing of targets and textures has changed; the pass may have ended.
Screened(b, q) ==
    /\ q.gpu.targets = b.gpu.targets /\ q.gpu.tiles = b.gpu.tiles /\ q.gpu.rows = b.gpu.rows
    /\ q.gpu.bound = b.gpu.bound /\ q.gpu.painted = b.gpu.painted
    /\ q.gpu.textures = b.gpu.textures /\ q.gpu.groups = b.gpu.groups
    /\ q.gpu.pass => b.gpu.pass
    /\ q.gpu.destroyed \cap TargetObjects \subseteq b.gpu.destroyed

\* A target is not a scratch buffer, and no two scratch buffers are the same.
LEMMA ScratchIs ==
    /\ \A n, m \in Nat : Scratch(n) = Scratch(m) => n = m
    /\ \A n \in Nat : \A id : Scratch(n) # <<"texture", id>>
    /\ \A n \in Nat : \A k, h : Scratch(n) # <<"target", k, h>>
<1>1. \A n, m \in Nat : Scratch(n) = Scratch(m) => n = m
  BY DEF Scratch
<1>2. \A n \in Nat : \A id : Scratch(n) # <<"texture", id>>
  BY DEF Scratch
<1>3. \A n \in Nat : \A k, h : Scratch(n) # <<"target", k, h>>
  <2> SUFFICES ASSUME NEW n \in Nat, NEW k, NEW h, Scratch(n) = <<"target", k, h>>
               PROVE  FALSE
    OBVIOUS
  <2>1. Scratch(n)[1] = "scratch" /\ <<"target", k, h>>[1] = "target"
    BY DEF Scratch
  <2> QED BY <2>1
<1> QED BY <1>1, <1>2, <1>3

LEMMA TextureIs == \A id : \A k, h : <<"texture", id>> # <<"target", k, h>>
<1> SUFFICES ASSUME NEW id, NEW k, NEW h, <<"texture", id>> = <<"target", k, h>>
             PROVE  FALSE
  OBVIOUS
<1>1. <<"texture", id>>[1] = "texture" /\ <<"target", k, h>>[1] = "target"
  OBVIOUS
<1> QED BY <1>1

LEMMA SteadyStream ==
    ASSUME NEW b \in Backends, NEW q \in Backends, NEW lat, SameStream(b, q), StreamInv(b, lat)
    PROVE  StreamInv(q, lat)
<1>1. \A i \in Nat : \A p : MemoryAt(q, i, p) = MemoryAt(b, i, p)
  BY MemoryKept DEF SameStream
<1>2. Len(b.pending) \in Nat /\ q.pending = b.pending
  BY DEF Backends, SameStream
<1>3. SeesIn(q, lat)
  <2>1. SeesIn(b, lat) /\ q.gpu.staged = b.gpu.staged
    BY DEF StreamInv, SameStream
  <2>2. q.gpu.lost = b.gpu.lost
    BY DEF SameStream
  <2> QED BY <1>1, <1>2, <2>1, <2>2 DEF SeesIn, Sees, At
<1>4. RingsIn(q) /\ LosesIn(q)
  BY DEF StreamInv, RingsIn, LosesIn, At, SameStream
<1>5. ScratchIn(q)
  <2>1. ScratchIn(b) /\ \A o \in q.gpu.destroyed : o \in b.gpu.destroyed \/ Buried(b, o)
    BY DEF StreamInv, SameStream
  <2>2. /\ \A n \in Nat : Scratch(n) \notin TargetObjects
        /\ \A id \in TextureIds : <<"texture", id>> \notin TargetObjects
    BY ScratchIs, TextureIs DEF TargetObjects
  <2>3. \A o \in q.gpu.retired : \E n \in Nat : o = Scratch(n)
    BY <2>1 DEF ScratchIn, SameStream
  <2>4. \A n \in Nat : Scratch(n) \in q.gpu.retired \cup q.gpu.destroyed => n < q.gpu.scratch
    BY <2>1, <2>2 DEF ScratchIn, SameStream, Buried
  <2>5. \A id \in TextureIds : <<"texture", id>> \notin q.gpu.destroyed
    BY <2>1, <2>2 DEF ScratchIn, Buried
  <2>6. ASSUME NEW i \in At(b), NEW o \in b.pending[i].uses \cap q.gpu.destroyed
        PROVE  Doomed(b, i, o)
    <3>1. CASE o \in b.gpu.destroyed
      BY <2>1, <3>1 DEF ScratchIn
    <3>2. CASE Buried(b, o)
      <4>1. Len(b.pending) \in i .. Len(b.pending)
        BY <1>2 DEF At
      <4> QED BY <3>2, <4>1 DEF Doomed, Buried
    <3> QED BY <2>1, <3>1, <3>2
  <2> QED BY <1>2, <2>3, <2>4, <2>5, <2>6 DEF ScratchIn, At, Doomed
<1> QED BY <1>3, <1>4, <1>5 DEF StreamInv

LEMMA ScreenedKept ==
    ASSUME NEW b, NEW q, Screened(b, q), ScreenInv(b)
    PROVE  ScreenInv(q)
<1>1. TilesIn(q, {})
  <2>1. DestroyedIn(q)
    BY DEF ScreenInv, TilesIn, DestroyedIn, Screened, TargetObjects
  <2> QED BY <2>1 DEF ScreenInv, TilesIn, Screened
<1>2. PaintIn(q) /\ GroupsIn(q) /\ BoundIn(q)
  BY DEF ScreenInv, PaintIn, GroupsIn, BoundIn, HasContents, ViewOf, Screened
<1> QED BY <1>1, <1>2 DEF ScreenInv

-----------------------------------------------------------------------------
(* The encoder.                                                             *)

LEMMA EndPassIs ==
    ASSUME NEW b \in Backends
    PROVE  /\ EndPass(b) \in Backends /\ EndPass(b).gpu = [b.gpu EXCEPT !.pass = FALSE]
           /\ ~EndPass(b).gpu.pass
           /\ SameStream(b, EndPass(b)) /\ Screened(b, EndPass(b))
<1> DEFINE q == [b.gpu EXCEPT !.pass = FALSE]
<1>1. b.gpu \in Sides /\ EndPass(b) = [b EXCEPT !.gpu = q]
  BY DEF Backends, EndPass
<1>2. q \in Sides
  BY <1>1 DEF Sides
<1>3. /\ q.targets = b.gpu.targets /\ q.tiles = b.gpu.tiles /\ q.rows = b.gpu.rows
      /\ q.bound = b.gpu.bound /\ q.painted = b.gpu.painted
      /\ q.textures = b.gpu.textures /\ q.groups = b.gpu.groups /\ q.pass = FALSE
      /\ q.used = b.gpu.used /\ q.staged = b.gpu.staged
      /\ q.scratch = b.gpu.scratch /\ q.retired = b.gpu.retired /\ q.lost = b.gpu.lost /\ q.destroyed = b.gpu.destroyed
  BY <1>1 DEF Sides
<1> HIDE DEF q
<1>4. EndPass(b) \in Backends /\ EndPass(b).gpu = q /\ EndPass(b).queue = b.queue
      /\ EndPass(b).pending = b.pending
  BY <1>1, <1>2 DEF Backends
<1> QED BY <1>3, <1>4 DEF q, SameStream, Screened

(* A command that is recorded: what it uses and sees, and what it writes.   *)
LEMMA RecordedStream ==
    ASSUME NEW b \in Backends, NEW lat \in [GpuPages -> Words], StreamInv(b, lat), NEW c \in Commands,
           c.sees \in {<<>>, lat}, c.loses = {},
           \A r \in Rings : \A s \in c.at[r] : s <= b.gpu.used[r] /\ b.queue.ring[r][s] = c.data,
           c.uses \cap b.gpu.destroyed = {},
           c.op = "copy" => c.slot \in 1 .. b.gpu.staged,
           NEW after, \A p \in GpuPages : after[p] = IF Writes(c, p) THEN Value(b, c) ELSE lat[p]
    PROVE  /\ Recorded(b, c) \in Backends /\ Screened(b, Recorded(b, c))
           /\ Recorded(b, c).gpu = b.gpu
           /\ StreamInv(Recorded(b, c), after)
<1> DEFINE q == Recorded(b, c)
           n == Len(b.pending)
<1>1. /\ b.pending \in Seq(Commands) /\ n \in Nat
      /\ q = [b EXCEPT !.pending = Append(b.pending, c)]
  BY DEF Backends, Recorded
<1>2. /\ Append(b.pending, c) \in Seq(Commands) /\ Len(Append(b.pending, c)) = n + 1
      /\ \A i \in 1 .. n : Append(b.pending, c)[i] = b.pending[i]
      /\ Append(b.pending, c)[n + 1] = c
  BY <1>1
<1>3. /\ q \in Backends /\ q.gpu = b.gpu /\ q.queue = b.queue /\ q.pending = Append(b.pending, c)
  BY <1>1, <1>2 DEF Backends
<1> HIDE DEF q
<1>4. Screened(b, q)
  BY <1>3 DEF Screened
<1>5. \A i \in 1 .. n + 1 : \A p : MemoryAt(q, i, p) = MemoryAt(b, i, p)
  <2> TAKE i \in 1 .. n + 1
  <2> TAKE p
  <2>1. i \in Nat /\ \A j \in 1 .. i - 1 : j \in 1 .. n
    BY <1>1
  <2>2. \A j \in 1 .. i - 1 : q.pending[j] = b.pending[j]
    BY <2>1, <1>2, <1>3
  <2>3. q.queue.memory[p] = b.queue.memory[p]
    BY <1>3
  <2>4. \A j \in 1 .. i - 1 : b.pending[j].op = "copy" =>
            q.queue.staging[b.pending[j].slot] = b.queue.staging[b.pending[j].slot]
    BY <1>3
  <2>5. i \in Nat
    BY <2>1
  <2> HIDE DEF n
  <2> QED BY <2>2, <2>3, <2>4, <2>5, MemoryLocal
<1>6. ASSUME ~b.gpu.lost, NEW p \in GpuPages
      PROVE  MemoryAt(q, n + 2, p) = after[p]
  <2>1. MemoryAt(q, n + 1, p) = lat[p]
    <3>1. MemoryAt(b, n + 1, p) = lat[p]
      BY <1>6 DEF StreamInv, SeesIn, Sees
    <3>2. n + 1 \in 1 .. n + 1
      BY <1>1
    <3> QED BY <3>1, <3>2, <1>5
  <2>2. MemoryAt(q, (n + 1) + 1, p) = IF Writes(q.pending[n + 1], p) THEN Value(q, q.pending[n + 1])
                                      ELSE MemoryAt(q, n + 1, p)
    <3>1. n + 1 \in Nat \ {0}
      BY <1>1
    <3> QED BY <3>1, MemoryNext
  <2>3. q.pending[n + 1] = c /\ Value(q, c) = Value(b, c) /\ (n + 1) + 1 = n + 2
    BY <1>1, <1>2, <1>3 DEF Value
  <2> QED BY <2>1, <2>2, <2>3
<1>7. Len(q.pending) = n + 1 /\ At(q) = 1 .. n + 1 /\ At(b) = 1 .. n
  BY <1>2, <1>3 DEF At
<1>8. SeesIn(q, after)
  <2>1. ASSUME ~b.gpu.lost, NEW i \in 1 .. n + 1, NEW p \in DOMAIN q.pending[i].sees
        PROVE  MemoryAt(q, i, p) = q.pending[i].sees[p]
    <3>1. CASE i \in 1 .. n
      BY <3>1, <2>1, <1>2, <1>3, <1>5, <1>7 DEF StreamInv, SeesIn, Sees
    <3>2. CASE i = n + 1
      <4>1. q.pending[i] = c
        BY <3>2, <1>2, <1>3
      <4>2. c.sees = lat /\ p \in GpuPages
        BY <4>1, <2>1
      <4>3. MemoryAt(b, n + 1, p) = lat[p]
        BY <2>1, <4>2 DEF StreamInv, SeesIn, Sees
      <4> QED BY <3>2, <4>1, <4>2, <4>3, <1>5
    <3> QED BY <3>1, <3>2, <1>1
  <2>2. ASSUME NEW i \in 1 .. n + 1, q.pending[i].op = "copy"
        PROVE  q.pending[i].slot \in 1 .. q.gpu.staged
    <3>1. CASE i \in 1 .. n
      BY <3>1, <2>2, <1>2, <1>3, <1>7 DEF StreamInv, SeesIn, Sees
    <3>2. CASE i = n + 1
      BY <3>2, <2>2, <1>2, <1>3
    <3> QED BY <3>1, <3>2, <1>1
  <2>3. Len(q.pending) + 1 = n + 2
    BY <1>1, <1>7
  <2>4. ASSUME NEW p \in GpuPages PROVE MemoryAt(q, n + 2, p) \in Words
    <3>1. MemoryAt(q, (n + 1) + 1, p) = IF Writes(q.pending[n + 1], p) THEN Value(q, q.pending[n + 1])
                                        ELSE MemoryAt(q, n + 1, p)
      <4>1. n + 1 \in Nat \ {0}
        BY <1>1
      <4> QED BY <4>1, MemoryNext
    <3>2. q.pending[n + 1] = c /\ Value(q, c) = Value(b, c) /\ (n + 1) + 1 = n + 2
      BY <1>1, <1>2, <1>3 DEF Value
    <3>3. MemoryAt(q, n + 1, p) \in Words
      <4>1. MemoryAt(b, n + 1, p) \in Words
        BY DEF StreamInv, SeesIn
      <4>2. n + 1 \in 1 .. n + 1
        BY <1>1
      <4> QED BY <4>1, <4>2, <1>5
    <3>4. Value(b, c) \in Words
      <4>1. c.data \in Words
        BY DEF Commands
      <4>2. b.queue.staging \in [1 .. StagingSlots -> Words] /\ b.gpu.staged \in 0 .. StagingSlots
        BY DEF Backends, Sides, Queues
      <4>3. ASSUME c.op = "copy" PROVE c.slot \in 1 .. StagingSlots
        <5>1. c.slot \in 1 .. b.gpu.staged
          BY <4>3
        <5> QED BY <5>1, <4>2, BackendAssumption
      <4> QED BY <4>1, <4>2, <4>3 DEF Value
    <3> QED BY <3>1, <3>2, <3>3, <3>4
  <2>5. ~q.gpu.lost => Sees(q, after)
    BY <2>1, <2>3, <1>3, <1>6, <1>7 DEF Sees
  <2> QED BY <2>2, <2>3, <2>4, <2>5, <1>7 DEF SeesIn
<1>9. RingsIn(q)
  <2> SUFFICES ASSUME NEW i \in 1 .. n + 1, NEW r \in Rings, NEW s \in q.pending[i].at[r]
               PROVE  s <= q.gpu.used[r] /\ q.queue.ring[r][s] = q.pending[i].data
    BY <1>7 DEF RingsIn
  <2>1. CASE i \in 1 .. n
    BY <2>1, <1>2, <1>3, <1>7 DEF StreamInv, RingsIn
  <2>2. CASE i = n + 1
    BY <2>2, <1>2, <1>3
  <2> QED BY <2>1, <2>2, <1>1
<1>10. ScratchIn(q) /\ LosesIn(q)
  <2>1. ASSUME NEW i \in 1 .. n + 1
        PROVE  /\ q.pending[i].loses = {}
               /\ \A o \in q.pending[i].uses \cap q.gpu.destroyed : Doomed(q, i, o)
    <3>1. CASE i \in 1 .. n
      <4>1. q.pending[i] = b.pending[i] /\ q.pending[i].loses = {}
        BY <3>1, <1>2, <1>3, <1>7 DEF StreamInv, LosesIn
      <4>2. ASSUME NEW o \in q.pending[i].uses \cap q.gpu.destroyed PROVE Doomed(q, i, o)
        <5>1. Doomed(b, i, o)
          BY <3>1, <4>1, <4>2, <1>3, <1>7 DEF StreamInv, ScratchIn
        <5>2. PICK j \in i .. n : b.pending[j].op = "grow" /\ o \in b.pending[j].uses
          BY <5>1 DEF Doomed
        <5>3. j \in i .. Len(q.pending) /\ j \in 1 .. n
          BY <3>1, <1>1, <1>7
        <5> QED BY <5>2, <5>3, <1>2, <1>3 DEF Doomed
      <4> QED BY <4>1, <4>2
    <3>2. CASE i = n + 1
      <4>1. q.pending[i] = c /\ q.gpu.destroyed = b.gpu.destroyed
        BY <3>2, <1>2, <1>3
      <4> QED BY <4>1
    <3>3. i \in 1 .. n \/ i = n + 1
      BY <1>1
    <3> QED BY <3>1, <3>2, <3>3, Zenon
  <2> QED BY <2>1, <1>3, <1>7 DEF StreamInv, ScratchIn, LosesIn
<1> QED BY <1>3, <1>4, <1>8, <1>9, <1>10 DEF StreamInv, q

(* A submit: every command has run, or it was rejected, and rings and       *)
(* staging start over.                                                      *)
LEMMA SubmitIs ==
    ASSUME NEW b \in Backends, NEW lat \in [GpuPages -> Words], StreamInv(b, lat)
    PROVE  /\ Submit(b) \in Backends /\ StreamInv(Submit(b), lat) /\ Screened(b, Submit(b))
           /\ ~Submit(b).gpu.pass /\ Submit(b).pending = <<>>
           /\ Submit(b).gpu.used = [r \in Rings |-> 0] /\ Submit(b).gpu.staged = 0
           /\ Submit(b).gpu.scratch = b.gpu.scratch /\ Spared(b, Submit(b))
<1> DEFINE q == Submit(b)
           M == Executed(b)
           L == b.gpu.lost \/ Rejected(b)
           U == [r \in Rings |-> 0]
           E == [b.gpu EXCEPT !.pass = FALSE]
           G == [E EXCEPT !.used = U, !.staged = 0,
                              !.destroyed = b.gpu.destroyed \cup b.gpu.retired, !.retired = {},
                              !.lost = L]
           Q == [b.queue EXCEPT !.memory = M]
<1>1. M \in [GpuPages -> Words] /\ (~L => M = lat) /\ L \in BOOLEAN
  <2>1. \A p \in GpuPages : MemoryAt(b, Len(b.pending) + 1, p) \in Words
    BY DEF StreamInv, SeesIn
  <2>2. b.queue.memory \in [GpuPages -> Words]
    BY DEF Backends, Queues
  <2>3. ASSUME ~L PROVE M = lat
    <3>1. \A p \in GpuPages : MemoryAt(b, Len(b.pending) + 1, p) = lat[p]
      BY <2>3 DEF StreamInv, SeesIn, Sees
    <3> QED BY <2>3, <3>1 DEF Executed
  <2>4. M \in [GpuPages -> Words]
    BY <2>1, <2>2 DEF Executed
  <2>5. L \in BOOLEAN
    BY DEF Rejected
  <2> QED BY <2>3, <2>4, <2>5
<1>2. U \in [Rings -> 0 .. RingSlots] /\ 0 \in 0 .. StagingSlots
  BY BackendAssumption
<1> HIDE DEF M, U, L
<1>3. b.gpu \in Sides /\ b.queue \in Queues /\ <<>> \in Seq(Commands)
  BY DEF Backends
<1>4. G \in Sides
  BY <1>1, <1>2, <1>3 DEF Sides
<1>5. Q \in Queues
  BY <1>1, <1>3 DEF Queues
<1>6. /\ G.pass = FALSE /\ G.used = U /\ G.staged = 0 /\ G.scratch = b.gpu.scratch
      /\ G.destroyed = b.gpu.destroyed \cup b.gpu.retired /\ G.retired = {} /\ G.lost = L
      /\ G.targets = b.gpu.targets /\ G.tiles = b.gpu.tiles /\ G.rows = b.gpu.rows
      /\ G.bound = b.gpu.bound /\ G.painted = b.gpu.painted
      /\ G.textures = b.gpu.textures /\ G.groups = b.gpu.groups
  BY <1>3 DEF Sides
<1>7. Q.memory = M
  BY <1>1, <1>3 DEF Queues
<1>8. q = [gpu |-> G, queue |-> Q, pending |-> <<>>]
  <2>1. EndPass(b).gpu = E
    BY EndPassIs
  <2>2. E.destroyed = b.gpu.destroyed /\ E.lost = b.gpu.lost
    BY <1>3 DEF Sides
  <2> HIDE DEF E
  <2> QED BY <2>1, <2>2 DEF Submit, M, U, L
<1> HIDE DEF G, Q, q
<1>9. q \in Backends /\ q.gpu = G /\ q.queue = Q /\ q.pending = <<>>
  BY <1>3, <1>4, <1>5, <1>8, EndPassIs DEF Backends
<1>10. Screened(b, q)
  <2>1. b.gpu.retired \cap TargetObjects = {}
    BY ScratchIs DEF StreamInv, ScratchIn, TargetObjects
  <2> QED BY <2>1, <1>6, <1>9 DEF Screened
<1>15. Spared(b, q)
  BY <1>6, <1>9 DEF Spared
<1>11. At(q) = {} /\ Len(q.pending) + 1 = 1
  BY <1>9 DEF At
<1>12. SeesIn(q, lat)
  <2>1. \A p \in GpuPages : MemoryAt(q, 1, p) = M[p]
    BY <1>7, <1>9, MemoryFirst
  <2>2. q.gpu.lost = L
    BY <1>6, <1>9
  <2> QED BY <1>1, <1>11, <2>1, <2>2 DEF SeesIn, Sees
<1>13. RingsIn(q) /\ ScratchIn(q) /\ LosesIn(q)
  <2>1. \A n \in Nat : Scratch(n) \in b.gpu.retired \cup b.gpu.destroyed => n < b.gpu.scratch
    BY DEF StreamInv, ScratchIn
  <2>2. \A id \in TextureIds : <<"texture", id>> \notin b.gpu.retired \cup b.gpu.destroyed
    BY ScratchIs DEF StreamInv, ScratchIn
  <2> QED BY <1>6, <1>9, <1>11, <2>1, <2>2 DEF RingsIn, ScratchIn, LosesIn
<1> QED BY <1>6, <1>9, <1>10, <1>12, <1>13, <1>15 DEF StreamInv, q, U

(* Room in both rings: a submit makes it, if there is none.                 *)
LEMMA MadeRoomIs ==
    ASSUME NEW b \in Backends, NEW lat \in [GpuPages -> Words], StreamInv(b, lat),
           NEW need \in [Rings -> 0 .. 1]
    PROVE  /\ MadeRoom(b, need) \in Backends /\ StreamInv(MadeRoom(b, need), lat)
           /\ Screened(b, MadeRoom(b, need)) /\ Fits(MadeRoom(b, need), need)
           /\ MadeRoom(b, need).gpu.scratch = b.gpu.scratch /\ Spared(b, MadeRoom(b, need))
<1>1. CASE Fits(b, need)
  <2>1. Screened(b, b) /\ Spared(b, b)
    BY DEF Screened, Spared
  <2> QED BY <1>1, <2>1 DEF MadeRoom
<1>2. CASE ~Fits(b, need)
  <2>1. MadeRoom(b, need) = Submit(b)
    BY <1>2 DEF MadeRoom
  <2>2. Submit(b).gpu.used = [r \in Rings |-> 0]
    BY SubmitIs
  <2>3. Fits(Submit(b), need)
    BY <2>2, BackendAssumption DEF Fits
  <2> QED BY <2>1, <2>3, SubmitIs
<1> QED BY <1>1, <1>2

(* What is pushed lies behind what recorded commands read.                  *)
LEMMA PushedIs ==
    ASSUME NEW b \in Backends, NEW lat \in [GpuPages -> Words], StreamInv(b, lat),
           NEW need \in [Rings -> 0 .. 1], Fits(b, need), NEW data \in Words
    PROVE  /\ Pushed(b, need, data) \in Backends /\ StreamInv(Pushed(b, need, data), lat)
           /\ Screened(b, Pushed(b, need, data))
           /\ Pushed(b, need, data).gpu = [b.gpu EXCEPT !.used = Pushed(b, need, data).gpu.used]
           /\ \A r \in Rings : \A s \in SlotsFor(b, need, r) :
                 /\ s \in 1 .. RingSlots /\ s <= Pushed(b, need, data).gpu.used[r]
                 /\ Pushed(b, need, data).queue.ring[r][s] = data
<1> DEFINE q == Pushed(b, need, data)
           U == [r \in Rings |-> b.gpu.used[r] + need[r]]
           R == [r \in Rings |-> [s \in 1 .. RingSlots |->
                   IF s \in SlotsFor(b, need, r) THEN data ELSE b.queue.ring[r][s]]]
           G == [b.gpu EXCEPT !.used = U]
           Q == [b.queue EXCEPT !.ring = R]
<1>1. b.gpu \in Sides /\ b.queue \in Queues /\ b.pending \in Seq(Commands)
  BY DEF Backends
<1>2. b.gpu.used \in [Rings -> 0 .. RingSlots] /\ b.queue.ring \in [Rings -> [1 .. RingSlots -> Words]]
  BY <1>1 DEF Sides, Queues
<1>3. U \in [Rings -> 0 .. RingSlots]
  <2>1. \A r \in Rings : b.gpu.used[r] + need[r] <= RingSlots
    BY DEF Fits
  <2>2. \A r \in Rings : b.gpu.used[r] \in Nat /\ need[r] \in Nat
    BY <1>2, BackendAssumption
  <2>3. \A r \in Rings : b.gpu.used[r] + need[r] \in 0 .. RingSlots
    BY <2>1, <2>2, BackendAssumption
  <2> QED BY <2>3
<1>4. R \in [Rings -> [1 .. RingSlots -> Words]]
  BY <1>2
<1>5. \A r \in Rings : \A s \in SlotsFor(b, need, r) :
          s \in 1 .. RingSlots /\ s <= U[r] /\ R[r][s] = data
  BY <1>2, BackendAssumption DEF SlotsFor, Fits
<1>6. \A r \in Rings : \A s \in 1 .. RingSlots : s <= b.gpu.used[r] =>
          s <= U[r] /\ R[r][s] = b.queue.ring[r][s]
  BY <1>2, BackendAssumption DEF SlotsFor, Fits
<1>7. q = [b EXCEPT !.gpu = G, !.queue = Q]
  BY <1>1 DEF Pushed, Backends, Sides, Queues
<1> HIDE DEF U, R
<1>8. G \in Sides /\ G.used = U
  BY <1>1, <1>3 DEF Sides
<1>9. Q \in Queues /\ Q.memory = b.queue.memory /\ Q.staging = b.queue.staging /\ Q.ring = R
  BY <1>1, <1>4 DEF Queues
<1>10. /\ G.staged = b.gpu.staged /\ G.scratch = b.gpu.scratch /\ G.pass = b.gpu.pass
       /\ G.destroyed = b.gpu.destroyed /\ G.retired = b.gpu.retired /\ G.lost = b.gpu.lost
       /\ G.targets = b.gpu.targets /\ G.tiles = b.gpu.tiles /\ G.rows = b.gpu.rows
       /\ G.bound = b.gpu.bound /\ G.painted = b.gpu.painted
       /\ G.textures = b.gpu.textures /\ G.groups = b.gpu.groups
  BY <1>1 DEF Sides
<1>11. G = [b.gpu EXCEPT !.used = G.used]
  BY <1>8
<1> HIDE DEF G, Q, q
<1>12. q \in Backends /\ q.gpu = G /\ q.queue = Q /\ q.pending = b.pending
  BY <1>1, <1>7, <1>8, <1>9 DEF Backends
<1>13. Screened(b, q)
  BY <1>10, <1>12 DEF Screened
<1>14. \A i \in Nat : \A p : MemoryAt(q, i, p) = MemoryAt(b, i, p)
  BY <1>9, <1>12, MemoryKept
<1>15. SeesIn(q, lat)
  <2>1. Len(b.pending) \in Nat /\ SeesIn(b, lat) /\ q.gpu.staged = b.gpu.staged
    BY <1>1, <1>10, <1>12 DEF StreamInv
  <2>2. Len(b.pending) + 1 \in Nat /\ \A i \in 1 .. Len(b.pending) : i \in Nat
    BY <2>1
  <2>3. q.gpu.lost = b.gpu.lost
    BY <1>10, <1>12
  <2>4. ASSUME Sees(b, lat) PROVE Sees(q, lat)
    BY <2>2, <2>4, <1>12, <1>14 DEF Sees, At
  <2> QED BY <1>12, <1>14, <2>1, <2>2, <2>3, <2>4 DEF SeesIn, At
<1>16. RingsIn(q)
  <2> SUFFICES ASSUME NEW i \in At(b), NEW r \in Rings, NEW s \in b.pending[i].at[r]
               PROVE  s <= q.gpu.used[r] /\ q.queue.ring[r][s] = b.pending[i].data
    BY <1>12 DEF RingsIn, At
  <2>1. s <= b.gpu.used[r] /\ b.queue.ring[r][s] = b.pending[i].data
    BY DEF StreamInv, RingsIn
  <2>2. s \in 1 .. RingSlots
    <3>1. b.pending[i] \in Commands
      BY <1>1 DEF At
    <3> QED BY <3>1 DEF Commands
  <2> QED BY <2>1, <2>2, <1>6, <1>8, <1>9, <1>12
<1>17. ScratchIn(q) /\ LosesIn(q)
  BY <1>10, <1>12 DEF StreamInv, ScratchIn, LosesIn, At, Doomed
<1> QED BY <1>5, <1>8, <1>9, <1>11, <1>12, <1>13, <1>15, <1>16, <1>17 DEF StreamInv, q

(* What Command makes is a command that uses and sees nothing.              *)
LEMMA CommandIs ==
    ASSUME NEW op \in {"copy", "draw", "compute", "resolve", "grow", "pass", "clear"}
    PROVE  /\ Command(op) \in Commands /\ Command(op).op = op /\ Command(op).uses = {}
           /\ Command(op).at = [r \in Rings |-> {}] /\ Command(op).sees = <<>>
           /\ Command(op).loses = {} /\ Command(op).data = 0 /\ Command(op).page = 0
<1>1. 0 \in Words /\ 0 \in 0 .. StagingSlots /\ [r \in Rings |-> {}] \in [Rings -> SUBSET (1 .. RingSlots)]
  BY BackendAssumption DEF Words
<1> QED BY <1>1 DEF Command, Commands

(* A compute command: it finds its constants, and a resolve writes a page.  *)
LEMMA ComputedIs ==
    ASSUME NEW b \in Backends, NEW lat \in [GpuPages -> Words], StreamInv(b, lat),
           NEW n \in 0 .. 1, streamed + 1 \in Words, NEW c \in Commands,
           c.sees \in {<<>>, lat}, c.loses = {}, c.op # "copy",
           c.uses \cap (b.gpu.destroyed \cup b.gpu.retired) = {},
           NEW after,
           \A p \in GpuPages : after[p] = IF c.op = "resolve" /\ c.page = p THEN streamed + 1 ELSE lat[p]
    PROVE  /\ Computed(b, c, n) \in Backends /\ StreamInv(Computed(b, c, n), after)
           /\ Screened(b, Computed(b, c, n)) /\ Computed(b, c, n).gpu.scratch = b.gpu.scratch
           /\ Spared(b, Computed(b, c, n))
<1> DEFINE need == Uniforms(n)
           room == MadeRoom(b, need)
           q == Pushed(room, need, streamed + 1)
           at == [r \in Rings |-> SlotsFor(room, need, r)]
           d == [c EXCEPT !.at = at, !.data = streamed + 1]
<1>1. need \in [Rings -> 0 .. 1]
  BY DEF Uniforms, Rings
<1> HIDE DEF need
<1>2. /\ room \in Backends /\ StreamInv(room, lat) /\ Screened(b, room) /\ Fits(room, need)
      /\ room.gpu.scratch = b.gpu.scratch /\ Spared(b, room)
  BY <1>1, MadeRoomIs
<1> HIDE DEF room
<1>3. /\ q \in Backends /\ StreamInv(q, lat) /\ Screened(room, q)
      /\ q.gpu = [room.gpu EXCEPT !.used = q.gpu.used]
      /\ \A r \in Rings : \A s \in SlotsFor(room, need, r) :
            s \in 1 .. RingSlots /\ s <= q.gpu.used[r] /\ q.queue.ring[r][s] = streamed + 1
  BY <1>1, <1>2, PushedIs
<1> HIDE DEF q
<1>4. Computed(b, c, n) = Recorded(q, d)
  BY DEF Computed, need, room, q
<1>5. at \in [Rings -> SUBSET (1 .. RingSlots)]
  BY <1>3
<1>6. /\ d \in Commands /\ d.sees = c.sees /\ d.loses = c.loses /\ d.op = c.op /\ d.uses = c.uses
      /\ d.page = c.page /\ d.at = at /\ d.data = streamed + 1
  <2> HIDE DEF at
  <2> QED BY <1>5 DEF Commands
<1>7. \A r \in Rings : \A s \in d.at[r] : s <= q.gpu.used[r] /\ q.queue.ring[r][s] = d.data
  BY <1>3, <1>6
<1> HIDE DEF at, d
<1>8. q.gpu.scratch = b.gpu.scratch
  <2>1. room.gpu \in Sides
    BY <1>2 DEF Backends
  <2> QED BY <1>2, <1>3, <2>1 DEF Sides
<1>15. Spared(b, q)
  <2>1. room.gpu \in Sides
    BY <1>2 DEF Backends
  <2>2. q.gpu.destroyed = room.gpu.destroyed /\ q.gpu.retired = room.gpu.retired
    BY <1>3, <2>1 DEF Sides
  <2> QED BY <1>2, <2>2 DEF Spared
<1>9. d.uses \cap q.gpu.destroyed = {}
  BY <1>6, <1>15 DEF Spared
<1>10. \A p \in GpuPages : after[p] = IF Writes(d, p) THEN Value(q, d) ELSE lat[p]
  BY <1>6 DEF Writes, Value
<1>11. d.op = "copy" => d.slot \in 1 .. q.gpu.staged
  BY <1>6
<1>12. d.sees \in {<<>>, lat} /\ d.loses = {}
  BY <1>6
<1>13. /\ Recorded(q, d) \in Backends /\ Screened(q, Recorded(q, d))
       /\ Recorded(q, d).gpu = q.gpu /\ StreamInv(Recorded(q, d), after)
  BY <1>3, <1>6, <1>7, <1>9, <1>10, <1>11, <1>12, RecordedStream
<1>14. Screened(b, Recorded(q, d))
  BY <1>2, <1>3, <1>13 DEF Screened
<1>16. Spared(b, Recorded(q, d))
  BY <1>13, <1>15 DEF Spared
<1> QED BY <1>4, <1>8, <1>13, <1>14, <1>16

(* A scratch buffer that is replaced is smaller than the new one.           *)
LEMMA ScratchForIs ==
    ASSUME NEW b \in Backends, NEW lat, StreamInv(b, lat), NEW n \in Nat
    PROVE  /\ ScratchFor(b, n) \in Backends /\ StreamInv(ScratchFor(b, n), lat)
           /\ Screened(b, ScratchFor(b, n))
<1> DEFINE q == ScratchFor(b, n)
           A == b.gpu.retired \cup ({Scratch(b.gpu.scratch)} \ {Scratch(0)})
           G == [b.gpu EXCEPT !.retired = A, !.scratch = n]
<1>1. b.gpu \in Sides /\ b.gpu.scratch \in Nat /\ b.pending \in Seq(Commands)
  BY DEF Backends, Sides
<1>2. CASE b.gpu.scratch >= n
  <2>1. q = b /\ Screened(b, b)
    BY <1>2 DEF ScratchFor, Screened
  <2> QED BY <2>1
<1>3. CASE ~(b.gpu.scratch >= n)
  <2>1. A \in SUBSET GpuObjects
    BY <1>1 DEF Sides, Scratch, GpuObjects
  <2>2. q = [b EXCEPT !.gpu = G]
    BY <1>1, <1>3 DEF ScratchFor, Backends, Sides
  <2>3. \A m \in Nat : Scratch(m) \in A \cup b.gpu.destroyed => m < n
    <3>1. \A m \in Nat : Scratch(m) \in b.gpu.retired \cup b.gpu.destroyed => m < b.gpu.scratch
      BY DEF StreamInv, ScratchIn
    <3> QED BY <1>1, <1>3, <3>1, ScratchIs
  <2>10. \A o \in A : \E m \in Nat : o = Scratch(m)
    <3>1. \A o \in b.gpu.retired : \E m \in Nat : o = Scratch(m)
      BY DEF StreamInv, ScratchIn
    <3> QED BY <1>1, <3>1
  <2> HIDE DEF A
  <2>4. G \in Sides /\ G.retired = A /\ G.scratch = n
    BY <1>1, <2>1 DEF Sides
  <2>5. /\ G.pass = b.gpu.pass /\ G.destroyed = b.gpu.destroyed /\ G.lost = b.gpu.lost
        /\ G.staged = b.gpu.staged /\ G.used = b.gpu.used
        /\ G.targets = b.gpu.targets /\ G.tiles = b.gpu.tiles /\ G.rows = b.gpu.rows
        /\ G.bound = b.gpu.bound /\ G.painted = b.gpu.painted
        /\ G.textures = b.gpu.textures /\ G.groups = b.gpu.groups
    BY <1>1 DEF Sides
  <2> HIDE DEF G, q
  <2>6. q \in Backends /\ q.gpu = G /\ q.queue = b.queue /\ q.pending = b.pending
    BY <2>2, <2>4 DEF Backends
  <2>7. \A i \in Nat : \A p : MemoryAt(q, i, p) = MemoryAt(b, i, p)
    BY <2>6, MemoryKept
  <2>8. SeesIn(q, lat) /\ RingsIn(q) /\ LosesIn(q)
    BY <1>1, <2>5, <2>6, <2>7 DEF StreamInv, SeesIn, Sees, RingsIn, LosesIn, At
  <2>9. ScratchIn(q)
    BY <2>3, <2>4, <2>5, <2>6, <2>10 DEF StreamInv, ScratchIn, At, Doomed
  <2> QED BY <2>5, <2>6, <2>8, <2>9 DEF StreamInv, Screened, q
<1> QED BY <1>2, <1>3
-----------------------------------------------------------------------------
(* Render targets.                                                          *)

LEMMA TilesGrow ==
    ASSUME NEW k, NEW n \in Nat, NEW m \in Nat, n <= m
    PROVE  TilesOf(k, n) \subseteq TilesOf(k, m)
<1>1. \A r \in 0 .. n - 1 : r \in 0 .. m - 1
  OBVIOUS
<1> QED BY <1>1 DEF TilesOf

\* What making and taking the targets of a pass leaves alone.
Passing(b, q) ==
    /\ q.gpu.used = b.gpu.used /\ q.gpu.scratch = b.gpu.scratch
    /\ q.gpu.bound = b.gpu.bound /\ q.gpu.rows = b.gpu.rows /\ q.gpu.painted = b.gpu.painted
    /\ q.gpu.textures = b.gpu.textures /\ q.gpu.groups = b.gpu.groups /\ q.gpu.pass = b.gpu.pass
    /\ \A k \in TargetKeys : HasContents(b, k) => HasContents(q, k)

(* Another target for a key, objects destroyed, and nothing else.           *)
Targets == [key : TargetKeys, rows : 1 .. MaxRows, initialized : BOOLEAN]

Retargeted(g, k, f, D) == [g EXCEPT !.targets = [g.targets EXCEPT ![k] = f], !.destroyed = D]

LEMMA RetargetedIs ==
    ASSUME NEW g \in Sides, NEW k \in TargetKeys, NEW f \in Targets, NEW D \in SUBSET GpuObjects
    PROVE  /\ Retargeted(g, k, f, D) \in Sides
           /\ Retargeted(g, k, f, D).targets = [g.targets EXCEPT ![k] = f]
           /\ Retargeted(g, k, f, D).destroyed = D
           /\ Retargeted(g, k, f, D).pass = g.pass /\ Retargeted(g, k, f, D).used = g.used
           /\ Retargeted(g, k, f, D).staged = g.staged
           /\ Retargeted(g, k, f, D).scratch = g.scratch /\ Retargeted(g, k, f, D).retired = g.retired
           /\ Retargeted(g, k, f, D).lost = g.lost
           /\ Retargeted(g, k, f, D).tiles = g.tiles /\ Retargeted(g, k, f, D).rows = g.rows
           /\ Retargeted(g, k, f, D).bound = g.bound /\ Retargeted(g, k, f, D).painted = g.painted
           /\ Retargeted(g, k, f, D).textures = g.textures
           /\ Retargeted(g, k, f, D).groups = g.groups
<1>1. g.targets \in Occupied
  BY DEF Sides
<1>2. [g.targets EXCEPT ![k] = f] \in Occupied
  BY <1>1 DEF Occupied, Targets
<1> QED BY <1>2 DEF Retargeted, Sides

(* The target of a key is there and tall enough, and the tiles of the one   *)
(* it replaces are still its own.                                           *)
LEMMA TargetForIs ==
    ASSUME NEW b \in Backends, NEW lat \in [GpuPages -> Words], StreamInv(b, lat),
           NEW grown \in SUBSET TargetKeys, TilesIn(b, grown), ~b.gpu.pass,
           NEW k \in TargetKeys, k \notin grown
    PROVE  /\ TargetFor(b, k) \in Backends /\ StreamInv(TargetFor(b, k), lat)
           /\ TilesIn(TargetFor(b, k), grown \cup {k}) /\ Passing(b, TargetFor(b, k))
<1> DEFINE t == b.gpu.targets[k]
           fresh(i) == [key |-> k, rows |-> b.gpu.rows, initialized |-> i]
           q == TargetFor(b, k)
<1>1. b.gpu \in Sides /\ b.gpu.rows \in 1 .. MaxRows /\ b.gpu.targets \in Occupied
  BY DEF Backends, Sides
<1>2. \A i \in BOOLEAN : /\ fresh(i) \in Targets
                         /\ fresh(i) # NoTarget
  BY <1>1, BackendAssumption DEF Targets
<1>3. t # NoTarget => /\ t.key = k /\ t.rows \in 1 .. MaxRows /\ t.initialized \in BOOLEAN
                      /\ Object(t) = <<"target", k, t.rows>>
  BY <1>1 DEF Occupied, TilesIn, Object
<1>4. \A n \in 1 .. MaxRows : <<"target", k, n>> \in b.gpu.destroyed => t # NoTarget /\ n < t.rows
  BY DEF TilesIn, DestroyedIn
<1>5. CASE t = NoTarget
  <2> DEFINE D == b.gpu.destroyed
             F == fresh(FALSE)
             G == Retargeted(b.gpu, k, F, D)
  <2>1. q = [b EXCEPT !.gpu = G]
    BY <1>1, <1>5 DEF Retargeted, TargetFor, Backends, Sides
  <2>2. /\ G \in Sides /\ G.targets = [b.gpu.targets EXCEPT ![k] = F]
        /\ G.destroyed = D
        /\ G.pass = b.gpu.pass /\ G.used = b.gpu.used /\ G.staged = b.gpu.staged
        /\ G.scratch = b.gpu.scratch /\ G.retired = b.gpu.retired /\ G.lost = b.gpu.lost
        /\ G.tiles = b.gpu.tiles /\ G.rows = b.gpu.rows
        /\ G.bound = b.gpu.bound /\ G.painted = b.gpu.painted
        /\ G.textures = b.gpu.textures /\ G.groups = b.gpu.groups
    <3>1. F \in Targets
      BY <1>2
    <3>2. D \in SUBSET GpuObjects
      BY <1>1 DEF Sides
    <3>3. G = Retargeted(b.gpu, k, F, D)
      OBVIOUS
    <3> HIDE DEF F, D, G
    <3> QED BY <3>1, <3>2, <3>3, <1>1, RetargetedIs
  <2> HIDE DEF G, q
  <2>3. q \in Backends /\ q.gpu = G /\ q.queue = b.queue /\ q.pending = b.pending
    BY <2>1, <2>2 DEF Backends
  <2>4. SameStream(b, q)
    BY <2>2, <2>3 DEF SameStream
  <2>5. G.targets[k] = fresh(FALSE) /\ \A j \in TargetKeys \ {k} : G.targets[j] = b.gpu.targets[j]
    BY <1>1, <2>2 DEF Occupied
  <2>6. TilesIn(q, grown \cup {k})
    <3>1. fresh(FALSE) # NoTarget /\ fresh(FALSE).key = k /\ fresh(FALSE).rows = b.gpu.rows
      BY <1>2
    <3> HIDE DEF fresh
    <3>2. \A j \in TargetKeys : q.gpu.targets[j] # NoTarget => q.gpu.targets[j].key = j
      BY <2>3, <2>5, <3>1, ZenonT(60) DEF TilesIn
    <3>3. ASSUME NEW u \in 0 .. EdramTiles - 1, q.gpu.tiles[u] # NoTarget
          PROVE  \E j \in TargetKeys, n \in 1 .. MaxRows :
                     /\ q.gpu.tiles[u] = <<"target", j, n>> /\ u \in TilesOf(j, n)
                     /\ q.gpu.targets[j] # NoTarget
                     /\ n = q.gpu.targets[j].rows \/ (j \in grown \cup {k} /\ n <= q.gpu.rows)
      <4>1. PICK j \in TargetKeys, n \in 1 .. MaxRows :
                     /\ b.gpu.tiles[u] = <<"target", j, n>> /\ u \in TilesOf(j, n)
                     /\ b.gpu.targets[j] # NoTarget
                     /\ n = b.gpu.targets[j].rows \/ (j \in grown /\ n <= b.gpu.rows)
        BY <3>3, <2>2, <2>3 DEF TilesIn
      <4>2. j # k
        BY <4>1, <1>5
      <4> QED BY <4>1, <4>2, <2>2, <2>3, <2>5
    <3>4. ASSUME NEW j \in grown \cup {k}
          PROVE  q.gpu.targets[j] # NoTarget /\ q.gpu.targets[j].rows >= q.gpu.rows
      <4>1. CASE j = k
        <5>1. b.gpu.rows >= b.gpu.rows
          BY <1>1
        <5> QED BY <4>1, <5>1, <3>1, <2>2, <2>3, <2>5
      <4>2. CASE j # k
        BY <4>2, <2>2, <2>3, <2>5 DEF TilesIn
      <4> QED BY <4>1, <4>2
    <3>5. DestroyedIn(q)
      <4> SUFFICES ASSUME NEW j \in TargetKeys, NEW n \in 1 .. MaxRows,
                          <<"target", j, n>> \in q.gpu.destroyed
                   PROVE  q.gpu.targets[j] # NoTarget /\ n < q.gpu.targets[j].rows
        BY DEF DestroyedIn
      <4>1. <<"target", j, n>> \in b.gpu.destroyed
        BY <2>2, <2>3
      <4>2. j # k
        BY <4>1, <1>4, <1>5
      <4>3. q.gpu.targets[j] = b.gpu.targets[j]
        BY <4>2, <2>3, <2>5
      <4> QED BY <4>1, <4>3 DEF TilesIn, DestroyedIn
    <3> QED BY <3>2, <3>3, <3>4, <3>5 DEF TilesIn
  <2>7. Passing(b, q)
    BY <1>5, <2>2, <2>3, <2>5 DEF Passing, HasContents
  <2> QED BY <2>3, <2>4, <2>6, <2>7, SteadyStream DEF q
<1>6. CASE t # NoTarget /\ t.rows >= b.gpu.rows
  <2>1. q = b
    BY <1>6 DEF TargetFor
  <2>2. TilesIn(b, grown \cup {k})
    BY <1>6 DEF TilesIn
  <2>3. Passing(b, b)
    BY DEF Passing
  <2> QED BY <2>1, <2>2, <2>3
<1>7. CASE t # NoTarget /\ ~(t.rows >= b.gpu.rows)
  <2> DEFINE i == t.initialized
             D == b.gpu.destroyed \cup {Object(t)}
             G == Retargeted(b.gpu, k, fresh(i), D)
             c == [Command("grow") EXCEPT !.uses = {Object(t), Object(fresh(TRUE))}]
             s == Recorded(b, c)
  <2>1. q = [s EXCEPT !.gpu = G]
    <3>1. EndPass(b) = b
      BY <1>1 DEF EndPass, Backends, Sides
    <3>2. q = Recorded([b EXCEPT !.gpu = G], c)
      BY <1>1, <1>7, <3>1 DEF Retargeted, TargetFor, Carried, Backends, Sides
    <3> HIDE DEF G, c, q
    <3> QED BY <3>2 DEF Recorded, Backends
  <2>2. /\ G \in Sides /\ G.targets = [b.gpu.targets EXCEPT ![k] = fresh(i)]
        /\ G.destroyed = D
        /\ G.pass = b.gpu.pass /\ G.used = b.gpu.used /\ G.staged = b.gpu.staged
        /\ G.scratch = b.gpu.scratch /\ G.retired = b.gpu.retired /\ G.lost = b.gpu.lost
        /\ G.tiles = b.gpu.tiles /\ G.rows = b.gpu.rows
        /\ G.bound = b.gpu.bound /\ G.painted = b.gpu.painted
        /\ G.textures = b.gpu.textures /\ G.groups = b.gpu.groups
    <3>1. fresh(i) \in Targets
      BY <1>2, <1>3, <1>7
    <3>2. D \in SUBSET GpuObjects
      BY <1>1, <1>3, <1>7 DEF Sides, GpuObjects, TargetObjects
    <3>3. G = Retargeted(b.gpu, k, fresh(i), D)
      OBVIOUS
    <3> HIDE DEF fresh, D, i, G
    <3> QED BY <3>1, <3>2, <3>3, <1>1, RetargetedIs
  <2>3. c \in Commands /\ c.sees = <<>> /\ c.loses = {} /\ c.op = "grow" /\ c.at = [r \in Rings |-> {}]
        /\ c.uses = {<<"target", k, t.rows>>, <<"target", k, b.gpu.rows>>}
    <3>1. {<<"target", k, t.rows>>, <<"target", k, b.gpu.rows>>} \in SUBSET GpuObjects
      BY <1>1, <1>3, <1>7 DEF GpuObjects, TargetObjects
    <3>2. c = [Command("grow") EXCEPT !.uses = {<<"target", k, t.rows>>, <<"target", k, b.gpu.rows>>}]
      BY <1>3, <1>7 DEF Object
    <3> HIDE DEF c
    <3> QED BY <3>1, <3>2, CommandIs DEF Commands
  <2>6. G.targets[k] = fresh(i) /\ \A j \in TargetKeys \ {k} : G.targets[j] = b.gpu.targets[j]
    BY <1>1, <2>2 DEF Occupied
  <2>7. fresh(i) # NoTarget /\ fresh(i).key = k /\ fresh(i).rows = b.gpu.rows /\ fresh(i).initialized = i
    BY <1>2, <1>3, <1>7
  <2> HIDE DEF G, s, c, D, i, fresh, q
  <2>4. c.uses \cap b.gpu.destroyed = {}
    <3>1. t.rows \in 1 .. MaxRows /\ t.rows < b.gpu.rows /\ b.gpu.rows \in 1 .. MaxRows
      BY <1>1, <1>3, <1>7, BackendAssumption
    <3>2. ~(t.rows < t.rows) /\ ~(b.gpu.rows < t.rows)
      BY <3>1, BackendAssumption
    <3> QED BY <3>1, <3>2, <1>4, <2>3
  <2>5. \A r \in Rings : \A x \in c.at[r] : x <= b.gpu.used[r] /\ b.queue.ring[r][x] = c.data
    BY <2>3
  <2>8. \A p \in GpuPages : lat[p] = IF Writes(c, p) THEN Value(b, c) ELSE lat[p]
    BY <2>3 DEF Writes
  <2>9. c.op = "copy" => c.slot \in 1 .. b.gpu.staged
    BY <2>3
  <2>10. c.sees \in {<<>>, lat} /\ c.loses = {} /\ c \in Commands
    BY <2>3
  <2>11. Recorded(b, c) \in Backends /\ Recorded(b, c).gpu = b.gpu /\ StreamInv(Recorded(b, c), lat)
    BY <2>4, <2>5, <2>8, <2>9, <2>10, RecordedStream
  <2>12. /\ Len(s.pending) > 0 /\ s.pending[Len(s.pending)] = c
    <3>1. s.pending = Append(b.pending, c) /\ b.pending \in Seq(Commands)
      BY DEF s, Recorded, Backends
    <3>2. Len(Append(b.pending, c)) = Len(b.pending) + 1 /\ Append(b.pending, c)[Len(b.pending) + 1] = c
          /\ Len(b.pending) \in Nat
      BY <2>10, <3>1
    <3> QED BY <3>1, <3>2
  <2>13. s \in Backends /\ s.gpu = b.gpu /\ StreamInv(s, lat)
    BY <2>11 DEF s
  <2>14. q \in Backends /\ q.gpu = G /\ q.queue = s.queue /\ q.pending = s.pending
    BY <2>1, <2>2, <2>13 DEF Backends
  <2>19. Buried(s, <<"target", k, t.rows>>)
    BY <1>3, <1>7, <2>3, <2>12 DEF Buried, TargetObjects
  <2>20. D = b.gpu.destroyed \cup {<<"target", k, t.rows>>}
    BY <1>3, <1>7 DEF D
  <2>21. SameStream(s, q)
    BY <2>2, <2>13, <2>14, <2>19, <2>20 DEF SameStream
  <2>15. q \in Backends /\ StreamInv(q, lat)
    BY <2>13, <2>14, <2>21, SteadyStream
  <2>18. /\ q.gpu.targets[k] = fresh(i)
         /\ \A j \in TargetKeys \ {k} : q.gpu.targets[j] = b.gpu.targets[j]
         /\ q.gpu.tiles = b.gpu.tiles /\ q.gpu.rows = b.gpu.rows
         /\ q.gpu.pass = b.gpu.pass /\ q.gpu.used = b.gpu.used /\ q.gpu.scratch = b.gpu.scratch
         /\ q.gpu.bound = b.gpu.bound /\ q.gpu.painted = b.gpu.painted
         /\ q.gpu.textures = b.gpu.textures /\ q.gpu.groups = b.gpu.groups
    <3>1. q.gpu = G
      BY <2>14
    <3> QED BY <3>1, <2>2, <2>6
  <2>16. TilesIn(q, grown \cup {k})
    <3>2. \A j \in TargetKeys : q.gpu.targets[j] # NoTarget => q.gpu.targets[j].key = j
      BY <2>7, <2>18 DEF TilesIn
    <3>3. ASSUME NEW u \in 0 .. EdramTiles - 1, q.gpu.tiles[u] # NoTarget
          PROVE  \E j \in TargetKeys, n \in 1 .. MaxRows :
                     /\ q.gpu.tiles[u] = <<"target", j, n>> /\ u \in TilesOf(j, n)
                     /\ q.gpu.targets[j] # NoTarget
                     /\ n = q.gpu.targets[j].rows \/ (j \in grown \cup {k} /\ n <= q.gpu.rows)
      <4>1. PICK j \in TargetKeys, n \in 1 .. MaxRows :
                     /\ b.gpu.tiles[u] = <<"target", j, n>> /\ u \in TilesOf(j, n)
                     /\ b.gpu.targets[j] # NoTarget
                     /\ n = b.gpu.targets[j].rows \/ (j \in grown /\ n <= b.gpu.rows)
        BY <3>3, <2>18 DEF TilesIn
      <4>2. CASE j # k
        BY <4>1, <4>2, <2>18
      <4>3. CASE j = k
        <5>1. n = t.rows /\ n <= b.gpu.rows
          BY <4>1, <4>3, <1>1, <1>3, <1>7
        <5> QED BY <4>1, <4>3, <5>1, <2>7, <2>18
      <4> QED BY <4>2, <4>3
    <3>4. ASSUME NEW j \in grown \cup {k}
          PROVE  q.gpu.targets[j] # NoTarget /\ q.gpu.targets[j].rows >= q.gpu.rows
      <4>1. CASE j = k
        <5>1. b.gpu.rows >= b.gpu.rows
          BY <1>1
        <5> QED BY <4>1, <5>1, <2>7, <2>18
      <4>2. CASE j # k
        BY <4>2, <2>18 DEF TilesIn
      <4> QED BY <4>1, <4>2
    <3>5. DestroyedIn(q)
      <4> SUFFICES ASSUME NEW j \in TargetKeys, NEW n \in 1 .. MaxRows,
                          <<"target", j, n>> \in q.gpu.destroyed
                   PROVE  q.gpu.targets[j] # NoTarget /\ n < q.gpu.targets[j].rows
        BY DEF DestroyedIn
      <4>1. <<"target", j, n>> \in b.gpu.destroyed \/ (j = k /\ n = t.rows)
        BY <2>2, <2>14, <2>20
      <4>2. CASE j = k
        <5>1. n <= t.rows
          BY <4>1, <4>2, <1>3, <1>4, <1>7, BackendAssumption
        <5>2. n < b.gpu.rows
          BY <5>1, <1>1, <1>3, <1>7, BackendAssumption
        <5> QED BY <4>2, <5>2, <2>7, <2>18
      <4>3. CASE j # k
        BY <4>1, <4>3, <2>18 DEF TilesIn, DestroyedIn
      <4> QED BY <4>2, <4>3
    <3> QED BY <3>2, <3>3, <3>4, <3>5 DEF TilesIn
  <2>17. Passing(b, q)
    BY <1>7, <2>7, <2>18 DEF Passing, HasContents, i
  <2> QED BY <2>15, <2>16, <2>17 DEF q
<1> QED BY <1>5, <1>6, <1>7

(* The tiles of a target, and with them its contents, become its own.       *)
LEMMA TakenIs ==
    ASSUME NEW b \in Backends, NEW lat \in [GpuPages -> Words], StreamInv(b, lat),
           NEW grown \in SUBSET TargetKeys, TilesIn(b, grown), NEW k \in grown
    PROVE  /\ Taken(b, k) \in Backends /\ StreamInv(Taken(b, k), lat)
           /\ TilesIn(Taken(b, k), grown \ {k}) /\ Passing(b, Taken(b, k))
           /\ HasContents(Taken(b, k), k)
<1> DEFINE t == b.gpu.targets[k]
           f == [t EXCEPT !.initialized = TRUE]
           T == [b.gpu.targets EXCEPT ![k] = f]
           O == Owned(b, k)
           G == [b.gpu EXCEPT !.tiles = O, !.targets = T]
           q == Taken(b, k)
<1>1. b.gpu \in Sides /\ b.gpu.rows \in 1 .. MaxRows /\ b.gpu.targets \in Occupied /\ k \in TargetKeys
      /\ b.gpu.tiles \in [0 .. EdramTiles - 1 -> TargetObjects \cup {NoTarget}]
  BY DEF Backends, Sides
<1>2. /\ t # NoTarget /\ t \in Targets /\ t.key = k /\ t.rows \in 1 .. MaxRows /\ b.gpu.rows <= t.rows
      /\ Object(t) = <<"target", k, t.rows>>
  BY <1>1 DEF Occupied, Targets, TilesIn, Object
<1>3. f \in Targets /\ f # NoTarget /\ f.key = k /\ f.rows = t.rows /\ f.initialized = TRUE
  BY <1>2, BackendAssumption DEF Targets
<1>4. T \in Occupied /\ T[k] = f /\ \A j \in TargetKeys \ {k} : T[j] = b.gpu.targets[j]
  <2> HIDE DEF f
  <2> QED BY <1>1, <1>3 DEF Occupied, Targets
<1>5. /\ O \in [0 .. EdramTiles - 1 -> TargetObjects \cup {NoTarget}]
      /\ \A u \in 0 .. EdramTiles - 1 :
            O[u] = IF u \in TilesOf(k, b.gpu.rows) THEN <<"target", k, t.rows>> ELSE b.gpu.tiles[u]
  <2>1. <<"target", k, t.rows>> \in TargetObjects
    BY <1>1, <1>2 DEF TargetObjects
  <2>2. O = [u \in 0 .. EdramTiles - 1 |->
                IF u \in TilesOf(k, b.gpu.rows) THEN <<"target", k, t.rows>> ELSE b.gpu.tiles[u]]
    BY <1>2 DEF Owned
  <2> HIDE DEF O
  <2> QED BY <1>1, <2>1, <2>2
<1>6. q = [b EXCEPT !.gpu = G]
  BY <1>1 DEF Taken, Backends, Sides, Occupied
<1> HIDE DEF O, T, f, q
<1>7. /\ G \in Sides /\ G.targets = T /\ G.tiles = O /\ G.destroyed = b.gpu.destroyed
      /\ G.pass = b.gpu.pass /\ G.used = b.gpu.used /\ G.staged = b.gpu.staged
      /\ G.scratch = b.gpu.scratch /\ G.retired = b.gpu.retired /\ G.lost = b.gpu.lost /\ G.rows = b.gpu.rows
      /\ G.bound = b.gpu.bound /\ G.painted = b.gpu.painted
      /\ G.textures = b.gpu.textures /\ G.groups = b.gpu.groups
  BY <1>1, <1>4, <1>5 DEF Sides
<1> HIDE DEF G
<1>8. q \in Backends /\ q.gpu = G /\ q.queue = b.queue /\ q.pending = b.pending
  BY <1>6, <1>7 DEF Backends
<1>9. SameStream(b, q)
  BY <1>7, <1>8 DEF SameStream
<1>10. StreamInv(q, lat)
  BY <1>8, <1>9, SteadyStream
<1>11. /\ q.gpu.targets[k] = f /\ \A j \in TargetKeys \ {k} : q.gpu.targets[j] = b.gpu.targets[j]
       /\ q.gpu.rows = b.gpu.rows
       /\ \A u \in 0 .. EdramTiles - 1 :
             q.gpu.tiles[u] = IF u \in TilesOf(k, b.gpu.rows) THEN <<"target", k, t.rows>> ELSE b.gpu.tiles[u]
  BY <1>4, <1>5, <1>7, <1>8
<1>12. TilesIn(q, grown \ {k})
  <2>1. \A j \in TargetKeys : q.gpu.targets[j] # NoTarget => q.gpu.targets[j].key = j
    BY <1>3, <1>11 DEF TilesIn
  <2>2. ASSUME NEW u \in 0 .. EdramTiles - 1, q.gpu.tiles[u] # NoTarget
        PROVE  \E j \in TargetKeys, n \in 1 .. MaxRows :
                   /\ q.gpu.tiles[u] = <<"target", j, n>> /\ u \in TilesOf(j, n)
                   /\ q.gpu.targets[j] # NoTarget
                   /\ n = q.gpu.targets[j].rows \/ (j \in grown \ {k} /\ n <= q.gpu.rows)
    <3>1. CASE u \in TilesOf(k, b.gpu.rows)
      <4>1. u \in TilesOf(k, t.rows)
        <5>1. b.gpu.rows \in Nat /\ t.rows \in Nat
          BY <1>1, <1>2, BackendAssumption
        <5> QED BY <3>1, <5>1, <1>2, TilesGrow
      <4>2. q.gpu.tiles[u] = <<"target", k, t.rows>>
        BY <3>1, <1>11
      <4>3. q.gpu.targets[k] # NoTarget /\ t.rows = q.gpu.targets[k].rows
        BY <1>3, <1>11
      <4> QED BY <4>1, <4>2, <4>3, <1>1, <1>2
    <3>2. CASE u \notin TilesOf(k, b.gpu.rows)
      <4>1. q.gpu.tiles[u] = b.gpu.tiles[u]
        BY <3>2, <1>11
      <4>2. PICK j \in TargetKeys, n \in 1 .. MaxRows :
                   /\ b.gpu.tiles[u] = <<"target", j, n>> /\ u \in TilesOf(j, n)
                   /\ b.gpu.targets[j] # NoTarget
                   /\ n = b.gpu.targets[j].rows \/ (j \in grown /\ n <= b.gpu.rows)
        BY <2>2, <4>1 DEF TilesIn
      <4>3. CASE j # k
        BY <4>1, <4>2, <4>3, <1>11
      <4>4. CASE j = k
        <5>1. n = t.rows
          <6> SUFFICES ASSUME n # t.rows PROVE FALSE
            OBVIOUS
          <6>1. n <= b.gpu.rows /\ u \in TilesOf(k, n)
            BY <4>2, <4>4
          <6>2. n \in Nat /\ b.gpu.rows \in Nat
            BY <1>1, BackendAssumption
          <6> QED BY <6>1, <6>2, <3>2, TilesGrow
        <5> QED BY <5>1, <4>1, <4>2, <4>4, <1>3, <1>11
      <4> QED BY <4>3, <4>4
    <3> QED BY <3>1, <3>2
  <2>3. ASSUME NEW j \in grown \ {k}
        PROVE  q.gpu.targets[j] # NoTarget /\ q.gpu.targets[j].rows >= q.gpu.rows
    BY <1>11 DEF TilesIn
  <2>4. DestroyedIn(q)
    <3> SUFFICES ASSUME NEW j \in TargetKeys, NEW n \in 1 .. MaxRows,
                        <<"target", j, n>> \in q.gpu.destroyed
                 PROVE  q.gpu.targets[j] # NoTarget /\ n < q.gpu.targets[j].rows
      BY DEF DestroyedIn
    <3>1. b.gpu.targets[j] # NoTarget /\ n < b.gpu.targets[j].rows
      BY <1>7, <1>8 DEF TilesIn, DestroyedIn
    <3>2. CASE j = k
      BY <3>1, <3>2, <1>3, <1>11
    <3>3. CASE j # k
      BY <3>1, <3>3, <1>11
    <3> QED BY <3>2, <3>3
  <2> QED BY <2>1, <2>2, <2>3, <2>4 DEF TilesIn
<1>13. HasContents(q, k) /\ \A j \in TargetKeys : HasContents(b, j) => HasContents(q, j)
  BY <1>3, <1>11 DEF HasContents
<1>14. Passing(b, q)
  BY <1>7, <1>8, <1>13 DEF Passing
<1> QED BY <1>8, <1>10, <1>12, <1>13, <1>14 DEF q

(* A pass that begins: its targets are there, own their tiles, and none     *)
(* that has contents is cleared.                                            *)
LEMMA BeginPassIs ==
    ASSUME NEW b \in Backends, NEW lat \in [GpuPages -> Words], StreamInv(b, lat), ScreenInv(b)
    PROVE  /\ BeginPass(b) \in Backends /\ StreamInv(BeginPass(b), lat) /\ ScreenInv(BeginPass(b))
           /\ BeginPass(b).gpu.used = b.gpu.used
<1> DEFINE leading == CHOOSE k \in b.gpu.bound : TRUE
           others == b.gpu.bound \ {leading}
           second == CHOOSE k \in others : TRUE
           one == TargetFor(b, leading)
           made == IF others = {} THEN one ELSE TargetFor(one, second)
           owned == IF others = {} THEN Taken(made, leading) ELSE Taken(Taken(made, leading), second)
           cleared == {k \in b.gpu.bound : ~made.gpu.targets[k].initialized}
           s == [owned EXCEPT !.gpu.pass = TRUE]
           c == [Command("pass") EXCEPT !.loses = cleared \cap b.gpu.painted]
           q == BeginPass(b)
<1>1. b.gpu \in Sides /\ b.gpu.bound \in SUBSET TargetKeys /\ b.gpu.painted \in SUBSET TargetKeys
  BY DEF Backends, Sides
<1>2. CASE b.gpu.pass \/ b.gpu.bound = {}
  BY <1>2 DEF BeginPass
<1>3. CASE ~(b.gpu.pass \/ b.gpu.bound = {})
  <2>1. q = Recorded(s, c)
    BY <1>3 DEF BeginPass
  <2>2. /\ leading \in b.gpu.bound /\ (others # {} => second \in others)
        /\ b.gpu.bound = IF others = {} THEN {leading} ELSE {leading, second}
    <3>1. leading \in b.gpu.bound
      BY <1>3
    <3>2. others # {} => second \in others
      OBVIOUS
    <3> HIDE DEF leading, second
    <3> QED BY <3>1, <3>2 DEF ScreenInv, BoundIn
  <2>3. TilesIn(b, {})
    BY DEF ScreenInv
  <2> HIDE DEF leading, second
  <2>4. /\ one \in Backends /\ StreamInv(one, lat) /\ TilesIn(one, {leading}) /\ Passing(b, one)
    <3>1. leading \in TargetKeys /\ {} \in SUBSET TargetKeys /\ leading \notin {} /\ ~b.gpu.pass
      BY <1>1, <1>3, <2>2
    <3>2. {} \cup {leading} = {leading}
      OBVIOUS
    <3>3. TilesIn(one, {} \cup {leading})
      BY <2>3, <3>1, TargetForIs
    <3> QED BY <2>3, <3>1, <3>2, <3>3, TargetForIs
  <2>5. made \in Backends /\ StreamInv(made, lat) /\ TilesIn(made, b.gpu.bound) /\ Passing(b, made)
    <3>1. CASE others = {}
      BY <3>1, <2>2, <2>4
    <3>2. CASE others # {}
      <4>1. made = TargetFor(one, second)
        BY <3>2
      <4>2. second \in TargetKeys /\ {leading} \in SUBSET TargetKeys /\ second \notin {leading}
            /\ {leading} \cup {second} = b.gpu.bound
        BY <3>2, <1>1, <2>2
      <4>3. ~one.gpu.pass
        BY <2>4, <1>3 DEF Passing
      <4> HIDE DEF one, others, made
      <4>4. /\ TargetFor(one, second) \in Backends /\ StreamInv(TargetFor(one, second), lat)
            /\ TilesIn(TargetFor(one, second), {leading} \cup {second})
            /\ Passing(one, TargetFor(one, second))
        BY <4>2, <4>3, <2>4, TargetForIs
      <4>5. Passing(b, made)
        BY <4>1, <4>4, <2>4 DEF Passing
      <4> QED BY <4>1, <4>2, <4>4, <4>5
    <3> QED BY <3>1, <3>2
  <2> HIDE DEF one, made
  <2>6. /\ owned \in Backends /\ StreamInv(owned, lat) /\ TilesIn(owned, {}) /\ Passing(b, owned)
        /\ \A k \in b.gpu.bound : HasContents(owned, k)
    <3>1. /\ Taken(made, leading) \in Backends /\ StreamInv(Taken(made, leading), lat)
          /\ TilesIn(Taken(made, leading), b.gpu.bound \ {leading}) /\ Passing(made, Taken(made, leading))
          /\ HasContents(Taken(made, leading), leading)
      BY <1>1, <2>2, <2>5, TakenIs
    <3>2. CASE others = {}
      <4>1. owned = Taken(made, leading) /\ b.gpu.bound \ {leading} = {} /\ b.gpu.bound = {leading}
        BY <3>2, <2>2
      <4>2. Passing(b, owned)
        BY <4>1, <3>1, <2>5 DEF Passing
      <4> QED BY <4>1, <4>2, <3>1
    <3>3. CASE others # {}
      <4> DEFINE m == Taken(made, leading)
      <4>1. owned = Taken(m, second)
        BY <3>3
      <4>2. second \in b.gpu.bound \ {leading} /\ b.gpu.bound \ {leading} \in SUBSET TargetKeys
            /\ (b.gpu.bound \ {leading}) \ {second} = {} /\ b.gpu.bound = {leading, second}
        BY <3>3, <1>1, <2>2
      <4>3. m \in Backends /\ StreamInv(m, lat) /\ TilesIn(m, b.gpu.bound \ {leading}) /\ Passing(made, m)
            /\ HasContents(m, leading)
        BY <3>1
      <4> HIDE DEF m, others, owned
      <4>4. /\ Taken(m, second) \in Backends /\ StreamInv(Taken(m, second), lat)
            /\ TilesIn(Taken(m, second), (b.gpu.bound \ {leading}) \ {second})
            /\ Passing(m, Taken(m, second)) /\ HasContents(Taken(m, second), second)
        BY <4>2, <4>3, TakenIs
      <4>5. Passing(b, owned)
        BY <4>1, <4>3, <4>4, <2>5 DEF Passing
      <4>6. HasContents(owned, leading)
        BY <4>1, <4>2, <4>3, <4>4, <1>1, <2>2 DEF Passing
      <4> QED BY <4>1, <4>2, <4>4, <4>5, <4>6
    <3> QED BY <3>2, <3>3
  <2>7. cleared \cap b.gpu.painted = {}
    <3>1. \A k \in b.gpu.painted : k \in TargetKeys /\ HasContents(b, k)
      BY <1>1 DEF ScreenInv, PaintIn
    <3> QED BY <3>1, <2>5 DEF Passing, HasContents
  <2> HIDE DEF owned, cleared
  <2>8. c = [Command("pass") EXCEPT !.loses = {}]
    BY <2>7
  <2>9. c \in Commands /\ c.sees = <<>> /\ c.loses = {} /\ c.op = "pass" /\ c.uses = {}
        /\ c.at = [r \in Rings |-> {}]
    <3> HIDE DEF c
    <3> QED BY <2>8, CommandIs DEF Commands
  <2> DEFINE G == [owned.gpu EXCEPT !.pass = TRUE]
  <2>10. owned.gpu \in Sides /\ s = [owned EXCEPT !.gpu = G]
    BY <2>6 DEF Backends
  <2>11. /\ G \in Sides /\ G.pass = TRUE
         /\ G.targets = owned.gpu.targets /\ G.tiles = owned.gpu.tiles /\ G.destroyed = owned.gpu.destroyed
         /\ G.used = owned.gpu.used /\ G.staged = owned.gpu.staged
         /\ G.scratch = owned.gpu.scratch /\ G.retired = owned.gpu.retired /\ G.lost = owned.gpu.lost /\ G.rows = owned.gpu.rows
         /\ G.bound = owned.gpu.bound /\ G.painted = owned.gpu.painted
         /\ G.textures = owned.gpu.textures /\ G.groups = owned.gpu.groups
    BY <2>10 DEF Sides
  <2> HIDE DEF G, s, c, q
  <2>12. s \in Backends /\ s.gpu = G /\ s.queue = owned.queue /\ s.pending = owned.pending
    BY <2>6, <2>10, <2>11 DEF Backends
  <2>13. SameStream(owned, s)
    BY <2>11, <2>12 DEF SameStream
  <2>14. StreamInv(s, lat)
    BY <2>6, <2>12, <2>13, SteadyStream
  <2>15. \A r \in Rings : \A x \in c.at[r] : x <= s.gpu.used[r] /\ s.queue.ring[r][x] = c.data
    BY <2>9
  <2>16. c.uses \cap s.gpu.destroyed = {}
    BY <2>9
  <2>17. \A p \in GpuPages : lat[p] = IF Writes(c, p) THEN Value(s, c) ELSE lat[p]
    BY <2>9 DEF Writes
  <2>18. c.op = "copy" => c.slot \in 1 .. s.gpu.staged
    BY <2>9
  <2>19. c.sees \in {<<>>, lat} /\ c.loses = {} /\ c \in Commands
    BY <2>9
  <2>20. q \in Backends /\ q.gpu = s.gpu /\ StreamInv(q, lat)
    BY <2>1, <2>12, <2>14, <2>15, <2>16, <2>17, <2>18, <2>19, RecordedStream
  <2>21. q.gpu = G
    BY <2>12, <2>20
  <2>22. TilesIn(q, {})
    BY <2>6, <2>11, <2>21 DEF TilesIn, DestroyedIn
  <2>23. PaintIn(q)
    <3>1. \A k \in b.gpu.painted : k \in TargetKeys /\ HasContents(b, k)
      BY <1>1 DEF ScreenInv, PaintIn
    <3>2. \A k : HasContents(owned, k) => HasContents(q, k)
      BY <2>11, <2>21 DEF HasContents
    <3>3. q.gpu.painted = b.gpu.painted /\ q.gpu.bound = b.gpu.bound
      BY <2>6, <2>11, <2>21 DEF Passing
    <3> QED BY <2>6, <3>1, <3>2, <3>3 DEF PaintIn, Passing
  <2>24. GroupsIn(q) /\ BoundIn(q) /\ q.gpu.used = b.gpu.used
    BY <2>6, <2>11, <2>21 DEF ScreenInv, GroupsIn, BoundIn, ViewOf, Passing
  <2> QED BY <2>20, <2>22, <2>23, <2>24 DEF ScreenInv, q
<1> QED BY <1>2, <1>3
-----------------------------------------------------------------------------
(* The operations.                                                          *)

BackendInv(b, lat) ==
    b \in Backends /\ lat \in [GpuPages -> Words] /\ StreamInv(b, lat) /\ ScreenInv(b)

GpuInv == BackendInv(Backend, latest) /\ streamed \in Words

LEMMA BecomesInv ==
    ASSUME NEW q, NEW l, Becomes(q), latest' = l, BackendInv(q, l)
    PROVE  BackendInv(Backend, latest)'
<1>1. [gpu |-> gpu', queue |-> queue', pending |-> pending'] = q
  BY DEF BackendInv, Backends, Becomes
<1> QED BY <1>1 DEF Backend, BackendInv

LEMMA BackendKept ==
    ASSUME BackendInv(Backend, latest), UNCHANGED <<gpu, queue, pending, latest>>
    PROVE  BackendInv(Backend, latest)'
<1>1. Becomes(Backend)
  BY DEF Becomes, Backend
<1> QED BY <1>1, BecomesInv

LEMMA SteadyInv ==
    ASSUME NEW b, NEW lat, BackendInv(b, lat), NEW q \in Backends, SameStream(b, q), ScreenInv(q)
    PROVE  BackendInv(q, lat)
  BY SteadyStream DEF BackendInv

LEMMA EndPassInv ==
    ASSUME NEW b, NEW lat, BackendInv(b, lat)
    PROVE  /\ BackendInv(EndPass(b), lat) /\ EndPass(b).gpu.scratch = b.gpu.scratch
           /\ Spared(b, EndPass(b))
<1>1. b \in Backends /\ ScreenInv(b)
  BY DEF BackendInv
<1>2. EndPass(b) \in Backends /\ SameStream(b, EndPass(b)) /\ Screened(b, EndPass(b))
      /\ EndPass(b).gpu = [b.gpu EXCEPT !.pass = FALSE]
  BY <1>1, EndPassIs
<1>3. ScreenInv(EndPass(b))
  BY <1>1, <1>2, ScreenedKept
<1>4. Spared(b, EndPass(b))
  <2>1. b.gpu \in Sides
    BY <1>1 DEF Backends
  <2> QED BY <1>2, <2>1 DEF Spared, Sides
<1> QED BY <1>2, <1>3, <1>4, SteadyInv DEF SameStream

LEMMA SubmitInv ==
    ASSUME NEW b, NEW lat, BackendInv(b, lat)
    PROVE  BackendInv(Submit(b), lat) /\ Submit(b).pending = <<>> /\ Submit(b).gpu.staged = 0
<1>1. b \in Backends /\ lat \in [GpuPages -> Words] /\ StreamInv(b, lat) /\ ScreenInv(b)
  BY DEF BackendInv
<1>2. /\ Submit(b) \in Backends /\ StreamInv(Submit(b), lat) /\ Screened(b, Submit(b))
      /\ Submit(b).pending = <<>> /\ Submit(b).gpu.staged = 0
  BY <1>1, SubmitIs
<1>3. ScreenInv(Submit(b))
  BY <1>1, <1>2, ScreenedKept
<1> QED BY <1>1, <1>2, <1>3 DEF BackendInv

(* A target there is has neither been destroyed nor is it about to be.      *)
LEMMA StandsIs ==
    ASSUME NEW b \in Backends, ScratchIn(b), TilesIn(b, {}), NEW k \in TargetKeys,
           b.gpu.targets[k] # NoTarget
    PROVE  /\ Object(b.gpu.targets[k]) = <<"target", k, b.gpu.targets[k].rows>>
           /\ Object(b.gpu.targets[k]) \in TargetObjects
           /\ Object(b.gpu.targets[k]) \notin b.gpu.destroyed \cup b.gpu.retired
<1>1. b.gpu.targets \in Occupied
  BY DEF Backends, Sides
<1>2. b.gpu.targets[k].rows \in 1 .. MaxRows /\ b.gpu.targets[k].key = k
  BY <1>1 DEF Occupied, TilesIn
<1>3. Object(b.gpu.targets[k]) = <<"target", k, b.gpu.targets[k].rows>>
  BY <1>2 DEF Object
<1>4. <<"target", k, b.gpu.targets[k].rows>> \notin b.gpu.destroyed
  <2>1. ~(b.gpu.targets[k].rows < b.gpu.targets[k].rows)
    BY <1>2, BackendAssumption
  <2> QED BY <1>2, <2>1 DEF TilesIn, DestroyedIn
<1>5. <<"target", k, b.gpu.targets[k].rows>> \notin b.gpu.retired
  BY ScratchIs DEF ScratchIn
<1> QED BY <1>2, <1>3, <1>4, <1>5 DEF TargetObjects

LEMMA ComputedInv ==
    ASSUME NEW b, NEW lat, BackendInv(b, lat), streamed + 1 \in Words, NEW n \in 0 .. 1,
           NEW c \in Commands, c.sees = lat, c.loses = {}, c.op \in {"compute", "clear"},
           c.uses \cap (b.gpu.destroyed \cup b.gpu.retired) = {}
    PROVE  /\ BackendInv(Computed(b, c, n), lat) /\ Screened(b, Computed(b, c, n))
           /\ Computed(b, c, n).gpu.scratch = b.gpu.scratch
           /\ Spared(b, Computed(b, c, n))
<1>1. b \in Backends /\ lat \in [GpuPages -> Words] /\ StreamInv(b, lat) /\ ScreenInv(b)
  BY DEF BackendInv
<1>2. c.sees \in {<<>>, lat} /\ c.op # "copy"
  OBVIOUS
<1>3. \A p \in GpuPages : lat[p] = IF c.op = "resolve" /\ c.page = p THEN streamed + 1 ELSE lat[p]
  OBVIOUS
<1>4. /\ Computed(b, c, n) \in Backends /\ StreamInv(Computed(b, c, n), lat)
      /\ Screened(b, Computed(b, c, n)) /\ Computed(b, c, n).gpu.scratch = b.gpu.scratch
      /\ Spared(b, Computed(b, c, n))
  BY <1>1, <1>2, <1>3, ComputedIs
<1>5. ScreenInv(Computed(b, c, n))
  BY <1>1, <1>4, ScreenedKept
<1> QED BY <1>1, <1>4, <1>5 DEF BackendInv

-----------------------------------------------------------------------------

LEMMA ShaderKept ==
    ASSUME BackendInv(Backend, latest), NEW id \in Shaders, NEW converts \in BOOLEAN,
           DefineShader(id, converts)
    PROVE  BackendInv(Backend, latest)'
<1> DEFINE S == IF converts THEN gpu.shaders \cup {id} ELSE gpu.shaders \ {id}
           G == [gpu EXCEPT !.shaders = S]
           q == [Backend EXCEPT !.gpu = G]
<1>1. gpu \in Sides /\ Backend \in Backends /\ Backend.gpu = gpu /\ ScreenInv(Backend)
  BY DEF BackendInv, Backend, Backends
<1>2. S \in SUBSET Shaders
  BY <1>1 DEF Sides
<1>3. gpu' = G
  BY <1>1 DEF DefineShader
<1> HIDE DEF S
<1>4. /\ G \in Sides /\ G.pass = gpu.pass /\ G.used = gpu.used /\ G.staged = gpu.staged
      /\ G.scratch = gpu.scratch /\ G.retired = gpu.retired /\ G.lost = gpu.lost /\ G.destroyed = gpu.destroyed
      /\ G.targets = gpu.targets /\ G.tiles = gpu.tiles /\ G.rows = gpu.rows
      /\ G.bound = gpu.bound /\ G.painted = gpu.painted
      /\ G.textures = gpu.textures /\ G.groups = gpu.groups
  BY <1>1, <1>2 DEF Sides
<1> HIDE DEF G
<1>5. q \in Backends /\ q.gpu = G /\ q.queue = queue /\ q.pending = pending
  BY <1>1, <1>4 DEF Backends, Backend
<1>6. SameStream(Backend, q) /\ Screened(Backend, q)
  BY <1>4, <1>5 DEF SameStream, Screened, Backend
<1>7. Becomes(q) /\ latest' = latest
  BY <1>3, <1>5 DEF DefineShader, Becomes
<1> HIDE DEF q
<1>8. BackendInv(q, latest)
  BY <1>1, <1>5, <1>6, ScreenedKept, SteadyInv
<1> QED BY <1>7, <1>8, BecomesInv

LEMMA PipelineKept ==
    ASSUME BackendInv(Backend, latest), NEW valid \in BOOLEAN,
           DefinePipeline("pipeline", {"shader"}, valid)
    PROVE  BackendInv(Backend, latest)'
<1> DEFINE S == IF {"shader"} \subseteq gpu.shaders /\ valid
                THEN gpu.pipelines \cup {"pipeline"} ELSE gpu.pipelines \ {"pipeline"}
           G == [gpu EXCEPT !.pipelines = S]
           q == [Backend EXCEPT !.gpu = G]
<1>1. gpu \in Sides /\ Backend \in Backends /\ Backend.gpu = gpu /\ ScreenInv(Backend)
  BY DEF BackendInv, Backend, Backends
<1>2. S \in SUBSET {"pipeline"}
  BY <1>1 DEF Sides
<1>3. gpu' = G
  BY <1>1 DEF DefinePipeline
<1> HIDE DEF S
<1>4. /\ G \in Sides /\ G.pass = gpu.pass /\ G.used = gpu.used /\ G.staged = gpu.staged
      /\ G.scratch = gpu.scratch /\ G.retired = gpu.retired /\ G.lost = gpu.lost /\ G.destroyed = gpu.destroyed
      /\ G.targets = gpu.targets /\ G.tiles = gpu.tiles /\ G.rows = gpu.rows
      /\ G.bound = gpu.bound /\ G.painted = gpu.painted
      /\ G.textures = gpu.textures /\ G.groups = gpu.groups
  BY <1>1, <1>2 DEF Sides
<1> HIDE DEF G
<1>5. q \in Backends /\ q.gpu = G /\ q.queue = queue /\ q.pending = pending
  BY <1>1, <1>4 DEF Backends, Backend
<1>6. SameStream(Backend, q) /\ Screened(Backend, q)
  BY <1>4, <1>5 DEF SameStream, Screened, Backend
<1>7. Becomes(q) /\ latest' = latest
  BY <1>3, <1>5 DEF DefinePipeline, Becomes
<1> HIDE DEF q
<1>8. BackendInv(q, latest)
  BY <1>1, <1>5, <1>6, ScreenedKept, SteadyInv
<1> QED BY <1>7, <1>8, BecomesInv

LEMMA BindKept ==
    ASSUME BackendInv(Backend, latest), NEW ks \in SUBSET TargetKeys,
           \A x, y, z \in ks : x = y \/ x = z \/ y = z,
           NEW rows \in 1 .. MaxRows, BindTargets(ks, rows)
    PROVE  BackendInv(Backend, latest)'
<1> DEFINE G == [gpu EXCEPT !.pass = FALSE, !.bound = ks, !.rows = rows]
           q == [Backend EXCEPT !.gpu = G]
<1>1. gpu \in Sides /\ Backend \in Backends /\ Backend.gpu = gpu /\ ScreenInv(Backend)
  BY DEF BackendInv, Backend, Backends
<1>2. ks \in SUBSET TargetKeys /\ \A x, y, z \in ks : x = y \/ x = z \/ y = z
  OBVIOUS
<1>3. gpu' = G
  BY DEF BindTargets
<1>4. /\ G \in Sides /\ G.pass = FALSE /\ G.used = gpu.used /\ G.staged = gpu.staged
      /\ G.scratch = gpu.scratch /\ G.retired = gpu.retired /\ G.lost = gpu.lost /\ G.destroyed = gpu.destroyed
      /\ G.targets = gpu.targets /\ G.tiles = gpu.tiles
      /\ G.bound = ks /\ G.painted = gpu.painted
      /\ G.textures = gpu.textures /\ G.groups = gpu.groups
  BY <1>1, <1>2 DEF Sides
<1> HIDE DEF G
<1>5. q \in Backends /\ q.gpu = G /\ q.queue = queue /\ q.pending = pending
  BY <1>1, <1>4 DEF Backends, Backend
<1>6. SameStream(Backend, q)
  BY <1>4, <1>5 DEF SameStream, Backend
<1>7. ScreenInv(q)
  <2>1. TilesIn(q, {})
    BY <1>1, <1>4, <1>5 DEF ScreenInv, TilesIn, DestroyedIn
  <2>2. PaintIn(q)
    BY <1>1, <1>4, <1>5 DEF ScreenInv, PaintIn, HasContents
  <2>3. GroupsIn(q)
    BY <1>1, <1>4, <1>5 DEF ScreenInv, GroupsIn, ViewOf
  <2>4. BoundIn(q)
    BY <1>2, <1>4, <1>5 DEF BoundIn
  <2> QED BY <2>1, <2>2, <2>3, <2>4 DEF ScreenInv
<1>8. Becomes(q) /\ latest' = latest
  BY <1>3, <1>5 DEF BindTargets, Becomes
<1> HIDE DEF q
<1>9. BackendInv(q, latest)
  BY <1>5, <1>6, <1>7, SteadyInv
<1> QED BY <1>8, <1>9, BecomesInv

LEMMA TextureKept ==
    ASSUME BackendInv(Backend, latest), NEW id \in TextureIds, NEW known \in BOOLEAN,
           DefineTexture(id, known)
    PROVE  BackendInv(Backend, latest)'
<1>1. CASE ~known
  <2>1. UNCHANGED <<gpu, queue, pending, latest>>
    BY <1>1 DEF DefineTexture
  <2> QED BY <2>1, BackendKept
<1>2. CASE known
  <2> DEFINE T == gpu.textures \cup {id}
             G == [gpu EXCEPT !.textures = T, !.groups = {}]
             q == [Backend EXCEPT !.gpu = G]
  <2>1. gpu \in Sides /\ Backend \in Backends /\ Backend.gpu = gpu /\ ScreenInv(Backend)
    BY DEF BackendInv, Backend, Backends
  <2>2. T \in SUBSET TextureIds
    BY <2>1 DEF Sides
  <2>3. gpu' = G
    BY <1>2 DEF DefineTexture, GroupsAfter
  <2> HIDE DEF T
  <2>4. /\ G \in Sides /\ G.pass = gpu.pass /\ G.used = gpu.used /\ G.staged = gpu.staged
        /\ G.scratch = gpu.scratch /\ G.retired = gpu.retired /\ G.lost = gpu.lost /\ G.destroyed = gpu.destroyed
        /\ G.targets = gpu.targets /\ G.tiles = gpu.tiles /\ G.rows = gpu.rows
        /\ G.bound = gpu.bound /\ G.painted = gpu.painted /\ G.groups = {}
    BY <2>1, <2>2 DEF Sides
  <2> HIDE DEF G
  <2>5. q \in Backends /\ q.gpu = G /\ q.queue = queue /\ q.pending = pending
    BY <2>1, <2>4 DEF Backends, Backend
  <2>6. SameStream(Backend, q)
    BY <2>4, <2>5 DEF SameStream, Backend
  <2>7. ScreenInv(q)
    <3>1. TilesIn(q, {})
      BY <2>1, <2>4, <2>5 DEF ScreenInv, TilesIn, DestroyedIn
    <3>2. PaintIn(q) /\ BoundIn(q)
      BY <2>1, <2>4, <2>5 DEF ScreenInv, PaintIn, HasContents, BoundIn
    <3>3. GroupsIn(q)
      BY <2>4, <2>5 DEF GroupsIn
    <3> QED BY <3>1, <3>2, <3>3 DEF ScreenInv
  <2>8. Becomes(q) /\ latest' = latest
    BY <2>3, <2>5 DEF DefineTexture, Becomes
  <2> HIDE DEF q
  <2>9. BackendInv(q, latest)
    BY <2>5, <2>6, <2>7, SteadyInv
  <2> QED BY <2>8, <2>9, BecomesInv
<1> QED BY <1>1, <1>2

LEMMA SwapKept ==
    ASSUME BackendInv(Backend, latest), NEW id \in TextureIds, Swap(id)
    PROVE  BackendInv(Backend, latest)'
<1> DEFINE s == Submit(Backend)
           v == ViewOf(Backend, id)
           G == [s.gpu EXCEPT !.front = v]
           q == [s EXCEPT !.gpu = G]
<1>1. BackendInv(s, latest)
  BY SubmitInv
<1> HIDE DEF s
<1>2. s \in Backends /\ s.gpu \in Sides /\ ScreenInv(s)
  BY <1>1 DEF BackendInv, Backends
<1>3. v \in TextureIds \cup {0}
  BY DEF ViewOf
<1>4. Becomes(q) /\ latest' = latest
  BY <1>2 DEF Swap, s, v, Backends, Sides
<1> HIDE DEF v
<1>5. /\ G \in Sides /\ G.pass = s.gpu.pass /\ G.used = s.gpu.used /\ G.staged = s.gpu.staged
      /\ G.scratch = s.gpu.scratch /\ G.retired = s.gpu.retired /\ G.lost = s.gpu.lost /\ G.destroyed = s.gpu.destroyed
      /\ G.targets = s.gpu.targets /\ G.tiles = s.gpu.tiles /\ G.rows = s.gpu.rows
      /\ G.bound = s.gpu.bound /\ G.painted = s.gpu.painted
      /\ G.textures = s.gpu.textures /\ G.groups = s.gpu.groups
  BY <1>2, <1>3 DEF Sides
<1> HIDE DEF G
<1>6. q \in Backends /\ q.gpu = G /\ q.queue = s.queue /\ q.pending = s.pending
  BY <1>2, <1>5 DEF Backends
<1>7. SameStream(s, q) /\ Screened(s, q)
  BY <1>5, <1>6 DEF SameStream, Screened
<1> HIDE DEF q
<1>8. BackendInv(q, latest)
  BY <1>1, <1>2, <1>6, <1>7, ScreenedKept, SteadyInv
<1> QED BY <1>4, <1>8, BecomesInv

LEMMA PresentKept ==
    ASSUME BackendInv(Backend, latest), Present
    PROVE  BackendInv(Backend, latest)'
<1>1. BackendInv(Submit(Backend), latest)
  BY SubmitInv
<1>2. Becomes(Submit(Backend)) /\ latest' = latest
  BY DEF Present
<1> QED BY <1>1, <1>2, BecomesInv

(* An upload behind the rest of the staging buffer.                         *)
LEMMA WrittenInv ==
    ASSUME NEW b, NEW lat, BackendInv(b, lat), streamed + 1 \in Words, NEW p \in GpuPages,
           b.gpu.staged + 1 <= StagingSlots
    PROVE  BackendInv([Written(b, p) EXCEPT !.gpu.staged = b.gpu.staged + 1],
                      [lat EXCEPT ![p] = streamed + 1])
<1> DEFINE v == streamed + 1
           e == EndPass(b)
           slot == b.gpu.staged + 1
           G == [e.gpu EXCEPT !.staged = slot]
           Q == [e.queue EXCEPT !.staging = [e.queue.staging EXCEPT ![slot] = v]]
           w == [e EXCEPT !.gpu = G, !.queue = Q]
           c == [Command("copy") EXCEPT !.page = p, !.slot = slot]
           after == [lat EXCEPT ![p] = v]
           q == Recorded(w, c)
<1>1. b \in Backends /\ lat \in [GpuPages -> Words] /\ ScreenInv(b)
  BY DEF BackendInv
<1>2. e \in Backends /\ BackendInv(e, lat) /\ SameStream(b, e)
  BY <1>1, EndPassInv, EndPassIs
<1>3. e.gpu.staged = b.gpu.staged
  BY <1>2 DEF SameStream
<1>4. [Written(b, p) EXCEPT !.gpu.staged = b.gpu.staged + 1] = q
  <2> HIDE DEF e
  <2> QED BY <1>2 DEF Written, e, Recorded, Backends, Sides, Queues
<1> HIDE DEF e
<1>5. e.gpu \in Sides /\ e.queue \in Queues /\ e.pending \in Seq(Commands) /\ ScreenInv(e)
      /\ StreamInv(e, lat)
  BY <1>2 DEF Backends, BackendInv
<1>6. slot \in 1 .. StagingSlots /\ e.gpu.staged \in Nat /\ slot = e.gpu.staged + 1
  BY <1>3, <1>5, BackendAssumption, SMTT(60) DEF Sides
<1> HIDE DEF slot
<1>7. /\ G \in Sides /\ G.pass = e.gpu.pass /\ G.used = e.gpu.used /\ G.staged = slot
      /\ G.scratch = e.gpu.scratch /\ G.retired = e.gpu.retired /\ G.lost = e.gpu.lost /\ G.destroyed = e.gpu.destroyed
      /\ G.targets = e.gpu.targets /\ G.tiles = e.gpu.tiles /\ G.rows = e.gpu.rows
      /\ G.bound = e.gpu.bound /\ G.painted = e.gpu.painted
      /\ G.textures = e.gpu.textures /\ G.groups = e.gpu.groups
  <2>1. slot \in 0 .. StagingSlots
    BY <1>6
  <2> QED BY <1>5, <2>1 DEF Sides
<1>8. e.queue.staging \in [1 .. StagingSlots -> Words]
  BY <1>5 DEF Queues
<1>9. /\ Q \in Queues /\ Q.memory = e.queue.memory /\ Q.ring = e.queue.ring
      /\ Q.staging = [e.queue.staging EXCEPT ![slot] = v]
  BY <1>5, <1>6, <1>8 DEF Queues
<1>10. Q.staging[slot] = v /\ \A s \in 1 .. e.gpu.staged : Q.staging[s] = e.queue.staging[s]
  <2>1. \A s \in 1 .. e.gpu.staged : s # slot /\ s \in 1 .. StagingSlots
    BY <1>6, BackendAssumption
  <2> QED BY <1>6, <1>8, <1>9, <2>1
<1> HIDE DEF G, Q
<1>11. w \in Backends /\ w.gpu = G /\ w.queue = Q /\ w.pending = e.pending
  BY <1>2, <1>7, <1>9 DEF Backends
<1> HIDE DEF w
<1>12. \A i \in At(e) : e.pending[i].op = "copy" => e.pending[i].slot \in 1 .. e.gpu.staged
  BY <1>5 DEF StreamInv, SeesIn
<1>13. \A i \in 1 .. Len(e.pending) + 1 : \A x : MemoryAt(w, i, x) = MemoryAt(e, i, x)
  <2>1. Len(e.pending) \in Nat
    BY <1>5
  <2>2. \A j \in 1 .. Len(e.pending) : w.pending[j] = e.pending[j]
    BY <1>11
  <2>3. w.queue.memory = e.queue.memory
    BY <1>9, <1>11
  <2>4. \A j \in 1 .. Len(e.pending) : e.pending[j].op = "copy" =>
            w.queue.staging[e.pending[j].slot] = e.queue.staging[e.pending[j].slot]
    BY <1>10, <1>11, <1>12 DEF At
  <2> QED BY <2>1, <2>2, <2>3, <2>4, MemoryUpTo, ZenonT(60)
<1>14. StreamInv(w, lat)
  <2>1. Len(e.pending) \in Nat
    BY <1>5
  <2>2. \A i \in At(w) : w.pending[i].op = "copy" => w.pending[i].slot \in 1 .. w.gpu.staged
    BY <1>6, <1>7, <1>11, <1>12 DEF At
  <2>3. SeesIn(w, lat)
    <3>1. \A i \in At(e) : i \in 1 .. Len(e.pending) + 1
      BY <2>1 DEF At
    <3>2. Len(e.pending) + 1 \in 1 .. Len(e.pending) + 1
      BY <2>1
    <3>3. w.gpu.lost = e.gpu.lost
      BY <1>7, <1>11
    <3>4. ASSUME Sees(e, lat) PROVE Sees(w, lat)
      BY <3>4, <1>11, <1>13, <3>1, <3>2 DEF Sees, At
    <3>5. \A x \in GpuPages : MemoryAt(w, Len(w.pending) + 1, x) \in Words
      BY <1>5, <1>11, <1>13, <3>2 DEF StreamInv, SeesIn
    <3> QED BY <1>5, <2>2, <3>3, <3>4, <3>5 DEF StreamInv, SeesIn
  <2>4. RingsIn(w) /\ ScratchIn(w) /\ LosesIn(w)
    BY <1>5, <1>7, <1>9, <1>11 DEF StreamInv, RingsIn, ScratchIn, LosesIn, At, Doomed
  <2> QED BY <2>3, <2>4 DEF StreamInv
<1>15. c \in Commands /\ c.sees = <<>> /\ c.loses = {} /\ c.op = "copy" /\ c.uses = {}
       /\ c.at = [r \in Rings |-> {}] /\ c.page = p /\ c.slot = slot
  <2>1. slot \in 0 .. StagingSlots /\ Command("copy") \in Commands
    BY <1>6, CommandIs
  <2> QED BY <2>1, CommandIs DEF Commands
<1> HIDE DEF c
<1>16. \A r \in Rings : \A x \in c.at[r] : x <= w.gpu.used[r] /\ w.queue.ring[r][x] = c.data
  BY <1>15
<1>17. c.uses \cap w.gpu.destroyed = {}
  BY <1>15
<1>18. \A x \in GpuPages : after[x] = IF Writes(c, x) THEN Value(w, c) ELSE lat[x]
  BY <1>1, <1>10, <1>11, <1>15 DEF Writes, Value
<1>19. c.op = "copy" => c.slot \in 1 .. w.gpu.staged
  BY <1>6, <1>7, <1>11, <1>15
<1>20. c.sees \in {<<>>, lat} /\ c.loses = {} /\ c \in Commands
  BY <1>15
<1>21. after \in [GpuPages -> Words]
  BY <1>1
<1> HIDE DEF after
<1>22. q \in Backends /\ Screened(w, q) /\ q.gpu = w.gpu /\ StreamInv(q, after)
  BY <1>1, <1>11, <1>14, <1>16, <1>17, <1>18, <1>19, <1>20, RecordedStream
<1>23. Screened(e, w)
  BY <1>7, <1>11 DEF Screened
<1>24. ScreenInv(q)
  BY <1>5, <1>22, <1>23, ScreenedKept
<1> QED BY <1>4, <1>21, <1>22, <1>24 DEF BackendInv, after

LEMMA UploadKept ==
    ASSUME BackendInv(Backend, latest), streamed + 1 \in Words,
           NEW p \in GpuPages \cup LostPages, NEW n \in {1, StagingSlots + 1}, Upload(p, n)
    PROVE  BackendInv(Backend, latest)'
<1> DEFINE b == StagingRoom(Backend, n)
           after == [latest EXCEPT ![p] = streamed + 1]
<1>1. Backend.gpu.staged \in 0 .. StagingSlots /\ Backend \in Backends
  BY DEF BackendInv, Backends, Sides
<1>2. CASE p \in LostPages
  BY <1>2, BackendKept DEF Upload
<1>3. CASE p \notin LostPages /\ n = 1
  <2>1. BackendInv(b, latest) /\ b.gpu.staged + 1 <= StagingSlots
    <3>1. CASE Backend.gpu.staged + 1 > StagingSlots
      <4>1. b = Submit(Backend)
        BY <1>3, <3>1 DEF StagingRoom
      <4>2. BackendInv(Submit(Backend), latest) /\ Submit(Backend).gpu.staged = 0
        BY SubmitInv
      <4> HIDE DEF b
      <4> QED BY <4>1, <4>2, BackendAssumption
    <3>2. CASE ~(Backend.gpu.staged + 1 > StagingSlots)
      <4>1. b = Backend
        BY <1>3, <3>2 DEF StagingRoom
      <4> HIDE DEF b
      <4> QED BY <4>1, <3>2, <1>1, BackendAssumption
    <3> QED BY <3>1, <3>2
  <2>2. ~(n > StagingSlots)
    BY <1>3, BackendAssumption
  <2>3. Becomes([Written(b, p) EXCEPT !.gpu.staged = b.gpu.staged + 1]) /\ latest' = after
    BY <1>3, <2>2 DEF Upload
  <2> HIDE DEF b
  <2>4. BackendInv([Written(b, p) EXCEPT !.gpu.staged = b.gpu.staged + 1], after)
    BY <1>3, <2>1, WrittenInv
  <2> HIDE DEF after
  <2> QED BY <2>3, <2>4, BecomesInv
<1>4. CASE p \notin LostPages /\ n = StagingSlots + 1
  <2> DEFINE e == EndPass(b)
             v == streamed + 1
             Q == [e.queue EXCEPT !.memory = [e.queue.memory EXCEPT ![p] = v]]
             q == [e EXCEPT !.queue = Q]
  <2>1. n > StagingSlots /\ Backend.gpu.staged + n > StagingSlots
    BY <1>1, <1>4, BackendAssumption
  <2>2. b = Submit(Backend)
    BY <2>1 DEF StagingRoom
  <2>3. BackendInv(b, latest) /\ b.pending = <<>>
    BY <2>2, SubmitInv
  <2> HIDE DEF b
  <2>4. b \in Backends
    BY <2>3 DEF BackendInv
  <2>5. BackendInv(e, latest) /\ e.pending = <<>>
    BY <2>3, <2>4, EndPassInv, EndPassIs DEF SameStream
  <2> HIDE DEF e
  <2>6. e \in Backends /\ e.queue \in Queues /\ StreamInv(e, latest) /\ ScreenInv(e)
        /\ latest \in [GpuPages -> Words]
    BY <2>5 DEF BackendInv, Backends
  <2>7. e.queue.memory \in [GpuPages -> Words]
    BY <2>6 DEF Queues
  <2>8. p \in GpuPages
    BY <1>4
  <2>9. /\ Q \in Queues /\ Q.staging = e.queue.staging /\ Q.ring = e.queue.ring
        /\ Q.memory = [e.queue.memory EXCEPT ![p] = v]
    BY <2>6, <2>7, <2>8 DEF Queues
  <2>10. Becomes(q) /\ latest' = after
    <3>1. Becomes([EndPass(b) EXCEPT !.queue.memory[p] = v])
      BY <1>4, <2>1 DEF Upload, b
    <3>2. [EndPass(b) EXCEPT !.queue.memory[p] = v] = q
      BY <2>6 DEF e, Backends, Queues
    <3> QED BY <1>4, <3>1, <3>2, <2>1 DEF Upload
  <2> HIDE DEF Q
  <2>11. q \in Backends /\ q.gpu = e.gpu /\ q.queue = Q /\ q.pending = <<>>
    BY <2>5, <2>6, <2>9 DEF Backends
  <2> HIDE DEF q
  <2>12. ASSUME ~e.gpu.lost PROVE \A x \in GpuPages : e.queue.memory[x] = latest[x]
    <3>1. \A x : MemoryAt(e, 1, x) = e.queue.memory[x]
      BY MemoryFirst
    <3>2. Len(e.pending) + 1 = 1
      BY <2>5
    <3> QED BY <2>6, <2>12, <3>1, <3>2 DEF StreamInv, SeesIn, Sees
  <2>13. StreamInv(q, after)
    <3>1. At(q) = {} /\ Len(q.pending) + 1 = 1
      BY <2>11 DEF At
    <3>5. \A x : MemoryAt(q, 1, x) = Q.memory[x]
      BY <2>11, MemoryFirst
    <3>2. ASSUME ~e.gpu.lost, NEW x \in GpuPages PROVE MemoryAt(q, 1, x) = after[x]
      <4>1. e.queue.memory[x] = latest[x]
        BY <3>2, <2>12
      <4> QED BY <4>1, <3>5, <2>6, <2>7, <2>8, <2>9
    <3>6. \A x \in GpuPages : MemoryAt(q, 1, x) \in Words
      BY <3>5, <2>9 DEF Queues
    <3>7. ASSUME ~e.gpu.lost PROVE Sees(q, after)
      BY <3>1, <3>2, <3>7 DEF Sees
    <3>3. SeesIn(q, after)
      BY <3>1, <3>6, <3>7, <2>11 DEF SeesIn
    <3>4. RingsIn(q) /\ ScratchIn(q) /\ LosesIn(q)
      BY <3>1, <2>6, <2>11 DEF StreamInv, RingsIn, ScratchIn, LosesIn
    <3> QED BY <3>3, <3>4 DEF StreamInv
  <2>14. ScreenInv(q)
    <3>1. Screened(e, q)
      BY <2>11 DEF Screened
    <3> QED BY <3>1, <2>6, ScreenedKept
  <2>15. after \in [GpuPages -> Words]
    BY <2>6, <2>8
  <2>16. BackendInv(q, after)
    BY <2>11, <2>13, <2>14, <2>15 DEF BackendInv
  <2> HIDE DEF after
  <2> QED BY <2>10, <2>16, BecomesInv
<1> QED BY <1>2, <1>3, <1>4

LEMMA LoadKept ==
    ASSUME BackendInv(Backend, latest), streamed + 1 \in Words,
           NEW id \in TextureIds, NEW bytes \in 1 .. 2, LoadTexture(id, bytes, 1)
    PROVE  BackendInv(Backend, latest)'
<1>1. CASE ~(id \in gpu.textures /\ "texture load" \in gpu.shaders)
  BY <1>1, BackendKept DEF LoadTexture
<1>2. CASE id \in gpu.textures /\ "texture load" \in gpu.shaders
  <2> DEFINE e == EndPass(Backend)
             b == ScratchFor(e, bytes)
             U == {Scratch(b.gpu.scratch), <<"texture", id>>}
             c == [Command("compute") EXCEPT !.uses = U, !.sees = latest]
  <2>1. Becomes(Computed(b, c, 1)) /\ latest' = latest
    BY <1>2 DEF LoadTexture
  <2>2. BackendInv(e, latest)
    BY EndPassInv
  <2> HIDE DEF e
  <2>3. e \in Backends /\ StreamInv(e, latest) /\ ScreenInv(e) /\ latest \in [GpuPages -> Words]
        /\ bytes \in Nat
    BY <2>2 DEF BackendInv
  <2>4. b \in Backends /\ StreamInv(b, latest) /\ Screened(e, b)
    BY <2>3, ScratchForIs
  <2> HIDE DEF b
  <2>5. BackendInv(b, latest) /\ b.gpu.scratch \in Nat
    BY <2>3, <2>4, ScreenedKept DEF BackendInv, Backends, Sides
  <2>6. U \in SUBSET GpuObjects /\ U \cap (b.gpu.destroyed \cup b.gpu.retired) = {}
    <3>1. U \in SUBSET GpuObjects
      BY <2>5 DEF GpuObjects, Scratch
    <3>2. Scratch(b.gpu.scratch) \notin b.gpu.destroyed \cup b.gpu.retired
      <4>1. ~(b.gpu.scratch < b.gpu.scratch)
        BY <2>5
      <4> QED BY <2>4, <2>5, <4>1 DEF StreamInv, ScratchIn
    <3>3. <<"texture", id>> \notin b.gpu.destroyed \cup b.gpu.retired
      BY <2>4, ScratchIs DEF StreamInv, ScratchIn
    <3> QED BY <3>1, <3>2, <3>3
  <2> HIDE DEF U
  <2>7. c \in Commands /\ c.sees = latest /\ c.loses = {} /\ c.op = "compute" /\ c.uses = U
    BY <2>3, <2>6, CommandIs DEF Commands
  <2> HIDE DEF c
  <2>8. c.uses \cap (b.gpu.destroyed \cup b.gpu.retired) = {}
    BY <2>6, <2>7
  <2>9. c.op \in {"compute", "clear"} /\ 1 \in 0 .. 1
    BY <2>7
  <2>10. BackendInv(Computed(b, c, 1), latest)
    BY <2>5, <2>7, <2>8, <2>9, ComputedInv
  <2> QED BY <2>1, <2>10, BecomesInv
<1> QED BY <1>1, <1>2

LEMMA DumpKept ==
    ASSUME BackendInv(Backend, latest), streamed + 1 \in Words,
           NEW k \in TargetKeys, NEW rows \in 1 .. MaxRows, DumpEdram(k, rows)
    PROVE  BackendInv(Backend, latest)'
<1> DEFINE owners == {gpu.tiles[t] : t \in TilesOf(k, rows)} \ {NoTarget}
           leading == CHOOSE o \in owners : TRUE
           rest == owners \ {leading}
           second == CHOOSE o \in rest : TRUE
           c(o) == [Command("compute") EXCEPT !.uses = {o}, !.sees = latest]
           dumped(b, o) == Computed(b, c(o), 1)
           one == dumped(EndPass(Backend), leading)
<1>8. TilesOf(k, rows) \subseteq 0 .. EdramTiles - 1
  <2> SUFFICES ASSUME NEW r \in 0 .. rows - 1, NEW x \in 0 .. k.pitch - 1
               PROVE  (k.base + r * k.pitch + x) % EdramTiles \in 0 .. EdramTiles - 1
    BY DEF TilesOf
  <2>1. k.base \in Nat /\ k.pitch \in Nat /\ r \in Nat /\ x \in Nat /\ EdramTiles \in Nat \ {0}
    BY BackendAssumption
  <2>2. r * k.pitch \in Nat
    BY <2>1
  <2> DEFINE y == k.base + r * k.pitch + x
  <2>3. y \in Nat
    BY <2>1, <2>2
  <2> HIDE DEF y
  <2>4. y % EdramTiles \in 0 .. EdramTiles - 1
    BY <2>1, <2>3
  <2> QED BY <2>4 DEF y
<1>1. owners \in SUBSET TargetObjects /\ latest \in [GpuPages -> Words]
  <2>1. gpu.tiles \in [0 .. EdramTiles - 1 -> TargetObjects \cup {NoTarget}]
    BY DEF BackendInv, Backends, Backend, Sides
  <2>2. TilesOf(k, rows) \subseteq 0 .. EdramTiles - 1
    BY <1>8
  <2> QED BY <2>1, <2>2 DEF BackendInv
<1>2. ASSUME NEW b, BackendInv(b, latest), NEW o \in TargetObjects,
             o \notin b.gpu.destroyed \cup b.gpu.retired
      PROVE  BackendInv(dumped(b, o), latest) /\ Spared(b, dumped(b, o))
  <2>1. {o} \in SUBSET GpuObjects
    BY DEF GpuObjects
  <2>3. c(o) \in Commands /\ c(o).sees = latest /\ c(o).loses = {} /\ c(o).op = "compute"
        /\ c(o).uses = {o}
    BY <1>1, <2>1, CommandIs DEF Commands
  <2> DEFINE d == c(o)
  <2> HIDE DEF c, d
  <2>4. /\ d \in Commands /\ d.sees = latest /\ d.loses = {} /\ d.op \in {"compute", "clear"}
        /\ d.uses \cap (b.gpu.destroyed \cup b.gpu.retired) = {}
        /\ 1 \in 0 .. 1
    BY <1>2, <2>3 DEF d
  <2>5. BackendInv(Computed(b, d, 1), latest) /\ Spared(b, Computed(b, d, 1))
    BY <1>2, <2>4, ComputedInv
  <2> QED BY <2>5 DEF d
<1> HIDE DEF dumped
<1>3. BackendInv(EndPass(Backend), latest) /\ Spared(Backend, EndPass(Backend))
  BY EndPassInv
<1>7. \A o \in owners : o \notin Backend.gpu.destroyed \cup Backend.gpu.retired
  <2> SUFFICES ASSUME NEW o \in owners
               PROVE  o \notin Backend.gpu.destroyed \cup Backend.gpu.retired
    OBVIOUS
  <2>1. Backend \in Backends /\ ScratchIn(Backend) /\ TilesIn(Backend, {}) /\ Backend.gpu = gpu
    BY DEF BackendInv, StreamInv, ScreenInv, Backend
  <2>2. PICK t \in 0 .. EdramTiles - 1 : gpu.tiles[t] = o /\ o # NoTarget
    <3>1. gpu.tiles \in [0 .. EdramTiles - 1 -> TargetObjects \cup {NoTarget}]
      BY <2>1 DEF Backends, Sides
    <3>2. PICK t \in TilesOf(k, rows) : gpu.tiles[t] = o /\ o # NoTarget
      OBVIOUS
    <3> QED BY <3>1, <3>2, <1>8
  <2>3. PICK j \in TargetKeys, n \in 1 .. MaxRows :
            o = <<"target", j, n>> /\ gpu.targets[j] # NoTarget /\ n = gpu.targets[j].rows
    BY <2>1, <2>2 DEF TilesIn
  <2> QED BY <2>1, <2>3, StandsIs
<1>4. CASE owners = {}
  BY <1>4, BackendKept DEF DumpEdram
<1>5. CASE owners # {} /\ rest = {}
  <2>1. Becomes(one) /\ latest' = latest
    BY <1>5 DEF DumpEdram, dumped
  <2>2. leading \in owners
    BY <1>5
  <2>3. BackendInv(one, latest)
    BY <1>1, <1>2, <1>3, <1>7, <2>2 DEF Spared
  <2> QED BY <2>1, <2>3, BecomesInv
<1>6. CASE owners # {} /\ rest # {}
  <2>1. Becomes(dumped(one, second)) /\ latest' = latest
    BY <1>6 DEF DumpEdram, dumped
  <2>2. leading \in owners /\ second \in rest
    BY <1>6
  <2> HIDE DEF leading, second
  <2>3. BackendInv(one, latest) /\ Spared(EndPass(Backend), one)
    BY <1>1, <1>2, <1>3, <1>7, <2>2 DEF Spared
  <2> HIDE DEF one
  <2>5. second \notin one.gpu.destroyed \cup one.gpu.retired
    BY <1>3, <1>7, <2>2, <2>3 DEF Spared
  <2>4. BackendInv(dumped(one, second), latest)
    BY <1>1, <1>2, <2>2, <2>3, <2>5
  <2> QED BY <2>1, <2>4, BecomesInv
<1> QED BY <1>4, <1>5, <1>6

LEMMA ResolveKept ==
    ASSUME BackendInv(Backend, latest), streamed + 1 \in Words,
           NEW p \in GpuPages \cup LostPages, Resolve(p)
    PROVE  BackendInv(Backend, latest)'
<1>1. CASE p \in LostPages \/ "resolve copy" \notin gpu.shaders
  BY <1>1, BackendKept DEF Resolve
<1>2. CASE ~(p \in LostPages \/ "resolve copy" \notin gpu.shaders)
  <2> DEFINE e == EndPass(Backend)
             c == [Command("resolve") EXCEPT !.page = p, !.sees = latest]
             after == [latest EXCEPT ![p] = streamed + 1]
  <2>1. Becomes(Computed(e, c, 1)) /\ latest' = after
    BY <1>2 DEF Resolve
  <2>2. BackendInv(e, latest)
    BY EndPassInv
  <2> HIDE DEF e
  <2>3. e \in Backends /\ StreamInv(e, latest) /\ ScreenInv(e) /\ latest \in [GpuPages -> Words]
        /\ p \in GpuPages
    BY <1>2, <2>2 DEF BackendInv
  <2>4. c \in Commands /\ c.sees = latest /\ c.loses = {} /\ c.op = "resolve" /\ c.uses = {} /\ c.page = p
    BY <2>3, CommandIs DEF Commands
  <2>5. after \in [GpuPages -> Words]
        /\ \A x \in GpuPages : after[x] = IF c.op = "resolve" /\ c.page = x THEN streamed + 1 ELSE latest[x]
    BY <2>3, <2>4
  <2> HIDE DEF c, after
  <2>6. c.sees \in {<<>>, latest} /\ c.op # "copy" /\ 1 \in 0 .. 1
        /\ c.uses \cap (e.gpu.destroyed \cup e.gpu.retired) = {}
    BY <2>4
  <2>7. Computed(e, c, 1) \in Backends /\ StreamInv(Computed(e, c, 1), after)
        /\ Screened(e, Computed(e, c, 1))
    BY <2>3, <2>4, <2>5, <2>6, ComputedIs
  <2>8. BackendInv(Computed(e, c, 1), after)
    BY <2>3, <2>5, <2>7, ScreenedKept DEF BackendInv
  <2> QED BY <2>1, <2>8, BecomesInv
<1> QED BY <1>1, <1>2

LEMMA ClearKept ==
    ASSUME BackendInv(Backend, latest), streamed + 1 \in Words,
           NEW k \in TargetKeys, NEW whole \in BOOLEAN, Clear(k, whole)
    PROVE  BackendInv(Backend, latest)'
<1> DEFINE e == EndPass(Backend)
           b == IF whole THEN e ELSE MadeRoom(e, Uniforms(1))
           n == IF whole THEN 0 ELSE 1
           t == gpu.targets[k]
           c == [Command("clear") EXCEPT !.uses = {Object(t)}, !.sees = latest]
           s == Computed(b, c, n)
           q == [s EXCEPT !.gpu.targets[k].initialized = TRUE, !.gpu.painted = @ \cup {k}]
<1>1. BackendInv(e, latest) /\ Screened(Backend, e) /\ ~e.gpu.pass
  <2>1. Backend \in Backends
    BY DEF BackendInv
  <2> QED BY <2>1, EndPassInv, EndPassIs
<1>2. CASE t = NoTarget
  <2>1. Becomes(e)
    <3>1. gpu' = [gpu EXCEPT !.pass = FALSE] /\ UNCHANGED <<queue, pending>>
      BY <1>2 DEF Clear
    <3>2. Backend \in Backends /\ Backend.gpu = gpu /\ Backend.queue = queue /\ Backend.pending = pending
      BY DEF BackendInv, Backend
    <3>3. e.gpu = [gpu EXCEPT !.pass = FALSE] /\ SameStream(Backend, e)
      BY <3>2, EndPassIs
    <3> HIDE DEF e
    <3> QED BY <3>1, <3>2, <3>3 DEF Becomes, SameStream
  <2>2. latest' = latest
    BY DEF Clear
  <2> QED BY <1>1, <2>1, <2>2, BecomesInv
<1>3. CASE t # NoTarget
  <2>1. Becomes(q) /\ latest' = latest
    BY <1>3 DEF Clear
  <2> HIDE DEF e
  <2>2. BackendInv(b, latest) /\ Screened(e, b)
    <3>1. e \in Backends /\ latest \in [GpuPages -> Words] /\ StreamInv(e, latest) /\ ScreenInv(e)
      BY <1>1 DEF BackendInv
    <3>2. Uniforms(1) \in [Rings -> 0 .. 1]
      BY DEF Uniforms, Rings
    <3> DEFINE m == MadeRoom(e, Uniforms(1))
    <3>3. m \in Backends /\ StreamInv(m, latest) /\ Screened(e, m)
      BY <3>1, <3>2, MadeRoomIs
    <3> HIDE DEF m
    <3>4. BackendInv(m, latest)
      BY <3>1, <3>3, ScreenedKept DEF BackendInv
    <3>5. Screened(e, e)
      BY DEF Screened
    <3> QED BY <1>1, <3>3, <3>4, <3>5 DEF m
  <2> HIDE DEF b
  <2>3. n \in 0 .. 1
    OBVIOUS
  <2>4. t \in Targets /\ t.key = k /\ Object(t) = <<"target", k, t.rows>> /\ gpu.targets \in Occupied
    <3>1. Backend \in Backends /\ Backend.gpu = gpu /\ TilesIn(Backend, {})
      BY DEF BackendInv, ScreenInv, Backend
    <3>2. gpu.targets \in Occupied
      BY <3>1 DEF Backends, Sides
    <3> QED BY <1>3, <3>1, <3>2 DEF Occupied, Targets, TilesIn, Object
  <2>5. c \in Commands /\ c.sees = latest /\ c.loses = {} /\ c.op = "clear" /\ c.uses = {<<"target", k, t.rows>>}
    <3>1. {<<"target", k, t.rows>>} \in SUBSET GpuObjects
      BY <2>4 DEF GpuObjects, TargetObjects, Targets
    <3>2. latest \in [GpuPages -> Words]
      BY DEF BackendInv
    <3>3. c = [Command("clear") EXCEPT !.uses = {<<"target", k, t.rows>>}, !.sees = latest]
      BY <2>4
    <3> HIDE DEF c
    <3> QED BY <3>1, <3>2, <3>3, CommandIs DEF Commands
  <2> HIDE DEF c, n
  <2>6. c.op \in {"compute", "clear"} /\ c.uses \cap (b.gpu.destroyed \cup b.gpu.retired) = {}
    <3>1. b.gpu.targets[k] = t
      BY <1>1, <2>2 DEF Screened, Backend
    <3>2. b \in Backends /\ ScratchIn(b) /\ TilesIn(b, {})
      BY <2>2 DEF BackendInv, StreamInv, ScreenInv
    <3> QED BY <1>3, <2>4, <2>5, <3>1, <3>2, StandsIs
  <2>7. BackendInv(s, latest) /\ Screened(b, s)
    BY <2>2, <2>3, <2>5, <2>6, ComputedInv
  <2> HIDE DEF s
  <2>8. s.gpu.targets = gpu.targets /\ ~s.gpu.pass
    BY <1>1, <2>2, <2>7 DEF Screened, Backend
  <2>9. s \in Backends /\ s.gpu \in Sides /\ ScreenInv(s) /\ latest \in [GpuPages -> Words]
    BY <2>7 DEF BackendInv, Backends
  <2> DEFINE f == [t EXCEPT !.initialized = TRUE]
             T == [gpu.targets EXCEPT ![k] = f]
             P == s.gpu.painted \cup {k}
             G == [s.gpu EXCEPT !.targets = T, !.painted = P]
  <2>10. q = [s EXCEPT !.gpu = G]
    BY <2>8, <2>9 DEF Backends, Sides
  <2>11. f \in Targets /\ f # NoTarget /\ f.key = k /\ f.rows = t.rows /\ f.initialized = TRUE
    BY <2>4, BackendAssumption DEF Targets
  <2> HIDE DEF f, q
  <2>12. T \in Occupied /\ T[k] = f /\ \A j \in TargetKeys \ {k} : T[j] = gpu.targets[j]
    BY <2>4, <2>11 DEF Occupied, Targets
  <2>13. P \in SUBSET TargetKeys
    BY <2>9 DEF Sides
  <2> HIDE DEF T, P
  <2>14. /\ G \in Sides /\ G.targets = T /\ G.painted = P /\ G.pass = s.gpu.pass /\ G.used = s.gpu.used
         /\ G.staged = s.gpu.staged /\ G.scratch = s.gpu.scratch /\ G.retired = s.gpu.retired /\ G.lost = s.gpu.lost
         /\ G.destroyed = s.gpu.destroyed /\ G.tiles = s.gpu.tiles /\ G.rows = s.gpu.rows
         /\ G.bound = s.gpu.bound /\ G.textures = s.gpu.textures /\ G.groups = s.gpu.groups
    BY <2>9, <2>12, <2>13 DEF Sides
  <2> HIDE DEF G
  <2>15. q \in Backends /\ q.gpu = G /\ q.queue = s.queue /\ q.pending = s.pending
    BY <2>9, <2>10, <2>14 DEF Backends
  <2>16. SameStream(s, q)
    BY <2>14, <2>15 DEF SameStream
  <2>17. TilesIn(q, {})
    <3>1. \A j \in TargetKeys : q.gpu.targets[j] # NoTarget => q.gpu.targets[j].key = j
      BY <2>8, <2>9, <2>11, <2>12, <2>14, <2>15 DEF ScreenInv, TilesIn
    <3>2. \A j \in TargetKeys : s.gpu.targets[j] # NoTarget =>
             q.gpu.targets[j] # NoTarget /\ q.gpu.targets[j].rows = s.gpu.targets[j].rows
      BY <2>8, <2>11, <2>12, <2>14, <2>15
    <3>3. q.gpu.tiles = s.gpu.tiles /\ TilesIn(s, {})
      BY <2>9, <2>14, <2>15 DEF ScreenInv
    <3>4. q.gpu.destroyed = s.gpu.destroyed
      BY <2>14, <2>15
    <3> QED BY <3>1, <3>2, <3>3, <3>4 DEF TilesIn, DestroyedIn
  <2>18. PaintIn(q)
    <3>1. \A j \in TargetKeys : HasContents(s, j) => HasContents(q, j)
      BY <2>8, <2>11, <2>12, <2>14, <2>15 DEF HasContents
    <3>2. HasContents(q, k)
      BY <2>11, <2>12, <2>14, <2>15 DEF HasContents
    <3>3. \A j \in s.gpu.painted : j \in TargetKeys /\ HasContents(s, j)
      BY <2>9 DEF ScreenInv, PaintIn, Sides
    <3>4. ~q.gpu.pass /\ q.gpu.painted = s.gpu.painted \cup {k}
      BY <2>8, <2>14, <2>15 DEF P
    <3> QED BY <3>1, <3>2, <3>3, <3>4 DEF PaintIn
  <2>19. GroupsIn(q) /\ BoundIn(q)
    BY <2>9, <2>14, <2>15 DEF ScreenInv, GroupsIn, BoundIn, ViewOf
  <2>20. BackendInv(q, latest)
    BY <2>7, <2>15, <2>16, <2>17, <2>18, <2>19, SteadyInv DEF ScreenInv
  <2> QED BY <2>1, <2>20, BecomesInv
<1> QED BY <1>2, <1>3

LEMMA DrawKept ==
    ASSUME BackendInv(Backend, latest), streamed + 1 \in Words,
           NEW id \in TextureIds, NEW indexed \in BOOLEAN, NEW visible \in BOOLEAN,
           Draw("pipeline", id, indexed, visible)
    PROVE  BackendInv(Backend, latest)'
<1> DEFINE words == [uniforms |-> 1, indices |-> IF indexed THEN 1 ELSE 0]
           room == MadeRoom(Backend, words)
           b == BeginPass(room)
           v == streamed + 1
           U == {Object(b.gpu.targets[k]) : k \in b.gpu.bound}
           at == [r \in Rings |-> SlotsFor(b, words, r)]
           c == [Command("draw") EXCEPT !.uses = U, !.at = at, !.data = v, !.sees = latest]
           p == Pushed(b, words, v)
           s == Recorded(p, c)
           q == [s EXCEPT !.gpu.groups = @ \cup {GroupFor(b, id)}, !.gpu.painted = @ \cup b.gpu.bound]
<1>1. words \in [Rings -> 0 .. 1] /\ words["uniforms"] = 1
  BY DEF Rings
<1>2. CASE "pipeline" \notin gpu.pipelines
  BY <1>2, BackendKept DEF Draw
<1>3. CASE "pipeline" \in gpu.pipelines
  <2>1. /\ IF ~b.gpu.pass THEN Becomes(room)
           ELSE IF ~visible THEN Becomes(Pushed(b, Uniforms(1), v)) ELSE Becomes(q)
        /\ latest' = latest
    BY <1>3 DEF Draw
  <2> HIDE DEF words
  <2>2. /\ room \in Backends /\ StreamInv(room, latest) /\ ScreenInv(room) /\ Fits(room, words)
        /\ latest \in [GpuPages -> Words]
    <3>1. Backend \in Backends /\ latest \in [GpuPages -> Words] /\ StreamInv(Backend, latest)
          /\ ScreenInv(Backend)
      BY DEF BackendInv
    <3>2. room \in Backends /\ StreamInv(room, latest) /\ Screened(Backend, room) /\ Fits(room, words)
      BY <1>1, <3>1, MadeRoomIs
    <3> HIDE DEF room
    <3> QED BY <3>1, <3>2, ScreenedKept
  <2> HIDE DEF room
  <2>3. b \in Backends /\ StreamInv(b, latest) /\ ScreenInv(b) /\ Fits(b, words)
    <3>1. b \in Backends /\ StreamInv(b, latest) /\ ScreenInv(b) /\ b.gpu.used = room.gpu.used
      BY <2>2, BeginPassIs
    <3> QED BY <2>2, <3>1 DEF Fits
  <2> HIDE DEF b
  <2>4. b.gpu \in Sides /\ b.gpu.bound \in SUBSET TargetKeys
    BY <2>3 DEF Backends, Sides
  <2>5. CASE ~b.gpu.pass
    <3>1. BackendInv(room, latest)
      BY <2>2 DEF BackendInv
    <3> QED BY <2>1, <2>5, <3>1, BecomesInv
  <2>6. CASE b.gpu.pass /\ ~visible
    <3> DEFINE need == Uniforms(1)
               x == Pushed(b, need, v)
    <3>1. need \in [Rings -> 0 .. 1] /\ \A r \in Rings : need[r] <= words[r]
      BY <1>1 DEF Uniforms, Rings
    <3>2. b.gpu.used \in [Rings -> 0 .. RingSlots]
      BY <2>4 DEF Sides
    <3> HIDE DEF need
    <3>3. Fits(b, need)
      BY <1>1, <2>3, <3>1, <3>2, BackendAssumption DEF Fits
    <3>4. x \in Backends /\ StreamInv(x, latest) /\ Screened(b, x)
      BY <2>2, <2>3, <3>1, <3>3, PushedIs
    <3>5. Becomes(x)
      BY <2>1, <2>6 DEF need
    <3> HIDE DEF x
    <3>6. BackendInv(x, latest)
      BY <2>2, <2>3, <3>4, ScreenedKept DEF BackendInv
    <3> QED BY <2>1, <3>5, <3>6, BecomesInv
  <2>7. CASE b.gpu.pass /\ visible
    <3>1. Becomes(q)
      BY <2>1, <2>7
    <3>2. \A k \in b.gpu.bound : HasContents(b, k)
      BY <2>3, <2>7 DEF ScreenInv, PaintIn
    <3>3. U \in SUBSET GpuObjects /\ U \cap (b.gpu.destroyed \cup b.gpu.retired) = {}
      <4>1. \A k \in b.gpu.bound : /\ Object(b.gpu.targets[k]) \in TargetObjects
                                   /\ Object(b.gpu.targets[k]) \notin b.gpu.destroyed \cup b.gpu.retired
        <5> TAKE k \in b.gpu.bound
        <5>1. b.gpu.targets[k] # NoTarget /\ k \in TargetKeys
          BY <2>4, <3>2 DEF HasContents
        <5> QED BY <5>1, <2>3, StandsIs DEF StreamInv, ScreenInv
      <4> QED BY <4>1 DEF GpuObjects
    <3>4. /\ p \in Backends /\ StreamInv(p, latest) /\ Screened(b, p)
          /\ p.gpu = [b.gpu EXCEPT !.used = p.gpu.used]
          /\ \A r \in Rings : \A x \in SlotsFor(b, words, r) :
                x \in 1 .. RingSlots /\ x <= p.gpu.used[r] /\ p.queue.ring[r][x] = v
      BY <1>1, <2>2, <2>3, PushedIs
    <3>5. at \in [Rings -> SUBSET (1 .. RingSlots)]
      BY <3>4
    <3> HIDE DEF U, p
    <3>6. /\ c \in Commands /\ c.sees = latest /\ c.loses = {} /\ c.op = "draw" /\ c.uses = U
          /\ c.at = at /\ c.data = v
      <4> HIDE DEF at
      <4> QED BY <2>2, <3>3, <3>5, CommandIs DEF Commands
    <3> HIDE DEF c
    <3>7. \A r \in Rings : \A x \in c.at[r] : x <= p.gpu.used[r] /\ p.queue.ring[r][x] = c.data
      BY <3>4, <3>6
    <3>8. c.uses \cap p.gpu.destroyed = {}
      <4>1. p.gpu.destroyed = b.gpu.destroyed
        BY <2>4, <3>4 DEF Sides
      <4> QED BY <3>3, <3>6, <4>1
    <3>9. \A x \in GpuPages : latest[x] = IF Writes(c, x) THEN Value(p, c) ELSE latest[x]
      BY <3>6 DEF Writes
    <3>10. c.sees \in {<<>>, latest} /\ (c.op = "copy" => c.slot \in 1 .. p.gpu.staged)
      BY <3>6
    <3>11. c.op = "copy" => c.slot \in 1 .. p.gpu.staged
      BY <3>6
    <3>12. s \in Backends /\ Screened(p, s) /\ s.gpu = p.gpu /\ StreamInv(s, latest)
      BY <2>2, <3>4, <3>6, <3>7, <3>8, <3>9, <3>10, <3>11, RecordedStream
    <3> HIDE DEF s, at
    <3>13. ScreenInv(s) /\ s.gpu \in Sides
      BY <2>3, <3>4, <3>12, ScreenedKept DEF Backends
    <3>14. /\ s.gpu.groups = b.gpu.groups /\ s.gpu.textures = b.gpu.textures
           /\ s.gpu.bound = b.gpu.bound /\ s.gpu.targets = b.gpu.targets
      BY <3>4, <3>12 DEF Screened
    <3> DEFINE g == GroupFor(b, id)
               R == s.gpu.groups \cup {g}
               P == s.gpu.painted \cup b.gpu.bound
               G == [s.gpu EXCEPT !.groups = R, !.painted = P]
    <3>15. g \in [id : TextureIds, view : TextureIds \cup {0}] /\ g.view = ViewOf(b, g.id)
      <4>1. CASE \E h \in b.gpu.groups : h.id = id
        <5>1. g \in b.gpu.groups
          BY <4>1 DEF GroupFor
        <5> QED BY <5>1, <2>3, <2>4 DEF ScreenInv, GroupsIn, Sides
      <4>2. CASE ~ \E h \in b.gpu.groups : h.id = id
        BY <4>2 DEF GroupFor, ViewOf
      <4> QED BY <4>1, <4>2
    <3> HIDE DEF g
    <3>16. R \in SUBSET [id : TextureIds, view : TextureIds \cup {0}] /\ P \in SUBSET TargetKeys
      BY <2>4, <3>13, <3>15 DEF Sides
    <3>17. q = [s EXCEPT !.gpu = G]
      BY <3>12, <3>13 DEF g, Backends, Sides
    <3> HIDE DEF R, P, q
    <3>18. /\ G \in Sides /\ G.groups = R /\ G.painted = P /\ G.pass = s.gpu.pass /\ G.used = s.gpu.used
           /\ G.staged = s.gpu.staged /\ G.scratch = s.gpu.scratch /\ G.retired = s.gpu.retired /\ G.lost = s.gpu.lost
           /\ G.destroyed = s.gpu.destroyed /\ G.tiles = s.gpu.tiles /\ G.rows = s.gpu.rows
           /\ G.bound = s.gpu.bound /\ G.textures = s.gpu.textures /\ G.targets = s.gpu.targets
      BY <3>13, <3>16 DEF Sides
    <3> HIDE DEF G
    <3>19. q \in Backends /\ q.gpu = G /\ q.queue = s.queue /\ q.pending = s.pending
      BY <3>12, <3>17, <3>18 DEF Backends
    <3>20. SameStream(s, q)
      BY <3>18, <3>19 DEF SameStream
    <3>21. TilesIn(q, {})
      BY <3>13, <3>18, <3>19 DEF ScreenInv, TilesIn, DestroyedIn
    <3>22. PaintIn(q) /\ BoundIn(q)
      <4>1. \A k : HasContents(s, k) <=> HasContents(q, k)
        BY <3>18, <3>19 DEF HasContents
      <4>2. \A k \in b.gpu.bound : HasContents(q, k)
        BY <3>2, <3>14, <4>1 DEF HasContents
      <4> QED BY <3>13, <3>14, <3>18, <3>19, <4>1, <4>2 DEF ScreenInv, PaintIn, BoundIn, P
    <3>23. GroupsIn(q)
      BY <3>13, <3>14, <3>15, <3>18, <3>19 DEF ScreenInv, GroupsIn, ViewOf, R
    <3>24. BackendInv(q, latest)
      <4>1. BackendInv(s, latest)
        BY <2>2, <3>12, <3>13 DEF BackendInv
      <4> QED BY <4>1, <3>19, <3>20, <3>21, <3>22, <3>23, SteadyInv DEF ScreenInv
    <3> QED BY <2>1, <3>1, <3>24, BecomesInv
  <2> QED BY <2>5, <2>6, <2>7
<1> QED BY <1>2, <1>3

-----------------------------------------------------------------------------

BackendSpec == GpuInit /\ [][GpuNext]_gpuVars

LEMMA BackendStarts == GpuInit => GpuInv
<1> SUFFICES ASSUME GpuInit PROVE GpuInv
  OBVIOUS
<1>1. 0 \in Words /\ 1 \in 1 .. MaxRows /\ 0 \in 0 .. StagingSlots /\ 0 \in 0 .. RingSlots
  BY BackendAssumption DEF Words
<1>2. gpu \in Sides
  <2>1. [k \in TargetKeys |-> NoTarget] \in Occupied
    BY DEF Occupied
  <2>2. [t \in 0 .. EdramTiles - 1 |-> NoTarget] \in [0 .. EdramTiles - 1 -> TargetObjects \cup {NoTarget}]
    OBVIOUS
  <2>3. [r \in Rings |-> 0] \in [Rings -> 0 .. RingSlots]
    BY <1>1
  <2> QED BY <1>1, <2>1, <2>2, <2>3 DEF GpuInit, Sides
<1>3. queue \in Queues
  BY <1>1 DEF GpuInit, Queues
<1>4. Backend \in Backends /\ Backend.gpu = gpu /\ Backend.queue = queue /\ Backend.pending = <<>>
  BY <1>2, <1>3 DEF GpuInit, Backends, Backend
<1>5. latest \in [GpuPages -> Words] /\ \A p \in GpuPages : queue.memory[p] = latest[p]
  BY <1>1 DEF GpuInit
<1>6. At(Backend) = {} /\ Len(Backend.pending) + 1 = 1
  BY <1>4 DEF At
<1>7. StreamInv(Backend, latest)
  <2>1. \A p \in GpuPages : MemoryAt(Backend, 1, p) = latest[p]
    BY <1>4, <1>5, MemoryFirst
  <2>2. gpu.retired = {} /\ gpu.destroyed = {}
    BY DEF GpuInit
  <2> QED BY <1>4, <1>5, <1>6, <2>1, <2>2 DEF StreamInv, SeesIn, Sees, RingsIn, ScratchIn, LosesIn
<1>8. ScreenInv(Backend)
  <2>1. /\ \A k \in TargetKeys : gpu.targets[k] = NoTarget
        /\ \A t \in 0 .. EdramTiles - 1 : gpu.tiles[t] = NoTarget
        /\ gpu.painted = {} /\ gpu.bound = {} /\ gpu.groups = {} /\ ~gpu.pass
        /\ gpu.destroyed = {}
    BY DEF GpuInit
  <2>2. TilesIn(Backend, {})
    BY <1>4, <2>1 DEF TilesIn, DestroyedIn
  <2> QED BY <1>4, <2>1, <2>2 DEF ScreenInv, PaintIn, GroupsIn, BoundIn
<1>9. streamed \in Words
  BY <1>1 DEF GpuInit
<1> QED BY <1>4, <1>5, <1>7, <1>8, <1>9 DEF GpuInv, BackendInv

LEMMA BackendStep == GpuInv /\ [GpuNext]_gpuVars => GpuInv'
<1> SUFFICES ASSUME GpuInv, [GpuNext]_gpuVars PROVE GpuInv'
  OBVIOUS
<1>1. BackendInv(Backend, latest) /\ streamed \in Words
  BY DEF GpuInv
<1>2. CASE ReplayOne
  <2>1. streamed + 1 \in Words /\ streamed' \in Words
    <3>1. streamed < MaxStream /\ streamed' = streamed + 1
      BY <1>2 DEF ReplayOne
    <3> QED BY <1>1, <3>1, BackendAssumption DEF Words
  <2>2. ASSUME \E p \in GpuPages \cup LostPages, n \in {1, StagingSlots + 1} : Upload(p, n)
        PROVE  BackendInv(Backend, latest)'
    BY <1>1, <2>1, <2>2, UploadKept
  <2>3. ASSUME \E ok \in BOOLEAN : DefineShader("shader", ok)
        PROVE  BackendInv(Backend, latest)'
    <3>1. "shader" \in Shaders
      BY DEF Shaders
    <3> QED BY <1>1, <2>3, <3>1, ShaderKept
  <2>4. ASSUME \E id \in {"texture load", "resolve copy"}, ok \in BOOLEAN : DefineLoadShader(id, ok)
        PROVE  BackendInv(Backend, latest)'
    <3>1. {"texture load", "resolve copy"} \subseteq Shaders
      BY DEF Shaders
    <3> QED BY <1>1, <2>4, <3>1, ShaderKept DEF DefineLoadShader
  <2>5. ASSUME \E ok \in BOOLEAN : DefinePipeline("pipeline", {"shader"}, ok)
        PROVE  BackendInv(Backend, latest)'
    BY <1>1, <2>5, PipelineKept
  <2>6. ASSUME \E rows \in 1 .. MaxRows : BindTargets({}, rows)
        PROVE  BackendInv(Backend, latest)'
    <3>1. {} \in SUBSET TargetKeys /\ \A x, y, z \in {} : x = y \/ x = z \/ y = z
      OBVIOUS
    <3> QED BY <1>1, <2>6, <3>1, BindKept
  <2>15. ASSUME \E k, l \in TargetKeys, rows \in 1 .. MaxRows : BindTargets({k, l}, rows)
         PROVE  BackendInv(Backend, latest)'
    <3>1. PICK k \in TargetKeys, l \in TargetKeys, rows \in 1 .. MaxRows : BindTargets({k, l}, rows)
      BY <2>15
    <3>2. {k, l} \in SUBSET TargetKeys /\ \A x, y, z \in {k, l} : x = y \/ x = z \/ y = z
      OBVIOUS
    <3> QED BY <1>1, <3>1, <3>2, BindKept
  <2>7. ASSUME \E id \in TextureIds, indexed, visible \in BOOLEAN : Draw("pipeline", id, indexed, visible)
        PROVE  BackendInv(Backend, latest)'
    BY <1>1, <2>1, <2>7, DrawKept
  <2>8. ASSUME \E id \in TextureIds : Swap(id)
        PROVE  BackendInv(Backend, latest)'
    BY <1>1, <2>8, SwapKept
  <2>9. ASSUME \E id \in TextureIds, n \in 1 .. 2 : LoadTexture(id, n, 1)
        PROVE  BackendInv(Backend, latest)'
    BY <1>1, <2>1, <2>9, LoadKept
  <2>10. ASSUME \E id \in TextureIds, known \in BOOLEAN : DefineTexture(id, known)
        PROVE  BackendInv(Backend, latest)'
    BY <1>1, <2>10, TextureKept
  <2>11. ASSUME \E k \in TargetKeys, rows \in 1 .. MaxRows : DumpEdram(k, rows)
        PROVE  BackendInv(Backend, latest)'
    BY <1>1, <2>1, <2>11, DumpKept
  <2>12. ASSUME \E p \in GpuPages \cup LostPages : Resolve(p)
        PROVE  BackendInv(Backend, latest)'
    BY <1>1, <2>1, <2>12, ResolveKept
  <2>13. ASSUME \E k \in TargetKeys, whole \in BOOLEAN : Clear(k, whole)
        PROVE  BackendInv(Backend, latest)'
    BY <1>1, <2>1, <2>13, ClearKept
  <2>14. BackendInv(Backend, latest)'
    BY <1>2, <2>2, <2>3, <2>4, <2>5, <2>6, <2>7, <2>8, <2>9, <2>10, <2>11, <2>12, <2>13, <2>15
    DEF ReplayOne
  <2> QED BY <2>1, <2>14 DEF GpuInv, Words
<1>3. CASE Present
  <2>1. BackendInv(Backend, latest)'
    BY <1>1, <1>3, PresentKept
  <2>2. streamed' = streamed
    BY <1>3 DEF Present
  <2> QED BY <1>1, <2>1, <2>2 DEF GpuInv, Words
<1>4. CASE UNCHANGED gpuVars
  <2>1. BackendInv(Backend, latest)'
    BY <1>1, <1>4, BackendKept DEF gpuVars
  <2> QED BY <1>1, <1>4, <2>1 DEF GpuInv, Words, gpuVars
<1> QED BY <1>2, <1>3, <1>4 DEF GpuNext

LEMMA BackendInvShows == GpuInv => CommandsSeeTheirs
<1> SUFFICES ASSUME GpuInv PROVE CommandsSeeTheirs
  OBVIOUS
<1>1. /\ Backend \in Backends /\ Backend.gpu = gpu /\ Backend.queue = queue /\ Backend.pending = pending
      /\ StreamInv(Backend, latest) /\ ScreenInv(Backend) /\ latest \in [GpuPages -> Words]
  BY DEF GpuInv, BackendInv, Backend
<1>2. gpu \in Sides /\ queue \in Queues /\ pending \in Seq(Commands)
  BY <1>1 DEF Backends
<1>3. DOMAIN pending = At(Backend)
  BY <1>1, <1>2 DEF At
<1>4. GpuTypeOK
  <2>1. \A i \in DOMAIN pending : pending[i] \in Commands
    BY <1>2
  <2> QED BY <1>1, <1>2, <2>1 DEF GpuTypeOK, Sides, Queues, Commands
<1>5. CommandsSeeTheirMemory
  BY <1>1, <1>3 DEF CommandsSeeTheirMemory, StreamInv, SeesIn, Sees
<1>6. CommandsSeeTheirConstants
  BY <1>1, <1>3 DEF CommandsSeeTheirConstants, StreamInv, RingsIn
<1>7. OnlyGrowthDooms
  BY <1>1, <1>3 DEF OnlyGrowthDooms, StreamInv, ScratchIn, Doomed
<1>8. OwnersAreCurrent
  <2>1. gpu.tiles \in [0 .. EdramTiles - 1 -> TargetObjects \cup {NoTarget}]
    BY <1>2 DEF Sides
  <2> SUFFICES ASSUME NEW t \in 0 .. EdramTiles - 1, gpu.tiles[t] # NoTarget
               PROVE  \E k \in TargetKeys : gpu.targets[k] # NoTarget /\ gpu.tiles[t] = Object(gpu.targets[k])
    BY <2>1 DEF OwnersAreCurrent
  <2>2. PICK k \in TargetKeys, n \in 1 .. MaxRows :
            /\ gpu.tiles[t] = <<"target", k, n>> /\ gpu.targets[k] # NoTarget /\ n = gpu.targets[k].rows
    BY <1>1 DEF ScreenInv, TilesIn
  <2>3. gpu.targets[k].key = k
    BY <1>1, <2>2 DEF ScreenInv, TilesIn
  <2> QED BY <2>2, <2>3 DEF Object
<1>9. ContentsAreLoaded
  BY <1>1, <1>3 DEF ContentsAreLoaded, StreamInv, LosesIn
<1>10. GroupsAreCurrent
  BY <1>1 DEF GroupsAreCurrent, ScreenInv, GroupsIn
<1> QED BY <1>4, <1>5, <1>6, <1>7, <1>8, <1>9, <1>10 DEF CommandsSeeTheirs

\* What commands of the WebGPU backend were recorded with is still there when
\* they are submitted, however uploads, submits and replaced buffers come
\* between: only the growing of a target destroys what recorded commands name.
THEOREM CommandsSeeTheirsHolds == BackendSpec => []CommandsSeeTheirs
<1>1. BackendSpec => []GpuInv
  BY BackendStarts, BackendStep, PTL DEF BackendSpec
<1> QED BY <1>1, BackendInvShows, PTL

-----------------------------------------------------------------------------
(* What a report names as the cause (FaultFocus)                             *)

FocusSpec == FocusInit /\ [][FocusNext]_focusVars

CallOwners == {kind.owner : kind \in GuestCalls}
CallTails == {kind.tail : kind \in GuestCalls}
GuestEvents == [sequence : Nat, depth : Nat \ {0}, owner : CallOwners, tail : CallTails]
RegisterWrites == [sequence : Nat, depth : Nat \ {0}, delta : Int]
GuestRecords == [writes : Seq(RegisterWrites), calls : Seq(GuestEvents), sequence : Nat,
                 frames : Seq(SUBSET Nat), r1 : Int, unmatched : BOOLEAN]

\* The calls that may have entered a frame at depth d.
CallsInto(g, d) == {i \in DOMAIN g.calls : g.calls[i].depth = d - 1}

\* A ring keeps its events in order; before one is dropped both have them all.
RingInOrder(history, top) ==
    /\ \A i \in DOMAIN history : history[i].sequence <= top
    /\ \A i, j \in DOMAIN history : i < j => history[i].sequence < history[j].sequence

\* k is the newest call into the frame at depth d.
Enters(g, d, k) == k \in CallsInto(g, d) /\ \A i \in CallsInto(g, d) : i <= k

\* The frame at depth d has allocated size since call k.
Allocated(g, d, k, size) ==
    \E i \in DOMAIN g.writes :
        g.writes[i].depth = d /\ g.writes[i].sequence > g.calls[k].sequence /\ g.writes[i].delta = -size

\* A live frame holds what the writes since its call have allocated.
FramesInv(g) ==
    \A d \in 2 .. Len(g.frames) :
        /\ CallsInto(g, d) # {}
        /\ \A k \in CallsInto(g, d) : Enters(g, d, k) =>
              \A size \in Nat \ {0} : size \in g.frames[d] <=> Allocated(g, d, k, size)

HistoryInv ==
    /\ RingInOrder(guest.writes, guest.sequence) /\ RingInOrder(guest.calls, guest.sequence)
    /\ guest.sequence <= HistoryCapacity =>
          /\ Len(guest.writes) + Len(guest.calls) = guest.sequence
          /\ FramesInv(guest)
          /\ guest.unmatched => guest.writes # <<>> /\ LastWrite.delta > 0
          /\ guest.writes # <<>> /\ LastWrite.depth > 1 =>
                EnteringCalls # {} /\ (guest.unmatched <=> LastWrite.delta > 0 /\ ~MatchingAllocation)

StopTyped ==
    /\ stop = [boundary |-> stop.boundary, captured |-> stop.captured, afterEntry |-> stop.afterEntry,
               op |-> stop.op, base |-> stop.base, indexZero |-> stop.indexZero, owner |-> stop.owner,
               since |-> stop.since]
    /\ stop.since \in {"nothing", "ran", "loaded"}

FocusInv ==
    /\ guest \in GuestRecords /\ guest.frames # <<>>
    /\ HistoryInv
    /\ stop.boundary = "kernel-import-unimplemented" /\ stop.since # "loaded" => stop.op = Branch
    /\ StopTyped
    /\ first # "none" => Stopped
    /\ first # "none" /\ stop.since = "nothing" => ProblemFocus = first
    /\ first # "none" /\ stop.since # "loaded" => first \in ZeroRegisterCauses \cup {OtherFocus}

LEMMA EventsNumbered ==
    /\ \A e \in GuestEvents : e.sequence \in Nat /\ e.depth \in Nat \ {0}
    /\ \A e \in RegisterWrites : e.sequence \in Nat /\ e.depth \in Nat \ {0} /\ e.delta \in Int
BY DEF GuestEvents, RegisterWrites

\* A history keeps its order; one that is not full loses nothing.
LEMMA RingKeeps ==
    ASSUME NEW S, NEW history \in Seq(S), NEW event \in S, NEW top \in Nat,
           RingInOrder(history, top), event.sequence = top + 1,
           \A e \in S : e.sequence \in Nat
    PROVE  /\ Push(history, event) \in Seq(S)
           /\ RingInOrder(Push(history, event), top + 1)
           /\ Len(history) < HistoryCapacity => Push(history, event) = Append(history, event)
<1>1. CASE Len(history) < HistoryCapacity
  <2>1. Push(history, event) = Append(history, event)
    BY <1>1 DEF Push
  <2>2. RingInOrder(Append(history, event), top + 1)
    BY DEF RingInOrder
  <2> QED BY <2>1, <2>2
<1>2. CASE ~(Len(history) < HistoryCapacity)
  <2>0. Len(history) > 0
    BY <1>2, FocusAssumption
  <2> DEFINE t == Tail(history)
  <2>1. t \in Seq(S) /\ Len(t) = Len(history) - 1 /\ \A i \in 1 .. Len(t) : t[i] = history[i + 1]
    BY <2>0
  <2>2. RingInOrder(t, top)
    BY <2>1, SMTT(60) DEF RingInOrder
  <2>3. Push(history, event) = Append(t, event)
    BY <1>2 DEF Push
  <2> HIDE DEF t
  <2>4. RingInOrder(Append(t, event), top + 1)
    BY <2>1, <2>2 DEF RingInOrder
  <2> QED BY <1>2, <2>1, <2>3, <2>4
<1> QED BY <1>1, <1>2

\* With the last write and the calls before it, what they say is the same.
LEMMA SameHistory ==
    ASSUME guest.writes # <<>>, guest \in GuestRecords, guest' \in GuestRecords,
           guest'.writes = guest.writes,
           DOMAIN guest.calls \subseteq DOMAIN guest'.calls,
           \A i \in DOMAIN guest.calls : guest'.calls[i] = guest.calls[i],
           \A i \in DOMAIN guest'.calls \ DOMAIN guest.calls : guest'.calls[i].sequence > LastWrite.sequence
    PROVE  LastWrite' = LastWrite /\ EnteringCalls' = EnteringCalls
           /\ (EnteringCalls # {} => MatchingAllocation' = MatchingAllocation)
<1>0. LastWrite \in RegisterWrites
  <2>1. guest.writes \in Seq(RegisterWrites)
    BY DEF GuestRecords
  <2> QED BY <2>1 DEF LastWrite, Last
<1>1. LastWrite' = LastWrite
  BY DEF LastWrite
<1>2. EnteringCalls' = EnteringCalls
  <2>1. \A i \in DOMAIN guest'.calls : guest'.calls[i].sequence \in Nat
    <3>1. guest'.calls \in Seq(GuestEvents)
      BY DEF GuestRecords
    <3>2. \A i \in DOMAIN guest'.calls : guest'.calls[i] \in GuestEvents
      BY <3>1
    <3> QED BY <3>2, EventsNumbered
  <2>2. LastWrite.sequence \in Nat
    BY <1>0 DEF RegisterWrites
  <2> QED BY <1>1, <2>1, <2>2 DEF EnteringCalls
<1>3. ASSUME EnteringCalls # {} PROVE MatchingAllocation' = MatchingAllocation
  <2> DEFINE k == CHOOSE i \in EnteringCalls : \A j \in EnteringCalls : j <= i
  <2>1. k \in EnteringCalls
    <3>1. /\ EnteringCalls \in SUBSET Nat /\ Len(guest.calls) \in Nat
          /\ \A i \in EnteringCalls : i <= Len(guest.calls)
      BY DEF EnteringCalls, GuestRecords
    <3>2. \E m \in EnteringCalls : \A j \in EnteringCalls : j <= m
      BY <1>3, <3>1, GreatestExists
    <3> QED BY <3>2
  <2>2. EnteringCall = guest.calls[k] /\ EnteringCall' = guest'.calls[k]
    BY <1>2 DEF EnteringCall
  <2>3. EnteringCall' = EnteringCall
    BY <2>1, <2>2 DEF EnteringCalls
  <2> QED BY <1>1, <1>2, <2>3 DEF MatchingAllocation
<1> QED BY <1>1, <1>2, <1>3

LEMMA CallKeeps ==
    ASSUME FocusInv, NEW kind \in GuestCalls, GuestCall(kind.owner, kind.tail)
    PROVE  guest' \in GuestRecords /\ guest'.frames # <<>> /\ HistoryInv'
<1> DEFINE new == [sequence |-> guest.sequence + 1, depth |-> Depth, owner |-> kind.owner, tail |-> kind.tail]
           pushed == Push(guest.calls, new)
           frames == IF kind.tail THEN guest.frames ELSE Append(guest.frames, {})
<1>0. /\ guest \in GuestRecords /\ guest.frames # <<>>
      /\ guest.calls \in Seq(GuestEvents) /\ guest.writes \in Seq(RegisterWrites) /\ guest.sequence \in Nat
      /\ guest.frames \in Seq(SUBSET Nat) /\ Depth \in Nat \ {0}
  BY DEF FocusInv, GuestRecords, Depth
<1>1. guest' = [guest EXCEPT !.sequence = guest.sequence + 1, !.calls = pushed, !.frames = frames]
  BY DEF GuestCall
<1>2. new \in GuestEvents /\ new.sequence = guest.sequence + 1 /\ new.depth = Depth
  <2>1. kind.owner \in CallOwners /\ kind.tail \in CallTails
    BY DEF CallOwners, CallTails
  <2> QED BY <1>0, <2>1 DEF GuestEvents
<1>3. /\ \A i \in DOMAIN guest.calls : /\ guest.calls[i] \in GuestEvents /\ guest.calls[i].sequence \in Nat
                                       /\ guest.calls[i].depth \in Nat
      /\ \A i \in DOMAIN guest.writes : guest.writes[i] \in RegisterWrites /\ guest.writes[i].sequence \in Nat
      /\ Len(guest.calls) \in Nat /\ Len(guest.writes) \in Nat
  BY <1>0, EventsNumbered
<1>4. RingInOrder(guest.calls, guest.sequence) /\ RingInOrder(guest.writes, guest.sequence)
  BY DEF FocusInv, HistoryInv
<1> HIDE DEF new
<1>5. /\ pushed \in Seq(GuestEvents) /\ RingInOrder(pushed, guest.sequence + 1)
      /\ Len(guest.calls) < HistoryCapacity => pushed = Append(guest.calls, new)
  BY <1>0, <1>2, <1>4, EventsNumbered, RingKeeps
<1>6. frames \in Seq(SUBSET Nat) /\ frames # <<>>
  BY <1>0
<1>7. \A d \in 1 .. Len(guest.frames) : frames[d] = guest.frames[d] /\ d <= Len(frames)
  BY <1>0
<1>8. kind.tail \/ (Len(frames) = Depth + 1 /\ frames[Depth + 1] = {})
  BY <1>0 DEF Depth
<1>9. Len(frames) = Depth \/ ~kind.tail
  BY DEF Depth
<1> HIDE DEF pushed, frames
<1>10. /\ guest' \in GuestRecords /\ guest'.sequence = guest.sequence + 1 /\ guest'.calls = pushed
       /\ guest'.frames = frames /\ guest'.writes = guest.writes /\ guest'.unmatched = guest.unmatched
  <2>1. guest.sequence + 1 \in Nat
    BY <1>0
  <2>2. guest' \in GuestRecords
    BY <1>0, <1>1, <1>5, <1>6, <2>1 DEF GuestRecords
  <2>3. /\ guest'.sequence = guest.sequence + 1 /\ guest'.calls = pushed
        /\ guest'.frames = frames
    BY <1>0, <1>1 DEF GuestRecords
  <2>4. guest'.writes = guest.writes /\ guest'.unmatched = guest.unmatched
    BY <1>0, <1>1 DEF GuestRecords
  <2> QED BY <2>2, <2>3, <2>4
<1>11. RingInOrder(guest'.writes, guest'.sequence)
  <2>1. DOMAIN guest.writes = 1 .. Len(guest.writes)
    BY <1>0
  <2> QED BY <1>0, <1>3, <1>4, <1>10 DEF RingInOrder
<1>12. ASSUME guest'.sequence <= HistoryCapacity
       PROVE  /\ Len(guest'.writes) + Len(guest'.calls) = guest'.sequence
              /\ FramesInv(guest')
              /\ guest'.unmatched => guest'.writes # <<>> /\ LastWrite'.delta > 0
              /\ guest'.writes # <<>> /\ LastWrite'.depth > 1 =>
                    EnteringCalls' # {} /\ (guest'.unmatched <=> LastWrite'.delta > 0 /\ ~MatchingAllocation')
  <2>1. guest.sequence <= HistoryCapacity /\ guest.sequence < HistoryCapacity
    BY <1>0, <1>10, <1>12, FocusAssumption
  <2>2. /\ Len(guest.writes) + Len(guest.calls) = guest.sequence /\ FramesInv(guest)
        /\ guest.unmatched => guest.writes # <<>> /\ LastWrite.delta > 0
        /\ guest.writes # <<>> /\ LastWrite.depth > 1 =>
              EnteringCalls # {} /\ (guest.unmatched <=> LastWrite.delta > 0 /\ ~MatchingAllocation)
    BY <2>1 DEF FocusInv, HistoryInv
  <2>a. /\ Len(guest.writes) + Len(guest.calls) = guest.sequence
        /\ Len(guest.writes) \in Nat /\ Len(guest.calls) \in Nat
    BY <1>3, <2>2
  <2>b. HistoryCapacity \in Nat
    BY FocusAssumption
  <2> DEFINE w == Len(guest.writes)
             c == Len(guest.calls)
  <2>c. w \in Nat /\ c \in Nat /\ w + c = guest.sequence
    BY <2>a
  <2>d. c = Len(guest.calls) /\ w = Len(guest.writes)
    OBVIOUS
  <2> HIDE DEF w, c
  <2>3. c < HistoryCapacity /\ w + (c + 1) = guest.sequence + 1
    BY <2>1, <2>b, <2>c
  <2>4. pushed = Append(guest.calls, new)
    BY <1>5, <2>3, <2>d
  <2>5. /\ Len(pushed) = Len(guest.calls) + 1 /\ pushed[Len(guest.calls) + 1] = new
        /\ \A i \in 1 .. Len(guest.calls) : pushed[i] = guest.calls[i]
    BY <1>0, <1>2, <2>4
  <2>6. FramesInv(guest')
    <3> SUFFICES ASSUME NEW d \in 2 .. Len(frames)
                 PROVE  /\ CallsInto(guest', d) # {}
                        /\ \A k \in CallsInto(guest', d) : Enters(guest', d, k) =>
                              \A size \in Nat \ {0} : size \in frames[d] <=> Allocated(guest', d, k, size)
      BY <1>10 DEF FramesInv
    <3>1. CASE d <= Depth
      <4>1. CallsInto(guest', d) = CallsInto(guest, d)
        <5>1. DOMAIN guest.calls = 1 .. Len(guest.calls) /\ DOMAIN guest'.calls = 1 .. Len(guest.calls) + 1
          BY <1>0, <1>5, <1>10, <2>5
        <5>2. guest'.calls[Len(guest.calls) + 1].depth # d - 1
          BY <1>0, <1>2, <1>10, <2>5, <3>1
        <5> QED BY <1>3, <1>10, <2>5, <5>1, <5>2 DEF CallsInto
      <4>2. \A k \in CallsInto(guest, d) : guest'.calls[k].sequence = guest.calls[k].sequence
        <5>1. DOMAIN guest.calls = 1 .. Len(guest.calls)
          BY <1>0
        <5> QED BY <1>10, <2>5, <5>1 DEF CallsInto
      <4>3. d \in 2 .. Len(guest.frames) /\ frames[d] = guest.frames[d]
        BY <1>0, <1>7, <3>1 DEF Depth
      <4> QED BY <1>10, <2>2, <4>1, <4>2, <4>3 DEF FramesInv, Enters, Allocated
    <3>2. CASE d > Depth
      <4>1. d = Depth + 1 /\ frames[d] = {}
        BY <1>0, <1>6, <1>8, <1>9, <3>2
      <4>2. Len(guest.calls) + 1 \in CallsInto(guest', d)
        BY <1>0, <1>2, <1>10, <2>5, <4>1 DEF CallsInto
      <4>3. ASSUME NEW k \in CallsInto(guest', d), Enters(guest', d, k), NEW size \in Nat \ {0}
            PROVE  ~Allocated(guest', d, k, size)
        <5>1. k = Len(guest.calls) + 1
          BY <1>0, <1>10, <2>5, <4>2, <4>3 DEF Enters, CallsInto
        <5>2. guest'.calls[k].sequence = guest.sequence + 1
          BY <1>2, <1>10, <2>5, <5>1
        <5>3. \A i \in DOMAIN guest.writes : guest.writes[i].sequence <= guest.sequence
                /\ guest.writes[i].sequence \in Nat
          BY <1>3, <1>4 DEF RingInOrder
        <5> QED BY <1>0, <1>10, <5>2, <5>3 DEF Allocated
      <4> QED BY <4>1, <4>2, <4>3
    <3> QED BY <1>0, <3>1, <3>2
  <2>7. ASSUME guest.writes # <<>>
        PROVE  /\ LastWrite' = LastWrite /\ EnteringCalls' = EnteringCalls
               /\ EnteringCalls # {} => MatchingAllocation' = MatchingAllocation
    <3>1. DOMAIN guest.calls \subseteq DOMAIN guest'.calls
      BY <1>0, <1>10, <1>5, <2>5
    <3>2. \A i \in DOMAIN guest.calls : guest'.calls[i] = guest.calls[i]
      BY <1>0, <1>10, <2>5
    <3>3. LastWrite.sequence <= guest.sequence /\ LastWrite.sequence \in Nat
      <4>1. Len(guest.writes) \in DOMAIN guest.writes
        BY <1>0, <2>7
      <4> QED BY <1>3, <1>4, <4>1 DEF LastWrite, Last, RingInOrder
    <3>4. \A i \in DOMAIN guest'.calls \ DOMAIN guest.calls : guest'.calls[i].sequence > LastWrite.sequence
      <4>1. \A i \in DOMAIN guest'.calls \ DOMAIN guest.calls : i = Len(guest.calls) + 1
        BY <1>0, <1>5, <1>10, <2>5
      <4> QED BY <1>0, <1>2, <1>10, <2>5, <3>3, <4>1
    <3> QED BY <1>0, <1>10, <2>7, <3>1, <3>2, <3>4, SameHistory
  <2>8. Len(guest'.writes) + Len(guest'.calls) = guest'.sequence
    <3>1. guest'.sequence = guest.sequence + 1 /\ guest'.writes = guest.writes /\ guest'.calls = pushed
      BY <1>10
    <3> QED BY <2>3, <2>5, <2>d, <3>1
  <2> QED BY <1>10, <2>2, <2>6, <2>7, <2>8
<1>13. HistoryInv'
  BY <1>5, <1>10, <1>11, <1>12 DEF HistoryInv
<1> QED BY <1>6, <1>10, <1>13

LEMMA R1WriteKeeps ==
    ASSUME FocusInv, NEW size \in FrameSizes, NEW delta \in {size, -size}, MoveR1(delta)
    PROVE  guest' \in GuestRecords /\ guest'.frames # <<>> /\ HistoryInv'
<1> DEFINE new == [sequence |-> guest.sequence + 1, depth |-> Depth, delta |-> delta]
           pushed == Push(guest.writes, new)
           unmatched == delta > 0 /\ delta \notin guest.frames[Depth]
           frame == IF delta < 0 THEN guest.frames[Depth] \cup {-delta} ELSE guest.frames[Depth]
           frames == [guest.frames EXCEPT ![Depth] = frame]
<1>0. /\ guest \in GuestRecords /\ guest.frames # <<>>
      /\ guest.calls \in Seq(GuestEvents) /\ guest.writes \in Seq(RegisterWrites) /\ guest.sequence \in Nat
      /\ guest.frames \in Seq(SUBSET Nat) /\ Depth \in Nat \ {0} /\ guest.r1 \in Int
      /\ Depth = Len(guest.frames)
  BY DEF FocusInv, GuestRecords, Depth
<1>1. guest' = [guest EXCEPT !.sequence = guest.sequence + 1, !.writes = pushed, !.r1 = guest.r1 + delta,
                             !.unmatched = unmatched, !.frames = frames]
  BY DEF MoveR1
<1>d. size \in Nat \ {0} /\ delta \in Int /\ (delta < 0 => -delta \in Nat \ {0}) /\ delta # 0
  BY FocusAssumption
<1>2. new \in RegisterWrites /\ new.sequence = guest.sequence + 1 /\ new.depth = Depth /\ new.delta = delta
  BY <1>0, <1>d DEF RegisterWrites
<1>3. /\ \A i \in DOMAIN guest.calls : /\ guest.calls[i] \in GuestEvents /\ guest.calls[i].sequence \in Nat
                                       /\ guest.calls[i].depth \in Nat
      /\ \A i \in DOMAIN guest.writes : guest.writes[i] \in RegisterWrites /\ guest.writes[i].sequence \in Nat
      /\ Len(guest.calls) \in Nat /\ Len(guest.writes) \in Nat
  BY <1>0, EventsNumbered
<1>4. RingInOrder(guest.calls, guest.sequence) /\ RingInOrder(guest.writes, guest.sequence)
  BY DEF FocusInv, HistoryInv
<1> HIDE DEF new
<1>5. /\ pushed \in Seq(RegisterWrites) /\ RingInOrder(pushed, guest.sequence + 1)
      /\ Len(guest.writes) < HistoryCapacity => pushed = Append(guest.writes, new)
  BY <1>0, <1>2, <1>4, EventsNumbered, RingKeeps
<1>6. /\ frames \in Seq(SUBSET Nat) /\ frames # <<>> /\ Len(frames) = Depth /\ frames[Depth] = frame
      /\ \A d \in 1 .. Depth : d # Depth => frames[d] = guest.frames[d]
  <2>1. frame \in SUBSET Nat
    <3>1. Depth \in DOMAIN guest.frames /\ guest.frames[Depth] \in SUBSET Nat
      BY <1>0
    <3> QED BY <1>d, <3>1
  <2>2. /\ DOMAIN guest.frames = 1 .. Depth
        /\ \A d \in 1 .. Depth : guest.frames[d] \in SUBSET Nat
    BY <1>0
  <2> HIDE DEF frame
  <2>3. /\ DOMAIN frames = 1 .. Depth /\ frames[Depth] = frame
        /\ \A d \in 1 .. Depth : d # Depth => frames[d] = guest.frames[d]
    BY <1>0, <2>2
  <2>4. frames = [d \in 1 .. Depth |-> frames[d]]
    BY <2>2, <2>3
  <2>5. \A d \in 1 .. Depth : frames[d] \in SUBSET Nat
    BY <2>1, <2>2, <2>3
  <2> HIDE DEF frames
  <2>6. frames \in [1 .. Depth -> SUBSET Nat]
    BY <2>3, <2>4, <2>5
  <2>7. frames \in Seq(SUBSET Nat) /\ Len(frames) = Depth
    BY <1>0, <2>3, <2>6
  <2> QED BY <1>0, <2>3, <2>7
<1>7. unmatched \in BOOLEAN /\ guest.r1 + delta \in Int /\ guest.sequence + 1 \in Nat
  BY <1>0, <1>d
<1>8. /\ unmatched <=> delta > 0 /\ delta \notin guest.frames[Depth]
      /\ \A k \in Nat \ {0} : k \in frame <=> k \in guest.frames[Depth] \/ k = -delta
  BY <1>0, <1>d
<1> HIDE DEF pushed, frames, frame, unmatched
<1>9. guest' \in GuestRecords
  BY <1>0, <1>1, <1>5, <1>6, <1>7 DEF GuestRecords
<1>10. /\ guest'.sequence = guest.sequence + 1 /\ guest'.calls = guest.calls
       /\ guest'.frames = frames /\ guest'.writes = pushed /\ guest'.unmatched = unmatched
  BY <1>0, <1>1 DEF GuestRecords
<1>11. RingInOrder(guest'.calls, guest'.sequence)
  <2>1. DOMAIN guest.calls = 1 .. Len(guest.calls)
    BY <1>0
  <2> QED BY <1>0, <1>3, <1>4, <1>10 DEF RingInOrder
<1>12. ASSUME guest'.sequence <= HistoryCapacity
       PROVE  /\ Len(guest'.writes) + Len(guest'.calls) = guest'.sequence
              /\ FramesInv(guest')
              /\ guest'.unmatched => guest'.writes # <<>> /\ LastWrite'.delta > 0
              /\ guest'.writes # <<>> /\ LastWrite'.depth > 1 =>
                    EnteringCalls' # {} /\ (guest'.unmatched <=> LastWrite'.delta > 0 /\ ~MatchingAllocation')
  <2>1. guest.sequence <= HistoryCapacity /\ guest.sequence < HistoryCapacity
    BY <1>0, <1>10, <1>12, FocusAssumption
  <2>2. Len(guest.writes) + Len(guest.calls) = guest.sequence /\ FramesInv(guest)
    BY <2>1 DEF FocusInv, HistoryInv
  <2>b. HistoryCapacity \in Nat
    BY FocusAssumption
  <2> DEFINE w == Len(guest.writes)
             c == Len(guest.calls)
  <2>c. w \in Nat /\ c \in Nat /\ w + c = guest.sequence
    BY <1>3, <2>2
  <2>d. c = Len(guest.calls) /\ w = Len(guest.writes)
    OBVIOUS
  <2> HIDE DEF w, c
  <2>3. w < HistoryCapacity /\ (w + 1) + c = guest.sequence + 1
    BY <2>1, <2>b, <2>c
  <2>4. pushed = Append(guest.writes, new)
    BY <1>5, <2>3, <2>d
  <2>5. /\ Len(pushed) = w + 1 /\ pushed[w + 1] = new /\ DOMAIN pushed = 1 .. w + 1
        /\ \A i \in 1 .. w : pushed[i] = guest.writes[i]
        /\ DOMAIN guest.writes = 1 .. w
    BY <1>0, <1>2, <2>4, <2>d
  <2>6. Len(guest'.writes) + Len(guest'.calls) = guest'.sequence
    BY <1>10, <2>3, <2>5, <2>d
  <2>7. \A d : CallsInto(guest', d) = CallsInto(guest, d)
    BY <1>10 DEF CallsInto
  <2>8. ASSUME NEW d, NEW k \in CallsInto(guest, d), NEW n \in Nat \ {0}
        PROVE  /\ Enters(guest', d, k) <=> Enters(guest, d, k)
               /\ Allocated(guest', d, k, n) <=> Allocated(guest, d, k, n) \/ (d = Depth /\ delta = -n)
    <3>1. Enters(guest', d, k) <=> Enters(guest, d, k)
      BY <2>7 DEF Enters
    <3>2. guest.calls[k].sequence < guest.sequence + 1
      BY <1>0, <1>3, <1>4 DEF CallsInto, RingInOrder
    <3>3. \A i : i \in 1 .. w + 1 <=> i \in 1 .. w \/ i = w + 1
      BY <2>c
    <3>4. Allocated(guest', d, k, n) <=> Allocated(guest, d, k, n) \/ (d = Depth /\ delta = -n)
      BY <1>2, <1>10, <2>5, <3>2, <3>3 DEF Allocated
    <3> QED BY <3>1, <3>4
  <2>9. FramesInv(guest')
    <3> SUFFICES ASSUME NEW d \in 2 .. Len(frames)
                 PROVE  /\ CallsInto(guest', d) # {}
                        /\ \A k \in CallsInto(guest', d) : Enters(guest', d, k) =>
                              \A n \in Nat \ {0} : n \in frames[d] <=> Allocated(guest', d, k, n)
      BY <1>10 DEF FramesInv
    <3>1. d \in 2 .. Len(guest.frames) /\ d \in 1 .. Depth
      BY <1>0, <1>6
    <3>2. /\ CallsInto(guest, d) # {}
          /\ \A k \in CallsInto(guest, d) : Enters(guest, d, k) =>
                \A n \in Nat \ {0} : n \in guest.frames[d] <=> Allocated(guest, d, k, n)
      BY <2>2, <3>1 DEF FramesInv
    <3>3. \A n \in Nat \ {0} : n \in frames[d] <=> n \in guest.frames[d] \/ (d = Depth /\ delta = -n)
      <4>1. \A n \in Nat \ {0} : n = -delta <=> delta = -n
        BY <1>d
      <4> QED BY <1>6, <1>8, <3>1, <4>1
    <3> QED BY <2>7, <2>8, <3>2, <3>3
  <2>10. LastWrite' = new /\ guest'.writes # <<>>
    BY <1>5, <1>10, <2>5, <2>c DEF LastWrite, Last
  <2>11. guest'.unmatched => LastWrite'.delta > 0
    BY <1>2, <1>8, <1>10, <2>10
  <2>12. ASSUME Depth > 1
         PROVE  EnteringCalls' # {} /\ (guest'.unmatched <=> LastWrite'.delta > 0 /\ ~MatchingAllocation')
    <3>1. EnteringCalls' = CallsInto(guest, Depth)
      <4>1. \A i \in DOMAIN guest.calls : guest.calls[i].sequence < guest.sequence + 1
        BY <1>0, <1>3, <1>4 DEF RingInOrder
      <4> QED BY <1>2, <1>10, <2>10, <4>1 DEF EnteringCalls, CallsInto
    <3>2. Depth \in 2 .. Len(guest.frames)
      BY <1>0, <2>12
    <3>3. CallsInto(guest, Depth) # {}
      BY <2>2, <3>2 DEF FramesInv
    <3> DEFINE k == CHOOSE i \in EnteringCalls' : \A j \in EnteringCalls' : j <= i
    <3>4. k \in CallsInto(guest, Depth) /\ \A j \in CallsInto(guest, Depth) : j <= k
      <4>1. /\ CallsInto(guest, Depth) \in SUBSET Nat
            /\ \A i \in CallsInto(guest, Depth) : i <= Len(guest.calls)
        BY <1>0, <1>3 DEF CallsInto
      <4>2. \E m \in CallsInto(guest, Depth) : \A j \in CallsInto(guest, Depth) : j <= m
        BY <1>3, <3>3, <4>1, GreatestExists
      <4> QED BY <3>1, <4>2
    <3>5. EnteringCall' = guest.calls[k]
      BY <1>10 DEF EnteringCall
    <3> HIDE DEF k
    <3>6. Enters(guest, Depth, k)
      BY <3>4 DEF Enters
    <3>7. ASSUME delta > 0 PROVE MatchingAllocation' <=> delta \in guest.frames[Depth]
      <4>1. delta \in Nat \ {0}
        BY <1>d, <3>7
      <4>2. MatchingAllocation' <=> Allocated(guest', Depth, k, delta)
        BY <1>2, <1>10, <2>10, <3>1, <3>3, <3>5 DEF MatchingAllocation, Allocated
      <4>3. delta # -delta
        BY <4>1
      <4>4. Allocated(guest', Depth, k, delta) <=> Allocated(guest, Depth, k, delta)
        BY <2>8, <3>4, <4>1, <4>3
      <4>5. delta \in guest.frames[Depth] <=> Allocated(guest, Depth, k, delta)
        BY <2>2, <3>2, <3>4, <3>6, <4>1 DEF FramesInv
      <4> QED BY <4>2, <4>4, <4>5
    <3> QED BY <1>2, <1>8, <1>10, <2>10, <3>1, <3>3, <3>7
  <2> QED BY <1>2, <2>6, <2>9, <2>10, <2>11, <2>12
<1>13. HistoryInv'
  BY <1>5, <1>10, <1>11, <1>12 DEF HistoryInv
<1> QED BY <1>6, <1>9, <1>10, <1>13

LEMMA ReturnKeeps ==
    ASSUME FocusInv, GuestReturn
    PROVE  guest' \in GuestRecords /\ guest'.frames # <<>> /\ HistoryInv'
<1> DEFINE frames == Front(guest.frames)
<1>0. /\ guest \in GuestRecords /\ guest.frames \in Seq(SUBSET Nat) /\ Len(guest.frames) > 1
      /\ guest' = [guest EXCEPT !.frames = frames]
  BY DEF FocusInv, GuestRecords, GuestReturn, Depth
<1>1. /\ frames \in Seq(SUBSET Nat) /\ frames # <<>> /\ Len(frames) = Len(guest.frames) - 1
      /\ \A d \in 1 .. Len(frames) : frames[d] = guest.frames[d]
  <2> DEFINE all == guest.frames
             n == Len(all) - 1
  <2>1. all \in Seq(SUBSET Nat) /\ n \in Nat \ {0} /\ Len(all) = n + 1
    <3> DEFINE len == Len(guest.frames)
    <3>1. len \in Nat /\ len > 1 /\ len = Len(all) /\ n = len - 1
      BY <1>0
    <3> HIDE DEF len, n
    <3>4. \A l \in Nat : l > 1 => l - 1 \in Nat \ {0} /\ l = (l - 1) + 1
      OBVIOUS
    <3>5. len - 1 \in Nat \ {0} /\ len = (len - 1) + 1
      BY <3>1, <3>4
    <3>2. n \in Nat \ {0} /\ len = n + 1
      BY <3>1, <3>5
    <3>3. all \in Seq(SUBSET Nat)
      BY <1>0
    <3> QED BY <3>1, <3>2, <3>3
  <2>2. frames = SubSeq(all, 1, n)
    BY DEF Front
  <2> HIDE DEF frames, all, n
  <2>3. /\ Len(frames) = n /\ frames \in Seq(SUBSET Nat)
        /\ \A d \in 1 .. n : frames[d] = all[d]
    BY <2>1, <2>2
  <2>4. frames # <<>> /\ Len(frames) = Len(all) - 1
    BY <2>1, <2>3
  <2> QED BY <2>3, <2>4 DEF all
<1> HIDE DEF frames
<1>2. /\ guest' \in GuestRecords /\ guest'.frames = frames /\ guest'.writes = guest.writes
      /\ guest'.calls = guest.calls /\ guest'.sequence = guest.sequence /\ guest'.unmatched = guest.unmatched
  BY <1>0, <1>1 DEF GuestRecords
<1>3. FramesInv(guest) => FramesInv(guest')
  <2>1. \A d : CallsInto(guest', d) = CallsInto(guest, d)
    BY <1>2 DEF CallsInto
  <2>2. \A d, k, n : /\ Enters(guest', d, k) <=> Enters(guest, d, k)
                     /\ Allocated(guest', d, k, n) <=> Allocated(guest, d, k, n)
    BY <1>2, <2>1 DEF Enters, Allocated
  <2>3. \A d \in 2 .. Len(frames) : d \in 2 .. Len(guest.frames) /\ frames[d] = guest.frames[d]
    BY <1>0, <1>1
  <2> QED BY <1>2, <2>1, <2>2, <2>3 DEF FramesInv
<1>4. /\ LastWrite' = LastWrite /\ EnteringCalls' = EnteringCalls
      /\ MatchingAllocation' <=> MatchingAllocation
  <2>1. LastWrite' = LastWrite
    BY <1>2 DEF LastWrite
  <2>2. EnteringCalls' = EnteringCalls
    BY <1>2, <2>1 DEF EnteringCalls
  <2>3. EnteringCall' = EnteringCall
    BY <1>2, <2>2 DEF EnteringCall
  <2> QED BY <1>2, <2>1, <2>2, <2>3 DEF MatchingAllocation
<1> QED BY <1>1, <1>2, <1>3, <1>4 DEF FocusInv, HistoryInv

\* After the stop the guest and what was captured stay, and so does the cause
\* as far as it does not lie in the value of a register.
LEMMA SameOther ==
    ASSUME Stopped, guest' = guest, stop'.boundary = stop.boundary, stop'.captured = stop.captured,
           stop'.op = stop.op, stop'.owner = stop.owner, (stop'.base = "r1") = (stop.base = "r1")
    PROVE  Stopped' /\ OtherFocus' = OtherFocus
<1>1. Stopped' /\ ActiveFault' = ActiveFault
  BY DEF Stopped, ActiveFault
<1>2. Faulted' = Faulted /\ HistoryReady' = HistoryReady /\ TailCall' = TailCall
      /\ LastWrite' = LastWrite /\ LastCall' = LastCall
  BY <1>1 DEF Faulted, HistoryReady, TailCall, LastWrite, LastCall
<1>3. EnteringCalls' = EnteringCalls
  BY <1>2 DEF EnteringCalls
<1>4. EnteringCall' = EnteringCall
  BY <1>3 DEF EnteringCall
<1>5. MatchingAllocation' = MatchingAllocation
  BY <1>2, <1>3, <1>4 DEF MatchingAllocation
<1>6. MissingAllocation' = MissingAllocation /\ SameOwner' = SameOwner /\ CrossInterior' = CrossInterior
  BY <1>2, <1>3, <1>4, <1>5 DEF MissingAllocation, SameOwner, CrossInterior, OwnerOf
<1>7. CrossedGuard' = CrossedGuard /\ R1Fault' = R1Fault
  BY <1>1, <1>2 DEF CrossedGuard, R1Fault, InstructionKind
<1>8. StackFocus' = StackFocus
  BY <1>2, <1>6, <1>7 DEF StackFocus
<1>9. UnresolvedTail' = UnresolvedTail /\ UnsupportedTail' = UnsupportedTail
      /\ KernelImportBlocker' = KernelImportBlocker
  BY <1>2 DEF UnresolvedTail, UnsupportedTail, KernelImportBlocker
<1> QED BY <1>1, <1>8, <1>9 DEF OtherFocus

LEMMA SameCause ==
    ASSUME Stopped, guest' = guest, stop' = stop
    PROVE  Stopped' /\ ProblemFocus' = ProblemFocus /\ OtherFocus' = OtherFocus
<1>1. Stopped' /\ OtherFocus' = OtherFocus
  BY SameOther
<1>2. ActiveFault' = ActiveFault /\ Faulted' = Faulted
  BY DEF Stopped, ActiveFault, Faulted
<1>3. IndexedEntryZero' = IndexedEntryZero /\ LowApertureFault' = LowApertureFault
  BY <1>2 DEF IndexedEntryZero, LowApertureFault, InstructionKind
<1> QED BY <1>1, <1>3 DEF ProblemFocus

LEMMA ZeroOrOther == ProblemFocus \in ZeroRegisterCauses \cup {OtherFocus}
BY DEF ProblemFocus, ZeroRegisterCauses

LEMMA FocusStarts == FocusInit => FocusInv
<1> SUFFICES ASSUME FocusInit PROVE FocusInv
  OBVIOUS
<1>1. /\ guest.writes = <<>> /\ guest.calls = <<>> /\ guest.sequence = 0 /\ guest.frames = <<{}>>
      /\ guest.unmatched = FALSE /\ first = "none" /\ stop.boundary = "running" /\ StopTyped
  BY DEF FocusInit, NoStop, StopTyped
<1>2. guest \in GuestRecords
  <2>1. <<>> \in Seq(RegisterWrites) /\ <<>> \in Seq(GuestEvents) /\ <<{}>> \in Seq(SUBSET Nat)
    OBVIOUS
  <2> QED BY <2>1 DEF FocusInit, GuestRecords
<1>3. FramesInv(guest)
  BY <1>1 DEF FramesInv
<1>4. HistoryInv
  BY <1>1, <1>3 DEF HistoryInv, RingInOrder
<1> QED BY <1>1, <1>2, <1>4 DEF FocusInv

LEMMA FocusKeeps == FocusInv /\ [FocusNext]_focusVars => FocusInv'
<1> SUFFICES ASSUME FocusInv, [FocusNext]_focusVars PROVE FocusInv'
  OBVIOUS
<1>1. ASSUME ~Stopped, guest' \in GuestRecords, guest'.frames # <<>>, HistoryInv',
             UNCHANGED <<stop, latch, first>>
      PROVE  FocusInv'
  <2>1. first = "none"
    BY <1>1 DEF FocusInv
  <2>2. StopTyped'
    BY <1>1 DEF FocusInv, StopTyped
  <2> QED BY <1>1, <2>1, <2>2 DEF FocusInv
<1>2. ASSUME guest' = guest PROVE guest' \in GuestRecords /\ guest'.frames # <<>> /\ HistoryInv'
  <2>1. /\ LastWrite' = LastWrite /\ EnteringCalls' = EnteringCalls /\ FramesInv(guest') = FramesInv(guest)
    BY <1>2 DEF LastWrite, EnteringCalls
  <2>2. EnteringCall' = EnteringCall
    BY <1>2, <2>1 DEF EnteringCall
  <2>3. MatchingAllocation' = MatchingAllocation
    BY <1>2, <2>1, <2>2 DEF MatchingAllocation
  <2> QED BY <1>2, <2>1, <2>3 DEF FocusInv, HistoryInv
<1>3. ASSUME NEW kind \in GuestCalls, GuestCall(kind.owner, kind.tail) PROVE FocusInv'
  BY <1>1, <1>3, CallKeeps DEF GuestCall, Running
<1>4. ASSUME NEW size \in FrameSizes, MoveR1(size) \/ MoveR1(-size) PROVE FocusInv'
  BY <1>1, <1>4, R1WriteKeeps DEF MoveR1, Running
<1>5. CASE GuestReturn
  BY <1>1, <1>5, ReturnKeeps DEF GuestReturn
<1>6. ASSUME NEW case \in StopCases, CaptureStop(case) PROVE FocusInv'
  <2>1. guest' = guest /\ first' = first /\ first = "none"
    BY <1>6 DEF CaptureStop, FocusInv
  <2>2. case.boundary = "kernel-import-unimplemented" => case.op = Branch
    BY <1>6 DEF CaptureStop, Plausible
  <2>3. StopTyped' /\ stop'.boundary = case.boundary /\ stop'.op = case.op
    BY <1>6 DEF CaptureStop, StopTyped
  <2> QED BY <1>2, <2>1, <2>2, <2>3 DEF FocusInv
<1>7. CASE FirstReport
  <2>1. guest' = guest /\ stop' = stop /\ Stopped /\ first' = ProblemFocus
    BY <1>7 DEF FirstReport
  <2>2. Stopped' /\ ProblemFocus' = ProblemFocus /\ OtherFocus' = OtherFocus
    BY <2>1, SameCause
  <2> QED BY <1>2, <2>1, <2>2, ZeroOrOther DEF FocusInv, StopTyped
<1>8. ASSUME NEW fault \in Latches, HostRead(fault) PROVE FocusInv'
  <2>1. guest' = guest /\ stop' = stop /\ Stopped /\ first' = first
    BY <1>8 DEF HostRead
  <2>2. Stopped' /\ ProblemFocus' = ProblemFocus /\ OtherFocus' = OtherFocus
    BY <2>1, SameCause
  <2> QED BY <1>2, <2>1, <2>2 DEF FocusInv, StopTyped
<1>9. CASE UNCHANGED focusVars
  <2>1. guest' = guest /\ stop' = stop /\ first' = first
    BY <1>9 DEF focusVars
  <2>2. Stopped => Stopped' /\ ProblemFocus' = ProblemFocus /\ OtherFocus' = OtherFocus
    BY <2>1, SameCause
  <2> QED BY <1>2, <2>1, <2>2 DEF FocusInv, StopTyped
<1>10. ASSUME NEW zero \in BOOLEAN, RunAgain(zero) PROVE FocusInv'
  <2> DEFINE base == IF stop.base = "r1" THEN stop.base ELSE IF zero THEN "zero" ELSE "other"
             since == IF stop.since = "nothing" THEN "ran" ELSE stop.since
  <2>1. guest' = guest /\ first' = first /\ Stopped
        /\ stop' = [stop EXCEPT !.base = base, !.indexZero = zero, !.since = since]
    BY <1>10 DEF RunAgain
  <2>2. /\ (base = "r1") = (stop.base = "r1")
        /\ since \in {"ran", "loaded"} /\ (since = "loaded") = (stop.since = "loaded")
    BY DEF FocusInv, StopTyped
  <2> HIDE DEF base, since
  <2>3. /\ stop' = [boundary |-> stop.boundary, captured |-> stop.captured, afterEntry |-> stop.afterEntry,
                    op |-> stop.op, base |-> base, indexZero |-> zero, owner |-> stop.owner,
                    since |-> since]
    BY <2>1 DEF FocusInv, StopTyped
  <2>4. StopTyped'
    BY <2>2, <2>3 DEF StopTyped
  <2>5. Stopped' /\ OtherFocus' = OtherFocus
    BY <2>1, <2>2, <2>3, SameOther
  <2> QED BY <1>2, <2>1, <2>2, <2>3, <2>4, <2>5 DEF FocusInv
<1>11. ASSUME NEW image \in NextImages, LoadAgain(image) PROVE FocusInv'
  <2>1. guest' = guest /\ first' = first /\ Stopped
        /\ stop' = [boundary |-> stop.boundary, captured |-> stop.captured, afterEntry |-> stop.afterEntry,
                    op |-> image.op, base |-> image.base, indexZero |-> image.indexZero,
                    owner |-> image.owner, since |-> "loaded"]
    BY <1>11 DEF LoadAgain, FocusInv, StopTyped
  <2>2. StopTyped' /\ Stopped'
    BY <2>1 DEF StopTyped, Stopped
  <2> QED BY <1>2, <2>1, <2>2 DEF FocusInv
<1> QED BY <1>3, <1>4, <1>5, <1>6, <1>7, <1>8, <1>9, <1>10, <1>11 DEF FocusNext

LEMMA ImportNamed ==
    ASSUME FocusInv, stop.boundary = "kernel-import-unimplemented", stop.since # "loaded"
    PROVE  ProblemFocus = "KERNEL_IMPORT_BLOCKER"
<1>1. InstructionKind(stop.op) = "branch"
  <2>1. stop.op.primary = 18
    BY DEF FocusInv, Branch
  <2>2. 18 \notin {14, 15} /\ 18 # 31 /\ 18 \notin {58, 62} /\ 18 \notin MemoryPrimaries /\ 18 # 19
    BY DEF MemoryPrimaries
  <2> QED BY <2>1, <2>2 DEF InstructionKind
<1>2. ~IndexedEntryZero /\ ~LowApertureFault
  BY <1>1 DEF IndexedEntryZero, LowApertureFault
<1>3. ~UnresolvedTail /\ ~UnsupportedTail /\ KernelImportBlocker
  BY DEF UnresolvedTail, UnsupportedTail, KernelImportBlocker
<1> QED BY <1>2, <1>3 DEF ProblemFocus, OtherFocus

(* Reports of one stop name one cause until the core runs again or loads    *)
(* another image, an allocation is missed exactly when there was none, and  *)
(* a missing import is named (developer-console.js).                        *)
THEOREM CauseIsNamedHolds == FocusSpec => []CauseIsNamed
<1>1. FocusInv => CauseIsNamed
  <2> SUFFICES ASSUME FocusInv PROVE FocusIsOfTheStop /\ MissingIsReal /\ ImportIsNamed
    BY DEF CauseIsNamed
  <2>1. FocusIsOfTheStop
    BY ZeroOrOther DEF FocusInv, FocusIsOfTheStop
  <2>2. MissingIsReal
    <3> SUFFICES ASSUME guest.sequence <= HistoryCapacity
                 PROVE  MissingAllocation <=> guest.unmatched /\ LastWrite.depth > 1
      BY DEF MissingIsReal
    <3>1. /\ guest.unmatched => guest.writes # <<>> /\ LastWrite.delta > 0
          /\ guest.writes # <<>> /\ LastWrite.depth > 1 =>
                EnteringCalls # {} /\ (guest.unmatched <=> LastWrite.delta > 0 /\ ~MatchingAllocation)
      BY DEF FocusInv, HistoryInv
    <3>2. EnteringCalls # {} => guest.calls # <<>>
      BY DEF EnteringCalls
    <3> QED BY <3>1, <3>2 DEF MissingAllocation, HistoryReady
  <2>3. ImportIsNamed
    BY ImportNamed DEF ImportIsNamed, ShownCells
  <2> QED BY <2>1, <2>2, <2>3
<1> QED BY <1>1, FocusStarts, FocusKeeps, PTL DEF FocusSpec

-----------------------------------------------------------------------------
(* The developer console (DeveloperConsole)                                  *)

ConsoleSpec == ConsoleInit /\ [][ConsoleNext]_consoleVars

Texts == Messages \cup {"enabled", "diagnosis", "trace"}
LogLines == [message : Texts, count : Nat]
Consoles == [enabled : BOOLEAN, listening : BOOLEAN, opened : BOOLEAN, entries : Seq(LogLines)]
TitleTraces == [current : Nat, firmware : SUBSET ConsoleResults, logged : Nat,
                pending : SUBSET ConsoleResults, published : [ConsoleResults -> Nat],
                traced : [ConsoleResults -> Nat]]

\* entries is the log of what s says.
LogOf(s, entries) ==
    LET runs == Cardinality(RunStarts(s))
        shown == Len(entries)
    IN  /\ shown = (IF runs < MAX_LOGS THEN runs ELSE MAX_LOGS)
        /\ \A i \in RunStarts(s) : RunsFrom(s, i) <= shown => entries[shown + 1 - RunsFrom(s, i)] = RunOf(s, i)

LogInv(s, entries) ==
    /\ s \in Seq(Texts) /\ entries \in Seq(LogLines)
    /\ entries = <<>> <=> s = <<>>
    /\ s # <<>> => Last(entries).message = s[Len(s)]
    /\ LogOf(s, entries)

\* A result that was diagnosed is not the next one to be; one whose trace is
\* awaited has none.
TracesInv ==
    /\ titles \in TitleTraces /\ titles.logged <= titles.current
    /\ \A r \in titles.firmware : r <= titles.current
    /\ titles.pending \subseteq titles.firmware
    /\ \A r \in ConsoleResults :
          /\ titles.published[r] <= 1 /\ titles.traced[r] <= 1
          /\ titles.published[r] # 0 => r \in titles.firmware /\ r <= titles.logged
          /\ titles.traced[r] # 0 => r \in titles.firmware /\ r \notin titles.pending

ConsoleInv == console \in Consoles /\ LogInv(accepted, console.entries) /\ TracesInv

LEMMA RunsAreFew ==
    ASSUME NEW S, NEW s \in Seq(S)
    PROVE  /\ RunStarts(s) \in SUBSET Nat /\ RunStarts(s) \subseteq 1 .. Len(s)
           /\ IsFiniteSet(RunStarts(s)) /\ Cardinality(RunStarts(s)) \in Nat
           /\ \A i : IsFiniteSet({j \in RunStarts(s) : i <= j}) /\ RunsFrom(s, i) \in Nat
           /\ s # <<>> => 1 \in RunStarts(s)
<1>1. RunStarts(s) \subseteq 1 .. Len(s) /\ Len(s) \in Nat
  BY DEF RunStarts
<1>2. IsFiniteSet(1 .. Len(s))
  BY <1>1, FS_Interval
<1>3. IsFiniteSet(RunStarts(s)) /\ Cardinality(RunStarts(s)) \in Nat
  BY <1>1, <1>2, FS_Subset, FS_CardinalityType
<1>4. \A i : IsFiniteSet({j \in RunStarts(s) : i <= j}) /\ RunsFrom(s, i) \in Nat
  <2> TAKE i
  <2> DEFINE from == {j \in RunStarts(s) : i <= j}
  <2>1. from \subseteq RunStarts(s)
    OBVIOUS
  <2>2. RunsFrom(s, i) = Cardinality(from)
    BY DEF RunsFrom
  <2> HIDE DEF from
  <2>3. IsFiniteSet(from) /\ Cardinality(from) \in Nat
    BY <1>3, <2>1, FS_Subset, FS_CardinalityType
  <2> QED BY <2>2, <2>3 DEF from
<1>5. s # <<>> => 1 \in RunStarts(s)
  <2>1. s # <<>> => 1 \in DOMAIN s
    OBVIOUS
  <2> QED BY <2>1 DEF RunStarts
<1>6. \A i \in 1 .. Len(s) : i \in Nat
  OBVIOUS
<1> QED BY <1>1, <1>3, <1>4, <1>5, <1>6

\* From the last run on nothing else is said.
LEMMA LastRunLasts ==
    ASSUME NEW S, NEW s \in Seq(S), NEW i \in RunStarts(s), \A j \in RunStarts(s) : j <= i
    PROVE  \A k \in i .. Len(s) : s[k] = s[i]
<1> DEFINE other == {k \in i + 1 .. Len(s) : s[k] # s[i]}
<1>1. i \in Nat \ {0} /\ Len(s) \in Nat /\ DOMAIN s = 1 .. Len(s)
  BY DEF RunStarts
<1>2. CASE other = {}
  <2>1. \A k \in i .. Len(s) : k = i \/ k \in i + 1 .. Len(s)
    BY <1>1
  <2> QED BY <1>2, <2>1
<1>3. CASE other # {}
  <2>1. other \in SUBSET Nat
    BY <1>1
  <2>2. PICK k \in other : \A j \in other : k <= j
    BY <1>3, <2>1, LeastExists
  <2>3. k \in i + 1 .. Len(s) /\ k \in Nat /\ s[k] # s[i] /\ k - 1 \in i .. Len(s) /\ k - 1 < k /\ k \in 1 .. Len(s)
    BY <1>1
  <2>4. s[k - 1] = s[i]
    <3>1. k - 1 = i \/ k - 1 \in i + 1 .. Len(s)
      BY <1>1, <2>3
    <3>2. k - 1 \notin other
      BY <2>1, <2>2, <2>3
    <3> QED BY <3>1, <3>2
  <2>5. k \in RunStarts(s)
    BY <1>1, <2>3, <2>4 DEF RunStarts
  <2> QED BY <1>1, <2>3, <2>5
<1> QED BY <1>2, <1>3

\* One more message: where runs begin.
LEMMA StartsGrow ==
    ASSUME NEW S, NEW s \in Seq(S), NEW m \in S
    PROVE  RunStarts(Append(s, m)) =
              IF s # <<>> /\ s[Len(s)] = m THEN RunStarts(s) ELSE RunStarts(s) \cup {Len(s) + 1}
<1> DEFINE n == Len(s)
           t == Append(s, m)
<1>1. /\ n \in Nat /\ DOMAIN s = 1 .. n /\ DOMAIN t = 1 .. n + 1 /\ t[n + 1] = m
      /\ \A i \in 1 .. n : t[i] = s[i]
      /\ s = <<>> <=> n = 0
  OBVIOUS
<1> HIDE DEF n, t
<1>2. \A i \in 1 .. n : i \in RunStarts(t) <=> i \in RunStarts(s)
  <2> TAKE i \in 1 .. n
  <2>1. i # 1 => i - 1 \in 1 .. n
    BY <1>1
  <2>2. i \in 1 .. n + 1
    BY <1>1
  <2> QED BY <1>1, <2>1, <2>2 DEF RunStarts
<1>3. n + 1 \in RunStarts(t) <=> ~(s # <<>> /\ s[n] = m)
  <2>1. n + 1 \in 1 .. n + 1 /\ (n + 1) - 1 = n /\ (n + 1 = 1 <=> n = 0)
    BY <1>1
  <2>2. n # 0 => t[n] = s[n]
    BY <1>1
  <2> QED BY <1>1, <2>1, <2>2 DEF RunStarts
<1>4. RunStarts(s) \subseteq 1 .. n /\ RunStarts(t) \subseteq 1 .. n + 1 /\ n + 1 \notin 1 .. n
  BY <1>1 DEF RunStarts
<1>5. \A i \in 1 .. n + 1 : i \in 1 .. n \/ i = n + 1
  BY <1>1
<1> QED BY <1>2, <1>3, <1>4, <1>5 DEF n, t

\* A run goes on while it is the last and its message is said again.
LEMMA RunGrows ==
    ASSUME NEW S, NEW s \in Seq(S), NEW m \in S, NEW i \in RunStarts(s)
    PROVE  /\ (\E j \in RunStarts(s) : j > i) \/ s[Len(s)] # m => RunOf(Append(s, m), i) = RunOf(s, i)
           /\ (\A j \in RunStarts(s) : j <= i) /\ s[Len(s)] = m =>
                 RunOf(Append(s, m), i) = [message |-> m, count |-> RunOf(s, i).count + 1]
           /\ RunOf(s, i).count \in Nat
<1> DEFINE n == Len(s)
           t == Append(s, m)
           run == {j \in i .. n : \A k \in i .. j : s[k] = s[i]}
           grown == {j \in i .. n + 1 : \A k \in i .. j : t[k] = t[i]}
<1>1. /\ n \in Nat /\ DOMAIN s = 1 .. n /\ Len(t) = n + 1 /\ t[n + 1] = m
      /\ \A k \in 1 .. n : t[k] = s[k]
  OBVIOUS
<1>2. i \in 1 .. n /\ i \in Nat \ {0}
  BY <1>1 DEF RunStarts
<1>3. RunOf(s, i) = [message |-> s[i], count |-> Cardinality(run)]
  BY DEF RunOf
<1>4. RunOf(t, i) = [message |-> t[i], count |-> Cardinality(grown)]
  BY <1>1 DEF RunOf
<1>5. IsFiniteSet(run) /\ Cardinality(run) \in Nat
  <2>1. IsFiniteSet(i .. n)
    BY <1>1, <1>2, FS_Interval
  <2>2. run \subseteq i .. n
    OBVIOUS
  <2> HIDE DEF run
  <2> QED BY <2>1, <2>2, FS_Subset, FS_CardinalityType
<1> HIDE DEF n, t
<1>6. /\ \A j \in i .. n : j \in i .. n + 1 /\ (\A k \in i .. j : k \in 1 .. n) /\ j \in 1 .. n
      /\ \A j \in i .. n + 1 : j \in i .. n \/ j = n + 1
      /\ n + 1 \in i .. n + 1 /\ n + 1 \notin i .. n /\ n \in i .. n + 1 /\ n \in 1 .. n
  BY <1>1, <1>2
<1>7. t[i] = s[i] /\ \A j \in i .. n : j \in grown <=> j \in run
  BY <1>1, <1>2, <1>6
<1>8. ASSUME (\E j \in RunStarts(s) : j > i) \/ s[n] # m
      PROVE  RunOf(t, i) = RunOf(s, i)
  <2>1. n + 1 \notin grown
    <3>1. CASE s[n] # m
      <4>1. t[n] # t[n + 1]
        BY <1>1, <1>6, <3>1
      <4> QED BY <1>6, <4>1
    <3>2. ASSUME NEW j \in RunStarts(s), j > i PROVE n + 1 \notin grown
      <4>1. j \in 1 .. n /\ j # 1 /\ s[j] # s[j - 1] /\ j - 1 \in 1 .. n /\ j - 1 \in i .. n + 1 /\ j \in i .. n + 1
        BY <1>1, <1>2, <3>2 DEF RunStarts
      <4>2. t[j] # t[j - 1]
        BY <1>1, <4>1
      <4> QED BY <4>1, <4>2
    <3> QED BY <1>8, <3>1, <3>2
  <2>2. grown = run
    BY <1>6, <1>7, <2>1
  <2> QED BY <1>3, <1>4, <1>7, <2>2
<1>9. ASSUME \A j \in RunStarts(s) : j <= i, s[n] = m
      PROVE  RunOf(t, i) = [message |-> m, count |-> RunOf(s, i).count + 1]
  <2>1. \A k \in i .. n : s[k] = s[i]
    BY <1>9, LastRunLasts DEF n
  <2>2. s[i] = m
    BY <1>1, <1>2, <1>9, <2>1
  <2>3. \A k \in i .. n + 1 : t[k] = t[i]
    BY <1>1, <1>6, <1>7, <2>1, <2>2
  <2>4. n + 1 \in grown /\ n + 1 \notin run
    BY <1>6, <2>3
  <2>5. grown = run \cup {n + 1}
    BY <1>6, <1>7, <2>4
  <2> HIDE DEF grown, run
  <2>6. Cardinality(grown) = Cardinality(run) + 1
    BY <1>5, <2>4, <2>5, FS_AddElement
  <2> QED BY <1>3, <1>4, <1>7, <2>2, <2>6
<1>10. RunOf(s, i).count \in Nat
  BY <1>3, <1>5
<1> HIDE DEF run, grown
<1> QED BY <1>8, <1>9, <1>10 DEF n, t

LEMMA NewRun ==
    ASSUME NEW S, NEW s \in Seq(S), NEW m \in S
    PROVE  RunOf(Append(s, m), Len(s) + 1) = [message |-> m, count |-> 1]
<1> DEFINE n == Len(s) + 1
           t == Append(s, m)
           run == {j \in n .. Len(t) : \A k \in n .. j : t[k] = t[n]}
<1>1. n \in Nat /\ Len(t) = n /\ t[n] = m
  OBVIOUS
<1>2. RunOf(t, n) = [message |-> t[n], count |-> Cardinality(run)]
  BY DEF RunOf
<1>3. run = {n}
  <2> HIDE DEF n, t
  <2>1. \A j : j \in n .. n <=> j = n
    BY <1>1
  <2> QED BY <1>1, <2>1
<1> HIDE DEF run
<1>4. Cardinality(run) = 1
  BY <1>3, FS_Singleton
<1> QED BY <1>1, <1>2, <1>4

\* How many runs begin at one or after it.
LEMMA RunsCounted ==
    ASSUME NEW S, NEW s \in Seq(S), NEW i \in RunStarts(s)
    PROVE  /\ RunsFrom(s, i) \in Nat /\ RunsFrom(s, i) >= 1 /\ RunsFrom(s, i) <= Cardinality(RunStarts(s))
           /\ RunsFrom(s, i) = 1 <=> \A j \in RunStarts(s) : j <= i
<1> DEFINE from == {j \in RunStarts(s) : i <= j}
<1>1. /\ RunStarts(s) \in SUBSET Nat /\ IsFiniteSet(RunStarts(s)) /\ IsFiniteSet(from)
      /\ RunsFrom(s, i) \in Nat /\ RunsFrom(s, i) = Cardinality(from)
  BY RunsAreFew DEF RunsFrom
<1>2. i \in from /\ from \subseteq RunStarts(s) /\ i \in Nat
  BY <1>1
<1>3. Cardinality({i}) = 1 /\ IsFiniteSet({i})
  BY FS_Singleton
<1>4. Cardinality({i}) <= Cardinality(from)
  <2>1. {i} \subseteq from
    BY <1>2
  <2> HIDE DEF from
  <2> QED BY <1>1, <2>1, FS_Subset
<1>5. Cardinality(from) <= Cardinality(RunStarts(s))
  <2> HIDE DEF from
  <2> QED BY <1>1, <1>2, FS_Subset
<1>6. ASSUME \A j \in RunStarts(s) : j <= i PROVE RunsFrom(s, i) = 1
  <2>1. from = {i}
    BY <1>1, <1>2, <1>6
  <2> HIDE DEF from
  <2> QED BY <1>1, <1>3, <2>1
<1>7. ASSUME NEW j \in RunStarts(s), ~(j <= i) PROVE RunsFrom(s, i) # 1
  <2> DEFINE pair == {i} \cup {j}
  <2>1. pair \subseteq from /\ j \notin {i}
    BY <1>1, <1>2, <1>7
  <2> HIDE DEF from
  <2>2. Cardinality(pair) = Cardinality({i}) + 1
    BY <1>3, <2>1, FS_AddElement
  <2> HIDE DEF pair
  <2>3. Cardinality(pair) <= Cardinality(from)
    BY <1>1, <2>1, FS_Subset
  <2>4. 2 <= Cardinality(from)
    BY <1>3, <2>2, <2>3
  <2> QED BY <1>1, <2>4
<1> HIDE DEF from
<1>8. RunsFrom(s, i) >= 1 /\ RunsFrom(s, i) <= Cardinality(RunStarts(s))
  BY <1>1, <1>3, <1>4, <1>5
<1> QED BY <1>1, <1>6, <1>7, <1>8

\* A run that begins adds one to those from each earlier one.
LEMMA RunsAdded ==
    ASSUME NEW S, NEW s \in Seq(S), NEW t \in Seq(S), RunStarts(t) = RunStarts(s) \cup {Len(s) + 1}
    PROVE  /\ Cardinality(RunStarts(t)) = Cardinality(RunStarts(s)) + 1
           /\ RunsFrom(t, Len(s) + 1) = 1
           /\ \A i \in RunStarts(s) : RunsFrom(t, i) = RunsFrom(s, i) + 1
<1> DEFINE n == Len(s) + 1
<1>0. Len(s) \in Nat /\ n \in Nat
  OBVIOUS
<1>1. /\ RunStarts(s) \subseteq 1 .. Len(s) /\ Len(s) \in Nat /\ n \in Nat /\ IsFiniteSet(RunStarts(s))
      /\ \A i : IsFiniteSet({j \in RunStarts(s) : i <= j})
  <2> HIDE DEF n
  <2> QED BY <1>0, RunsAreFew
<1>2. \A j \in RunStarts(s) : j \in Nat /\ j < n /\ j <= n /\ j # n
  BY <1>1
<1>3. Cardinality(RunStarts(t)) = Cardinality(RunStarts(s)) + 1
  BY <1>1, <1>2, FS_AddElement
<1>4. RunsFrom(t, n) = 1
  <2>1. n \in RunStarts(t) /\ \A j \in RunStarts(t) : j <= n
    BY <1>1, <1>2
  <2> QED BY <2>1, RunsCounted
<1>5. ASSUME NEW i \in RunStarts(s) PROVE RunsFrom(t, i) = RunsFrom(s, i) + 1
  <2> DEFINE from == {j \in RunStarts(s) : i <= j}
             more == {j \in RunStarts(t) : i <= j}
  <2>1. more = from \cup {n} /\ n \notin from
    BY <1>1, <1>2
  <2>2. IsFiniteSet(from) /\ RunsFrom(s, i) = Cardinality(from) /\ RunsFrom(t, i) = Cardinality(more)
    BY <1>1 DEF RunsFrom
  <2> HIDE DEF from, more
  <2> QED BY <2>1, <2>2, FS_AddElement
<1> QED BY <1>3, <1>4, <1>5

LEMMA LogKeeps ==
    ASSUME NEW s, NEW entries, NEW m \in Texts, LogInv(s, entries)
    PROVE  LogInv(Append(s, m), Logged(entries, m))
<1> DEFINE n == Len(s)
           x == Len(entries)
           t == Append(s, m)
<1>0. /\ s \in Seq(Texts) /\ entries \in Seq(LogLines) /\ n \in Nat /\ x \in Nat
      /\ t \in Seq(Texts) /\ t # <<>> /\ Len(t) = n + 1 /\ t[n + 1] = m
      /\ entries = <<>> <=> s = <<>>
      /\ s # <<>> => Last(entries).message = s[n]
  <2>1. /\ s \in Seq(Texts) /\ entries \in Seq(LogLines)
        /\ entries = <<>> <=> s = <<>>
        /\ s # <<>> => Last(entries).message = s[n]
    BY DEF LogInv
  <2>3. n \in Nat /\ x \in Nat
    BY <2>1
  <2>2. t \in Seq(Texts) /\ t # <<>> /\ Len(t) = n + 1 /\ t[n + 1] = m
    <3>1. t \in Seq(Texts) /\ Len(t) = n + 1 /\ t[n + 1] = m
      BY <2>1
    <3>2. n + 1 # 0 /\ Len(<<>>) = 0
      BY <2>3
    <3> HIDE DEF t, n
    <3> QED BY <3>1, <3>2
  <2> HIDE DEF t, n, x
  <2> QED BY <2>1, <2>2, <2>3 DEF n
<1>1. /\ x = (IF Cardinality(RunStarts(s)) < MAX_LOGS THEN Cardinality(RunStarts(s)) ELSE MAX_LOGS)
      /\ \A i \in RunStarts(s) : RunsFrom(s, i) <= x => entries[x + 1 - RunsFrom(s, i)] = RunOf(s, i)
  BY DEF LogInv, LogOf
<1>2. MAX_LOGS \in Nat \ {0} /\ Cardinality(RunStarts(s)) \in Nat
  BY <1>0, ConsoleAssumption, RunsAreFew
<1>3. x <= MAX_LOGS
  BY <1>1, <1>2
<1>4. \A e \in LogLines : e.message \in Texts /\ e.count \in Nat
  BY DEF LogLines
<1>5. CASE entries # <<>> /\ Last(entries).message = m
  <2> DEFINE last == [Last(entries) EXCEPT !.count = Last(entries).count + 1]
             next == [entries EXCEPT ![x] = last]
  <2>0. x \in 1 .. x /\ x # 0
    BY <1>0, <1>5
  <2>1. entries[x] \in LogLines /\ Last(entries) = entries[x]
    BY <1>0, <2>0, ElementOfSeq DEF Last
  <2>2. last \in LogLines /\ last.message = m /\ last = [message |-> m, count |-> entries[x].count + 1]
    BY <1>5, <2>1 DEF LogLines
  <2>3. Logged(entries, m) = IF Len(next) > MAX_LOGS THEN SubSeq(next, Len(next) - MAX_LOGS + 1, Len(next)) ELSE next
    <3>1. [entries EXCEPT ![Len(entries)].count = @ + 1] = next
      BY <1>0, <2>0, <2>1
    <3> QED BY <1>5, <3>1 DEF Logged
  <2> HIDE DEF last
  <2>4. /\ next \in Seq(LogLines) /\ Len(next) = x /\ next[x] = last
        /\ \A k \in 1 .. x : k # x => next[k] = entries[k]
    BY <1>0, <2>0, <2>2
  <2> HIDE DEF next
  <2>5. Logged(entries, m) = next
    BY <1>0, <1>2, <1>3, <2>3, <2>4
  <2>6. s # <<>> /\ s[n] = m
    BY <1>0, <1>5
  <2>7. RunStarts(t) = RunStarts(s)
    BY <1>0, <2>6, StartsGrow
  <2>8. \A i : RunsFrom(t, i) = RunsFrom(s, i)
    BY <2>7 DEF RunsFrom
  <2>9. ASSUME NEW i \in RunStarts(s), RunsFrom(s, i) <= x
        PROVE  next[x + 1 - RunsFrom(s, i)] = RunOf(t, i)
    <3>1. RunsFrom(s, i) \in Nat /\ RunsFrom(s, i) >= 1
      BY <1>0, RunsCounted
    <3>2. entries[x + 1 - RunsFrom(s, i)] = RunOf(s, i)
      BY <1>1, <2>9
    <3>3. CASE RunsFrom(s, i) = 1
      <4>1. \A j \in RunStarts(s) : j <= i
        BY <1>0, <3>3, RunsCounted
      <4>2. RunOf(t, i) = [message |-> m, count |-> RunOf(s, i).count + 1]
        BY <1>0, <2>6, <4>1, RunGrows
      <4>3. x + 1 - 1 = x
        BY <1>0
      <4> QED BY <2>2, <2>4, <3>2, <3>3, <4>2, <4>3
    <3>4. CASE RunsFrom(s, i) # 1
      <4>1. \E j \in RunStarts(s) : ~(j <= i)
        BY <1>0, <3>4, RunsCounted
      <4>2. \A j \in RunStarts(s) : j \in Nat
        BY <1>0, RunsAreFew
      <4>3. \E j \in RunStarts(s) : j > i
        BY <4>1, <4>2
      <4>4. RunOf(t, i) = RunOf(s, i)
        BY <1>0, <4>3, RunGrows
      <4>5. x + 1 - RunsFrom(s, i) \in 1 .. x /\ x + 1 - RunsFrom(s, i) # x
        BY <1>0, <2>9, <3>1, <3>4
      <4> QED BY <2>4, <3>2, <4>4, <4>5
    <3> QED BY <3>3, <3>4
  <2>10. LogOf(t, next)
    BY <1>1, <2>4, <2>7, <2>8, <2>9 DEF LogOf
  <2>11. next # <<>> /\ Last(next).message = t[Len(t)]
    BY <1>0, <2>0, <2>2, <2>4 DEF Last
  <2> HIDE DEF t
  <2> QED BY <1>0, <2>4, <2>5, <2>10, <2>11 DEF LogInv, t
<1>6. CASE ~(entries # <<>> /\ Last(entries).message = m)
  <2> DEFINE line == [message |-> m, count |-> 1]
             next == Append(entries, line)
             log == IF x = MAX_LOGS THEN SubSeq(next, 2, x + 1) ELSE next
             shown == IF x = MAX_LOGS THEN x ELSE x + 1
  <2>1. line \in LogLines /\ line.message = m
    BY DEF LogLines
  <2> HIDE DEF line
  <2>2. /\ next \in Seq(LogLines) /\ Len(next) = x + 1 /\ next[x + 1] = line
        /\ \A k \in 1 .. x : next[k] = entries[k]
    BY <1>0, <2>1
  <2>3. Logged(entries, m) = IF Len(next) > MAX_LOGS THEN SubSeq(next, Len(next) - MAX_LOGS + 1, Len(next)) ELSE next
    BY <1>6 DEF Logged, line
  <2> HIDE DEF next
  <2>4. Logged(entries, m) = log
    <3>1. CASE x = MAX_LOGS
      <4>1. Len(next) > MAX_LOGS /\ Len(next) - MAX_LOGS + 1 = 2
        BY <1>2, <2>2, <3>1
      <4>2. Logged(entries, m) = SubSeq(next, 2, x + 1)
        BY <2>2, <2>3, <4>1
      <4> QED BY <3>1, <4>2
    <3>2. CASE x # MAX_LOGS
      <4>1. ~(x + 1 > MAX_LOGS)
        BY <1>0, <1>2, <1>3, <3>2
      <4> QED BY <2>2, <2>3, <3>2, <4>1
    <3> QED BY <3>1, <3>2
  <2>5. shown \in Nat \ {0}
    BY <1>0, <1>2
  <2>6. /\ log \in Seq(LogLines) /\ Len(log) = shown /\ log[shown] = line
        /\ \A k \in 1 .. shown - 1 : log[k] = entries[x + k + 1 - shown]
    <3>1. CASE x = MAX_LOGS
      <4>1. x \in Nat \ {0} /\ 1 <= 2 /\ 2 <= x + 1 /\ \A k \in 2 .. x + 1 : k \in 1 .. Len(next)
        BY <1>2, <2>2, <3>1
      <4>2. /\ SubSeq(next, 2, x + 1) \in Seq(LogLines) /\ Len(SubSeq(next, 2, x + 1)) = x
            /\ \A k \in 1 .. x : SubSeq(next, 2, x + 1)[k] = next[k + 1]
        BY <2>2, <4>1
      <4>3. /\ \A k \in 1 .. x - 1 : k \in 1 .. x /\ k + 1 \in 1 .. x /\ x + k + 1 - x = k + 1
            /\ x \in 1 .. x
        BY <4>1
      <4> QED BY <2>2, <3>1, <4>2, <4>3
    <3>2. CASE x # MAX_LOGS
      <4>1. \A k \in 1 .. (x + 1) - 1 : k \in 1 .. x /\ x + k + 1 - (x + 1) = k
        BY <1>0
      <4> QED BY <2>2, <3>2, <4>1
    <3> QED BY <3>1, <3>2
  <2> HIDE DEF log
  <2>7. RunStarts(t) = RunStarts(s) \cup {n + 1}
    <3>1. ~(s # <<>> /\ s[n] = m)
      BY <1>0, <1>6
    <3> QED BY <1>0, <3>1, StartsGrow
  <2>8. /\ Cardinality(RunStarts(t)) = Cardinality(RunStarts(s)) + 1
        /\ RunsFrom(t, n + 1) = 1
        /\ \A i \in RunStarts(s) : RunsFrom(t, i) = RunsFrom(s, i) + 1
    BY <1>0, <2>7, RunsAdded
  <2>9. shown = (IF Cardinality(RunStarts(t)) < MAX_LOGS THEN Cardinality(RunStarts(t)) ELSE MAX_LOGS)
    <3> DEFINE c == Cardinality(RunStarts(s))
    <3>1. c \in Nat /\ x = (IF c < MAX_LOGS THEN c ELSE MAX_LOGS) /\ Cardinality(RunStarts(t)) = c + 1
      BY <1>1, <1>2, <2>8
    <3> HIDE DEF c, x
    <3> QED BY <1>2, <3>1
  <2>10. ASSUME NEW i \in RunStarts(s), RunsFrom(t, i) <= shown
         PROVE  log[shown + 1 - RunsFrom(t, i)] = RunOf(t, i)
    <3> DEFINE r == RunsFrom(s, i)
    <3>1. r \in Nat /\ r >= 1 /\ RunsFrom(t, i) = r + 1
      BY <1>0, <2>8, RunsCounted
    <3>2. RunOf(t, i) = RunOf(s, i)
      <4>1. i \in RunStarts(s) /\ RunStarts(s) \subseteq 1 .. n
        BY <1>0, RunsAreFew
      <4>2. s # <<>>
        BY <1>0, <4>1
      <4>3. s[n] # m
        BY <1>0, <1>6, <4>2
      <4> QED BY <1>0, <4>3, RunGrows
    <3>3. r <= x => entries[x + 1 - r] = RunOf(s, i)
      BY <1>1
    <3> HIDE DEF r
    <3>4. r + 1 <= shown
      BY <2>10, <3>1
    <3> HIDE DEF x
    <3>5. /\ shown + 1 - (r + 1) \in 1 .. shown - 1 /\ r <= x
          /\ x + (shown + 1 - (r + 1)) + 1 - shown = x + 1 - r
      <4>1. shown - 1 <= x
        BY <1>0
      <4> HIDE DEF shown
      <4> QED BY <1>0, <2>5, <3>1, <3>4, <4>1
    <3> HIDE DEF shown
    <3> QED BY <2>6, <3>1, <3>2, <3>3, <3>5
  <2>11. log[shown + 1 - 1] = RunOf(t, n + 1)
    <3>1. shown + 1 - 1 = shown
      BY <2>5
    <3>2. RunOf(t, n + 1) = line
      BY <1>0, NewRun DEF line
    <3> QED BY <2>6, <3>1, <3>2
  <2> HIDE DEF shown
  <2>12. LogOf(t, log)
    BY <2>6, <2>7, <2>8, <2>9, <2>10, <2>11 DEF LogOf
  <2>13. log # <<>> /\ Last(log).message = t[Len(t)]
    BY <1>0, <2>1, <2>5, <2>6 DEF Last
  <2> HIDE DEF t
  <2> QED BY <1>0, <2>4, <2>6, <2>12, <2>13 DEF LogInv, t
<1> QED BY <1>5, <1>6

LEMMA Logs ==
    ASSUME ConsoleInv, NEW m \in Texts, Told(m), TracesInv'
    PROVE  ConsoleInv'
<1>0. console \in Consoles /\ LogInv(accepted, console.entries)
  BY DEF ConsoleInv
<1>1. CASE console.enabled /\ console.listening
  <2> DEFINE entries == Logged(console.entries, m)
  <2>1. accepted' = Append(accepted, m) /\ console' = [console EXCEPT !.entries = entries]
    BY <1>1 DEF Told
  <2>2. LogInv(Append(accepted, m), entries)
    BY <1>0, LogKeeps
  <2>3. entries \in Seq(LogLines)
    BY <2>2 DEF LogInv
  <2> HIDE DEF entries
  <2>4. console' \in Consoles /\ console'.entries = entries
    BY <1>0, <2>1, <2>3 DEF Consoles
  <2> QED BY <2>1, <2>2, <2>4 DEF ConsoleInv
<1>2. CASE ~(console.enabled /\ console.listening)
  BY <1>0, <1>2 DEF Told, ConsoleInv
<1> QED BY <1>1, <1>2

LEMMA ConsoleStarts == ConsoleInit => ConsoleInv
<1> SUFFICES ASSUME ConsoleInit PROVE ConsoleInv
  OBVIOUS
<1>1. console \in Consoles /\ console.entries = <<>> /\ accepted = <<>>
  BY DEF ConsoleInit, Consoles
<1>2. LogInv(<<>>, <<>>)
  <2>1. RunStarts(<<>>) = {} /\ Cardinality({}) = 0
    BY FS_EmptySet DEF RunStarts
  <2>2. Len(<<>>) = 0 /\ 0 < MAX_LOGS
    BY ConsoleAssumption
  <2>3. LogOf(<<>>, <<>>)
    BY <2>1, <2>2 DEF LogOf
  <2>4. <<>> \in Seq(Texts) /\ <<>> \in Seq(LogLines)
    OBVIOUS
  <2> QED BY <2>3, <2>4 DEF LogInv
<1>3. TracesInv
  BY DEF ConsoleInit, TracesInv, TitleTraces
<1> QED BY <1>1, <1>2, <1>3 DEF ConsoleInv

LEMMA ConsoleKeeps == ConsoleInv /\ [ConsoleNext]_consoleVars => ConsoleInv'
<1> SUFFICES ASSUME ConsoleInv, [ConsoleNext]_consoleVars PROVE ConsoleInv'
  OBVIOUS
<1>0. /\ console \in Consoles /\ LogInv(accepted, console.entries) /\ TracesInv
      /\ titles \in TitleTraces /\ titles.current \in Nat /\ titles.logged \in Nat
      /\ titles.firmware \in SUBSET ConsoleResults /\ titles.pending \in SUBSET ConsoleResults
      /\ titles.published \in [ConsoleResults -> Nat] /\ titles.traced \in [ConsoleResults -> Nat]
      /\ ConsoleResults \subseteq Nat
  BY ConsoleAssumption DEF ConsoleInv, TracesInv, TitleTraces
<1>t. {"enabled", "diagnosis", "trace"} \subseteq Texts /\ Messages \subseteq Texts
  BY DEF Texts
<1>s. UNCHANGED titles => TracesInv'
  BY <1>0 DEF TracesInv
<1>1. CASE UNCHANGED consoleVars
  BY <1>1, <1>s DEF consoleVars, ConsoleInv
<1>2. ASSUME NEW next \in BOOLEAN, SetEnabled(next) PROVE ConsoleInv'
  <2>1. CASE next
    <3> DEFINE entries == Logged(console.entries, "enabled")
    <3>1. /\ accepted' = Append(accepted, "enabled") /\ UNCHANGED titles
          /\ console' = [console EXCEPT !.enabled = TRUE, !.listening = TRUE, !.entries = entries]
      BY <1>2, <2>1 DEF SetEnabled
    <3>2. LogInv(Append(accepted, "enabled"), entries)
      BY <1>0, <1>t, LogKeeps
    <3>3. entries \in Seq(LogLines)
      BY <3>2 DEF LogInv
    <3> HIDE DEF entries
    <3>4. console' \in Consoles /\ console'.entries = entries
      BY <1>0, <3>1, <3>3 DEF Consoles
    <3> QED BY <1>s, <3>1, <3>2, <3>4 DEF ConsoleInv
  <2>2. CASE ~next
    <3>1. /\ UNCHANGED <<accepted, titles>>
          /\ console' = [console EXCEPT !.enabled = FALSE, !.opened = FALSE]
      BY <1>2, <2>2 DEF SetEnabled
    <3>2. console' \in Consoles /\ console'.entries = console.entries
      BY <1>0, <3>1 DEF Consoles
    <3> QED BY <1>0, <1>s, <3>1, <3>2 DEF ConsoleInv
  <2> QED BY <2>1, <2>2
<1>3. ASSUME NEW message \in Messages, RuntimeEvent(message) PROVE ConsoleInv'
  BY <1>3, <1>s, <1>t, Logs DEF RuntimeEvent
<1>4. CASE OpenConsole
  <2>1. console' = [console EXCEPT !.opened = TRUE] /\ UNCHANGED <<accepted, titles>>
    BY <1>4 DEF OpenConsole
  <2>2. console' \in Consoles /\ console'.entries = console.entries
    BY <1>0, <2>1 DEF Consoles
  <2> QED BY <1>0, <1>s, <2>1, <2>2 DEF ConsoleInv
<1>5. CASE CloseConsole
  <2>1. console' = [console EXCEPT !.opened = FALSE] /\ UNCHANGED <<accepted, titles>>
    BY <1>5 DEF CloseConsole
  <2>2. console' \in Consoles /\ console'.entries = console.entries
    BY <1>0, <2>1 DEF Consoles
  <2> QED BY <1>0, <1>s, <2>1, <2>2 DEF ConsoleInv
<1>6. ASSUME NEW firmware \in BOOLEAN, NewResult(firmware) PROVE ConsoleInv'
  <2> DEFINE result == titles.current + 1
             stopped == IF firmware THEN titles.firmware \cup {result} ELSE titles.firmware
  <2>1. /\ result \in ConsoleResults /\ UNCHANGED <<console, accepted>>
        /\ titles' = [titles EXCEPT !.current = result, !.firmware = stopped]
    BY <1>6 DEF NewResult
  <2>2. result \in Nat /\ titles.current <= result /\ stopped \in SUBSET ConsoleResults
        /\ titles.firmware \subseteq stopped /\ stopped \subseteq titles.firmware \cup {result}
    BY <1>0, <2>1
  <2> HIDE DEF result, stopped
  <2>3. /\ titles' \in TitleTraces /\ titles'.current = result /\ titles'.firmware = stopped
        /\ titles'.logged = titles.logged /\ titles'.pending = titles.pending
        /\ titles'.published = titles.published /\ titles'.traced = titles.traced
    BY <1>0, <2>1, <2>2 DEF TitleTraces
  <2>4. titles'.logged <= titles'.current /\ \A r \in titles'.firmware : r <= titles'.current
    <3>1. titles.logged <= titles.current /\ \A r \in titles.firmware : r <= titles.current
      BY <1>0 DEF TracesInv
    <3>2. \A r \in titles.firmware : r \in Nat
      BY <1>0
    <3>3. ASSUME NEW r \in stopped PROVE r <= result
      <4>1. r \in titles.firmware \/ r = result
        BY <2>2
      <4>2. r \in Nat
        BY <1>0, <2>2
      <4> QED BY <1>0, <2>2, <3>1, <4>1, <4>2
    <3>4. titles.logged <= result
      BY <1>0, <2>2, <3>1
    <3> QED BY <2>3, <3>3, <3>4
  <2>5. TracesInv'
    BY <1>0, <2>2, <2>3, <2>4 DEF TracesInv
  <2> QED BY <1>0, <2>1, <2>5 DEF ConsoleInv
<1>7. CASE TraceTick
  <2> DEFINE c == titles.current
             count == IF titles.logged = c THEN titles.published[c] ELSE titles.published[c] + 1
             counts == [titles.published EXCEPT ![c] = count]
             asked == IF titles.traced[c] = 0 THEN titles.pending \cup {c} ELSE titles.pending
  <2>1. c \in titles.firmware /\ titles' = [titles EXCEPT !.logged = c, !.published = counts, !.pending = asked]
    <3>1. c \in titles.firmware
      BY <1>7 DEF TraceTick, Diagnosed
    <3>2. titles' = [titles EXCEPT !.logged = titles.current,
         !.published[titles.current] = IF titles.logged = titles.current THEN @ ELSE @ + 1,
         !.pending = IF titles.traced[titles.current] = 0 THEN @ \cup {titles.current} ELSE @]
      BY <1>7 DEF TraceTick
    <3> QED BY <3>1, <3>2
  <2>2. c \in ConsoleResults /\ c \in Nat
    BY <1>0, <2>1
  <2>3. titles.logged = c \/ titles.published[c] = 0
    BY <1>0, <2>2 DEF TracesInv
  <2>4. count \in Nat /\ count <= 1
    BY <1>0, <2>2, <2>3 DEF TracesInv
  <2> HIDE DEF count
  <2>5. /\ counts \in [ConsoleResults -> Nat] /\ counts[c] = count
        /\ \A r \in ConsoleResults : r # c => counts[r] = titles.published[r]
    BY <1>0, <2>2, <2>4
  <2>6. asked \in SUBSET ConsoleResults /\ titles.pending \subseteq asked
        /\ \A r \in asked : r \in titles.pending \/ (r = c /\ titles.traced[c] = 0)
    BY <1>0, <2>2
  <2> HIDE DEF counts, asked, c
  <2>7. /\ titles' \in TitleTraces /\ titles'.current = titles.current /\ titles'.firmware = titles.firmware
        /\ titles'.logged = c /\ titles'.pending = asked
        /\ titles'.published = counts /\ titles'.traced = titles.traced
    BY <1>0, <2>1, <2>2, <2>5, <2>6 DEF TitleTraces
  <2>8. ASSUME NEW r \in ConsoleResults
        PROVE  /\ counts[r] <= 1 /\ titles.traced[r] <= 1
               /\ counts[r] # 0 => r \in titles.firmware /\ r <= c
               /\ titles.traced[r] # 0 => r \in titles.firmware /\ r \notin asked
    <3>1. /\ titles.published[r] <= 1 /\ titles.traced[r] <= 1
          /\ titles.published[r] # 0 => r \in titles.firmware /\ r <= titles.logged
          /\ titles.traced[r] # 0 => r \in titles.firmware /\ r \notin titles.pending
          /\ titles.logged <= titles.current /\ titles.current = c
      BY <1>0 DEF TracesInv, c
    <3>2. r \in Nat
      BY <1>0
    <3>3. r <= titles.logged => r <= c
      BY <1>0, <2>2, <3>1, <3>2
    <3> QED BY <2>1, <2>2, <2>4, <2>5, <2>6, <3>1, <3>2, <3>3
  <2>9. asked \subseteq titles.firmware
    BY <1>0, <2>1, <2>6 DEF TracesInv
  <2>10. c <= titles.current /\ \A r \in titles.firmware : r <= titles.current
    BY <1>0, <2>2 DEF TracesInv, c
  <2>11. TracesInv'
    BY <2>7, <2>8, <2>9, <2>10 DEF TracesInv
  <2>12. Told("diagnosis") \/ UNCHANGED <<console, accepted>>
    BY <1>7 DEF TraceTick
  <2> QED BY <1>0, <1>t, <2>11, <2>12, Logs DEF ConsoleInv
<1>8. ASSUME NEW result \in titles.pending, NEW available \in BOOLEAN, TraceArrives(result, available)
      PROVE  ConsoleInv'
  <2> DEFINE traced == [titles.traced EXCEPT ![result] = titles.traced[result] + 1]
             asked == titles.pending \ {result}
  <2>1. titles' = [titles EXCEPT !.traced = traced, !.pending = asked]
    BY <1>8 DEF TraceArrives
  <2>2. result \in ConsoleResults /\ titles.traced[result] = 0 /\ result \in titles.firmware
    BY <1>0 DEF TracesInv
  <2>3. /\ traced \in [ConsoleResults -> Nat] /\ traced[result] = 1
        /\ \A r \in ConsoleResults : r # result => traced[r] = titles.traced[r]
    BY <1>0, <2>2
  <2>4. asked \in SUBSET ConsoleResults /\ asked \subseteq titles.pending /\ result \notin asked
    BY <1>0
  <2> HIDE DEF traced, asked
  <2>5. /\ titles' \in TitleTraces /\ titles'.current = titles.current /\ titles'.firmware = titles.firmware
        /\ titles'.logged = titles.logged /\ titles'.pending = asked
        /\ titles'.published = titles.published /\ titles'.traced = traced
    BY <1>0, <2>1, <2>3, <2>4 DEF TitleTraces
  <2>8. ASSUME NEW r \in ConsoleResults
        PROVE  /\ titles.published[r] <= 1 /\ traced[r] <= 1
               /\ titles.published[r] # 0 => r \in titles.firmware /\ r <= titles.logged
               /\ traced[r] # 0 => r \in titles.firmware /\ r \notin asked
    <3>1. /\ titles.published[r] <= 1 /\ titles.traced[r] <= 1
          /\ titles.published[r] # 0 => r \in titles.firmware /\ r <= titles.logged
          /\ titles.traced[r] # 0 => r \in titles.firmware /\ r \notin titles.pending
      BY <1>0 DEF TracesInv
    <3>2. CASE r = result
      BY <2>2, <2>3, <2>4, <3>1, <3>2
    <3>3. CASE r # result
      BY <2>3, <2>4, <3>1, <3>3
    <3> QED BY <3>2, <3>3
  <2>6. TracesInv'
    <3>1. asked \subseteq titles.firmware
      BY <1>0, <2>4 DEF TracesInv
    <3>2. titles.logged <= titles.current /\ \A r \in titles.firmware : r <= titles.current
      BY <1>0 DEF TracesInv
    <3> QED BY <2>5, <2>8, <3>1, <3>2 DEF TracesInv
  <2>7. Told("trace") \/ UNCHANGED <<console, accepted>>
    BY <1>8 DEF TraceArrives
  <2> QED BY <1>0, <1>t, <2>6, <2>7, Logs DEF ConsoleInv
<1> QED BY <1>1, <1>2, <1>3, <1>4, <1>5, <1>6, <1>7, <1>8 DEF ConsoleNext

(* The log holds what was said last, each run of equal messages once with   *)
(* its count, and every stop is diagnosed and traced once, however polls,   *)
(* launches and answers of the core interleave (developer-console.js,       *)
(* v74-kernel-trace.mjs).                                                   *)
THEOREM ConsoleIsTrueHolds == ConsoleSpec => []ConsoleIsTrue
<1>1. ConsoleInv => ConsoleIsTrue
  <2>1. ConsoleInv => LogHoldsTheLastRuns
    BY DEF ConsoleInv, LogInv, LogOf, LogHoldsTheLastRuns
  <2>2. ConsoleInv => DiagnosedOnce
    BY DEF ConsoleInv, TracesInv, TitleTraces, DiagnosedOnce
  <2> QED BY <2>1, <2>2 DEF ConsoleIsTrue
<1> QED BY <1>1, ConsoleStarts, ConsoleKeeps, PTL DEF ConsoleSpec
=============================================================================
