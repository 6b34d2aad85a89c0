---------------------------- MODULE RingTraffic ----------------------------
(***************************************************************************)
(* A title's commands to the GPU: the ring it fills, the command processor *)
(* that runs them when the title moves the write pointer                   *)
(* (title_gpu_runtime.cpp), and the page, which looks at the same ring to  *)
(* report what the title does and, for a core too old to run the ring,     *)
(* runs it itself (render360-title-gpu-traffic.mjs).                       *)
(*                                                                         *)
(* A word stands for a packet.  It runs, waits until the title or an       *)
(* interrupt has written what it polls, or is not understood.              *)
(***************************************************************************)
EXTENDS Integers, Sequences

CONSTANTS
    RingCapacity,    \* words of the title's ring
    DecoderCapacity, \* kRingCapacity: words of one submission
    MaxQueued        \* bound on the words the title queues

ASSUME RingAssumption ==
    RingCapacity \in Nat \ {0} /\ DecoderCapacity \in Nat /\ MaxQueued \in Nat

VARIABLES
    ring,    \* the ring and what title_gpu_runtime knows of it
    decoder, \* the Xenos command processor
    told,    \* what the page was told last
    queued   \* history: the words in the order the title queued them

ringVars == <<ring, decoder, told, queued>>

Kinds == {"run", "wait", "bad"}
NoWord == [id |-> 0, kind |-> "run"]
NotTold == [reason |-> "none", submitted |-> FALSE]

(* r360_xenos_reset; `ran' is history.                                      *)
Restarted(d) == [d EXCEPT !.status = "idle", !.packets = 0]

RingInit ==
    /\ ring \in [native : BOOLEAN, words : {[i \in 0 .. RingCapacity - 1 |-> NoWord]}, base : {FALSE},
                 tail : {0}, read : {0}, write : {0}, stalled : {FALSE}, ready : {FALSE},
                 consumed : {0}, refused : {FALSE}]
    /\ decoder = [status |-> "idle", packets |-> 0, ran |-> <<>>]
    /\ told = NotTold
    /\ queued = <<>>

-----------------------------------------------------------------------------
(* The command processor                                                   *)

Passes(word) == word.kind = "run" \/ (word.kind = "wait" /\ ring.ready)

(* ExecuteBuffer: the words up to the first one that does not pass.         *)
PassingPrefix(words) ==
    LET stops == {i \in 1 .. Len(words) : ~Passes(words[i])}
    IN  IF stops = {} THEN words ELSE SubSeq(words, 1, (CHOOSE i \in stops : \A j \in stops : i <= j) - 1)

(* r360_xenos_submit *)
AfterSubmit(d, words) ==
    LET run == PassingPrefix(words)
    IN  [status |-> IF run = words THEN "success"
                    ELSE IF words[Len(run) + 1].kind = "wait" THEN "waiting" ELSE "invalid",
         packets |-> d.packets + Len(run) + (IF run = words THEN 0 ELSE 1),
         ran |-> d.ran \o [i \in 1 .. Len(run) |-> run[i].id]]

Unread(r) == (r.write - r.read + RingCapacity) % RingCapacity

(* What a drain leaves: all consumed, consumed up to a packet that waits, or *)
(* refused, with the read pointer where it was.                              *)
AfterDrain(r, d, count) ==
    IF d.status = "success" THEN [r EXCEPT !.read = r.write, !.stalled = FALSE, !.consumed = @ + count]
    ELSE IF d.status = "waiting"
    THEN [r EXCEPT !.read = (@ + count) % RingCapacity, !.stalled = TRUE, !.consumed = @ + count]
    ELSE [r EXCEPT !.refused = TRUE]

PendingWords(r) == [i \in 1 .. Unread(r) |-> r.words[(r.read + i - 1) % RingCapacity]]

(* DrainPendingRingToXenos.  More words than the decoder takes are refused   *)
(* before it sees them.                                                      *)
Drained(r) ==
    IF Unread(r) = 0 THEN ring' = r /\ UNCHANGED decoder
    ELSE IF Unread(r) > DecoderCapacity
    THEN ring' = [r EXCEPT !.refused = TRUE] /\ UNCHANGED decoder
    ELSE LET d == AfterSubmit(decoder, PendingWords(r))
         IN  decoder' = d /\ ring' = AfterDrain(r, d, Len(d.ran) - Len(decoder.ran))

-----------------------------------------------------------------------------
(* The title                                                               *)

(* VdInitializeRingBuffer: CaptureRing.                                     *)
InitializeRing ==
    /\ ~ring.base
    /\ ring' = [ring EXCEPT !.base = TRUE, !.read = 0, !.write = 0, !.stalled = FALSE]
    /\ decoder' = Restarted(decoder)
    /\ UNCHANGED <<told, queued>>

(* The title leaves a word free, by the read pointer it polls.              *)
Queue(kind) ==
    /\ ring.base /\ Len(queued) < MaxQueued
    /\ (ring.tail + 1) % RingCapacity # ring.read
    /\ LET word == [id |-> Len(queued) + 1, kind |-> kind]
       IN  /\ ring' = [ring EXCEPT !.words[ring.tail] = word, !.tail = (@ + 1) % RingCapacity]
           /\ queued' = Append(queued, word)
    /\ UNCHANGED <<decoder, told>>

(* CP_RB_WPTR: WriteTitleGpuMmio.  Of a title whose words were refused, and *)
(* which run again with every later write, nothing more is followed.        *)
WritePointer ==
    /\ ring.base /\ ring.write # ring.tail /\ ~ring.refused
    /\ LET moved == [ring EXCEPT !.write = ring.tail]
       IN  IF ring.native THEN Drained(moved) ELSE ring' = moved /\ UNCHANGED decoder
    /\ UNCHANGED <<told, queued>>

(* What a waiting packet polls is written, or taken back.                   *)
PollChanges ==
    /\ ring.base
    /\ ring' = [ring EXCEPT !.ready = ~@]
    /\ UNCHANGED <<decoder, told, queued>>

(* TitleGpuPump *)
Pump ==
    /\ ring.native /\ ring.stalled /\ ring.ready /\ ~ring.refused
    /\ Drained(ring)
    /\ UNCHANGED <<told, queued>>

-----------------------------------------------------------------------------
(* The page                                                                *)

FaultyNativeDrained(d) == d.status = "success"
(* The core has run something of the ring.                                  *)
NativeDrained(d) == d.status # "idle" \/ d.packets > 0

(* currentXenosResult *)
CurrentResult(d) ==
    [reason |-> IF d.status = "success" THEN "native-mmio-ring-drained" ELSE "native-mmio-xenos-rejected",
     submitted |-> d.status = "success"]

(* readCapturedTitleGpuWords: the words from the ring's start.              *)
WhyNotCaptured ==
    IF ~ring.base THEN "ring-not-initialized"
    ELSE IF ring.write = 0 THEN "producer-write-pointer-not-observed"
    ELSE IF ring.write > DecoderCapacity THEN "captured-ring-exceeds-decoder-capacity"
    ELSE "none"
CapturedWords == [i \in 1 .. ring.write |-> ring.words[i - 1]]

(* submitCapturedTitleGpuTraffic, and submitWords, which starts afresh.     *)
InspectTraffic ==
    /\ IF NativeDrained(decoder)
       THEN told' = CurrentResult(decoder) /\ UNCHANGED decoder
       ELSE IF WhyNotCaptured # "none"
       THEN told' = [reason |-> WhyNotCaptured, submitted |-> FALSE] /\ UNCHANGED decoder
       ELSE /\ decoder' = AfterSubmit(Restarted(decoder), CapturedWords)
            /\ told' = [reason |-> "captured-title-ring-ready", submitted |-> decoder'.status = "success"]
    /\ UNCHANGED <<ring, queued>>

RingNext ==
    \/ InitializeRing
    \/ \E kind \in Kinds : Queue(kind)
    \/ WritePointer \/ PollChanges \/ Pump \/ InspectTraffic

RingSpec == RingInit /\ [][RingNext]_ringVars

-----------------------------------------------------------------------------
(* Every word runs once and in the order the title queued them, through     *)
(* waits, wraps of the ring and whatever the page looks at, until the core  *)
(* refuses a word; the page runs, for a core that does not, the first ones. *)
WordsRunOnce ==
    ~ring.refused =>
        /\ decoder.ran = [i \in 1 .. Len(decoder.ran) |-> i]
        /\ ring.native => Len(decoder.ran) = ring.consumed

(* The page is told that the ring was drained only if all the title handed  *)
(* over has run, again until a word is refused.                             *)
DrainedIsDrained ==
    ring.native /\ ~ring.refused /\ CurrentResult(decoder).submitted => ring.read = ring.write

\* The ring runs once, in order, and is not reported empty before.
RingRunsOnce == WordsRunOnce /\ DrainedIsDrained
=============================================================================
