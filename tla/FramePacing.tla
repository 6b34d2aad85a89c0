---------------------------- MODULE FramePacing ----------------------------
(***************************************************************************)
(* The adaptive resolution (render360-performance-policy.mjs) and the      *)
(* frame statistics (render360-perf-overlay.mjs) of a running title.  The  *)
(* clock ticks in thirds of the policy's cooldown; a frame rate is 0 below *)
(* 90 % of the target, 2 from 98.5 % on, 1 between them, and the moving    *)
(* average lies anywhere between its old value and the new rate.           *)
(***************************************************************************)
EXTENDS Integers, Sequences

CONSTANTS
    Steps,           \* number of resolution steps, 1 is the highest
    Cooldown,        \* cooldownMs, in ticks
    RecoverySamples, \* recoverySamples (18)
    MaxTime,         \* bound on the clock
    Window,          \* windowMs of the statistics, in ticks
    MaxFramesSeen    \* bound on the core's swap counter

ASSUME PacingAssumption ==
    /\ Steps \in Nat \ {0} 
    /\ Cooldown \in Nat \ {0} /\ RecoverySamples \in Nat \ {0}
    /\ MaxTime \in Nat /\ Window \in Nat /\ MaxFramesSeen \in Nat

VARIABLES
    policy,   \* createAdaptivePerformancePolicy
    stats,    \* PerfStats
    clock,    \* now, in ticks
    changes   \* history: how the last change of the policy came about

pacingVars == <<policy, stats, clock, changes>>

Memory == {"low", "high", "critical"}

PacingInit ==
    /\ policy = [step |-> 1, ema |-> 0, samples |-> 0, recovery |-> 0, lastChange |-> -Cooldown]
    /\ stats = [last |-> -1, total |-> 0, frames |-> <<>>, real |-> 0, counter |-> 0, base |-> 0]
    /\ clock = 0
    /\ changes = [good |-> 0, kind |-> "none", gap |-> Cooldown, after |-> RecoverySamples]

-----------------------------------------------------------------------------
(* The policy.                                                             *)

Rates == 0 .. 2

\* The exponential average after one more sample.
Averaged(p, rate) ==
    IF p.samples = 0 THEN {rate}
    ELSE {r \in Rates : (p.ema <= r /\ r <= rate) \/ (rate <= r /\ r <= p.ema)}

\* lowFps and recovered: this sample and the average, after three samples.
Slow(p, rate) == p.samples >= 3 /\ rate = 0 /\ p.ema = 0
Fast(p, rate) == p.samples >= 3 /\ rate = 2 /\ p.ema = 2

Lower(p, count) == IF p.step + count > Steps THEN Steps ELSE p.step + count
Raise(p) == IF p.step = 1 THEN 1 ELSE p.step - 1

FaultyMayChange(p) == p.samples > 0 /\ (clock - p.lastChange >= Cooldown \/ p.recovery > 0)
MayChange(p) == clock - p.lastChange >= Cooldown

\* Neither under pressure nor recovered: the recovery starts again.
Steady(p) == [p EXCEPT !.recovery = 0]

Changed(p, step) ==
    [p EXCEPT !.step = step, !.recovery = 0, !.lastChange = IF step # p.step THEN clock ELSE @]

\* observe: one sample.
Observed(p, rate, memory) ==
    LET recovered == Fast(p, rate) /\ memory = "low"
        counted == [p EXCEPT !.recovery = IF @ < RecoverySamples THEN @ + 1 ELSE RecoverySamples]
    IN  IF memory = "critical" /\ MayChange(p) THEN Changed(p, Lower(p, 2))
        ELSE IF (memory # "low" \/ Slow(p, rate)) /\ MayChange(p) THEN Changed(p, Lower(p, 1))
        ELSE IF ~recovered THEN Steady(p)
        ELSE IF counted.recovery >= RecoverySamples /\ MayChange(p) THEN Changed(counted, Raise(p))
        ELSE counted

Observe(rate, ema, memory) ==
    LET sampled == [policy EXCEPT !.ema = ema, !.samples = IF @ < 3 THEN @ + 1 ELSE 3]
        p == Observed(sampled, rate, memory)
        good == IF Fast(sampled, rate) /\ memory = "low" THEN changes.good + 1 ELSE 0
        capped == IF good < RecoverySamples THEN good ELSE RecoverySamples
    IN  /\ policy' = p
        /\ changes' = IF p.step = policy.step THEN [changes EXCEPT !.good = capped]
                      ELSE [good |-> 0,
                            kind |-> IF p.step < policy.step THEN "up" ELSE "down",
                            gap |-> IF clock - policy.lastChange > Cooldown THEN Cooldown
                                    ELSE clock - policy.lastChange,
                            after |-> capped]
        /\ UNCHANGED <<stats, clock>>

\* setScale: the player's choice counts as no change.
SetScale(step) ==
    /\ policy' = [policy EXCEPT !.step = step, !.recovery = 0]
    /\ changes' = [changes EXCEPT !.good = 0]
    /\ UNCHANGED <<stats, clock>>

-----------------------------------------------------------------------------
(* The statistics: guest frames counted from a counter of the core.        *)

\* trim: shifts what is older than the window, up to the first that is not.
Trimmed(frames, t) ==
    LET young == {i \in DOMAIN frames : frames[i] >= t - Window}
        first == CHOOSE i \in young : \A j \in young : i <= j
    IN  IF young = {} THEN <<>> ELSE SubSeq(frames, first, Len(frames))

\* Swaps since the last slice: none at the first, nor when the core starts anew.
Counted(s) == IF s.last >= 0 /\ s.counter > s.last THEN s.counter - s.last ELSE 0

\* The guest hands frames to the GPU.
GuestSwap ==
    /\ stats.real < MaxFramesSeen /\ stats.counter < MaxFramesSeen
    /\ stats' = [stats EXCEPT !.counter = @ + 1, !.real = @ + (IF stats.last >= 0 THEN 1 ELSE 0)]
    /\ UNCHANGED <<policy, clock, changes>>

\* The core's counter starts again (r360_title_gpu_reset).
CoreReset ==
    /\ stats.counter > 0
    /\ stats' = [stats EXCEPT !.counter = 0]
    /\ UNCHANGED <<policy, clock, changes>>

\* submitted(t, cumulative), and trim.
Submitted ==
    /\ stats' = [stats EXCEPT !.last = stats.counter, !.total = @ + Counted(stats),
                 !.frames = Trimmed(stats.frames \o [i \in 1 .. Counted(stats) |-> clock], clock)]
    /\ UNCHANGED <<policy, clock, changes>>

PacingTick ==
    /\ clock < MaxTime /\ clock' = clock + 1
    /\ UNCHANGED <<policy, stats, changes>>

PolicySteps ==
    \/ \E rate \in Rates, memory \in Memory : \E ema \in Averaged(policy, rate) : Observe(rate, ema, memory)
    \/ \E step \in 1 .. Steps : SetScale(step)
    \/ PacingTick

StatsSteps == GuestSwap \/ CoreReset \/ Submitted \/ PacingTick

PacingNext == PolicySteps \/ StatsSteps
PacingSpec == PacingInit /\ [][PacingNext]_pacingVars

-----------------------------------------------------------------------------
(* Properties                                                              *)

\* The resolution goes up only after RecoverySamples good samples in a row, and
\* no two changes by observation are closer than the cooldown
\* (render360-performance-policy.mjs:32-34: "down quickly ... back up slowly").
ChangesAreSpaced ==
    /\ changes.gap >= Cooldown
    /\ changes.kind = "up" => changes.after >= RecoverySamples

\* Guest frames are never counted that the game did not show, and those the bar
\* judges are from the window alone, whatever the counter or the game do
\* (render360-perf-overlay.mjs:61-88).
FramesAreCounted ==
    /\ stats.total <= stats.real
    /\ \A i \in DOMAIN stats.frames : stats.frames[i] >= stats.frames[1]
    /\ Len(stats.frames) > 0 => stats.frames[Len(stats.frames)] - stats.frames[1] <= Window

\* Resolution and statistics follow the game that is shown, and do not swing.
PacingIsSteady == ChangesAreSpaced /\ FramesAreCounted
=============================================================================
