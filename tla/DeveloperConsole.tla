-------------------------- MODULE DeveloperConsole --------------------------
(***************************************************************************)
(* The developer console (src/developer-console.js) and the startup trace  *)
(* that patches it (src/v74-kernel-trace.mjs).  The console is polled into *)
(* and out of existence by the developer-mode setting and keeps the last   *)
(* runtime events; the trace looks at the current title's result every     *)
(* 300 ms and, when the title stopped in HalReturnToFirmware, publishes a  *)
(* diagnosis and fetches the native call trace, for which it waits.        *)
(***************************************************************************)
EXTENDS Integers, Sequences, SequencesExt, FiniteSetsExt

CONSTANTS
    MAX_LOGS,       \* entries kept, 60 in the code
    Messages,       \* what events say
    MaxAccepted,    \* bound on the events accepted
    ConsoleResults  \* results a page sees: 1 .. n

ASSUME ConsoleAssumption == MAX_LOGS \in Nat \ {0} /\ ConsoleResults \subseteq Nat

VARIABLES
    console,   \* the console
    accepted,  \* history: the messages it took, in order
    titles     \* the current result and what the trace has done with each

consoleVars == <<console, accepted, titles>>

ConsoleInit ==
    /\ console = [enabled |-> FALSE, listening |-> FALSE, opened |-> FALSE,
                  entries |-> <<>>]
    /\ accepted = <<>>
    /\ titles = [current |-> 0, firmware |-> {}, logged |-> 0, pending |-> {},
                 published |-> [r \in ConsoleResults |-> 0],
                 traced |-> [r \in ConsoleResults |-> 0]]

(* addEntry: a repeated message is counted, the oldest entries go. *)
Logged(entries, message) ==
    LET next == IF entries # <<>> /\ Last(entries).message = message
                THEN [entries EXCEPT ![Len(entries)].count = @ + 1]
                ELSE Append(entries, [message |-> message, count |-> 1])
    IN  IF Len(next) > MAX_LOGS THEN SubSeq(next, Len(next) - MAX_LOGS + 1, Len(next)) ELSE next

(* A line for the log: a disabled console drops it. *)
Told(message) ==
    IF console.enabled /\ console.listening
    THEN /\ Len(accepted) < MaxAccepted
         /\ accepted' = Append(accepted, message)
         /\ console' = [console EXCEPT !.entries = Logged(@, message)]
    ELSE UNCHANGED <<console, accepted>>

(* tick of the console: developer mode as the stored settings say. *)
SetEnabled(next) ==
    /\ next # console.enabled
    /\ IF next
       THEN /\ Len(accepted) < MaxAccepted
            /\ accepted' = Append(accepted, "enabled")
            /\ console' = [console EXCEPT !.enabled = TRUE, !.listening = TRUE,
                                          !.entries = Logged(@, "enabled")]
       ELSE /\ console' = [console EXCEPT !.enabled = FALSE, !.opened = FALSE]
            /\ UNCHANGED accepted
    /\ UNCHANGED titles

(* eventHandler *)
RuntimeEvent(message) ==
    /\ console.enabled
    /\ Told(message)
    /\ UNCHANGED titles

OpenConsole ==
    /\ console.enabled /\ ~console.opened
    /\ console' = [console EXCEPT !.opened = TRUE]
    /\ UNCHANGED <<accepted, titles>>

CloseConsole ==
    /\ console.opened
    /\ console' = [console EXCEPT !.opened = FALSE]
    /\ UNCHANGED <<accepted, titles>>

-----------------------------------------------------------------------------
(* A launch leaves a new result; `firmware' says that its blocker is        *)
(* HalReturnToFirmware, which a core reports that does not implement it.    *)
NewResult(firmware) ==
    /\ titles.current + 1 \in ConsoleResults
    /\ titles' = [titles EXCEPT !.current = @ + 1,
                                !.firmware = IF firmware THEN @ \cup {titles.current + 1} ELSE @]
    /\ UNCHANGED <<console, accepted>>

Diagnosed == titles.current \in titles.firmware

FaultyTraceTick ==
    /\ Diagnosed
    /\ titles' = [titles EXCEPT !.published[titles.current] = @ + 1,
                                !.pending = @ \cup {titles.current}]
    /\ UNCHANGED <<console, accepted>>

(* tick of the trace: the diagnosis is logged once for a result, with or    *)
(* without a console that takes the lines; the native trace is asked for    *)
(* unless it has been.                                                      *)
TraceTick ==
    /\ Diagnosed
    /\ titles' = [titles EXCEPT
         !.logged = titles.current,
         !.published[titles.current] = IF titles.logged = titles.current THEN @ ELSE @ + 1,
         !.pending = IF titles.traced[titles.current] = 0 THEN @ \cup {titles.current} ELSE @]
    /\ IF titles.logged # titles.current THEN Told("diagnosis") ELSE UNCHANGED <<console, accepted>>

(* The core's promise has settled: the trace is that of the result that     *)
(* asked for it, whichever is current now, and is logged if there is a core.*)
TraceArrives(result, available) ==
    /\ result \in titles.pending
    /\ titles' = [titles EXCEPT !.traced[result] = @ + 1, !.pending = @ \ {result}]
    /\ IF available THEN Told("trace") ELSE UNCHANGED <<console, accepted>>

ConsoleNext ==
    \/ \E mode \in BOOLEAN : SetEnabled(mode)
    \/ \E message \in Messages : RuntimeEvent(message)
    \/ OpenConsole
    \/ CloseConsole
    \/ \E firmware \in BOOLEAN : NewResult(firmware)
    \/ TraceTick
    \/ \E result \in titles.pending, available \in BOOLEAN : TraceArrives(result, available)

-----------------------------------------------------------------------------
(* What the log should hold: the runs of equal messages, newest last. *)
RunStarts(s) == {i \in DOMAIN s : i = 1 \/ s[i] # s[i - 1]}
RunOf(s, i) == [message |-> s[i],
                count |-> Cardinality({j \in i .. Len(s) : \A k \in i .. j : s[k] = s[i]})]

RunsFrom(s, i) == Cardinality({j \in RunStarts(s) : i <= j})

(* The log is the last MAX_LOGS runs of equal messages among all that the   *)
(* console took while developer mode came and went, in their order and with *)
(* their counts.                                                            *)
LogHoldsTheLastRuns ==
    LET runs == Cardinality(RunStarts(accepted))
        shown == Len(console.entries)
    IN  /\ shown = (IF runs < MAX_LOGS THEN runs ELSE MAX_LOGS)
        /\ \A i \in RunStarts(accepted) :
              RunsFrom(accepted, i) <= shown =>
                 console.entries[shown + 1 - RunsFrom(accepted, i)] = RunOf(accepted, i)

(* However the polls and the wait for the core interleave with launches, a  *)
(* result is diagnosed and traced at most once, and only its own trace is   *)
(* laid to its account.                                                     *)
DiagnosedOnce ==
    \A r \in ConsoleResults :
        /\ titles.published[r] <= 1 /\ titles.traced[r] <= 1
        /\ r \notin titles.firmware => titles.published[r] = 0 /\ titles.traced[r] = 0

\* The console keeps what it was told last, and a stop is diagnosed once.
ConsoleIsTrue == LogHoldsTheLastRuns /\ DiagnosedOnce
=============================================================================
