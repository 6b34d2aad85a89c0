----------------------------- MODULE MCWaiting -----------------------------
(***************************************************************************)
(* One run for three components in which somebody waits and that share no  *)
(* state: the title's threads in kernel calls, the page for a PC game's    *)
(* worker, and launches for what the core and its pumps do.  `part' says   *)
(* which of them moves.                                                    *)
(***************************************************************************)
EXTENDS MCKernelWaits, PortRuntime, TitleLaunch

VARIABLE part

Two == 1 .. 2

waitingVars == <<vars, portVars, launchVars, part>>

WaitingInit ==
    /\ part \in {"waits", "engine", "launch"}
    /\ Init
    /\ PortInit /\ EngineInit /\ KeysInit /\ SavedInit /\ OverlayInit /\ MountInit /\ ReserveInit
    /\ LaunchInit /\ (part # "launch" => kind = [l \in Launches |-> "content"])

WaitingNext ==
    \/ /\ part = "waits" /\ Next
       /\ UNCHANGED <<portVars, launchVars, part>>
    \/ /\ part = "engine" /\ EngineSteps
       /\ UNCHANGED <<vars, port, keys, saved, overlay, mount, reserve, launchVars, part>>
    \/ /\ part = "launch" /\ LaunchNext
       /\ UNCHANGED <<vars, portVars, part>>
    \/ /\ part # "waits"   \* a launch and a game come to an end
       /\ UNCHANGED waitingVars

\* Timers fire, and the browser resolves the promises the loops await.
WaitingSpec ==
    /\ WaitingInit /\ [][WaitingNext]_waitingVars
    /\ WF_waitingVars(/\ part = "engine" /\ WaitTimesOut
                      /\ UNCHANGED <<vars, port, keys, saved, overlay, mount, reserve, launchVars, part>>)
    /\ \A l \in Launches :
        WF_waitingVars(part = "launch" /\ PumpStep(l) /\ UNCHANGED <<vars, portVars, part>>)
=============================================================================
