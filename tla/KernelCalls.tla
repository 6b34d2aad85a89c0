----------------------------- MODULE KernelCalls -----------------------------
(***************************************************************************)
(* What the kernel's synchronisation calls promise the title: each call    *)
(* takes effect once, atomically, with the identity of the thread that     *)
(* made it, at some moment before it returns; a wait with a timeout may    *)
(* instead return without effect.  How threads share the host, block and   *)
(* retry is left to the implementation.                                    *)
(***************************************************************************)
EXTENDS DispatcherObjects

CONSTANTS
    TitleCalls,      \* the calls the title makes
    InterruptEvents, \* events its interrupt handlers set
    TimedRepeat      \* whether timed waits may take effect more than once

VARIABLES
    objects,  \* the kernel objects
    pending   \* the call each thread is in

vars == <<objects, pending>>

Init ==
    /\ objects = [o \in Objects |-> InitialObject(o)]
    /\ pending = [t \in Threads |-> NoCall]

Begin(t) ==
    /\ pending[t] = NoCall
    /\ \E c \in TitleCalls : pending' = [pending EXCEPT ![t] = c]
    /\ UNCHANGED objects

\* The call takes effect and returns.
Complete(t) ==
    /\ pending[t] # NoCall
    /\ CanComplete(Presignaled(objects, pending[t]), pending[t], t)
    /\ objects' = After(Presignaled(objects, pending[t]), pending[t], t)
    /\ pending' = [pending EXCEPT ![t] = NoCall]

\* A signal-and-wait has signalled; what is left of it is the wait.
Signal(t) ==
    /\ pending[t].signal # NoObject
    /\ objects' = Presignaled(objects, pending[t])
    /\ pending' = [pending EXCEPT ![t].signal = NoObject]

TimeOut(t) ==
    /\ pending[t].timed
    /\ pending' = [pending EXCEPT ![t] = NoCall]
    /\ UNCHANGED objects

\* The weaker promise: a timed wait takes effect, as whichever thread, and
\* starts again.
Repeat(t) ==
    /\ TimedRepeat /\ pending[t].timed
    /\ \E u \in Threads :
          /\ CanComplete(objects, pending[t], u)
          /\ objects' = After(objects, pending[t], u)
    /\ \/ UNCHANGED pending
       \/ pending' = [pending EXCEPT ![t] = NoCall]

\* An interrupt handler sets an event.
Interrupt(e) ==
    /\ objects' = [objects EXCEPT ![e].signal = 1]
    /\ UNCHANGED pending

Next ==
    \/ \E t \in Threads :
          Begin(t) \/ Complete(t) \/ Signal(t) \/ TimeOut(t) \/ Repeat(t)
    \/ \E e \in InterruptEvents : Interrupt(e)

Spec == Init /\ [][Next]_vars
=============================================================================
