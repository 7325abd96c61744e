------------------------------ MODULE Signals ------------------------------
(***************************************************************************)
(* SignalHandler (internal/runner/signals.go).  Package os/signal puts     *)
(* signals into a channel of capacity four, or drops them: it never        *)
(* blocks.  One goroutine turns the first SIGTERM or SIGINT into a         *)
(* cancellation and forwards the other signals to the processes.           *)
(***************************************************************************)
EXTENDS Naturals, Sequences

CONSTANTS
    Shutdown,       \* SIGTERM, SIGINT
    Forwarded,      \* SIGHUP, SIGUSR1, SIGUSR2
    Capacity,       \* of sigCh
    MaxSignals      \* bound on the signals sent to gonner

ASSUME SignalConstants ==
    /\ Shutdown \cap Forwarded = {}
    /\ Capacity \in Nat \ {0}
    /\ MaxSignals \in Nat

VARIABLES
    sigCh,      \* the channel
    hpc,        \* the goroutine: "select", "forward" or "ended"
    closed,     \* Stop: signal.Stop, and the done channel is closed
    ctx,        \* has cancelFn been called?
    forwards,   \* calls of forwardFn
    sent        \* signals sent so far

vars == <<sigCh, hpc, closed, ctx, forwards, sent>>

TypeOK ==
    /\ sigCh \in Seq(Shutdown \cup Forwarded)
    /\ Len(sigCh) <= Capacity
    /\ hpc \in {"select", "forward", "ended"}
    /\ closed \in BOOLEAN
    /\ ctx \in BOOLEAN
    /\ forwards \in 0..MaxSignals
    /\ sent \in 0..MaxSignals

SignalsInit ==
    /\ sigCh = <<>>
    /\ hpc = "select"
    /\ closed = FALSE
    /\ ctx = FALSE
    /\ forwards = 0
    /\ sent = 0

\* Package os/signal does not wait for room in the channel.
Notify(s) == sigCh' = IF Len(sigCh) < Capacity THEN Append(sigCh, s) ELSE sigCh

Deliver(s) ==
    /\ sent < MaxSignals
    /\ ~closed
    /\ Notify(s)
    /\ sent' = sent + 1
    /\ UNCHANGED <<hpc, closed, ctx, forwards>>

TakeShutdown ==
    /\ hpc = "select"
    /\ sigCh # <<>>
    /\ Head(sigCh) \in Shutdown
    /\ sigCh' = Tail(sigCh)
    /\ ctx' = TRUE
    /\ hpc' = "ended"
    /\ UNCHANGED <<closed, forwards, sent>>

TakeForwarded ==
    /\ hpc = "select"
    /\ sigCh # <<>>
    /\ Head(sigCh) \in Forwarded
    /\ sigCh' = Tail(sigCh)
    /\ hpc' = "forward"
    /\ UNCHANGED <<closed, ctx, forwards, sent>>

ReturnAfterForward == "ended"
NextSignal == "select"

\* Manager.ForwardSignal signals the group of every process, one by one.
Forward ==
    /\ hpc = "forward"
    /\ forwards' = forwards + 1
    /\ hpc' = NextSignal
    /\ UNCHANGED <<sigCh, closed, ctx, sent>>

TakeDone ==
    /\ hpc = "select"
    /\ closed
    /\ hpc' = "ended"
    /\ UNCHANGED <<sigCh, closed, ctx, forwards, sent>>

\* Stop, deferred in run.go until everything else is over.
Stop ==
    /\ closed' = TRUE
    /\ UNCHANGED <<sigCh, hpc, forwards, sent>>

Handler ==
    \/ TakeShutdown
    \/ TakeForwarded
    \/ Forward
    \/ TakeDone

SignalStep == Handler \/ \E s \in Shutdown \cup Forwarded : Deliver(s)
=============================================================================
