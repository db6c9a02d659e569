----------------------------- MODULE Lifecycle ------------------------------
(***************************************************************************)
(* The life of the process (cmd/donut-server/main.go) and of its HTTP      *)
(* server (ListenAndServe in internal/server/server.go): the goroutine     *)
(* that waits for a signal, the one that serves, the one that shuts the    *)
(* server down, and main, whose return ends them all wherever they are.    *)
(***************************************************************************)
EXTENDS Integers

CONSTANTS
  MaxInFlight,       \* bound: HTTP requests in flight at once
  shutdownTimeout    \* time Shutdown waits for requests to drain, in ticks

VARIABLES
  mpc,          \* main: "running", "exited"
  sigChan,      \* signals in the channel, which holds one
  spc,          \* signal goroutine: "wait", "done"
  ctxDone,      \* cancel() was called
  lpc,          \* serving goroutine: "start", "listen", "serving", then "closed", or
                \*   "failed" and "cancelled"
  hpc,          \* shutdown goroutine: "none", "wait", "draining", "done"
  left,         \* time left of shutdownTimeout
  inFlight,     \* requests being served
  cut           \* requests whose serving ended with the process

vars == <<mpc, sigChan, spc, ctxDone, lpc, hpc, left, inFlight, cut>>

Running == mpc = "running"

\* main, up to its wait: the context, signal.Notify, and the goroutines.
Init ==
  /\ mpc = "running" /\ sigChan = 0 /\ spc = "wait" /\ ctxDone = FALSE
  /\ lpc = "start" /\ hpc = "none" /\ left = shutdownTimeout
  /\ inFlight = 0 /\ cut = 0

\* The operating system delivers SIGINT or SIGTERM; signal.Notify does not block.
Signal ==
  /\ Running /\ sigChan' = 1
  /\ UNCHANGED <<mpc, spc, ctxDone, lpc, hpc, left, inFlight, cut>>

\* The goroutine that waits for the first signal, then cancels and ends.
OnSignal ==
  /\ Running /\ spc = "wait" /\ sigChan = 1
  /\ sigChan' = 0 /\ spc' = "done" /\ ctxDone' = TRUE
  /\ UNCHANGED <<mpc, lpc, hpc, left, inFlight, cut>>

\* ListenAndServe starts the shutdown goroutine first.
StartServer ==
  /\ Running /\ lpc = "start"
  /\ lpc' = "listen" /\ hpc' = "wait"
  /\ UNCHANGED <<mpc, sigChan, spc, ctxDone, left, inFlight, cut>>

\* Then it listens; the address may be taken.  If Shutdown was called before, it
\* returns ErrServerClosed at once.
Listen ==
  /\ Running /\ lpc = "listen"
  /\ lpc' \in (IF hpc = "wait" THEN {"serving", "failed"} ELSE {"closed"})
  /\ UNCHANGED <<mpc, sigChan, spc, ctxDone, hpc, left, inFlight, cut>>

\* An error other than ErrServerClosed: main's goroutine cancels.
ListenFailed ==
  /\ Running /\ lpc = "failed" /\ lpc' = "cancelled"
  /\ ctxDone' = TRUE
  /\ UNCHANGED <<mpc, sigChan, spc, hpc, left, inFlight, cut>>

\* Accepting fails while serving.
AcceptFails ==
  /\ Running /\ lpc = "serving" /\ lpc' = "failed"
  /\ UNCHANGED <<mpc, sigChan, spc, ctxDone, hpc, left, inFlight, cut>>

Request ==
  /\ Running /\ lpc = "serving" /\ inFlight < MaxInFlight
  /\ inFlight' = inFlight + 1
  /\ UNCHANGED <<mpc, sigChan, spc, ctxDone, lpc, hpc, left, cut>>

Respond ==
  /\ Running /\ inFlight > 0
  /\ inFlight' = inFlight - 1
  /\ UNCHANGED <<mpc, sigChan, spc, ctxDone, lpc, hpc, left, cut>>

\* server.Shutdown closes the listeners, which makes ListenAndServe return nil,
\* and starts to wait for the requests in flight.
Shutdown ==
  /\ Running /\ hpc = "wait" /\ ctxDone
  /\ hpc' = "draining"
  /\ lpc' = IF lpc = "serving" THEN "closed" ELSE lpc
  /\ UNCHANGED <<mpc, sigChan, spc, ctxDone, left, inFlight, cut>>

Tick ==
  /\ Running /\ hpc = "draining" /\ left > 0
  /\ left' = left - 1
  /\ UNCHANGED <<mpc, sigChan, spc, ctxDone, lpc, hpc, inFlight, cut>>

Drained ==
  /\ Running /\ hpc = "draining" /\ (inFlight = 0 \/ left = 0)
  /\ hpc' = "done"
  /\ UNCHANGED <<mpc, sigChan, spc, ctxDone, lpc, left, inFlight, cut>>

\* <-ctx.Done(): main returns, and with it the process.
Exit ==
  /\ Running /\ ctxDone
  /\ mpc' = "exited" /\ cut' = inFlight /\ inFlight' = 0
  /\ UNCHANGED <<sigChan, spc, ctxDone, lpc, hpc, left>>

Next ==
  \/ Signal \/ OnSignal \/ StartServer \/ Listen \/ ListenFailed \/ AcceptFails
  \/ Request \/ Respond \/ Shutdown \/ Tick \/ Drained \/ Exit

Spec == Init /\ [][Next]_vars

----------------------------------------------------------------------------
(* Property.                                                               *)

\* "It shuts down gracefully when ctx is cancelled, waiting up to
\* shutdownTimeout for in-flight requests to drain": the process ends with
\* requests in flight only after that time.
DrainsBeforeExit == mpc = "exited" /\ cut > 0 => left = 0
=============================================================================
