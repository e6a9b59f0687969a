-------------------------------- MODULE Process --------------------------------
(***************************************************************************)
(* main of cmd/controller/main.go: the configuration is loaded and wired   *)
(* into the components, the HTTP server listens in a goroutine of its own, *)
(* and main waits for a signal or for the server to fail; after a signal   *)
(* it shuts the server down, within a time limit.                          *)
(*                                                                         *)
(* http.Server is external: Shutdown stops the listener and waits for the  *)
(* requests being handled, Close cuts them off.  Connections taken over by *)
(* WebSocket and executions are not the server's any more: neither waits   *)
(* for them, and they end with the process.                                *)
(*                                                                         *)
(* ExecutorProofs extends this module and Executor, hence the names of the *)
(* specification.                                                          *)
(***************************************************************************)
EXTENDS Integers

CONSTANTS
  HTTPRequests,
  Numbers,    \* numbers and durations in environment variables
  Unset, Malformed,  \* an environment variable that is empty, or no number
  Default,    \* setting -> what config.Load takes if it is unset
  Fallback    \* setting -> what the constructors take if it is not positive

\* TORUS_TIMEOUT and RATE_LIMIT_WINDOW are durations, the others integers.
Port     == "PORT"
Settings ==
  {Port, "TORUS_TIMEOUT", "EXECUTOR_MAX_CONCURRENT_REQUESTS",
   "RATE_LIMIT_MAX_CONCURRENT_EXECUTIONS", "RATE_LIMIT_MAX_REQUESTS_PER_WINDOW",
   "RATE_LIMIT_WINDOW"}

ASSUME ProcessAssumption ==
  /\ Numbers \subseteq Int
  /\ Default \in [Settings -> Nat \ {0}] /\ Fallback \in [Settings -> Nat \ {0}]

VARIABLES
  phase,         \* main: "load", "wire", "serve", "wait", "drain", "close",
                 \* "returned" or "fatal"
  settings,      \* setting -> its value in Config, then in the component
  server,        \* the server's goroutine: "none", "starting", "listening",
                 \* "closing" or "stopped"
  serverErrors,  \* what the channel holds: "none", "failed" or "closed"
  signalled,     \* SIGINT or SIGTERM came
  expired,       \* the shutdown's time limit is over
  request        \* request -> "none", "handled", "answered", "hijacked" or "cut"

processVars == <<phase, settings, server, serverErrors, signalled, expired, request>>

ProcessInit ==
  /\ phase = "load"
  /\ settings = Default
  /\ server = "none" /\ serverErrors = "none"
  /\ signalled = FALSE /\ expired = FALSE
  /\ request = [r \in HTTPRequests |-> "none"]

----------------------------------------------------------------------------
\* config.Load: the first malformed variable is fatal.
Load ==
  /\ phase = "load"
  /\ \E environment \in [Settings -> Numbers \cup {Unset, Malformed}] :
       IF \E s \in Settings : environment[s] = Malformed
         THEN phase' = "fatal" /\ UNCHANGED settings
         ELSE /\ phase' = "wire"
              /\ settings' = [s \in Settings |->
                                IF environment[s] = Unset THEN Default[s] ELSE environment[s]]
  /\ UNCHANGED <<server, serverErrors, signalled, expired, request>>

\* A bug that takes 0 as it is.
ClampedNegative(s) == IF settings[s] < 0 THEN Fallback[s] ELSE settings[s]
\* The constructors of limiter, client and executor replace what is not positive.
Clamped(s) == IF settings[s] <= 0 THEN Fallback[s] ELSE settings[s]

\* main calls them; the other constructors take constants, and the port is left to
\* ListenAndServe.
Wire ==
  /\ phase = "wire"
  /\ phase' = "serve"
  /\ settings' = [s \in Settings |-> IF s = Port THEN settings[s] ELSE Clamped(s)]
  /\ UNCHANGED <<server, serverErrors, signalled, expired, request>>

\* Signals are caught from here on, and the goroutine is spawned.
Serve ==
  /\ phase = "serve"
  /\ phase' = "wait"
  /\ server' = "starting"
  /\ UNCHANGED <<settings, serverErrors, signalled, expired, request>>

\* The first signal ends the context; later ones are caught and do nothing.
Signal ==
  /\ phase = "wait"
  /\ signalled' = TRUE
  /\ UNCHANGED <<phase, settings, server, serverErrors, expired, request>>

\* main's select, which takes either case when both are ready.
SelectSignal ==
  /\ phase = "wait" /\ signalled
  /\ phase' = "drain"
  /\ server' = IF server = "listening" THEN "closing" ELSE server
  /\ UNCHANGED <<settings, serverErrors, signalled, expired, request>>

SelectError ==
  /\ phase = "wait" /\ serverErrors # "none"
  /\ phase' = IF serverErrors = "failed" THEN "fatal" ELSE "returned"
  /\ UNCHANGED <<settings, server, serverErrors, signalled, expired, request>>

\* A bug that returns when ListenAndServe does, which is before its requests do.
DrainedEarly ==
  /\ phase = "drain" /\ server = "stopped"
  /\ phase' = "returned"
  /\ UNCHANGED <<settings, server, serverErrors, signalled, expired, request>>

\* Shutdown returns nil: no request is being handled.
Drained ==
  /\ phase = "drain" /\ \A r \in HTTPRequests : request[r] # "handled"
  /\ phase' = "returned"
  /\ UNCHANGED <<settings, server, serverErrors, signalled, expired, request>>

\* A bug: Shutdown without a time limit.
ExpireNever == FALSE /\ UNCHANGED processVars

\* shutdownTimeout is over.
Expire ==
  /\ phase = "drain" /\ ~expired
  /\ expired' = TRUE
  /\ UNCHANGED <<phase, settings, server, serverErrors, signalled, request>>

\* Shutdown returns an error, and Close follows.
TimedOut ==
  /\ phase = "drain" /\ expired
  /\ phase' = "close"
  /\ UNCHANGED <<settings, server, serverErrors, signalled, expired, request>>

Close ==
  /\ phase = "close"
  /\ phase' = "returned"
  /\ request' = [r \in HTTPRequests |-> IF request[r] = "handled" THEN "cut" ELSE request[r]]
  /\ UNCHANGED <<settings, server, serverErrors, signalled, expired>>

Main ==
  \/ Load \/ Wire \/ Serve \/ SelectSignal \/ SelectError \/ Drained \/ TimedOut \/ Close

----------------------------------------------------------------------------
Running == phase \notin {"fatal", "returned"}

Report(error) == server' = "stopped" /\ serverErrors' = error

\* ListenAndServe: it listens, unless Shutdown came first; it fails if the port
\* is taken or does not exist, or later.  Its error is sent on a channel with
\* room for it.
Listen ==
  /\ Running /\ server = "starting" /\ phase = "wait"
  /\ server' = "listening" /\ UNCHANGED serverErrors
  /\ UNCHANGED <<phase, settings, signalled, expired, request>>

ServerFails ==
  /\ Running /\ server \in {"starting", "listening"}
  /\ Report("failed")
  /\ UNCHANGED <<phase, settings, signalled, expired, request>>

ServerClosed ==
  /\ Running
  /\ server = "closing" \/ (server = "starting" /\ phase # "wait")
  /\ Report("closed")
  /\ UNCHANGED <<phase, settings, signalled, expired, request>>

\* Clients and handlers.  A handler may take for ever: it reads a request
\* without a time limit.
Arrive(r) ==
  /\ Running /\ server = "listening" /\ request[r] = "none"
  /\ request' = [request EXCEPT ![r] = "handled"]
  /\ UNCHANGED <<phase, settings, server, serverErrors, signalled, expired>>

Handle(r) ==
  /\ Running /\ request[r] = "handled"
  /\ \E outcome \in {"answered", "hijacked"} : request' = [request EXCEPT ![r] = outcome]
  /\ UNCHANGED <<phase, settings, server, serverErrors, signalled, expired>>

ProcessNext ==
  \/ Main \/ Signal \/ Expire
  \/ Listen \/ ServerFails \/ ServerClosed
  \/ \E r \in HTTPRequests : Arrive(r) \/ Handle(r)

ProcessSpec == ProcessInit /\ [][ProcessNext]_processVars

\* main and the timer run; handlers, and the server's goroutine, may hang.
FairProcessSpec == ProcessSpec /\ WF_processVars(Main) /\ WF_processVars(Expire)

----------------------------------------------------------------------------
(***************************************************************************)
(* Whatever the environment says, unless it is malformed, the components   *)
(* are made with what their correctness rests on: tokens, slots, a rate    *)
(* and a window, and a timeout for every request to Torus (see Executor,   *)
(* RateLimiter and the fairness of ExecutionService).                      *)
(***************************************************************************)
WiredAsAssumed ==
  phase \notin {"load", "wire", "fatal"} => \A s \in Settings \ {Port} : settings[s] > 0

(***************************************************************************)
(* main returns only after a signal, and no request is under way then: it  *)
(* was answered, or taken over, or cut off because the time was over.      *)
(***************************************************************************)
GracefulExit ==
  phase = "returned" =>
    /\ signalled
    /\ \A r \in HTTPRequests :
         request[r] # "handled" /\ (request[r] = "cut" => expired)

(***************************************************************************)
(* After a signal, or if it cannot listen, the process ends, though a      *)
(* handler may hang and the server may fail at the same moment.            *)
(***************************************************************************)
ProcessEnds == signalled \/ serverErrors = "failed" ~> ~Running
==============================================================================
