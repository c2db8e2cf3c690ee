------------------------------ MODULE WebServer ------------------------------
(***************************************************************************)
(* internal/webui/server.go: the listener set as one capability.  Run      *)
(* binds every listener or none, serves until the context is cancelled or  *)
(* one listener is lost, then stops all of them under one deadline.        *)
(* http.Server is external: Shutdown closes its listener, makes Serve      *)
(* return ErrServerClosed and waits for the open requests.                 *)
(***************************************************************************)
EXTENDS Naturals, FiniteSets

CONSTANTS
    Listeners,  \* intendedListeners: HTTP, and HTTPS if enabled
    Requests    \* requests the browsers make

ASSUME WebAssumption ==
    /\ IsFiniteSet(Listeners)
    /\ Listeners # {}
    /\ {"none", "done"} \cap Listeners = {}

VARIABLES
    stage,     \* where Run is
    bound,     \* listeners that hold their port
    loop,      \* the goroutine serving each listener
    failures,  \* the channel of serve()
    lost,      \* the failures serve() has received
    halt,      \* http.Server.Shutdown of each listener
    expired,   \* the shared deadline has passed
    cancelled, \* the application context is done
    request,   \* the listener a request came in by
    outcome,   \* the error Run returns, by its parts
    broke      \* history: the listeners whose Serve failed

webVars == <<stage, bound, loop, failures, lost, halt, expired, cancelled, request, outcome, broke>>

NoError == [bind |-> FALSE, serve |-> {}, shutdown |-> {}]

\* MUTANT of FailureCap: a plain channel.
FailureCapNone == 0

\* make(chan serveFailure, len(s.listeners))
FailureCap == Cardinality(Listeners)

-----------------------------------------------------------------------------
WebTypeOK ==
    /\ stage \in {"bind", "serve", "stop", "collect", "returned"}
    /\ bound \subseteq Listeners
    /\ loop \in [Listeners -> {"off", "serving", "broken", "over"}]
    /\ failures \subseteq Listeners
    /\ lost \subseteq Listeners
    /\ halt \in [Listeners -> {"no", "asked", "clean", "late"}]
    /\ expired \in BOOLEAN
    /\ cancelled \in BOOLEAN
    /\ request \in [Requests -> Listeners \cup {"none", "done"}]
    /\ outcome \in [bind : BOOLEAN, serve : SUBSET Listeners, shutdown : SUBSET Listeners]
    /\ broke \subseteq Listeners

WebInit ==
    /\ stage = "bind"
    /\ bound = {}
    /\ loop = [l \in Listeners |-> "off"]
    /\ failures = {}
    /\ lost = {}
    /\ halt = [l \in Listeners |-> "no"]
    /\ expired = FALSE
    /\ cancelled = FALSE
    /\ request = [r \in Requests |-> "none"]
    /\ outcome = NoError
    /\ broke = {}

\* bindListeners: one after the other, and nothing is served before the last.
Bind(l) ==
    /\ stage = "bind"
    /\ l \notin bound
    /\ bound' = bound \cup {l}
    /\ stage' = IF bound' = Listeners THEN "serve" ELSE "bind"
    /\ UNCHANGED <<loop, failures, lost, halt, expired, cancelled, request, outcome, broke>>

\* A port or a certificate that cannot be had: closeAll, and Run fails.
BindFails ==
    /\ stage = "bind"
    /\ bound' = {}
    /\ stage' = "returned"
    /\ outcome' = [NoError EXCEPT !.bind = TRUE]
    /\ UNCHANGED <<loop, failures, lost, halt, expired, cancelled, request, broke>>

\* A serving goroutine begins, if need be on a server already shut down.
Serve(l) ==
    /\ stage \in {"serve", "stop"}
    /\ loop[l] = "off"
    /\ loop' = [loop EXCEPT ![l] = IF halt[l] = "no" THEN "serving" ELSE "over"]
    /\ UNCHANGED <<stage, bound, failures, lost, halt, expired, cancelled, request, outcome, broke>>

Accept(r, l) ==
    /\ request[r] = "none"
    /\ loop[l] = "serving"
    /\ halt[l] = "no"
    /\ request' = [request EXCEPT ![r] = l]
    /\ UNCHANGED <<stage, bound, loop, failures, lost, halt, expired, cancelled, outcome, broke>>

\* A handler returns; a log stream only when its browser has gone.
Finish(r) ==
    /\ request[r] \in Listeners
    /\ request' = [request EXCEPT ![r] = "done"]
    /\ UNCHANGED <<stage, bound, loop, failures, lost, halt, expired, cancelled, outcome, broke>>

\* Serve returns an error of its own, closing its listener.
Break(l) ==
    /\ loop[l] = "serving"
    /\ halt[l] = "no"
    /\ loop' = [loop EXCEPT ![l] = "broken"]
    /\ bound' = bound \ {l}
    /\ broke' = broke \cup {l}
    /\ UNCHANGED <<stage, failures, lost, halt, expired, cancelled, request, outcome>>

\* The goroutine sends its failure and is done; serve() may be receiving.
Report(l) ==
    /\ loop[l] = "broken"
    /\ \/ /\ Cardinality(failures) < FailureCap
          /\ failures' = failures \cup {l}
          /\ UNCHANGED <<lost, stage>>
       \/ /\ stage = "serve"
          /\ failures = {}
          /\ lost' = {l}
          /\ stage' = "stop"
          /\ UNCHANGED failures
    /\ loop' = [loop EXCEPT ![l] = "over"]
    /\ UNCHANGED <<bound, halt, expired, cancelled, request, outcome, broke>>

\* ErrServerClosed is no failure.
ServeEnds(l) ==
    /\ loop[l] = "serving"
    /\ halt[l] # "no"
    /\ loop' = [loop EXCEPT ![l] = "over"]
    /\ UNCHANGED <<stage, bound, failures, lost, halt, expired, cancelled, request, outcome, broke>>

Cancel ==
    /\ ~cancelled
    /\ stage # "returned"
    /\ cancelled' = TRUE
    /\ UNCHANGED <<stage, bound, loop, failures, lost, halt, expired, request, outcome, broke>>

\* The select of serve(): either of its cases when both are ready.
Wake ==
    /\ stage = "serve"
    /\ \/ cancelled /\ UNCHANGED <<failures, lost>>
       \/ \E l \in failures : lost' = {l} /\ failures' = failures \ {l}
    /\ stage' = "stop"
    /\ UNCHANGED <<bound, loop, halt, expired, cancelled, request, outcome, broke>>

\* shutdownAll: every listener at once, one deadline.
Halt(l) ==
    /\ stage = "stop"
    /\ halt[l] = "no"
    /\ halt' = [halt EXCEPT ![l] = "asked"]
    /\ bound' = bound \ {l}
    /\ UNCHANGED <<stage, loop, failures, lost, expired, cancelled, request, outcome, broke>>

Halted(l) ==
    /\ halt[l] = "asked"
    /\ \/ /\ \A r \in Requests : request[r] # l
          /\ halt' = [halt EXCEPT ![l] = "clean"]
       \/ /\ expired
          /\ halt' = [halt EXCEPT ![l] = "late"]
    /\ UNCHANGED <<stage, bound, loop, failures, lost, expired, cancelled, request, outcome, broke>>

Expire ==
    /\ stage = "stop"
    /\ ~expired
    /\ expired' = TRUE
    /\ UNCHANGED <<stage, bound, loop, failures, lost, halt, cancelled, request, outcome, broke>>

\* wg.Wait of shutdownAll, then serving.Wait.
Join ==
    /\ stage = "stop"
    /\ \A l \in Listeners : halt[l] \in {"clean", "late"} /\ loop[l] = "over"
    /\ stage' = "collect"
    /\ UNCHANGED <<bound, loop, failures, lost, halt, expired, cancelled, request, outcome, broke>>

\* MUTANT of Collect: only the failure that woke serve() is reported.
CollectFirst ==
    /\ stage = "collect"
    /\ outcome' = [bind |-> FALSE, serve |-> lost, shutdown |-> {l \in Listeners : halt[l] = "late"}]
    /\ stage' = "returned"
    /\ UNCHANGED <<bound, loop, failures, lost, halt, expired, cancelled, request, broke>>

\* The channel is drained and everything that failed is reported.
Collect ==
    /\ stage = "collect"
    /\ lost' = lost \cup failures
    /\ failures' = {}
    /\ outcome' = [bind |-> FALSE, serve |-> lost', shutdown |-> {l \in Listeners : halt[l] = "late"}]
    /\ stage' = "returned"
    /\ UNCHANGED <<bound, loop, halt, expired, cancelled, request, broke>>

WebProgram ==
    \/ BindFails \/ Wake \/ Expire \/ Join \/ Collect
    \/ \E l \in Listeners : Bind(l) \/ Serve(l) \/ Report(l) \/ ServeEnds(l) \/ Halt(l) \/ Halted(l)

WebNext ==
    \/ WebProgram
    \/ Cancel
    \/ \E l \in Listeners : Break(l) \/ \E r \in Requests : Accept(r, l)
    \/ \E r \in Requests : Finish(r)

\* The runtime schedules the goroutines and fires the timer; nothing makes a
\* browser leave, a listener fail or an operator stop the server.
WebFair == WF_webVars(WebProgram)

WebSpec == WebInit /\ [][WebNext]_webVars /\ WebFair

-----------------------------------------------------------------------------
(* A stop ends, and a lost listener brings the others down: once the context
   is cancelled or any Serve loop has failed, Run returns with nothing bound
   and no serving goroutine left, however long log streams stay open and
   however many listeners fail at once (server.go:377-423, 461-480). *)
RunReturns ==
    (cancelled \/ \E l \in Listeners : loop[l] = "broken")
        ~> (stage = "returned" /\ bound = {} /\ \A l \in Listeners : loop[l] \in {"off", "over"})

(* What Run returns is the truth: each listener whose Serve failed before its
   own shutdown is named and no other, a listener is late only if the deadline
   passed, Run returns nil only when it was cancelled, and when a bind failed
   nothing stayed bound or served a request (server.go:274-292, 434-453). *)
OutcomeHonest ==
    /\ outcome.bind => bound = {} /\ \A r \in Requests : request[r] = "none"
    /\ stage = "returned" /\ ~outcome.bind =>
          /\ outcome.serve = broke
          /\ outcome.shutdown # {} => expired
          /\ outcome = NoError => cancelled
=============================================================================
