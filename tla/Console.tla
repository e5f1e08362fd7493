------------------------------ MODULE Console -------------------------------
(***************************************************************************)
(* The operator's console and the WebUI it exposes: webui_service.py, the  *)
(* keys of tui/app.py, standby_state.py, and what web_server.py does when  *)
(* it starts and when it is told to stop.                                  *)
(*                                                                         *)
(* The console works in one thread, and waits in it for a server to come   *)
(* up or to go.  The inactivity timer is a thread of its own that takes    *)
(* the same steps beside it, with no lock: they share _process, _timer and *)
(* the pid file.  A server is a process of its own, in a session of its    *)
(* own: it outlives the console, and it may have been started by hand.     *)
(***************************************************************************)
EXTENDS Integers, FiniteSets

CONSTANTS
    MaxServers,   \* bound: servers started
    MaxKeys,      \* bound: keys that reach the console's timer
    MaxLaunches   \* bound: consoles launched

ASSUME BoundAssumption ==
    MaxServers \in Nat \ {0} /\ MaxKeys \in Nat /\ MaxLaunches \in Nat \ {0}

Server == 1..MaxServers
None == 0
Thread == {"ui", "timer"}

VARIABLES
    lsof,      \* can the process that listens at the port be found?
    srv,       \* each server's process
    token,     \* webui_token: the server that published it
    pidFile,   \* webui.pid: the server it names
    process,   \* _process: the server this console started
    armed,     \* _timer: is it counting?
    at,        \* where each thread stands
    target,    \* the pid each thread's stop() has chosen
    sealed,    \* the standby state: SEALED or ACTIVE
    keys,      \* keys seen
    launches,  \* consoles launched
    beyond,    \* history: servers standby did not go for, or started by hand since
    disturbed  \* history: by hand, in a timer's way, or a console cut short

service == <<pidFile, process, armed>>
control == <<at, target>>
counts == <<keys, launches>>
consoleVars == <<lsof, srv, token, service, control, sealed, counts, beyond, disturbed>>

Alive(s) == s # None /\ srv[s] \notin {"none", "dead"}
Serving(s) == srv[s] \in {"serving", "told"}
PortIsOpen == \E s \in Server : Serving(s)
Fresh(s) == s = Cardinality({r \in Server : srv[r] # "none"}) + 1
Listener == IF lsof /\ PortIsOpen THEN CHOOSE s \in Server : Serving(s) ELSE None

ConsoleInit ==
    /\ lsof \in BOOLEAN
    /\ srv = [s \in Server |-> "none"]
    /\ token = None /\ pidFile = None /\ process = None /\ armed = FALSE
    /\ at = [t \in Thread |-> "off"] /\ target = [t \in Thread |-> None]
    /\ sealed = FALSE /\ keys = 0 /\ launches = 0
    /\ beyond = {} /\ disturbed = FALSE

Go(t, where) == at' = [at EXCEPT ![t] = where]
Stopping(t) == at[t] \in {"stopping", "killed"}
Starting == at["ui"] \in {"starting", "cleaning"}

-----------------------------------------------------------------------------
(* WebUIService *)

(* is_running: its own process; else the pid file, or whoever listens.  It *)
(* writes a pid it finds and clears one that is dead or does not listen.   *)
Known == IF pidFile # None THEN pidFile ELSE Listener
KnownUp == Alive(Known) /\ PortIsOpen
IsRunning == Alive(process) \/ KnownUp
ProbedPid ==
    IF Alive(process) THEN pidFile ELSE IF KnownUp THEN Known ELSE None

(* SIGTERM: a process that is only starting dies; a server notices it when *)
(* it comes to it.                                                         *)
Terminated(s) ==
    CASE srv[s] = "booting" -> [srv EXCEPT ![s] = "dead"]
      [] srv[s] = "published" -> [srv EXCEPT ![s] = "closing"]
      [] srv[s] = "serving" -> [srv EXCEPT ![s] = "told"]
      [] OTHER -> srv

(* Mutant: only a server this console has started is stopped. *)
Chosen_Own == IF Alive(process) THEN process ELSE None

(* The pid stop() goes for. *)
Chosen == IF Alive(process) THEN process ELSE Known

(* stop() up to its wait *)
BeginStop(t) ==
    /\ armed' = FALSE
    /\ target' = [target EXCEPT ![t] = Chosen]
    /\ Go(t, "stopping")
    /\ srv' = IF Chosen = None THEN srv ELSE Terminated(Chosen)

(* Mutant: a server that has closed its port counts as gone. *)
Gone_Port(s) == ~PortIsOpen

(* _wait_for_shutdown *)
Gone(s) == ~Alive(s) /\ ~PortIsOpen

(* Mutant: a server that does not stop in time is left alone. *)
Killed_Never(s) == srv

Killed(s) == IF Alive(s) THEN [srv EXCEPT ![s] = "dead"] ELSE srv

(* After four seconds: SIGKILL *)
Kill(t) ==
    /\ at[t] = "stopping" /\ target[t] # None /\ ~Gone(target[t])
    /\ srv' = Killed(target[t])
    /\ Go(t, "killed")
    /\ UNCHANGED <<lsof, token, service, target, sealed, counts, beyond, disturbed>>

(* stop() forgets the process and clears the pid file, whosever they are   *)
(* by now.                                                                 *)
EndStop(t) ==
    /\ Stopping(t)
    /\ at[t] = "stopping" => target[t] = None \/ Gone(target[t])
    /\ process' = None /\ pidFile' = None
    /\ Go(t, IF t = "ui" THEN "idle" ELSE "told")
    /\ target' = [target EXCEPT ![t] = None]
    /\ UNCHANGED <<lsof, srv, token, armed, sealed, counts, beyond, disturbed>>

(* The timer has run out: nothing cancels it any more. *)
Expire ==
    /\ armed /\ at["timer"] = "off"
    /\ armed' = FALSE
    /\ disturbed' = (disturbed \/ Starting)
    /\ Go("timer", "due")
    /\ UNCHANGED <<lsof, srv, token, pidFile, process, target, sealed, counts, beyond>>

(* _handle_timeout: is_running, stop, callback *)
HandleTimeout ==
    /\ at["timer"] = "due"
    /\ pidFile' = ProbedPid
    /\ Go("timer", IF IsRunning THEN "ending" ELSE "off")
    /\ UNCHANGED <<lsof, srv, token, process, armed, target, sealed, counts, beyond, disturbed>>

TimeoutStops ==
    /\ at["timer"] = "ending"
    /\ BeginStop("timer")
    /\ UNCHANGED <<lsof, token, pidFile, process, sealed, counts, beyond, disturbed>>

OnTimeout ==
    /\ at["timer"] = "told"
    /\ pidFile' = ProbedPid
    /\ Go("timer", "off")
    /\ UNCHANGED <<lsof, srv, token, process, armed, target, sealed, counts, beyond, disturbed>>

-----------------------------------------------------------------------------
(* The console's thread *)

Listens == at["ui"] \in {"idle", "confirm"}

(* on_key: reset_timer *)
OnKey ==
    /\ Listens /\ keys < MaxKeys
    /\ keys' = keys + 1
    /\ pidFile' = ProbedPid
    /\ armed' = IsRunning
    /\ UNCHANGED <<lsof, srv, token, process, control, sealed, launches, beyond, disturbed>>

(* Every second, the banner *)
Refresh ==
    /\ Listens
    /\ pidFile' = ProbedPid
    /\ UNCHANGED <<lsof, srv, token, process, armed, control, sealed, counts, beyond, disturbed>>

(* action_toggle_webui of a running server asks first, sealed or not. *)
AskRetract ==
    /\ at["ui"] = "idle" /\ IsRunning
    /\ pidFile' = ProbedPid
    /\ Go("ui", "confirm")
    /\ UNCHANGED <<lsof, srv, token, process, armed, target, sealed, counts, beyond, disturbed>>

Decline ==
    /\ at["ui"] = "confirm"
    /\ Go("ui", "idle")
    /\ UNCHANGED <<lsof, srv, token, service, target, sealed, counts, beyond, disturbed>>

Retract ==
    /\ at["ui"] = "confirm"
    /\ BeginStop("ui")
    /\ UNCHANGED <<lsof, token, pidFile, process, sealed, counts, beyond, disturbed>>

MayExpose == ~sealed

(* start() looks a second time, after the first look has cleared a stale   *)
(* pid: it may now find who listens, and leaves it without a timer.        *)
ExposeFound ==
    /\ at["ui"] = "idle" /\ MayExpose /\ ~IsRunning /\ Listener # None
    /\ pidFile' = Listener
    /\ UNCHANGED <<lsof, srv, token, process, armed, control, sealed, counts, beyond, disturbed>>

Expose(s) ==
    /\ at["ui"] = "idle" /\ MayExpose /\ ~IsRunning /\ Listener = None
    /\ Fresh(s)
    /\ srv' = [srv EXCEPT ![s] = "booting"]
    /\ process' = s /\ pidFile' = s
    /\ disturbed' = (disturbed \/ at["timer"] \notin {"off", "told"})
    /\ Go("ui", "starting")
    /\ UNCHANGED <<lsof, token, armed, target, sealed, counts, beyond>>

(* _wait_for_startup: the port is open, whoever opened it.  reset_timer *)
StartedUp ==
    /\ at["ui"] = "starting" /\ Alive(process) /\ PortIsOpen
    /\ armed' = TRUE
    /\ Go("ui", "idle")
    /\ UNCHANGED <<lsof, srv, token, pidFile, process, target, sealed, counts, beyond, disturbed>>

(* The process is gone, or the timer's stop() has dropped it. *)
StartFails ==
    /\ at["ui"] = "starting" /\ ~Alive(process)
    /\ process' = None /\ pidFile' = None
    /\ Go("ui", "idle")
    /\ UNCHANGED <<lsof, srv, token, armed, target, sealed, counts, beyond, disturbed>>

(* Ten seconds without a port: _cleanup_failed_process *)
StartTimesOut ==
    /\ at["ui"] = "starting" /\ Alive(process) /\ ~PortIsOpen
    /\ srv' = Terminated(process)
    /\ target' = [target EXCEPT !["ui"] = process]
    /\ Go("ui", "cleaning")
    /\ UNCHANGED <<lsof, token, service, sealed, counts, beyond, disturbed>>

CleanUp ==
    /\ at["ui"] = "cleaning"
    /\ srv' = IF Gone(target["ui"]) \/ process = None THEN srv ELSE Killed(target["ui"])
    /\ process' = None /\ pidFile' = None
    /\ target' = [target EXCEPT !["ui"] = None]
    /\ Go("ui", "idle")
    /\ UNCHANGED <<lsof, token, armed, sealed, counts, beyond, disturbed>>

(* action_trigger_standby: seal, ask whether a WebUI runs, retract it.     *)
(* The timer's thread may act in between.                                  *)
TriggerStandby ==
    /\ at["ui"] = "idle" /\ ~sealed
    /\ sealed' = TRUE
    /\ Go("ui", "sealing")
    /\ UNCHANGED <<lsof, srv, token, service, target, counts, beyond, disturbed>>

StandbyAsks ==
    /\ at["ui"] = "sealing"
    /\ pidFile' = ProbedPid
    /\ Go("ui", IF IsRunning THEN "retracting" ELSE "idle")
    /\ beyond' = IF IsRunning THEN beyond ELSE {s \in Server : Alive(s)}
    /\ UNCHANGED <<lsof, srv, token, process, armed, target, sealed, counts, disturbed>>

(* Where stop() looks for the server it is to stop. *)
Sought == IF Alive(process) THEN process ELSE IF pidFile # None THEN pidFile ELSE Listener

StandbyStops ==
    /\ at["ui"] = "retracting"
    /\ BeginStop("ui")
    /\ beyond' = {s \in Server : Alive(s) /\ s # Sought}
    /\ UNCHANGED <<lsof, token, pidFile, process, sealed, counts, disturbed>>

(* The standby screen is dismissed: recover() *)
Recover ==
    /\ at["ui"] = "idle" /\ sealed
    /\ sealed' = FALSE /\ beyond' = {}
    /\ UNCHANGED <<lsof, srv, token, service, control, counts, disturbed>>

Launch ==
    /\ at["ui"] = "off" /\ launches < MaxLaunches
    /\ launches' = launches + 1
    /\ Go("ui", "idle")
    /\ UNCHANGED <<lsof, srv, token, service, target, sealed, keys, beyond, disturbed>>

(* The console quits, or is killed: the server goes on, its timer does not.*)
Quit ==
    /\ at["ui"] # "off"
    /\ process' = None /\ armed' = FALSE /\ sealed' = FALSE
    /\ at' = [t \in Thread |-> "off"] /\ target' = [t \in Thread |-> None]
    /\ disturbed' = (disturbed \/ Starting \/ \E t \in Thread : Stopping(t))
    /\ beyond' = {}
    /\ UNCHANGED <<lsof, srv, token, pidFile, counts>>

-----------------------------------------------------------------------------
(* The server *)

Becomes(s, how) == srv' = [srv EXCEPT ![s] = how]

HandStart(s) ==
    /\ Fresh(s)
    /\ Becomes(s, "booting")
    /\ beyond' = IF sealed THEN beyond \union {s} ELSE {}
    /\ disturbed' = TRUE
    /\ UNCHANGED <<lsof, token, service, control, sealed, counts>>

(* startup: the token is published before the port is bound. *)
Publish(s) ==
    /\ srv[s] = "booting"
    /\ Becomes(s, "published")
    /\ token' = s
    /\ UNCHANGED <<lsof, service, control, sealed, counts, beyond, disturbed>>

(* A server that finds the port taken shuts down again. *)
Bind(s) ==
    /\ srv[s] = "published"
    /\ Becomes(s, IF PortIsOpen THEN "closing" ELSE "serving")
    /\ UNCHANGED <<lsof, token, service, control, sealed, counts, beyond, disturbed>>

(* Told to stop, it closes the port, waits for its clients, ... *)
Close(s) ==
    /\ srv[s] = "told"
    /\ Becomes(s, "closing")
    /\ UNCHANGED <<lsof, token, service, control, sealed, counts, beyond, disturbed>>

(* ... removes the published token, whosever it is by now, and ends. *)
Shutdown(s) ==
    /\ srv[s] = "closing"
    /\ Becomes(s, "dead")
    /\ token' = None
    /\ UNCHANGED <<lsof, service, control, sealed, counts, beyond, disturbed>>

Crash(s) ==
    /\ Alive(s)
    /\ Becomes(s, "dead")
    /\ UNCHANGED <<lsof, token, service, control, sealed, counts, beyond, disturbed>>

-----------------------------------------------------------------------------
TimerThread == Expire \/ HandleTimeout \/ TimeoutStops \/ OnTimeout \/ Kill("timer") \/ EndStop("timer")

Waits == StartedUp \/ StartFails \/ StartTimesOut \/ CleanUp \/ Kill("ui") \/ EndStop("ui")

Console ==
    \/ OnKey \/ Refresh \/ AskRetract \/ Decline \/ Retract
    \/ ExposeFound \/ (\E s \in Server : Expose(s))
    \/ Waits \/ TriggerStandby \/ StandbyAsks \/ StandbyStops \/ Recover \/ Launch \/ Quit

ConsoleNext ==
    \/ TimerThread \/ Console
    \/ \E s \in Server :
          HandStart(s) \/ Publish(s) \/ Bind(s) \/ Close(s) \/ Shutdown(s) \/ Crash(s)

(* The timer runs out, its thread is scheduled, and both threads' waits    *)
(* end.  Nobody has to press a key, and a server need not answer a SIGTERM *)
(* or even come up.                                                        *)
ConsoleSpec == ConsoleInit /\ [][ConsoleNext]_consoleVars /\ WF_consoleVars(TimerThread) /\ WF_consoleVars(Waits)

-----------------------------------------------------------------------------
(* Every variable keeps its type, each thread to its own places.           *)
Status == {"none", "booting", "published", "serving", "told", "closing", "dead"}
ConsoleTypeOK ==
    /\ lsof \in BOOLEAN /\ srv \in [Server -> Status]
    /\ {token, pidFile, process} \subseteq Server \union {None}
    /\ armed \in BOOLEAN /\ sealed \in BOOLEAN /\ disturbed \in BOOLEAN
    /\ at \in [Thread -> {"off", "idle", "confirm", "starting", "cleaning", "stopping",
                          "killed", "sealing", "retracting", "due", "ending", "told"}]
    /\ at["ui"] \notin {"due", "ending", "told"}
    /\ at["timer"] \notin {"idle", "confirm", "starting", "cleaning", "sealing", "retracting"}
    /\ target \in [Thread -> Server \union {None}]
    /\ keys \in 0..MaxKeys /\ launches \in 0..MaxLaunches
    /\ beyond \subseteq Server

(* On the standby screen no server serves that standby went for, even one  *)
(* that ignores SIGTERM or was only just starting; and neither the keys    *)
(* nor the timer bring one up.  Standby goes for one server: its own       *)
(* process, else the one in the pid file, else the one that lsof tells of, *)
(* if is_running says that one runs.  So a server that listens behind a    *)
(* pid file naming another (a dead one, too), or that cannot be told, and  *)
(* one found in the pid file before it listens, may serve on, as may one   *)
(* that was started by hand since (beyond).                                *)
SealedServesNothing ==
    sealed /\ at["ui"] = "idle" =>
        \A s \in Server : Serving(s) => s \in beyond

(* A claim of the code that fails: the WebUI is retracted with the screen. *)
(* Where lsof can tell who listens, standby does not take the port to be   *)
(* unused while somebody listens there.                                    *)
StandbyRetracts ==
    [][at["ui"] = "sealing" /\ at'["ui"] = "idle" /\ lsof => ~PortIsOpen]_consoleVars

(* access_token: the published token is the one the server that serves     *)
(* expects, over stops, crashes and relaunched consoles, as long as no     *)
(* server is started by hand or in a running stop, and no console is cut   *)
(* off in a start or a stop.                                               *)
TokenTells ==
    ~disturbed => \A s \in Server : Serving(s) => token = s

(* A server the timer counts for is gone in the end when no more keys      *)
(* come, though it never answers a signal, unless the console quits.  It   *)
(* is claimed of a console nothing has disturbed: once a server was        *)
(* started by hand or beside the timer's stop, or a console was cut off in *)
(* a start or a stop, nothing is said of it any more, nor of those servers. *)
InactivityEnds ==
    \A s \in Server :
        armed /\ Serving(s) ~> ~Serving(s) \/ at["ui"] = "off" \/ disturbed

=============================================================================
