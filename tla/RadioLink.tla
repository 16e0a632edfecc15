----------------------------- MODULE RadioLink ------------------------------
(***************************************************************************)
(* The life of the radio connection: the core connects through a backend,  *)
(* shakes hands (APP_START / SELF_INFO, DEVICE_QUERY / DEVICE_INFO), serves *)
(* until the connection is lost, and tries again with growing delays.  The *)
(* TCP frontend follows radio_up in a task of its own, one handler task    *)
(* per client does too, and a signal stops everything through a watch      *)
(* channel, wherever the core happens to be.                               *)
(*                                                                         *)
(* A watch receiver's changed() is ready when there is a value it has not  *)
(* seen, and forever once the sender is dropped.  Every select of the core *)
(* is biased to it.                                                        *)
(***************************************************************************)
EXTENDS Naturals, Sequences

CONSTANTS
  Clients,      \* TCP connections of clients
  SharedLine,   \* serial backend: all readers of the port share its bytes
  Noise,        \* what the radio says unasked: "other", "empty"
  MaxNoise,     \* bound: frames the radio sends unasked
  MaxFailures   \* bound: failed or lost connections, failed binds

ASSUME SharedLineAssumption == SharedLine \in BOOLEAN
ASSUME NoiseAssumption == Noise \subseteq {"other", "empty"}

VARIABLES
  at,        \* where the core task is
  delay,     \* reconnect_radio's delay in seconds; 0 outside its loop
  late,      \* the deadline of the present wait has passed
  linked,    \* radio_send_tx is set and its backend tasks are alive
  frames,    \* radio_recv_rx
  asked,     \* what the radio has yet to answer
  stale,     \* readers of earlier connections still reading the port
  radio_up,
  signal, noticed, sender,  \* watch channel: value, seen by the core, alive
  frontend,  \* where the frontend task is
  clients,   \* connections with a handler
  spent      \* what the environment has used of its bounds

linkVars == <<linked, frames, asked, stale>>
stopVars == <<signal, noticed, sender>>
feVars   == <<frontend, clients>>
vars == <<at, delay, late, linked, frames, asked, stale, radio_up, signal,
          noticed, sender, frontend, clients, spent>>

MaxDelay == 60

Changed == (signal /\ ~noticed) \/ ~sender

Spend(what) == spent' = [spent EXCEPT ![what] = @ + 1]

-----------------------------------------------------------------------------
(* Connecting and shaking hands.                                           *)

\* Mutant of NextDelay: the first delay is not set.
NextDelay_FromZero == IF 2 * delay > MaxDelay THEN MaxDelay ELSE 2 * delay

NextDelay == IF delay = 0 THEN 1
             ELSE IF 2 * delay > MaxDelay THEN MaxDelay ELSE 2 * delay

\* A backend whose two tasks are dropped: the write task ends with its
\* channel, the read task is only detached.  On a serial port it goes on.
LeaveBackend ==
  /\ linked' = FALSE
  /\ stale' = IF linked /\ SharedLine THEN stale + 1 ELSE stale

\* run starts reconnect_radio, or its loop goes round.
TryAgain ==
  /\ at' = "backoff"
  /\ delay' = NextDelay

ConnectFails ==
  /\ at = "connect"
  /\ spent.failures < MaxFailures
  /\ Spend("failures")
  /\ TryAgain
  /\ UNCHANGED <<late, linkVars, radio_up, stopVars, feVars>>

\* connect_backend succeeds and initialize_radio sends APP_START.  A serial
\* radio may still owe answers to the previous connection.
Connected ==
  /\ at = "connect"
  /\ at' = "self_info"
  /\ late' = FALSE
  /\ linked' = TRUE
  /\ frames' = << >>
  /\ asked' = Append(IF SharedLine THEN asked ELSE << >>, "appstart")
  /\ UNCHANGED <<delay, stale, radio_up, stopVars, feVars, spent>>

\* The error path of initialize_radio in run and in reconnect_radio.
InitFails ==
  /\ LeaveBackend
  /\ TryAgain

\* sync_from_radio and radio_up; run then goes on to spawn the frontend,
\* which it does once, and enters its loop.
EnterLoop ==
  /\ at' = "serve"
  /\ delay' = 0
  /\ frontend' = IF frontend = "off" THEN "closed" ELSE frontend
  /\ UNCHANGED clients

Waiting == at \in {"self_info", "device_info"} /\ ~Changed

Expected == IF at = "self_info" THEN {"self_info"} ELSE {"device_info", "error"}

\* wait_for_self_info gets its SELF_INFO; DEVICE_QUERY is sent, unless the
\* write task has ended by then.
GotSelfInfo ==
  /\ Waiting /\ at = "self_info"
  /\ frames # << >> /\ Head(frames) \in Expected
  /\ frames' = Tail(frames)
  /\ \/ /\ at' = "device_info"
        /\ late' = FALSE
        /\ asked' = IF linked THEN Append(asked, "query") ELSE asked
        /\ UNCHANGED <<delay, linked, stale>>
     \/ /\ ~linked
        /\ InitFails
        /\ UNCHANGED <<late, asked>>
  /\ UNCHANGED <<radio_up, stopVars, feVars, spent>>

\* wait_for_device_info gets DEVICE_INFO, or an ERROR it takes for an answer.
GotDeviceInfo ==
  /\ Waiting /\ at = "device_info"
  /\ frames # << >> /\ Head(frames) \in Expected
  /\ frames' = Tail(frames)
  /\ radio_up' = TRUE
  /\ EnterLoop
  /\ UNCHANGED <<late, linked, asked, stale, stopVars, spent>>

\* Any other frame is discarded, and only then the deadline is looked at: it
\* fails the wait for SELF_INFO and ends the wait for DEVICE_INFO.
Discard ==
  /\ Waiting
  /\ frames # << >> /\ Head(frames) \notin Expected \cup {"empty"}
  /\ frames' = Tail(frames)
  /\ \/ ~late /\ UNCHANGED <<at, delay, linked, stale, radio_up, feVars>>
     \/ late /\ at = "self_info" /\ InitFails /\ UNCHANGED <<radio_up, feVars>>
     \/ /\ late /\ at = "device_info"
        /\ radio_up' = TRUE
        /\ EnterLoop
        /\ UNCHANGED <<linked, stale>>
  /\ UNCHANGED <<late, asked, stopVars, spent>>

\* A frame without payload: payload[0] is out of bounds and main panics.
Panic ==
  /\ Waiting
  /\ frames # << >> /\ Head(frames) = "empty"
  /\ at' = "panicked"
  /\ frontend' = "off"
  /\ clients' = {}
  /\ UNCHANGED <<delay, late, linkVars, radio_up, stopVars, spent>>

\* Mutant of LostInHandshake: None is waited out like a frame nobody expects.
LostInHandshake_Waits ==
  /\ Waiting
  /\ frames = << >> /\ ~linked
  /\ UNCHANGED vars

\* recv returns None.
LostInHandshake ==
  /\ Waiting
  /\ frames = << >> /\ ~linked
  /\ InitFails
  /\ UNCHANGED <<late, frames, asked, radio_up, stopVars, feVars, spent>>

ShutdownInHandshake ==
  /\ at \in {"self_info", "device_info"}
  /\ Changed
  /\ noticed' = TRUE
  /\ InitFails
  /\ UNCHANGED <<late, frames, asked, radio_up, signal, sender, feVars, spent>>

-----------------------------------------------------------------------------
(* reconnect_radio's pause, and run's loop.                                *)

Retry ==
  /\ at = "backoff" /\ ~Changed
  /\ at' = "connect"
  /\ UNCHANGED <<delay, late, linkVars, radio_up, stopVars, feVars, spent>>

\* The loop is left without a radio; run goes on to its own loop, which has
\* to find out about the shutdown by itself.
AbortReconnect ==
  /\ at = "backoff" /\ Changed
  /\ noticed' = TRUE
  /\ frames' = << >>
  /\ EnterLoop
  /\ UNCHANGED <<late, linked, asked, stale, radio_up, signal, sender, spent>>

\* handle_radio_rx, of which only the taking of the frame matters here.
ServeFrame ==
  /\ at = "serve" /\ ~Changed
  /\ frames # << >>
  /\ frames' = Tail(frames)
  /\ UNCHANGED <<at, delay, late, linked, asked, stale, radio_up, stopVars,
                 feVars, spent>>

\* Mutant of LostInLoop: the frontend is not told.
LostInLoop_KeepsUp ==
  /\ at = "serve" /\ ~Changed
  /\ frames = << >> /\ ~linked
  /\ TryAgain
  /\ UNCHANGED <<late, linkVars, radio_up, stopVars, feVars, spent>>

\* "radio connection lost": reconnect_radio up to its first pause.
LostInLoop ==
  /\ at = "serve" /\ ~Changed
  /\ frames = << >> /\ ~linked
  /\ radio_up' = FALSE
  /\ TryAgain
  /\ UNCHANGED <<late, linkVars, stopVars, feVars, spent>>

\* Mutant of Stop: the closed channel is not taken for a change.
Stop_OnChangeOnly ==
  /\ at = "serve" /\ signal /\ ~noticed
  /\ noticed' = TRUE
  /\ at' = "stopped"
  /\ linked' = FALSE
  /\ frames' = << >>
  /\ frontend' = "off"
  /\ clients' = {}
  /\ UNCHANGED <<delay, late, asked, stale, radio_up, signal, sender, spent>>

\* The loop ends, shutdown drops the channels and main returns: the process
\* ends with all its tasks.
Stop ==
  /\ at = "serve" /\ Changed
  /\ noticed' = TRUE
  /\ at' = "stopped"
  /\ linked' = FALSE
  /\ frames' = << >>
  /\ frontend' = "off"
  /\ clients' = {}
  /\ UNCHANGED <<delay, late, asked, stale, radio_up, signal, sender, spent>>

\* Five or three seconds go by.
DeadlinePasses ==
  /\ at \in {"self_info", "device_info"} /\ ~late
  /\ late' = TRUE
  /\ UNCHANGED <<at, delay, linkVars, radio_up, stopVars, feVars, spent>>

-----------------------------------------------------------------------------
(* Signals: main's task waits for one, reports it and ends.                *)

Running == at \notin {"stopped", "panicked"}

wait_for_shutdown ==
  /\ Running /\ ~signal
  /\ signal' = TRUE
  /\ UNCHANGED <<at, delay, late, linkVars, radio_up, noticed, sender, feVars,
                 spent>>

DropSender ==
  /\ Running /\ signal /\ sender
  /\ sender' = FALSE
  /\ UNCHANGED <<at, delay, late, linkVars, radio_up, signal, noticed, feVars,
                 spent>>

-----------------------------------------------------------------------------
(* The frontend and the handlers of the clients.                           *)

\* wait_for(up): the frontend goes on to bind.
WantBind ==
  /\ frontend = "closed" /\ radio_up
  /\ frontend' = "binding"
  /\ UNCHANGED <<at, delay, late, linkVars, radio_up, stopVars, clients, spent>>

\* Mutant of bind_all: the frontend gives up when a port is taken.
bind_all_GivesUp ==
  /\ frontend = "binding"
  /\ \/ frontend' = "listening" /\ UNCHANGED spent
     \/ /\ spent.failures < MaxFailures
        /\ Spend("failures")
        /\ frontend' = "returned"
  /\ UNCHANGED <<at, delay, late, linkVars, radio_up, stopVars, clients>>

\* All ports or none; none means another round after a pause.
bind_all ==
  /\ frontend = "binding"
  /\ \/ frontend' = "listening" /\ UNCHANGED spent
     \/ /\ spent.failures < MaxFailures
        /\ Spend("failures")
        /\ frontend' = "closed"
  /\ UNCHANGED <<at, delay, late, linkVars, radio_up, stopVars, clients>>

Unlisten ==
  /\ frontend = "listening" /\ ~radio_up
  /\ frontend' = "closed"
  /\ UNCHANGED <<at, delay, late, linkVars, radio_up, stopVars, clients, spent>>

FrontendStops ==
  /\ frontend \in {"closed", "listening"} /\ signal
  /\ frontend' = "returned"
  /\ UNCHANGED <<at, delay, late, linkVars, radio_up, stopVars, clients, spent>>

Accept(c) ==
  /\ frontend = "listening" /\ c \notin clients
  /\ clients' = clients \cup {c}
  /\ UNCHANGED <<at, delay, late, linkVars, radio_up, stopVars, frontend, spent>>

\* Mutant of CloseClient: the clients are closed by the frontend, as long as
\* it listens.
CloseClient_WithFrontend(c) ==
  /\ c \in clients /\ ~radio_up /\ frontend = "listening"
  /\ clients' = clients \ {c}
  /\ UNCHANGED <<at, delay, late, linkVars, radio_up, stopVars, frontend, spent>>

\* handle_client's third arm: the radio is gone.
CloseClient(c) ==
  /\ c \in clients /\ ~radio_up
  /\ clients' = clients \ {c}
  /\ UNCHANGED <<at, delay, late, linkVars, radio_up, stopVars, frontend, spent>>

\* Its other arms: the client leaves, or cannot be written to.
Leave(c) ==
  /\ c \in clients
  /\ clients' = clients \ {c}
  /\ UNCHANGED <<at, delay, late, linkVars, radio_up, stopVars, frontend, spent>>

-----------------------------------------------------------------------------
(* The radio and the line to it (external).                                *)

\* A frame is read by the present connection, or by a reader left behind.
Deliver(frame) ==
  \/ linked /\ frames' = Append(frames, frame)
  \/ (stale > 0 \/ ~linked) /\ UNCHANGED frames

RadioAnswers ==
  /\ Running /\ asked # << >>
  /\ \E frame \in IF Head(asked) = "appstart" THEN {"self_info"}
                  ELSE {"device_info", "error"} : Deliver(frame)
  /\ asked' = Tail(asked)
  /\ UNCHANGED <<at, delay, late, linked, stale, radio_up, stopVars, feVars, spent>>

RadioSpeaks ==
  /\ Running /\ linked
  /\ spent.noise < MaxNoise
  /\ Spend("noise")
  /\ \E frame \in Noise : Deliver(frame)
  /\ UNCHANGED <<at, delay, late, linked, asked, stale, radio_up, stopVars, feVars>>

-----------------------------------------------------------------------------
(* The backend's two tasks; the end of either is reported to the core.     *)

\* The radio is unplugged or resets the connection: every reader ends.
LineBreaks ==
  /\ Running /\ linked
  /\ spent.failures < MaxFailures
  /\ Spend("failures")
  /\ linked' = FALSE
  /\ stale' = 0
  /\ asked' = << >>
  /\ UNCHANGED <<at, delay, late, frames, radio_up, stopVars, feVars>>

\* A write fails: the write task ends and reports the disconnect; the read
\* task is not aborted.
WriteFails ==
  /\ Running /\ linked
  /\ spent.failures < MaxFailures
  /\ Spend("failures")
  /\ LeaveBackend
  /\ UNCHANGED <<at, delay, late, frames, asked, radio_up, stopVars, feVars>>

-----------------------------------------------------------------------------
Init ==
  /\ at = "connect"
  /\ delay = 0
  /\ late = FALSE
  /\ linked = FALSE
  /\ frames = << >>
  /\ asked = << >>
  /\ stale = 0
  /\ radio_up = FALSE
  /\ signal = FALSE
  /\ noticed = FALSE
  /\ sender = TRUE
  /\ frontend = "off"
  /\ clients = {}
  /\ spent = [failures |-> 0, noise |-> 0]

CoreStep ==
  \/ ConnectFails \/ Connected
  \/ GotSelfInfo \/ GotDeviceInfo \/ Discard \/ Panic
  \/ LostInHandshake \/ ShutdownInHandshake
  \/ Retry \/ AbortReconnect
  \/ ServeFrame \/ LostInLoop \/ Stop

FrontendStep == WantBind \/ bind_all \/ Unlisten \/ FrontendStops

Next ==
  \/ CoreStep \/ DeadlinePasses
  \/ wait_for_shutdown \/ DropSender
  \/ FrontendStep
  \/ \E c \in Clients : Accept(c) \/ CloseClient(c) \/ Leave(c)
  \/ RadioAnswers \/ RadioSpeaks \/ LineBreaks \/ WriteFails

\* The runtime polls every task that can go on, and time passes.
Fairness ==
  /\ WF_vars(CoreStep)
  /\ WF_vars(DeadlinePasses)
  /\ WF_vars(DropSender)
  /\ WF_vars(FrontendStep)
  /\ \A c \in Clients : WF_vars(CloseClient(c))

Spec == Init /\ [][Next]_vars /\ Fairness

-----------------------------------------------------------------------------
(* Properties.                                                             *)

\* Every variable has its type; the reconnection loop never waits longer than
\* a minute, and only it counts delays.
TypeOK ==
  /\ at \in {"connect", "self_info", "device_info", "backoff", "serve",
             "stopped", "panicked"}
  /\ delay \in 0 .. MaxDelay
  /\ at = "backoff" => delay > 0
  /\ late \in BOOLEAN /\ linked \in BOOLEAN
  /\ frames \in Seq({"self_info", "device_info", "error"} \cup Noise)
  /\ asked \in Seq({"appstart", "query"})
  /\ stale \in Nat
  /\ radio_up \in BOOLEAN
  /\ signal \in BOOLEAN /\ noticed \in BOOLEAN /\ sender \in BOOLEAN
  /\ frontend \in {"off", "closed", "binding", "listening", "returned"}
  /\ clients \subseteq Clients

\* Until a signal comes, the frontend is told of a radio exactly while run is
\* in its loop: no path through a failed handshake, a lost connection or an
\* aborted retry leaves radio_up raised over a radio that is gone, or lowers
\* it over one that is served.
UpWhileServing == Running /\ ~signal => (radio_up <=> at = "serve")

\* Wherever the signal finds the core (in a handshake with a radio that says
\* nothing, in a pause, connecting, in its loop) the process ends, though the
\* handshake and the pause consume the change they see (README: "stops
\* cleanly on `systemctl stop`").
ShutdownStops == signal ~> ~Running

\* A radio that answers whatever it is asked, sooner or later.
RadioIsFair == WF_vars(RadioAnswers)

\* README: "the proxy keeps retrying the connection on its own": with a radio
\* that answers, and failures that come to an end, the radio is served again,
\* unless the process ends: on a signal, or in Panic.
RadioBack == RadioIsFair => (~radio_up ~> radio_up \/ ~Running)

\* README: the frontend listens again once the radio is back, though a port
\* may be taken for a while, or the radio be lost again during the bind.
FrontendOpens == radio_up /\ ~signal ~> frontend = "listening" \/ ~radio_up \/ signal

\* README: "every client connection is closed and the TCP frontend stops
\* listening until the radio is back", also for a client accepted in between.
ClientsClosed == ~radio_up ~> radio_up \/ (clients = {} /\ frontend # "listening")

=============================================================================
