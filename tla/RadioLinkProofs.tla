-------------------------- MODULE RadioLinkProofs ---------------------------
(***************************************************************************)
(* What RadioLink promises of radio_up, proved for any number of clients,  *)
(* any noise, any number of failures, and both kinds of line.              *)
(***************************************************************************)
EXTENDS RadioLink, SequenceTheorems, TLAPS

Places == {"connect", "self_info", "device_info", "backoff"}

\* Before the signal the watch channel is quiet, so no select of the core
\* takes its shutdown arm.
Quiet == ~signal => ~noticed /\ sender

\* Wherever the core is on its way to a radio, also after the signal, the
\* frontend has been told that there is none.
DownOnTheWay == at \in Places => ~radio_up

\* The loop is entered without a radio only by a reconnection the signal
\* aborted.
UpInLoop == at = "serve" /\ ~signal => radio_up

LinkInv == TypeOK /\ Quiet /\ DownOnTheWay /\ UpInLoop

-----------------------------------------------------------------------------
(* reconnect_radio's delay: 1, 2, 4, ... and then a minute.                *)

\* Whatever the delay was, the next one is at least a second and at most a
\* minute (reconnect_radio's `(delay * 2).min(...)`).
LEMMA NextDelayBound ==
  ASSUME delay \in 0 .. MaxDelay
  PROVE  NextDelay \in 1 .. MaxDelay
BY DEF NextDelay, MaxDelay

\* Leaving a backend keeps the types of linked and stale (the drop of the
\* backend's two task handles).
LEMMA LeaveBackendType ==
  ASSUME TypeOK, LeaveBackend
  PROVE  linked' \in BOOLEAN /\ stale' \in Nat
<1>1. linked' \in BOOLEAN BY Zenon DEF LeaveBackend
<1>2. stale' \in Nat BY SMT DEF TypeOK, LeaveBackend
<1> QED BY <1>1, <1>2

\* The first frame of radio_recv_rx taken or another one put at its end: the
\* queue stays a queue of frames.
LEMMA QueueType ==
  ASSUME NEW S, NEW q \in Seq(S)
  PROVE  /\ << >> \in Seq(S)
         /\ q # << >> => Tail(q) \in Seq(S) /\ Head(q) \in S
         /\ \A x \in S : Append(q, x) \in Seq(S)
BY HeadTailProperties, AppendProperties, EmptySeq

-----------------------------------------------------------------------------
(* The four clauses are preserved together.                                *)

\* main and run start without a radio, a frontend, or a signal.
LEMMA LinkInit == Init => LinkInv
<1> SUFFICES ASSUME Init PROVE LinkInv OBVIOUS
<1>1. Quiet /\ DownOnTheWay /\ UpInLoop
  BY Zenon DEF Init, Quiet, DownOnTheWay, UpInLoop
<1>2. /\ late \in BOOLEAN /\ linked \in BOOLEAN /\ radio_up \in BOOLEAN
      /\ signal \in BOOLEAN /\ noticed \in BOOLEAN /\ sender \in BOOLEAN
  BY Zenon DEF Init
<1>3. frames \in Seq({"self_info", "device_info", "error"} \cup Noise)
      /\ asked \in Seq({"appstart", "query"})
  BY EmptySeq, Zenon DEF Init
<1>4. delay \in 0 .. MaxDelay /\ stale \in Nat
  BY SMT DEF Init, MaxDelay
<1>5. at = "connect" /\ frontend = "off" /\ clients = {}
  BY DEF Init
<1> QED BY <1>1, <1>2, <1>3, <1>4, <1>5, Zenon DEF LinkInv, TypeOK

\* connect_backend and initialize_radio.
LEMMA ConnectKeeps ==
  ASSUME LinkInv, ConnectFails \/ Connected
  PROVE  LinkInv'
<1> USE DEF LinkInv, Quiet, DownOnTheWay, UpInLoop, Places, linkVars, stopVars, feVars
<1>1. CASE ConnectFails
  <2>1. delay' \in 1 .. MaxDelay BY <1>1, NextDelayBound DEF ConnectFails, TryAgain, TypeOK
  <2> QED BY <1>1, <2>1 DEF ConnectFails, TryAgain, TypeOK, MaxDelay
<1>2. CASE Connected
  <2>1. asked' \in Seq({"appstart", "query"})
    BY <1>2, QueueType, EmptySeq DEF Connected, TypeOK
  <2>2. frames' \in Seq({"self_info", "device_info", "error"} \cup Noise)
    BY <1>2, EmptySeq DEF Connected
  <2> QED BY <1>2, <2>1, <2>2 DEF Connected, TypeOK
<1> QED BY <1>1, <1>2

\* wait_for_self_info and wait_for_device_info, by all their ways out.
LEMMA HandshakeKeeps ==
  ASSUME LinkInv,
         GotSelfInfo \/ GotDeviceInfo \/ Discard \/ LostInHandshake \/ ShutdownInHandshake
  PROVE  LinkInv'
<1> USE DEF LinkInv, Quiet, DownOnTheWay, UpInLoop, Places, linkVars, stopVars, feVars,
            InitFails, TryAgain, EnterLoop, Waiting
<1>1. delay \in 0 .. MaxDelay /\ NextDelay \in 1 .. MaxDelay
  BY NextDelayBound DEF TypeOK
<1>2. LeaveBackend => linked' \in BOOLEAN /\ stale' \in Nat
  BY LeaveBackendType
<1>3. frames # << >> => Tail(frames) \in Seq({"self_info", "device_info", "error"} \cup Noise)
  BY QueueType DEF TypeOK
<1>4. Append(asked, "query") \in Seq({"appstart", "query"})
  BY QueueType DEF TypeOK
<1>5. CASE GotSelfInfo
  <2>1. /\ late' \in BOOLEAN /\ radio_up' = radio_up /\ signal' = signal
        /\ noticed' = noticed /\ sender' = sender
        /\ frontend' = frontend /\ clients' = clients
    BY <1>5, Zenon DEF GotSelfInfo, TypeOK
  <2>2. at = "self_info" /\ frames' = Tail(frames) /\ frames # << >>
    BY <1>5, Zenon DEF GotSelfInfo
  <2>3. \/ /\ at' = "device_info" /\ delay' = delay
           /\ linked' = linked /\ stale' = stale
           /\ asked' = IF linked THEN Append(asked, "query") ELSE asked
        \/ at' = "backoff" /\ delay' = NextDelay /\ LeaveBackend /\ asked' = asked
    BY <1>5, Zenon DEF GotSelfInfo
  <2>4. Quiet' /\ DownOnTheWay' /\ UpInLoop'
    BY <2>1, <2>2, <2>3, Zenon
  <2>5. linked' \in BOOLEAN /\ stale' \in Nat
    BY <1>2, <2>3, Zenon DEF TypeOK
  <2>6. delay' \in 0 .. MaxDelay /\ (at' = "backoff" => delay' > 0)
    <3>1. (at' = "device_info" /\ delay' = delay) \/ delay' = NextDelay
      BY <2>3, Zenon
    <3> HIDE DEF LinkInv
    <3> QED BY <1>1, <3>1, SMT DEF MaxDelay
  <2>7. asked' \in Seq({"appstart", "query"}) /\ at' \in {"device_info", "backoff"}
    BY <1>4, <2>3, Zenon DEF TypeOK
  <2> QED BY <1>3, <2>1, <2>2, <2>4, <2>5, <2>6, <2>7, Zenon DEF TypeOK
<1>6. CASE GotDeviceInfo
  BY <1>1, <1>2, <1>3, <1>6 DEF GotDeviceInfo, TypeOK, MaxDelay
<1>7. CASE Discard
  <2>1. /\ late' = late /\ asked' = asked /\ signal' = signal
        /\ noticed' = noticed /\ sender' = sender /\ clients' = clients
        /\ frames' = Tail(frames) /\ frames # << >>
    BY <1>7, Zenon DEF Discard
  <2>2. \/ /\ at' = at /\ delay' = delay /\ linked' = linked /\ stale' = stale
           /\ radio_up' = radio_up /\ frontend' = frontend
        \/ /\ at = "self_info" /\ at' = "backoff" /\ delay' = NextDelay /\ LeaveBackend
           /\ radio_up' = radio_up /\ frontend' = frontend
        \/ /\ at' = "serve" /\ delay' = 0 /\ linked' = linked /\ stale' = stale
           /\ radio_up' = TRUE
           /\ frontend' = IF frontend = "off" THEN "closed" ELSE frontend
    BY <1>7, Zenon DEF Discard
  <2>3. Quiet' /\ DownOnTheWay' /\ UpInLoop'
    BY <2>1, <2>2
  <2>4. radio_up' = radio_up \/ radio_up' = TRUE
    BY <2>2, Zenon
  <2>5. radio_up' \in BOOLEAN
    <3>1. radio_up \in BOOLEAN BY DEF TypeOK
    <3>2. CASE radio_up' = radio_up BY <3>1, <3>2
    <3>3. CASE radio_up' = TRUE BY <3>3
    <3> QED BY <2>4, <3>2, <3>3
  <2>6. linked' \in BOOLEAN /\ stale' \in Nat
    BY <1>2, <2>2, Zenon DEF TypeOK
  <2>7. delay' \in 0 .. MaxDelay /\ (at' = "backoff" => delay' > 0)
    <3>1. \/ at' = at /\ at # "backoff" /\ delay' = delay
          \/ delay' = NextDelay
          \/ at' = "serve" /\ delay' = 0
      BY <1>7, <2>2, Zenon DEF Discard
    <3> HIDE DEF LinkInv
    <3> QED BY <1>1, <3>1, SMT DEF MaxDelay
  <2>8. /\ at' \in {"self_info", "device_info", "backoff", "serve"}
        /\ frontend' \in {"off", "closed", "binding", "listening", "returned"}
    BY <1>7, <2>2 DEF TypeOK, Discard
  <2> QED BY <1>3, <2>1, <2>3, <2>5, <2>6, <2>7, <2>8, Zenon DEF TypeOK
<1>8. CASE LostInHandshake
  BY <1>1, <1>2, <1>8 DEF LostInHandshake, TypeOK, MaxDelay
<1>9. CASE ShutdownInHandshake
  BY <1>1, <1>2, <1>9 DEF ShutdownInHandshake, TypeOK, MaxDelay, Changed
<1> QED BY <1>5, <1>6, <1>7, <1>8, <1>9

\* reconnect_radio's pause, run's loop and the ends of the process.
LEMMA LoopKeeps ==
  ASSUME LinkInv,
         Retry \/ AbortReconnect \/ ServeFrame \/ LostInLoop \/ Stop \/ Panic
  PROVE  LinkInv'
<1> USE DEF LinkInv, Quiet, DownOnTheWay, UpInLoop, Places, linkVars, stopVars, feVars,
            TryAgain, EnterLoop, Changed
<1>1. delay \in 0 .. MaxDelay /\ NextDelay \in 1 .. MaxDelay
  BY NextDelayBound DEF TypeOK
<1>2. frames # << >> => Tail(frames) \in Seq({"self_info", "device_info", "error"} \cup Noise)
  BY QueueType DEF TypeOK
<1>3. << >> \in Seq({"self_info", "device_info", "error"} \cup Noise)
  BY EmptySeq
<1>4. CASE Retry BY <1>4 DEF Retry, TypeOK
<1>5. CASE AbortReconnect BY <1>1, <1>3, <1>5 DEF AbortReconnect, TypeOK, MaxDelay
<1>6. CASE ServeFrame BY <1>2, <1>6 DEF ServeFrame, TypeOK
<1>7. CASE LostInLoop
  <2>1. radio_up' \in BOOLEAN /\ Quiet' /\ DownOnTheWay' /\ UpInLoop'
    BY <1>7, Zenon DEF LostInLoop
  <2>2. /\ at' = "backoff" /\ delay' = NextDelay /\ late' = late /\ linked' = linked
        /\ frames' = frames /\ asked' = asked /\ stale' = stale /\ signal' = signal
        /\ noticed' = noticed /\ sender' = sender
        /\ frontend' = frontend /\ clients' = clients
    BY <1>7, Zenon DEF LostInLoop
  <2> QED BY <1>1, <2>1, <2>2 DEF TypeOK, MaxDelay
<1>8. CASE Stop BY <1>3, <1>8 DEF Stop, TypeOK
<1>9. CASE Panic BY <1>9 DEF Panic, TypeOK, Waiting
<1> QED BY <1>4, <1>5, <1>6, <1>7, <1>8, <1>9

\* The passing of time, the signal and main's end of the watch channel.
LEMMA SignalKeeps ==
  ASSUME LinkInv, DeadlinePasses \/ wait_for_shutdown \/ DropSender
  PROVE  LinkInv'
<1> USE DEF LinkInv, Quiet, DownOnTheWay, UpInLoop, Places, linkVars, stopVars, feVars
<1>1. CASE DeadlinePasses BY <1>1, Zenon DEF DeadlinePasses, TypeOK
<1>2. CASE wait_for_shutdown BY <1>2, Zenon DEF wait_for_shutdown, TypeOK
<1>3. CASE DropSender BY <1>3, Zenon DEF DropSender, TypeOK
<1> QED BY <1>1, <1>2, <1>3

\* The frontend and the handlers of its clients only read radio_up.
LEMMA FrontendKeeps ==
  ASSUME LinkInv,
         \/ FrontendStep
         \/ \E c \in Clients : Accept(c) \/ CloseClient(c) \/ Leave(c)
  PROVE  LinkInv'
<1> USE DEF LinkInv, Quiet, DownOnTheWay, UpInLoop, Places, linkVars, stopVars, feVars
<1>1. CASE FrontendStep
  BY <1>1 DEF FrontendStep, WantBind, bind_all, Unlisten, FrontendStops, TypeOK
<1>2. CASE \E c \in Clients : Accept(c) \/ CloseClient(c) \/ Leave(c)
  BY <1>2 DEF Accept, CloseClient, Leave, TypeOK
<1> QED BY <1>1, <1>2

\* The radio, the line and the backend's two tasks.
LEMMA LineKeeps ==
  ASSUME LinkInv, RadioAnswers \/ RadioSpeaks \/ LineBreaks \/ WriteFails
  PROVE  LinkInv'
<1> USE DEF LinkInv, Quiet, DownOnTheWay, UpInLoop, Places, linkVars, stopVars, feVars
<1>1. ASSUME NEW f \in {"self_info", "device_info", "error"} \cup Noise, Deliver(f)
      PROVE  frames' \in Seq({"self_info", "device_info", "error"} \cup Noise)
  BY <1>1, QueueType DEF Deliver, TypeOK
<1>2. CASE RadioAnswers
  <2>1. asked' \in Seq({"appstart", "query"})
    BY <1>2, QueueType DEF RadioAnswers, TypeOK
  <2>2. PICK f \in IF Head(asked) = "appstart" THEN {"self_info"} ELSE {"device_info", "error"} :
          Deliver(f)
    BY <1>2 DEF RadioAnswers
  <2>3. frames' \in Seq({"self_info", "device_info", "error"} \cup Noise)
    BY <1>1, <2>2
  <2> QED BY <1>2, <2>1, <2>3 DEF RadioAnswers, TypeOK
<1>3. CASE RadioSpeaks
  <2>1. frames' \in Seq({"self_info", "device_info", "error"} \cup Noise)
    BY <1>1, <1>3 DEF RadioSpeaks
  <2> QED BY <1>3, <2>1 DEF RadioSpeaks, TypeOK
<1>4. CASE LineBreaks BY <1>4, EmptySeq DEF LineBreaks, TypeOK
<1>5. CASE WriteFails BY <1>5, LeaveBackendType DEF WriteFails, LeaveBackend, TypeOK
<1> QED BY <1>2, <1>3, <1>4, <1>5

\* Every step of the core, the frontend, the radio and the signal keeps the
\* four clauses.
THEOREM LinkInductive == Spec => []LinkInv
<1>1. LinkInv /\ UNCHANGED vars => LinkInv'
  BY DEF LinkInv, TypeOK, Quiet, DownOnTheWay, UpInLoop, vars
<1>2. LinkInv /\ [Next]_vars => LinkInv'
  BY <1>1, ConnectKeeps, HandshakeKeeps, LoopKeeps, SignalKeeps, FrontendKeeps, LineKeeps
     DEF Next, CoreStep
<1> QED BY <1>2, LinkInit, PTL DEF Spec

\* Every variable of the connection keeps its type, the queue of frames holds
\* only frames, and reconnect_radio never pauses for nothing or for more than
\* a minute.
THEOREM LinkTypeCorrect == Spec => []TypeOK
<1>1. LinkInv => TypeOK BY DEF LinkInv
<1> QED BY <1>1, LinkInductive, PTL

\* radio_up tells the frontend the truth until a signal comes, whatever order
\* failed handshakes, lost lines and retries come in: it is raised exactly
\* while run is in its loop.
THEOREM ToldTheTruth == Spec => []UpWhileServing
<1>1. LinkInv => UpWhileServing
  BY DEF LinkInv, TypeOK, DownOnTheWay, UpInLoop, UpWhileServing, Places, Running
<1> QED BY <1>1, LinkInductive, PTL

=============================================================================
