------------------------------ MODULE Requests ------------------------------
(***************************************************************************)
(* The request multiplexer of coresplitter's core: many TCP clients share  *)
(* one radio that handles one command at a time and whose replies carry no *)
(* request identifier.  The core answers what it can from its cache, keeps *)
(* a single request in flight, queues the rest, and decides for every      *)
(* frame of the radio whether it answers the request in flight, confirms   *)
(* an earlier message, is a push for everybody, or is dropped.             *)
(*                                                                         *)
(* Requests are numbered in the order the core accepts them; log[id] holds *)
(* what in_flight and pending_queue hold in the code (client and command)  *)
(* and, as history, how the request ended.  A frame carries as history the *)
(* request that caused it (re, 0 for none); in MSG_SENT and ACK frames re  *)
(* doubles as the expected_ack tag the radio really sends.                 *)
(***************************************************************************)
EXTENDS Protocol, Sequences, SequencesExt

CONSTANTS
  Clients,       \* TCP connections; a ClientId is never reused
  Internal,      \* the requester of the core's own sync commands
  Args,          \* contact keys, channel indices and NoArg
  Commands,      \* the commands clients send
  Keys,          \* contacts the radio may hold
  SyncChannels,  \* the channel indices 0..max_channels, as a sequence
  Pushes,        \* the push events, [code, arg], the radio may emit
  Stored,        \* cache entries that may be left from an earlier run
  DeviceReplies, \* SUBSET of {Error, DeviceInfo}: answers to DEVICE_QUERY
  MaxCommands,   \* bound: commands sent by all clients
  MaxPushes,     \* bound: push events of the radio
  MaxContacts,   \* bound: CONTACT frames of one GET_CONTACTS reply
  MaxUpkeeps,    \* bound: runs of the daily maintenance
  MaxDrops,      \* bound: failures of either half of a radio connection
  MaxLinks,      \* bound: radio connections
  MaxRequests    \* requests the bounds above allow (for liveness only)

ASSUME InternalAssumption == Internal \notin Clients

Command == [code : Byte, arg : Args]

ASSUME CommandsAssumption ==
  /\ NoArg \in Args
  /\ Keys \subseteq Args
  /\ Commands \subseteq Command
  /\ Pushes \subseteq [code : 128 .. 255, arg : Args]
  /\ SyncChannels \in Seq(Args) /\ SyncChannels # << >>
  /\ DeviceReplies \subseteq {Error, DeviceInfo}

ASSUME BoundsAssumption == MaxContacts \in Nat

VARIABLES
  link,          \* "up", "lost" (relay gone, core not told yet), "down"
  writer,        \* the backend still takes commands (radio_send_tx)
  channels,      \* client_channels: the connected clients
  gone,          \* connections that were closed
  command_rx,    \* commands read from the clients' sockets
  pending_queue,
  in_flight,     \* the request in flight, None if the slot is free
  pending_acks,
  cached,        \* heads of the responses in RAM and in SQLite
  toRadio,       \* requests written and not yet read by the radio
  fromRadio,     \* radio_recv_rx
  iter,          \* the radio's running contact iteration
  onair,         \* messages sent on the mesh, not yet confirmed
  log,           \* history: every request and how it ended
  abandoned,     \* history: a request of this connection ended (timed out,
                 \* or taken as answered) before its own reply came
  misrouted,     \* history: frames taken as the answer to something else
  acked,         \* history: delivery confirmations routed to a client
  spent          \* what the environment has used of its bounds

radioVars == <<toRadio, iter, onair>>
ghostVars == <<abandoned, misrouted, acked>>
connVars  == <<channels, gone>>
vars == <<link, writer, channels, gone, command_rx, pending_queue, in_flight,
          pending_acks, cached, toRadio, fromRadio, iter, onair, log, abandoned,
          misrouted, acked, spent>>

None == 0
NoIter == [req |-> None, left |-> 0]

NewRequest(client, cmd) ==
  [client |-> client, cmd |-> cmd, outcome |-> "open", verdict |-> "none"]

Settle(lg, ids, outcome) ==
  [i \in DOMAIN lg |->
     IF i \in ids THEN [lg[i] EXCEPT !.outcome = outcome] ELSE lg[i]]

\* The log entries and the numbers of new internal requests, in order.
InternalRequests(cmds) == [i \in DOMAIN cmds |-> NewRequest(Internal, cmds[i])]
NextIds(cmds) == [i \in DOMAIN cmds |-> Len(log) + i]

\* client_is_alive; the core's own requests are always eligible.
Alive(client) == client = Internal \/ client \in channels

-----------------------------------------------------------------------------
(* The queue.                                                              *)

\* advance_queue, on a log, a queue and a cache already updated by the
\* caller: pop until a request could be sent.  Requests of clients that have
\* gone are dropped; a request that cannot be sent fails with ERROR.
advance_queue(lg, queue, entries) ==
  \E k \in 1 .. Len(queue) + 1 :
    LET popped  == {queue[i] : i \in 1 .. k - 1}
        refused == {id \in popped : Alive(lg[id].client)}
    IN /\ writer => refused = {}
       /\ k <= Len(queue) => writer /\ Alive(lg[queue[k]].client)
       /\ log' = Settle(Settle(lg, refused, "failed"), popped \ refused, "dropped")
       /\ pending_queue' = SubSeq(queue, k + 1, Len(queue))
       /\ IF k <= Len(queue)
          THEN /\ in_flight' = queue[k]
               /\ toRadio' = Append(toRadio, queue[k])
               /\ cached' = entries \ EvictedBy(lg[queue[k]].cmd)
          ELSE /\ in_flight' = None
               /\ toRadio' = toRadio
               /\ cached' = entries

\* Mutant of EnqueueInternal: the request goes to the front of the queue.
EnqueueInternal_Front(cmd) ==
  LET lg    == log \o InternalRequests(<<cmd>>)
      queue == NextIds(<<cmd>>) \o pending_queue
  IN IF in_flight = None
     THEN advance_queue(lg, queue, cached)
     ELSE /\ log' = lg
          /\ pending_queue' = queue
          /\ UNCHANGED <<in_flight, toRadio, cached>>

\* A new internal request at the back of the queue; sent at once when the
\* radio is idle.
EnqueueInternal(cmd) ==
  LET lg    == log \o InternalRequests(<<cmd>>)
      queue == pending_queue \o NextIds(<<cmd>>)
  IN IF in_flight = None
     THEN advance_queue(lg, queue, cached)
     ELSE /\ log' = lg
          /\ pending_queue' = queue
          /\ UNCHANGED <<in_flight, toRadio, cached>>

-----------------------------------------------------------------------------
(* Clients.                                                                *)

\* handle_client: a connection is accepted and its channel registered.  The
\* frontend listens only while the radio is up.
Connect(c) ==
  /\ link # "down"
  /\ c \notin channels \cup gone
  /\ channels' = channels \cup {c}
  /\ UNCHANGED <<link, writer, gone, command_rx, pending_queue, in_flight,
                 pending_acks, cached, radioVars, fromRadio, log, ghostVars,
                 spent>>

\* Mutant of Disconnect: the closed connection stays in client_channels.
Disconnect_StaysRegistered(c) ==
  /\ c \in channels
  /\ gone' = gone \cup {c}
  /\ UNCHANGED <<link, writer, channels, command_rx, pending_queue, in_flight,
                 pending_acks, cached, radioVars, fromRadio, log, ghostVars,
                 spent>>

\* The client hangs up, a socket fails, or the frontend closes it because
\* the radio went away.
Disconnect(c) ==
  /\ c \in channels
  /\ channels' = channels \ {c}
  /\ gone' = gone \cup {c}
  /\ UNCHANGED <<link, writer, command_rx, pending_queue, in_flight,
                 pending_acks, cached, radioVars, fromRadio, log, ghostVars,
                 spent>>

\* The read half of handle_client parses a frame and hands it to the core.
ClientSend(c, cmd) ==
  /\ c \in channels
  /\ spent.commands < MaxCommands
  /\ spent' = [spent EXCEPT !.commands = @ + 1]
  /\ command_rx' = Append(command_rx, [client |-> c, cmd |-> cmd])
  /\ UNCHANGED <<link, writer, connVars, pending_queue, in_flight,
                 pending_acks, cached, radioVars, fromRadio, log, ghostVars>>

-----------------------------------------------------------------------------
(* The core's main loop.  The select! is biased: commands before radio     *)
(* frames, radio frames (or the end of their channel) before the ticks.    *)

CommandReady == link # "down" /\ command_rx # << >>
FrameReady   == link # "down" /\ command_rx = << >> /\ fromRadio # << >>
LossReady    == link = "lost" /\ command_rx = << >> /\ fromRadio = << >>
TickReady    == link = "up" /\ command_rx = << >> /\ fromRadio = << >>

\* handle_client_command: the client has gone, or its command is answered
\* from the cache, or (GET_MSG) from the messages it missed; nothing of the
\* multiplexer changes.
AnswerLocally ==
  /\ CommandReady
  /\ LET m == Head(command_rx)
     IN \/ m.client \notin channels
        \/ ServedFromCache(cached, m.cmd)
        \/ m.cmd.code = GetMsg
  /\ command_rx' = Tail(command_rx)
  /\ UNCHANGED <<link, writer, connVars, pending_queue, in_flight,
                 pending_acks, cached, radioVars, fromRadio, log, ghostVars,
                 spent>>

\* Mutant of Forward: the command is sent whether or not the radio is busy.
Forward_WhileBusy ==
  /\ CommandReady
  /\ LET m  == Head(command_rx)
         id == Len(log) + 1
     IN /\ m.client \in channels
        /\ ~ServedFromCache(cached, m.cmd)
        /\ writer
        /\ log' = Append(log, NewRequest(m.client, m.cmd))
        /\ in_flight' = id
        /\ toRadio' = Append(toRadio, id)
        /\ cached' = cached \ EvictedBy(m.cmd)
  /\ command_rx' = Tail(command_rx)
  /\ UNCHANGED <<link, writer, connVars, pending_queue, pending_acks,
                 fromRadio, iter, onair, ghostVars, spent>>

\* handle_client_command: the command needs the radio (enqueue_or_dispatch).
Forward ==
  /\ CommandReady
  /\ LET m  == Head(command_rx)
         id == Len(log) + 1
         lg == Append(log, NewRequest(m.client, m.cmd))
     IN /\ m.client \in channels
        /\ ~ServedFromCache(cached, m.cmd)
        /\ \/ /\ in_flight # None
              /\ log' = lg
              /\ pending_queue' = Append(pending_queue, id)
              /\ UNCHANGED <<in_flight, toRadio, cached>>
           \/ /\ in_flight = None /\ writer
              /\ log' = lg
              /\ in_flight' = id
              /\ toRadio' = Append(toRadio, id)
              /\ cached' = cached \ EvictedBy(m.cmd)
              /\ UNCHANGED pending_queue
           \/ /\ in_flight = None /\ ~writer
              /\ log' = Settle(lg, {id}, "failed")
              /\ UNCHANGED <<pending_queue, in_flight, toRadio, cached>>
  /\ command_rx' = Tail(command_rx)
  /\ UNCHANGED <<link, writer, connVars, pending_acks, fromRadio, iter, onair,
                 ghostVars, spent>>

\* try_route_to_in_flight stashes the expected_ack of a MSG_SENT, after
\* evicting entries older than PENDING_ACK_TTL (any of them: no clock here).
StashAck(f, client) ==
  IF f.code = MsgSent /\ client # Internal
  THEN \E kept \in SUBSET pending_acks :
         pending_acks' = {e \in kept : e.ack # f.re}
                           \cup {[ack |-> f.re, client |-> client]}
  ELSE pending_acks' = pending_acks

\* Mutant of Outcome: ERROR counts as an acceptance.
Outcome_IgnoresError(code) == IF code \in Byte THEN "accepted" ELSE "rejected"

\* A request ends accepted unless the frame that completed it was ERROR.
Outcome(code) == IF code = Error THEN "rejected" ELSE "accepted"

\* The requests on_command_accepted leaves at the back of the queue.
Refreshes(cmd, code) ==
  IF Outcome(code) = "accepted" THEN RefreshAfter(cmd) ELSE << >>

\* handle_radio_rx, 1: the frame belongs to the request in flight.  It is
\* cached and routed; the frame that completes the request frees the slot.
RouteReply ==
  /\ FrameReady
  /\ in_flight # None
  /\ LET f     == Head(fromRadio)
         req   == log[in_flight]
         await == awaiting_for(req.cmd)
         again == Refreshes(req.cmd, f.code)
         ended == Settle(log, {in_flight}, Outcome(f.code))
     IN /\ Belongs(await, f.code)
        /\ StashAck(f, req.client)
        /\ misrouted' = IF f.re = in_flight THEN misrouted
                        ELSE misrouted \cup {[req |-> in_flight, re |-> f.re,
                                              code |-> f.code,
                                              abandoned |-> abandoned]}
        /\ abandoned' = (abandoned \/
                            (f.re # in_flight /\ Completes(await, f.code)))
        /\ IF Completes(await, f.code)
           THEN advance_queue(ended \o InternalRequests(again),
                              pending_queue \o NextIds(again),
                              CacheResponse(cached, f))
           ELSE /\ cached' = CacheResponse(cached, f)
                /\ UNCHANGED <<log, pending_queue, in_flight, toRadio>>
  /\ fromRadio' = Tail(fromRadio)
  /\ UNCHANGED <<link, writer, connVars, command_rx, iter, onair, acked, spent>>

\* A frame that is not part of the reply the core waits for.
Unmatched(f) ==
  in_flight # None => ~Belongs(awaiting_for(log[in_flight].cmd), f.code)

\* Mutant of RouteAck: the tag of the ACK is not compared.
RouteAck_AnyTag ==
  /\ FrameReady
  /\ LET f == Head(fromRadio)
     IN /\ Unmatched(f)
        /\ f.code = Ack
        /\ \E e \in pending_acks :
             /\ pending_acks' = pending_acks \ {e}
             /\ acked' = acked \cup {[ack |-> f.re, client |-> e.client]}
  /\ fromRadio' = Tail(fromRadio)
  /\ UNCHANGED <<link, writer, connVars, command_rx, pending_queue, in_flight,
                 cached, radioVars, log, abandoned, misrouted, spent>>

\* handle_radio_rx, 2: an ACK for a message whose expected_ack is known goes
\* to the client it is stashed under, if that is still connected.
RouteAck ==
  /\ FrameReady
  /\ LET f == Head(fromRadio)
     IN /\ Unmatched(f)
        /\ f.code = Ack
        /\ \E e \in pending_acks :
             /\ e.ack = f.re
             /\ pending_acks' = pending_acks \ {e}
             /\ acked' = acked \cup {[ack |-> f.re, client |-> e.client]}
  /\ fromRadio' = Tail(fromRadio)
  /\ UNCHANGED <<link, writer, connVars, command_rx, pending_queue, in_flight,
                 cached, radioVars, log, abandoned, misrouted, spent>>

\* handle_radio_rx, 3 and 4: a push event is broadcast, and ADVERT or
\* PATH_UPDATE re-reads the contact; any other frame is cached and dropped.
BroadcastOrDrop ==
  /\ FrameReady
  /\ LET f == Head(fromRadio)
     IN /\ Unmatched(f)
        /\ ~(f.code = Ack /\ \E e \in pending_acks : e.ack = f.re)
        /\ IF f.code \in {Advertisement, PathUpdate}
           THEN EnqueueInternal(ContactSync(f.arg))
           ELSE /\ cached' = CacheResponse(cached, f)
                /\ UNCHANGED <<log, pending_queue, in_flight, toRadio>>
  /\ fromRadio' = Tail(fromRadio)
  /\ UNCHANGED <<link, writer, connVars, command_rx, pending_acks, iter, onair,
                 ghostVars, spent>>

\* Mutant of Timeout: the queue is not advanced.
Timeout_ForgetsQueue ==
  /\ TickReady
  /\ in_flight # None
  /\ abandoned' = TRUE
  /\ log' = Settle(log, {in_flight}, "failed")
  /\ in_flight' = None
  /\ UNCHANGED <<link, writer, connVars, command_rx, pending_queue,
                 pending_acks, cached, radioVars, fromRadio, misrouted, acked,
                 spent>>

\* Mutant of Timeout: ERROR is sent but the request stays in flight.
Timeout_KeepsSlot ==
  /\ TickReady
  /\ in_flight # None
  /\ log[in_flight].outcome = "open"
  /\ abandoned' = TRUE
  /\ log' = Settle(log, {in_flight}, "failed")
  /\ UNCHANGED <<link, writer, connVars, command_rx, pending_queue, in_flight,
                 pending_acks, cached, radioVars, fromRadio, misrouted, acked,
                 spent>>

\* Mutant of Timeout: only the requests of clients time out.
Timeout_ClientsOnly ==
  /\ TickReady
  /\ in_flight # None
  /\ log[in_flight].client # Internal
  /\ abandoned' = TRUE
  /\ advance_queue(Settle(log, {in_flight}, "failed"), pending_queue, cached)
  /\ UNCHANGED <<link, writer, connVars, command_rx, pending_acks, fromRadio,
                 iter, onair, misrouted, acked, spent>>

\* check_in_flight_timeout: the radio has been silent for IN_FLIGHT_TIMEOUT.
Timeout ==
  /\ TickReady
  /\ in_flight # None
  /\ abandoned' = TRUE
  /\ advance_queue(Settle(log, {in_flight}, "failed"), pending_queue, cached)
  /\ UNCHANGED <<link, writer, connVars, command_rx, pending_acks, fromRadio,
                 iter, onair, misrouted, acked, spent>>

\* run_maintenance: queue a full contact sync unless one is already waiting.
Maintenance ==
  /\ TickReady
  /\ spent.upkeeps < MaxUpkeeps
  /\ spent' = [spent EXCEPT !.upkeeps = @ + 1]
  /\ IF \E id \in {in_flight} \cup Range(pending_queue) :
          id # None /\ log[id].cmd = FullSync
     THEN UNCHANGED <<log, pending_queue, in_flight, toRadio, cached>>
     ELSE EnqueueInternal(FullSync)
  /\ UNCHANGED <<link, writer, connVars, command_rx, pending_acks, fromRadio,
                 iter, onair, ghostVars>>

-----------------------------------------------------------------------------
(* The connection to the radio.                                            *)

\* The backend's write half fails; what it had not written is lost.
WriterEnds ==
  /\ writer
  /\ spent.drops < MaxDrops
  /\ spent' = [spent EXCEPT !.drops = @ + 1]
  /\ writer' = FALSE
  /\ \E n \in 0 .. Len(toRadio) : toRadio' = SubSeq(toRadio, 1, n)
  /\ UNCHANGED <<link, connVars, command_rx, pending_queue, in_flight,
                 pending_acks, cached, fromRadio, iter, onair, log, ghostVars>>

\* The relay of connect_backend ends, by end of stream or by the disconnect
\* signal, which may overtake frames already read.  The write half is a task
\* of its own and may go on accepting commands; its end brings the relay down.
RelayEnds ==
  /\ link = "up"
  /\ writer => spent.drops < MaxDrops
  /\ spent' = IF writer THEN [spent EXCEPT !.drops = @ + 1] ELSE spent
  /\ link' = "lost"
  /\ \E n \in 0 .. Len(fromRadio) : fromRadio' = SubSeq(fromRadio, 1, n)
  /\ UNCHANGED <<writer, connVars, command_rx, pending_queue, in_flight,
                 pending_acks, cached, radioVars, log, ghostVars>>

\* Mutant of LoseRadio: only the request in flight is failed.
LoseRadio_ForgetsQueue ==
  /\ LossReady
  /\ link' = "down"
  /\ writer' = FALSE
  /\ log' = Settle(log, {in_flight}, "failed")
  /\ in_flight' = None
  /\ pending_queue' = << >>
  /\ toRadio' = << >>
  /\ UNCHANGED <<connVars, command_rx, pending_acks, cached, fromRadio, iter,
                 onair, ghostVars, spent>>

\* Mutant of LoseRadio: queued requests are discarded without an ERROR.
LoseRadio_Discards ==
  /\ LossReady
  /\ link' = "down"
  /\ writer' = FALSE
  /\ log' = Settle(Settle(log, {in_flight}, "failed"), Range(pending_queue), "dropped")
  /\ in_flight' = None
  /\ pending_queue' = << >>
  /\ toRadio' = << >>
  /\ UNCHANGED <<connVars, command_rx, pending_acks, cached, fromRadio, iter,
                 onair, ghostVars, spent>>

\* The core sees the end of radio_recv_rx and reconnect_radio fails
\* everything that was waiting for the radio.
LoseRadio ==
  /\ LossReady
  /\ link' = "down"
  /\ writer' = FALSE
  /\ log' = Settle(log, {in_flight} \cup Range(pending_queue), "failed")
  /\ in_flight' = None
  /\ pending_queue' = << >>
  /\ toRadio' = << >>
  /\ UNCHANGED <<connVars, command_rx, pending_acks, cached, fromRadio, iter,
                 onair, ghostVars, spent>>

\* What sync_from_radio queues: all contacts, then channel by channel.
SyncCommands ==
  <<FullSync>> \o [i \in DOMAIN SyncChannels |-> ChannelSync(SyncChannels[i])]

\* connect_backend and initialize_radio succeeded, on fresh channels; then
\* sync_from_radio queues the contacts and every channel and sends the first
\* of them, which fails when the new connection is already broken.
Reconnect ==
  /\ link = "down"
  /\ spent.links < MaxLinks
  /\ spent' = [spent EXCEPT !.links = @ + 1]
  /\ link' = "up"
  /\ \E reply \in DeviceReplies :
       cached' = cached \cup {[code |-> c, arg |-> NoArg] :
                                c \in {SelfInfo, reply} \ {Error}}
  /\ writer' \in (IF spent.drops < MaxDrops THEN BOOLEAN ELSE {TRUE})
  /\ LET queue == NextIds(SyncCommands)
         lg    == log \o InternalRequests(SyncCommands)
     IN /\ log' = IF writer' THEN lg ELSE Settle(lg, {Head(queue)}, "failed")
        /\ in_flight' = IF writer' THEN Head(queue) ELSE None
        /\ toRadio' = IF writer' THEN <<Head(queue)>> ELSE << >>
        /\ pending_queue' = Tail(queue)
  /\ fromRadio' = << >>
  /\ iter' = NoIter
  /\ abandoned' = FALSE
  /\ UNCHANGED <<connVars, command_rx, pending_acks, onair, misrouted, acked>>

-----------------------------------------------------------------------------
(* The radio: external, modelled from how the code and its comments use    *)
(* it.  One reply per command in the order received; GET_CONTACTS opens an *)
(* iteration that APP_START cancels and that refuses a second one.         *)

\* Codes the core treats alike here are not told apart: an unlisted command
\* gets OK, GET_MSG a message or NO_MORE_MESSAGES.
ReplyCodes(cmd) ==
  CASE awaiting_for(cmd).kind = "Any" -> {Ok}
    [] cmd.code = GetMsg -> {ContactMsgRecvV3, NoMoreMsgs}
    [] OTHER -> awaiting_for(cmd).codes

ReplyArg(cmd) == IF cmd.code \in {GetContactByKey, GetChannel} THEN cmd.arg ELSE NoArg

Emit(code, arg, re) ==
  fromRadio' = Append(fromRadio, [code |-> code, arg |-> arg, re |-> re])

Judge(id, verdict) == log' = [log EXCEPT ![id].verdict = verdict]

\* The radio reads a command and answers it, or refuses it.
RadioAnswer ==
  /\ link = "up"
  /\ toRadio # << >>
  /\ LET id  == Head(toRadio)
         cmd == log[id].cmd
     IN \/ /\ cmd.code # GetContacts
           /\ \E code \in ReplyCodes(cmd) : Emit(code, ReplyArg(cmd), id)
           /\ Judge(id, "ok")
           /\ onair' = IF cmd.code = SendMsg THEN onair \cup {id} ELSE onair
           /\ iter' = IF cmd.code = AppStart THEN NoIter ELSE iter
        \/ /\ cmd.code = GetContacts
           /\ iter = NoIter
           /\ Emit(ContactStart, NoArg, id)
           /\ \E n \in 0 .. MaxContacts : iter' = [req |-> id, left |-> n]
           /\ UNCHANGED <<onair, log>>
        \/ /\ Emit(Error, NoArg, id)
           /\ Judge(id, "error")
           /\ UNCHANGED <<iter, onair>>
  /\ toRadio' = Tail(toRadio)
  /\ UNCHANGED <<link, writer, connVars, command_rx, pending_queue, in_flight,
                 pending_acks, cached, ghostVars, spent>>

\* The command, or the reply to it, is lost between the proxy and the radio.
RadioSilent ==
  /\ link = "up"
  /\ toRadio # << >>
  /\ toRadio' = Tail(toRadio)
  /\ UNCHANGED <<link, writer, connVars, command_rx, pending_queue, in_flight,
                 pending_acks, cached, fromRadio, iter, onair, log, ghostVars,
                 spent>>

\* The next frame of the running contact iteration.
RadioIterate ==
  /\ link = "up"
  /\ iter # NoIter
  /\ IF iter.left > 0
     THEN /\ \E k \in Keys : Emit(Contact, k, iter.req)
          /\ iter' = [iter EXCEPT !.left = @ - 1]
          /\ UNCHANGED log
     ELSE /\ Emit(ContactEnd, NoArg, iter.req)
          /\ iter' = NoIter
          /\ Judge(iter.req, "ok")
  /\ UNCHANGED <<link, writer, connVars, command_rx, pending_queue, in_flight,
                 pending_acks, cached, toRadio, onair, ghostVars, spent>>

\* A spontaneous push event.
RadioPush ==
  /\ link = "up"
  /\ spent.pushes < MaxPushes
  /\ spent' = [spent EXCEPT !.pushes = @ + 1]
  /\ \E p \in Pushes : Emit(p.code, p.arg, None)
  /\ UNCHANGED <<link, writer, connVars, command_rx, pending_queue, in_flight,
                 pending_acks, cached, radioVars, log, ghostVars>>

\* The mesh confirms the delivery of a message.
RadioAck ==
  /\ link = "up"
  /\ \E id \in onair :
       /\ Emit(Ack, NoArg, id)
       /\ onair' = onair \ {id}
  /\ UNCHANGED <<link, writer, connVars, command_rx, pending_queue, in_flight,
                 pending_acks, cached, toRadio, iter, log, ghostVars, spent>>

-----------------------------------------------------------------------------
Init ==
  /\ link = "down"
  /\ writer = FALSE
  /\ channels = {}
  /\ gone = {}
  /\ command_rx = << >>
  /\ pending_queue = << >>
  /\ in_flight = None
  /\ pending_acks = {}
  /\ cached \in SUBSET Stored
  /\ toRadio = << >>
  /\ fromRadio = << >>
  /\ iter = NoIter
  /\ onair = {}
  /\ log = << >>
  /\ abandoned = FALSE
  /\ misrouted = {}
  /\ acked = {}
  /\ spent = [commands |-> 0, pushes |-> 0, upkeeps |-> 0, drops |-> 0,
              links |-> 0]

Core ==
  \/ AnswerLocally \/ Forward \/ RouteReply \/ RouteAck \/ BroadcastOrDrop
  \/ Timeout \/ Maintenance \/ LoseRadio \/ Reconnect

Radio ==
  \/ RadioAnswer \/ RadioSilent \/ RadioIterate \/ RadioPush \/ RadioAck
  \/ WriterEnds \/ RelayEnds

Next ==
  \/ Core
  \/ Radio
  \/ \E c \in Clients : Connect(c) \/ Disconnect(c)
  \/ \E c \in Clients, cmd \in Commands : ClientSend(c, cmd)

Spec == Init /\ [][Next]_vars

\* The core's task is scheduled again and again, the timeout tick fires every
\* second, a closed channel is noticed, and the end of the write half makes
\* the backend signal the disconnect.  Nothing is assumed of the clients, of
\* the radio or of when the connection fails.
Fairness ==
  /\ WF_vars(AnswerLocally \/ Forward)
  /\ WF_vars(RouteReply \/ RouteAck \/ BroadcastOrDrop)
  /\ WF_vars(Timeout)
  /\ WF_vars(LoseRadio)
  /\ WF_vars(~writer /\ RelayEnds)

FairSpec == Spec /\ Fairness

-----------------------------------------------------------------------------
(* Properties.                                                             *)

Ids == 1 .. Len(log)
Waiting == Range(pending_queue)

Request == [client : Clients \cup {Internal}, cmd : Command,
            outcome : {"open", "accepted", "rejected", "failed", "dropped"},
            verdict : {"none", "ok", "error"}]
Frame(n) == [code : Byte, arg : Args, re : 0 .. n]

\* Every variable has its type; a connection that was closed has left
\* client_channels for good (ClientIds are never reused).
TypeOK ==
  /\ link \in {"up", "lost", "down"}
  /\ writer \in BOOLEAN
  /\ channels \subseteq Clients
  /\ gone \subseteq Clients \ channels
  /\ command_rx \in Seq([client : channels \cup gone, cmd : Commands])
  /\ log \in Seq(Request)
  /\ pending_queue \in Seq(Ids)
  /\ in_flight \in {None} \cup Ids
  /\ pending_acks \subseteq [ack : Ids, client : Clients]
  /\ toRadio \in Seq(Ids)
  /\ fromRadio \in Seq(Frame(Len(log)))
  /\ iter \in [req : {None} \cup Ids, left : Nat]
  /\ onair \subseteq Ids
  /\ abandoned \in BOOLEAN
  /\ misrouted \subseteq [req : Ids, re : {None} \cup Ids, code : Byte,
                          abandoned : BOOLEAN]
  /\ acked \subseteq [ack : Ids, client : Clients]

\* The radio is never left idle while requests wait: a free slot with a live
\* send channel means an empty queue, after every handler of the main loop.
WorkConserving == writer /\ in_flight = None => pending_queue = << >>

\* A request is open exactly as long as the slot or the queue holds it, and
\* never in both: none is forgotten and none is answered while it waits.
Accounted ==
  /\ \A id \in Ids : log[id].outcome = "open" <=> id = in_flight \/ id \in Waiting
  /\ in_flight \notin Waiting

\* Requests reach the radio in the order the core accepted them; refreshes
\* the core adds on its own never jump ahead of clients already waiting.
DispatchInOrder ==
  /\ \A i \in DOMAIN pending_queue : in_flight < pending_queue[i]
  /\ \A i, j \in DOMAIN pending_queue :
       i < j => pending_queue[i] < pending_queue[j]

\* Only the request of a client that has gone ends without any answer: every
\* connected client gets a reply or an ERROR, whatever the radio does.
NoSilentDrop ==
  \A id \in Ids : log[id].outcome = "dropped" => log[id].client \in gone

\* As long as no request of this connection was abandoned before its reply,
\* the radio deals with one request at a time: all it has to read, iterates
\* over or has answered is about the request in flight.
RadioSerialized ==
  link # "down" /\ ~abandoned =>
    /\ \A i \in DOMAIN toRadio : toRadio[i] = in_flight
    /\ iter.req \in {None, in_flight}
    /\ \A i \in DOMAIN fromRadio :
         ~is_push_event(fromRadio[i].code) => fromRadio[i].re = in_flight

\* A frame routed to a request was caused by it, unless a request of the same
\* connection was abandoned before, or the frame is a spontaneous telemetry
\* push taken as the answer to a telemetry request about the radio itself.
\* What the radio said on an earlier connection is never taken as an answer.
RightAnswer ==
  \A m \in misrouted : m.abandoned \/ (m.re = None /\ m.code = TelemetryResponse)

\* The delivery ACK of a message goes to the client that sent the message,
\* unless replies were mixed up before.
AckToSender ==
  misrouted = {} => \A a \in acked : log[a.ack].client = a.client

\* What the client was told about its request, and what was echoed to the
\* others or re-read because of it, agrees with what the radio decided.
HonestOutcome ==
  \A id \in Ids :
    (\A m \in misrouted : m.req # id) =>
      /\ log[id].outcome = "accepted" => log[id].verdict = "ok"
      /\ log[id].outcome = "rejected" => log[id].verdict = "error"

\* A request that ended stays as it ended: it is never answered twice, not
\* even when its reply comes after the timeout.
StaysSettled ==
  \A id \in Ids : log[id].outcome # "open" => log'[id].outcome = log[id].outcome
SettledOnce == [][StaysSettled]_vars

\* Every request the core accepted ends, even when the radio stays silent.
Settles ==
  \A id \in 1 .. MaxRequests :
    (id \in DOMAIN log /\ log[id].outcome = "open")
      ~> (id \in DOMAIN log /\ log[id].outcome # "open")

\* core.rs:86 claims for the pinned reply codes: a late reply to a timed-out
\* request is never taken as the answer to the next one (ERROR, which every
\* command may return, left aside).
NoStaleAnswer == \A m \in misrouted : m.re = None \/ m.code = Error

=============================================================================
