------------------------------- MODULE Inbox --------------------------------
(***************************************************************************)
(* Missed messages: every message the clients see is stored in SQLite, and *)
(* a client that comes back gets the ones it missed.  A client is known by *)
(* an identity (frontend port and app name) given in APP_START; a cursor   *)
(* per identity, in the clients table, says up to which message id the     *)
(* identity is served.                                                     *)
(*                                                                         *)
(* Of the multiplexer (module Requests) only what touches messages is kept *)
(* here: GET_MSG and SEND_* requests, one in flight and the others queued, *)
(* replies that come late or never.  Requests of other kinds only delay    *)
(* these.  A pending list is always sorted by id, so it is a set here.     *)
(* The handling of a message frame is split where another task can see it: *)
(* connections come and go between storing a message and sending it.       *)
(***************************************************************************)
EXTENDS Integers, Sequences, FiniteSets, FiniteSetsExt

CONSTANTS
  Clients,      \* TCP connections; a ClientId is never reused
  Identities,   \* (port, app name)
  NoOne,        \* no identity: radio traffic, or before APP_START
  Backlogs,     \* newest messages a never-seen client gets: {0} for Off, {n}
                \* for Messages(n), several for Seconds (it depends on time)
  MaxCommands,  \* bound: GET_MSG and SEND_* commands that reach the radio
  MaxMessages,  \* bound: messages stored
  MaxPurges,    \* bound: daily maintenance runs that delete something
  MaxFaults     \* bound: losses of the radio connection, crashes and restarts
                \* of coresplitter, and stored messages a failing query hides

ASSUME IdentitiesAssumption == NoOne \notin Identities
ASSUME BacklogsAssumption == Backlogs \subseteq Nat /\ Backlogs # {}
ASSUME FaultsAssumption == MaxFaults \in Nat

VARIABLES
  channels,      \* client_channels: the connected clients
  gone,          \* connections that were closed
  sessions,      \* per connection: its identity and what it has to catch up
  messages,      \* messages table: id -> origin of the stored messages
  lastId,        \* the AUTOINCREMENT sequence of the messages table
  cursor,        \* clients table: last_seen_id, Never when there is no row
  in_flight, pending_queue,
  radio,         \* requests the radio has yet to answer, oldest first
  handling,      \* the message the core is in the middle of handling
  seen,          \* history: messages sent to a connection of the identity
  replayed,      \* history: those of them served as missed
  waived,        \* history: not owed, the identity was new
  author,        \* history: who asked to send a message, and when known as
  excused,       \* history: counted as served although nobody sent it, and
                 \* why: "late", "closed" or "unread"
  spent          \* what the environment has used of its bounds

netVars   == <<channels, gone>>
slotVars  == <<in_flight, pending_queue, radio>>
ghostVars == <<replayed, waived, author, excused>>
vars == <<channels, gone, sessions, messages, lastId, cursor, in_flight,
          pending_queue, radio, handling, seen, replayed, waived, author,
          excused, spent>>

Never     == -1
NoSession == [ident |-> NoOne, pending |-> {}]
NoRequest == [client |-> "none", cmd |-> "none", origin |-> NoOne, author |-> NoOne]
Idle      == [id |-> 0, stage |-> "idle", audience |-> {}]

Identified(cs) == {sessions[c].ident : c \in cs} \ {NoOne}

Spend(what) == spent' = [spent EXCEPT ![what] = @ + 1]

-----------------------------------------------------------------------------
(* The tables.                                                             *)

Stored == DOMAIN messages

\* Mutant of message_head: the id the next message will get.
message_head_Next == IF Stored = {} THEN 0 ELSE Max(Stored) + 1

message_head == IF Stored = {} THEN 0 ELSE Max(Stored)

\* Mutant of advance_client_cursor: the later report wins.
advance_client_cursor_Overwrites(cur, ids, seen_id) ==
  [i \in Identities |-> IF i \in ids THEN seen_id ELSE cur[i]]

\* The upsert of advance_client_cursor, for several identities.
advance_client_cursor(cur, ids, seen_id) ==
  [i \in Identities |-> IF i \in ids /\ cur[i] < seen_id THEN seen_id ELSE cur[i]]

\* AUTOINCREMENT: the ids of deleted rows are not used again.
insert_message(origin) ==
  LET id == lastId + 1
  IN /\ lastId' = id
     /\ messages' = [k \in Stored \cup {id} |-> IF k = id THEN origin ELSE messages[k]]

\* REPLAYABLE_TO: the messages that identity i did not send itself.
ReplayableTo(i) == {id \in Stored : messages[id] # i}

\* The messages ids count as served to i although they were not sent.
Excuse(i, ids, why) == excused \cup {[ident |-> i, id |-> id, why |-> why] : id \in ids}

Faults(excuses) == spent.breaks + Cardinality({e \in excuses : e.why = "unread"})

\* The queries for the messages ids of identity i fail.
Unreadable(i, ids) ==
  /\ excused' = Excuse(i, ids, "unread")
  /\ Faults(excused') <= MaxFaults

Newest(n, ids) == {id \in ids : Cardinality({k \in ids : k > id}) < n}

-----------------------------------------------------------------------------
(* Requests to the radio.                                                  *)

\* dispatch_to_radio: the origin is the identity at this moment.  The radio
\* has yet to answer the requests in line.
dispatch_to_radio(request, line) ==
  /\ in_flight' = [request EXCEPT !.origin = sessions[request.client].ident]
  /\ radio' = Append(line, request.cmd)

\* enqueue_or_dispatch
Ask(c, cmd) ==
  LET request == [client |-> c, cmd |-> cmd, origin |-> NoOne,
                  author |-> sessions[c].ident]
  IN /\ spent.commands < MaxCommands
     /\ Spend("commands")
     /\ IF in_flight = NoRequest
        THEN dispatch_to_radio(request, radio) /\ UNCHANGED pending_queue
        ELSE /\ pending_queue' = Append(pending_queue, request)
             /\ UNCHANGED <<in_flight, radio>>

\* advance_queue: the first request of a client that is still connected.
advance_queue(line) ==
  \E k \in 1 .. Len(pending_queue) + 1 :
    /\ \A i \in 1 .. k - 1 : pending_queue[i].client \notin channels
    /\ pending_queue' = SubSeq(pending_queue, k + 1, Len(pending_queue))
    /\ IF k <= Len(pending_queue)
       THEN /\ pending_queue[k].client \in channels
            /\ dispatch_to_radio(pending_queue[k], line)
       ELSE in_flight' = NoRequest /\ radio' = line

-----------------------------------------------------------------------------
(* Connections.                                                            *)

Connect(c) ==
  /\ c \notin channels \cup gone
  /\ channels' = channels \cup {c}
  /\ UNCHANGED <<gone, sessions, messages, lastId, cursor, slotVars, handling,
                 seen, ghostVars, spent>>

Disconnect(c) ==
  /\ c \in channels
  /\ channels' = channels \ {c}
  /\ gone' = gone \cup {c}
  /\ UNCHANGED <<sessions, messages, lastId, cursor, slotVars, handling, seen,
                 ghostVars, spent>>

-----------------------------------------------------------------------------
(* Commands.  One core task handles them, one after the other.             *)

Ready(c) == handling = Idle /\ c \in channels

\* What a client has to catch up: the messages after its cursor, or, when it
\* was never seen, as many of the newest as it is given.
Missed(i) == IF cursor[i] = Never
             THEN {Newest(n, ReplayableTo(i)) : n \in Backlogs}
             ELSE {{id \in ReplayableTo(i) : id > cursor[i]}}

\* Mutant of register_session: the cursor is put on the first pending message.
register_session_OnFirst(c, i) ==
  /\ Ready(c)
  /\ sessions[c].ident \in {NoOne, i}
  /\ \E pending \in Missed(i) :
       /\ cursor' = advance_client_cursor(cursor, {i},
                      IF pending = {} THEN message_head ELSE Min(pending))
       /\ sessions' = [sessions EXCEPT ![c] = [ident |-> i, pending |-> pending]]
       /\ waived' = IF cursor[i] = Never
                    THEN [waived EXCEPT ![i] = @ \cup (Stored \ pending)]
                    ELSE waived
  /\ UNCHANGED <<netVars, messages, lastId, slotVars, handling, seen, replayed,
                 author, excused, spent>>

\* APP_START.  An app keeps its name for as long as it is connected.  When a
\* query fails there is nothing pending, and the cursor goes to the head too.
register_session(c, i) ==
  /\ Ready(c)
  /\ sessions[c].ident \in {NoOne, i}
  /\ \E missed \in Missed(i) : \E pending \in {missed, {}} :
       /\ Unreadable(i, missed \ pending)
       /\ cursor' = advance_client_cursor(cursor, {i},
                      IF pending = {} THEN message_head ELSE Min(pending) - 1)
       /\ sessions' = [sessions EXCEPT ![c] = [ident |-> i, pending |-> pending]]
       /\ waived' = IF cursor[i] = Never
                    THEN [waived EXCEPT ![i] = @ \cup (Stored \ missed)]
                    ELSE waived
  /\ UNCHANGED <<netVars, messages, lastId, slotVars, handling, seen, replayed,
                 author, spent>>

\* Mutant of Replay: only a client that has caught up gets its cursor moved.
Replay_KeepsCursor(c) ==
  LET i    == sessions[c].ident
      live == sessions[c].pending \cap Stored
      id   == Min(live)
      rest == {k \in sessions[c].pending : k > id}
  IN /\ Ready(c)
     /\ live # {}
     /\ sessions' = [sessions EXCEPT ![c].pending = rest]
     /\ cursor' = IF rest = {} THEN advance_client_cursor(cursor, {i}, message_head)
                  ELSE cursor
     /\ seen' = [seen EXCEPT ![i] = @ \cup {id}]
     /\ replayed' = [replayed EXCEPT ![i] = @ \cup {id}]
     /\ UNCHANGED <<netVars, messages, lastId, slotVars, handling, waived,
                    author, excused, spent>>

\* GET_MSG answered by replay_next_missed with the first pending message that
\* is still stored and can be read.  The last one leaves the client caught up.
Replay(c) ==
  LET i == sessions[c].ident
  IN /\ Ready(c)
     /\ \E id \in sessions[c].pending \cap Stored :
          LET rest == {k \in sessions[c].pending : k > id}
          IN /\ Unreadable(i, {k \in sessions[c].pending \cap Stored : k < id})
             /\ sessions' = [sessions EXCEPT ![c].pending = rest]
             /\ cursor' = advance_client_cursor(cursor, {i},
                            IF rest = {} THEN Max({id, message_head}) ELSE id)
             /\ seen' = [seen EXCEPT ![i] = @ \cup {id}]
             /\ replayed' = [replayed EXCEPT ![i] = @ \cup {id}]
     /\ UNCHANGED <<netVars, messages, lastId, slotVars, handling, waived, author, spent>>

\* GET_MSG with nothing (left) to replay: the cursor follows live traffic, and
\* the radio is asked.
AskRadio(c) ==
  LET i == sessions[c].ident
  IN /\ Ready(c)
     /\ Unreadable(i, sessions[c].pending \cap Stored)
     /\ sessions' = [sessions EXCEPT ![c].pending = {}]
     /\ cursor' = advance_client_cursor(cursor, {i}, message_head)
     /\ Ask(c, "get")
     /\ UNCHANGED <<netVars, messages, lastId, handling, seen, replayed, waived, author>>

\* SEND_MSG or SEND_CHAN_MSG.
Send(c) ==
  /\ Ready(c)
  /\ Ask(c, "send")
  /\ UNCHANGED <<netVars, sessions, messages, lastId, cursor, handling, seen,
                 ghostVars>>

-----------------------------------------------------------------------------
(* Frames from the radio (external: it answers in order, or not at all).   *)

\* store_message and follow_head, after insert_message: sessions of closed
\* connections are forgotten, connected clients that have caught up are moved
\* to the new message.
follow_head ==
  /\ sessions' = [c \in Clients |-> IF c \in channels THEN sessions[c] ELSE NoSession]
  /\ cursor' = advance_client_cursor(cursor,
                 Identified({c \in channels : sessions[c].pending = {}}), lastId')

\* A message arrives as the answer to a GET_MSG: cache_response stores it
\* before anybody looks at whether it is still waited for.
StoreMessage ==
  /\ handling = Idle
  /\ radio # << >> /\ Head(radio) = "get"
  /\ lastId < MaxMessages
  /\ insert_message(NoOne)
  /\ follow_head
  /\ handling' = [id |-> lastId', stage |-> "route", audience |-> Identified(channels)]
  /\ radio' = Tail(radio)
  /\ UNCHANGED <<netVars, in_flight, pending_queue, seen, ghostVars, spent>>

\* Then the message goes to the client in flight and to all the others; when
\* no GET_MSG is in flight (its request timed out) it is dropped.
RouteMessage ==
  LET id   == handling.id
      late == in_flight.cmd # "get"
      to   == IF late THEN {} ELSE Identified(channels)
  IN /\ handling.stage = "route"
     /\ seen' = [i \in Identities |-> IF i \in to THEN seen[i] \cup {id} ELSE seen[i]]
     /\ excused' = excused \cup
          {[ident |-> i, id |-> id, why |-> IF late THEN "late" ELSE "closed"] :
             i \in {j \in handling.audience \ to : late \/ cursor[j] >= id}}
     /\ IF late THEN UNCHANGED slotVars ELSE advance_queue(radio)
     /\ handling' = Idle
     /\ UNCHANGED <<netVars, sessions, messages, lastId, cursor, replayed,
                    waived, author, spent>>

\* MSG_SENT or OK: on_command_accepted echoes the message to the others (its
\* sender knows it).  Without a SEND in flight the frame is dropped.
Accepted ==
  LET to == Identified(channels)
  IN /\ handling = Idle
     /\ radio # << >> /\ Head(radio) = "send"
     /\ lastId < MaxMessages
     /\ IF in_flight.cmd = "send"
        THEN /\ handling' = [id |-> lastId + 1, stage |-> "echo", audience |-> {}]
             /\ seen' = [i \in Identities |-> IF i \in to THEN seen[i] \cup {lastId + 1}
                                              ELSE seen[i]]
        ELSE UNCHANGED <<handling, seen>>
     /\ radio' = Tail(radio)
     /\ UNCHANGED <<netVars, sessions, messages, lastId, cursor, in_flight,
                    pending_queue, ghostVars, spent>>

\* Mutant of StoreEcho: the sender is not recorded.
StoreEcho_NoOrigin ==
  /\ handling.stage = "echo"
  /\ insert_message(NoOne)
  /\ follow_head
  /\ author' = [author EXCEPT ![lastId'] = in_flight.author]
  /\ advance_queue(radio)
  /\ handling' = Idle
  /\ UNCHANGED <<netVars, seen, replayed, waived, excused, spent>>

\* The rest of synthesize_contact_echo / synthesize_channel_echo: the echo is
\* stored under the identity that sent it; then the queue moves on.
StoreEcho ==
  /\ handling.stage = "echo"
  /\ insert_message(in_flight.origin)
  /\ follow_head
  /\ author' = [author EXCEPT ![lastId'] = in_flight.author]
  /\ advance_queue(radio)
  /\ handling' = Idle
  /\ UNCHANGED <<netVars, seen, replayed, waived, excused, spent>>

\* NO_MORE_MESSAGES ends a GET_MSG, ERROR whatever is in flight.
Refused ==
  /\ handling = Idle
  /\ radio # << >>
  /\ \E code \in IF Head(radio) = "get" THEN {"none", "error"} ELSE {"error"} :
       IF in_flight.cmd = "get" \/ (code = "error" /\ in_flight # NoRequest)
       THEN advance_queue(Tail(radio))
       ELSE radio' = Tail(radio) /\ UNCHANGED <<in_flight, pending_queue>>
  /\ UNCHANGED <<netVars, sessions, messages, lastId, cursor, handling, seen,
                 ghostVars, spent>>

\* A request or its reply is lost on the way.
Silent ==
  /\ radio # << >>
  /\ radio' = Tail(radio)
  /\ UNCHANGED <<netVars, sessions, messages, lastId, cursor, in_flight,
                 pending_queue, handling, seen, ghostVars, spent>>

\* check_in_flight_timeout
Timeout ==
  /\ handling = Idle
  /\ in_flight # NoRequest
  /\ advance_queue(radio)
  /\ UNCHANGED <<netVars, sessions, messages, lastId, cursor, handling, seen,
                 ghostVars, spent>>

-----------------------------------------------------------------------------
(* Failures and maintenance.                                               *)

\* The radio connection is lost and made again: reconnect_radio fails what
\* was waiting.  The frontend closes the clients on its own (Disconnect).
LoseRadio ==
  /\ handling = Idle
  /\ Faults(excused) < MaxFaults
  /\ Spend("breaks")
  /\ in_flight' = NoRequest
  /\ pending_queue' = << >>
  /\ radio' = << >>
  /\ UNCHANGED <<netVars, sessions, messages, lastId, cursor, handling, seen,
                 ghostVars>>

\* coresplitter stops, at any point, and starts again on the same database.
\* An echo that was sent and not stored yet leaves no message: its id will be
\* that of another one.
Restart ==
  /\ Faults(excused) < MaxFaults
  /\ Spend("breaks")
  /\ channels' = {}
  /\ gone' = gone \cup channels
  /\ sessions' = [c \in Clients |-> NoSession]
  /\ in_flight' = NoRequest
  /\ pending_queue' = << >>
  /\ radio' = << >>
  /\ handling' = Idle
  /\ excused' = excused \cup
       {[ident |-> i, id |-> handling.id, why |-> "closed"] :
          i \in {j \in handling.audience : cursor[j] >= handling.id}}
  /\ seen' = [i \in Identities |->
                IF handling.stage = "echo" THEN seen[i] \ {handling.id} ELSE seen[i]]
  /\ UNCHANGED <<messages, lastId, cursor, replayed, waived, author>>

\* maintain: messages and clients past their retention are deleted.  Ages
\* come from the wall clock, which may be set back, so any may be past it.
maintain ==
  /\ handling = Idle
  /\ spent.purges < MaxPurges
  /\ \E old \in SUBSET Stored, away \in SUBSET {i \in Identities : cursor[i] # Never} :
       /\ old # {} \/ away # {}
       /\ messages' = [id \in Stored \ old |-> messages[id]]
       /\ cursor' = [i \in Identities |-> IF i \in away THEN Never ELSE cursor[i]]
       /\ replayed' = [i \in Identities |-> IF i \in away THEN {} ELSE replayed[i]]
  /\ Spend("purges")
  /\ UNCHANGED <<netVars, sessions, lastId, slotVars, handling, seen, waived,
                 author, excused>>

-----------------------------------------------------------------------------
Init ==
  /\ channels = {}
  /\ gone = {}
  /\ sessions = [c \in Clients |-> NoSession]
  /\ messages = << >>
  /\ lastId = 0
  /\ cursor = [i \in Identities |-> Never]
  /\ in_flight = NoRequest
  /\ pending_queue = << >>
  /\ radio = << >>
  /\ handling = Idle
  /\ seen = [i \in Identities |-> {}]
  /\ replayed = [i \in Identities |-> {}]
  /\ waived = [i \in Identities |-> {}]
  /\ author = [id \in 1 .. MaxMessages |-> NoOne]
  /\ excused = {}
  /\ spent = [commands |-> 0, purges |-> 0, breaks |-> 0]

Next ==
  \/ \E c \in Clients : \/ Connect(c) \/ Disconnect(c)
                        \/ Replay(c) \/ AskRadio(c) \/ Send(c)
  \/ \E c \in Clients, i \in Identities : register_session(c, i)
  \/ StoreMessage \/ RouteMessage \/ Accepted \/ StoreEcho \/ Refused
  \/ Silent \/ Timeout
  \/ LoseRadio \/ Restart \/ maintain

Spec == Init /\ [][Next]_vars

-----------------------------------------------------------------------------
(* Properties.                                                             *)

Request == [client : Clients, cmd : {"get", "send"},
            origin : Identities \cup {NoOne}, author : Identities \cup {NoOne}]

\* Every variable has its type, and no cursor is ahead of the ids given out:
\* a message yet to come is never counted as served.
TypeOK ==
  /\ channels \subseteq Clients
  /\ gone \subseteq Clients \ channels
  /\ \A c \in Clients :
       /\ sessions[c].ident \in Identities \cup {NoOne}
       /\ sessions[c].pending \subseteq 1 .. lastId
  /\ lastId \in Nat
  /\ Stored \subseteq 1 .. lastId
  /\ \A id \in Stored : messages[id] \in Identities \cup {NoOne}
  /\ \A i \in Identities : cursor[i] \in Never .. lastId
  /\ in_flight \in Request \cup {NoRequest}
  /\ pending_queue \in Seq(Request)
  /\ radio \in Seq({"get", "send"})
  /\ handling.stage \in {"idle", "route", "echo"}

\* The message was sent to a connection of the identity or is the identity's
\* own, or the identity was not owed it.
Served(i, id) == id \in seen[i] \cup waived[i] \/ messages[id] = i

Excused(i, id, whys) == \E why \in whys : [ident |-> i, id |-> id, why |-> why] \in excused

\* Whatever an identity's cursor has passed, it got: nothing is skipped by two
\* connections of one identity, purges, restarts or the jump to the head when
\* it has caught up.  Three exceptions: the reply came when nobody asked any
\* more, every connection of the identity closed between store_message and
\* the sending, or the database could not be read.
NothingMissed ==
  handling = Idle =>
    \A i \in Identities, id \in Stored :
      id <= cursor[i] => Served(i, id) \/ Excused(i, id, {"late", "closed", "unread"})

\* A message replayed to an identity is not replayed to a later session of it,
\* as long as the clients table remembers the identity.
OnlyOnce ==
  [][\A c \in Clients : LET i == sessions'[c].ident IN
       sessions[c].ident = NoOne /\ i # NoOne /\ cursor[i] # Never =>
         sessions'[c].pending \cap replayed[i] = {}]_vars

\* No message is replayed to the identity that asked to send it, from the
\* command over the queue, the radio's answer and the database to a later
\* connection (README: "Its own messages are never replayed to it").
NotEchoed ==
  \A c \in Clients, id \in 1 .. MaxMessages :
    id \in sessions[c].pending \cap Stored /\ author[id] # NoOne =>
      author[id] # sessions[c].ident

\* A cursor moves forward only, until maintenance forgets the identity, though
\* two connections of one identity catch up at their own pace.
CursorForward ==
  [][\A i \in Identities : cursor'[i] >= cursor[i] \/ cursor'[i] = Never]_vars

\* core.rs:1115 claims of store_message: the clients whose cursor it advances
\* got the message live, or sent it (connections that close meanwhile aside).
GotItLiveOrSentIt ==
  handling = Idle =>
    \A i \in Identities, id \in Stored :
      id <= cursor[i] => Served(i, id) \/ Excused(i, id, {"closed", "unread"})

=============================================================================
