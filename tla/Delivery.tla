------------------------------ MODULE Delivery ------------------------------
(***************************************************************************)
(* The way out: what the core hands to its clients and what each of them   *)
(* reads on its socket.  A client has a channel of its own for replies and *)
(* messages (unbounded) and a place in the broadcast channel of the pushes *)
(* (bounded: who falls behind skips).  A write task takes from both, in no *)
(* fixed order, and is aborted when the connection closes.                 *)
(*                                                                         *)
(* Tasks run in parallel: a connection may close between any two frames    *)
(* the core sends, also in the middle of reconnect_radio.  Of the requests *)
(* only who waits for an answer is kept (module Requests has the rest).    *)
(***************************************************************************)
EXTENDS Naturals, Sequences, SequencesExt

CONSTANTS
  Clients,      \* TCP connections; a ClientId is never reused
  Versions,     \* protocol versions the clients ask for; 0 is none yet
  Capacity,     \* of the broadcast channel (256 in Core::new)
  MaxCommands,  \* bound: commands of clients
  MaxPushes,    \* bound: pushes
  MaxLosses     \* bound: losses of the radio

ASSUME CapacityAssumption == Capacity \in Nat \ {0}
ASSUME VersionsAssumption == Versions \subseteq Nat \ {0}
ASSUME PushesAssumption == MaxPushes \in Nat

VARIABLES
  conn,               \* "new", "open", "closed"
  direct,             \* client_channels: what is yet to be written
  pushes, pos,        \* pushes broadcast, and how far each receiver is
  got,                \* what the client was sent on its socket
  protocol_versions,
  waiting,            \* in_flight and pending_queue: requests to answer
  radio_up,
  failing,            \* reconnect_radio is failing the requests
  joined,             \* history: pushes broadcast before the connection
  lagged,             \* history: the receiver has skipped pushes
  fanned,             \* history: messages fanned out while connected
  spent               \* commands and losses used up

outVars   == <<pushes, pos, got, joined, lagged>>
vars == <<conn, direct, pushes, pos, got, protocol_versions, waiting, radio_up,
          failing, joined, lagged, fanned, spent>>

Open == {c \in Clients : conn[c] = "open"}

Spend(what) == spent' = [spent EXCEPT ![what] = @ + 1]

\* A frame: kind, which request, message or push it is about, layout.
Frame(kind, id, layout) == [kind |-> kind, id |-> id, layout |-> layout]

-----------------------------------------------------------------------------
(* Sending.                                                                *)

Layout(version) == IF version >= 3 THEN "v3" ELSE "v1"

\* Messages take the layout the client asked for, other frames have none.
message_frame_for(version, frame) ==
  IF frame.layout = "none" THEN frame ELSE [frame EXCEPT !.layout = Layout(version)]

protocol_version(c) == protocol_versions[c]

\* send_to_client and broadcast_to_others at once: frame goes to the clients
\* in to that are connected.
Send(to, frame) ==
  direct' = [c \in Clients |->
               IF c \in to \cap Open
               THEN Append(direct[c], message_frame_for(protocol_version(c), frame))
               ELSE direct[c]]

\* Mutant of broadcast_to_others: frames are fanned out as they came.
broadcast_to_others_AsIs(c, frame) ==
  direct' = [d \in Clients |->
               IF d = c /\ d \in Open
               THEN Append(direct[d], message_frame_for(protocol_version(d), frame))
               ELSE IF d \in Open THEN Append(direct[d], frame) ELSE direct[d]]

\* Mutant of broadcast_to_others: the client that asked is not left out.
broadcast_to_others_ToAll(c, frame) ==
  direct' = [d \in Clients |->
               LET own == message_frame_for(protocol_version(d), frame)
               IN IF d \notin Open THEN direct[d]
                  ELSE IF d = c THEN direct[d] \o <<own, own>> ELSE Append(direct[d], own)]

\* A message that answers c's GET_MSG goes to c and then to the others.
broadcast_to_others(c, frame) == Send({c} \cup Clients, frame)

-----------------------------------------------------------------------------
(* Connections.                                                            *)

\* The frontend accepts, subscribes to the pushes and registers the channel.
Connect(c) ==
  /\ conn[c] = "new" /\ radio_up
  /\ conn' = [conn EXCEPT ![c] = "open"]
  /\ pos' = [pos EXCEPT ![c] = pushes]
  /\ joined' = [joined EXCEPT ![c] = pushes]
  /\ UNCHANGED <<direct, pushes, got, protocol_versions, waiting, radio_up, failing,
                 lagged, fanned, spent>>

\* Mutant of Close: the channel outlives the connection.
Close_KeepsChannel(c) ==
  /\ conn' = [conn EXCEPT ![c] = "closed"]
  /\ UNCHANGED <<direct, outVars, protocol_versions, waiting, radio_up, failing, fanned, spent>>

\* handle_client ends: the halves are aborted, what was not written is lost.
Close(c) ==
  /\ conn' = [conn EXCEPT ![c] = "closed"]
  /\ direct' = [direct EXCEPT ![c] = << >>]
  /\ UNCHANGED <<outVars, protocol_versions, waiting, radio_up, failing, fanned, spent>>

Leave(c) == conn[c] = "open" /\ Close(c)

\* The handler sees radio_up go down, maybe before the ERRORs of FailNext are
\* sent or written: these are lost with the rest.
CloseForRadio(c) ==
  /\ conn[c] = "open" /\ ~radio_up
  /\ Close(c)

\* The write task takes a frame of the client's own channel ...
WriteDirect(c) ==
  /\ conn[c] = "open" /\ direct[c] # << >>
  /\ got' = [got EXCEPT ![c] = Append(@, Head(direct[c]))]
  /\ direct' = [direct EXCEPT ![c] = Tail(@)]
  /\ UNCHANGED <<conn, pushes, pos, protocol_versions, waiting, radio_up, failing,
                 joined, lagged, fanned, spent>>

\* Mutant of WritePush: a push received while a reply is ready is dropped.
WritePush_Cancelled(c) ==
  /\ conn[c] = "open" /\ pos[c] < pushes
  /\ IF pushes - pos[c] > Capacity
     THEN /\ pos' = [pos EXCEPT ![c] = pushes - Capacity]
          /\ lagged' = [lagged EXCEPT ![c] = TRUE]
          /\ UNCHANGED got
     ELSE /\ pos' = [pos EXCEPT ![c] = @ + 1]
          /\ got' = IF direct[c] = << >>
                    THEN [got EXCEPT ![c] = Append(@, Frame("push", pos'[c], "none"))]
                    ELSE got
          /\ UNCHANGED lagged
  /\ UNCHANGED <<conn, direct, pushes, protocol_versions, waiting, radio_up, failing,
                 joined, fanned, spent>>

\* ... or a push.  A receiver more than Capacity behind is told so and goes on
\* with the oldest push there is.
WritePush(c) ==
  /\ conn[c] = "open" /\ pos[c] < pushes
  /\ IF pushes - pos[c] > Capacity
     THEN /\ pos' = [pos EXCEPT ![c] = pushes - Capacity]
          /\ lagged' = [lagged EXCEPT ![c] = TRUE]
          /\ UNCHANGED got
     ELSE /\ pos' = [pos EXCEPT ![c] = @ + 1]
          /\ got' = [got EXCEPT ![c] = Append(@, Frame("push", pos'[c], "none"))]
          /\ UNCHANGED lagged
  /\ UNCHANGED <<conn, direct, pushes, protocol_versions, waiting, radio_up, failing,
                 joined, fanned, spent>>

-----------------------------------------------------------------------------
(* The core.                                                               *)

Ready(c) == c \in Open /\ ~failing /\ spent.commands < MaxCommands

\* A command that needs the radio; the request is known by its number.
Ask(c) ==
  /\ Ready(c)
  /\ Spend("commands")
  /\ waiting' = Append(waiting, [client |-> c, id |-> spent.commands + 1, version |-> 0])
  /\ UNCHANGED <<conn, direct, outVars, protocol_versions, radio_up, failing, fanned>>

\* DEVICE_QUERY: the version is recorded, and the answer comes from the cache
\* or later from the radio.  An app sticks to one version.
Negotiate(c, version) ==
  /\ Ready(c)
  /\ protocol_versions[c] \in {0, version}
  /\ Spend("commands")
  /\ protocol_versions' = [protocol_versions EXCEPT ![c] = version]
  /\ \/ Send({c}, Frame("info", version, "none")) /\ UNCHANGED waiting
     \/ /\ waiting' = Append(waiting, [client |-> c, id |-> spent.commands + 1,
                                       version |-> version])
        /\ UNCHANGED direct
  /\ UNCHANGED <<conn, outVars, radio_up, failing, fanned>>

\* GET_MSG answered with a message the client missed, stored in either layout.
ReplayMissed(c) ==
  /\ Ready(c)
  /\ Spend("commands")
  /\ \E layout \in {"v1", "v3"} : Send({c}, Frame("missed", 0, layout))
  /\ UNCHANGED <<conn, outVars, protocol_versions, waiting, radio_up, failing, fanned>>

Oldest == Head(waiting)

\* The radio answers with a message (to a GET_MSG): everybody gets it.
AnswerMessage ==
  /\ waiting # << >> /\ ~failing
  /\ Oldest.version = 0
  /\ \E layout \in {"v1", "v3"} :
       broadcast_to_others(Oldest.client, Frame("message", Oldest.id, layout))
  /\ fanned' = [c \in Clients |-> IF c \in Open THEN fanned[c] \cup {Oldest.id} ELSE fanned[c]]
  /\ waiting' = Tail(waiting)
  /\ UNCHANGED <<conn, outVars, protocol_versions, radio_up, failing, spent>>

\* Any other answer, or the ERROR of a timeout, goes to the one who asked.
AnswerOther ==
  /\ waiting # << >> /\ ~failing
  /\ \E frame \in {Frame("error", Oldest.id, "none"),
                   IF Oldest.version = 0 THEN Frame("reply", Oldest.id, "none")
                   ELSE Frame("info", Oldest.version, "none")} : Send({Oldest.client}, frame)
  /\ waiting' = Tail(waiting)
  /\ UNCHANGED <<conn, outVars, protocol_versions, radio_up, failing, fanned, spent>>

Push ==
  /\ ~failing /\ pushes < MaxPushes
  /\ pushes' = pushes + 1
  /\ UNCHANGED <<conn, direct, pos, got, protocol_versions, waiting, radio_up, failing,
                 joined, lagged, fanned, spent>>

\* reconnect_radio: the frontend is told first ...
LoseRadio ==
  /\ radio_up /\ ~failing /\ spent.losses < MaxLosses
  /\ Spend("losses")
  /\ radio_up' = FALSE
  /\ failing' = TRUE
  /\ UNCHANGED <<conn, direct, outVars, protocol_versions, waiting, fanned>>

\* ... and then the requests are failed, one by one.
FailNext ==
  /\ failing /\ waiting # << >>
  /\ Send({Oldest.client}, Frame("error", Oldest.id, "none"))
  /\ waiting' = Tail(waiting)
  /\ UNCHANGED <<conn, outVars, protocol_versions, radio_up, failing, fanned, spent>>

RadioBack ==
  /\ failing /\ waiting = << >>
  /\ failing' = FALSE
  /\ radio_up' = TRUE
  /\ UNCHANGED <<conn, direct, outVars, protocol_versions, waiting, fanned, spent>>

-----------------------------------------------------------------------------
Init ==
  /\ conn = [c \in Clients |-> "new"]
  /\ direct = [c \in Clients |-> << >>]
  /\ pushes = 0
  /\ pos = [c \in Clients |-> 0]
  /\ got = [c \in Clients |-> << >>]
  /\ protocol_versions = [c \in Clients |-> 0]
  /\ waiting = << >>
  /\ radio_up = TRUE
  /\ failing = FALSE
  /\ joined = [c \in Clients |-> 0]
  /\ lagged = [c \in Clients |-> FALSE]
  /\ fanned = [c \in Clients |-> {}]
  /\ spent = [commands |-> 0, losses |-> 0]

Next ==
  \/ \E c \in Clients :
       \/ Connect(c) \/ Leave(c) \/ CloseForRadio(c)
       \/ WriteDirect(c) \/ WritePush(c)
       \/ Ask(c) \/ ReplayMissed(c)
       \/ \E version \in Versions : Negotiate(c, version)
  \/ AnswerMessage \/ AnswerOther \/ Push
  \/ LoseRadio \/ FailNext \/ RadioBack

Spec == Init /\ [][Next]_vars

-----------------------------------------------------------------------------
(* Properties.                                                             *)

\* All that was put on the client's way, in the order it reads or will read it.
Way(c) == got[c] \o direct[c]

\* Every variable has its type; a receiver is never ahead of the pushes, and
\* nothing waits for a connection that is not open.
TypeOK ==
  /\ conn \in [Clients -> {"new", "open", "closed"}]
  /\ \A c \in Clients : direct[c] # << >> => conn[c] = "open"
  /\ pushes \in 0 .. MaxPushes
  /\ \A c \in Clients : pos[c] \in joined[c] .. pushes
  /\ protocol_versions \in [Clients -> {0} \cup Versions]
  /\ \A r \in ToSet(waiting) : r.client \in Clients \ {c \in Clients : conn[c] = "new"}
  /\ radio_up \in BOOLEAN /\ failing \in BOOLEAN

\* A message the client reads after its DEVICE_INFO has the layout it asked
\* for, however messages, replays and negotiations of several clients
\* interleave and whoever answers the DEVICE_QUERY.
NegotiatedLayout ==
  \A c \in Clients : \A i, j \in DOMAIN Way(c) :
    i < j /\ Way(c)[i].kind = "info" /\ Way(c)[j].layout # "none" =>
      Way(c)[j].layout = Layout(Way(c)[i].id)

\* A message the radio handed out reaches every connected client exactly once,
\* the one that asked for it included, also a client that lags behind the
\* pushes (README: "the proxy fans it out to the rest").
MessageOnce ==
  \A c \in Open : \A id \in 1 .. spent.commands :
    LET copies == {i \in DOMAIN Way(c) : Way(c)[i].kind = "message" /\ Way(c)[i].id = id}
    IN IF id \in fanned[c] THEN \E i \in copies : copies = {i} ELSE copies = {}

\* Pushes come in the order of the radio, none twice, and without a gap unless
\* the client was more than Capacity behind.
PushesInOrder ==
  \A c \in Open :
    LET read == {i \in DOMAIN got[c] : got[c][i].kind = "push"}
    IN /\ \A i, j \in read : i < j => got[c][i].id < got[c][j].id
       /\ ~lagged[c] => \A n \in joined[c] + 1 .. pos[c] : \E i \in read : got[c][i].id = n

=============================================================================
