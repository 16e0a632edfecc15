------------------------------- MODULE Mirror -------------------------------
(***************************************************************************)
(* The cache against the radio it mirrors: contacts and channels (SQLite), *)
(* SELF_INFO, DEVICE_INFO and BATTERY (in memory, with a copy in kv_store). *)
(* An entry is the head of the frame it answers with, as in Protocol; its  *)
(* content is a version number, 0 when there is none.                      *)
(*                                                                         *)
(* Of the multiplexer only the order of things is kept: one request in     *)
(* flight, the others queued.  Commands travel to the radio and frames     *)
(* back in order; a request that times out leaves both on their way.       *)
(* Whether a command of a client is answered from the cache or asked of    *)
(* the radio is ServedFromCache; the clients themselves, whose queued      *)
(* commands are dropped when they leave, are not modelled.                 *)
(***************************************************************************)
EXTENDS Protocol, Sequences, FiniteSets, SequencesExt

CONSTANTS
  Contacts,         \* public keys
  Held,             \* those in the radio's table to begin with
  Channels,         \* indices below max_channels
  Commands,         \* commands [code, arg] the clients send
  Retention,        \* contacts retention, in units of the clock
  MaxVersions,      \* bound: changes of what the radio holds
  MaxReads,         \* bound: queries of clients that reach the radio
  MaxTime,          \* bound: the clock
  MaxMaintenance,   \* bound: runs of the daily maintenance
  MaxLosses,        \* bound: reconnections and restarts
  MaxTimeouts,      \* bound: requests that time out
  MaxRefusals       \* bound: ERROR for a REMOVE_CONTACT of a held contact

ASSUME ContactsAssumption == IsFiniteSet(Contacts) /\ Held \subseteq Contacts
ASSUME ChannelsAssumption == IsFiniteSet(Channels)
ASSUME RetentionAssumption == Retention \in Nat \ {0}
ASSUME BoundsAssumption == MaxVersions \in Nat /\ MaxTime \in Nat

\* What this module has a radio for: lists, the queries the cache can answer,
\* and commands that change an entry.
ASSUME CommandsAssumption ==
  \A cmd \in Commands :
    /\ cmd = [code |-> cmd.code, arg |-> cmd.arg]
    /\ \/ cmd.code = GetContacts
       \/ cmd.code \in {AppStart, DeviceQuery, GetBattery, SetName} /\ cmd.arg = NoArg
       \/ cmd.code \in {GetChannel, SetChannel} /\ cmd.arg \in Channels
       \/ cmd.code \in {UpdateContact, RemoveContact, ImportContact} /\ cmd.arg \in Contacts

VARIABLES
  radio,        \* what the radio holds, per entry
  cache,        \* what would be served, per entry
  kv,           \* kv_store's copies of the blobs
  seen_at,      \* contacts table: when the row was written
  synced_at,    \* kv_store: contacts_synced_at, Never without one
  radio_name,   \* the name given to channel echoes, as a version of SELF_INFO
  in_flight, pending_queue,
  line,         \* commands on their way to the radio
  wire,         \* frames on their way back
  clock,        \* chrono::Utc::now(), in coarse units
  version,      \* the last version number given out
  removed,      \* history: contacts the radio removed on command
  since,        \* history: when the radio got a contact
  doubt,        \* history: a timeout or refusal, not yet followed by a resync
  spent         \* what the environment has used of its bounds

cacheVars == <<cache, kv, seen_at, synced_at, radio_name>>
radioVars == <<radio, version, removed, since>>
slotVars  == <<in_flight, pending_queue>>
vars == <<radio, cache, kv, seen_at, synced_at, radio_name, in_flight,
          pending_queue, line, wire, clock, version, removed, since, doubt, spent>>

Entry(code, arg) == [code |-> code, arg |-> arg]
SelfEntry        == Entry(SelfInfo, NoArg)
BatteryEntry     == Entry(Battery, NoArg)
ContactEntry(k)  == Entry(Contact, k)
ContactEntries   == {ContactEntry(k) : k \in Contacts}
ChannelEntries   == {Entry(ChannelInfo, i) : i \in Channels}
Entries          == ContactEntries \cup ChannelEntries \cup Blobs

Never == -1
Spend(what) == spent' = [spent EXCEPT ![what] = @ + 1]

\* What can be served, and whether it has contact k.
Cached == {e \in Entries : cache[e] # 0}
Holds(k) == radio[ContactEntry(k)] # 0

-----------------------------------------------------------------------------
(* The queue.                                                              *)

NoRequest == [cmd |-> Entry(0, NoArg), val |-> 0, own |-> TRUE, sent |-> Never]
Request(cmd, val)  == [cmd |-> cmd, val |-> val, own |-> FALSE, sent |-> Never]
Own(cmd)           == [cmd |-> cmd, val |-> 0, own |-> TRUE, sent |-> Never]

\* Mutant of dispatch_to_radio: the time of sending is not recorded.
dispatch_to_radio_NoTime(request, held, way) ==
  /\ in_flight' = request
  /\ line' = Append(way, request)
  /\ cache' = [e \in Entries |-> IF e \in EvictedBy(request.cmd) THEN 0 ELSE held[e]]

\* Mutant of dispatch_to_radio: setters leave the cache alone.
dispatch_to_radio_KeepsCache(request, held, way) ==
  /\ in_flight' = [request EXCEPT !.sent = clock]
  /\ line' = Append(way, request)
  /\ cache' = held

\* The entries the command may change are dropped as it is sent.  held is the
\* cache at that point, way what is already on the line.
dispatch_to_radio(request, held, way) ==
  /\ in_flight' = [request EXCEPT !.sent = clock]
  /\ line' = Append(way, request)
  /\ cache' = [e \in Entries |-> IF e \in EvictedBy(request.cmd) THEN 0 ELSE held[e]]

\* The next request in queue, skipping those of clients that have left.
advance_queue(queue, held) ==
  \E n \in 1 .. Len(queue) + 1 :
    /\ \A i \in 1 .. n - 1 : ~queue[i].own
    /\ pending_queue' = SubSeq(queue, n + 1, Len(queue))
    /\ IF n <= Len(queue)
       THEN dispatch_to_radio(queue[n], held, line)
       ELSE in_flight' = NoRequest /\ cache' = held /\ UNCHANGED line

enqueue_or_dispatch(request) ==
  IF in_flight = NoRequest
  THEN dispatch_to_radio(request, cache, line) /\ UNCHANGED pending_queue
  ELSE /\ pending_queue' = Append(pending_queue, request)
       /\ UNCHANGED <<in_flight, line, cache>>

-----------------------------------------------------------------------------
(* Commands of clients.                                                    *)

Queried == {GetContacts, GetChannel, AppStart, DeviceQuery, GetBattery}

\* A query the cache cannot answer.
Query(cmd) ==
  /\ cmd.code \in Queried
  /\ ~ServedFromCache(Cached, cmd)
  /\ spent.reads < MaxReads
  /\ Spend("reads")
  /\ enqueue_or_dispatch(Request(cmd, 0))
  /\ UNCHANGED <<radioVars, kv, seen_at, synced_at, radio_name, wire, clock, doubt>>

\* A command that changes something, to a value nobody has seen before.
Change(cmd) ==
  /\ cmd.code \notin Queried
  /\ version < MaxVersions
  /\ version' = version + 1
  /\ enqueue_or_dispatch(Request(cmd, version'))
  /\ UNCHANGED <<radio, removed, since, kv, seen_at, synced_at, radio_name, wire,
                 clock, doubt, spent>>

-----------------------------------------------------------------------------
(* Frames from the radio.                                                  *)

\* cache_response: whatever the frame answers, it is kept.
cache_response(frame) ==
  LET e == Entry(frame.code, frame.arg)
  IN IF frame.code \in CachedCodes THEN [cache EXCEPT ![e] = frame.val] ELSE cache

\* Mutant of EndsFullSync: a list cut short by "since" counts.
EndsFullSync_AnyList(cmd) == cmd.code = GetContacts

\* The unfiltered GET_CONTACTS, payload.len() == 1.
EndsFullSync(cmd) == cmd = FullSync

\* Mutant of PushRefresh: a contact that changed is not read again.
PushRefresh_None(frame) == << >>

\* ADVERTISEMENT and PATH_UPDATE name a contact that changed on the radio.
PushRefresh(frame) ==
  IF frame.code \in {Advertisement, PathUpdate} THEN <<Own(ContactSync(frame.arg))>>
  ELSE << >>

\* Mutant of Kick: the refresh waits for the next request.
Kick_Never(frame) == FALSE

\* A push that found the radio idle sends the refresh it queued.
Kick(frame) == in_flight = NoRequest /\ PushRefresh(frame) # << >>

\* extract_radio_identity, and SET_ADVERT_NAME in on_command_accepted.
NameAfter(frame, accepted) ==
  CASE frame.code = SelfInfo                       -> frame.val
    [] accepted /\ in_flight.cmd.code = SetName    -> in_flight.val
    [] OTHER                                       -> radio_name

\* handle_radio_rx: cache, then route to the request in flight, which may be
\* another than the one the frame answers; what it accepted is acted upon.
handle_radio_rx ==
  LET frame    == Head(wire)
      e        == Entry(frame.code, frame.arg)
      cmd      == in_flight.cmd
      awaiting == awaiting_for(cmd)
      mine     == in_flight # NoRequest /\ Belongs(awaiting, frame.code)
      done     == mine /\ Completes(awaiting, frame.code)
      accepted == done /\ frame.code # Error
      refresh  == CASE accepted -> [i \in 1 .. Len(RefreshAfter(cmd)) |->
                                      Own(RefreshAfter(cmd)[i])]
                    [] ~mine    -> PushRefresh(frame)
                    [] OTHER    -> << >>
      queue    == pending_queue \o refresh
  IN /\ wire # << >>
     /\ wire' = Tail(wire)
     /\ IF done \/ (~mine /\ Kick(frame))
        THEN advance_queue(queue, cache_response(frame))
        ELSE /\ cache' = cache_response(frame)
             /\ pending_queue' = queue
             /\ UNCHANGED <<in_flight, line>>
     /\ kv' = IF e \in Blobs THEN [kv EXCEPT ![e] = frame.val] ELSE kv
     /\ seen_at' = IF frame.code = Contact THEN [seen_at EXCEPT ![frame.arg] = clock]
                   ELSE seen_at
     /\ synced_at' = IF accepted /\ EndsFullSync(cmd) THEN in_flight.sent ELSE synced_at
     /\ radio_name' = NameAfter(frame, accepted)
     /\ UNCHANGED <<radioVars, clock, doubt, spent>>

\* check_in_flight_timeout.  The radio may yet answer.
Timeout ==
  /\ in_flight # NoRequest
  /\ spent.timeouts < MaxTimeouts
  /\ Spend("timeouts")
  /\ doubt' = TRUE
  /\ advance_queue(pending_queue, cache)
  /\ UNCHANGED <<radioVars, kv, seen_at, synced_at, radio_name, wire, clock>>

-----------------------------------------------------------------------------
(* Maintenance, reconnection, restart.                                     *)

\* Mutant of PurgeBefore: the age alone decides.
PurgeBefore_Age == IF synced_at = Never THEN Never ELSE clock - Retention

\* maintain: contacts missing from the last full sync and past the retention.
PurgeBefore ==
  CASE synced_at = Never               -> Never
    [] synced_at < clock - Retention   -> synced_at
    [] OTHER                           -> clock - Retention

\* The daily run keeps the sync fresh and then purges, without waiting for it.
run_maintenance ==
  LET asked  == \E r \in {in_flight} \cup ToSet(pending_queue) : r.cmd = FullSync
      purged == [e \in Entries |-> IF e \in ContactEntries /\ seen_at[e.arg] < PurgeBefore
                                   THEN 0 ELSE cache[e]]
      queue  == IF asked THEN pending_queue ELSE Append(pending_queue, Own(FullSync))
  IN /\ spent.maintenance < MaxMaintenance
     /\ Spend("maintenance")
     /\ IF in_flight = NoRequest
        THEN advance_queue(queue, purged)
        ELSE pending_queue' = queue /\ cache' = purged /\ UNCHANGED <<in_flight, line>>
     /\ UNCHANGED <<radioVars, kv, seen_at, synced_at, radio_name, wire, clock, doubt>>

Greeted == {SelfEntry, Entry(DeviceInfo, NoArg)}

\* The connection is new: the handshake has read SELF_INFO and DEVICE_INFO,
\* and sync_from_radio has sent the first of its requests.
Connect(held) ==
  /\ cache' = [e \in Entries |-> IF e \in Greeted THEN radio[e] ELSE held[e]]
  /\ kv' = [e \in Blobs |-> IF e \in Greeted THEN radio[e] ELSE kv[e]]
  /\ radio_name' = radio[SelfEntry]
  /\ in_flight' = [Own(FullSync) EXCEPT !.sent = clock]
  /\ line' = <<Own(FullSync)>>
  /\ wire' = << >>

sync_from_radio ==
  pending_queue' = [i \in 1 .. Cardinality(Channels) |->
                      Own(ChannelSync(SetToSeq(Channels)[i]))]

\* The connection is lost with all that was on its way; after a restart the
\* blob the handshake does not read comes from kv_store.
Reconnect(restart) ==
  /\ spent.losses < MaxLosses
  /\ Spend("losses")
  /\ Connect(IF restart THEN [cache EXCEPT ![BatteryEntry] = kv[BatteryEntry]] ELSE cache)
  /\ sync_from_radio
  /\ doubt' = FALSE
  /\ removed' = IF doubt THEN {} ELSE removed
  /\ UNCHANGED <<radio, version, since, seen_at, synced_at, clock>>

-----------------------------------------------------------------------------
(* The radio (external): it carries out the commands in order, and changes *)
(* on its own.                                                             *)

Frame(code, arg, val) == [code |-> code, arg |-> arg, val |-> val]
Reply(code)           == Frame(code, NoArg, 0)
FrameOf(e)            == Frame(e.code, e.arg, radio[e])

Answer(frames) == wire' = wire \o frames

\* What the radio knows under entry e becomes val.
Learn(e, val) ==
  /\ radio' = [radio EXCEPT ![e] = val]
  /\ removed' = removed \ {e.arg}
  /\ since' = IF e.code = Contact /\ radio[e] = 0
              THEN [since EXCEPT ![e.arg] = clock] ELSE since

Target(cmd) ==
  CASE cmd.code = SetName       -> SelfEntry
    [] cmd.code = SetChannel    -> Entry(ChannelInfo, cmd.arg)
    [] OTHER                    -> ContactEntry(cmd.arg)

\* GET_CONTACTS, all of them or those after "since".
SendContacts(cmd) ==
  /\ cmd.code = GetContacts
  /\ \E some \in SUBSET {e \in ContactEntries : radio[e] # 0} :
       /\ cmd = FullSync => some = {e \in ContactEntries : radio[e] # 0}
       /\ Answer([i \in 1 .. Cardinality(some) |-> FrameOf(SetToSeq(some)[i])]
                 \o <<Reply(ContactEnd)>>)
  /\ UNCHANGED <<radio, removed, since, doubt, spent>>

\* The other queries.  A contact it does not hold is an ERROR.
SendEntry(cmd) ==
  /\ \E q \in Queries :
       LET e == Entry(q[2], cmd.arg)
       IN /\ q[1] = cmd.code
          /\ Answer(<<IF radio[e] = 0 THEN Reply(Error) ELSE FrameOf(e)>>)
  /\ UNCHANGED <<radio, removed, since, doubt, spent>>

Obey(cmd, val) ==
  /\ cmd.code \in OkCommands
  /\ IF cmd.code = RemoveContact
     THEN IF radio[Target(cmd)] = 0
          THEN Answer(<<Reply(Error)>>) /\ UNCHANGED <<radio, removed, since>>
          ELSE /\ Answer(<<Reply(Ok)>>)
               /\ radio' = [radio EXCEPT ![Target(cmd)] = 0]
               /\ removed' = removed \cup {cmd.arg}
               /\ UNCHANGED since
     ELSE Answer(<<Reply(Ok)>>) /\ Learn(Target(cmd), val)
  /\ UNCHANGED <<doubt, spent>>

Refuse(cmd) ==
  /\ cmd.code \in OkCommands
  /\ spent.refusals < MaxRefusals
  /\ Spend("refusals")
  /\ doubt' = (doubt \/ cmd.code = RemoveContact)
  /\ Answer(<<Reply(Error)>>)
  /\ UNCHANGED <<radio, removed, since>>

RadioStep ==
  /\ line # << >>
  /\ line' = Tail(line)
  /\ LET request == Head(line)
     IN \/ SendContacts(request.cmd) \/ SendEntry(request.cmd)
        \/ Obey(request.cmd, request.val) \/ Refuse(request.cmd)
  /\ UNCHANGED <<version, cacheVars, slotVars, clock>>

\* An advert of a contact is heard, for the first time or again.
RadioHears(k) ==
  /\ version < MaxVersions
  /\ version' = version + 1
  /\ Learn(ContactEntry(k), version')
  /\ Answer(<<Frame(Advertisement, k, 0)>>)
  /\ UNCHANGED <<cacheVars, slotVars, line, clock, doubt, spent>>

\* A contact gives way to another, or is lost in a reset.
RadioForgets(k) ==
  /\ version < MaxVersions /\ Holds(k)
  /\ version' = version + 1
  /\ radio' = [radio EXCEPT ![ContactEntry(k)] = 0]
  /\ UNCHANGED <<removed, since, cacheVars, slotVars, line, wire, clock, doubt, spent>>

\* The battery drains.
RadioDrains ==
  /\ version < MaxVersions
  /\ version' = version + 1
  /\ radio' = [radio EXCEPT ![BatteryEntry] = version']
  /\ UNCHANGED <<removed, since, cacheVars, slotVars, line, wire, clock, doubt, spent>>

Tick ==
  /\ clock < MaxTime
  /\ clock' = clock + 1
  /\ UNCHANGED <<radioVars, cacheVars, slotVars, line, wire, doubt, spent>>

-----------------------------------------------------------------------------
\* The first connection, on an empty database.
Init ==
  /\ radio = [e \in Entries |-> IF e \in ContactEntries /\ e.arg \notin Held THEN 0 ELSE 1]
  /\ cache = [e \in Entries |-> IF e \in Greeted THEN 1 ELSE 0]
  /\ kv = [e \in Blobs |-> IF e \in Greeted THEN 1 ELSE 0]
  /\ seen_at = [k \in Contacts |-> 0]
  /\ synced_at = Never
  /\ radio_name = 1
  /\ in_flight = [Own(FullSync) EXCEPT !.sent = 0]
  /\ pending_queue = [i \in 1 .. Cardinality(Channels) |->
                        Own(ChannelSync(SetToSeq(Channels)[i]))]
  /\ line = <<Own(FullSync)>>
  /\ wire = << >>
  /\ clock = 0
  /\ version = 1
  /\ removed = {}
  /\ since = [k \in Contacts |-> 0]
  /\ doubt = FALSE
  /\ spent = [reads |-> 0, maintenance |-> 0, losses |-> 0, timeouts |-> 0,
              refusals |-> 0]

Next ==
  \/ \E cmd \in Commands : Query(cmd) \/ Change(cmd)
  \/ handle_radio_rx \/ Timeout \/ run_maintenance
  \/ \E restart \in BOOLEAN : Reconnect(restart)
  \/ RadioStep
  \/ \E k \in Contacts : RadioHears(k) \/ RadioForgets(k)
  \/ RadioDrains \/ Tick

Spec == Init /\ [][Next]_vars

\* The core handles what it receives, and the radio what it is sent.
FairSpec == Spec /\ WF_vars(handle_radio_rx) /\ WF_vars(RadioStep)

-----------------------------------------------------------------------------
(* Properties.                                                             *)

Requests == [cmd : {FullSync} \cup {ContactSync(k) : k \in Contacts}
                   \cup {ChannelSync(i) : i \in Channels} \cup Commands,
             val : 0 .. MaxVersions, own : BOOLEAN, sent : Never .. MaxTime]

\* Every variable has its type; nothing is cached that the radio never held,
\* and every request in flight knows when it was sent.
TypeOK ==
  /\ radio \in [Entries -> 0 .. version]
  /\ cache \in [Entries -> 0 .. version]
  /\ kv \in [Blobs -> 0 .. version]
  /\ seen_at \in [Contacts -> 0 .. clock]
  /\ synced_at \in Never .. clock
  /\ radio_name \in 1 .. version
  /\ in_flight = NoRequest \/ (in_flight \in Requests /\ in_flight.sent \in 0 .. clock)
  /\ \A r \in ToSet(pending_queue) \cup ToSet(line) : r \in Requests
  /\ \A f \in ToSet(wire) : f.val \in 0 .. version
  /\ removed \subseteq Contacts
  /\ doubt \in BOOLEAN

AtRest == in_flight = NoRequest /\ pending_queue = << >> /\ line = << >> /\ wire = << >>

HeldIsCached == \A e \in ContactEntries : radio[e] # 0 => cache[e] = radio[e]

\* README: "Every client sees the same state as the physical radio".  When all
\* is quiet, each contact the radio holds is cached as it is, no contact it
\* was told to remove is, and no other entry is out of date; adverts, setters,
\* imports, refused setters, restarts and reconnections come in any order.  A
\* timeout or a refused removal leaves doubts until the next resync, and the
\* BATTERY reading, which only a setter drops, grows old.
FaithfulMirror ==
  AtRest /\ ~doubt =>
    /\ HeldIsCached
    /\ \A k \in removed : cache[ContactEntry(k)] = 0
    /\ \A e \in ChannelEntries \cup Greeted : cache[e] \in {0, radio[e]}
    /\ radio_name = radio[SelfEntry]

\* Answers from the cache overtake commands that wait in the queue, and still
\* are the radio's: at no moment does the cache hold a channel, SELF_INFO or
\* DEVICE_INFO that a setter has replaced on the radio, whatever the radio
\* makes of the setter and whether or not its reply gets through.
SettersCoherent ==
  spent.timeouts = 0 =>
    \A e \in ChannelEntries \cup Greeted : cache[e] \in {0, radio[e]}

\* state.rs:494 of contacts_synced_at: "every contact the radio holds now has
\* seen_at >= that instant" (contacts it got after that instant aside).  It is
\* so until a request times out: the END_OF_CONTACTS of a list that timed out
\* completes the next one before its contacts have come.
SyncedMeansSeen ==
  \A k \in Contacts :
    spent.timeouts = 0 /\ Holds(k) /\ cache[ContactEntry(k)] # 0 /\ since[k] < synced_at =>
      seen_at[k] >= synced_at

\* Maintenance never purges a contact that the radio has held since before
\* the last complete sync, though it does not wait for the sync it asks for
\* (state.rs: "only drop the ones that were missing from the last full sync").
\* A sync that a timeout made count too early is the exception.
PurgeSparesHeld ==
  [][spent.timeouts = 0 /\ spent'.maintenance > spent.maintenance =>
       \A k \in Contacts :
         Holds(k) /\ cache[ContactEntry(k)] # 0 /\ since[k] < synced_at =>
           cache'[ContactEntry(k)] # 0]_vars

\* README: "queues a re-read of it so the cache keeps serving the radio's
\* current frame": a change on the radio reaches the cache, whoever made it
\* and whatever the radio was busy with.
CacheCatchesUp ==
  \A k \in Contacts :
    Holds(k) /\ cache[ContactEntry(k)] # radio[ContactEntry(k)]
      ~> ~Holds(k) \/ cache[ContactEntry(k)] = radio[ContactEntry(k)] \/ doubt

=============================================================================
