---------------------------- MODULE MirrorProofs ----------------------------
(***************************************************************************)
(* The cache against the radio, proved for any contacts, channels and      *)
(* commands, any retention and any number of changes, timeouts, refusals,  *)
(* reconnections and restarts.                                             *)
(***************************************************************************)
EXTENDS Mirror, SequenceTheorems, FiniteSetTheorems, TLAPS

Cmds == {FullSync} \cup {ContactSync(k) : k \in Contacts}
          \cup {ChannelSync(i) : i \in Channels} \cup Commands

Setters == {SetName, SetChannel, UpdateContact, RemoveContact, ImportContact}

Waiting == [cmd : Cmds, val : 0 .. MaxVersions, own : BOOLEAN, sent : {Never}]
Sent    == [cmd : Cmds, val : 0 .. MaxVersions, own : BOOLEAN, sent : 0 .. MaxTime]
Args    == Contacts \cup Channels \cup {NoArg}
Codes   == CachedCodes \cup {Ok, Error, ContactEnd, Advertisement}
Frames  == [code : Codes, arg : Args, val : Nat]

-----------------------------------------------------------------------------
(* The inductive invariant.                                                *)

CacheTypes ==
  /\ cache \in [Entries -> 0 .. version]
  /\ kv \in [Blobs -> 0 .. version]
  /\ seen_at \in [Contacts -> 0 .. clock]
  /\ synced_at \in Never .. clock
  /\ radio_name \in 1 .. version

\* An entry that is no contact is never empty.
RadioTypes ==
  /\ version \in Nat \ {0}
  /\ clock \in 0 .. MaxTime
  /\ radio \in [Entries -> 0 .. version]
  /\ \A e \in Entries : e \notin ContactEntries => radio[e] # 0
  /\ removed \subseteq Contacts
  /\ since \in [Contacts -> 0 .. clock]
  /\ doubt \in BOOLEAN
  /\ spent \in [reads : Nat, maintenance : Nat, losses : Nat, timeouts : Nat,
                refusals : Nat]

\* The request sets a value of those given out, if it is a setter.
GoodVal(r, last) == r.val <= last /\ (r.cmd.code \in Setters => r.val # 0)

\* The slot, the queue and the line; nothing waits for an idle radio.
SlotTypes ==
  /\ in_flight # NoRequest =>
       in_flight \in Sent /\ in_flight.sent <= clock /\ GoodVal(in_flight, version)
  /\ pending_queue \in Seq(Waiting)
  /\ \A i \in 1 .. Len(pending_queue) : GoodVal(pending_queue[i], version)
  /\ line \in Seq(Waiting)
  /\ \A i \in 1 .. Len(line) : GoodVal(line[i], version)
  /\ in_flight = NoRequest => pending_queue = << >>

\* A frame about an entry has its content, an advert names a contact.
GoodFrame(f, last) ==
  /\ f.val <= last
  /\ f.code \in CachedCodes => f.val # 0 /\ Entry(f.code, f.arg) \in Entries
  /\ f.code = Advertisement => f.arg \in Contacts

WireTypes == wire \in Seq(Frames) /\ \A i \in 1 .. Len(wire) : GoodFrame(wire[i], version)

BaseInv == CacheTypes /\ RadioTypes /\ SlotTypes /\ WireTypes

\* No request of this connection has timed out.
Calm == ~doubt \/ spent.timeouts = 0

Push(f)      == f.code = Advertisement
Ends(cmd, f) == Belongs(awaiting_for(cmd), f.code) /\ Completes(awaiting_for(cmd), f.code)

OnlyPushes == \A i \in 1 .. Len(wire) : Push(wire[i])

\* The request in flight is on its way to the radio ...
Asked ==
  /\ Len(line) = 1
  /\ line[1].cmd = in_flight.cmd /\ line[1].val = in_flight.val
  /\ OnlyPushes

\* ... or its whole answer is on the way back: the frame that ends it, after
\* the contacts of a list.
AnswerIn(w, cmd) ==
  \E n \in 1 .. Len(w) :
    /\ Ends(cmd, w[n])
    /\ \A j \in n + 1 .. Len(w) : Push(w[j])
    /\ \A j \in 1 .. n - 1 : Push(w[j]) \/ (cmd.code = GetContacts /\ w[j].code = Contact)

Answered == line = << >> /\ AnswerIn(wire, in_flight.cmd)

\* The entries that change only at a setter's command.
Steady == ChannelEntries \cup Greeted

\* Nothing but the request in flight and its answer is between the core and a
\* radio that never let it wait; what is about to change is not cached.
SerialInv ==
  Calm =>
    /\ in_flight = NoRequest => line = << >> /\ OnlyPushes
    /\ in_flight # NoRequest => Asked \/ Answered
    /\ line # << >> => \A e \in Entries : e \in EvictedBy(in_flight.cmd) => cache[e] = 0
    /\ \A i \in 1 .. Len(wire) : \A e \in Steady :
         e = Entry(wire[i].code, wire[i].arg) => wire[i].val = radio[e]

\* One of the commands cs will be sent, whoever leaves; one is on the line.
Queued(cs) == \E i \in 1 .. Len(pending_queue) :
                pending_queue[i].own /\ pending_queue[i].cmd \in cs
OnLine(cs) == line # << >> /\ in_flight.cmd \in cs

\* A channel that went wrong at a timeout is being read again.
CoherentInv ==
  Calm =>
    \A e \in Steady :
      \/ cache[e] = 0 \/ cache[e] = radio[e]
      \/ /\ e \in ChannelEntries /\ spent.timeouts # 0
         /\ \/ Queued({ChannelSync(e.arg)}) \/ OnLine({ChannelSync(e.arg)})
            \/ \E i \in 1 .. Len(wire) : Entry(wire[i].code, wire[i].arg) = e

OnWire(k) == \E i \in 1 .. Len(wire) : wire[i].code = Contact /\ wire[i].arg = k

\* What a complete list is for: the contacts it has seen.
SyncInv ==
  spent.timeouts = 0 =>
    \A k \in Contacts :
      Holds(k) =>
        /\ since[k] < synced_at => seen_at[k] >= synced_at
        /\ in_flight.cmd = FullSync /\ line = << >> /\ since[k] < in_flight.sent =>
             seen_at[k] >= in_flight.sent \/ OnWire(k)

\* A contact that may have changed is going to be read: its advert is on the
\* way, a request that reads it, or the reply upon which it will be read.
Reread(k) == {FullSync, ContactSync(k)}
Removal(k) == Entry(RemoveContact, k)

Heard(k) == \E i \in 1 .. Len(wire) : Push(wire[i]) /\ wire[i].arg = k

Changed(k) ==
  /\ in_flight.cmd = Entry(UpdateContact, k) \/ in_flight.cmd.code = ImportContact
  /\ \E i \in 1 .. Len(wire) : wire[i].code = Ok

\* Or it is cached as it is, or will be with the next frame about it; and
\* maintenance will not purge it.
Fresh(k) ==
  /\ \A i \in 1 .. Len(wire) :
       wire[i].code = Contact /\ wire[i].arg = k => wire[i].val = radio[ContactEntry(k)]
  /\ \/ OnWire(k)
     \/ /\ cache[ContactEntry(k)] = radio[ContactEntry(k)]
        /\ seen_at[k] >= synced_at
        /\ in_flight.cmd = FullSync => seen_at[k] >= in_flight.sent

Right(k) ==
  Heard(k) \/ Queued(Reread(k)) \/ OnLine(Reread(k) \cup {Removal(k)}) \/ Changed(k)
  \/ Fresh(k)

ContactInv == ~doubt => \A k \in Contacts : Holds(k) => Right(k)

\* What was removed is gone, and nothing that could bring it back is coming.
RemovedInv ==
  ~doubt => \A k \in removed : ~Holds(k) /\ cache[ContactEntry(k)] = 0 /\ ~OnWire(k)

\* The name follows SELF_INFO with the OK to the setter.
Renamed == in_flight.cmd.code = SetName /\ \E i \in 1 .. Len(wire) : wire[i].code = Ok

NameInv ==
  ~doubt => IF Renamed THEN in_flight.val = radio[SelfEntry]
            ELSE radio_name = radio[SelfEntry]

CalmInv == SerialInv /\ CoherentInv /\ SyncInv /\ ContactInv /\ RemovedInv /\ NameInv

MirrorInv == BaseInv /\ CalmInv

-----------------------------------------------------------------------------
(* Commands and what answers them.                                         *)

\* The commands there are.
LEMMA CommandKinds ==
  ASSUME NEW cmd \in Cmds
  PROVE  /\ cmd = Entry(cmd.code, cmd.arg)
         /\ \/ cmd.code = GetContacts
            \/ cmd.code \in {AppStart, DeviceQuery, GetBattery, SetName} /\ cmd.arg = NoArg
            \/ cmd.code \in {GetChannel, SetChannel} /\ cmd.arg \in Channels
            \/ cmd.code \in {UpdateContact, RemoveContact, ImportContact, GetContactByKey}
               /\ cmd.arg \in Contacts
<1>1. CASE cmd = FullSync BY <1>1 DEF FullSync, Entry
<1>2. CASE \E k \in Contacts : cmd = ContactSync(k) BY <1>2 DEF ContactSync, Entry
<1>3. CASE \E i \in Channels : cmd = ChannelSync(i) BY <1>3 DEF ChannelSync, Entry
<1>4. CASE cmd \in Commands BY <1>4, CommandsAssumption DEF Entry
<1> QED BY <1>1, <1>2, <1>3, <1>4 DEF Cmds

\* What coresplitter asks for on its own account.
LEMMA OwnCommands ==
  /\ FullSync \in Cmds
  /\ \A k \in Contacts : ContactSync(k) \in Cmds
  /\ \A i \in Channels : ChannelSync(i) \in Cmds
  /\ Commands \subseteq Cmds
BY DEF Cmds

\* A list is a stream of contacts ...
LEMMA AwaitList ==
  ASSUME NEW cmd, cmd.code = GetContacts
  PROVE  awaiting_for(cmd) = Stream({ContactStart, Contact}, ContactEnd)
BY DEF awaiting_for, GetContacts, SentCommands, SendMsg, GetTelemetry, GetMsg, OkCommands,
       SendChanMsg, SetName, UpdateContact, SetRadio, SetTxPower, ResetPath, SetCoords,
       RemoveContact, ImportContact, SetTuning, SetChannel, SetDevicePin, SetOtherParams,
       FactoryReset, AppStart, GetBattery, DeviceQuery, GetContactByKey, GetChannel, Queries

\* ... a setter waits for OK ...
LEMMA AwaitSetter ==
  ASSUME NEW cmd, cmd.code \in Setters
  PROVE  awaiting_for(cmd) = OneOf({Ok})
BY DEF awaiting_for, GetContacts, SentCommands, SendMsg, GetTelemetry, GetMsg, OkCommands,
       SendChanMsg, SetName, UpdateContact, SetRadio, SetTxPower, ResetPath, SetCoords,
       RemoveContact, ImportContact, SetTuning, SetChannel, SetDevicePin, SetOtherParams,
       FactoryReset, AppStart, GetBattery, DeviceQuery, GetContactByKey, GetChannel, Queries,
       Setters

Asking == {AppStart, DeviceQuery, GetBattery, GetChannel, GetContactByKey}

\* ... and a query for its reply.
LEMMA AwaitQuery ==
  ASSUME NEW cmd, cmd.code \in Asking
  PROVE  awaiting_for(cmd) = OneOf({q[2] : q \in {r \in Queries : r[1] = cmd.code}})
<1> DEFINE Q == {q[2] : q \in {r \in Queries : r[1] = cmd.code}}
<1>1. \E q \in Queries : q[1] = cmd.code
  <2>1. /\ <<AppStart, SelfInfo>> \in Queries /\ <<DeviceQuery, DeviceInfo>> \in Queries
        /\ <<GetBattery, Battery>> \in Queries /\ <<GetChannel, ChannelInfo>> \in Queries
        /\ <<GetContactByKey, Contact>> \in Queries
    BY DEF Queries
  <2>2. /\ <<AppStart, SelfInfo>>[1] = AppStart /\ <<DeviceQuery, DeviceInfo>>[1] = DeviceQuery
        /\ <<GetBattery, Battery>>[1] = GetBattery /\ <<GetChannel, ChannelInfo>>[1] = GetChannel
        /\ <<GetContactByKey, Contact>>[1] = GetContactByKey
    OBVIOUS
  <2> QED BY <2>1, <2>2 DEF Asking
<1>2. /\ cmd.code # GetContacts /\ cmd.code \notin SentCommands /\ cmd.code # GetTelemetry
      /\ cmd.code # GetMsg /\ cmd.code # 23 /\ cmd.code # 24 /\ cmd.code \notin OkCommands
  BY DEF GetContacts, SentCommands, SendMsg, GetTelemetry, GetMsg, OkCommands,
       SendChanMsg, SetName, UpdateContact, SetRadio, SetTxPower, ResetPath, SetCoords,
       RemoveContact, ImportContact, SetTuning, SetChannel, SetDevicePin, SetOtherParams,
       FactoryReset, AppStart, GetBattery, DeviceQuery, GetContactByKey, GetChannel, Asking
<1> HIDE DEF Q
<1>3. awaiting_for(cmd) = OneOf(Q) BY <1>1, <1>2 DEF awaiting_for, Q
<1> QED BY <1>3 DEF Q

\* The pairs of query and reply that are of use here.
LEMMA QueryPairs ==
  ASSUME NEW q \in Queries
  PROVE  /\ q[2] # Error /\ q[2] # Advertisement
         /\ q[1] = AppStart => q[2] = SelfInfo
         /\ q[1] = DeviceQuery => q[2] = DeviceInfo
         /\ q[1] = GetBattery => q[2] = Battery
         /\ q[1] = GetChannel => q[2] = ChannelInfo
         /\ q[1] = GetContactByKey => q[2] = Contact
         /\ q[1] # GetContacts /\ q[1] \notin Setters
BY DEF Queries, AppStart, GetBattery, DeviceQuery, GetContactByKey, GetChannel, GetContacts,
       SelfInfo, Battery, DeviceInfo, Contact, ChannelInfo, Error, Advertisement, Setters,
       SetName, SetChannel, UpdateContact, RemoveContact, ImportContact

\* Which frames end a request, and which are part of its reply: no advert is,
\* a contact does not end a list, an OK ends a setter and an ERROR anything.
LEMMA Classified ==
  ASSUME NEW cmd \in Cmds
  PROVE  /\ ~Belongs(awaiting_for(cmd), Advertisement)
         /\ Belongs(awaiting_for(cmd), Error) /\ Completes(awaiting_for(cmd), Error)
         /\ cmd.code = GetContacts =>
              /\ Belongs(awaiting_for(cmd), Contact) /\ ~Completes(awaiting_for(cmd), Contact)
              /\ Belongs(awaiting_for(cmd), ContactEnd) /\ Completes(awaiting_for(cmd), ContactEnd)
              /\ ~Belongs(awaiting_for(cmd), Ok)
         /\ cmd.code \in Setters =>
              /\ Belongs(awaiting_for(cmd), Ok) /\ Completes(awaiting_for(cmd), Ok)
         /\ \A q \in Queries : q[1] = cmd.code =>
              /\ Belongs(awaiting_for(cmd), q[2]) /\ Completes(awaiting_for(cmd), q[2])
<1> USE DEF Error, Advertisement, Ok, Contact, ContactStart, ContactEnd
<1>1. CASE cmd.code = GetContacts
  <2>1. awaiting_for(cmd) = Stream({ContactStart, Contact}, ContactEnd) BY <1>1, AwaitList
  <2>2. cmd.code \notin Setters BY <1>1 DEF Setters, GetContacts, SetName, SetChannel,
          UpdateContact, RemoveContact, ImportContact
  <2> QED BY <1>1, <2>1, <2>2, QueryPairs DEF Belongs, Completes, Stream
<1>2. CASE cmd.code \in Setters
  <2>1. awaiting_for(cmd) = OneOf({Ok}) BY <1>2, AwaitSetter
  <2>2. cmd.code # GetContacts BY <1>2 DEF Setters, GetContacts, SetName, SetChannel,
          UpdateContact, RemoveContact, ImportContact
  <2> QED BY <1>2, <2>1, <2>2, QueryPairs DEF Belongs, Completes, OneOf
<1>3. CASE cmd.code \in Asking
  <2> DEFINE Q == {q[2] : q \in {r \in Queries : r[1] = cmd.code}}
  <2>1. awaiting_for(cmd) = OneOf(Q) BY <1>3, AwaitQuery
  <2>2. cmd.code # GetContacts /\ cmd.code \notin Setters
    BY <1>3 DEF Setters, GetContacts, SetName, SetChannel, UpdateContact, RemoveContact,
       ImportContact, Asking, AppStart, GetBattery, DeviceQuery, GetContactByKey, GetChannel
  <2>3. Error \notin Q /\ Advertisement \notin Q
    BY QueryPairs
  <2>4. \A q \in Queries : q[1] = cmd.code => q[2] \in Q OBVIOUS
  <2> HIDE DEF Q
  <2> QED BY <2>1, <2>2, <2>3, <2>4 DEF Belongs, Completes, OneOf
<1> QED BY <1>1, <1>2, <1>3, CommandKinds DEF Setters, Asking

\* A command that is answered with an entry asks for one there is.
LEMMA AskedEntry ==
  ASSUME NEW cmd \in Cmds, NEW q \in Queries, q[1] = cmd.code
  PROVE  /\ Entry(q[2], cmd.arg) \in Entries
         /\ q[2] \in CachedCodes
         /\ cmd.arg \in Args
         /\ cmd.code \in Asking
<1>1. cmd.code # GetContacts /\ cmd.code \notin Setters BY QueryPairs
<1>2. cmd.code \in Asking BY <1>1, CommandKinds DEF Setters, Asking
<1>3. CASE cmd.code \in {AppStart, DeviceQuery, GetBattery}
  <2>1. cmd.arg = NoArg
    BY <1>3, CommandKinds DEF GetContacts, AppStart, GetBattery, DeviceQuery, GetContactByKey,
       GetChannel, SetChannel, UpdateContact, RemoveContact, ImportContact
  <2>2. q[2] \in {SelfInfo, DeviceInfo, Battery} BY <1>3, QueryPairs
  <2> QED BY <1>2, <2>1, <2>2 DEF Entries, Blobs, Entry, Args, CachedCodes
<1>4. CASE cmd.code = GetChannel
  <2>1. cmd.arg \in Channels
    BY <1>4, CommandKinds DEF GetContacts, AppStart, GetBattery, DeviceQuery, GetContactByKey,
       GetChannel, SetChannel, UpdateContact, RemoveContact, ImportContact, SetName
  <2>2. q[2] = ChannelInfo BY <1>4, QueryPairs
  <2> QED BY <1>2, <2>1, <2>2 DEF Entries, ChannelEntries, Entry, Args, CachedCodes
<1>5. CASE cmd.code = GetContactByKey
  <2>1. cmd.arg \in Contacts
    BY <1>5, CommandKinds DEF GetContacts, AppStart, GetBattery, DeviceQuery, GetContactByKey,
       GetChannel, SetChannel, UpdateContact, RemoveContact, ImportContact, SetName
  <2>2. q[2] = Contact BY <1>5, QueryPairs
  <2> QED BY <1>2, <2>1, <2>2 DEF Entries, ContactEntries, ContactEntry, Entry, Args, CachedCodes
<1> QED BY <1>2, <1>3, <1>4, <1>5 DEF Asking

\* Entries of different kinds are different, and there is one per contact.
LEMMA EntryKinds ==
  /\ \A k \in Contacts : ContactEntry(k) \in Entries /\ ContactEntry(k) \in ContactEntries
  /\ \A e \in ContactEntries : e.code = Contact /\ e.arg \in Contacts /\ e = ContactEntry(e.arg)
  /\ \A e \in ChannelEntries : e.code = ChannelInfo /\ e.arg \in Channels
                               /\ e = Entry(ChannelInfo, e.arg)
  /\ \A e \in Greeted : e.code \in {SelfInfo, DeviceInfo} /\ e.arg = NoArg
  /\ Steady \subseteq Entries /\ Greeted \subseteq Blobs /\ Blobs \subseteq Entries
  /\ SelfEntry \in Greeted /\ BatteryEntry \in Blobs
  /\ Steady \cap ContactEntries = {} /\ BatteryEntry \notin Steady
  /\ \A e \in Blobs : e \notin ContactEntries
  /\ \A e \in Entries : e = Entry(e.code, e.arg) /\ e.code \in CachedCodes /\ e.arg \in Args
<1>1. \A k \in Contacts : ContactEntry(k) \in Entries /\ ContactEntry(k) \in ContactEntries
  BY DEF Entries, ContactEntries
<1>2. \A e \in ContactEntries : e.code = Contact /\ e.arg \in Contacts /\ e = ContactEntry(e.arg)
  BY DEF ContactEntries, ContactEntry, Entry
<1>3. \A e \in ChannelEntries : e.code = ChannelInfo /\ e.arg \in Channels
                                /\ e = Entry(ChannelInfo, e.arg)
  BY DEF ChannelEntries, Entry
<1>4. Blobs = {Entry(SelfInfo, NoArg), Entry(Battery, NoArg), Entry(DeviceInfo, NoArg)}
  BY DEF Blobs, Entry
<1>5. \A e \in Blobs : e.code \in {SelfInfo, Battery, DeviceInfo} /\ e.arg = NoArg
                       /\ e = Entry(e.code, e.arg)
  BY <1>4 DEF Entry
<1>6. \A e \in Greeted : e.code \in {SelfInfo, DeviceInfo} /\ e.arg = NoArg
  BY DEF Greeted, SelfEntry, Entry
<1>7. Greeted \subseteq Blobs /\ Blobs \subseteq Entries /\ Steady \subseteq Entries
  BY <1>4 DEF Greeted, SelfEntry, Entries, Steady
<1>8. SelfEntry \in Greeted /\ BatteryEntry \in Blobs
  BY <1>4 DEF Greeted, BatteryEntry
<1> USE DEF Contact, ChannelInfo, SelfInfo, DeviceInfo, Battery
<1>9. Steady \cap ContactEntries = {} /\ BatteryEntry \notin Steady
  <2>1. BatteryEntry.code = Battery BY DEF BatteryEntry, Entry
  <2> QED BY <1>2, <1>3, <1>6, <2>1 DEF Steady
<1>10. \A e \in Blobs : e \notin ContactEntries
  BY <1>2, <1>5
<1>11. \A e \in Entries : e = Entry(e.code, e.arg) /\ e.code \in CachedCodes /\ e.arg \in Args
  BY <1>2, <1>3, <1>5 DEF Entries, CachedCodes, Args, ContactEntry
<1> QED BY <1>1, <1>2, <1>3, <1>6, <1>7, <1>8, <1>9, <1>10, <1>11

\* A setter writes the entry it evicted, or a contact.
LEMMA TargetEntry ==
  ASSUME NEW cmd \in Cmds, cmd.code \in OkCommands
  PROVE  /\ cmd.code \in Setters
         /\ Target(cmd) \in Entries
         /\ Target(cmd) \in Steady => Target(cmd) \in EvictedBy(cmd)
         /\ cmd.code = SetName => Target(cmd) = SelfEntry /\ Target(cmd) \in EvictedBy(cmd)
         /\ cmd.code = RemoveContact => Target(cmd) \in EvictedBy(cmd)
         /\ cmd.code \in {UpdateContact, RemoveContact, ImportContact} =>
              Target(cmd) = ContactEntry(cmd.arg) /\ cmd.arg \in Contacts
         /\ cmd.code = SetChannel => Target(cmd) = Entry(ChannelInfo, cmd.arg) /\ Target(cmd) \in Steady
<1> USE DEF GetContacts, SetName, UpdateContact, RemoveContact, ImportContact, SetChannel, AppStart,
            GetBattery, DeviceQuery, GetContactByKey, GetChannel, SetRadio, SetTxPower, SetCoords,
            SetTuning, SetDevicePin, SetOtherParams, FactoryReset
<1>1. cmd.code \in Setters
  BY CommandKinds DEF Setters, OkCommands, SendChanMsg, ResetPath
<1>2. CASE cmd.code = SetName
  <2>1. Target(cmd) = SelfEntry BY <1>2 DEF Target
  <2>2. EvictedBy(cmd) = Blobs BY <1>2 DEF EvictedBy
  <2> QED BY <1>1, <1>2, <2>1, <2>2, EntryKinds
<1>3. CASE cmd.code = SetChannel
  <2>1. Target(cmd) = Entry(ChannelInfo, cmd.arg) BY <1>3 DEF Target
  <2>2. EvictedBy(cmd) = {Entry(ChannelInfo, cmd.arg)} BY <1>3 DEF EvictedBy, Entry
  <2>3. cmd.arg \in Channels BY <1>3, CommandKinds
  <2> QED BY <1>1, <1>3, <2>1, <2>2, <2>3 DEF Entries, Steady, ChannelEntries
<1>4. CASE cmd.code \in {UpdateContact, RemoveContact, ImportContact}
  <2>1. Target(cmd) = ContactEntry(cmd.arg) BY <1>4 DEF Target
  <2>2. cmd.code = RemoveContact => EvictedBy(cmd) = {ContactEntry(cmd.arg)}
    BY DEF EvictedBy, Entry, ContactEntry
  <2>3. cmd.arg \in Contacts BY <1>4, CommandKinds
  <2>4. Target(cmd) \in Entries /\ Target(cmd) \notin Steady BY <2>1, <2>3, EntryKinds
  <2> QED BY <1>1, <1>4, <2>1, <2>2, <2>3, <2>4
<1> QED BY <1>1, <1>2, <1>3, <1>4 DEF Setters

\* Only a removal evicts a contact, its own.
LEMMA EvictsContact ==
  ASSUME NEW cmd \in Cmds, NEW k \in Contacts, ContactEntry(k) \in EvictedBy(cmd)
  PROVE  cmd = Removal(k)
<1> USE DEF SetName, RemoveContact, SetChannel, SetRadio, SetTxPower, SetCoords,
            SetTuning, SetDevicePin, SetOtherParams, FactoryReset
<1>1. CASE cmd.code = RemoveContact
  <2>1. EvictedBy(cmd) = {Entry(Contact, cmd.arg)} BY <1>1 DEF EvictedBy, Entry
  <2>2. cmd.arg = k BY <2>1 DEF ContactEntry, Entry
  <2> QED BY <1>1, <2>2, CommandKinds DEF Removal
<1>2. CASE cmd.code = SetChannel
  <2>1. EvictedBy(cmd) = {Entry(ChannelInfo, cmd.arg)} BY <1>2 DEF EvictedBy, Entry
  <2> QED BY <2>1 DEF ContactEntry, Entry, Contact, ChannelInfo
<1>3. CASE cmd.code # RemoveContact /\ cmd.code # SetChannel
  <2>1. EvictedBy(cmd) \in {Blobs, {}} BY <1>3 DEF EvictedBy
  <2> QED BY <2>1, EntryKinds
<1> QED BY <1>1, <1>2, <1>3

\* A list of a finite set has each of its elements.
LEMMA Listed ==
  ASSUME NEW S, IsFiniteSet(S)
  PROVE  /\ Cardinality(S) \in Nat
         /\ \A i \in 1 .. Cardinality(S) : SetToSeq(S)[i] \in S
         /\ \A x \in S : \E i \in 1 .. Cardinality(S) : SetToSeq(S)[i] = x
<1> DEFINE n == Cardinality(S)
           f == SetToSeq(S)
<1>1. n \in Nat /\ ExistsBijection(1 .. n, S) BY FS_CardinalityType
<1>2. \E g \in [1 .. n -> S] : IsInjective(g)
  BY <1>1 DEF ExistsBijection, Bijection, Injection
<1>3. f \in [1 .. n -> S] /\ IsInjective(f) BY <1>2 DEF SetToSeq
<1>4. f \in Injection(1 .. n, S) BY <1>3 DEF Injection
<1>5. IsFiniteSet(1 .. n) /\ Cardinality(1 .. n) = n BY <1>1, FS_Interval
<1>6. f \in Surjection(1 .. n, S) BY <1>4, <1>5, FS_Injection
<1> QED BY <1>1, <1>3, <1>6 DEF Surjection

\* There are finitely many entries for contacts.
LEMMA FiniteContacts ==
  ASSUME NEW some \in SUBSET ContactEntries
  PROVE  IsFiniteSet(some)
<1> DEFINE f == [k \in Contacts |-> ContactEntry(k)]
<1>1. f \in Surjection(Contacts, ContactEntries) BY DEF Surjection, ContactEntries
<1>2. IsFiniteSet(ContactEntries) BY <1>1, FS_Surjection, ContactsAssumption
<1> QED BY <1>2, FS_Subset

-----------------------------------------------------------------------------
(* Sequences.                                                              *)

\* The types are the ones TypeOK asks for.
LEMMA BaseTypes == BaseInv => TypeOK
<1> SUFFICES ASSUME BaseInv PROVE TypeOK OBVIOUS
<1>1. Waiting \subseteq Requests /\ Sent \subseteq Requests
  BY BoundsAssumption DEF Waiting, Sent, Requests, Cmds, Never
<1>2. in_flight = NoRequest \/ (in_flight \in Requests /\ in_flight.sent \in 0 .. clock)
  <2>1. in_flight # NoRequest => in_flight \in Sent /\ in_flight.sent <= clock
    BY DEF BaseInv, SlotTypes
  <2>2. clock \in Nat BY BoundsAssumption DEF BaseInv, RadioTypes
  <2> QED BY <1>1, <2>1, <2>2, BoundsAssumption DEF Sent
<1>3. \A r \in ToSet(pending_queue) \cup ToSet(line) : r \in Requests
  <2>1. pending_queue \in Seq(Waiting) /\ line \in Seq(Waiting) BY DEF BaseInv, SlotTypes
  <2>2. \A i \in DOMAIN pending_queue : pending_queue[i] \in Waiting BY <2>1, ElementOfSeq, LenProperties
  <2>3. \A i \in DOMAIN line : line[i] \in Waiting BY <2>1, ElementOfSeq, LenProperties
  <2> QED BY <1>1, <2>2, <2>3 DEF ToSet
<1>4. \A f \in ToSet(wire) : f.val \in 0 .. version
  <2>1. wire \in Seq(Frames) /\ \A i \in 1 .. Len(wire) : wire[i].val <= version
    BY DEF BaseInv, WireTypes, GoodFrame
  <2>2. \A i \in DOMAIN wire : wire[i] \in Frames /\ wire[i].val <= version
    BY <2>1, ElementOfSeq, LenProperties
  <2>3. \A i \in DOMAIN wire : wire[i].val \in 0 .. version
    BY <2>2 DEF Frames, BaseInv, RadioTypes
  <2> QED BY <2>3 DEF ToSet
<1>5. radio \in [Entries -> 0 .. version] /\ removed \subseteq Contacts /\ doubt \in BOOLEAN
  BY DEF BaseInv, RadioTypes
<1> QED BY <1>2, <1>3, <1>4, <1>5 DEF TypeOK, BaseInv, CacheTypes

\* The elements of what is waiting and of what is on its way.
LEMMA Elements ==
  ASSUME NEW S, NEW s \in Seq(S)
  PROVE  Len(s) \in Nat /\ \A i \in 1 .. Len(s) : s[i] \in S
BY ElementOfSeq, LenProperties

\* One element more.
LEMMA Appended ==
  ASSUME NEW S, NEW s \in Seq(S), NEW x \in S
  PROVE  /\ Append(s, x) \in Seq(S)
         /\ Len(Append(s, x)) = Len(s) + 1
         /\ \A i \in 1 .. Len(s) : Append(s, x)[i] = s[i]
         /\ Append(s, x)[Len(s) + 1] = x
BY AppendProperties

\* The first element taken.
LEMMA Shifted ==
  ASSUME NEW S, NEW s \in Seq(S), s # << >>
  PROVE  /\ Tail(s) \in Seq(S)
         /\ Len(s) \in Nat /\ Len(s) >= 1 /\ Len(Tail(s)) = Len(s) - 1
         /\ Head(s) = s[1] /\ s[1] \in S
         /\ \A i \in 1 .. Len(Tail(s)) : Tail(s)[i] = s[i + 1] /\ i + 1 \in 1 .. Len(s)
<1>1. Len(s) \in Nat /\ Len(s) # 0 BY EmptySeq, LenProperties
<1> QED BY <1>1, HeadTailProperties, ElementOfSeq

\* A sequence behind another.
LEMMA Joined ==
  ASSUME NEW S, NEW s \in Seq(S), NEW t \in Seq(S)
  PROVE  /\ s \o t \in Seq(S)
         /\ Len(s) \in Nat /\ Len(t) \in Nat /\ Len(s \o t) = Len(s) + Len(t)
         /\ \A i \in 1 .. Len(s) : (s \o t)[i] = s[i]
         /\ \A i \in 1 .. Len(t) : (s \o t)[Len(s) + i] = t[i]
         /\ \A i \in 1 .. Len(s \o t) :
              i \in 1 .. Len(s) \/ (i - Len(s) \in 1 .. Len(t) /\ (s \o t)[i] = t[i - Len(s)])
BY ConcatProperties, LenProperties

\* A sequence of one.
LEMMA Single ==
  ASSUME NEW S, NEW x \in S
  PROVE  <<x>> \in Seq(S) /\ Len(<<x>>) = 1 /\ <<x>>[1] = x /\ <<x>> # << >>
OBVIOUS

-----------------------------------------------------------------------------
(* The queue moves.                                                        *)

\* What a handler makes of the slot and of a queue, with held for a cache:
\* the first request that anybody wants is sent, none is, or it goes on
\* waiting for the one in flight.
Sends(queue, held) ==
  \E n \in 1 .. Len(queue) :
    /\ \A i \in 1 .. n - 1 : ~queue[i].own
    /\ in_flight' = [queue[n] EXCEPT !.sent = clock]
    /\ line' = Append(line, queue[n])
    /\ cache' = [e \in Entries |-> IF e \in EvictedBy(queue[n].cmd) THEN 0 ELSE held[e]]
    /\ pending_queue' = SubSeq(queue, n + 1, Len(queue))

Rests(queue, held) ==
  /\ \A i \in 1 .. Len(queue) : ~queue[i].own
  /\ in_flight' = NoRequest
  /\ line' = line
  /\ cache' = held
  /\ pending_queue' = << >>

Keeps(queue, held) ==
  /\ in_flight = NoRequest => queue = << >>
  /\ in_flight' = in_flight
  /\ line' = line
  /\ cache' = held
  /\ pending_queue' = queue

Moves(queue, held) == Sends(queue, held) \/ Rests(queue, held)

\* advance_queue sends the next or rests.
LEMMA AdvanceMoves ==
  ASSUME NEW queue \in Seq(Waiting), NEW held, advance_queue(queue, held)
  PROVE  Moves(queue, held)
<1>1. Len(queue) \in Nat BY LenProperties
<1>2. PICK n \in 1 .. Len(queue) + 1 :
        /\ \A i \in 1 .. n - 1 : ~queue[i].own
        /\ pending_queue' = SubSeq(queue, n + 1, Len(queue))
        /\ IF n <= Len(queue)
           THEN dispatch_to_radio(queue[n], held, line)
           ELSE in_flight' = NoRequest /\ cache' = held /\ UNCHANGED line
  BY Zenon DEF advance_queue
<1>3. CASE n <= Len(queue)
  <2>1. n \in 1 .. Len(queue) BY <1>1, <1>3
  <2>2. dispatch_to_radio(queue[n], held, line) BY <1>2, <1>3, Zenon
  <2> QED BY <1>2, <2>1, <2>2, Zenon DEF Moves, Sends, dispatch_to_radio
<1>4. CASE ~(n <= Len(queue))
  <2>1. n = Len(queue) + 1 BY <1>1, <1>4
  <2>2. in_flight' = NoRequest /\ cache' = held /\ line' = line BY <1>2, <1>4, Zenon
  <2>3. n - 1 = Len(queue) BY <1>1, <2>1
  <2>4. pending_queue' = << >>
    <3>1. SubSeq(queue, n + 1, Len(queue)) = << >> BY <1>1, <2>1, SubSeqEmpty
    <3> QED BY <1>2, <3>1, Zenon
  <2>5. \A i \in 1 .. Len(queue) : ~queue[i].own BY <1>2, <2>3, Zenon
  <2> QED BY <2>2, <2>4, <2>5, Zenon DEF Moves, Rests
<1> QED BY <1>3, <1>4

\* A request is queued behind the others, or sent at once.
LEMMA EnqueueMoves ==
  ASSUME SlotTypes, NEW request \in Waiting, enqueue_or_dispatch(request)
  PROVE  \/ in_flight = NoRequest /\ Moves(<<request>>, cache)
         \/ in_flight # NoRequest /\ Keeps(Append(pending_queue, request), cache)
<1>1. CASE in_flight = NoRequest
  <2>1. dispatch_to_radio(request, cache, line) /\ pending_queue' = pending_queue
    BY <1>1, Zenon DEF enqueue_or_dispatch
  <2>2. pending_queue = << >> BY <1>1 DEF SlotTypes
  <2>3. Len(<<request>>) = 1 /\ <<request>>[1] = request /\ SubSeq(<<request>>, 1 + 1, 1) = << >>
    OBVIOUS
  <2>4. 1 \in 1 .. 1 /\ ~\E i \in 1 .. 1 - 1 : TRUE OBVIOUS
  <2>5. Sends(<<request>>, cache)
    BY <2>1, <2>2, <2>3, <2>4, Zenon DEF Sends, dispatch_to_radio
  <2> QED BY <1>1, <2>5 DEF Moves
<1>2. CASE in_flight # NoRequest
  BY <1>2, Zenon DEF enqueue_or_dispatch, Keeps
<1> QED BY <1>1, <1>2

\* A request that was sent: what it says is as it was, and it is one.
LEMMA SentRequest ==
  ASSUME NEW r \in Waiting, NEW now \in 0 .. MaxTime
  PROVE  LET s == [r EXCEPT !.sent = now]
         IN /\ s \in Sent /\ s # NoRequest
            /\ s.cmd = r.cmd /\ s.val = r.val /\ s.sent = now
<1> DEFINE s == [r EXCEPT !.sent = now]
<1>1. s \in Sent /\ s.cmd = r.cmd /\ s.val = r.val /\ s.sent = now BY DEF Waiting, Sent
<1>2. s.cmd \in Cmds BY <1>1 DEF Sent
<1>3. s.cmd.code # 0
  BY <1>2, CommandKinds DEF GetContacts, AppStart, GetBattery, DeviceQuery, GetContactByKey,
     GetChannel, SetChannel, UpdateContact, RemoveContact, ImportContact, SetName
<1>4. NoRequest.cmd.code = 0 BY DEF NoRequest, Entry
<1> HIDE DEF s
<1>5. s # NoRequest BY <1>3, <1>4
<1> QED BY <1>1, <1>5 DEF s

\* What follows from sending, in the terms of the invariant.
LEMMA SendsFacts ==
  ASSUME SlotTypes, clock \in 0 .. MaxTime, NEW queue \in Seq(Waiting), NEW held,
         Sends(queue, held)
  PROVE  \E n \in 1 .. Len(queue) :
           /\ queue[n] \in Waiting
           /\ in_flight' \in Sent /\ in_flight' # NoRequest
           /\ in_flight'.cmd = queue[n].cmd /\ in_flight'.val = queue[n].val
           /\ in_flight'.sent = clock /\ in_flight'.cmd \in Cmds
           /\ line' \in Seq(Waiting) /\ line' # << >> /\ Len(line') = Len(line) + 1
           /\ \A i \in 1 .. Len(line) : line'[i] = line[i]
           /\ line'[Len(line) + 1] = queue[n]
           /\ pending_queue' \in Seq(Waiting) /\ Len(pending_queue') = Len(queue) - n
           /\ \A i \in 1 .. Len(queue) - n : pending_queue'[i] = queue[n + i]
           /\ \A i \in 1 .. n - 1 : ~queue[i].own
           /\ cache' = [e \in Entries |-> IF e \in EvictedBy(queue[n].cmd) THEN 0 ELSE held[e]]
<1>1. PICK n \in 1 .. Len(queue) :
        /\ \A i \in 1 .. n - 1 : ~queue[i].own
        /\ in_flight' = [queue[n] EXCEPT !.sent = clock]
        /\ line' = Append(line, queue[n])
        /\ cache' = [e \in Entries |-> IF e \in EvictedBy(queue[n].cmd) THEN 0 ELSE held[e]]
        /\ pending_queue' = SubSeq(queue, n + 1, Len(queue))
  BY Zenon DEF Sends
<1>2. queue[n] \in Waiting /\ Len(queue) \in Nat BY Elements
<1>3. /\ in_flight' \in Sent /\ in_flight' # NoRequest
      /\ in_flight'.cmd = queue[n].cmd /\ in_flight'.val = queue[n].val
      /\ in_flight'.sent = clock
  BY <1>1, <1>2, SentRequest
<1>4. in_flight'.cmd \in Cmds BY <1>2, <1>3 DEF Waiting
<1>5. line \in Seq(Waiting) /\ Len(line) \in Nat BY LenProperties DEF SlotTypes
<1>6. /\ line' \in Seq(Waiting) /\ Len(line') = Len(line) + 1
      /\ \A i \in 1 .. Len(line) : line'[i] = line[i]
      /\ line'[Len(line) + 1] = queue[n]
  <2> DEFINE x == queue[n]
  <2>1. x \in Waiting /\ line' = Append(line, x) BY <1>1, <1>2
  <2> HIDE DEF x
  <2>2. /\ line' \in Seq(Waiting) /\ Len(line') = Len(line) + 1
        /\ \A i \in 1 .. Len(line) : line'[i] = line[i]
        /\ line'[Len(line) + 1] = x
    BY <1>5, <2>1, Appended
  <2> QED BY <2>2 DEF x
<1>7. line' # << >> BY <1>5, <1>6
<1>8. /\ pending_queue' \in Seq(Waiting) /\ Len(pending_queue') = Len(queue) - n
      /\ \A i \in 1 .. Len(queue) - n : pending_queue'[i] = queue[n + i]
  <2>1. \A i \in n + 1 .. Len(queue) : queue[i] \in Waiting BY Elements
  <2> QED BY <1>1, <1>2, <2>1, SubSeqProperties
<1> QED BY <1>1, <1>2, <1>3, <1>4, <1>6, <1>7, <1>8, Zenon

\* A queue of requests the slot can take, with a cache to go with it.
Ready(queue, held) ==
  /\ clock \in 0 .. MaxTime /\ clock' = clock
  /\ version \in Nat /\ version' \in Nat /\ version <= version'
  /\ queue \in Seq(Waiting)
  /\ \A i \in 1 .. Len(queue) : GoodVal(queue[i], version')
  /\ held \in [Entries -> 0 .. version']
  /\ Moves(queue, held) \/ Keeps(queue, held)

\* The slot, the queue and the line stay what they should be.
LEMMA MovedSlot ==
  ASSUME SlotTypes, NEW queue, NEW held, Ready(queue, held)
  PROVE  SlotTypes' /\ cache' \in [Entries -> 0 .. version']
<1>0. /\ clock \in 0 .. MaxTime /\ clock' = clock
      /\ version \in Nat /\ version' \in Nat /\ version <= version'
      /\ queue \in Seq(Waiting)
      /\ \A i \in 1 .. Len(queue) : GoodVal(queue[i], version')
      /\ held \in [Entries -> 0 .. version']
      /\ Moves(queue, held) \/ Keeps(queue, held)
  BY Zenon DEF Ready
<1>1. /\ line \in Seq(Waiting) /\ Len(line) \in Nat
      /\ \A i \in 1 .. Len(line) : line[i] \in Waiting /\ GoodVal(line[i], version)
  BY Elements DEF SlotTypes
<1>2. \A r \in Waiting \cup Sent : GoodVal(r, version) => GoodVal(r, version')
  BY <1>0 DEF GoodVal, Waiting, Sent
<1>3. \A i \in 1 .. Len(line) : GoodVal(line[i], version') BY <1>1, <1>2
<1>4. CASE Sends(queue, held)
  <2>1. PICK n \in 1 .. Len(queue) :
           /\ queue[n] \in Waiting
           /\ in_flight' \in Sent /\ in_flight' # NoRequest
           /\ in_flight'.cmd = queue[n].cmd /\ in_flight'.val = queue[n].val
           /\ in_flight'.sent = clock /\ in_flight'.cmd \in Cmds
           /\ line' \in Seq(Waiting) /\ line' # << >> /\ Len(line') = Len(line) + 1
           /\ \A i \in 1 .. Len(line) : line'[i] = line[i]
           /\ line'[Len(line) + 1] = queue[n]
           /\ pending_queue' \in Seq(Waiting) /\ Len(pending_queue') = Len(queue) - n
           /\ \A i \in 1 .. Len(queue) - n : pending_queue'[i] = queue[n + i]
           /\ \A i \in 1 .. n - 1 : ~queue[i].own
           /\ cache' = [e \in Entries |-> IF e \in EvictedBy(queue[n].cmd) THEN 0 ELSE held[e]]
    BY <1>0, <1>4, SendsFacts
  <2>2. Len(queue) \in Nat BY <1>0, LenProperties
  <2>3. GoodVal(in_flight', version') BY <1>0, <2>1 DEF GoodVal
  <2>4. in_flight'.sent <= clock' BY <1>0, <2>1
  <2>5. \A i \in 1 .. Len(pending_queue') : GoodVal(pending_queue'[i], version')
    <3> SUFFICES ASSUME NEW i \in 1 .. Len(pending_queue') PROVE GoodVal(pending_queue'[i], version')
      OBVIOUS
    <3>1. i \in 1 .. Len(queue) - n /\ n + i \in 1 .. Len(queue) BY <2>1, <2>2
    <3> QED BY <1>0, <2>1, <3>1
  <2>6. \A i \in 1 .. Len(line') : GoodVal(line'[i], version')
    <3> SUFFICES ASSUME NEW i \in 1 .. Len(line') PROVE GoodVal(line'[i], version')
      OBVIOUS
    <3>1. i \in 1 .. Len(line) \/ i = Len(line) + 1 BY <1>1, <2>1
    <3> QED BY <1>0, <1>3, <2>1, <3>1
  <2>7. cache' \in [Entries -> 0 .. version'] BY <1>0, <2>1
  <2> QED BY <2>1, <2>3, <2>4, <2>5, <2>6, <2>7, Zenon DEF SlotTypes
<1>5. CASE Rests(queue, held)
  <2>1. in_flight' = NoRequest /\ line' = line /\ cache' = held /\ pending_queue' = << >>
    BY <1>5 DEF Rests
  <2>2. pending_queue' \in Seq(Waiting) /\ ~\E i \in 1 .. Len(pending_queue') : TRUE
    BY <2>1
  <2> QED BY <1>0, <1>1, <1>3, <2>1, <2>2, Zenon DEF SlotTypes
<1>6. CASE Keeps(queue, held)
  <2>1. /\ in_flight = NoRequest => queue = << >>
        /\ in_flight' = in_flight /\ line' = line /\ cache' = held /\ pending_queue' = queue
    BY <1>6 DEF Keeps
  <2>2. in_flight # NoRequest => GoodVal(in_flight, version') /\ in_flight \in Sent /\ in_flight.sent <= clock
    BY <1>2 DEF SlotTypes
  <2> QED BY <1>0, <1>1, <1>3, <2>1, <2>2, Zenon DEF SlotTypes
<1> QED BY <1>0, <1>4, <1>5, <1>6 DEF Moves

\* A request of coresplitter's own is not forgotten: nobody leaves it behind.
LEMMA PromiseKept ==
  ASSUME SlotTypes, NEW queue, NEW held, Ready(queue, held), NEW cs,
         NEW j \in 1 .. Len(queue), queue[j].own, queue[j].cmd \in cs
  PROVE  \/ \E i \in 1 .. Len(pending_queue') : pending_queue'[i].own /\ pending_queue'[i].cmd \in cs
         \/ line' # << >> /\ in_flight'.cmd \in cs
<1>0. /\ clock \in 0 .. MaxTime /\ queue \in Seq(Waiting) /\ Len(queue) \in Nat
      /\ Moves(queue, held) \/ Keeps(queue, held)
  BY LenProperties, Zenon DEF Ready
<1>1. CASE Sends(queue, held)
  <2>1. PICK n \in 1 .. Len(queue) :
           /\ in_flight'.cmd = queue[n].cmd /\ line' # << >>
           /\ Len(pending_queue') = Len(queue) - n
           /\ \A i \in 1 .. Len(queue) - n : pending_queue'[i] = queue[n + i]
           /\ \A i \in 1 .. n - 1 : ~queue[i].own
    BY <1>0, <1>1, SendsFacts
  <2>2. j \in 1 .. n - 1 \/ j = n \/ (j - n \in 1 .. Len(queue) - n /\ n + (j - n) = j) BY <1>0
  <2> QED BY <2>1, <2>2
<1>2. CASE Rests(queue, held) BY <1>2 DEF Rests
<1>3. CASE Keeps(queue, held) BY <1>3, Zenon DEF Keeps
<1> QED BY <1>0, <1>1, <1>2, <1>3 DEF Moves

-----------------------------------------------------------------------------
(* The handlers of the core, as moves of the queue.                        *)

\* The frame f is for the request in flight, ends it, and accepts it.
Mine(f)     == in_flight # NoRequest /\ Belongs(awaiting_for(in_flight.cmd), f.code)
Done(f)     == Mine(f) /\ Completes(awaiting_for(in_flight.cmd), f.code)
Accepted(f) == Done(f) /\ f.code # Error

OwnRefresh(cmd) == [i \in 1 .. Len(RefreshAfter(cmd)) |-> Own(RefreshAfter(cmd)[i])]

Refresh(f) ==
  CASE Accepted(f) -> OwnRefresh(in_flight.cmd)
    [] ~Mine(f)    -> PushRefresh(f)
    [] OTHER       -> << >>

\* handle_radio_rx, for the frame f.
Handles(f) ==
  /\ wire # << >>
  /\ wire' = Tail(wire)
  /\ IF Done(f) \/ (~Mine(f) /\ Kick(f))
     THEN advance_queue(pending_queue \o Refresh(f), cache_response(f))
     ELSE /\ cache' = cache_response(f)
          /\ pending_queue' = pending_queue \o Refresh(f)
          /\ UNCHANGED <<in_flight, line>>
  /\ kv' = IF Entry(f.code, f.arg) \in Blobs THEN [kv EXCEPT ![Entry(f.code, f.arg)] = f.val] ELSE kv
  /\ seen_at' = IF f.code = Contact THEN [seen_at EXCEPT ![f.arg] = clock] ELSE seen_at
  /\ synced_at' = IF Accepted(f) /\ EndsFullSync(in_flight.cmd) THEN in_flight.sent ELSE synced_at
  /\ radio_name' = NameAfter(f, Accepted(f))
  /\ UNCHANGED <<radioVars, clock, doubt, spent>>

\* The handler is that of the first frame on the wire.
LEMMA RxHandles ==
  ASSUME WireTypes, handle_radio_rx
  PROVE  Handles(wire[1]) /\ wire[1] \in Frames /\ GoodFrame(wire[1], version) /\ 1 \in 1 .. Len(wire)
<1>1. Handles(Head(wire))
  BY Zenon DEF handle_radio_rx, Handles, Refresh, OwnRefresh, Mine, Done, Accepted
<1>2. wire \in Seq(Frames) /\ wire # << >> BY <1>1, Zenon DEF Handles, WireTypes
<1>3. Head(wire) = wire[1] /\ wire[1] \in Frames /\ 1 \in 1 .. Len(wire)
  BY <1>2, Shifted
<1>4. GoodFrame(wire[1], version) BY <1>3, Zenon DEF WireTypes
<1> QED BY <1>1, <1>3, <1>4, Zenon

\* A request of coresplitter's own.
LEMMA OwnWaits ==
  ASSUME NEW cmd \in Cmds, cmd.code \notin Setters, NEW last \in Nat
  PROVE  /\ Own(cmd) \in Waiting /\ GoodVal(Own(cmd), last)
         /\ Own(cmd).own /\ Own(cmd).cmd = cmd
BY BoundsAssumption DEF Own, Waiting, GoodVal

\* The commands coresplitter sends are no setters.
LEMMA OwnAsks ==
  /\ FullSync.code \notin Setters
  /\ \A k : ContactSync(k).code \notin Setters
  /\ \A i : ChannelSync(i).code \notin Setters
BY DEF FullSync, ContactSync, ChannelSync, Setters, GetContacts, GetContactByKey, GetChannel,
       SetName, SetChannel, UpdateContact, RemoveContact, ImportContact

\* A queue to which requests of coresplitter's own were added.
OwnOnly(s) == \A i \in 1 .. Len(s) : s[i].own /\ s[i].cmd.code \notin Setters /\ s[i].val = 0

\* What an accepted command has re-read.
LEMMA Refreshed ==
  ASSUME NEW cmd \in Cmds
  PROVE  /\ OwnRefresh(cmd) \in Seq(Waiting)
         /\ OwnOnly(OwnRefresh(cmd))
         /\ cmd.code = UpdateContact =>
              Len(OwnRefresh(cmd)) = 1 /\ OwnRefresh(cmd)[1].cmd = ContactSync(cmd.arg)
         /\ cmd.code = ImportContact =>
              Len(OwnRefresh(cmd)) = 1 /\ OwnRefresh(cmd)[1].cmd = FullSync
<1> USE DEF UpdateContact, ResetPath, ImportContact
<1>1. CASE cmd.code = UpdateContact
  <2>1. RefreshAfter(cmd) = <<ContactSync(cmd.arg)>> BY <1>1 DEF RefreshAfter
  <2>2. OwnRefresh(cmd) = <<Own(ContactSync(cmd.arg))>> BY <2>1 DEF OwnRefresh
  <2>3. cmd.arg \in Contacts
    BY <1>1, CommandKinds DEF GetContacts, AppStart, GetBattery, DeviceQuery, GetContactByKey,
       GetChannel, SetChannel, SetName
  <2>4. Own(ContactSync(cmd.arg)) \in Waiting BY <2>3, OwnCommands, OwnWaits, OwnAsks
  <2>5. /\ Own(ContactSync(cmd.arg)).own /\ Own(ContactSync(cmd.arg)).cmd = ContactSync(cmd.arg)
        /\ Own(ContactSync(cmd.arg)).val = 0
    BY DEF Own
  <2> QED BY <1>1, <2>2, <2>4, <2>5, OwnAsks DEF OwnOnly
<1>2. CASE cmd.code = ImportContact
  <2>1. RefreshAfter(cmd) = <<FullSync>> BY <1>2 DEF RefreshAfter
  <2>2. OwnRefresh(cmd) = <<Own(FullSync)>> BY <2>1 DEF OwnRefresh
  <2>4. Own(FullSync) \in Waiting BY OwnCommands, OwnWaits, OwnAsks
  <2>5. Own(FullSync).own /\ Own(FullSync).cmd = FullSync /\ Own(FullSync).val = 0
    BY DEF Own
  <2> QED BY <1>2, <2>2, <2>4, <2>5, OwnAsks DEF OwnOnly
<1>3. CASE cmd.code # UpdateContact /\ cmd.code # ImportContact
  <2>1. cmd.code # ResetPath
    BY CommandKinds DEF GetContacts, AppStart, GetBattery, DeviceQuery, GetContactByKey,
       GetChannel, SetChannel, SetName, RemoveContact
  <2>2. RefreshAfter(cmd) = << >> BY <1>3, <2>1 DEF RefreshAfter
  <2>3. OwnRefresh(cmd) = << >> BY <2>2 DEF OwnRefresh
  <2> QED BY <1>3, <2>3 DEF OwnOnly
<1> QED BY <1>1, <1>2, <1>3

\* What a frame has re-read.
LEMMA RefreshWaits ==
  ASSUME SlotTypes, NEW f \in Frames, f.code = Advertisement => f.arg \in Contacts
  PROVE  /\ Refresh(f) \in Seq(Waiting)
         /\ OwnOnly(Refresh(f))
         /\ ~Mine(f) /\ Push(f) => Refresh(f) = <<Own(ContactSync(f.arg))>>
         /\ ~Mine(f) /\ ~Push(f) => Refresh(f) = << >>
         /\ Mine(f) /\ ~Accepted(f) => Refresh(f) = << >>
         /\ Accepted(f) => Refresh(f) = OwnRefresh(in_flight.cmd)
<1>1. PushRefresh(f) = IF Push(f) THEN <<Own(ContactSync(f.arg))>> ELSE << >>
  BY DEF PushRefresh, Push, Frames, Codes, CachedCodes, Advertisement, PathUpdate, Ok, Error,
         ContactEnd, Contact, SelfInfo, Battery, DeviceInfo, ChannelInfo
<1>2. Accepted(f) => Mine(f) BY DEF Accepted, Done
<1>3. Accepted(f) => Refresh(f) = OwnRefresh(in_flight.cmd) BY <1>2 DEF Refresh
<1>4. ~Mine(f) => Refresh(f) = PushRefresh(f) BY <1>2 DEF Refresh
<1>5. Mine(f) /\ ~Accepted(f) => Refresh(f) = << >> BY DEF Refresh
<1>6. Push(f) => /\ <<Own(ContactSync(f.arg))>> \in Seq(Waiting)
                 /\ OwnOnly(<<Own(ContactSync(f.arg))>>)
  <2> SUFFICES ASSUME Push(f)
               PROVE  /\ <<Own(ContactSync(f.arg))>> \in Seq(Waiting)
                      /\ OwnOnly(<<Own(ContactSync(f.arg))>>)
    OBVIOUS
  <2>1. f.arg \in Contacts BY DEF Push
  <2>2. Own(ContactSync(f.arg)) \in Waiting BY <2>1, OwnCommands, OwnWaits, OwnAsks
  <2>3. /\ Own(ContactSync(f.arg)).own /\ Own(ContactSync(f.arg)).cmd = ContactSync(f.arg)
        /\ Own(ContactSync(f.arg)).val = 0
    BY DEF Own
  <2> QED BY <2>2, <2>3, OwnAsks DEF OwnOnly
<1>7. << >> \in Seq(Waiting) /\ OwnOnly(<< >>) BY DEF OwnOnly
<1>8. Accepted(f) => in_flight.cmd \in Cmds
  BY DEF Accepted, Done, Mine, SlotTypes, Sent
<1>9. Accepted(f) => OwnRefresh(in_flight.cmd) \in Seq(Waiting) /\ OwnOnly(OwnRefresh(in_flight.cmd))
  BY <1>8, Refreshed
<1> QED BY <1>1, <1>2, <1>3, <1>4, <1>5, <1>6, <1>7, <1>9, Zenon

\* The queue has what it had, and in that order.
Extended(queue) ==
  \A i \in 1 .. Len(pending_queue) : i \in 1 .. Len(queue) /\ queue[i] = pending_queue[i]

\* The cache after a frame.
LEMMA CacheAfter ==
  ASSUME CacheTypes, RadioTypes, NEW f \in Frames, GoodFrame(f, version)
  PROVE  /\ cache_response(f) \in [Entries -> 0 .. version]
         /\ \A e \in Entries :
              cache_response(f)[e] = IF e = Entry(f.code, f.arg) THEN f.val ELSE cache[e]
<1>1. version \in Nat /\ f.val \in 0 .. version BY DEF RadioTypes, Frames, GoodFrame
<1>2. cache \in [Entries -> 0 .. version] BY DEF CacheTypes
<1> DEFINE x == Entry(f.code, f.arg)
<1>3. CASE f.code \in CachedCodes
  <2>1. cache_response(f) = [cache EXCEPT ![x] = f.val] BY <1>3 DEF cache_response
  <2> HIDE DEF x
  <2>2. /\ [cache EXCEPT ![x] = f.val] \in [Entries -> 0 .. version]
        /\ \A e \in Entries : [cache EXCEPT ![x] = f.val][e] = IF e = x THEN f.val ELSE cache[e]
    BY <1>1, <1>2
  <2> QED BY <2>1, <2>2 DEF x
<1>4. CASE f.code \notin CachedCodes
  <2>1. cache_response(f) = cache BY <1>4 DEF cache_response
  <2>2. x.code = f.code BY DEF Entry
  <2>3. \A e \in Entries : e # x BY <1>4, <2>2, EntryKinds
  <2> QED BY <1>2, <2>1, <2>3
<1> QED BY <1>3, <1>4

\* Requests added to the queue.
LEMMA QueueGrows ==
  ASSUME SlotTypes, NEW s \in Seq(Waiting), OwnOnly(s), NEW last \in Nat, version <= last,
         version \in Nat
  PROVE  /\ pending_queue \o s \in Seq(Waiting)
         /\ \A i \in 1 .. Len(pending_queue \o s) : GoodVal((pending_queue \o s)[i], last)
         /\ Extended(pending_queue \o s)
         /\ Len(pending_queue) \in Nat /\ Len(s) \in Nat
         /\ \A i \in 1 .. Len(s) : /\ Len(pending_queue) + i \in 1 .. Len(pending_queue \o s)
                                   /\ (pending_queue \o s)[Len(pending_queue) + i] = s[i]
<1> DEFINE q == pending_queue \o s
<1>1. /\ pending_queue \in Seq(Waiting)
      /\ \A i \in 1 .. Len(pending_queue) : GoodVal(pending_queue[i], version)
  BY DEF SlotTypes
<1>2. /\ q \in Seq(Waiting)
      /\ Len(pending_queue) \in Nat /\ Len(s) \in Nat /\ Len(q) = Len(pending_queue) + Len(s)
      /\ \A i \in 1 .. Len(pending_queue) : q[i] = pending_queue[i]
      /\ \A i \in 1 .. Len(s) : q[Len(pending_queue) + i] = s[i]
      /\ \A i \in 1 .. Len(q) :
           i \in 1 .. Len(pending_queue) \/ (i - Len(pending_queue) \in 1 .. Len(s)
                                             /\ q[i] = s[i - Len(pending_queue)])
  BY <1>1, Joined
<1> HIDE DEF q
<1>3. \A i \in 1 .. Len(pending_queue) : pending_queue[i] \in Waiting BY <1>1, Elements
<1>4. \A i \in 1 .. Len(pending_queue) : GoodVal(pending_queue[i], last)
  BY <1>1, <1>3 DEF GoodVal, Waiting
<1>5. \A i \in 1 .. Len(s) : GoodVal(s[i], last) BY DEF OwnOnly, GoodVal
<1>6. \A i \in 1 .. Len(q) : GoodVal(q[i], last) BY <1>2, <1>4, <1>5
<1>7. Extended(q) BY <1>2 DEF Extended
<1>8. \A i \in 1 .. Len(s) : Len(pending_queue) + i \in 1 .. Len(q) BY <1>2
<1> QED BY <1>2, <1>6, <1>7, <1>8 DEF q

\* The handler moves the queue if the request in flight is done, or if a push
\* finds the radio idle.
Idles(f) == in_flight = NoRequest /\ Push(f)

\* The handler as a move of the queue.
LEMMA RxMoves ==
  ASSUME BaseInv, NEW f, f = wire[1], f \in Frames, GoodFrame(f, version), Handles(f)
  PROVE  /\ Ready(pending_queue \o Refresh(f), cache_response(f))
         /\ Extended(pending_queue \o Refresh(f))
         /\ Done(f) \/ Idles(f) => Moves(pending_queue \o Refresh(f), cache_response(f))
         /\ ~(Done(f) \/ Idles(f)) => Keeps(pending_queue \o Refresh(f), cache_response(f))
<1> DEFINE q == pending_queue \o Refresh(f)
           h == cache_response(f)
<1>1. SlotTypes /\ CacheTypes /\ RadioTypes BY DEF BaseInv
<1>2. f.code = Advertisement => f.arg \in Contacts BY DEF GoodFrame
<1>3. /\ Refresh(f) \in Seq(Waiting) /\ OwnOnly(Refresh(f))
      /\ ~Mine(f) /\ ~Push(f) => Refresh(f) = << >>
      /\ Mine(f) /\ ~Accepted(f) => Refresh(f) = << >>
  BY <1>1, <1>2, RefreshWaits
<1>4. /\ version \in Nat /\ version' = version /\ clock' = clock /\ clock \in 0 .. MaxTime
  <2>1. version' = version /\ clock' = clock BY Zenon DEF Handles, radioVars
  <2> QED BY <1>1, <2>1 DEF RadioTypes
<1>5. /\ q \in Seq(Waiting) /\ Extended(q)
      /\ \A i \in 1 .. Len(q) : GoodVal(q[i], version')
  BY <1>1, <1>3, <1>4, QueueGrows
<1>6. h \in [Entries -> 0 .. version'] BY <1>1, <1>4, CacheAfter
<1>7. Kick(f) <=> in_flight = NoRequest /\ Push(f)
  BY DEF Kick, PushRefresh, Push, Frames, Codes, CachedCodes, Advertisement, PathUpdate, Ok, Error,
         ContactEnd, Contact, SelfInfo, Battery, DeviceInfo, ChannelInfo
<1>8. Idles(f) <=> ~Mine(f) /\ Kick(f) BY <1>7 DEF Idles, Mine
<1> HIDE DEF q, h
<1>9. Done(f) \/ Idles(f) => Moves(q, h)
  <2> SUFFICES ASSUME Done(f) \/ Idles(f) PROVE Moves(q, h) OBVIOUS
  <2>1. advance_queue(q, h) BY <1>8, Zenon DEF Handles, q, h
  <2> QED BY <1>5, <2>1, AdvanceMoves
<1>10. ~(Done(f) \/ Idles(f)) => Keeps(q, h)
  <2> SUFFICES ASSUME ~(Done(f) \/ Idles(f)) PROVE Keeps(q, h) OBVIOUS
  <2>1. cache' = h /\ pending_queue' = q /\ in_flight' = in_flight /\ line' = line
    BY <1>8, Zenon DEF Handles, q, h
  <2>2. in_flight = NoRequest => q = << >>
    <3> SUFFICES ASSUME in_flight = NoRequest PROVE q = << >> OBVIOUS
    <3>1. ~Mine(f) /\ ~Push(f) BY DEF Mine, Idles
    <3>2. Refresh(f) = << >> /\ pending_queue = << >> BY <1>1, <1>3, <3>1 DEF SlotTypes
    <3> QED BY <3>2 DEF q
  <2> QED BY <2>1, <2>2 DEF Keeps
<1>11. Moves(q, h) \/ Keeps(q, h) BY <1>9, <1>10
<1>12. version <= version' /\ version' \in Nat BY <1>4
<1>13. Ready(q, h) BY <1>4, <1>5, <1>6, <1>11, <1>12, Zenon DEF Ready
<1> QED BY <1>5, <1>9, <1>10, <1>13 DEF q, h

-----------------------------------------------------------------------------
(* Types, action by action.                                                *)

Ledger == [reads : Nat, maintenance : Nat, losses : Nat, timeouts : Nat, refusals : Nat]

\* What is spent is counted.
LEMMA Spending ==
  ASSUME spent \in Ledger, NEW what \in {"reads", "maintenance", "losses", "timeouts", "refusals"},
         Spend(what)
  PROVE  /\ spent' \in Ledger
         /\ what # "timeouts" => spent'.timeouts = spent.timeouts
         /\ what = "timeouts" => spent'.timeouts # 0
BY DEF Spend, Ledger

\* The wire with a frame less, as it was, and with frames more.
LEMMA WireTail ==
  ASSUME WireTypes, wire # << >>, wire' = Tail(wire), version' = version
  PROVE  WireTypes'
<1>1. wire \in Seq(Frames) /\ \A i \in 1 .. Len(wire) : GoodFrame(wire[i], version) BY DEF WireTypes
<1>2. /\ wire' \in Seq(Frames)
      /\ \A i \in 1 .. Len(wire') : wire'[i] = wire[i + 1] /\ i + 1 \in 1 .. Len(wire)
  BY <1>1, Shifted
<1>3. \A i \in 1 .. Len(wire') : GoodFrame(wire'[i], version') BY <1>1, <1>2
<1> QED BY <1>2, <1>3 DEF WireTypes

\* The wire with frames more.
LEMMA WireMore ==
  ASSUME WireTypes, version \in Nat, version' \in Nat, version <= version',
         NEW fs \in Seq(Frames), \A i \in 1 .. Len(fs) : GoodFrame(fs[i], version'),
         wire' = wire \o fs
  PROVE  WireTypes'
<1>1. wire \in Seq(Frames) /\ \A i \in 1 .. Len(wire) : GoodFrame(wire[i], version) BY DEF WireTypes
<1>2. /\ wire' \in Seq(Frames) /\ Len(wire) \in Nat
      /\ \A i \in 1 .. Len(wire) : wire'[i] = wire[i]
      /\ \A i \in 1 .. Len(wire') :
           i \in 1 .. Len(wire) \/ (i - Len(wire) \in 1 .. Len(fs) /\ wire'[i] = fs[i - Len(wire)])
  BY <1>1, Joined
<1>3. \A i \in 1 .. Len(wire) : wire[i] \in Frames BY <1>1, Elements
<1>4. \A i \in 1 .. Len(wire) : GoodFrame(wire[i], version') BY <1>1, <1>3 DEF GoodFrame, Frames
<1>5. \A i \in 1 .. Len(wire') : GoodFrame(wire'[i], version') BY <1>1, <1>2, <1>4
<1> QED BY <1>2, <1>5 DEF WireTypes

\* The wire as it was.
LEMMA WireSame ==
  ASSUME WireTypes, version \in Nat, version' \in Nat, version <= version', wire' = wire
  PROVE  WireTypes'
<1>1. wire \in Seq(Frames) /\ \A i \in 1 .. Len(wire) : GoodFrame(wire[i], version) BY DEF WireTypes
<1>2. \A i \in 1 .. Len(wire) : wire[i] \in Frames BY <1>1, Elements
<1>3. \A i \in 1 .. Len(wire) : GoodFrame(wire[i], version') BY <1>1, <1>2 DEF GoodFrame, Frames
<1> QED BY <1>1, <1>3, Zenon DEF WireTypes

\* A step of the radio that gives out a version, if any.
LEMMA SlotSame ==
  ASSUME SlotTypes, version \in Nat, version' \in Nat, version <= version',
         in_flight' = in_flight, pending_queue' = pending_queue, line' = line,
         clock \in Nat, clock' \in Nat, clock <= clock'
  PROVE  SlotTypes'
<1>1. /\ pending_queue \in Seq(Waiting) /\ line \in Seq(Waiting)
      /\ \A i \in 1 .. Len(pending_queue) : pending_queue[i] \in Waiting
      /\ \A i \in 1 .. Len(line) : line[i] \in Waiting
  BY Elements DEF SlotTypes
<1>2. \A r \in Waiting \cup Sent : GoodVal(r, version) => GoodVal(r, version')
  BY DEF GoodVal, Waiting, Sent
<1>3. in_flight # NoRequest => in_flight \in Sent /\ in_flight.sent <= clock' /\ GoodVal(in_flight, version')
  BY <1>2 DEF SlotTypes, Sent
<1>4. /\ \A i \in 1 .. Len(pending_queue) : GoodVal(pending_queue[i], version')
      /\ \A i \in 1 .. Len(line) : GoodVal(line[i], version')
  BY <1>1, <1>2 DEF SlotTypes
<1> QED BY <1>1, <1>3, <1>4, Zenon DEF SlotTypes

\* The cache and the radio while versions and the clock go on.
LEMMA CacheSame ==
  ASSUME CacheTypes, RadioTypes, version' \in Nat, version <= version', clock' \in Nat, clock <= clock',
         kv' = kv, seen_at' = seen_at, synced_at' = synced_at, radio_name' = radio_name,
         cache' \in [Entries -> 0 .. version']
  PROVE  CacheTypes'
<1>1. version \in Nat /\ clock \in Nat BY DEF RadioTypes
<1>2. kv \in [Blobs -> 0 .. version'] BY <1>1 DEF CacheTypes
<1>3. seen_at \in [Contacts -> 0 .. clock'] BY <1>1 DEF CacheTypes
<1>4. synced_at \in Never .. clock' BY <1>1 DEF CacheTypes, Never
<1>5. radio_name \in 1 .. version' BY <1>1 DEF CacheTypes
<1> QED BY <1>2, <1>3, <1>4, <1>5, Zenon DEF CacheTypes

\* A new request of a client.
LEMMA ClientMoves ==
  ASSUME BaseInv, NEW r \in Waiting, enqueue_or_dispatch(r), version' \in Nat, version <= version',
         clock' = clock, GoodVal(r, version')
  PROVE  \E queue : /\ Ready(queue, cache) /\ Extended(queue)
                    /\ in_flight = NoRequest => Moves(queue, cache)
                    /\ in_flight # NoRequest => Keeps(queue, cache)
<1>1. SlotTypes /\ version \in Nat /\ clock \in 0 .. MaxTime BY DEF BaseInv, RadioTypes
<1>2. cache \in [Entries -> 0 .. version'] BY <1>1 DEF BaseInv, CacheTypes
<1>3. CASE in_flight = NoRequest
  <2> DEFINE q == <<r>>
  <2>1. Moves(q, cache) BY <1>1, <1>3, EnqueueMoves
  <2>2. pending_queue = << >> BY <1>1, <1>3 DEF SlotTypes
  <2>3. q \in Seq(Waiting) /\ Len(q) = 1 /\ q[1] = r BY Single
  <2> HIDE DEF q
  <2>4. Extended(q) BY <2>2 DEF Extended
  <2>5. \A i \in 1 .. Len(q) : GoodVal(q[i], version') BY <2>3
  <2>6. Ready(q, cache) BY <1>1, <1>2, <2>1, <2>3, <2>5, Zenon DEF Ready
  <2> QED BY <1>3, <2>1, <2>4, <2>6
<1>4. CASE in_flight # NoRequest
  <2> DEFINE q == Append(pending_queue, r)
  <2>1. Keeps(q, cache) BY <1>1, <1>4, EnqueueMoves
  <2>2. pending_queue \in Seq(Waiting) BY <1>1 DEF SlotTypes
  <2>3. /\ q \in Seq(Waiting) /\ Len(pending_queue) \in Nat /\ Len(q) = Len(pending_queue) + 1
        /\ \A i \in 1 .. Len(pending_queue) : q[i] = pending_queue[i]
        /\ q[Len(pending_queue) + 1] = r
    BY <2>2, Appended, LenProperties
  <2> HIDE DEF q
  <2>4. Extended(q) BY <2>3 DEF Extended
  <2>5. \A i \in 1 .. Len(pending_queue) : pending_queue[i] \in Waiting /\ GoodVal(pending_queue[i], version)
    BY <1>1, <2>2, Elements DEF SlotTypes
  <2>6. \A i \in 1 .. Len(pending_queue) : GoodVal(pending_queue[i], version')
    BY <1>1, <2>5 DEF GoodVal, Waiting
  <2>7. \A i \in 1 .. Len(q) : GoodVal(q[i], version')
    <3> SUFFICES ASSUME NEW i \in 1 .. Len(q) PROVE GoodVal(q[i], version') OBVIOUS
    <3>1. i \in 1 .. Len(pending_queue) \/ i = Len(pending_queue) + 1 BY <2>3
    <3> QED BY <2>3, <2>6, <3>1
  <2>8. Ready(q, cache) BY <1>1, <1>2, <2>1, <2>3, <2>7, Zenon DEF Ready
  <2> QED BY <1>4, <2>1, <2>4, <2>8
<1> QED BY <1>3, <1>4

-----------------------------------------------------------------------------
(* Steps of the core that take no reply of the radio.                      *)

\* A command comes, maintenance runs or a push is handled: the queue moves if
\* the radio is idle, and of the cache at most contacts are purged that the
\* last complete sync has not seen.
Core(queue, held) ==
  /\ Ready(queue, held) /\ Extended(queue)
  /\ in_flight = NoRequest => Moves(queue, held)
  /\ in_flight # NoRequest => Keeps(queue, held)
  /\ \A e \in Entries :
       \/ held[e] = cache[e]
       \/ held[e] = 0 /\ e \in ContactEntries /\ seen_at[e.arg] < synced_at
  /\ \/ wire' = wire
     \/ /\ wire # << >> /\ Push(wire[1]) /\ wire' = Tail(wire) /\ version' = version
        /\ \E j \in 1 .. Len(queue) : queue[j].own /\ queue[j].cmd = ContactSync(wire[1].arg)
  /\ UNCHANGED <<radio, removed, since, doubt, kv, seen_at, synced_at, radio_name>>
  /\ spent' \in Ledger /\ spent'.timeouts = spent.timeouts

\* Types, after such a step.
LEMMA CoreBase ==
  ASSUME BaseInv, NEW queue, NEW held, Core(queue, held)
  PROVE  BaseInv'
<1>1. Ready(queue, held) BY Zenon DEF Core
<1>2. /\ clock \in 0 .. MaxTime /\ clock' = clock
      /\ version \in Nat /\ version' \in Nat /\ version <= version'
  BY <1>1, Zenon DEF Ready
<1>3. SlotTypes' /\ cache' \in [Entries -> 0 .. version'] BY <1>1, MovedSlot DEF BaseInv
<1>4. UNCHANGED <<radio, removed, since, doubt, kv, seen_at, synced_at, radio_name>> /\ spent' \in Ledger
  BY Zenon DEF Core
<1>5. CacheTypes'
  <2>1. clock' \in Nat /\ clock <= clock' BY <1>2
  <2> QED BY <1>2, <1>3, <1>4, <2>1, CacheSame DEF BaseInv
<1>6. RadioTypes'
  <2>1. radio \in [Entries -> 0 .. version'] /\ version' \in Nat \ {0} BY <1>2 DEF BaseInv, RadioTypes
  <2> QED BY <1>2, <1>4, <2>1, Zenon DEF BaseInv, RadioTypes, Ledger
<1>7. WireTypes'
  <2>1. CASE wire' = wire BY <1>2, <2>1, WireSame DEF BaseInv
  <2>2. CASE wire # << >> /\ wire' = Tail(wire) /\ version' = version
    BY <2>2, WireTail DEF BaseInv
  <2> QED BY <2>1, <2>2, Zenon DEF Core
<1> QED BY <1>3, <1>5, <1>6, <1>7 DEF BaseInv

\* A query is one.
LEMMA QueryCore ==
  ASSUME BaseInv, NEW cmd \in Commands, Query(cmd)
  PROVE  \E queue : Core(queue, cache)
<1>1. /\ cmd.code \in Queried /\ Spend("reads") /\ enqueue_or_dispatch(Request(cmd, 0))
      /\ UNCHANGED <<radio, version, removed, since, kv, seen_at, synced_at, radio_name, wire, clock, doubt>>
  BY Zenon DEF Query, radioVars
<1>2. version \in Nat /\ spent \in Ledger BY DEF BaseInv, RadioTypes, Ledger
<1>3. version' \in Nat /\ version <= version' BY <1>1, <1>2
<1>4. cmd.code \notin Setters
  BY <1>1 DEF Queried, Setters, GetContacts, AppStart, GetBattery, DeviceQuery, GetChannel,
       SetName, SetChannel, UpdateContact, RemoveContact, ImportContact
<1>5. Request(cmd, 0) \in Waiting /\ GoodVal(Request(cmd, 0), version')
  BY <1>3, <1>4, OwnCommands, BoundsAssumption DEF Request, Waiting, GoodVal
<1>6. PICK queue : /\ Ready(queue, cache) /\ Extended(queue)
                   /\ in_flight = NoRequest => Moves(queue, cache)
                   /\ in_flight # NoRequest => Keeps(queue, cache)
  BY <1>1, <1>3, <1>5, ClientMoves
<1>7. spent' \in Ledger /\ spent'.timeouts = spent.timeouts BY <1>1, <1>2, Spending
<1> QED BY <1>1, <1>6, <1>7, Zenon DEF Core

\* A change is one.
LEMMA ChangeCore ==
  ASSUME BaseInv, NEW cmd \in Commands, Change(cmd)
  PROVE  \E queue : Core(queue, cache)
<1>1. /\ cmd.code \notin Queried /\ version < MaxVersions /\ version' = version + 1
      /\ enqueue_or_dispatch(Request(cmd, version'))
      /\ UNCHANGED <<radio, removed, since, kv, seen_at, synced_at, radio_name, wire, clock, doubt, spent>>
  BY Zenon DEF Change
<1>2. version \in Nat /\ spent \in Ledger BY DEF BaseInv, RadioTypes, Ledger
<1>3. version' \in Nat /\ version <= version' /\ version' # 0 /\ version' \in 0 .. MaxVersions
  BY <1>1, <1>2, BoundsAssumption
<1>5. Request(cmd, version') \in Waiting /\ GoodVal(Request(cmd, version'), version')
  BY <1>3, OwnCommands DEF Request, Waiting, GoodVal
<1>6. PICK queue : /\ Ready(queue, cache) /\ Extended(queue)
                   /\ in_flight = NoRequest => Moves(queue, cache)
                   /\ in_flight # NoRequest => Keeps(queue, cache)
  <2> DEFINE r == Request(cmd, version')
  <2>1. r \in Waiting /\ GoodVal(r, version') /\ enqueue_or_dispatch(r) BY <1>1, <1>5
  <2> HIDE DEF r
  <2> QED BY <1>1, <1>3, <2>1, ClientMoves
<1>7. spent' \in Ledger /\ spent'.timeouts = spent.timeouts BY <1>1, <1>2
<1> QED BY <1>1, <1>6, <1>7, Zenon DEF Core

\* The purge spares what the last complete sync has seen.
LEMMA PurgeAge ==
  ASSUME CacheTypes, RadioTypes
  PROVE  PurgeBefore \in Int /\ PurgeBefore <= synced_at
<1>1. synced_at \in Int /\ clock \in Int /\ Retention \in Nat
  BY RetentionAssumption DEF CacheTypes, RadioTypes, Never
<1> QED BY <1>1 DEF PurgeBefore, Never

\* Maintenance is one.
LEMMA MaintenanceCore ==
  ASSUME BaseInv, run_maintenance
  PROVE  \E queue, held : Core(queue, held)
<1> DEFINE held == [e \in Entries |-> IF e \in ContactEntries /\ seen_at[e.arg] < PurgeBefore
                                      THEN 0 ELSE cache[e]]
           asked == \E r \in {in_flight} \cup ToSet(pending_queue) : r.cmd = FullSync
           more == IF asked THEN << >> ELSE <<Own(FullSync)>>
           q == pending_queue \o more
<1>1. SlotTypes /\ CacheTypes /\ RadioTypes BY DEF BaseInv
<1>2. /\ Spend("maintenance")
      /\ UNCHANGED <<radio, version, removed, since, kv, seen_at, synced_at, radio_name, wire, clock, doubt>>
  BY Zenon DEF run_maintenance, radioVars
<1>3. version \in Nat /\ spent \in Ledger /\ version' = version /\ clock' = clock /\ clock \in 0 .. MaxTime
  BY <1>1, <1>2 DEF RadioTypes, Ledger
<1>4. more \in Seq(Waiting) /\ OwnOnly(more)
  <2>1. << >> \in Seq(Waiting) /\ OwnOnly(<< >>) BY DEF OwnOnly
  <2>2. Own(FullSync) \in Waiting /\ Own(FullSync).own /\ Own(FullSync).cmd = FullSync /\ Own(FullSync).val = 0
    BY OwnCommands, OwnWaits, OwnAsks DEF Own
  <2>3. <<Own(FullSync)>> \in Seq(Waiting) /\ OwnOnly(<<Own(FullSync)>>)
    BY <2>2, OwnAsks DEF OwnOnly
  <2> QED BY <2>1, <2>3
<1>5. q = IF asked THEN pending_queue ELSE Append(pending_queue, Own(FullSync))
  <2>1. pending_queue \in Seq(Waiting) /\ Own(FullSync) \in Waiting
    BY <1>1, OwnCommands, OwnWaits, OwnAsks DEF SlotTypes
  <2>2. pending_queue \o << >> = pending_queue BY <2>1, ConcatEmptySeq
  <2>3. pending_queue \o <<Own(FullSync)>> = Append(pending_queue, Own(FullSync))
    BY <2>1, AppendIsConcat
  <2> QED BY <2>2, <2>3
<1> HIDE DEF asked, more
<1>6. IF in_flight = NoRequest
      THEN advance_queue(q, held)
      ELSE pending_queue' = q /\ cache' = held /\ UNCHANGED <<in_flight, line>>
  BY <1>5, Zenon DEF run_maintenance, asked
<1>7. /\ q \in Seq(Waiting) /\ Extended(q) /\ \A i \in 1 .. Len(q) : GoodVal(q[i], version')
  BY <1>1, <1>3, <1>4, QueueGrows
<1>8. held \in [Entries -> 0 .. version'] BY <1>1, <1>3 DEF CacheTypes
<1>9. \A e \in Entries : \/ held[e] = cache[e]
                         \/ held[e] = 0 /\ e \in ContactEntries /\ seen_at[e.arg] < synced_at
  <2> SUFFICES ASSUME NEW e \in Entries, held[e] # cache[e]
               PROVE  held[e] = 0 /\ e \in ContactEntries /\ seen_at[e.arg] < synced_at
    BY Zenon
  <2>1. held[e] = 0 /\ e \in ContactEntries /\ seen_at[e.arg] < PurgeBefore OBVIOUS
  <2>2. e.arg \in Contacts BY <2>1, EntryKinds
  <2>3. seen_at[e.arg] \in Int /\ synced_at \in Int /\ PurgeBefore \in Int /\ PurgeBefore <= synced_at
    BY <1>1, <2>2, PurgeAge DEF CacheTypes, RadioTypes, Never
  <2>4. seen_at[e.arg] < synced_at BY <2>1, <2>3
  <2> QED BY <2>1, <2>4
<1> HIDE DEF held, q
<1>10. in_flight = NoRequest => Moves(q, held) BY <1>6, <1>7, AdvanceMoves
<1>11. in_flight # NoRequest => Keeps(q, held) BY <1>6, Zenon DEF Keeps
<1>12. version' \in Nat /\ version <= version' BY <1>3
<1>13. Ready(q, held) BY <1>3, <1>7, <1>8, <1>10, <1>11, <1>12, Zenon DEF Ready
<1>14. spent' \in Ledger /\ spent'.timeouts = spent.timeouts BY <1>2, <1>3, Spending
<1>15. Core(q, held) BY <1>2, <1>7, <1>9, <1>10, <1>11, <1>13, <1>14, Zenon DEF Core
<1> QED BY <1>15

\* A push is handled as one.
LEMMA PushCore ==
  ASSUME BaseInv, NEW f, f = wire[1], f \in Frames, GoodFrame(f, version), Handles(f), Push(f)
  PROVE  \E queue : Core(queue, cache)
<1> DEFINE q == pending_queue \o Refresh(f)
<1>1. SlotTypes /\ CacheTypes /\ RadioTypes BY DEF BaseInv
<1>2. f.arg \in Contacts BY DEF GoodFrame, Push
<1>3. ~Mine(f)
  <2>1. in_flight # NoRequest => in_flight.cmd \in Cmds BY <1>1 DEF SlotTypes, Sent
  <2> QED BY <2>1, Classified DEF Mine, Push
<1>4. Refresh(f) = <<Own(ContactSync(f.arg))>> /\ Refresh(f) \in Seq(Waiting) /\ OwnOnly(Refresh(f))
  BY <1>1, <1>2, <1>3, RefreshWaits
<1>5. cache_response(f) = cache
  BY DEF cache_response, Push, Advertisement, CachedCodes, Contact, SelfInfo, Battery, DeviceInfo, ChannelInfo
<1>6. /\ Ready(q, cache) /\ Extended(q)
      /\ in_flight = NoRequest => Moves(q, cache)
      /\ in_flight # NoRequest => Keeps(q, cache)
  BY <1>3, <1>5, RxMoves DEF Idles, Done
<1>7. \E j \in 1 .. Len(q) : q[j].own /\ q[j].cmd = ContactSync(wire[1].arg)
  <2>1. version \in Nat /\ version <= version BY <1>1 DEF RadioTypes
  <2>2. \A i \in 1 .. Len(Refresh(f)) : /\ Len(pending_queue) + i \in 1 .. Len(q)
                                        /\ q[Len(pending_queue) + i] = Refresh(f)[i]
    BY <1>1, <1>4, <2>1, QueueGrows
  <2>3. 1 \in 1 .. Len(Refresh(f)) /\ Refresh(f)[1] = Own(ContactSync(f.arg)) BY <1>4
  <2>4. Own(ContactSync(f.arg)).own /\ Own(ContactSync(f.arg)).cmd = ContactSync(f.arg) BY DEF Own
  <2> HIDE DEF q
  <2>5. q[Len(pending_queue) + 1] = Own(ContactSync(f.arg)) /\ Len(pending_queue) + 1 \in 1 .. Len(q)
    BY <2>2, <2>3
  <2> QED BY <2>4, <2>5
<1>8. /\ wire # << >> /\ wire' = Tail(wire)
      /\ UNCHANGED <<radio, version, removed, since, doubt, spent>>
  BY Zenon DEF Handles, radioVars
<1>9. kv' = kv /\ seen_at' = seen_at /\ synced_at' = synced_at
  <2>1. ~Accepted(f) BY <1>3 DEF Accepted, Done
  <2>2. f.code # Contact BY DEF Push, Advertisement, Contact
  <2>3. Entry(f.code, f.arg) \notin Blobs
    BY DEF Push, Blobs, Entry, Advertisement, SelfInfo, Battery, DeviceInfo
  <2> QED BY <2>1, <2>2, <2>3, Zenon DEF Handles
<1>10. radio_name' = radio_name
  <2>1. ~Accepted(f) BY <1>3 DEF Accepted, Done
  <2>2. radio_name' = NameAfter(f, Accepted(f)) BY Zenon DEF Handles
  <2>3. f.code # SelfInfo BY DEF Push, Advertisement, SelfInfo
  <2> QED BY <2>1, <2>2, <2>3 DEF NameAfter
<1>11. spent' \in Ledger /\ spent'.timeouts = spent.timeouts BY <1>1, <1>8 DEF RadioTypes, Ledger
<1>12. \A e \in Entries : cache[e] = cache[e] OBVIOUS
<1> HIDE DEF q
<1>13. Core(q, cache) BY <1>6, <1>7, <1>8, <1>9, <1>10, <1>11, <1>12, Zenon DEF Core
<1> QED BY <1>13

\* The radio is given the next request, or none: in the terms of the invariant.
Starts(held) ==
  /\ in_flight' \in Sent /\ in_flight' # NoRequest
  /\ in_flight'.cmd \in Cmds /\ in_flight'.sent = clock
  /\ Len(line') = 1 /\ line' # << >>
  /\ line'[1].cmd = in_flight'.cmd /\ line'[1].val = in_flight'.val
  /\ \A e \in Entries : cache'[e] = IF e \in EvictedBy(in_flight'.cmd) THEN 0 ELSE held[e]

Stops(held) == in_flight' = NoRequest /\ line' = << >> /\ cache' = held

\* A move of the queue starts the next request or stops.
LEMMA MovesOn ==
  ASSUME SlotTypes, NEW queue, NEW held, Ready(queue, held), Moves(queue, held), line = << >>
  PROVE  Starts(held) \/ Stops(held)
<1>1. clock \in 0 .. MaxTime /\ queue \in Seq(Waiting) BY Zenon DEF Ready
<1>2. CASE Sends(queue, held)
  <2>1. PICK n \in 1 .. Len(queue) :
           /\ queue[n] \in Waiting
           /\ in_flight' \in Sent /\ in_flight' # NoRequest
           /\ in_flight'.cmd = queue[n].cmd /\ in_flight'.val = queue[n].val
           /\ in_flight'.sent = clock /\ in_flight'.cmd \in Cmds
           /\ line' \in Seq(Waiting) /\ line' # << >> /\ Len(line') = Len(line) + 1
           /\ \A i \in 1 .. Len(line) : line'[i] = line[i]
           /\ line'[Len(line) + 1] = queue[n]
           /\ pending_queue' \in Seq(Waiting) /\ Len(pending_queue') = Len(queue) - n
           /\ \A i \in 1 .. Len(queue) - n : pending_queue'[i] = queue[n + i]
           /\ \A i \in 1 .. n - 1 : ~queue[i].own
           /\ cache' = [e \in Entries |-> IF e \in EvictedBy(queue[n].cmd) THEN 0 ELSE held[e]]
    BY <1>1, <1>2, SendsFacts, Zenon
  <2>2. Len(line) = 0 OBVIOUS
  <2>3. Len(line') = 1 /\ line'[1] = queue[n] BY <2>1, <2>2
  <2>4. \A e \in Entries : cache'[e] = IF e \in EvictedBy(in_flight'.cmd) THEN 0 ELSE held[e]
    BY <2>1
  <2> QED BY <2>1, <2>3, <2>4 DEF Starts
<1>3. CASE Rests(queue, held) BY <1>3 DEF Rests, Stops
<1> QED BY <1>2, <1>3 DEF Moves

\* Nothing is in flight in NoRequest.
LEMMA Nobody ==
  /\ NoRequest.cmd \notin Cmds /\ NoRequest.cmd # FullSync /\ NoRequest.cmd.code = 0
  /\ NoRequest.cmd.code # SetName /\ NoRequest.cmd.code # UpdateContact
  /\ NoRequest.cmd.code # ImportContact
<1>1. NoRequest.cmd.code = 0 BY DEF NoRequest, Entry
<1>2. \A cmd \in Cmds : cmd.code # 0
  BY CommandKinds DEF GetContacts, AppStart, GetBattery, DeviceQuery, GetContactByKey,
     GetChannel, SetChannel, UpdateContact, RemoveContact, ImportContact, SetName
<1> QED BY <1>1, <1>2, OwnCommands DEF SetName, UpdateContact, ImportContact

\* The slot as SerialInv sees it.
LEMMA Slots ==
  ASSUME SlotTypes, SerialInv, Calm
  PROVE  /\ in_flight = NoRequest => line = << >> /\ OnlyPushes
         /\ in_flight # NoRequest => in_flight.cmd \in Cmds /\ (Asked \/ Answered)
         /\ line # << >> => /\ in_flight # NoRequest /\ Asked /\ OnlyPushes
                            /\ \A e \in Entries : e \in EvictedBy(in_flight.cmd) => cache[e] = 0
         /\ \A i \in 1 .. Len(wire) : \A e \in Steady :
              e = Entry(wire[i].code, wire[i].arg) => wire[i].val = radio[e]
<1>1. in_flight # NoRequest => in_flight.cmd \in Cmds BY DEF SlotTypes, Sent
<1> QED BY <1>1, Zenon DEF SerialInv, Asked, Answered

\* No advert ends a request.
LEMMA EndsNoPush ==
  ASSUME NEW cmd \in Cmds, NEW f, Ends(cmd, f)
  PROVE  ~Push(f) /\ (cmd.code = GetContacts => f.code # Contact)
BY Classified DEF Ends, Push

\* With a push less, an answer is still there.
LEMMA AnswerStays ==
  ASSUME NEW w \in Seq(Frames), w # << >>, NEW cmd \in Cmds, AnswerIn(w, cmd), ~Ends(cmd, w[1])
  PROVE  AnswerIn(Tail(w), cmd)
<1>1. PICK n \in 1 .. Len(w) :
        /\ Ends(cmd, w[n])
        /\ \A j \in n + 1 .. Len(w) : Push(w[j])
        /\ \A j \in 1 .. n - 1 : Push(w[j]) \/ (cmd.code = GetContacts /\ w[j].code = Contact)
  BY DEF AnswerIn
<1>2. /\ Len(w) \in Nat /\ Len(Tail(w)) = Len(w) - 1
      /\ \A i \in 1 .. Len(Tail(w)) : Tail(w)[i] = w[i + 1]
  BY Shifted
<1>3. n # 1 BY <1>1
<1> DEFINE m == n - 1
<1>4. m \in 1 .. Len(Tail(w)) /\ m + 1 = n BY <1>2, <1>3
<1>5. Ends(cmd, Tail(w)[m]) BY <1>1, <1>2, <1>4
<1>6. ASSUME NEW j \in m + 1 .. Len(Tail(w)) PROVE Push(Tail(w)[j])
  <2>1. j \in 1 .. Len(Tail(w)) /\ j + 1 \in n + 1 .. Len(w) BY <1>2, <1>4
  <2> QED BY <1>1, <1>2, <2>1
<1>7. ASSUME NEW j \in 1 .. m - 1
      PROVE  Push(Tail(w)[j]) \/ (cmd.code = GetContacts /\ Tail(w)[j].code = Contact)
  <2>1. j \in 1 .. Len(Tail(w)) /\ j + 1 \in 1 .. n - 1 BY <1>2, <1>4
  <2> QED BY <1>1, <1>2, <2>1
<1> QED BY <1>4, <1>5, <1>6, <1>7 DEF AnswerIn

\* The frames on the wire after a step of the core.
LEMMA CoreWire ==
  ASSUME BaseInv, NEW queue, NEW held, Core(queue, held)
  PROVE  /\ \A i \in 1 .. Len(wire') : \E j \in 1 .. Len(wire) : wire'[i] = wire[j]
         /\ \A j \in 1 .. Len(wire) :
              \/ \E i \in 1 .. Len(wire') : wire'[i] = wire[j]
              \/ /\ Push(wire[j])
                 /\ \E i \in 1 .. Len(queue) : queue[i].own /\ queue[i].cmd = ContactSync(wire[j].arg)
         /\ \A cmd \in Cmds : AnswerIn(wire, cmd) => AnswerIn(wire', cmd)
<1>1. wire \in Seq(Frames) BY DEF BaseInv, WireTypes
<1>2. CASE wire' = wire BY <1>2
<1>3. CASE /\ wire # << >> /\ Push(wire[1]) /\ wire' = Tail(wire)
           /\ \E j \in 1 .. Len(queue) : queue[j].own /\ queue[j].cmd = ContactSync(wire[1].arg)
  <2>1. /\ Len(wire) \in Nat /\ Len(wire') = Len(wire) - 1
        /\ \A i \in 1 .. Len(wire') : wire'[i] = wire[i + 1] /\ i + 1 \in 1 .. Len(wire)
    BY <1>1, <1>3, Shifted
  <2>2. ASSUME NEW j \in 1 .. Len(wire), j # 1 PROVE \E i \in 1 .. Len(wire') : wire'[i] = wire[j]
    <3>1. j - 1 \in 1 .. Len(wire') /\ (j - 1) + 1 = j BY <2>1, <2>2
    <3> QED BY <2>1, <3>1
  <2>3. \A cmd \in Cmds : AnswerIn(wire, cmd) => AnswerIn(wire', cmd)
    BY <1>1, <1>3, AnswerStays, EndsNoPush
  <2> QED BY <1>3, <2>1, <2>2, <2>3
<1> QED BY <1>2, <1>3, Zenon DEF Core

\* After a step of the core: it started the next request, stopped, or goes on
\* with the one in flight.
Continues(held) == in_flight # NoRequest /\ in_flight' = in_flight /\ line' = line /\ cache' = held

\* These are the cases.
LEMMA CoreCases ==
  ASSUME BaseInv, SerialInv, Calm, NEW queue, NEW held, Core(queue, held)
  PROVE  \/ in_flight = NoRequest /\ line = << >> /\ OnlyPushes /\ (Starts(held) \/ Stops(held))
         \/ Continues(held)
<1>1. Ready(queue, held) /\ SlotTypes BY Zenon DEF Core, BaseInv
<1>2. CASE in_flight = NoRequest
  <2>1. line = << >> /\ OnlyPushes BY <1>1, <1>2, Slots
  <2>2. Moves(queue, held) BY <1>2, Zenon DEF Core
  <2> QED BY <1>1, <1>2, <2>1, <2>2, MovesOn
<1>3. CASE in_flight # NoRequest
  <2>1. Keeps(queue, held) BY <1>3, Zenon DEF Core
  <2> QED BY <1>3, <2>1 DEF Keeps, Continues
<1> QED BY <1>2, <1>3

\* Between two requests nothing but pushes is on its way.
LEMMA NextSerial ==
  ASSUME NEW held, Starts(held) \/ Stops(held), OnlyPushes'
  PROVE  SerialInv'
<1>1. \A i \in 1 .. Len(wire') : Push(wire'[i]) BY DEF OnlyPushes
<1>2. \A i \in 1 .. Len(wire') : \A e \in Steady : e # Entry(wire'[i].code, wire'[i].arg)
  <2>1. \A e \in Steady : e.code # Advertisement
    BY EntryKinds DEF Steady, Advertisement, ChannelInfo, SelfInfo, DeviceInfo
  <2>2. \A i \in 1 .. Len(wire') : Entry(wire'[i].code, wire'[i].arg).code = Advertisement
    BY <1>1 DEF Push, Entry
  <2> QED BY <2>1, <2>2
<1>3. CASE Starts(held)
  <2>1. in_flight' # NoRequest /\ line' # << >> BY <1>3 DEF Starts
  <2>2. Asked' BY <1>3 DEF Starts, Asked
  <2>3. \A e \in Entries : e \in EvictedBy(in_flight'.cmd) => cache'[e] = 0 BY <1>3 DEF Starts
  <2> QED BY <1>2, <2>1, <2>2, <2>3, Zenon DEF SerialInv
<1>4. CASE Stops(held)
  <2>1. in_flight' = NoRequest /\ line' = << >> BY <1>4 DEF Stops
  <2> QED BY <1>2, <2>1, Zenon DEF SerialInv
<1> QED BY <1>3, <1>4

\* Only this many frames and one request at a time, after a step of the core.
LEMMA CoreSerial ==
  ASSUME BaseInv, SerialInv, Calm, NEW queue, NEW held, Core(queue, held)
  PROVE  SerialInv'
<1>1. /\ \A i \in 1 .. Len(wire') : \E j \in 1 .. Len(wire) : wire'[i] = wire[j]
      /\ \A cmd \in Cmds : AnswerIn(wire, cmd) => AnswerIn(wire', cmd)
  BY CoreWire
<1>2. OnlyPushes => OnlyPushes' BY <1>1 DEF OnlyPushes
<1>3. CASE OnlyPushes /\ (Starts(held) \/ Stops(held)) BY <1>2, <1>3, NextSerial
<1>4. CASE Continues(held)
  <2>1. /\ in_flight # NoRequest /\ in_flight' = in_flight /\ line' = line /\ cache' = held
    BY <1>4 DEF Continues
  <2>2. SlotTypes BY DEF BaseInv
  <2>3. /\ in_flight.cmd \in Cmds /\ (Asked \/ Answered)
        /\ line # << >> => \A e \in Entries : e \in EvictedBy(in_flight.cmd) => cache[e] = 0
        /\ \A i \in 1 .. Len(wire) : \A e \in Steady :
              e = Entry(wire[i].code, wire[i].arg) => wire[i].val = radio[e]
    BY <2>1, <2>2, Slots
  <2>4. Asked' \/ Answered'
    <3>1. CASE Asked BY <1>2, <2>1, <3>1 DEF Asked
    <3>2. CASE Answered BY <1>1, <2>1, <2>3, <3>2 DEF Answered
    <3> QED BY <2>3, <3>1, <3>2
  <2>5. line' # << >> => \A e \in Entries : e \in EvictedBy(in_flight'.cmd) => cache'[e] = 0
    <3>1. \A e \in Entries : held[e] = cache[e] \/ held[e] = 0 BY Zenon DEF Core
    <3> QED BY <2>1, <2>3, <3>1
  <2>6. \A i \in 1 .. Len(wire') : \A e \in Steady :
              e = Entry(wire'[i].code, wire'[i].arg) => wire'[i].val = radio'[e]
    <3>1. radio' = radio BY Zenon DEF Core
    <3> QED BY <1>1, <2>3, <3>1
  <2> QED BY <2>1, <2>4, <2>5, <2>6, Zenon DEF SerialInv
<1> QED BY <1>3, <1>4, CoreCases

\* Calm weather after a step was calm weather before.
LEMMA CoreCalm ==
  ASSUME NEW queue, NEW held, Core(queue, held)
  PROVE  (Calm' <=> Calm) /\ (doubt' <=> doubt) /\ spent'.timeouts = spent.timeouts /\ radio' = radio
BY Zenon DEF Core, Calm

\* Channels and blobs.
LEMMA CoreCoherent ==
  ASSUME BaseInv, SerialInv, CoherentInv, Calm, NEW queue, NEW held, Core(queue, held)
  PROVE  CoherentInv'
<1> SUFFICES ASSUME NEW e \in Steady
             PROVE  \/ cache'[e] = 0 \/ cache'[e] = radio'[e]
                    \/ /\ e \in ChannelEntries /\ spent'.timeouts # 0
                       /\ \/ Queued({ChannelSync(e.arg)})' \/ OnLine({ChannelSync(e.arg)})'
                          \/ \E i \in 1 .. Len(wire') : Entry(wire'[i].code, wire'[i].arg) = e
  BY DEF CoherentInv
<1>1. e \in Entries /\ e \notin ContactEntries BY EntryKinds
<1>2. held[e] = cache[e] BY <1>1, Zenon DEF Core
<1>3. radio' = radio /\ spent'.timeouts = spent.timeouts BY CoreCalm
<1>4. cache'[e] = 0 \/ cache'[e] = cache[e]
  <2>1. CASE Starts(held) BY <1>1, <1>2, <2>1 DEF Starts
  <2>2. CASE Stops(held) BY <1>2, <2>2 DEF Stops
  <2>3. CASE Continues(held) BY <1>2, <2>3 DEF Continues
  <2> QED BY <2>1, <2>2, <2>3, CoreCases
<1>5. CASE cache[e] = 0 \/ cache[e] = radio[e] BY <1>3, <1>4, <1>5
<1>6. CASE /\ e \in ChannelEntries /\ spent.timeouts # 0
           /\ \/ Queued({ChannelSync(e.arg)}) \/ OnLine({ChannelSync(e.arg)})
              \/ \E i \in 1 .. Len(wire) : Entry(wire[i].code, wire[i].arg) = e
  <2>1. CASE Queued({ChannelSync(e.arg)})
    <3>1. PICK i \in 1 .. Len(pending_queue) :
            pending_queue[i].own /\ pending_queue[i].cmd \in {ChannelSync(e.arg)}
      BY <2>1 DEF Queued
    <3>2. i \in 1 .. Len(queue) /\ queue[i] = pending_queue[i] BY Zenon DEF Core, Extended
    <3>3. SlotTypes /\ Ready(queue, held) BY Zenon DEF BaseInv, Core
    <3>4. queue[i].own /\ queue[i].cmd \in {ChannelSync(e.arg)} BY <3>1, <3>2
    <3>5. \/ \E j \in 1 .. Len(pending_queue') :
               pending_queue'[j].own /\ pending_queue'[j].cmd \in {ChannelSync(e.arg)}
          \/ line' # << >> /\ in_flight'.cmd \in {ChannelSync(e.arg)}
      BY <3>2, <3>3, <3>4, PromiseKept
    <3> QED BY <1>3, <1>6, <3>5 DEF Queued, OnLine
  <2>2. CASE OnLine({ChannelSync(e.arg)})
    <3>1. line # << >> BY <2>2 DEF OnLine
    <3>2. Continues(held) BY <3>1, CoreCases
    <3> QED BY <1>3, <1>6, <2>2, <3>2 DEF OnLine, Continues
  <2>3. CASE \E i \in 1 .. Len(wire) : Entry(wire[i].code, wire[i].arg) = e
    <3>1. PICK i \in 1 .. Len(wire) : Entry(wire[i].code, wire[i].arg) = e BY <2>3
    <3>2. e.code # Advertisement BY <1>6, EntryKinds DEF Advertisement, ChannelInfo
    <3>3. ~Push(wire[i]) BY <3>1, <3>2 DEF Push, Entry
    <3>4. \E j \in 1 .. Len(wire') : wire'[j] = wire[i] BY <3>3, CoreWire
    <3> QED BY <1>3, <1>6, <3>1, <3>4
  <2> QED BY <1>6, <2>1, <2>2, <2>3
<1> QED BY <1>5, <1>6 DEF CoherentInv

\* The sync.
LEMMA CoreSync ==
  ASSUME BaseInv, SerialInv, SyncInv, NEW queue, NEW held, Core(queue, held)
  PROVE  SyncInv'
<1>1. radio' = radio /\ spent'.timeouts = spent.timeouts /\ since' = since /\ synced_at' = synced_at
      /\ seen_at' = seen_at
  BY Zenon DEF Core
<1> SUFFICES ASSUME spent.timeouts = 0, NEW k \in Contacts, Holds(k)
             PROVE  /\ since[k] < synced_at => seen_at[k] >= synced_at
                    /\ in_flight'.cmd = FullSync /\ line' = << >> /\ since[k] < in_flight'.sent =>
                         seen_at[k] >= in_flight'.sent \/ OnWire(k)'
  BY <1>1 DEF SyncInv, Holds
<1>2. Calm BY DEF Calm
<1>3. /\ since[k] < synced_at => seen_at[k] >= synced_at
      /\ in_flight.cmd = FullSync /\ line = << >> /\ since[k] < in_flight.sent =>
           seen_at[k] >= in_flight.sent \/ OnWire(k)
  BY DEF SyncInv
<1>4. OnWire(k) => OnWire(k)'
  <2> SUFFICES ASSUME NEW i \in 1 .. Len(wire), wire[i].code = Contact, wire[i].arg = k
               PROVE  OnWire(k)'
    BY DEF OnWire
  <2>1. ~Push(wire[i]) BY DEF Push, Contact, Advertisement
  <2>2. \E j \in 1 .. Len(wire') : wire'[j] = wire[i] BY <2>1, CoreWire
  <2> QED BY <2>2 DEF OnWire
<1>5. CASE Starts(held) BY <1>3, <1>5 DEF Starts
<1>6. CASE Stops(held) BY <1>3, <1>6, Nobody DEF Stops
<1>7. CASE Continues(held) BY <1>3, <1>4, <1>7 DEF Continues
<1> QED BY <1>2, <1>5, <1>6, <1>7, CoreCases

\* A request of coresplitter's own for one of cs is queued, and stays so or is
\* sent.
LEMMA QueuedKept ==
  ASSUME SlotTypes, NEW queue, NEW held, Ready(queue, held), Extended(queue), NEW cs,
         \/ Queued(cs)
         \/ \E i \in 1 .. Len(queue) : queue[i].own /\ queue[i].cmd \in cs
  PROVE  Queued(cs)' \/ OnLine(cs)'
<1>1. \E i \in 1 .. Len(queue) : queue[i].own /\ queue[i].cmd \in cs
  BY DEF Queued, Extended
<1>2. PICK i \in 1 .. Len(queue) : queue[i].own /\ queue[i].cmd \in cs BY <1>1
<1>3. \/ \E j \in 1 .. Len(pending_queue') :
           pending_queue'[j].own /\ pending_queue'[j].cmd \in cs
      \/ line' # << >> /\ in_flight'.cmd \in cs
  BY <1>2, PromiseKept
<1> QED BY <1>3 DEF Queued, OnLine

\* What is to be re-read and is on the line is on the way.
LEMMA RereadRight ==
  ASSUME NEW k \in Contacts, Queued(Reread(k))' \/ OnLine(Reread(k))'
  PROVE  Right(k)'
BY DEF Right, OnLine

\* Contacts.
LEMMA CoreContact ==
  ASSUME BaseInv, SerialInv, ContactInv, NEW queue, NEW held, Core(queue, held)
  PROVE  ContactInv'
<1>1. radio' = radio /\ (doubt' <=> doubt) /\ synced_at' = synced_at /\ seen_at' = seen_at
  BY Zenon DEF Core
<1> SUFFICES ASSUME ~doubt, NEW k \in Contacts, Holds(k) PROVE Right(k)'
  BY <1>1 DEF ContactInv, Holds
<1>2. Calm BY DEF Calm
<1>3. Right(k) BY DEF ContactInv
<1>4. SlotTypes /\ Ready(queue, held) /\ Extended(queue) BY Zenon DEF Core, BaseInv
<1>5. CASE Heard(k)
  <2>1. PICK i \in 1 .. Len(wire) : Push(wire[i]) /\ wire[i].arg = k BY <1>5 DEF Heard
  <2>2. CASE \E j \in 1 .. Len(wire') : wire'[j] = wire[i] BY <2>1, <2>2 DEF Right, Heard
  <2>3. CASE \E j \in 1 .. Len(queue) : queue[j].own /\ queue[j].cmd = ContactSync(wire[i].arg)
    <3>1. \E j \in 1 .. Len(queue) : queue[j].own /\ queue[j].cmd \in Reread(k)
      BY <2>1, <2>3 DEF Reread
    <3> QED BY <1>4, <3>1, QueuedKept, RereadRight
  <2> QED BY <2>2, <2>3, CoreWire
<1>6. CASE Queued(Reread(k)) BY <1>4, <1>6, QueuedKept, RereadRight
<1>7. CASE OnLine(Reread(k) \cup {Removal(k)})
  <2>1. line # << >> BY <1>7 DEF OnLine
  <2>2. Continues(held) BY <1>2, <2>1, CoreCases
  <2> QED BY <1>7, <2>2 DEF Continues, OnLine, Right
<1>8. CASE Changed(k)
  <2>1. PICK i \in 1 .. Len(wire) : wire[i].code = Ok BY <1>8 DEF Changed
  <2>2. ~Push(wire[i]) BY <2>1 DEF Push, Ok, Advertisement
  <2>3. \E j \in 1 .. Len(wire') : wire'[j] = wire[i] BY <2>2, CoreWire
  <2>4. in_flight # NoRequest
    <3>1. in_flight.cmd.code \in {UpdateContact, ImportContact} BY <1>8 DEF Changed, Entry
    <3> QED BY <3>1, Nobody
  <2>5. Continues(held) BY <1>2, <2>4, CoreCases
  <2> QED BY <1>8, <2>1, <2>3, <2>5 DEF Continues, Changed, Right
<1>9. CASE Fresh(k)
  <2> DEFINE c == ContactEntry(k)
  <2>1. c \in Entries /\ c.arg = k BY EntryKinds DEF ContactEntry, Entry
  <2>2. \A i \in 1 .. Len(wire') : wire'[i].code = Contact /\ wire'[i].arg = k => wire'[i].val = radio'[c]
    BY <1>1, <1>9, CoreWire DEF Fresh
  <2>3. CASE OnWire(k)
    <3>1. PICK i \in 1 .. Len(wire) : wire[i].code = Contact /\ wire[i].arg = k BY <2>3 DEF OnWire
    <3>2. ~Push(wire[i]) BY <3>1 DEF Push, Contact, Advertisement
    <3>3. \E j \in 1 .. Len(wire') : wire'[j] = wire[i] BY <3>2, CoreWire
    <3>4. OnWire(k)' BY <3>1, <3>3 DEF OnWire
    <3> QED BY <2>2, <3>4 DEF Fresh, Right
  <2>4. CASE /\ cache[c] = radio[c] /\ seen_at[k] >= synced_at
             /\ in_flight.cmd = FullSync => seen_at[k] >= in_flight.sent
    <3>1. held[c] = cache[c]
      <4>1. seen_at[k] \in Int /\ synced_at \in Int BY DEF BaseInv, CacheTypes, RadioTypes, Never
      <4>2. ~(seen_at[k] < synced_at) BY <2>4, <4>1
      <4> QED BY <2>1, <4>2, Zenon DEF Core
    <3>2. CASE Starts(held)
      <4>1. in_flight'.cmd \in Cmds /\ line' # << >> BY <3>2 DEF Starts
      <4>2. CASE in_flight'.cmd \in Reread(k) \cup {Removal(k)} BY <4>1, <4>2 DEF OnLine, Right
      <4>3. CASE in_flight'.cmd \notin Reread(k) \cup {Removal(k)}
        <5>1. c \notin EvictedBy(in_flight'.cmd) BY <4>1, <4>3, EvictsContact
        <5>2. cache'[c] = radio'[c] BY <1>1, <2>1, <2>4, <3>1, <3>2, <5>1 DEF Starts
        <5>3. in_flight'.cmd # FullSync BY <4>3 DEF Reread
        <5> QED BY <1>1, <2>2, <2>4, <5>2, <5>3 DEF Fresh, Right
      <4> QED BY <4>2, <4>3
    <3>3. CASE Stops(held)
      <4>1. in_flight'.cmd # FullSync /\ cache'[c] = radio'[c] BY <1>1, <2>4, <3>1, <3>3, Nobody DEF Stops
      <4> QED BY <1>1, <2>2, <2>4, <4>1 DEF Fresh, Right
    <3>4. CASE Continues(held)
      <4>1. in_flight' = in_flight /\ cache'[c] = radio'[c] BY <1>1, <2>4, <3>1, <3>4 DEF Continues
      <4> QED BY <1>1, <2>2, <2>4, <4>1 DEF Fresh, Right
    <3> QED BY <1>2, <3>2, <3>3, <3>4, CoreCases
  <2> QED BY <1>9, <2>3, <2>4 DEF Fresh
<1> QED BY <1>3, <1>5, <1>6, <1>7, <1>8, <1>9 DEF Right

\* Removed contacts.
LEMMA CoreRemoved ==
  ASSUME BaseInv, SerialInv, RemovedInv, NEW queue, NEW held, Core(queue, held)
  PROVE  RemovedInv'
<1>1. radio' = radio /\ (doubt' <=> doubt) /\ removed' = removed
  BY Zenon DEF Core
<1> SUFFICES ASSUME ~doubt, NEW k \in removed
             PROVE  ~Holds(k)' /\ cache'[ContactEntry(k)] = 0 /\ ~OnWire(k)'
  BY <1>1 DEF RemovedInv
<1>2. Calm BY DEF Calm
<1>3. ~Holds(k) /\ cache[ContactEntry(k)] = 0 /\ ~OnWire(k) BY DEF RemovedInv
<1>4. k \in Contacts /\ ContactEntry(k) \in Entries BY EntryKinds DEF BaseInv, RadioTypes
<1>5. held[ContactEntry(k)] = 0 BY <1>3, <1>4, Zenon DEF Core
<1>6. cache'[ContactEntry(k)] = 0
  <2>1. CASE Starts(held) BY <1>4, <1>5, <2>1 DEF Starts
  <2>2. CASE Stops(held) BY <1>5, <2>2 DEF Stops
  <2>3. CASE Continues(held) BY <1>5, <2>3 DEF Continues
  <2> QED BY <1>2, <2>1, <2>2, <2>3, CoreCases
<1>7. ~OnWire(k)' BY <1>3, CoreWire DEF OnWire
<1> QED BY <1>1, <1>3, <1>6, <1>7 DEF Holds

\* The name.
LEMMA CoreName ==
  ASSUME BaseInv, SerialInv, NameInv, NEW queue, NEW held, Core(queue, held)
  PROVE  NameInv'
<1>1. radio' = radio /\ (doubt' <=> doubt) /\ radio_name' = radio_name
  BY Zenon DEF Core
<1> SUFFICES ASSUME ~doubt
             PROVE  IF Renamed' THEN in_flight'.val = radio[SelfEntry]
                    ELSE radio_name = radio[SelfEntry]
  BY <1>1 DEF NameInv
<1>2. Calm BY DEF Calm
<1>3. IF Renamed THEN in_flight.val = radio[SelfEntry] ELSE radio_name = radio[SelfEntry]
  BY DEF NameInv
<1>4. (\E i \in 1 .. Len(wire') : wire'[i].code = Ok) <=> (\E i \in 1 .. Len(wire) : wire[i].code = Ok)
  <2>1. ASSUME NEW i \in 1 .. Len(wire), wire[i].code = Ok
        PROVE  \E j \in 1 .. Len(wire') : wire'[j].code = Ok
    <3>1. ~Push(wire[i]) BY <2>1 DEF Push, Ok, Advertisement
    <3>2. \E j \in 1 .. Len(wire') : wire'[j] = wire[i] BY <3>1, CoreWire
    <3> QED BY <2>1, <3>2
  <2> QED BY <2>1, CoreWire
<1>5. CASE Continues(held)
  <2>1. in_flight' = in_flight BY <1>5 DEF Continues
  <2>2. Renamed' <=> Renamed BY <1>4, <2>1 DEF Renamed
  <2> QED BY <1>3, <2>1, <2>2
<1>6. CASE in_flight = NoRequest /\ OnlyPushes
  <2>1. ~\E i \in 1 .. Len(wire) : wire[i].code = Ok BY <1>6 DEF OnlyPushes, Push, Ok, Advertisement
  <2>2. ~Renamed /\ ~Renamed' BY <1>4, <2>1 DEF Renamed
  <2> QED BY <1>3, <2>2
<1> QED BY <1>2, <1>5, <1>6, CoreCases

\* A step of the core that takes no reply keeps the invariant.
LEMMA CoreKept ==
  ASSUME MirrorInv, NEW queue, NEW held, Core(queue, held)
  PROVE  MirrorInv'
<1>1. /\ BaseInv /\ SerialInv /\ CoherentInv /\ SyncInv /\ ContactInv /\ RemovedInv /\ NameInv
  BY DEF MirrorInv, CalmInv
<1>2. Calm => SerialInv' /\ CoherentInv' BY <1>1, CoreSerial, CoreCoherent
<1>3. ~Calm => SerialInv' /\ CoherentInv' BY CoreCalm DEF SerialInv, CoherentInv
<1>4. SyncInv' /\ ContactInv' /\ RemovedInv' /\ NameInv'
  BY <1>1, CoreSync, CoreContact, CoreRemoved, CoreName
<1>5. BaseInv' BY <1>1, CoreBase
<1> QED BY <1>2, <1>3, <1>4, <1>5 DEF MirrorInv, CalmInv

-----------------------------------------------------------------------------
(* A frame is handled that is no push.                                     *)

\* The handler leaves the radio alone.
LEMMA RxRadio ==
  ASSUME NEW f, Handles(f)
  PROVE  /\ radio' = radio /\ version' = version /\ removed' = removed /\ since' = since
         /\ clock' = clock /\ doubt' = doubt /\ spent' = spent
         /\ wire # << >> /\ wire' = Tail(wire)
         /\ (Calm' <=> Calm)
<1>1. /\ radio' = radio /\ version' = version /\ removed' = removed /\ since' = since
      /\ clock' = clock /\ doubt' = doubt /\ spent' = spent
      /\ wire # << >> /\ wire' = Tail(wire)
  BY Zenon DEF Handles, radioVars
<1> QED BY <1>1, Zenon DEF Calm

\* Types, whatever the frame.
LEMMA RxBase ==
  ASSUME BaseInv, NEW f, f = wire[1], f \in Frames, GoodFrame(f, version), Handles(f)
  PROVE  BaseInv'
<1>1. CacheTypes /\ RadioTypes /\ SlotTypes /\ WireTypes BY DEF BaseInv
<1>2. /\ radio' = radio /\ version' = version /\ removed' = removed /\ since' = since
      /\ clock' = clock /\ doubt' = doubt /\ spent' = spent
      /\ wire # << >> /\ wire' = Tail(wire)
  BY RxRadio
<1>3. Ready(pending_queue \o Refresh(f), cache_response(f)) BY RxMoves
<1>4. SlotTypes' /\ cache' \in [Entries -> 0 .. version'] BY <1>1, <1>3, MovedSlot
<1>5. WireTypes' BY <1>1, <1>2, WireTail
<1>6. RadioTypes' BY <1>1, <1>2, Zenon DEF RadioTypes
<1>7. /\ f.val \in 0 .. version /\ (f.code \in CachedCodes => f.val # 0)
      /\ version \in Nat /\ clock \in Nat
  BY <1>1 DEF GoodFrame, Frames, RadioTypes
<1>8. kv' \in [Blobs -> 0 .. version']
  <2>1. kv' = IF Entry(f.code, f.arg) \in Blobs THEN [kv EXCEPT ![Entry(f.code, f.arg)] = f.val] ELSE kv
    BY Zenon DEF Handles
  <2>2. kv \in [Blobs -> 0 .. version] BY <1>1 DEF CacheTypes
  <2> DEFINE B == Blobs
             V == 0 .. version
             e == Entry(f.code, f.arg)
  <2> HIDE DEF B, V, e
  <2>3. kv \in [B -> V] /\ f.val \in V /\ (kv' = IF e \in B THEN [kv EXCEPT ![e] = f.val] ELSE kv)
    BY <1>7, <2>1, <2>2, Zenon DEF B, V, e
  <2>4. kv' \in [B -> V] BY <2>3
  <2> QED BY <1>2, <2>4, Zenon DEF B, V
<1>9. seen_at' \in [Contacts -> 0 .. clock']
  <2>1. seen_at' = IF f.code = Contact THEN [seen_at EXCEPT ![f.arg] = clock] ELSE seen_at
    BY Zenon DEF Handles
  <2>2. seen_at \in [Contacts -> 0 .. clock] /\ clock \in 0 .. clock BY <1>1, <1>7 DEF CacheTypes
  <2> QED BY <1>2, <2>1, <2>2
<1>10. synced_at' \in Never .. clock'
  <2>1. synced_at' = IF Accepted(f) /\ EndsFullSync(in_flight.cmd) THEN in_flight.sent ELSE synced_at
    BY Zenon DEF Handles
  <2>2. Accepted(f) => in_flight # NoRequest BY Zenon DEF Accepted, Done, Mine
  <2>3. in_flight # NoRequest => in_flight.sent \in 0 .. clock BY <1>1, <1>7 DEF SlotTypes, Sent
  <2>4. synced_at \in Never .. clock BY <1>1 DEF CacheTypes
  <2> DEFINE A == Accepted(f) /\ EndsFullSync(in_flight.cmd)
  <2>5. A => in_flight.sent \in Never .. clock BY <1>7, <2>2, <2>3 DEF Never
  <2> HIDE DEF A
  <2>6. synced_at' = IF A THEN in_flight.sent ELSE synced_at BY <2>1, Zenon DEF A
  <2> QED BY <1>2, <2>4, <2>5, <2>6
<1>11. radio_name' \in 1 .. version'
  <2>1. radio_name' = NameAfter(f, Accepted(f)) BY Zenon DEF Handles
  <2>2. radio_name \in 1 .. version BY <1>1 DEF CacheTypes
  <2>3. f.code = SelfInfo => f.val \in 1 .. version BY <1>7 DEF CachedCodes
  <2>4. Accepted(f) /\ in_flight.cmd.code = SetName => in_flight.val \in 1 .. version
    <3>1. Accepted(f) => in_flight # NoRequest BY Zenon DEF Accepted, Done, Mine
    <3>2. in_flight # NoRequest => in_flight \in Sent /\ GoodVal(in_flight, version)
      BY <1>1 DEF SlotTypes
    <3>3. ASSUME in_flight \in Sent, GoodVal(in_flight, version), in_flight.cmd.code = SetName
          PROVE  in_flight.val \in 1 .. version
      <4>1. in_flight.val \in Nat BY <3>3, BoundsAssumption DEF Sent
      <4> QED BY <1>7, <3>3, <4>1 DEF GoodVal, Setters
    <3> QED BY <3>1, <3>2, <3>3
  <2>5. \/ radio_name' = radio_name \/ (f.code = SelfInfo /\ radio_name' = f.val)
        \/ (Accepted(f) /\ in_flight.cmd.code = SetName /\ radio_name' = in_flight.val)
    <3> DEFINE A == Accepted(f)
    <3> HIDE DEF A
    <3>1. radio_name' = NameAfter(f, A) BY <2>1 DEF A
    <3>2. \/ radio_name' = radio_name \/ (f.code = SelfInfo /\ radio_name' = f.val)
          \/ (A /\ in_flight.cmd.code = SetName /\ radio_name' = in_flight.val)
      BY <3>1 DEF NameAfter
    <3> QED BY <3>2 DEF A
  <2> QED BY <1>2, <2>2, <2>3, <2>4, <2>5
<1>12. CacheTypes' BY <1>4, <1>8, <1>9, <1>10, <1>11, Zenon DEF CacheTypes
<1> QED BY <1>4, <1>5, <1>6, <1>12 DEF BaseInv

\* The frame f is the first on the wire, and is part of a reply.
Replies(f) ==
  /\ f = wire[1] /\ f \in Frames /\ GoodFrame(f, version) /\ Handles(f) /\ ~Push(f)

\* It is one of the contacts of a list ...
Piece(f) ==
  /\ in_flight # NoRequest /\ in_flight.cmd \in Cmds /\ line = << >>
  /\ in_flight.cmd.code = GetContacts /\ f.code = Contact
  /\ AnswerIn(wire', in_flight.cmd)

\* ... or the end of the reply, with nothing but pushes behind it.
Final(f) ==
  /\ in_flight # NoRequest /\ in_flight.cmd \in Cmds /\ line = << >>
  /\ Ends(in_flight.cmd, f)
  /\ OnlyPushes'
  /\ \A j \in 1 .. Len(wire) : j # 1 => Push(wire[j])

\* The frames behind the first are still there.
LEMMA RxWire ==
  ASSUME BaseInv, NEW f, Replies(f)
  PROVE  /\ \A i \in 1 .. Len(wire') : \E j \in 1 .. Len(wire) : j # 1 /\ wire'[i] = wire[j]
         /\ \A j \in 1 .. Len(wire) : j # 1 => \E i \in 1 .. Len(wire') : wire'[i] = wire[j]
         /\ wire[1] = f /\ 1 \in 1 .. Len(wire)
<1>1. Handles(f) /\ f = wire[1] BY Zenon DEF Replies
<1>2. wire # << >> /\ wire' = Tail(wire) BY <1>1, RxRadio
<1>3. wire \in Seq(Frames) BY DEF BaseInv, WireTypes
<1>4. /\ Len(wire) \in Nat /\ Len(wire) >= 1 /\ Len(wire') = Len(wire) - 1
      /\ \A i \in 1 .. Len(wire') : wire'[i] = wire[i + 1] /\ i + 1 \in 1 .. Len(wire)
  BY <1>2, <1>3, Shifted
<1>5. \A i \in 1 .. Len(wire') : i + 1 \in 1 .. Len(wire) /\ i + 1 # 1 /\ wire'[i] = wire[i + 1]
  BY <1>4
<1>6. ASSUME NEW j \in 1 .. Len(wire), j # 1
      PROVE  \E i \in 1 .. Len(wire') : wire'[i] = wire[j]
  <2>1. j - 1 \in 1 .. Len(wire') /\ (j - 1) + 1 = j BY <1>4, <1>6
  <2>2. wire'[j - 1] = wire[j] BY <1>4, <2>1
  <2> QED BY <2>1, <2>2
<1>7. 1 \in 1 .. Len(wire) BY <1>4
<1> QED BY <1>1, <1>5, <1>6, <1>7

\* A reply is to the request in flight.
LEMMA RxKinds ==
  ASSUME BaseInv, SerialInv, Calm, NEW f, Replies(f)
  PROVE  Piece(f) \/ Final(f)
<1>1. SlotTypes /\ wire \in Seq(Frames) BY DEF BaseInv, WireTypes
<1>2. wire[1] = f /\ 1 \in 1 .. Len(wire) /\ ~Push(f) BY RxWire, Zenon DEF Replies
<1>3. ~OnlyPushes BY <1>2 DEF OnlyPushes
<1>4. /\ in_flight # NoRequest /\ in_flight.cmd \in Cmds /\ Answered
  BY <1>1, <1>3, Slots DEF Asked
<1>5. line = << >> BY <1>4 DEF Answered
<1>6. PICK n \in 1 .. Len(wire) :
        /\ Ends(in_flight.cmd, wire[n])
        /\ \A j \in n + 1 .. Len(wire) : Push(wire[j])
        /\ \A j \in 1 .. n - 1 : Push(wire[j]) \/ (in_flight.cmd.code = GetContacts /\ wire[j].code = Contact)
  BY <1>4 DEF Answered, AnswerIn
<1>7. Len(wire) \in Nat BY <1>1, Elements
<1>8. wire # << >> /\ wire' = Tail(wire) BY RxRadio, Zenon DEF Replies
<1>9. CASE n = 1
  <2>1. \A j \in 1 .. Len(wire) : j # 1 => Push(wire[j]) BY <1>6, <1>7, <1>9
  <2>2. OnlyPushes' BY <2>1, RxWire DEF OnlyPushes
  <2> QED BY <1>2, <1>4, <1>5, <1>6, <1>9, <2>1, <2>2 DEF Final
<1>10. CASE n # 1
  <2>1. 1 \in 1 .. n - 1 BY <1>7, <1>10
  <2>2. in_flight.cmd.code = GetContacts /\ f.code = Contact BY <1>2, <1>6, <2>1
  <2>3. ~Ends(in_flight.cmd, wire[1]) BY <1>2, <1>4, <2>2, EndsNoPush
  <2>4. AnswerIn(wire, in_flight.cmd) BY <1>4 DEF Answered
  <2>5. AnswerIn(Tail(wire), in_flight.cmd) BY <1>1, <1>4, <1>8, <2>3, <2>4, AnswerStays
  <2>6. AnswerIn(wire', in_flight.cmd) BY <1>8, <2>5
  <2> QED BY <1>4, <1>5, <2>2, <2>6 DEF Piece
<1> QED BY <1>9, <1>10

\* When a contact was last seen.
LEMMA RxSeen ==
  ASSUME BaseInv, NEW f, Replies(f), NEW k \in Contacts
  PROVE  /\ seen_at'[k] = IF f.code = Contact /\ f.arg = k THEN clock ELSE seen_at[k]
         /\ seen_at[k] \in Nat /\ clock \in Nat /\ seen_at[k] <= clock
         /\ synced_at \in Int /\ synced_at <= clock
         /\ in_flight # NoRequest => in_flight.sent \in Nat /\ in_flight.sent <= clock
<1>1. seen_at \in [Contacts -> 0 .. clock] /\ clock \in Nat /\ synced_at \in Never .. clock
  BY DEF BaseInv, CacheTypes, RadioTypes
<1>2. seen_at' = IF f.code = Contact THEN [seen_at EXCEPT ![f.arg] = clock] ELSE seen_at
  BY Zenon DEF Replies, Handles
<1>3. in_flight # NoRequest => in_flight.sent \in Nat /\ in_flight.sent <= clock
  BY <1>1 DEF BaseInv, SlotTypes, Sent
<1>4. synced_at \in Int /\ synced_at <= clock BY <1>1 DEF Never
<1> QED BY <1>1, <1>2, <1>3, <1>4

\* A contact of a list comes in: the request stays in flight.
LEMMA PieceStep ==
  ASSUME BaseInv, NEW f, Replies(f), Piece(f)
  PROVE  /\ in_flight' = in_flight /\ line' = << >>
         /\ Ready(pending_queue \o Refresh(f), cache_response(f))
         /\ Extended(pending_queue \o Refresh(f))
         /\ \A e \in Entries : cache'[e] = IF e = Entry(f.code, f.arg) THEN f.val ELSE cache[e]
         /\ synced_at' = synced_at /\ radio_name' = radio_name
<1>1. /\ in_flight # NoRequest /\ in_flight.cmd \in Cmds /\ line = << >>
      /\ in_flight.cmd.code = GetContacts /\ f.code = Contact
  BY DEF Piece
<1>2. ~Completes(awaiting_for(in_flight.cmd), f.code) BY <1>1, Classified
<1>3. ~Done(f) /\ ~Accepted(f) BY <1>2, Zenon DEF Done, Accepted
<1>4. ~Idles(f) BY <1>1 DEF Idles
<1>5. /\ f = wire[1] /\ f \in Frames /\ GoodFrame(f, version) /\ Handles(f)
  BY Zenon DEF Replies
<1>6. /\ Ready(pending_queue \o Refresh(f), cache_response(f))
      /\ Extended(pending_queue \o Refresh(f))
      /\ Keeps(pending_queue \o Refresh(f), cache_response(f))
  BY <1>3, <1>4, <1>5, RxMoves
<1>7. in_flight' = in_flight /\ line' = line /\ cache' = cache_response(f) BY <1>6, Zenon DEF Keeps
<1>8. \A e \in Entries : cache_response(f)[e] = IF e = Entry(f.code, f.arg) THEN f.val ELSE cache[e]
  BY <1>5, CacheAfter DEF BaseInv
<1>9. synced_at' = synced_at BY <1>3, <1>5, Zenon DEF Handles
<1>10. radio_name' = radio_name
  <2>1. radio_name' = NameAfter(f, Accepted(f)) BY <1>5, Zenon DEF Handles
  <2>2. f.code # SelfInfo BY <1>1 DEF Contact, SelfInfo
  <2> DEFINE A == Accepted(f)
  <2> HIDE DEF A
  <2>3. ~A /\ radio_name' = NameAfter(f, A) BY <1>3, <2>1 DEF A
  <2> QED BY <2>2, <2>3 DEF NameAfter
<1> QED BY <1>1, <1>6, <1>7, <1>8, <1>9, <1>10

\* The invariant, after a contact of a list.
LEMMA PieceKept ==
  ASSUME BaseInv, CalmInv, Calm, NEW f, Replies(f), Piece(f)
  PROVE  CalmInv'
<1>1. /\ in_flight # NoRequest /\ in_flight.cmd \in Cmds /\ line = << >>
      /\ in_flight.cmd.code = GetContacts /\ f.code = Contact
      /\ AnswerIn(wire', in_flight.cmd)
  BY DEF Piece
<1>2. /\ radio' = radio /\ version' = version /\ removed' = removed /\ since' = since
      /\ clock' = clock /\ doubt' = doubt /\ spent' = spent
  BY RxRadio, Zenon DEF Replies
<1> DEFINE queue == pending_queue \o Refresh(f)
           held  == cache_response(f)
<1>3. /\ in_flight' = in_flight /\ line' = << >>
      /\ Ready(queue, held) /\ Extended(queue)
      /\ \A e \in Entries : cache'[e] = IF e = Entry(f.code, f.arg) THEN f.val ELSE cache[e]
      /\ synced_at' = synced_at /\ radio_name' = radio_name
  BY PieceStep
<1> HIDE DEF queue, held
<1>4. SlotTypes /\ SerialInv /\ CoherentInv /\ SyncInv /\ ContactInv /\ RemovedInv /\ NameInv
  BY DEF BaseInv, CalmInv
<1>5. SerialInv'
  <2>1. Answered' BY <1>1, <1>3 DEF Answered
  <2>2. \A i \in 1 .. Len(wire') : \A e \in Steady :
              e = Entry(wire'[i].code, wire'[i].arg) => wire'[i].val = radio'[e]
    BY <1>2, <1>4, RxWire, Slots
  <2> QED BY <1>1, <1>3, <2>1, <2>2, Zenon DEF SerialInv
<1>6. CoherentInv'
  <2> SUFFICES ASSUME NEW e \in Steady
               PROVE  \/ cache'[e] = 0 \/ cache'[e] = radio'[e]
                      \/ /\ e \in ChannelEntries /\ spent'.timeouts # 0
                         /\ \/ Queued({ChannelSync(e.arg)})' \/ OnLine({ChannelSync(e.arg)})'
                            \/ \E i \in 1 .. Len(wire') : Entry(wire'[i].code, wire'[i].arg) = e
    BY DEF CoherentInv
  <2>1. e \in Entries /\ e.code # Contact
    BY EntryKinds DEF Steady, Contact, ChannelInfo, SelfInfo, DeviceInfo
  <2>2. e # Entry(f.code, f.arg) BY <1>1, <2>1 DEF Entry
  <2>3. cache'[e] = cache[e] BY <1>3, <2>1, <2>2
  <2>4. CASE cache[e] = 0 \/ cache[e] = radio[e] BY <1>2, <2>3, <2>4
  <2>5. CASE /\ e \in ChannelEntries /\ spent.timeouts # 0
             /\ \/ Queued({ChannelSync(e.arg)}) \/ OnLine({ChannelSync(e.arg)})
                \/ \E i \in 1 .. Len(wire) : Entry(wire[i].code, wire[i].arg) = e
    <3>1. CASE Queued({ChannelSync(e.arg)}) BY <1>2, <1>3, <1>4, <2>5, <3>1, QueuedKept
    <3>2. CASE \E i \in 1 .. Len(wire) : Entry(wire[i].code, wire[i].arg) = e
      <4>1. PICK i \in 1 .. Len(wire) : Entry(wire[i].code, wire[i].arg) = e BY <3>2
      <4>2. i # 1 BY <2>2, <4>1, RxWire
      <4>3. \E j \in 1 .. Len(wire') : wire'[j] = wire[i] BY <4>2, RxWire
      <4> QED BY <1>2, <2>5, <4>1, <4>3
    <3> QED BY <1>1, <2>5, <3>1, <3>2 DEF OnLine
  <2> QED BY <1>4, <2>4, <2>5 DEF CoherentInv
<1>7. \A k \in Contacts : OnWire(k) => OnWire(k)' \/ f.arg = k BY RxWire DEF OnWire
<1>8. SyncInv'
  <2> SUFFICES ASSUME spent.timeouts = 0, NEW k \in Contacts, Holds(k)
               PROVE  /\ since[k] < synced_at => seen_at'[k] >= synced_at
                      /\ in_flight.cmd = FullSync /\ since[k] < in_flight.sent =>
                           seen_at'[k] >= in_flight.sent \/ OnWire(k)'
    BY <1>2, <1>3 DEF SyncInv, Holds
  <2>1. /\ since[k] < synced_at => seen_at[k] >= synced_at
        /\ in_flight.cmd = FullSync /\ line = << >> /\ since[k] < in_flight.sent =>
             seen_at[k] >= in_flight.sent \/ OnWire(k)
    BY <1>4 DEF SyncInv
  <2>2. /\ seen_at'[k] = IF f.code = Contact /\ f.arg = k THEN clock ELSE seen_at[k]
        /\ seen_at[k] \in Nat /\ clock \in Nat /\ seen_at[k] <= clock
        /\ synced_at \in Int /\ synced_at <= clock
        /\ in_flight.sent \in Nat /\ in_flight.sent <= clock
    BY <1>1, RxSeen
  <2>3. OnWire(k) => OnWire(k)' \/ seen_at'[k] = clock BY <1>1, <1>7, <2>2
  <2> QED BY <1>1, <2>1, <2>2, <2>3
<1>9. ContactInv'
  <2> SUFFICES ASSUME ~doubt, NEW k \in Contacts, Holds(k) PROVE Right(k)'
    BY <1>2 DEF ContactInv, Holds
  <2>1. Right(k) BY <1>4 DEF ContactInv
  <2>2. CASE Heard(k)
    <3>1. PICK i \in 1 .. Len(wire) : Push(wire[i]) /\ wire[i].arg = k BY <2>2 DEF Heard
    <3>2. i # 1 BY <3>1, RxWire DEF Replies
    <3>3. \E j \in 1 .. Len(wire') : wire'[j] = wire[i] BY <3>2, RxWire
    <3> QED BY <3>1, <3>3 DEF Right, Heard
  <2>3. CASE Queued(Reread(k)) BY <1>3, <1>4, <2>3, QueuedKept, RereadRight
  <2>4. ~OnLine(Reread(k) \cup {Removal(k)}) BY <1>1 DEF OnLine
  <2>5. ~Changed(k) BY <1>1 DEF Changed, Entry, GetContacts, UpdateContact, ImportContact
  <2>6. CASE Fresh(k)
    <3> DEFINE c == ContactEntry(k)
    <3>1. c \in Entries BY EntryKinds
    <3>2. \A i \in 1 .. Len(wire') : wire'[i].code = Contact /\ wire'[i].arg = k => wire'[i].val = radio'[c]
      <4>1. \A i \in 1 .. Len(wire) : wire[i].code = Contact /\ wire[i].arg = k => wire[i].val = radio[c]
        BY <2>6 DEF Fresh
      <4> HIDE DEF c
      <4>2. \A i \in 1 .. Len(wire') : \E j \in 1 .. Len(wire) : wire'[i] = wire[j] BY RxWire
      <4> QED BY <1>2, <4>1, <4>2
    <3>3. CASE OnWire(k)' BY <3>2, <3>3 DEF Fresh, Right
    <3>4. CASE f.arg = k
      <4>1. c = Entry(f.code, f.arg) BY <1>1, <3>4 DEF ContactEntry
      <4>2. f.val = radio[c] BY <1>1, <2>6, <3>4, RxWire DEF Fresh
      <4>3. cache'[c] = radio'[c] BY <1>2, <1>3, <3>1, <4>1, <4>2
      <4>4. seen_at'[k] >= synced_at' /\ seen_at'[k] >= in_flight'.sent
        BY <1>1, <1>3, <3>4, RxSeen
      <4> QED BY <3>2, <4>3, <4>4 DEF Fresh, Right
    <3>5. CASE ~OnWire(k)' /\ f.arg # k
      <4>1. ~OnWire(k) BY <1>7, <3>5
      <4>2. /\ cache[c] = radio[c] /\ seen_at[k] >= synced_at
            /\ in_flight.cmd = FullSync => seen_at[k] >= in_flight.sent
        BY <2>6, <4>1 DEF Fresh
      <4>3. c # Entry(f.code, f.arg) BY <3>5 DEF ContactEntry, Entry
      <4>4. cache'[c] = radio'[c] BY <1>2, <1>3, <3>1, <4>2, <4>3
      <4>5. seen_at'[k] = seen_at[k] BY <3>5, RxSeen
      <4> QED BY <1>3, <3>2, <4>2, <4>4, <4>5 DEF Fresh, Right
    <3> QED BY <3>3, <3>4, <3>5
  <2> QED BY <2>1, <2>2, <2>3, <2>4, <2>5, <2>6 DEF Right
<1>10. RemovedInv'
  <2> SUFFICES ASSUME ~doubt, NEW k \in removed
               PROVE  ~Holds(k)' /\ cache'[ContactEntry(k)] = 0 /\ ~OnWire(k)'
    BY <1>2 DEF RemovedInv
  <2>1. ~Holds(k) /\ cache[ContactEntry(k)] = 0 /\ ~OnWire(k) BY <1>4 DEF RemovedInv
  <2>2. k \in Contacts /\ ContactEntry(k) \in Entries BY EntryKinds DEF BaseInv, RadioTypes
  <2>3. f.arg # k BY <1>1, <2>1, RxWire DEF OnWire
  <2>4. cache'[ContactEntry(k)] = 0 BY <1>3, <2>1, <2>2, <2>3 DEF ContactEntry, Entry
  <2>5. ~OnWire(k)' BY <2>1, RxWire DEF OnWire
  <2> QED BY <1>2, <2>1, <2>4, <2>5 DEF Holds
<1>11. NameInv'
  <2>1. ~Renamed /\ ~Renamed' BY <1>1, <1>3 DEF Renamed, GetContacts, SetName
  <2> QED BY <1>2, <1>3, <1>4, <2>1, Zenon DEF NameInv
<1> QED BY <1>5, <1>6, <1>8, <1>9, <1>10, <1>11 DEF CalmInv

\* The setter of the name is answered OK or ERROR.
LEMMA NameReply ==
  ASSUME NEW cmd \in Cmds, cmd.code = SetName, NEW f, Ends(cmd, f)
  PROVE  f.code \in {Ok, Error}
<1>1. awaiting_for(cmd) = OneOf({Ok}) BY AwaitSetter DEF Setters
<1> QED BY <1>1 DEF Ends, Belongs, OneOf

\* The end of a reply comes in: the queue moves on.
LEMMA FinalStep ==
  ASSUME BaseInv, NEW f, Replies(f), Final(f)
  PROVE  /\ Starts(cache_response(f)) \/ Stops(cache_response(f))
         /\ Ready(pending_queue \o Refresh(f), cache_response(f))
         /\ Extended(pending_queue \o Refresh(f))
         /\ \A e \in Entries : cache_response(f)[e] = IF e = Entry(f.code, f.arg) THEN f.val ELSE cache[e]
         /\ synced_at' = IF f.code # Error /\ in_flight.cmd = FullSync THEN in_flight.sent ELSE synced_at
         /\ \/ f.code = SelfInfo /\ radio_name' = f.val
            \/ /\ f.code # SelfInfo /\ f.code # Error /\ in_flight.cmd.code = SetName
               /\ radio_name' = in_flight.val
            \/ /\ f.code # SelfInfo /\ (f.code = Error \/ in_flight.cmd.code # SetName)
               /\ radio_name' = radio_name
         /\ f.code # Error =>
              \A i \in 1 .. Len(OwnRefresh(in_flight.cmd)) :
                \E j \in 1 .. Len(pending_queue \o Refresh(f)) :
                  (pending_queue \o Refresh(f))[j] = OwnRefresh(in_flight.cmd)[i]
<1>1. /\ in_flight # NoRequest /\ in_flight.cmd \in Cmds /\ line = << >> /\ Ends(in_flight.cmd, f)
  BY DEF Final
<1>2. Mine(f) /\ Done(f) /\ (Accepted(f) <=> f.code # Error)
  BY <1>1, Zenon DEF Done, Mine, Accepted, Ends
<1>3. /\ f = wire[1] /\ f \in Frames /\ GoodFrame(f, version) /\ Handles(f)
  BY Zenon DEF Replies
<1>4. /\ Ready(pending_queue \o Refresh(f), cache_response(f))
      /\ Extended(pending_queue \o Refresh(f))
      /\ Moves(pending_queue \o Refresh(f), cache_response(f))
  BY <1>2, <1>3, RxMoves
<1>5. SlotTypes /\ CacheTypes /\ RadioTypes BY DEF BaseInv
<1>6. Starts(cache_response(f)) \/ Stops(cache_response(f)) BY <1>1, <1>4, <1>5, MovesOn
<1>7. \A e \in Entries : cache_response(f)[e] = IF e = Entry(f.code, f.arg) THEN f.val ELSE cache[e]
  BY <1>3, <1>5, CacheAfter
<1>8. synced_at' = IF f.code # Error /\ in_flight.cmd = FullSync THEN in_flight.sent ELSE synced_at
  BY <1>2, <1>3, Zenon DEF Handles, EndsFullSync
<1>9. \/ f.code = SelfInfo /\ radio_name' = f.val
      \/ /\ f.code # SelfInfo /\ f.code # Error /\ in_flight.cmd.code = SetName
         /\ radio_name' = in_flight.val
      \/ /\ f.code # SelfInfo /\ (f.code = Error \/ in_flight.cmd.code # SetName)
         /\ radio_name' = radio_name
  <2>1. radio_name' = NameAfter(f, Accepted(f)) BY <1>3, Zenon DEF Handles
  <2> DEFINE A == Accepted(f)
  <2> HIDE DEF A
  <2>2. (A <=> f.code # Error) /\ radio_name' = NameAfter(f, A) BY <1>2, <2>1 DEF A
  <2>3. CASE f.code = SelfInfo
    <3>1. in_flight.cmd.code # SetName BY <1>1, <2>3, NameReply DEF SelfInfo, Ok, Error
    <3> QED BY <2>2, <2>3, <3>1 DEF NameAfter
  <2>4. CASE f.code # SelfInfo /\ f.code # Error /\ in_flight.cmd.code = SetName
    BY <2>2, <2>4 DEF NameAfter
  <2>5. CASE f.code # SelfInfo /\ (f.code = Error \/ in_flight.cmd.code # SetName)
    BY <2>2, <2>5 DEF NameAfter
  <2> QED BY <2>3, <2>4, <2>5
<1>10. ASSUME f.code # Error, NEW i \in 1 .. Len(OwnRefresh(in_flight.cmd))
       PROVE  \E j \in 1 .. Len(pending_queue \o Refresh(f)) :
                (pending_queue \o Refresh(f))[j] = OwnRefresh(in_flight.cmd)[i]
  <2>1. f.code = Advertisement => f.arg \in Contacts BY <1>3 DEF GoodFrame
  <2>2. /\ Refresh(f) \in Seq(Waiting) /\ OwnOnly(Refresh(f)) /\ Refresh(f) = OwnRefresh(in_flight.cmd)
    BY <1>2, <1>3, <1>5, <1>10, <2>1, RefreshWaits
  <2>3. version \in Nat /\ version <= version BY <1>5 DEF RadioTypes
  <2>4. /\ Len(pending_queue) + i \in 1 .. Len(pending_queue \o Refresh(f))
        /\ (pending_queue \o Refresh(f))[Len(pending_queue) + i] = Refresh(f)[i]
    BY <1>5, <1>10, <2>2, <2>3, QueueGrows
  <2> QED BY <2>2, <2>4
<1> QED BY <1>4, <1>6, <1>7, <1>8, <1>9, <1>10

\* The invariant, after the end of a reply.
LEMMA FinalKept ==
  ASSUME BaseInv, CalmInv, Calm, NEW f, Replies(f), Final(f)
  PROVE  CalmInv'
<1>1. /\ in_flight # NoRequest /\ in_flight.cmd \in Cmds /\ line = << >>
      /\ Ends(in_flight.cmd, f) /\ OnlyPushes'
      /\ \A j \in 1 .. Len(wire) : j # 1 => Push(wire[j])
  BY DEF Final
<1>2. /\ radio' = radio /\ version' = version /\ removed' = removed /\ since' = since
      /\ clock' = clock /\ doubt' = doubt /\ spent' = spent
  BY RxRadio, Zenon DEF Replies
<1> DEFINE queue == pending_queue \o Refresh(f)
           held  == cache_response(f)
<1>3. /\ Starts(held) \/ Stops(held)
      /\ Ready(queue, held) /\ Extended(queue)
      /\ \A e \in Entries : held[e] = IF e = Entry(f.code, f.arg) THEN f.val ELSE cache[e]
      /\ synced_at' = IF f.code # Error /\ in_flight.cmd = FullSync THEN in_flight.sent ELSE synced_at
      /\ \/ f.code = SelfInfo /\ radio_name' = f.val
         \/ /\ f.code # SelfInfo /\ f.code # Error /\ in_flight.cmd.code = SetName
            /\ radio_name' = in_flight.val
         \/ /\ f.code # SelfInfo /\ (f.code = Error \/ in_flight.cmd.code # SetName)
            /\ radio_name' = radio_name
      /\ f.code # Error =>
           \A i \in 1 .. Len(OwnRefresh(in_flight.cmd)) :
             \E j \in 1 .. Len(queue) : queue[j] = OwnRefresh(in_flight.cmd)[i]
  BY FinalStep
<1> HIDE DEF queue, held
<1>4. SlotTypes /\ SerialInv /\ CoherentInv /\ SyncInv /\ ContactInv /\ RemovedInv /\ NameInv
  BY DEF BaseInv, CalmInv
<1>5. SerialInv' BY <1>1, <1>3, NextSerial
<1>6. /\ wire[1] = f /\ 1 \in 1 .. Len(wire)
      /\ \A i \in 1 .. Len(wire) : ~Push(wire[i]) => wire[i] = f
      /\ \A i \in 1 .. Len(wire') : Push(wire'[i])
  BY <1>1, RxWire DEF OnlyPushes
<1>7. \A e \in Entries : cache'[e] = 0 \/ cache'[e] = held[e]
  BY <1>3 DEF Starts, Stops
<1>8. CoherentInv'
  <2> SUFFICES ASSUME NEW e \in Steady
               PROVE  \/ cache'[e] = 0 \/ cache'[e] = radio'[e]
                      \/ /\ e \in ChannelEntries /\ spent'.timeouts # 0
                         /\ \/ Queued({ChannelSync(e.arg)})' \/ OnLine({ChannelSync(e.arg)})'
                            \/ \E i \in 1 .. Len(wire') : Entry(wire'[i].code, wire'[i].arg) = e
    BY DEF CoherentInv
  <2>1. e \in Entries /\ e.code # Advertisement
    BY EntryKinds DEF Steady, Advertisement, ChannelInfo, SelfInfo, DeviceInfo
  <2>2. CASE e = Entry(f.code, f.arg)
    <3>1. f.val = radio[e] BY <1>4, <1>6, <2>2, Slots
    <3> QED BY <1>2, <1>3, <1>7, <2>1, <2>2, <3>1
  <2>3. CASE e # Entry(f.code, f.arg)
    <3>1. cache'[e] = 0 \/ cache'[e] = cache[e] BY <1>3, <1>7, <2>1, <2>3
    <3>2. CASE cache[e] = 0 \/ cache[e] = radio[e] BY <1>2, <3>1, <3>2
    <3>3. CASE /\ e \in ChannelEntries /\ spent.timeouts # 0
               /\ \/ Queued({ChannelSync(e.arg)}) \/ OnLine({ChannelSync(e.arg)})
                  \/ \E i \in 1 .. Len(wire) : Entry(wire[i].code, wire[i].arg) = e
      <4>1. CASE Queued({ChannelSync(e.arg)}) BY <1>2, <1>3, <1>4, <3>3, <4>1, QueuedKept
      <4>2. ~\E i \in 1 .. Len(wire) : Entry(wire[i].code, wire[i].arg) = e
        <5>1. ASSUME NEW i \in 1 .. Len(wire), Entry(wire[i].code, wire[i].arg) = e PROVE FALSE
          <6>1. ~Push(wire[i]) BY <2>1, <5>1 DEF Push, Entry
          <6> QED BY <1>6, <2>3, <5>1, <6>1
        <5> QED BY <5>1
      <4> QED BY <1>1, <3>3, <4>1, <4>2 DEF OnLine
    <3> QED BY <1>4, <3>2, <3>3 DEF CoherentInv
  <2> QED BY <2>2, <2>3
<1>9. \A k \in Contacts : OnWire(k) <=> f.code = Contact /\ f.arg = k
  BY <1>6 DEF OnWire, Push, Contact, Advertisement
<1>10. in_flight.cmd = FullSync => f.code # Contact
  BY <1>1, EndsNoPush DEF FullSync
<1>11. \A k \in Contacts : ~OnWire(k)' BY <1>6 DEF OnWire, Push, Contact, Advertisement
<1>12. SyncInv'
  <2> SUFFICES ASSUME spent.timeouts = 0, NEW k \in Contacts, Holds(k)
               PROVE  /\ since[k] < synced_at' => seen_at'[k] >= synced_at'
                      /\ ~(in_flight'.cmd = FullSync /\ line' = << >>)
    BY <1>2 DEF SyncInv, Holds
  <2>1. /\ since[k] < synced_at => seen_at[k] >= synced_at
        /\ in_flight.cmd = FullSync /\ line = << >> /\ since[k] < in_flight.sent =>
             seen_at[k] >= in_flight.sent \/ OnWire(k)
    BY <1>4 DEF SyncInv
  <2>2. /\ seen_at'[k] = IF f.code = Contact /\ f.arg = k THEN clock ELSE seen_at[k]
        /\ seen_at[k] \in Nat /\ clock \in Nat /\ seen_at[k] <= clock
        /\ synced_at \in Int /\ synced_at <= clock
        /\ in_flight.sent \in Nat /\ in_flight.sent <= clock
    BY <1>1, RxSeen
  <2>3. ~(in_flight'.cmd = FullSync /\ line' = << >>) BY <1>3, Nobody DEF Starts, Stops
  <2>4. CASE f.code # Error /\ in_flight.cmd = FullSync
    <3>1. synced_at' = in_flight.sent /\ ~OnWire(k) BY <1>3, <1>9, <1>10, <2>4
    <3>2. since[k] < in_flight.sent => seen_at[k] >= in_flight.sent BY <1>1, <2>1, <2>4, <3>1
    <3>3. seen_at'[k] = seen_at[k] BY <1>10, <2>2, <2>4
    <3> QED BY <2>3, <3>1, <3>2, <3>3
  <2>5. CASE ~(f.code # Error /\ in_flight.cmd = FullSync)
    <3>1. synced_at' = synced_at BY <1>3, <2>5
    <3> QED BY <2>1, <2>2, <2>3, <3>1
  <2> QED BY <2>4, <2>5
<1>13. ContactInv'
  <2> SUFFICES ASSUME ~doubt, NEW k \in Contacts, Holds(k) PROVE Right(k)'
    BY <1>2 DEF ContactInv, Holds
  <2>1. Right(k) BY <1>4 DEF ContactInv
  <2>2. CASE Heard(k)
    <3>1. PICK i \in 1 .. Len(wire) : Push(wire[i]) /\ wire[i].arg = k BY <2>2 DEF Heard
    <3>2. i # 1 BY <3>1, RxWire DEF Replies
    <3>3. \E j \in 1 .. Len(wire') : wire'[j] = wire[i] BY <3>2, RxWire
    <3> QED BY <3>1, <3>3 DEF Right, Heard
  <2>3. CASE Queued(Reread(k)) BY <1>3, <1>4, <2>3, QueuedKept, RereadRight
  <2>4. ~OnLine(Reread(k) \cup {Removal(k)}) BY <1>1 DEF OnLine
  <2>5. CASE Changed(k)
    <3>1. f.code = Ok BY <1>6, <2>5 DEF Changed, Push, Ok, Advertisement
    <3>2. f.code # Error BY <3>1 DEF Ok, Error
    <3>3. OwnOnly(OwnRefresh(in_flight.cmd)) BY <1>1, Refreshed
    <3>4. Len(OwnRefresh(in_flight.cmd)) = 1 /\ OwnRefresh(in_flight.cmd)[1].cmd \in Reread(k)
      <4>1. CASE in_flight.cmd = Entry(UpdateContact, k)
        <5>1. in_flight.cmd.code = UpdateContact /\ in_flight.cmd.arg = k BY <4>1 DEF Entry
        <5> QED BY <1>1, <5>1, Refreshed DEF Reread
      <4>2. CASE in_flight.cmd.code = ImportContact BY <1>1, <4>2, Refreshed DEF Reread
      <4> QED BY <2>5, <4>1, <4>2 DEF Changed
    <3>5. 1 \in 1 .. Len(OwnRefresh(in_flight.cmd)) BY <3>4
    <3>6. OwnRefresh(in_flight.cmd)[1].own BY <3>3, <3>5 DEF OwnOnly
    <3>7. \E j \in 1 .. Len(queue) : queue[j].own /\ queue[j].cmd \in Reread(k)
      BY <1>3, <3>2, <3>4, <3>5, <3>6
    <3> QED BY <1>3, <1>4, <3>7, QueuedKept, RereadRight
  <2>6. CASE Fresh(k)
    <3> DEFINE c == ContactEntry(k)
    <3>1. c \in Entries /\ c = Entry(Contact, k) BY EntryKinds DEF ContactEntry
    <3>2. /\ seen_at'[k] = IF f.code = Contact /\ f.arg = k THEN clock ELSE seen_at[k]
          /\ seen_at[k] \in Nat /\ clock \in Nat /\ seen_at[k] <= clock
          /\ synced_at \in Int /\ synced_at <= clock
          /\ in_flight.sent \in Nat /\ in_flight.sent <= clock
      BY <1>1, RxSeen
    <3>3. held[c] = radio[c] /\ seen_at'[k] >= synced_at'
      <4>1. CASE f.code = Contact /\ f.arg = k
        <5>1. f.val = radio[c] BY <1>6, <2>6, <4>1 DEF Fresh
        <5>2. synced_at' = synced_at BY <1>3, <1>10, <4>1
        <5> QED BY <1>3, <3>1, <3>2, <4>1, <5>1, <5>2
      <4>2. CASE ~(f.code = Contact /\ f.arg = k)
        <5>1. /\ cache[c] = radio[c] /\ seen_at[k] >= synced_at
              /\ in_flight.cmd = FullSync => seen_at[k] >= in_flight.sent
          BY <1>9, <2>6, <4>2 DEF Fresh
        <5>2. c # Entry(f.code, f.arg) BY <3>1, <4>2 DEF Entry
        <5>3. held[c] = radio[c] BY <1>3, <3>1, <5>1, <5>2
        <5>4. seen_at'[k] = seen_at[k] BY <3>2, <4>2
        <5>5. seen_at[k] >= synced_at' BY <1>3, <5>1
        <5> QED BY <5>3, <5>4, <5>5
      <4> QED BY <4>1, <4>2
    <3> HIDE DEF c
    <3>4. \A i \in 1 .. Len(wire') : ~(wire'[i].code = Contact /\ wire'[i].arg = k)
      BY <1>11 DEF OnWire
    <3>5. CASE Starts(held)
      <4>1. in_flight'.cmd \in Cmds /\ line' # << >> BY <3>5 DEF Starts
      <4>2. CASE in_flight'.cmd \in Reread(k) \cup {Removal(k)} BY <4>1, <4>2 DEF OnLine, Right
      <4>3. CASE in_flight'.cmd \notin Reread(k) \cup {Removal(k)}
        <5>1. c \notin EvictedBy(in_flight'.cmd) BY <4>1, <4>3, EvictsContact DEF c
        <5>2. cache'[c] = radio'[c] BY <1>2, <3>1, <3>3, <3>5, <5>1 DEF Starts
        <5>3. in_flight'.cmd # FullSync BY <4>3 DEF Reread
        <5> QED BY <3>3, <3>4, <5>2, <5>3 DEF Fresh, Right, c
      <4> QED BY <4>2, <4>3
    <3>6. CASE Stops(held)
      <4>1. in_flight'.cmd # FullSync /\ cache'[c] = radio'[c] BY <1>2, <3>3, <3>6, Nobody DEF Stops
      <4> QED BY <3>3, <3>4, <4>1 DEF Fresh, Right, c
    <3> QED BY <1>3, <3>5, <3>6
  <2> QED BY <2>1, <2>2, <2>3, <2>4, <2>5, <2>6 DEF Right
<1>14. RemovedInv'
  <2> SUFFICES ASSUME ~doubt, NEW k \in removed
               PROVE  ~Holds(k)' /\ cache'[ContactEntry(k)] = 0 /\ ~OnWire(k)'
    BY <1>2 DEF RemovedInv
  <2>1. ~Holds(k) /\ cache[ContactEntry(k)] = 0 /\ ~OnWire(k) BY <1>4 DEF RemovedInv
  <2>2. k \in Contacts /\ ContactEntry(k) \in Entries BY EntryKinds DEF BaseInv, RadioTypes
  <2>3. ~(f.code = Contact /\ f.arg = k) BY <1>9, <2>1, <2>2
  <2>4. ContactEntry(k) # Entry(f.code, f.arg) BY <2>3 DEF ContactEntry, Entry
  <2>5. held[ContactEntry(k)] = 0 BY <1>3, <2>1, <2>2, <2>4
  <2>6. cache'[ContactEntry(k)] = 0 BY <1>7, <2>2, <2>5
  <2> QED BY <1>2, <1>11, <2>1, <2>2, <2>6 DEF Holds
<1>15. NameInv'
  <2> SUFFICES ASSUME ~doubt PROVE radio_name' = radio[SelfEntry] /\ ~Renamed'
    BY <1>2 DEF NameInv
  <2>1. ~Renamed' BY <1>6 DEF Renamed, Push, Ok, Advertisement
  <2>2. IF Renamed THEN in_flight.val = radio[SelfEntry] ELSE radio_name = radio[SelfEntry]
    BY <1>4 DEF NameInv
  <2>3. (\E i \in 1 .. Len(wire) : wire[i].code = Ok) <=> f.code = Ok
    BY <1>6 DEF Push, Ok, Advertisement
  <2>4. in_flight.cmd.code = SetName => f.code \in {Ok, Error} BY <1>1, NameReply
  <2>5. CASE f.code = SelfInfo
    <3>1. Entry(f.code, f.arg) \in Entries BY <2>5 DEF Replies, GoodFrame, CachedCodes
    <3>2. f.arg = NoArg
      <4> DEFINE e == Entry(f.code, f.arg)
      <4>1. e.code = SelfInfo /\ e.arg = f.arg BY <2>5 DEF Entry
      <4> HIDE DEF e
      <4>2. e \notin ContactEntries /\ e \notin ChannelEntries
        BY <4>1, EntryKinds DEF SelfInfo, Contact, ChannelInfo
      <4>3. e \in Blobs BY <3>1, <4>2 DEF Entries, e
      <4> QED BY <4>1, <4>3 DEF Blobs
    <3>3. Entry(f.code, f.arg) = SelfEntry /\ SelfEntry \in Steady
      BY <2>5, <3>2, EntryKinds DEF SelfEntry, Steady
    <3>4. f.val = radio[SelfEntry] BY <1>4, <1>6, <3>3, Slots
    <3> QED BY <1>3, <2>1, <2>5, <3>4
  <2>6. CASE f.code # SelfInfo /\ f.code # Error /\ in_flight.cmd.code = SetName
    <3>1. Renamed BY <2>3, <2>4, <2>6 DEF Renamed
    <3> QED BY <1>3, <2>1, <2>2, <2>6, <3>1
  <2>7. CASE f.code # SelfInfo /\ (f.code = Error \/ in_flight.cmd.code # SetName)
    <3>1. ~Renamed BY <2>3, <2>7 DEF Renamed, Ok, Error
    <3> QED BY <1>3, <2>1, <2>2, <2>7, <3>1
  <2> QED BY <2>5, <2>6, <2>7
<1> QED BY <1>5, <1>8, <1>12, <1>13, <1>14, <1>15 DEF CalmInv

\* Handling a frame keeps the invariant.
LEMMA RxKept ==
  ASSUME MirrorInv, handle_radio_rx
  PROVE  MirrorInv'
<1> DEFINE f == wire[1]
<1>1. BaseInv /\ CalmInv /\ SerialInv /\ WireTypes BY DEF MirrorInv, CalmInv, BaseInv
<1>2. Handles(f) /\ f \in Frames /\ GoodFrame(f, version) BY <1>1, RxHandles
<1> HIDE DEF f
<1>3. f = wire[1] BY DEF f
<1>4. CASE Push(f) BY <1>1, <1>2, <1>3, <1>4, PushCore, CoreKept
<1>5. CASE ~Push(f)
  <2>1. Replies(f) BY <1>2, <1>3, <1>5 DEF Replies
  <2>2. BaseInv' BY <1>1, <1>2, <1>3, RxBase
  <2>3. CASE Calm BY <1>1, <2>1, <2>2, <2>3, RxKinds, PieceKept, FinalKept DEF MirrorInv
  <2>4. CASE ~Calm
    <3>1. ~Calm' BY <1>2, <2>4, RxRadio
    <3>2. doubt' /\ spent'.timeouts # 0 BY <3>1 DEF Calm
    <3> QED BY <2>2, <3>1, <3>2 DEF MirrorInv, CalmInv, SerialInv, CoherentInv, SyncInv, ContactInv,
          RemovedInv, NameInv
  <2> QED BY <2>3, <2>4
<1> QED BY <1>4, <1>5

-----------------------------------------------------------------------------
(* A request times out; the connection is lost.                            *)

\* After a timeout nothing is promised but types.
LEMMA TimeoutKept ==
  ASSUME MirrorInv, Timeout
  PROVE  MirrorInv'
<1>1. CacheTypes /\ RadioTypes /\ SlotTypes /\ WireTypes BY DEF MirrorInv, BaseInv
<1>2. /\ Spend("timeouts") /\ doubt' = TRUE /\ advance_queue(pending_queue, cache)
      /\ radio' = radio /\ version' = version /\ removed' = removed /\ since' = since
      /\ kv' = kv /\ seen_at' = seen_at /\ synced_at' = synced_at /\ radio_name' = radio_name
      /\ wire' = wire /\ clock' = clock
  BY Zenon DEF Timeout, radioVars
<1>3. spent' \in Ledger /\ spent'.timeouts # 0
  <2>1. spent \in Ledger BY <1>1 DEF RadioTypes, Ledger
  <2> QED BY <1>2, <2>1, Spending
<1>4. version \in Nat /\ clock \in 0 .. MaxTime /\ clock \in Nat BY <1>1 DEF RadioTypes
<1>5. Ready(pending_queue, cache)
  <2>1. pending_queue \in Seq(Waiting) BY <1>1 DEF SlotTypes
  <2>2. Moves(pending_queue, cache) BY <1>2, <2>1, AdvanceMoves
  <2>3. version <= version' /\ version' \in Nat BY <1>2, <1>4
  <2>4. cache \in [Entries -> 0 .. version'] BY <1>1, <1>2 DEF CacheTypes
  <2>5. \A i \in 1 .. Len(pending_queue) : GoodVal(pending_queue[i], version')
    BY <1>1, <1>2, Zenon DEF SlotTypes
  <2> QED BY <1>2, <1>4, <2>1, <2>2, <2>3, <2>4, <2>5, Zenon DEF Ready
<1>6. SlotTypes' /\ cache' \in [Entries -> 0 .. version'] BY <1>1, <1>5, MovedSlot
<1>7. version' \in Nat /\ version <= version' /\ clock' \in Nat /\ clock <= clock' BY <1>2, <1>4
<1>8. CacheTypes' BY <1>1, <1>2, <1>6, <1>7, CacheSame
<1>9. RadioTypes' BY <1>1, <1>2, <1>3, Zenon DEF RadioTypes, Ledger
<1>10. WireTypes' BY <1>1, <1>2, <1>4, <1>7, WireSame
<1>11. doubt' /\ spent'.timeouts # 0 BY <1>2, <1>3
<1>12. CalmInv'
  BY <1>11 DEF Calm, CalmInv, SerialInv, CoherentInv, SyncInv, ContactInv, RemovedInv, NameInv
<1> QED BY <1>6, <1>8, <1>9, <1>10, <1>12 DEF MirrorInv, BaseInv

\* A function on 1 .. n is a sequence of length n.
LEMMA Numbered ==
  ASSUME NEW S, NEW n \in Nat, NEW s \in [1 .. n -> S]
  PROVE  s \in Seq(S) /\ Len(s) = n
  OBVIOUS

\* The requests of sync_from_radio: each channel is read.
LEMMA ResyncQueue ==
  ASSUME NEW last \in Nat, NEW s,
         s = [i \in 1 .. Cardinality(Channels) |-> Own(ChannelSync(SetToSeq(Channels)[i]))]
  PROVE  /\ s \in Seq(Waiting)
         /\ \A i \in 1 .. Len(s) : s[i].own /\ GoodVal(s[i], last)
         /\ \A c \in Channels : \E i \in 1 .. Len(s) : s[i].cmd = ChannelSync(c)
<1>1. /\ Cardinality(Channels) \in Nat
      /\ \A i \in 1 .. Cardinality(Channels) : SetToSeq(Channels)[i] \in Channels
      /\ \A x \in Channels : \E i \in 1 .. Cardinality(Channels) : SetToSeq(Channels)[i] = x
  BY Listed, ChannelsAssumption
<1> DEFINE n == Cardinality(Channels)
           q(i) == Own(ChannelSync(SetToSeq(Channels)[i]))
<1>2. \A i \in 1 .. n : /\ q(i) \in Waiting /\ GoodVal(q(i), last) /\ q(i).own
                        /\ q(i).cmd = ChannelSync(SetToSeq(Channels)[i])
  BY <1>1, OwnWaits, OwnAsks, OwnCommands
<1>3. n \in Nat /\ s = [i \in 1 .. n |-> q(i)] BY <1>1
<1>4. s \in Seq(Waiting) /\ Len(s) = n /\ \A i \in 1 .. n : s[i] = q(i)
  <2> HIDE DEF n, q
  <2>1. \A i \in 1 .. n : q(i) \in Waiting BY <1>2
  <2>2. s \in [1 .. n -> Waiting] /\ \A i \in 1 .. n : s[i] = q(i) BY <1>3, <2>1, Zenon
  <2>3. s \in Seq(Waiting) /\ Len(s) = n BY <1>3, <2>2, Numbered
  <2> QED BY <2>2, <2>3
<1> QED BY <1>1, <1>2, <1>4

\* The cache that Connect starts from.
Kept(restart) == IF restart THEN [cache EXCEPT ![BatteryEntry] = kv[BatteryEntry]] ELSE cache

\* What a new connection begins with.
LEMMA Connected ==
  ASSUME BaseInv, NEW restart \in BOOLEAN, Reconnect(restart)
  PROVE  /\ in_flight' \in Sent /\ in_flight' # NoRequest
         /\ in_flight'.cmd = FullSync /\ in_flight'.val = 0 /\ in_flight'.sent = clock
         /\ line' = <<Own(FullSync)>> /\ wire' = << >>
         /\ pending_queue' \in Seq(Waiting)
         /\ \A i \in 1 .. Len(pending_queue') :
              pending_queue'[i].own /\ GoodVal(pending_queue'[i], version)
         /\ \A e \in ChannelEntries : Queued({ChannelSync(e.arg)})'
         /\ \A e \in Entries :
              cache'[e] = IF e \in Greeted THEN radio[e] ELSE Kept(restart)[e]
         /\ \A e \in Entries : e \notin Blobs => Kept(restart)[e] = cache[e]
         /\ cache' \in [Entries -> 0 .. version]
         /\ kv' \in [Blobs -> 0 .. version]
         /\ radio_name' = radio[SelfEntry]
         /\ doubt' = FALSE /\ removed' = (IF doubt THEN {} ELSE removed)
         /\ spent' \in Ledger /\ spent'.timeouts = spent.timeouts
         /\ radio' = radio /\ version' = version /\ since' = since
         /\ seen_at' = seen_at /\ synced_at' = synced_at /\ clock' = clock
<1>1. CacheTypes /\ RadioTypes /\ SlotTypes BY DEF BaseInv
<1>2. /\ Spend("losses") /\ Connect(Kept(restart)) /\ sync_from_radio
      /\ doubt' = FALSE /\ removed' = (IF doubt THEN {} ELSE removed)
      /\ radio' = radio /\ version' = version /\ since' = since
      /\ seen_at' = seen_at /\ synced_at' = synced_at /\ clock' = clock
  BY Zenon DEF Reconnect, Kept
<1> DEFINE held == Kept(restart)
<1>3. held \in [Entries -> 0 .. version] /\ \A e \in Entries : e \notin Blobs => held[e] = cache[e]
  <2>1. cache \in [Entries -> 0 .. version] /\ kv \in [Blobs -> 0 .. version] BY <1>1 DEF CacheTypes
  <2>2. BatteryEntry \in Blobs /\ BatteryEntry \in Entries BY EntryKinds
  <2>3. kv[BatteryEntry] \in 0 .. version BY <2>1, <2>2
  <2> DEFINE b == BatteryEntry
             V == 0 .. version
             E == Entries
             v == kv[BatteryEntry]
  <2>4. cache \in [E -> V] /\ v \in V /\ b \in E /\ b \in Blobs BY <2>1, <2>2, <2>3, Zenon
  <2>5. held = IF restart THEN [cache EXCEPT ![b] = v] ELSE cache BY Zenon DEF Kept
  <2> HIDE DEF b, V, E, v, held
  <2>6. held \in [E -> V] /\ \A e \in E : e # b => held[e] = cache[e] BY <2>4, <2>5
  <2> QED BY <2>4, <2>6, Zenon DEF E, V
<1> HIDE DEF held
<1>4. /\ cache' = [e \in Entries |-> IF e \in Greeted THEN radio[e] ELSE held[e]]
      /\ kv' = [e \in Blobs |-> IF e \in Greeted THEN radio[e] ELSE kv[e]]
      /\ radio_name' = radio[SelfEntry]
      /\ in_flight' = [Own(FullSync) EXCEPT !.sent = clock]
      /\ line' = <<Own(FullSync)>>
      /\ wire' = << >>
      /\ pending_queue' = [i \in 1 .. Cardinality(Channels) |->
                             Own(ChannelSync(SetToSeq(Channels)[i]))]
  BY <1>2, Zenon DEF Connect, sync_from_radio, held
<1>5. radio \in [Entries -> 0 .. version] /\ kv \in [Blobs -> 0 .. version] /\ Blobs \subseteq Entries
      /\ version \in Nat /\ clock \in 0 .. MaxTime
  BY <1>1, EntryKinds DEF RadioTypes, CacheTypes
<1>6. \A e \in Entries : cache'[e] = IF e \in Greeted THEN radio[e] ELSE held[e]
  BY <1>4, Zenon
<1>7. cache' \in [Entries -> 0 .. version]
  <2>1. \A e \in Entries : (IF e \in Greeted THEN radio[e] ELSE held[e]) \in 0 .. version
    BY <1>3, <1>5
  <2> QED BY <1>4, <2>1, Zenon
<1>8. kv' \in [Blobs -> 0 .. version]
  <2>1. \A e \in Blobs : (IF e \in Greeted THEN radio[e] ELSE kv[e]) \in 0 .. version BY <1>5
  <2> QED BY <1>4, <2>1, Zenon
<1>9. spent' \in Ledger /\ spent'.timeouts = spent.timeouts
  <2>1. spent \in Ledger BY <1>1 DEF RadioTypes, Ledger
  <2> QED BY <1>2, <2>1, Spending
<1>10. Own(FullSync) \in Waiting /\ Own(FullSync).cmd = FullSync /\ Own(FullSync).val = 0
  BY <1>5, OwnWaits, OwnAsks, OwnCommands DEF Own
<1>11. /\ in_flight' \in Sent /\ in_flight' # NoRequest
       /\ in_flight'.cmd = FullSync /\ in_flight'.val = 0 /\ in_flight'.sent = clock
  BY <1>4, <1>5, <1>10, SentRequest
<1>12. /\ pending_queue' \in Seq(Waiting)
       /\ \A i \in 1 .. Len(pending_queue') :
            pending_queue'[i].own /\ GoodVal(pending_queue'[i], version)
       /\ \A i \in Channels : \E j \in 1 .. Len(pending_queue') : pending_queue'[j].cmd = ChannelSync(i)
  BY <1>4, <1>5, ResyncQueue
<1>13. \A e \in ChannelEntries : Queued({ChannelSync(e.arg)})'
  BY <1>12, EntryKinds DEF Queued
<1> QED BY <1>2, <1>3, <1>4, <1>6, <1>7, <1>8, <1>9, <1>11, <1>12, <1>13 DEF held

\* A new connection clears the doubts: everything is read again.
LEMMA ReconnectKept ==
  ASSUME MirrorInv, NEW restart \in BOOLEAN, Reconnect(restart)
  PROVE  MirrorInv'
<1>1. BaseInv /\ CacheTypes /\ RadioTypes /\ CoherentInv /\ SyncInv /\ RemovedInv
  BY DEF MirrorInv, BaseInv, CalmInv
<1>2. /\ in_flight' \in Sent /\ in_flight' # NoRequest
      /\ in_flight'.cmd = FullSync /\ in_flight'.val = 0 /\ in_flight'.sent = clock
      /\ line' = <<Own(FullSync)>> /\ wire' = << >>
      /\ pending_queue' \in Seq(Waiting)
      /\ \A i \in 1 .. Len(pending_queue') :
           pending_queue'[i].own /\ GoodVal(pending_queue'[i], version)
      /\ \A e \in ChannelEntries : Queued({ChannelSync(e.arg)})'
      /\ \A e \in Entries :
           cache'[e] = IF e \in Greeted THEN radio[e] ELSE Kept(restart)[e]
      /\ \A e \in Entries : e \notin Blobs => Kept(restart)[e] = cache[e]
      /\ cache' \in [Entries -> 0 .. version]
      /\ kv' \in [Blobs -> 0 .. version]
      /\ radio_name' = radio[SelfEntry]
      /\ doubt' = FALSE /\ removed' = (IF doubt THEN {} ELSE removed)
      /\ spent' \in Ledger /\ spent'.timeouts = spent.timeouts
      /\ radio' = radio /\ version' = version /\ since' = since
      /\ seen_at' = seen_at /\ synced_at' = synced_at /\ clock' = clock
  BY <1>1, Connected
<1>3. version \in Nat /\ clock \in Nat /\ clock \in 0 .. MaxTime
      /\ radio \in [Entries -> 0 .. version] /\ (\A e \in Entries : e \notin ContactEntries => radio[e] # 0)
  BY <1>1 DEF RadioTypes
<1>4. CacheTypes'
  <2>1. SelfEntry \in Entries /\ SelfEntry \notin ContactEntries BY EntryKinds
  <2>2. radio_name' \in 1 .. version BY <1>2, <1>3, <2>1
  <2>3. seen_at \in [Contacts -> 0 .. clock] /\ synced_at \in Never .. clock BY <1>1 DEF CacheTypes
  <2> QED BY <1>2, <2>2, <2>3, Zenon DEF CacheTypes
<1>5. RadioTypes'
  <2>1. removed' \subseteq Contacts BY <1>1, <1>2 DEF RadioTypes
  <2> QED BY <1>1, <1>2, <2>1, Zenon DEF RadioTypes, Ledger
<1>6. /\ Own(FullSync) \in Waiting /\ Own(FullSync).cmd = FullSync /\ Own(FullSync).val = 0
      /\ GoodVal(Own(FullSync), version) /\ FullSync.code \notin Setters
  BY <1>3, OwnWaits, OwnAsks, OwnCommands DEF Own
<1>7. line' \in Seq(Waiting) /\ Len(line') = 1 /\ line'[1] = Own(FullSync) /\ line' # << >>
  BY <1>2, <1>6, Single
<1>8. Len(wire') = 0 /\ wire' \in Seq(Frames) BY <1>2
<1>9. SlotTypes'
  <2>1. GoodVal(in_flight', version') /\ in_flight'.sent <= clock'
    BY <1>2, <1>3, <1>6 DEF GoodVal
  <2>2. \A i \in 1 .. Len(line') : GoodVal(line'[i], version') BY <1>2, <1>6, <1>7
  <2> QED BY <1>2, <1>7, <2>1, <2>2, Zenon DEF SlotTypes
<1>10. WireTypes' BY <1>8 DEF WireTypes
<1>11. OnlyPushes' BY <1>8 DEF OnlyPushes
<1>12. SerialInv'
  <2>1. Asked' BY <1>2, <1>6, <1>7, <1>11 DEF Asked
  <2>2. \A e \in Entries : e \notin EvictedBy(in_flight'.cmd)
    BY <1>2 DEF EvictedBy, FullSync, GetContacts, RemoveContact, SetChannel, SetName, SetRadio,
       SetTxPower, SetCoords, SetTuning, SetDevicePin, SetOtherParams, FactoryReset
  <2>3. ~\E i \in 1 .. Len(wire') : TRUE BY <1>8
  <2> QED BY <1>2, <2>1, <2>2, <2>3, Zenon DEF SerialInv
<1>13. CoherentInv'
  <2> SUFFICES ASSUME NEW e \in Steady
               PROVE  \/ cache'[e] = 0 \/ cache'[e] = radio'[e]
                      \/ /\ e \in ChannelEntries /\ spent'.timeouts # 0
                         /\ Queued({ChannelSync(e.arg)})'
    BY DEF CoherentInv
  <2>1. CASE e \in Greeted BY <1>2, <2>1, EntryKinds
  <2>2. CASE e \in ChannelEntries
    <3>1. e \in Entries /\ e \notin Greeted /\ e \notin Blobs
      <4>1. e \in Entries /\ e.code = ChannelInfo BY <2>2, EntryKinds
      <4>2. e \notin Blobs BY <4>1 DEF Blobs, ChannelInfo, SelfInfo, Battery, DeviceInfo
      <4> QED BY <4>1, <4>2, EntryKinds
    <3>2. cache'[e] = cache[e] BY <1>2, <3>1
    <3>3. spent.timeouts = 0 => cache[e] = 0 \/ cache[e] = radio[e] BY <1>1 DEF CoherentInv, Calm
    <3> QED BY <1>2, <2>2, <3>2, <3>3
  <2> QED BY <2>1, <2>2 DEF Steady
<1>14. SyncInv'
  <2>1. line' # << >> BY <1>7
  <2> QED BY <1>1, <1>2, <2>1 DEF SyncInv, Holds
<1>15. ContactInv'
  <2> SUFFICES ASSUME NEW k \in Contacts PROVE Right(k)' BY DEF ContactInv
  <2>1. OnLine(Reread(k))' BY <1>2, <1>7 DEF OnLine, Reread
  <2> QED BY <2>1, RereadRight
<1>16. RemovedInv'
  <2> SUFFICES ASSUME NEW k \in removed'
               PROVE  ~Holds(k)' /\ cache'[ContactEntry(k)] = 0 /\ ~OnWire(k)'
    BY DEF RemovedInv
  <2>1. ~doubt /\ k \in removed BY <1>2
  <2>2. ~Holds(k) /\ cache[ContactEntry(k)] = 0 BY <1>1, <2>1 DEF RemovedInv
  <2>3. k \in Contacts BY <1>1, <2>1 DEF RadioTypes
  <2>4. ContactEntry(k) \in Entries /\ ContactEntry(k) \notin Blobs BY <2>3, EntryKinds
  <2>5. ContactEntry(k) \notin Greeted BY <2>4, EntryKinds
  <2>6. cache'[ContactEntry(k)] = 0 BY <1>2, <2>2, <2>4, <2>5
  <2> QED BY <1>2, <1>8, <2>2, <2>6 DEF Holds, OnWire
<1>17. NameInv'
  <2>1. ~Renamed' BY <1>8 DEF Renamed
  <2> QED BY <1>2, <2>1 DEF NameInv
<1> QED BY <1>4, <1>5, <1>9, <1>10, <1>12, <1>13, <1>14, <1>15, <1>16, <1>17
       DEF MirrorInv, BaseInv, CalmInv

-----------------------------------------------------------------------------
(* The radio carries out a command.                                        *)

\* The frames it answers with are frames, and say what it holds.
Told(fs) ==
  /\ fs \in Seq(Frames) /\ Len(fs) \in Nat /\ Len(fs) >= 1
  /\ wire' = wire \o fs
  /\ \A i \in 1 .. Len(fs) :
       /\ GoodFrame(fs[i], version) /\ ~Push(fs[i])
       /\ fs[i].code \in CachedCodes => fs[i].val = radio'[Entry(fs[i].code, fs[i].arg)]

\* What it holds keeps its type.
Sound ==
  /\ radio' \in [Entries -> 0 .. version]
  /\ \A e \in Entries : e \notin ContactEntries => radio'[e] # 0
  /\ removed' \subseteq Contacts
  /\ since' \in [Contacts -> 0 .. clock]
  /\ doubt' \in BOOLEAN /\ (doubt => doubt')
  /\ spent' \in Ledger /\ spent'.timeouts = spent.timeouts

\* The frames answer cmd: the last one ends it, and one has what was asked for.
Replied(cmd, fs) ==
  /\ Ends(cmd, fs[Len(fs)])
  /\ \A i \in 1 .. Len(fs) - 1 : cmd.code = GetContacts /\ fs[i].code = Contact
  /\ \A k \in Contacts : cmd \in Reread(k) /\ Holds(k)' =>
       \E i \in 1 .. Len(fs) : fs[i].code = Contact /\ fs[i].arg = k
  /\ \A e \in ChannelEntries : cmd = ChannelSync(e.arg) =>
       \E i \in 1 .. Len(fs) : Entry(fs[i].code, fs[i].arg) = e

\* Only what cmd is for has changed, to val, and then the answer is OK.
Effect(cmd, val, fs) ==
  /\ \A e \in Entries : radio'[e] # radio[e] =>
       cmd.code \in OkCommands /\ e = Target(cmd) /\ \E i \in 1 .. Len(fs) : fs[i].code = Ok
  /\ cmd.code = SetName /\ (\E i \in 1 .. Len(fs) : fs[i].code = Ok) => radio'[SelfEntry] = val
  /\ \A k \in Contacts :
       /\ Holds(k)' => (Holds(k) /\ since'[k] = since[k]) \/ since'[k] = clock
       /\ cmd = Removal(k) => ~Holds(k)' \/ doubt'
       /\ k \in removed' => \/ k \in removed /\ radio'[ContactEntry(k)] = radio[ContactEntry(k)]
                            \/ cmd = Removal(k) /\ ~Holds(k)'

Serves(cmd, val, fs) == Told(fs) /\ Sound /\ Replied(cmd, fs) /\ Effect(cmd, val, fs)

\* A frame with what the radio holds, and one without.
LEMMA FrameHolds ==
  ASSUME RadioTypes, NEW e \in Entries, radio[e] # 0
  PROVE  /\ FrameOf(e) \in Frames /\ GoodFrame(FrameOf(e), version)
         /\ FrameOf(e).code = e.code /\ FrameOf(e).arg = e.arg /\ FrameOf(e).val = radio[e]
         /\ FrameOf(e).code \in CachedCodes /\ ~Push(FrameOf(e))
         /\ Entry(FrameOf(e).code, FrameOf(e).arg) = e
<1>1. FrameOf(e).code = e.code /\ FrameOf(e).arg = e.arg /\ FrameOf(e).val = radio[e]
  BY DEF FrameOf, Frame
<1>2. e = Entry(e.code, e.arg) /\ e.code \in CachedCodes /\ e.arg \in Args BY EntryKinds
<1>3. radio[e] \in Nat /\ radio[e] <= version BY DEF RadioTypes
<1>4. FrameOf(e) \in Frames BY <1>2, <1>3 DEF Frames, FrameOf, Frame, Codes
<1>5. e.code # Advertisement
  BY <1>2 DEF CachedCodes, Contact, SelfInfo, Battery, DeviceInfo, ChannelInfo, Advertisement
<1>6. GoodFrame(FrameOf(e), version) BY <1>1, <1>2, <1>3, <1>5 DEF GoodFrame
<1> QED BY <1>1, <1>2, <1>4, <1>5, <1>6 DEF Push

\* OK, ERROR and END_OF_CONTACTS carry nothing.
LEMMA ReplyGood ==
  ASSUME NEW c \in {Ok, Error, ContactEnd}, version \in Nat
  PROVE  /\ Reply(c) \in Frames /\ GoodFrame(Reply(c), version)
         /\ Reply(c).code = c /\ ~Push(Reply(c)) /\ c \notin CachedCodes /\ c # Contact
<1>1. Reply(c).code = c /\ Reply(c).arg = NoArg /\ Reply(c).val = 0 BY DEF Reply, Frame
<1>2. c \notin CachedCodes /\ c # Advertisement /\ c # Contact
  BY DEF CachedCodes, Contact, SelfInfo, Battery, DeviceInfo, ChannelInfo, Advertisement, Ok,
     Error, ContactEnd
<1>3. Reply(c) \in Frames BY DEF Frames, Reply, Frame, Codes, Args
<1> QED BY <1>1, <1>2, <1>3 DEF GoodFrame, Push

\* A query changes nothing.
LEMMA Untouched ==
  ASSUME RadioTypes, radio' = radio, removed' = removed, since' = since, doubt' = doubt,
         spent' = spent, NEW cmd \in Cmds, cmd.code \notin Setters, NEW val, NEW fs
  PROVE  Sound /\ Effect(cmd, val, fs)
<1>1. Sound BY Zenon DEF Sound, RadioTypes, Ledger
<1>2. cmd.code # SetName BY DEF Setters
<1>3. \A k \in Contacts : cmd # Removal(k) BY DEF Setters, Removal, Entry
<1>4. \A k \in Contacts : Holds(k)' <=> Holds(k) BY DEF Holds
<1> QED BY <1>1, <1>2, <1>3, <1>4 DEF Effect

\* One frame.
LEMMA OneFrame ==
  ASSUME NEW f \in Frames, GoodFrame(f, version), ~Push(f), wire' = wire \o <<f>>,
         f.code \in CachedCodes => f.val = radio'[Entry(f.code, f.arg)]
  PROVE  Told(<<f>>) /\ Len(<<f>>) = 1 /\ <<f>>[1] = f
<1>1. <<f>> \in Seq(Frames) /\ Len(<<f>>) = 1 /\ <<f>>[1] = f BY Single
<1> QED BY <1>1 DEF Told

\* The list of contacts.
LEMMA SendContactsServes ==
  ASSUME RadioTypes, NEW cmd \in Cmds, NEW val, SendContacts(cmd)
  PROVE  \E fs : Serves(cmd, val, fs)
<1>1. cmd.code = GetContacts /\ UNCHANGED <<radio, removed, since, doubt, spent>>
  BY Zenon DEF SendContacts
<1>2. PICK some \in SUBSET {e \in ContactEntries : radio[e] # 0} :
        /\ cmd = FullSync => some = {e \in ContactEntries : radio[e] # 0}
        /\ wire' = wire \o ([i \in 1 .. Cardinality(some) |-> FrameOf(SetToSeq(some)[i])]
                            \o <<Reply(ContactEnd)>>)
  BY Zenon DEF SendContacts, Answer
<1>3. /\ Cardinality(some) \in Nat
      /\ \A i \in 1 .. Cardinality(some) : SetToSeq(some)[i] \in some
      /\ \A x \in some : \E i \in 1 .. Cardinality(some) : SetToSeq(some)[i] = x
  <2>1. IsFiniteSet(some) BY FiniteContacts
  <2> QED BY <2>1, Listed
<1> DEFINE n == Cardinality(some)
           x(i) == SetToSeq(some)[i]
           cs == [i \in 1 .. n |-> FrameOf(x(i))]
           fs == cs \o <<Reply(ContactEnd)>>
<1>4. \A e \in some : e \in Entries /\ radio[e] # 0 /\ e.code = Contact /\ e = ContactEntry(e.arg)
  BY EntryKinds DEF Entries
<1>5. \A i \in 1 .. n : x(i) \in some BY <1>3
<1>6. \A i \in 1 .. n : /\ FrameOf(x(i)) \in Frames /\ GoodFrame(FrameOf(x(i)), version)
                        /\ FrameOf(x(i)).code = Contact /\ FrameOf(x(i)).arg = x(i).arg
                        /\ ~Push(FrameOf(x(i)))
                        /\ FrameOf(x(i)).val = radio[Entry(FrameOf(x(i)).code, FrameOf(x(i)).arg)]
  BY <1>4, <1>5, FrameHolds
<1>7. cs \in Seq(Frames) /\ Len(cs) = n /\ \A i \in 1 .. n : cs[i] = FrameOf(x(i))
  <2>1. n \in Nat /\ \A i \in 1 .. n : FrameOf(x(i)) \in Frames BY <1>3, <1>6
  <2> HIDE DEF n, x
  <2> QED BY <2>1
<1>8. version \in Nat BY DEF RadioTypes
<1>9. /\ Reply(ContactEnd) \in Frames /\ GoodFrame(Reply(ContactEnd), version)
      /\ Reply(ContactEnd).code = ContactEnd /\ ~Push(Reply(ContactEnd))
      /\ Reply(ContactEnd).code \notin CachedCodes
  BY <1>8, ReplyGood
<1>10. <<Reply(ContactEnd)>> \in Seq(Frames) /\ Len(<<Reply(ContactEnd)>>) = 1
       /\ <<Reply(ContactEnd)>>[1] = Reply(ContactEnd)
  BY <1>9, Single
<1>11. wire' = wire \o fs BY <1>2, Zenon
<1> HIDE DEF cs
<1>12. /\ fs \in Seq(Frames) /\ Len(fs) = n + 1 /\ n \in Nat
       /\ \A i \in 1 .. n : fs[i] = cs[i]
       /\ fs[n + 1] = Reply(ContactEnd)
  <2>1. /\ fs \in Seq(Frames) /\ Len(fs) = Len(cs) + Len(<<Reply(ContactEnd)>>)
        /\ \A i \in 1 .. Len(cs) : fs[i] = cs[i]
        /\ \A i \in 1 .. Len(<<Reply(ContactEnd)>>) : fs[Len(cs) + i] = <<Reply(ContactEnd)>>[i]
    BY <1>7, <1>10, Joined
  <2> QED BY <1>3, <1>7, <1>10, <2>1
<1> HIDE DEF fs, n, x
<1>13. \A i \in 1 .. Len(fs) : i \in 1 .. n \/ i = n + 1 BY <1>12
<1>14. Told(fs)
  <2>1. \A i \in 1 .. Len(fs) :
          /\ GoodFrame(fs[i], version) /\ ~Push(fs[i])
          /\ fs[i].code \in CachedCodes => fs[i].val = radio'[Entry(fs[i].code, fs[i].arg)]
    BY <1>1, <1>6, <1>7, <1>9, <1>12, <1>13
  <2>2. Len(fs) \in Nat /\ Len(fs) >= 1 BY <1>12
  <2> QED BY <1>11, <1>12, <2>1, <2>2 DEF Told
<1>15. cmd.code \notin Setters /\ cmd.code # GetChannel /\ cmd.code # GetContactByKey
  BY <1>1 DEF Setters, GetContacts, SetName, SetChannel, UpdateContact, RemoveContact,
     ImportContact, GetChannel, GetContactByKey
<1>16. Sound /\ Effect(cmd, val, fs) BY <1>1, <1>15, Untouched
<1>17. Replied(cmd, fs)
  <2>1. Ends(cmd, fs[Len(fs)]) BY <1>1, <1>9, <1>12, Classified DEF Ends
  <2>2. \A i \in 1 .. Len(fs) - 1 : fs[i].code = Contact BY <1>6, <1>7, <1>12
  <2>3. ASSUME NEW k \in Contacts, cmd \in Reread(k), Holds(k)'
        PROVE  \E i \in 1 .. Len(fs) : fs[i].code = Contact /\ fs[i].arg = k
    <3>1. cmd = FullSync BY <1>15, <2>3 DEF Reread, ContactSync
    <3>2. ContactEntry(k) \in some /\ ContactEntry(k).arg = k
      BY <1>1, <1>2, <2>3, <3>1, EntryKinds DEF Holds, ContactEntry, Entry
    <3>3. PICK i \in 1 .. n : x(i) = ContactEntry(k) BY <1>3, <3>2 DEF n, x
    <3>4. fs[i].code = Contact /\ fs[i].arg = k BY <1>6, <1>7, <1>12, <3>2, <3>3
    <3>5. i \in 1 .. Len(fs) BY <1>12
    <3> QED BY <3>4, <3>5
  <2>4. \A e \in ChannelEntries : cmd # ChannelSync(e.arg) BY <1>15 DEF ChannelSync
  <2> QED BY <1>1, <2>1, <2>2, <2>3, <2>4 DEF Replied
<1> QED BY <1>14, <1>16, <1>17 DEF Serves

\* An entry.
LEMMA SendEntryServes ==
  ASSUME RadioTypes, NEW cmd \in Cmds, NEW val, SendEntry(cmd)
  PROVE  \E fs : Serves(cmd, val, fs)
<1>1. UNCHANGED <<radio, removed, since, doubt, spent>> BY Zenon DEF SendEntry
<1>2. PICK q \in Queries :
        /\ q[1] = cmd.code
        /\ wire' = wire \o <<IF radio[Entry(q[2], cmd.arg)] = 0 THEN Reply(Error)
                             ELSE FrameOf(Entry(q[2], cmd.arg))>>
  BY Zenon DEF SendEntry, Answer
<1> DEFINE e == Entry(q[2], cmd.arg)
           f == IF radio[e] = 0 THEN Reply(Error) ELSE FrameOf(e)
<1>3. e \in Entries /\ cmd.code \in Asking BY <1>2, AskedEntry
<1>4. cmd.code \notin Setters /\ cmd.code # GetContacts BY <1>2, QueryPairs
<1>5. version \in Nat BY DEF RadioTypes
<1> HIDE DEF e
<1>6. /\ f \in Frames /\ GoodFrame(f, version) /\ ~Push(f)
      /\ f.code \in CachedCodes => f.val = radio'[Entry(f.code, f.arg)]
      /\ radio[e] # 0 => f.code = e.code /\ f.arg = e.arg /\ Entry(f.code, f.arg) = e
      /\ radio[e] = 0 => f.code = Error
  <2>1. CASE radio[e] = 0
    <3>1. f = Reply(Error) BY <2>1
    <3> HIDE DEF f
    <3> QED BY <1>5, <2>1, <3>1, ReplyGood
  <2>2. CASE radio[e] # 0
    <3>1. f = FrameOf(e) BY <2>2
    <3> HIDE DEF f
    <3> QED BY <1>1, <1>3, <2>2, <3>1, FrameHolds
  <2> QED BY <2>1, <2>2
<1>7. wire' = wire \o <<f>> BY <1>2, Zenon DEF e
<1>8. e.code = q[2] /\ e.arg = cmd.arg BY DEF e, Entry
<1> HIDE DEF f
<1>9. Told(<<f>>) /\ Len(<<f>>) = 1 /\ <<f>>[1] = f BY <1>6, <1>7, OneFrame
<1>10. Sound /\ Effect(cmd, val, <<f>>) BY <1>1, <1>4, Untouched
<1>11. Replied(cmd, <<f>>)
  <2>1. Ends(cmd, f)
    <3>1. CASE radio[e] = 0 BY <1>6, <3>1, Classified DEF Ends
    <3>2. CASE radio[e] # 0 BY <1>2, <1>6, <1>8, <3>2, Classified DEF Ends
    <3> QED BY <3>1, <3>2
  <2>2. ASSUME NEW k \in Contacts, cmd \in Reread(k), Holds(k)'
        PROVE  f.code = Contact /\ f.arg = k
    <3>1. cmd = ContactSync(k) BY <1>4, <2>2 DEF Reread, FullSync
    <3>2. cmd.code = GetContactByKey /\ cmd.arg = k BY <3>1 DEF ContactSync
    <3>3. q[2] = Contact BY <1>2, <3>2, QueryPairs
    <3>4. e = ContactEntry(k) BY <3>2, <3>3 DEF e, ContactEntry
    <3>5. radio[e] # 0 BY <1>1, <2>2, <3>4 DEF Holds
    <3> QED BY <1>6, <1>8, <3>2, <3>3, <3>5
  <2>3. ASSUME NEW c \in ChannelEntries, cmd = ChannelSync(c.arg)
        PROVE  Entry(f.code, f.arg) = c
    <3>1. cmd.code = GetChannel /\ cmd.arg = c.arg BY <2>3 DEF ChannelSync
    <3>2. q[2] = ChannelInfo BY <1>2, <3>1, QueryPairs
    <3>3. e = c BY <3>1, <3>2, EntryKinds DEF e
    <3>4. radio[e] # 0
      <4>1. c \in Steady /\ c \notin ContactEntries BY EntryKinds DEF Steady
      <4> QED BY <1>3, <3>3, <4>1 DEF RadioTypes
    <3> QED BY <1>6, <3>3, <3>4
  <2>4. ~\E i \in 1 .. Len(<<f>>) - 1 : TRUE BY <1>9
  <2>5. 1 \in 1 .. Len(<<f>>) BY <1>9
  <2>6. \A k \in Contacts : cmd \in Reread(k) /\ Holds(k)' =>
          \E i \in 1 .. Len(<<f>>) : <<f>>[i].code = Contact /\ <<f>>[i].arg = k
    BY <1>9, <2>2, <2>5
  <2>7. \A c \in ChannelEntries : cmd = ChannelSync(c.arg) =>
          \E i \in 1 .. Len(<<f>>) : Entry(<<f>>[i].code, <<f>>[i].arg) = c
    BY <1>9, <2>3, <2>5
  <2>8. Ends(cmd, <<f>>[Len(<<f>>)]) BY <1>9, <2>1
  <2> QED BY <2>4, <2>6, <2>7, <2>8, Zenon DEF Replied
<1> QED BY <1>9, <1>10, <1>11 DEF Serves

\* OK or ERROR to a setter.
LEMMA SetterReply ==
  ASSUME RadioTypes, NEW cmd \in Cmds, cmd.code \in OkCommands, NEW c \in {Ok, Error},
         wire' = wire \o <<Reply(c)>>
  PROVE  /\ Told(<<Reply(c)>>) /\ Replied(cmd, <<Reply(c)>>)
         /\ (\E i \in 1 .. Len(<<Reply(c)>>) : <<Reply(c)>>[i].code = Ok) <=> c = Ok
<1> DEFINE f == Reply(c)
<1>1. version \in Nat BY DEF RadioTypes
<1>2. f \in Frames /\ GoodFrame(f, version) /\ f.code = c /\ ~Push(f) /\ f.code \notin CachedCodes
  BY <1>1, ReplyGood
<1> HIDE DEF f
<1>3. Told(<<f>>) /\ Len(<<f>>) = 1 /\ <<f>>[1] = f BY <1>2, OneFrame DEF f
<1>4. cmd.code \in Setters BY TargetEntry
<1>5. Ends(cmd, f) BY <1>2, <1>4, Classified DEF Ends
<1>6. cmd.code # GetContacts /\ cmd.code # GetContactByKey /\ cmd.code # GetChannel
  BY <1>4 DEF Setters, GetContacts, SetName, SetChannel, UpdateContact, RemoveContact,
     ImportContact, GetChannel, GetContactByKey
<1>7. \A k \in Contacts : cmd \notin Reread(k) BY <1>6 DEF Reread, FullSync, ContactSync
<1>8. \A e \in ChannelEntries : cmd # ChannelSync(e.arg) BY <1>6 DEF ChannelSync
<1>9. ~\E i \in 1 .. Len(<<f>>) - 1 : TRUE BY <1>3
<1>10. Ends(cmd, <<f>>[Len(<<f>>)]) BY <1>3, <1>5
<1>11. Replied(cmd, <<f>>) BY <1>7, <1>8, <1>9, <1>10, Zenon DEF Replied
<1>12. (\E i \in 1 .. Len(<<f>>) : <<f>>[i].code = Ok) <=> c = Ok BY <1>2, <1>3
<1> QED BY <1>3, <1>11, <1>12 DEF f

\* A setter that is refused.
LEMMA RefuseServes ==
  ASSUME RadioTypes, NEW cmd \in Cmds, NEW val, Refuse(cmd)
  PROVE  \E fs : Serves(cmd, val, fs)
<1>1. /\ cmd.code \in OkCommands /\ Spend("refusals") /\ doubt' = (doubt \/ cmd.code = RemoveContact)
      /\ wire' = wire \o <<Reply(Error)>>
      /\ radio' = radio /\ removed' = removed /\ since' = since
  BY Zenon DEF Refuse, Answer
<1> DEFINE fs == <<Reply(Error)>>
<1>2. Told(fs) /\ Replied(cmd, fs) /\ ~\E i \in 1 .. Len(fs) : fs[i].code = Ok
  <2>1. Ok # Error BY DEF Ok, Error
  <2> QED BY <1>1, <2>1, SetterReply
<1> HIDE DEF fs
<1>3. spent' \in Ledger /\ spent'.timeouts = spent.timeouts
  <2>1. spent \in Ledger BY DEF RadioTypes, Ledger
  <2> QED BY <1>1, <2>1, Spending
<1>4. doubt' \in BOOLEAN /\ (doubt => doubt') /\ (cmd.code = RemoveContact => doubt')
  BY <1>1, Zenon DEF RadioTypes
<1>5. Sound BY <1>1, <1>3, <1>4, Zenon DEF Sound, RadioTypes
<1>6. \A k \in Contacts : cmd = Removal(k) => doubt' BY <1>4 DEF Removal, Entry
<1>7. \A k \in Contacts : Holds(k)' <=> Holds(k) BY <1>1 DEF Holds
<1>8. Effect(cmd, val, fs) BY <1>1, <1>2, <1>6, <1>7 DEF Effect
<1> QED BY <1>2, <1>5, <1>8 DEF Serves

\* A setter that is obeyed.
LEMMA ObeyServes ==
  ASSUME RadioTypes, NEW cmd \in Cmds, NEW val \in 1 .. version, Obey(cmd, val)
  PROVE  \E fs : Serves(cmd, val, fs)
<1> DEFINE t == Target(cmd)
<1>1. cmd.code \in OkCommands /\ doubt' = doubt /\ spent' = spent BY Zenon DEF Obey
<1>2. /\ cmd.code \in Setters /\ t \in Entries
      /\ cmd.code = SetName => t = SelfEntry
      /\ cmd.code \in {UpdateContact, RemoveContact, ImportContact} =>
           t = ContactEntry(cmd.arg) /\ cmd.arg \in Contacts
      /\ cmd.code = SetChannel => t = Entry(ChannelInfo, cmd.arg) /\ t \in Steady
  BY <1>1, TargetEntry
<1>3. cmd = Entry(cmd.code, cmd.arg) BY CommandKinds
<1>4. /\ version \in Nat /\ clock \in Nat /\ radio \in [Entries -> 0 .. version]
      /\ \A e \in Entries : e \notin ContactEntries => radio[e] # 0
      /\ removed \subseteq Contacts /\ since \in [Contacts -> 0 .. clock]
      /\ doubt \in BOOLEAN /\ spent \in Ledger
  BY DEF RadioTypes, Ledger
<1>5. Ok # Error BY DEF Ok, Error
<1>6. \A k \in Contacts : ContactEntry(k) \in Entries /\ ContactEntry(k).arg = k
                          /\ ContactEntry(k).code = Contact
  BY EntryKinds DEF ContactEntry, Entry
<1>7. CASE cmd.code = RemoveContact /\ radio[t] = 0
  <2>1. wire' = wire \o <<Reply(Error)>> /\ radio' = radio /\ removed' = removed /\ since' = since
    BY <1>7, Zenon DEF Obey, Answer
  <2> DEFINE fs == <<Reply(Error)>>
  <2>2. Told(fs) /\ Replied(cmd, fs) BY <1>1, <2>1, SetterReply
  <2> HIDE DEF fs
  <2>3. Sound BY <1>1, <1>4, <2>1, Zenon DEF Sound
  <2>4. \A k \in Contacts : Holds(k)' <=> Holds(k) BY <2>1 DEF Holds
  <2>5. \A k \in Contacts : cmd = Removal(k) => ~Holds(k)
    <3>1. ASSUME NEW k \in Contacts, cmd = Removal(k) PROVE ~Holds(k)
      <4>1. cmd.arg = k BY <3>1 DEF Removal, Entry
      <4> QED BY <1>2, <1>7, <4>1 DEF Holds
    <3> QED BY <3>1
  <2>6. cmd.code # SetName BY <1>7 DEF SetName, RemoveContact
  <2>7. Effect(cmd, val, fs) BY <2>1, <2>4, <2>5, <2>6 DEF Effect
  <2> QED BY <2>2, <2>3, <2>7 DEF Serves
<1>8. CASE cmd.code = RemoveContact /\ radio[t] # 0
  <2>1. /\ wire' = wire \o <<Reply(Ok)>> /\ radio' = [radio EXCEPT ![t] = 0]
        /\ removed' = removed \cup {cmd.arg} /\ since' = since
    BY <1>8, Zenon DEF Obey, Answer
  <2> DEFINE fs == <<Reply(Ok)>>
  <2>2. Told(fs) /\ Replied(cmd, fs) /\ \E i \in 1 .. Len(fs) : fs[i].code = Ok
    BY <1>1, <2>1, SetterReply
  <2> HIDE DEF fs
  <2>3. t = ContactEntry(cmd.arg) /\ cmd.arg \in Contacts /\ t \in ContactEntries
    BY <1>2, <1>8, EntryKinds
  <2> HIDE DEF t
  <2>4. radio' \in [Entries -> 0 .. version] /\ radio'[t] = 0
        /\ \A e \in Entries : e # t => radio'[e] = radio[e]
    BY <1>2, <1>4, <2>1
  <2>5. Sound BY <1>1, <1>4, <2>1, <2>3, <2>4 DEF Sound
  <2>6. cmd.code # SetName BY <1>8 DEF SetName, RemoveContact
  <2>7. \A e \in Entries : radio'[e] # radio[e] => e = Target(cmd) BY <2>4 DEF t
  <2>8. ASSUME NEW k \in Contacts
        PROVE  /\ Holds(k)' => Holds(k) /\ since'[k] = since[k]
               /\ cmd = Removal(k) => ~Holds(k)'
               /\ k \in removed' => \/ k \in removed /\ radio'[ContactEntry(k)] = radio[ContactEntry(k)]
                                    \/ cmd = Removal(k) /\ ~Holds(k)'
    <3>1. CASE k = cmd.arg
      <4>1. ~Holds(k)' BY <2>3, <2>4, <3>1 DEF Holds
      <4>2. cmd = Removal(k) BY <1>3, <1>8, <3>1 DEF Removal
      <4> QED BY <4>1, <4>2
    <3>2. CASE k # cmd.arg
      <4>1. ContactEntry(k) # t BY <1>6, <2>3, <3>2
      <4>2. radio'[ContactEntry(k)] = radio[ContactEntry(k)] BY <1>6, <2>4, <4>1
      <4>3. cmd # Removal(k) BY <3>2 DEF Removal, Entry
      <4> QED BY <2>1, <3>2, <4>2, <4>3 DEF Holds
    <3> QED BY <3>1, <3>2
  <2>9. Effect(cmd, val, fs) BY <1>1, <2>2, <2>6, <2>7, <2>8 DEF Effect
  <2> QED BY <2>2, <2>5, <2>9 DEF Serves
<1>9. CASE cmd.code # RemoveContact
  <2>1. /\ wire' = wire \o <<Reply(Ok)>> /\ radio' = [radio EXCEPT ![t] = val]
        /\ removed' = removed \ {t.arg}
        /\ since' = IF t.code = Contact /\ radio[t] = 0
                    THEN [since EXCEPT ![t.arg] = clock] ELSE since
    BY <1>9, Zenon DEF Obey, Answer, Learn
  <2> DEFINE fs == <<Reply(Ok)>>
  <2>2. Told(fs) /\ Replied(cmd, fs) /\ \E i \in 1 .. Len(fs) : fs[i].code = Ok
    BY <1>1, <2>1, SetterReply
  <2> HIDE DEF fs
  <2>3. t = Target(cmd) OBVIOUS
  <2> HIDE DEF t
  <2>4. radio' \in [Entries -> 0 .. version] /\ radio'[t] = val /\ val # 0
        /\ \A e \in Entries : e # t => radio'[e] = radio[e]
    BY <1>2, <1>4, <2>1
  <2>5. since' \in [Contacts -> 0 .. clock]
    <3>1. clock \in 0 .. clock BY <1>4
    <3> QED BY <1>4, <2>1, <3>1
  <2>6. Sound
    <3>1. \A e \in Entries : e \notin ContactEntries => radio'[e] # 0 BY <1>4, <2>4
    <3>2. removed' \subseteq Contacts BY <1>4, <2>1
    <3> QED BY <1>1, <1>4, <2>4, <2>5, <3>1, <3>2 DEF Sound
  <2>7. cmd.code = SetName => radio'[SelfEntry] = val BY <1>2, <2>4
  <2>8. \A e \in Entries : radio'[e] # radio[e] => e = Target(cmd) BY <2>3, <2>4
  <2>9. ASSUME NEW k \in Contacts
        PROVE  /\ Holds(k)' => (Holds(k) /\ since'[k] = since[k]) \/ since'[k] = clock
               /\ cmd # Removal(k)
               /\ k \in removed' => k \in removed /\ radio'[ContactEntry(k)] = radio[ContactEntry(k)]
    <3>1. cmd # Removal(k) BY <1>9 DEF Removal, Entry
    <3>2. since'[k] = since[k] \/ since'[k] = clock BY <1>4, <2>1
    <3>3. CASE ContactEntry(k) = t
      <4>1. t.code = Contact /\ t.arg = k BY <1>6, <3>3
      <4>2. k \notin removed' BY <2>1, <4>1
      <4>3. radio[t] = 0 => since'[k] = clock BY <1>4, <2>1, <4>1
      <4>4. ~Holds(k) => since'[k] = clock BY <3>3, <4>3 DEF Holds
      <4> QED BY <3>1, <3>2, <4>2, <4>4
    <3>4. CASE ContactEntry(k) # t
      <4>1. radio'[ContactEntry(k)] = radio[ContactEntry(k)] BY <1>6, <2>4, <3>4
      <4>2. Holds(k)' => Holds(k) BY <4>1 DEF Holds
      <4>3. k \in removed' => k \in removed BY <2>1
      <4> QED BY <3>1, <3>2, <4>1, <4>2, <4>3
    <3> QED BY <3>3, <3>4
  <2>10. Effect(cmd, val, fs) BY <1>1, <2>2, <2>7, <2>8, <2>9 DEF Effect
  <2> QED BY <2>2, <2>6, <2>10 DEF Serves
<1> QED BY <1>7, <1>8, <1>9

\* Whatever it is, the radio serves the first command on the line.
LEMMA RadioServes ==
  ASSUME BaseInv, RadioStep
  PROVE  /\ line # << >> /\ line' = Tail(line) /\ 1 \in 1 .. Len(line) /\ line[1] \in Waiting
         /\ \E fs : Serves(line[1].cmd, line[1].val, fs)
         /\ version' = version /\ clock' = clock /\ UNCHANGED cacheVars /\ UNCHANGED slotVars
<1>1. RadioTypes /\ SlotTypes BY DEF BaseInv
<1>2. /\ line # << >> /\ line' = Tail(line)
      /\ version' = version /\ clock' = clock /\ UNCHANGED cacheVars /\ UNCHANGED slotVars
  BY Zenon DEF RadioStep
<1>3. line \in Seq(Waiting) BY <1>1 DEF SlotTypes
<1>4. Head(line) = line[1] /\ line[1] \in Waiting /\ Len(line) \in Nat /\ Len(line) >= 1
  BY <1>2, <1>3, Shifted
<1>5. 1 \in 1 .. Len(line) BY <1>4
<1> DEFINE r == line[1]
<1>6. r.cmd \in Cmds /\ r.val \in Nat /\ GoodVal(r, version)
  BY <1>1, <1>4, <1>5, BoundsAssumption DEF SlotTypes, Waiting
<1>7. \/ SendContacts(r.cmd) \/ SendEntry(r.cmd) \/ Obey(r.cmd, r.val) \/ Refuse(r.cmd)
  BY <1>4, Zenon DEF RadioStep
<1> HIDE DEF r
<1>8. \E fs : Serves(r.cmd, r.val, fs)
  <2>1. CASE SendContacts(r.cmd) BY <1>1, <1>6, <2>1, SendContactsServes
  <2>2. CASE SendEntry(r.cmd) BY <1>1, <1>6, <2>2, SendEntryServes
  <2>3. CASE Refuse(r.cmd) BY <1>1, <1>6, <2>3, RefuseServes
  <2>4. CASE Obey(r.cmd, r.val)
    <3>1. r.cmd.code \in OkCommands BY <2>4, Zenon DEF Obey
    <3>2. r.cmd.code \in Setters BY <1>6, <3>1, TargetEntry
    <3>3. r.val \in 1 .. version BY <1>1, <1>6, <3>2 DEF GoodVal, RadioTypes
    <3> QED BY <1>1, <1>6, <2>4, <3>3, ObeyServes
  <2> QED BY <1>7, <2>1, <2>2, <2>3, <2>4
<1> QED BY <1>2, <1>4, <1>5, <1>8 DEF r

\* The step, for the frames fs.
Acts(fs) ==
  /\ line # << >> /\ line' = Tail(line) /\ 1 \in 1 .. Len(line) /\ line[1] \in Waiting
  /\ Serves(line[1].cmd, line[1].val, fs)
  /\ version' = version /\ clock' = clock
  /\ cache' = cache /\ kv' = kv /\ seen_at' = seen_at /\ synced_at' = synced_at
  /\ radio_name' = radio_name /\ in_flight' = in_flight /\ pending_queue' = pending_queue

\* Types.
LEMMA ActsBase ==
  ASSUME BaseInv, NEW fs, Acts(fs)
  PROVE  BaseInv'
<1>1. CacheTypes /\ RadioTypes /\ SlotTypes /\ WireTypes BY DEF BaseInv
<1>2. /\ line # << >> /\ line' = Tail(line) /\ Told(fs) /\ Sound
      /\ version' = version /\ clock' = clock
      /\ cache' = cache /\ kv' = kv /\ seen_at' = seen_at /\ synced_at' = synced_at
      /\ radio_name' = radio_name /\ in_flight' = in_flight /\ pending_queue' = pending_queue
  BY Zenon DEF Acts, Serves
<1>3. CacheTypes' BY <1>1, <1>2, Zenon DEF CacheTypes
<1>4. RadioTypes'
  <2>1. version' \in Nat \ {0} /\ clock' \in 0 .. MaxTime BY <1>1, <1>2 DEF RadioTypes
  <2> QED BY <1>2, <2>1, Zenon DEF Sound, RadioTypes, Ledger
<1>5. WireTypes'
  <2>1. version \in Nat /\ version' \in Nat /\ version <= version' BY <1>1, <1>2 DEF RadioTypes
  <2>2. fs \in Seq(Frames) /\ wire' = wire \o fs /\ \A i \in 1 .. Len(fs) : GoodFrame(fs[i], version)
    BY <1>2, Zenon DEF Told
  <2>3. \A i \in 1 .. Len(fs) : GoodFrame(fs[i], version') BY <1>2, <2>2
  <2> QED BY <1>1, <2>1, <2>2, <2>3, WireMore
<1>6. SlotTypes'
  <2>1. line \in Seq(Waiting) BY <1>1 DEF SlotTypes
  <2>2. line' \in Seq(Waiting)
        /\ \A i \in 1 .. Len(line') : line'[i] = line[i + 1] /\ i + 1 \in 1 .. Len(line)
    BY <1>2, <2>1, Shifted
  <2>3. \A i \in 1 .. Len(line') : GoodVal(line'[i], version') BY <1>1, <1>2, <2>2 DEF SlotTypes
  <2> QED BY <1>1, <1>2, <2>2, <2>3, Zenon DEF SlotTypes
<1> QED BY <1>3, <1>4, <1>5, <1>6 DEF BaseInv

\* The frames on the wire: those that were there, and the new ones.
LEMMA ToldWire ==
  ASSUME WireTypes, NEW fs, Told(fs)
  PROVE  /\ \A i \in 1 .. Len(wire) : \E j \in 1 .. Len(wire') : wire'[j] = wire[i]
         /\ \A i \in 1 .. Len(fs) : \E j \in 1 .. Len(wire') : wire'[j] = fs[i]
         /\ \A j \in 1 .. Len(wire') : \/ \E i \in 1 .. Len(wire) : wire'[j] = wire[i]
                                       \/ \E i \in 1 .. Len(fs) : wire'[j] = fs[i]
<1>1. wire \in Seq(Frames) /\ fs \in Seq(Frames) /\ wire' = wire \o fs BY Zenon DEF WireTypes, Told
<1>2. /\ Len(wire) \in Nat /\ Len(fs) \in Nat /\ Len(wire') = Len(wire) + Len(fs)
      /\ \A i \in 1 .. Len(wire) : wire'[i] = wire[i]
      /\ \A i \in 1 .. Len(fs) : wire'[Len(wire) + i] = fs[i]
      /\ \A i \in 1 .. Len(wire') :
           i \in 1 .. Len(wire) \/ (i - Len(wire) \in 1 .. Len(fs) /\ wire'[i] = fs[i - Len(wire)])
  BY <1>1, Joined
<1>3. \A i \in 1 .. Len(wire) : i \in 1 .. Len(wire') BY <1>2
<1>4. \A i \in 1 .. Len(fs) : Len(wire) + i \in 1 .. Len(wire') BY <1>2
<1> QED BY <1>2, <1>3, <1>4

\* A reply behind pushes is an answer.
LEMMA AnswerComes ==
  ASSUME WireTypes, OnlyPushes, NEW cmd, NEW fs, Told(fs), Replied(cmd, fs)
  PROVE  AnswerIn(wire', cmd)
<1>1. /\ wire \in Seq(Frames) /\ fs \in Seq(Frames) /\ wire' = wire \o fs /\ Len(fs) >= 1
      /\ Ends(cmd, fs[Len(fs)])
      /\ \A i \in 1 .. Len(fs) - 1 : cmd.code = GetContacts /\ fs[i].code = Contact
  BY Zenon DEF WireTypes, Told, Replied
<1>2. /\ Len(wire) \in Nat /\ Len(fs) \in Nat /\ Len(wire') = Len(wire) + Len(fs)
      /\ \A i \in 1 .. Len(wire) : wire'[i] = wire[i]
      /\ \A i \in 1 .. Len(fs) : wire'[Len(wire) + i] = fs[i]
      /\ \A i \in 1 .. Len(wire') :
           i \in 1 .. Len(wire) \/ (i - Len(wire) \in 1 .. Len(fs) /\ wire'[i] = fs[i - Len(wire)])
  BY <1>1, Joined
<1> DEFINE n == Len(wire')
<1>3. n \in 1 .. Len(wire') /\ wire'[n] = fs[Len(fs)] BY <1>1, <1>2
<1>4. ~\E j \in n + 1 .. Len(wire') : TRUE BY <1>2
<1>5. ASSUME NEW j \in 1 .. n - 1
      PROVE  Push(wire'[j]) \/ (cmd.code = GetContacts /\ wire'[j].code = Contact)
  <2>1. CASE j \in 1 .. Len(wire) BY <1>2, <2>1 DEF OnlyPushes
  <2>2. CASE j \notin 1 .. Len(wire)
    <3>1. j \in 1 .. Len(wire') BY <1>2
    <3>2. j - Len(wire) \in 1 .. Len(fs) /\ wire'[j] = fs[j - Len(wire)] BY <1>2, <2>2, <3>1
    <3>3. j - Len(wire) \in 1 .. Len(fs) - 1 BY <1>2, <3>2
    <3> QED BY <1>1, <3>2, <3>3
  <2> QED BY <2>1, <2>2
<1> HIDE DEF n
<1>6. Ends(cmd, wire'[n]) BY <1>1, <1>3
<1>7. \A j \in n + 1 .. Len(wire') : Push(wire'[j]) BY <1>4, Zenon
<1> QED BY <1>3, <1>5, <1>6, <1>7 DEF AnswerIn

\* The invariant, after the radio has carried out a command.
LEMMA ActsKept ==
  ASSUME MirrorInv, NEW fs, Acts(fs)
  PROVE  MirrorInv'
<1>1. /\ BaseInv /\ RadioTypes /\ CacheTypes /\ SlotTypes /\ WireTypes
      /\ SerialInv /\ CoherentInv /\ SyncInv /\ ContactInv /\ RemovedInv /\ NameInv
  BY DEF MirrorInv, BaseInv, CalmInv
<1> DEFINE cmd == line[1].cmd
           val == line[1].val
<1>2. /\ line # << >> /\ line' = Tail(line) /\ 1 \in 1 .. Len(line) /\ line[1] \in Waiting
      /\ Told(fs) /\ Sound /\ Replied(cmd, fs) /\ Effect(cmd, val, fs)
      /\ version' = version /\ clock' = clock
      /\ cache' = cache /\ kv' = kv /\ seen_at' = seen_at /\ synced_at' = synced_at
      /\ radio_name' = radio_name /\ in_flight' = in_flight /\ pending_queue' = pending_queue
  BY Zenon DEF Acts, Serves
<1> HIDE DEF cmd, val
<1>3. BaseInv' BY <1>1, ActsBase
<1>4. spent'.timeouts = spent.timeouts /\ (~doubt' => ~doubt) BY <1>2, Zenon DEF Sound
<1>5. CASE ~Calm
  <2>1. ~Calm' BY <1>4, <1>5 DEF Calm
  <2>2. doubt' /\ spent'.timeouts # 0 BY <2>1 DEF Calm
  <2> QED BY <1>3, <2>1, <2>2 DEF MirrorInv, CalmInv, SerialInv, CoherentInv, SyncInv, ContactInv,
        RemovedInv, NameInv
<1>6. CASE Calm
  <2>1. /\ in_flight # NoRequest /\ Asked /\ OnlyPushes
        /\ \A e \in Entries : e \in EvictedBy(in_flight.cmd) => cache[e] = 0
    BY <1>1, <1>2, <1>6, Slots
  <2>2. in_flight.cmd = cmd /\ in_flight.val = val /\ Len(line) = 1
    BY <2>1 DEF Asked, cmd, val
  <2>3. line' = << >>
    <3>1. line \in Seq(Waiting) BY <1>1 DEF SlotTypes
    <3>2. line' \in Seq(Waiting) /\ Len(line') = Len(line) - 1 BY <1>2, <3>1, Shifted
    <3> QED BY <2>2, <3>2
  <2>4. cmd \in Cmds /\ cmd = Entry(cmd.code, cmd.arg)
    <3>1. cmd \in Cmds BY <1>2 DEF Waiting, cmd
    <3> QED BY <3>1, CommandKinds
  <2>5. /\ \A i \in 1 .. Len(wire) : \E j \in 1 .. Len(wire') : wire'[j] = wire[i]
        /\ \A i \in 1 .. Len(fs) : \E j \in 1 .. Len(wire') : wire'[j] = fs[i]
        /\ \A j \in 1 .. Len(wire') : \/ \E i \in 1 .. Len(wire) : wire'[j] = wire[i]
                                      \/ \E i \in 1 .. Len(fs) : wire'[j] = fs[i]
    BY <1>1, <1>2, ToldWire
  <2>6. /\ \A i \in 1 .. Len(wire) : Push(wire[i])
        /\ \A i \in 1 .. Len(fs) :
             /\ GoodFrame(fs[i], version)
             /\ fs[i].code \in CachedCodes => fs[i].val = radio'[Entry(fs[i].code, fs[i].arg)]
    BY <1>2, <2>1, Zenon DEF OnlyPushes, Told
  <2>7. \A j \in 1 .. Len(wire') : wire'[j].code \in CachedCodes =>
          /\ wire'[j].val = radio'[Entry(wire'[j].code, wire'[j].arg)] /\ wire'[j].val # 0
          /\ \E i \in 1 .. Len(fs) : wire'[j] = fs[i]
    <3>1. Advertisement \notin CachedCodes
      BY DEF CachedCodes, Contact, SelfInfo, Battery, DeviceInfo, ChannelInfo, Advertisement
    <3> QED BY <2>5, <2>6, <3>1 DEF GoodFrame, Push
  <2>8. \A e \in Entries : e \in EvictedBy(cmd) => cache'[e] = 0 BY <1>2, <2>1, <2>2
  <2>9. /\ \A e \in Entries : radio'[e] # radio[e] =>
             cmd.code \in OkCommands /\ e = Target(cmd) /\ \E i \in 1 .. Len(fs) : fs[i].code = Ok
        /\ cmd.code = SetName /\ (\E i \in 1 .. Len(fs) : fs[i].code = Ok) => radio'[SelfEntry] = val
        /\ \A k \in Contacts :
             /\ Holds(k)' => (Holds(k) /\ since'[k] = since[k]) \/ since'[k] = clock
             /\ cmd = Removal(k) => ~Holds(k)' \/ doubt'
             /\ k \in removed' => \/ k \in removed /\ radio'[ContactEntry(k)] = radio[ContactEntry(k)]
                                  \/ cmd = Removal(k) /\ ~Holds(k)'
    BY <1>2, Zenon DEF Effect
  <2>10. /\ \A k \in Contacts : cmd \in Reread(k) /\ Holds(k)' =>
              \E i \in 1 .. Len(fs) : fs[i].code = Contact /\ fs[i].arg = k
         /\ \A e \in ChannelEntries : cmd = ChannelSync(e.arg) =>
              \E i \in 1 .. Len(fs) : Entry(fs[i].code, fs[i].arg) = e
    BY <1>2, Zenon DEF Replied
  <2>11. ASSUME NEW k \in Contacts, cmd \in Reread(k), Holds(k)' PROVE OnWire(k)'
    BY <2>5, <2>10, <2>11 DEF OnWire
  <2>12. (\E i \in 1 .. Len(wire') : wire'[i].code = Ok) <=> (\E i \in 1 .. Len(fs) : fs[i].code = Ok)
    <3>1. \A i \in 1 .. Len(wire) : wire[i].code # Ok BY <2>6 DEF Push, Ok, Advertisement
    <3>2. ASSUME NEW j \in 1 .. Len(wire'), wire'[j].code = Ok
          PROVE  \E i \in 1 .. Len(fs) : fs[i].code = Ok
      BY <2>5, <3>1, <3>2
    <3>3. ASSUME NEW i \in 1 .. Len(fs), fs[i].code = Ok
          PROVE  \E j \in 1 .. Len(wire') : wire'[j].code = Ok
      BY <2>5, <3>3
    <3> QED BY <3>2, <3>3
  <2>13. SerialInv'
    <3>1. AnswerIn(wire', cmd) BY <1>1, <1>2, <2>1, AnswerComes
    <3>2. Answered' BY <1>2, <2>2, <2>3, <3>1 DEF Answered
    <3>3. ASSUME NEW i \in 1 .. Len(wire'), NEW e \in Steady, e = Entry(wire'[i].code, wire'[i].arg)
          PROVE  wire'[i].val = radio'[e]
      <4>1. e.code \in CachedCodes BY EntryKinds
      <4>2. wire'[i].code \in CachedCodes BY <3>3, <4>1 DEF Entry
      <4> QED BY <2>7, <3>3, <4>2
    <3> QED BY <1>2, <2>1, <2>3, <3>2, <3>3, Zenon DEF SerialInv
  <2>14. CoherentInv'
    <3> SUFFICES ASSUME NEW e \in Steady
                 PROVE  \/ cache'[e] = 0 \/ cache'[e] = radio'[e]
                        \/ /\ e \in ChannelEntries /\ spent'.timeouts # 0
                           /\ \/ Queued({ChannelSync(e.arg)})' \/ OnLine({ChannelSync(e.arg)})'
                              \/ \E i \in 1 .. Len(wire') : Entry(wire'[i].code, wire'[i].arg) = e
      BY DEF CoherentInv
    <3>1. e \in Entries BY EntryKinds
    <3>2. CASE radio'[e] # radio[e]
      <4>1. e \in EvictedBy(cmd) BY <2>4, <2>9, <3>1, <3>2, TargetEntry
      <4> QED BY <2>8, <3>1, <4>1
    <3>3. CASE radio'[e] = radio[e] /\ (cache[e] = 0 \/ cache[e] = radio[e]) BY <1>2, <3>3
    <3>4. CASE /\ e \in ChannelEntries /\ spent.timeouts # 0
               /\ \/ Queued({ChannelSync(e.arg)}) \/ OnLine({ChannelSync(e.arg)})
                  \/ \E i \in 1 .. Len(wire) : Entry(wire[i].code, wire[i].arg) = e
      <4>1. CASE Queued({ChannelSync(e.arg)}) BY <1>2, <1>4, <3>4, <4>1 DEF Queued
      <4>2. CASE OnLine({ChannelSync(e.arg)})
        <5>1. cmd = ChannelSync(e.arg) BY <2>2, <4>2 DEF OnLine
        <5>2. \E i \in 1 .. Len(wire') : Entry(wire'[i].code, wire'[i].arg) = e
          BY <2>5, <2>10, <3>4, <5>1
        <5> QED BY <1>4, <3>4, <5>2
      <4>3. CASE \E i \in 1 .. Len(wire) : Entry(wire[i].code, wire[i].arg) = e
        BY <1>4, <2>5, <3>4, <4>3
      <4> QED BY <3>4, <4>1, <4>2, <4>3
    <3> QED BY <1>1, <1>6, <3>2, <3>3, <3>4 DEF CoherentInv
  <2>15. SyncInv'
    <3> SUFFICES ASSUME spent.timeouts = 0, NEW k \in Contacts, Holds(k)'
                 PROVE  /\ since'[k] < synced_at => seen_at[k] >= synced_at
                        /\ in_flight.cmd = FullSync /\ since'[k] < in_flight.sent => OnWire(k)'
      BY <1>2, <1>4, <2>3 DEF SyncInv
    <3>1. /\ synced_at \in Int /\ clock \in Nat /\ synced_at <= clock
      BY <1>1 DEF CacheTypes, RadioTypes, Never
    <3>2. in_flight.cmd = FullSync => OnWire(k)' BY <2>2, <2>11 DEF Reread
    <3>3. CASE Holds(k) /\ since'[k] = since[k] BY <1>1, <3>2, <3>3 DEF SyncInv
    <3>4. CASE since'[k] = clock BY <3>1, <3>2, <3>4
    <3> QED BY <2>9, <3>3, <3>4
  <2>16. ContactInv'
    <3> SUFFICES ASSUME ~doubt', NEW k \in Contacts, Holds(k)' PROVE Right(k)' BY DEF ContactInv
    <3> DEFINE c == ContactEntry(k)
    <3>1. c \in Entries /\ c = Entry(Contact, k) /\ c \in ContactEntries BY EntryKinds DEF ContactEntry
    <3>2. \A i \in 1 .. Len(wire') : wire'[i].code = Contact /\ wire'[i].arg = k => wire'[i].val = radio'[c]
      BY <2>7, <3>1 DEF CachedCodes
    <3> HIDE DEF c
    <3>3. CASE cmd \in Reread(k)
      <4>1. OnWire(k)' BY <2>11, <3>3
      <4> QED BY <3>2, <4>1 DEF Fresh, Right, c
    <3>4. cmd # Removal(k) BY <2>9
    <3>5. CASE radio'[c] # radio[c]
      <4>1. cmd.code \in OkCommands /\ c = Target(cmd) /\ \E i \in 1 .. Len(fs) : fs[i].code = Ok
        BY <2>9, <3>1, <3>5
      <4>2. c.code = Contact /\ c.arg = k BY <3>1 DEF Entry
      <4>3. cmd.code \in Setters BY <2>4, <4>1, TargetEntry
      <4>4. cmd.code # SetName
        BY <2>4, <4>1, <4>2, TargetEntry DEF SelfEntry, Entry, Contact, SelfInfo
      <4>5. cmd.code # SetChannel
        BY <2>4, <4>1, <4>2, TargetEntry DEF Entry, Contact, ChannelInfo
      <4>6. cmd.code \in {UpdateContact, RemoveContact, ImportContact} BY <4>3, <4>4, <4>5 DEF Setters
      <4>7. cmd.arg = k BY <2>4, <4>1, <4>2, <4>6, TargetEntry DEF ContactEntry, Entry
      <4>8. cmd = Entry(UpdateContact, k) \/ cmd.code = ImportContact
        BY <2>4, <3>4, <4>6, <4>7 DEF Removal
      <4>9. Changed(k)' BY <1>2, <2>2, <2>12, <4>1, <4>8 DEF Changed
      <4> QED BY <4>9 DEF Right
    <3>6. CASE cmd \notin Reread(k) /\ radio'[c] = radio[c]
      <4>1. Holds(k) BY <3>6 DEF Holds, c
      <4>2. Right(k) BY <1>1, <1>4, <4>1 DEF ContactInv
      <4>3. CASE Heard(k) BY <2>5, <4>3 DEF Heard, Right
      <4>4. CASE Queued(Reread(k)) BY <1>2, <4>4 DEF Queued, Right
      <4>5. ~OnLine(Reread(k) \cup {Removal(k)}) BY <2>2, <3>4, <3>6 DEF OnLine
      <4>6. ~Changed(k) BY <2>6 DEF Changed, Push, Ok, Advertisement
      <4>7. CASE Fresh(k)
        <5>1. ~OnWire(k) BY <2>6 DEF OnWire, Push, Contact, Advertisement
        <5>2. /\ cache[c] = radio[c] /\ seen_at[k] >= synced_at
              /\ in_flight.cmd = FullSync => seen_at[k] >= in_flight.sent
          BY <4>7, <5>1 DEF Fresh, c
        <5>3. /\ cache'[c] = radio'[c] /\ seen_at'[k] >= synced_at'
              /\ in_flight'.cmd = FullSync => seen_at'[k] >= in_flight'.sent
          BY <1>2, <3>6, <5>2
        <5> QED BY <3>2, <5>3 DEF Fresh, Right, c
      <4> QED BY <4>2, <4>3, <4>4, <4>5, <4>6, <4>7 DEF Right
    <3> QED BY <3>3, <3>5, <3>6
  <2>17. RemovedInv'
    <3> SUFFICES ASSUME ~doubt', NEW k \in removed'
                 PROVE  ~Holds(k)' /\ cache'[ContactEntry(k)] = 0 /\ ~OnWire(k)'
      BY DEF RemovedInv
    <3>1. k \in Contacts BY <1>2, Zenon DEF Sound
    <3>2. ContactEntry(k) \in Entries BY <3>1, EntryKinds
    <3>3. ~Holds(k)' /\ cache'[ContactEntry(k)] = 0
      <4>1. CASE k \in removed /\ radio'[ContactEntry(k)] = radio[ContactEntry(k)]
        BY <1>1, <1>2, <1>4, <4>1 DEF RemovedInv, Holds
      <4>2. CASE cmd = Removal(k) /\ ~Holds(k)'
        <5>1. cmd.code = RemoveContact /\ cmd.arg = k BY <4>2 DEF Removal, Entry
        <5>2. ContactEntry(k) \in EvictedBy(cmd)
          <6>1. cmd.code \in OkCommands BY <5>1 DEF OkCommands
          <6>2. Target(cmd) = ContactEntry(k) /\ Target(cmd) \in EvictedBy(cmd)
            BY <2>4, <5>1, <6>1, TargetEntry
          <6> QED BY <6>2
        <5> QED BY <2>8, <3>2, <4>2, <5>2
      <4> QED BY <2>9, <3>1, <4>1, <4>2
    <3>4. ~OnWire(k)'
      <4>1. ASSUME NEW i \in 1 .. Len(wire'), wire'[i].code = Contact, wire'[i].arg = k PROVE FALSE
        <5>1. wire'[i].val = radio'[ContactEntry(k)] /\ wire'[i].val # 0
          BY <2>7, <4>1 DEF CachedCodes, ContactEntry
        <5> QED BY <3>3, <5>1 DEF Holds
      <4> QED BY <4>1 DEF OnWire
    <3> QED BY <3>3, <3>4
  <2>18. NameInv'
    <3> SUFFICES ASSUME ~doubt'
                 PROVE  IF Renamed' THEN in_flight'.val = radio'[SelfEntry]
                        ELSE radio_name' = radio'[SelfEntry]
      BY DEF NameInv
    <3>1. Renamed' <=> cmd.code = SetName /\ \E i \in 1 .. Len(fs) : fs[i].code = Ok
      BY <1>2, <2>2, <2>12 DEF Renamed
    <3>2. CASE Renamed' BY <1>2, <2>2, <2>9, <3>1, <3>2
    <3>3. CASE ~Renamed'
      <4>1. ~Renamed BY <2>6 DEF Renamed, Push, Ok, Advertisement
      <4>2. radio_name = radio[SelfEntry] BY <1>1, <1>4, <4>1 DEF NameInv
      <4>3. SelfEntry \in Entries /\ SelfEntry.code = SelfInfo BY EntryKinds DEF SelfEntry, Entry
      <4>4. radio'[SelfEntry] = radio[SelfEntry]
        <5> SUFFICES ASSUME radio'[SelfEntry] # radio[SelfEntry] PROVE FALSE OBVIOUS
        <5>1. cmd.code \in OkCommands /\ SelfEntry = Target(cmd) /\ \E i \in 1 .. Len(fs) : fs[i].code = Ok
          BY <2>9, <4>3
        <5>2. cmd.code \in Setters BY <2>4, <5>1, TargetEntry
        <5>3. cmd.code # SetChannel
          BY <2>4, <4>3, <5>1, TargetEntry DEF Entry, SelfInfo, ChannelInfo
        <5>4. cmd.code \notin {UpdateContact, RemoveContact, ImportContact}
          BY <2>4, <4>3, <5>1, TargetEntry DEF ContactEntry, Entry, SelfInfo, Contact
        <5> QED BY <3>1, <3>3, <5>1, <5>2, <5>3, <5>4 DEF Setters
      <4> QED BY <1>2, <3>3, <4>2, <4>4
    <3> QED BY <3>2, <3>3
  <2> QED BY <1>3, <2>13, <2>14, <2>15, <2>16, <2>17, <2>18 DEF MirrorInv, CalmInv
<1> QED BY <1>5, <1>6

\* The invariant, after RadioStep.
LEMMA RadioStepKept ==
  ASSUME MirrorInv, RadioStep
  PROVE  MirrorInv'
<1>1. BaseInv BY DEF MirrorInv
<1>2. /\ line # << >> /\ line' = Tail(line) /\ 1 \in 1 .. Len(line) /\ line[1] \in Waiting
      /\ \E fs : Serves(line[1].cmd, line[1].val, fs)
      /\ version' = version /\ clock' = clock /\ UNCHANGED cacheVars /\ UNCHANGED slotVars
  BY <1>1, RadioServes
<1>3. \E fs : Acts(fs) BY <1>2, Zenon DEF Acts, cacheVars, slotVars
<1> QED BY <1>3, ActsKept

-----------------------------------------------------------------------------
(* The radio changes on its own, and time passes.                          *)

\* Nothing of the core's changes, no entry that a setter is for, and of a
\* contact that is new or different there is an advert on the way.
Happens ==
  /\ in_flight' = in_flight /\ pending_queue' = pending_queue /\ line' = line
  /\ cache' = cache /\ kv' = kv /\ seen_at' = seen_at /\ synced_at' = synced_at
  /\ radio_name' = radio_name /\ doubt' = doubt /\ spent' = spent
  /\ version' \in Nat /\ version <= version'
  /\ clock' \in 0 .. MaxTime /\ clock <= clock'
  /\ radio' \in [Entries -> 0 .. version']
  /\ \A e \in Entries : e \notin ContactEntries => radio'[e] # 0
  /\ removed' \subseteq removed
  /\ since' \in [Contacts -> 0 .. clock']
  /\ \A e \in Steady : radio'[e] = radio[e]
  /\ \A k \in Contacts :
       /\ \/ radio'[ContactEntry(k)] = radio[ContactEntry(k)]
          \/ radio'[ContactEntry(k)] = 0
          \/ Heard(k)' /\ k \notin removed'
       /\ Holds(k)' => (Holds(k) /\ since'[k] = since[k]) \/ since'[k] = clock
  /\ \/ wire' = wire
     \/ \E f \in Frames : Push(f) /\ GoodFrame(f, version') /\ wire' = wire \o <<f>>

\* Types.
LEMMA HappensBase ==
  ASSUME BaseInv, Happens
  PROVE  BaseInv'
<1>1. CacheTypes /\ RadioTypes /\ SlotTypes /\ WireTypes BY DEF BaseInv
<1>2. /\ in_flight' = in_flight /\ pending_queue' = pending_queue /\ line' = line
      /\ cache' = cache /\ kv' = kv /\ seen_at' = seen_at /\ synced_at' = synced_at
      /\ radio_name' = radio_name /\ doubt' = doubt /\ spent' = spent
      /\ version' \in Nat /\ version <= version' /\ clock' \in 0 .. MaxTime /\ clock <= clock'
      /\ radio' \in [Entries -> 0 .. version']
      /\ (\A e \in Entries : e \notin ContactEntries => radio'[e] # 0)
      /\ removed' \subseteq removed /\ since' \in [Contacts -> 0 .. clock']
  BY Zenon DEF Happens
<1>3. version \in Nat \ {0} /\ version' \in Nat \ {0} /\ clock \in Nat /\ clock' \in Nat
      /\ version \in Nat
  BY <1>1, <1>2 DEF RadioTypes
<1>4. CacheTypes'
  <2>1. cache' \in [Entries -> 0 .. version'] BY <1>1, <1>2, <1>3 DEF CacheTypes
  <2> QED BY <1>1, <1>2, <1>3, <2>1, CacheSame
<1>5. RadioTypes'
  <2>1. removed' \subseteq Contacts BY <1>1, <1>2 DEF RadioTypes
  <2> QED BY <1>1, <1>2, <1>3, <2>1, Zenon DEF RadioTypes
<1>6. SlotTypes' BY <1>1, <1>2, <1>3, SlotSame
<1>7. WireTypes'
  <2>1. CASE wire' = wire BY <1>1, <1>2, <1>3, <2>1, WireSame
  <2>2. ASSUME NEW f \in Frames, GoodFrame(f, version'), wire' = wire \o <<f>> PROVE WireTypes'
    <3>1. <<f>> \in Seq(Frames) /\ Len(<<f>>) = 1 /\ <<f>>[1] = f BY Single
    <3>2. \A i \in 1 .. Len(<<f>>) : GoodFrame(<<f>>[i], version') BY <2>2, <3>1
    <3> QED BY <1>1, <1>2, <1>3, <2>2, <3>1, <3>2, WireMore
  <2> QED BY <2>1, <2>2, Zenon DEF Happens
<1> QED BY <1>4, <1>5, <1>6, <1>7 DEF BaseInv

\* What is on the wire stays, and nothing but an advert joins it.
LEMMA HappensWire ==
  ASSUME WireTypes, Happens
  PROVE  /\ \A i \in 1 .. Len(wire) : \E j \in 1 .. Len(wire') : wire'[j] = wire[i]
         /\ \A j \in 1 .. Len(wire') : Push(wire'[j]) \/ \E i \in 1 .. Len(wire) : wire'[j] = wire[i]
         /\ \A cmd : AnswerIn(wire, cmd) => AnswerIn(wire', cmd)
<1>1. wire \in Seq(Frames) BY DEF WireTypes
<1>2. CASE wire' = wire BY <1>2
<1>3. ASSUME NEW f \in Frames, Push(f), wire' = wire \o <<f>>
      PROVE  /\ \A i \in 1 .. Len(wire) : \E j \in 1 .. Len(wire') : wire'[j] = wire[i]
             /\ \A j \in 1 .. Len(wire') : Push(wire'[j]) \/ \E i \in 1 .. Len(wire) : wire'[j] = wire[i]
             /\ \A cmd : AnswerIn(wire, cmd) => AnswerIn(wire', cmd)
  <2>1. <<f>> \in Seq(Frames) /\ Len(<<f>>) = 1 /\ <<f>>[1] = f BY Single
  <2>2. /\ Len(wire) \in Nat /\ Len(wire') = Len(wire) + 1
        /\ \A i \in 1 .. Len(wire) : wire'[i] = wire[i]
        /\ wire'[Len(wire) + 1] = f
    <3>1. /\ Len(wire) \in Nat /\ Len(wire') = Len(wire) + Len(<<f>>)
          /\ \A i \in 1 .. Len(wire) : wire'[i] = wire[i]
          /\ \A i \in 1 .. Len(<<f>>) : wire'[Len(wire) + i] = <<f>>[i]
      BY <1>1, <1>3, <2>1, Joined
    <3> QED BY <2>1, <3>1
  <2>3. \A i \in 1 .. Len(wire) : i \in 1 .. Len(wire') BY <2>2
  <2>4. \A j \in 1 .. Len(wire') : j \in 1 .. Len(wire) \/ j = Len(wire) + 1 BY <2>2
  <2>5. ASSUME NEW cmd, AnswerIn(wire, cmd) PROVE AnswerIn(wire', cmd)
    <3>1. PICK n \in 1 .. Len(wire) :
            /\ Ends(cmd, wire[n])
            /\ \A j \in n + 1 .. Len(wire) : Push(wire[j])
            /\ \A j \in 1 .. n - 1 : Push(wire[j]) \/ (cmd.code = GetContacts /\ wire[j].code = Contact)
      BY <2>5 DEF AnswerIn
    <3>2. Ends(cmd, wire'[n]) /\ n \in 1 .. Len(wire') BY <2>2, <2>3, <3>1
    <3>3. \A j \in n + 1 .. Len(wire') : j \in n + 1 .. Len(wire) \/ j = Len(wire) + 1 BY <2>2
    <3>4. \A j \in n + 1 .. Len(wire) : j \in 1 .. Len(wire) BY <2>2
    <3>5. \A j \in 1 .. n - 1 : j \in 1 .. Len(wire) BY <2>2
    <3>6. \A j \in n + 1 .. Len(wire') : Push(wire'[j]) BY <1>3, <2>2, <3>1, <3>3, <3>4
    <3>7. \A j \in 1 .. n - 1 : Push(wire'[j]) \/ (cmd.code = GetContacts /\ wire'[j].code = Contact)
      BY <2>2, <3>1, <3>5
    <3> QED BY <3>2, <3>6, <3>7 DEF AnswerIn
  <2> QED BY <1>3, <2>2, <2>3, <2>4, <2>5
<1> QED BY <1>2, <1>3, Zenon DEF Happens

\* The invariant, after a change on the radio.
LEMMA HappensKept ==
  ASSUME MirrorInv, Happens
  PROVE  MirrorInv'
<1>1. /\ BaseInv /\ RadioTypes /\ CacheTypes /\ SlotTypes /\ WireTypes
      /\ SerialInv /\ CoherentInv /\ SyncInv /\ ContactInv /\ RemovedInv /\ NameInv
  BY DEF MirrorInv, BaseInv, CalmInv
<1>2. /\ in_flight' = in_flight /\ pending_queue' = pending_queue /\ line' = line
      /\ cache' = cache /\ seen_at' = seen_at /\ synced_at' = synced_at
      /\ radio_name' = radio_name /\ doubt' = doubt /\ spent' = spent
      /\ removed' \subseteq removed /\ \A e \in Steady : radio'[e] = radio[e]
  BY Zenon DEF Happens
<1>3. \A k \in Contacts :
        /\ \/ radio'[ContactEntry(k)] = radio[ContactEntry(k)]
           \/ radio'[ContactEntry(k)] = 0
           \/ Heard(k)' /\ k \notin removed'
        /\ Holds(k)' => (Holds(k) /\ since'[k] = since[k]) \/ since'[k] = clock
  BY Zenon DEF Happens
<1>4. /\ \A i \in 1 .. Len(wire) : \E j \in 1 .. Len(wire') : wire'[j] = wire[i]
      /\ \A j \in 1 .. Len(wire') : Push(wire'[j]) \/ \E i \in 1 .. Len(wire) : wire'[j] = wire[i]
      /\ \A cmd : AnswerIn(wire, cmd) => AnswerIn(wire', cmd)
  BY <1>1, HappensWire
<1>5. BaseInv' BY <1>1, HappensBase
<1>6. Calm' <=> Calm BY <1>2 DEF Calm
<1>7. SerialInv'
  <2> SUFFICES ASSUME Calm
               PROVE  /\ in_flight' = NoRequest => line' = << >> /\ OnlyPushes'
                      /\ in_flight' # NoRequest => Asked' \/ Answered'
                      /\ line' # << >> => \A e \in Entries : e \in EvictedBy(in_flight'.cmd) => cache'[e] = 0
                      /\ \A i \in 1 .. Len(wire') : \A e \in Steady :
                           e = Entry(wire'[i].code, wire'[i].arg) => wire'[i].val = radio'[e]
    BY <1>6 DEF SerialInv
  <2>1. OnlyPushes => OnlyPushes' BY <1>4 DEF OnlyPushes
  <2>2. Asked => Asked' BY <1>2, <2>1 DEF Asked
  <2>3. Answered => Answered' BY <1>2, <1>4 DEF Answered
  <2>4. ASSUME NEW i \in 1 .. Len(wire'), NEW e \in Steady, e = Entry(wire'[i].code, wire'[i].arg)
        PROVE  wire'[i].val = radio'[e]
    <3>1. e.code # Advertisement
      BY EntryKinds DEF Steady, Advertisement, ChannelInfo, SelfInfo, DeviceInfo
    <3>2. ~Push(wire'[i]) BY <2>4, <3>1 DEF Push, Entry
    <3>3. PICK j \in 1 .. Len(wire) : wire'[i] = wire[j] BY <1>4, <3>2
    <3>4. wire[j].val = radio[e] BY <1>1, <2>4, <3>3, Slots
    <3> QED BY <1>2, <3>3, <3>4
  <2> QED BY <1>1, <1>2, <2>1, <2>2, <2>3, <2>4, Slots
<1>8. CoherentInv'
  <2> SUFFICES ASSUME Calm, NEW e \in Steady
               PROVE  \/ cache'[e] = 0 \/ cache'[e] = radio'[e]
                      \/ /\ e \in ChannelEntries /\ spent'.timeouts # 0
                         /\ \/ Queued({ChannelSync(e.arg)})' \/ OnLine({ChannelSync(e.arg)})'
                            \/ \E i \in 1 .. Len(wire') : Entry(wire'[i].code, wire'[i].arg) = e
    BY <1>6 DEF CoherentInv
  <2>1. \/ cache[e] = 0 \/ cache[e] = radio[e]
        \/ /\ e \in ChannelEntries /\ spent.timeouts # 0
           /\ \/ Queued({ChannelSync(e.arg)}) \/ OnLine({ChannelSync(e.arg)})
              \/ \E i \in 1 .. Len(wire) : Entry(wire[i].code, wire[i].arg) = e
    BY <1>1 DEF CoherentInv
  <2>2. Queued({ChannelSync(e.arg)}) => Queued({ChannelSync(e.arg)})' BY <1>2 DEF Queued
  <2>3. OnLine({ChannelSync(e.arg)}) => OnLine({ChannelSync(e.arg)})' BY <1>2 DEF OnLine
  <2>4. (\E i \in 1 .. Len(wire) : Entry(wire[i].code, wire[i].arg) = e) =>
           \E i \in 1 .. Len(wire') : Entry(wire'[i].code, wire'[i].arg) = e
    BY <1>4
  <2> QED BY <1>2, <2>1, <2>2, <2>3, <2>4
<1>9. \A k \in Contacts : OnWire(k)' <=> OnWire(k)
  <2>1. \A j \in 1 .. Len(wire') : wire'[j].code = Contact => \E i \in 1 .. Len(wire) : wire'[j] = wire[i]
    BY <1>4 DEF Push, Contact, Advertisement
  <2>2. \A i \in 1 .. Len(wire) : \E j \in 1 .. Len(wire') : wire'[j] = wire[i] BY <1>4
  <2>3. ASSUME NEW k \in Contacts, OnWire(k) PROVE OnWire(k)'
    <3>1. PICK i \in 1 .. Len(wire) : wire[i].code = Contact /\ wire[i].arg = k
      BY <2>3, Zenon DEF OnWire
    <3>2. PICK j \in 1 .. Len(wire') : wire'[j] = wire[i] BY <2>2
    <3> QED BY <3>1, <3>2, Zenon DEF OnWire
  <2>4. ASSUME NEW k \in Contacts, OnWire(k)' PROVE OnWire(k)
    <3>1. PICK j \in 1 .. Len(wire') : wire'[j].code = Contact /\ wire'[j].arg = k
      BY <2>4, Zenon DEF OnWire
    <3>2. PICK i \in 1 .. Len(wire) : wire'[j] = wire[i] BY <2>1, <3>1
    <3> QED BY <3>1, <3>2, Zenon DEF OnWire
  <2> QED BY <2>3, <2>4
<1>10. SyncInv'
  <2> SUFFICES ASSUME spent.timeouts = 0, NEW k \in Contacts, Holds(k)'
               PROVE  /\ since'[k] < synced_at => seen_at[k] >= synced_at
                      /\ in_flight.cmd = FullSync /\ line = << >> /\ since'[k] < in_flight.sent =>
                           seen_at[k] >= in_flight.sent \/ OnWire(k)'
    BY <1>2 DEF SyncInv
  <2>1. CASE Holds(k) /\ since'[k] = since[k] BY <1>1, <1>9, <2>1 DEF SyncInv
  <2>2. CASE since'[k] = clock
    <3>1. /\ synced_at \in Int /\ clock \in Nat /\ synced_at <= clock
      BY <1>1 DEF CacheTypes, RadioTypes, Never
    <3>2. in_flight.cmd = FullSync => in_flight # NoRequest BY Nobody
    <3>3. in_flight # NoRequest => in_flight.sent \in Nat /\ in_flight.sent <= clock
      BY <1>1 DEF SlotTypes, Sent
    <3> QED BY <2>2, <3>1, <3>2, <3>3
  <2> QED BY <1>3, <2>1, <2>2
<1>11. ContactInv'
  <2> SUFFICES ASSUME ~doubt, NEW k \in Contacts, Holds(k)' PROVE Right(k)'
    BY <1>2 DEF ContactInv
  <2> DEFINE c == ContactEntry(k)
  <2>1. CASE radio'[c] = 0 BY <2>1 DEF Holds
  <2>2. CASE Heard(k)' BY <2>2 DEF Right
  <2>3. CASE radio'[c] = radio[c]
    <3>1. Right(k) BY <1>1, <2>3 DEF ContactInv, Holds
    <3>2. CASE Heard(k) BY <1>4, <3>2 DEF Heard, Right
    <3>3. CASE Queued(Reread(k)) BY <1>2, <3>3 DEF Queued, Right
    <3>4. CASE OnLine(Reread(k) \cup {Removal(k)}) BY <1>2, <3>4 DEF OnLine, Right
    <3>5. CASE Changed(k) BY <1>2, <1>4, <3>5 DEF Changed, Right
    <3>6. CASE Fresh(k)
      <4>1. \A i \in 1 .. Len(wire) : wire[i].code = Contact /\ wire[i].arg = k => wire[i].val = radio[c]
        BY <3>6 DEF Fresh
      <4> HIDE DEF c
      <4>2. \A j \in 1 .. Len(wire') : wire'[j].code = Contact /\ wire'[j].arg = k => wire'[j].val = radio'[c]
        <5>1. \A j \in 1 .. Len(wire') : wire'[j].code = Contact =>
                \E i \in 1 .. Len(wire) : wire'[j] = wire[i]
          BY <1>4 DEF Push, Contact, Advertisement
        <5> QED BY <2>3, <4>1, <5>1
      <4>3. CASE OnWire(k) BY <1>9, <4>2, <4>3 DEF Fresh, Right, c
      <4>4. CASE /\ cache[c] = radio[c] /\ seen_at[k] >= synced_at
                 /\ in_flight.cmd = FullSync => seen_at[k] >= in_flight.sent
        <5>1. /\ cache'[c] = radio'[c] /\ seen_at'[k] >= synced_at'
              /\ in_flight'.cmd = FullSync => seen_at'[k] >= in_flight'.sent
          BY <1>2, <2>3, <4>4
        <5> QED BY <4>2, <5>1 DEF Fresh, Right, c
      <4> QED BY <3>6, <4>3, <4>4 DEF Fresh, c
    <3> QED BY <3>1, <3>2, <3>3, <3>4, <3>5, <3>6 DEF Right
  <2> QED BY <1>3, <2>1, <2>2, <2>3
<1>12. RemovedInv'
  <2> SUFFICES ASSUME ~doubt, NEW k \in removed'
               PROVE  ~Holds(k)' /\ cache'[ContactEntry(k)] = 0 /\ ~OnWire(k)'
    BY <1>2 DEF RemovedInv
  <2>1. k \in removed /\ k \in Contacts BY <1>1, <1>2 DEF RadioTypes
  <2>2. ~Holds(k) /\ cache[ContactEntry(k)] = 0 /\ ~OnWire(k) BY <1>1, <2>1 DEF RemovedInv
  <2>3. ~Holds(k)' BY <1>3, <2>1, <2>2 DEF Holds
  <2> QED BY <1>2, <1>9, <2>1, <2>2, <2>3
<1>13. NameInv'
  <2>1. \A j \in 1 .. Len(wire') : wire'[j].code = Ok => \E i \in 1 .. Len(wire) : wire'[j] = wire[i]
    BY <1>4 DEF Push, Ok, Advertisement
  <2>2. Renamed' <=> Renamed BY <1>2, <1>4, <2>1 DEF Renamed
  <2>3. radio'[SelfEntry] = radio[SelfEntry] BY <1>2, EntryKinds DEF Steady
  <2> QED BY <1>1, <1>2, <2>2, <2>3, Zenon DEF NameInv
<1> QED BY <1>5, <1>7, <1>8, <1>10, <1>11, <1>12, <1>13 DEF MirrorInv, CalmInv

\* Time passes.
LEMMA TickHappens ==
  ASSUME RadioTypes, Tick
  PROVE  Happens
<1>1. /\ radio' = radio /\ version' = version /\ removed' = removed /\ since' = since
      /\ in_flight' = in_flight /\ pending_queue' = pending_queue /\ line' = line
      /\ cache' = cache /\ kv' = kv /\ seen_at' = seen_at /\ synced_at' = synced_at
      /\ radio_name' = radio_name /\ doubt' = doubt /\ spent' = spent /\ wire' = wire
      /\ clock < MaxTime /\ clock' = clock + 1
  BY Zenon DEF Tick, radioVars, cacheVars, slotVars
<1>2. clock' \in 0 .. MaxTime /\ clock <= clock' /\ version' \in Nat /\ version <= version'
  BY <1>1, BoundsAssumption DEF RadioTypes
<1>3. since' \in [Contacts -> 0 .. clock'] BY <1>1, <1>2, BoundsAssumption DEF RadioTypes
<1>4. radio' \in [Entries -> 0 .. version'] /\ \A e \in Entries : e \notin ContactEntries => radio'[e] # 0
  BY <1>1 DEF RadioTypes
<1>5. \A k \in Contacts : Holds(k)' => Holds(k) /\ since'[k] = since[k] BY <1>1 DEF Holds
<1>6. \A k \in Contacts : radio'[ContactEntry(k)] = radio[ContactEntry(k)] BY <1>1
<1>7. removed' \subseteq removed /\ \A e \in Steady : radio'[e] = radio[e] BY <1>1
<1> QED BY <1>1, <1>2, <1>3, <1>4, <1>5, <1>6, <1>7, Zenon DEF Happens

\* An entry of the radio's, no contact that is kept and none of a setter's,
\* is changed without a word.
LEMMA QuietHappens ==
  ASSUME RadioTypes, NEW e \in Entries, e \notin Steady, NEW v \in 0 .. version + 1,
         e \in ContactEntries => v = 0, e \notin ContactEntries => v # 0,
         version' = version + 1, radio' = [radio EXCEPT ![e] = v],
         UNCHANGED <<removed, since, cacheVars, slotVars, line, wire, clock, doubt, spent>>
  PROVE  Happens
<1>1. /\ removed' = removed /\ since' = since
      /\ in_flight' = in_flight /\ pending_queue' = pending_queue /\ line' = line
      /\ cache' = cache /\ kv' = kv /\ seen_at' = seen_at /\ synced_at' = synced_at
      /\ radio_name' = radio_name /\ doubt' = doubt /\ spent' = spent /\ wire' = wire
      /\ clock' = clock
  BY Zenon DEF cacheVars, slotVars
<1>2. /\ version \in Nat /\ clock \in 0 .. MaxTime /\ radio \in [Entries -> 0 .. version]
      /\ (\A x \in Entries : x \notin ContactEntries => radio[x] # 0)
      /\ since \in [Contacts -> 0 .. clock]
  BY DEF RadioTypes
<1>3. clock' \in 0 .. MaxTime /\ clock <= clock' /\ version' \in Nat /\ version <= version'
  BY <1>1, <1>2, BoundsAssumption
<1>4. radio' \in [Entries -> 0 .. version'] /\ radio'[e] = v
      /\ \A x \in Entries : x # e => radio'[x] = radio[x]
  BY <1>2
<1>5. \A x \in Entries : x \notin ContactEntries => radio'[x] # 0 BY <1>2, <1>4
<1>6. \A x \in Steady : radio'[x] = radio[x] BY <1>4, EntryKinds
<1>7. \A k \in Contacts : radio'[ContactEntry(k)] = radio[ContactEntry(k)] \/ radio'[ContactEntry(k)] = 0
  BY <1>4, EntryKinds
<1>8. \A k \in Contacts : Holds(k)' => Holds(k) /\ since'[k] = since[k] BY <1>1, <1>7 DEF Holds
<1>9. removed' \subseteq removed /\ since' \in [Contacts -> 0 .. clock'] BY <1>1, <1>2
<1> QED BY <1>1, <1>3, <1>4, <1>5, <1>6, <1>7, <1>8, <1>9, Zenon DEF Happens

\* A contact is forgotten.
LEMMA ForgetsHappens ==
  ASSUME RadioTypes, NEW k \in Contacts, RadioForgets(k)
  PROVE  Happens
<1>1. /\ version' = version + 1 /\ radio' = [radio EXCEPT ![ContactEntry(k)] = 0]
      /\ UNCHANGED <<removed, since, cacheVars, slotVars, line, wire, clock, doubt, spent>>
  BY Zenon DEF RadioForgets
<1>2. /\ ContactEntry(k) \in Entries /\ ContactEntry(k) \in ContactEntries
      /\ ContactEntry(k) \notin Steady
  BY EntryKinds
<1>3. 0 \in 0 .. version + 1 BY DEF RadioTypes
<1> QED BY <1>1, <1>2, <1>3, QuietHappens

\* The battery drains.
LEMMA DrainsHappens ==
  ASSUME RadioTypes, RadioDrains
  PROVE  Happens
<1>1. /\ version' = version + 1 /\ radio' = [radio EXCEPT ![BatteryEntry] = version']
      /\ UNCHANGED <<removed, since, cacheVars, slotVars, line, wire, clock, doubt, spent>>
  BY Zenon DEF RadioDrains
<1>2. /\ BatteryEntry \in Entries /\ BatteryEntry \notin ContactEntries
      /\ BatteryEntry \notin Steady
  BY EntryKinds
<1>3. version' \in 0 .. version + 1 /\ version' # 0 BY <1>1 DEF RadioTypes
<1> QED BY <1>1, <1>2, <1>3, QuietHappens

\* An advert is heard.
LEMMA HearsHappens ==
  ASSUME RadioTypes, WireTypes, NEW k \in Contacts, RadioHears(k)
  PROVE  Happens
<1> DEFINE c == ContactEntry(k)
           f == Frame(Advertisement, k, 0)
<1>1. /\ version' = version + 1
      /\ radio' = [radio EXCEPT ![c] = version'] /\ removed' = removed \ {c.arg}
      /\ since' = IF c.code = Contact /\ radio[c] = 0 THEN [since EXCEPT ![c.arg] = clock] ELSE since
      /\ wire' = wire \o <<f>>
      /\ in_flight' = in_flight /\ pending_queue' = pending_queue /\ line' = line
      /\ cache' = cache /\ kv' = kv /\ seen_at' = seen_at /\ synced_at' = synced_at
      /\ radio_name' = radio_name /\ doubt' = doubt /\ spent' = spent
      /\ clock' = clock
  BY Zenon DEF RadioHears, Learn, Answer, cacheVars, slotVars
<1>2. /\ version \in Nat /\ clock \in 0 .. MaxTime /\ radio \in [Entries -> 0 .. version]
      /\ (\A x \in Entries : x \notin ContactEntries => radio[x] # 0)
      /\ since \in [Contacts -> 0 .. clock]
  BY DEF RadioTypes
<1>3. c \in Entries /\ c \in ContactEntries /\ c \notin Steady /\ c.code = Contact /\ c.arg = k
  BY EntryKinds DEF ContactEntry, Entry
<1>4. clock' \in 0 .. MaxTime /\ clock <= clock' /\ version' \in Nat /\ version <= version'
  BY <1>1, <1>2, BoundsAssumption
<1>5. f.code = Advertisement /\ f.arg = k /\ f.val = 0 BY DEF Frame
<1>6. f \in Frames /\ Push(f) /\ GoodFrame(f, version')
  <2>1. f \in Frames BY DEF Frames, Frame, Codes, Args
  <2>2. Advertisement \notin CachedCodes
    BY DEF CachedCodes, Contact, SelfInfo, Battery, DeviceInfo, ChannelInfo, Advertisement
  <2>3. f.val <= version' BY <1>4, <1>5
  <2> QED BY <1>5, <2>1, <2>2, <2>3 DEF Push, GoodFrame
<1> HIDE DEF c, f
<1>7. radio' \in [Entries -> 0 .. version'] /\ radio'[c] = version' /\ version' # 0
      /\ \A x \in Entries : x # c => radio'[x] = radio[x]
  BY <1>1, <1>2, <1>3
<1>8. \A x \in Entries : x \notin ContactEntries => radio'[x] # 0 BY <1>2, <1>3, <1>7
<1>9. \A x \in Steady : radio'[x] = radio[x] BY <1>3, <1>7, EntryKinds
<1>10. removed' \subseteq removed /\ k \notin removed' BY <1>1, <1>3
<1>11. since' \in [Contacts -> 0 .. clock']
  <2>1. clock \in 0 .. clock BY <1>2, BoundsAssumption
  <2> QED BY <1>1, <1>2, <1>3, <2>1
<1>12. Heard(k)'
  <2>1. wire \in Seq(Frames) BY DEF WireTypes
  <2>2. <<f>> \in Seq(Frames) /\ Len(<<f>>) = 1 /\ <<f>>[1] = f BY <1>6, Single
  <2>3. /\ Len(wire) \in Nat /\ Len(wire') = Len(wire) + Len(<<f>>)
        /\ \A i \in 1 .. Len(<<f>>) : wire'[Len(wire) + i] = <<f>>[i]
    BY <1>1, <2>1, <2>2, Joined
  <2>4. Len(wire) + 1 \in 1 .. Len(wire') /\ wire'[Len(wire) + 1] = f BY <2>2, <2>3
  <2> QED BY <1>5, <1>6, <2>4 DEF Heard
<1>13. ASSUME NEW j \in Contacts
       PROVE  /\ \/ radio'[ContactEntry(j)] = radio[ContactEntry(j)]
                 \/ Heard(j)' /\ j \notin removed'
              /\ Holds(j)' => (Holds(j) /\ since'[j] = since[j]) \/ since'[j] = clock
  <2>1. CASE j = k
    <3>1. Holds(k) => since' = since BY <1>1 DEF Holds, c
    <3>2. ~Holds(k) => since'[k] = clock BY <1>1, <1>2, <1>3 DEF Holds, c
    <3> QED BY <1>10, <1>12, <2>1, <3>1, <3>2
  <2>2. CASE j # k
    <3>1. ContactEntry(j) # c /\ ContactEntry(j) \in Entries
      BY <1>3, <2>2, EntryKinds DEF ContactEntry, Entry
    <3>2. radio'[ContactEntry(j)] = radio[ContactEntry(j)] BY <1>7, <3>1
    <3>3. since'[j] = since[j] BY <1>1, <1>2, <1>3, <2>2
    <3> QED BY <3>2, <3>3 DEF Holds
  <2> QED BY <2>1, <2>2
<1> QED BY <1>1, <1>4, <1>6, <1>7, <1>8, <1>9, <1>10, <1>11, <1>13, Zenon DEF Happens

\* And nothing may happen.
LEMMA StutterHappens ==
  ASSUME RadioTypes, UNCHANGED vars
  PROVE  Happens
<1>1. /\ radio' = radio /\ version' = version /\ removed' = removed /\ since' = since
      /\ in_flight' = in_flight /\ pending_queue' = pending_queue /\ line' = line
      /\ cache' = cache /\ kv' = kv /\ seen_at' = seen_at /\ synced_at' = synced_at
      /\ radio_name' = radio_name /\ doubt' = doubt /\ spent' = spent /\ wire' = wire
      /\ clock' = clock
  BY Zenon DEF vars
<1>2. clock' \in 0 .. MaxTime /\ clock <= clock' /\ version' \in Nat /\ version <= version'
  BY <1>1, BoundsAssumption DEF RadioTypes
<1>3. /\ since' \in [Contacts -> 0 .. clock'] /\ radio' \in [Entries -> 0 .. version']
      /\ \A e \in Entries : e \notin ContactEntries => radio'[e] # 0
  BY <1>1 DEF RadioTypes
<1>4. \A k \in Contacts : Holds(k)' => Holds(k) /\ since'[k] = since[k] BY <1>1 DEF Holds
<1>5. \A k \in Contacts : radio'[ContactEntry(k)] = radio[ContactEntry(k)] BY <1>1
<1>6. removed' \subseteq removed /\ \A e \in Steady : radio'[e] = radio[e] BY <1>1
<1> QED BY <1>1, <1>2, <1>3, <1>4, <1>5, <1>6, Zenon DEF Happens

-----------------------------------------------------------------------------
(* The invariant holds.                                                    *)

\* The first connection is like any other.
LEMMA MirrorInit == Init => MirrorInv
<1> SUFFICES ASSUME Init PROVE MirrorInv OBVIOUS
<1>1. /\ radio = [e \in Entries |-> IF e \in ContactEntries /\ e.arg \notin Held THEN 0 ELSE 1]
      /\ cache = [e \in Entries |-> IF e \in Greeted THEN 1 ELSE 0]
      /\ kv = [e \in Blobs |-> IF e \in Greeted THEN 1 ELSE 0]
      /\ seen_at = [k \in Contacts |-> 0] /\ synced_at = Never /\ radio_name = 1
      /\ in_flight = [Own(FullSync) EXCEPT !.sent = 0]
      /\ pending_queue = [i \in 1 .. Cardinality(Channels) |->
                            Own(ChannelSync(SetToSeq(Channels)[i]))]
      /\ line = <<Own(FullSync)>> /\ wire = << >>
      /\ clock = 0 /\ version = 1 /\ removed = {} /\ since = [k \in Contacts |-> 0]
      /\ doubt = FALSE
      /\ spent = [reads |-> 0, maintenance |-> 0, losses |-> 0, timeouts |-> 0, refusals |-> 0]
  BY Zenon DEF Init
<1>2. 0 \in 0 .. version /\ 1 \in 0 .. version /\ version \in Nat \ {0} /\ version \in Nat
      /\ clock \in 0 .. MaxTime /\ 0 \in 0 .. clock
  BY <1>1, BoundsAssumption
<1>3. /\ \A e \in Entries : radio[e] = IF e \in ContactEntries /\ e.arg \notin Held THEN 0 ELSE 1
      /\ \A e \in Entries : cache[e] = IF e \in Greeted THEN 1 ELSE 0
  BY <1>1, Zenon
<1>4. CacheTypes
  <2>1. cache \in [Entries -> 0 .. version]
    <3>1. \A e \in Entries : (IF e \in Greeted THEN 1 ELSE 0) \in 0 .. version BY <1>2
    <3> QED BY <1>1, <3>1, Zenon
  <2>2. kv \in [Blobs -> 0 .. version]
    <3>1. \A e \in Blobs : (IF e \in Greeted THEN 1 ELSE 0) \in 0 .. version BY <1>2
    <3> QED BY <1>1, <3>1, Zenon
  <2>3. seen_at \in [Contacts -> 0 .. clock] BY <1>1, <1>2
  <2>4. synced_at \in Never .. clock /\ radio_name \in 1 .. version BY <1>1 DEF Never
  <2> QED BY <2>1, <2>2, <2>3, <2>4 DEF CacheTypes
<1>5. RadioTypes
  <2>1. radio \in [Entries -> 0 .. version]
    <3>1. \A e \in Entries :
            (IF e \in ContactEntries /\ e.arg \notin Held THEN 0 ELSE 1) \in 0 .. version
      BY <1>2
    <3> QED BY <1>1, <3>1, Zenon
  <2>2. \A e \in Entries : e \notin ContactEntries => radio[e] # 0 BY <1>3
  <2>3. since \in [Contacts -> 0 .. clock] BY <1>1, <1>2
  <2>4. spent \in [reads : Nat, maintenance : Nat, losses : Nat, timeouts : Nat, refusals : Nat]
    BY <1>1
  <2>5. removed \subseteq Contacts /\ doubt \in BOOLEAN BY <1>1
  <2> QED BY <1>2, <2>1, <2>2, <2>3, <2>4, <2>5 DEF RadioTypes
<1>6. /\ Own(FullSync) \in Waiting /\ Own(FullSync).cmd = FullSync /\ Own(FullSync).val = 0
      /\ GoodVal(Own(FullSync), version) /\ FullSync.code \notin Setters
  BY <1>2, OwnWaits, OwnAsks, OwnCommands DEF Own
<1>7. line \in Seq(Waiting) /\ Len(line) = 1 /\ line[1] = Own(FullSync) /\ line # << >>
  BY <1>1, <1>6, Single
<1>8. Len(wire) = 0 /\ wire \in Seq(Frames) BY <1>1
<1>9. /\ in_flight \in Sent /\ in_flight # NoRequest
      /\ in_flight.cmd = FullSync /\ in_flight.val = 0 /\ in_flight.sent = 0
  <2>1. 0 \in 0 .. MaxTime BY BoundsAssumption
  <2> QED BY <1>1, <1>6, <2>1, SentRequest
<1>10. pending_queue \in Seq(Waiting)
       /\ \A i \in 1 .. Len(pending_queue) : GoodVal(pending_queue[i], version)
  BY <1>1, <1>2, ResyncQueue
<1>11. SlotTypes
  <2>1. GoodVal(in_flight, version) /\ in_flight.sent <= clock BY <1>1, <1>6, <1>9 DEF GoodVal
  <2>2. \A i \in 1 .. Len(line) : GoodVal(line[i], version) BY <1>6, <1>7
  <2> QED BY <1>7, <1>9, <1>10, <2>1, <2>2, Zenon DEF SlotTypes
<1>12. WireTypes BY <1>8 DEF WireTypes
<1>13. ~\E i \in 1 .. Len(wire) : TRUE BY <1>8
<1>14. SerialInv
  <2>1. OnlyPushes BY <1>13, Zenon DEF OnlyPushes
  <2>2. Asked BY <1>6, <1>7, <1>9, <2>1 DEF Asked
  <2>3. \A e \in Entries : e \notin EvictedBy(in_flight.cmd)
    BY <1>9 DEF EvictedBy, FullSync, GetContacts, RemoveContact, SetChannel, SetName, SetRadio,
       SetTxPower, SetCoords, SetTuning, SetDevicePin, SetOtherParams, FactoryReset
  <2> QED BY <1>9, <1>13, <2>2, <2>3, Zenon DEF SerialInv
<1>15. CoherentInv
  <2>1. \A e \in Steady : cache[e] = 0 \/ cache[e] = radio[e] BY <1>3, EntryKinds
  <2> QED BY <2>1, Zenon DEF CoherentInv
<1>16. SyncInv
  <2>1. \A k \in Contacts : ~(since[k] < synced_at) BY <1>1 DEF Never
  <2> QED BY <1>7, <2>1, Zenon DEF SyncInv
<1>17. ContactInv
  <2> SUFFICES ASSUME NEW k \in Contacts PROVE Right(k) BY DEF ContactInv
  <2>1. OnLine(Reread(k) \cup {Removal(k)}) BY <1>7, <1>9 DEF OnLine, Reread
  <2> QED BY <2>1 DEF Right
<1>18. RemovedInv BY <1>1 DEF RemovedInv
<1>19. NameInv
  <2>1. ~Renamed BY <1>13, Zenon DEF Renamed
  <2>2. radio[SelfEntry] = 1 BY <1>3, EntryKinds
  <2> QED BY <1>1, <2>1, <2>2 DEF NameInv
<1> QED BY <1>4, <1>5, <1>11, <1>12, <1>14, <1>15, <1>16, <1>17, <1>18, <1>19
       DEF MirrorInv, BaseInv, CalmInv

\* Every step keeps it.
LEMMA MirrorStep == MirrorInv /\ [Next]_vars => MirrorInv'
<1> SUFFICES ASSUME MirrorInv, [Next]_vars PROVE MirrorInv' OBVIOUS
<1>1. BaseInv /\ RadioTypes /\ WireTypes BY DEF MirrorInv, BaseInv
<1>2. ASSUME NEW cmd \in Commands, Query(cmd) PROVE MirrorInv' BY <1>1, <1>2, QueryCore, CoreKept
<1>3. ASSUME NEW cmd \in Commands, Change(cmd) PROVE MirrorInv' BY <1>1, <1>3, ChangeCore, CoreKept
<1>4. CASE handle_radio_rx BY <1>4, RxKept
<1>5. CASE Timeout BY <1>5, TimeoutKept
<1>6. CASE run_maintenance BY <1>1, <1>6, MaintenanceCore, CoreKept
<1>7. ASSUME NEW restart \in BOOLEAN, Reconnect(restart) PROVE MirrorInv' BY <1>7, ReconnectKept
<1>8. CASE RadioStep BY <1>8, RadioStepKept
<1>9. ASSUME NEW k \in Contacts, RadioHears(k) PROVE MirrorInv' BY <1>1, <1>9, HearsHappens, HappensKept
<1>10. ASSUME NEW k \in Contacts, RadioForgets(k) PROVE MirrorInv'
  BY <1>1, <1>10, ForgetsHappens, HappensKept
<1>11. CASE RadioDrains BY <1>1, <1>11, DrainsHappens, HappensKept
<1>12. CASE Tick BY <1>1, <1>12, TickHappens, HappensKept
<1>13. CASE UNCHANGED vars BY <1>1, <1>13, StutterHappens, HappensKept
<1> QED BY <1>2, <1>3, <1>4, <1>5, <1>6, <1>7, <1>8, <1>9, <1>10, <1>11, <1>12, <1>13, Zenon DEF Next

\* Whatever the clients, the radio and time do, in any order: the request in
\* flight and its answer are alone between the core and a radio that let none
\* wait, and what the cache lacks of the radio is being read.
THEOREM MirrorInductive == Spec => []MirrorInv
<1>1. Init => MirrorInv BY MirrorInit
<1>2. MirrorInv /\ [Next]_vars => MirrorInv' BY MirrorStep
<1> QED BY <1>1, <1>2, PTL DEF Spec

\* Every variable has its type; nothing is cached that the radio never held.
THEOREM MirrorTypeCorrect == Spec => []TypeOK
<1>1. MirrorInv => TypeOK BY BaseTypes DEF MirrorInv
<1> QED BY <1>1, MirrorInductive, PTL

\* At no moment does the cache serve a channel, SELF_INFO or DEVICE_INFO that a
\* setter has replaced on the radio (dispatch_to_radio, cache_response), unless
\* a request timed out.
THEOREM SettersCoherentHolds == Spec => []SettersCoherent
<1>1. MirrorInv => SettersCoherent
  BY DEF MirrorInv, CalmInv, CoherentInv, Calm, Steady, SettersCoherent
<1> QED BY <1>1, MirrorInductive, PTL

\* When all is quiet the cache is as the radio is (handle_radio_rx,
\* on_command_accepted, sync_from_radio), unless in doubt since a timeout or a
\* refused removal.
THEOREM FaithfulAtRest == Spec => []FaithfulMirror
<1>1. MirrorInv => FaithfulMirror
  <2> SUFFICES ASSUME MirrorInv, AtRest, ~doubt
               PROVE  /\ HeldIsCached
                      /\ \A k \in removed : cache[ContactEntry(k)] = 0
                      /\ \A e \in ChannelEntries \cup Greeted : cache[e] \in {0, radio[e]}
                      /\ radio_name = radio[SelfEntry]
    BY DEF FaithfulMirror
  <2>1. in_flight = NoRequest /\ pending_queue = << >> /\ line = << >> /\ wire = << >> BY DEF AtRest
  <2>2. /\ ~\E i \in 1 .. Len(wire) : TRUE
        /\ ~\E i \in 1 .. Len(pending_queue) : TRUE
    BY <2>1
  <2>3. Calm /\ CoherentInv /\ ContactInv /\ RemovedInv /\ NameInv BY DEF Calm, MirrorInv, CalmInv
  <2>4. HeldIsCached
    <3> SUFFICES ASSUME NEW e \in ContactEntries, radio[e] # 0 PROVE cache[e] = radio[e]
      BY DEF HeldIsCached
    <3>1. e.arg \in Contacts /\ e = ContactEntry(e.arg) BY EntryKinds
    <3>2. Right(e.arg) BY <2>3, <3>1 DEF ContactInv, Holds
    <3>3. ~Heard(e.arg) /\ ~Queued(Reread(e.arg)) /\ ~Changed(e.arg) /\ ~OnWire(e.arg)
      BY <2>2, Zenon DEF Heard, Queued, Changed, OnWire
    <3>4. ~OnLine(Reread(e.arg) \cup {Removal(e.arg)}) BY <2>1 DEF OnLine
    <3>5. Fresh(e.arg) BY <3>2, <3>3, <3>4 DEF Right
    <3> QED BY <3>1, <3>3, <3>5 DEF Fresh
  <2>5. \A k \in removed : cache[ContactEntry(k)] = 0 BY <2>3 DEF RemovedInv
  <2>6. \A e \in Steady : cache[e] = 0 \/ cache[e] = radio[e]
    <3> SUFFICES ASSUME NEW e \in Steady PROVE cache[e] = 0 \/ cache[e] = radio[e] OBVIOUS
    <3>1. ~Queued({ChannelSync(e.arg)}) BY <2>2, Zenon DEF Queued
    <3>2. ~OnLine({ChannelSync(e.arg)}) BY <2>1 DEF OnLine
    <3> QED BY <2>2, <2>3, <3>1, <3>2, Zenon DEF CoherentInv
  <2>7. radio_name = radio[SelfEntry]
    <3>1. ~Renamed BY <2>2, Zenon DEF Renamed
    <3> QED BY <2>3, <3>1 DEF NameInv
  <2> QED BY <2>4, <2>5, <2>6, <2>7 DEF Steady
<1> QED BY <1>1, MirrorInductive, PTL

\* contacts_synced_at means what state.rs says of it: every contact the radio
\* has held since then was seen then or later, until a request times out.
THEOREM SyncedMeansSeenHolds == Spec => []SyncedMeansSeen
<1>1. MirrorInv => SyncedMeansSeen
  BY DEF MirrorInv, CalmInv, SyncInv, SyncedMeansSeen
<1> QED BY <1>1, MirrorInductive, PTL

\* Maintenance purges no contact that the radio still holds and the last
\* complete sync has seen.
LEMMA MaintenanceSpares ==
  ASSUME MirrorInv, run_maintenance, spent.timeouts = 0, NEW k \in Contacts,
         Holds(k), cache[ContactEntry(k)] # 0, since[k] < synced_at
  PROVE  cache'[ContactEntry(k)] # 0
<1> DEFINE c == ContactEntry(k)
           held == [e \in Entries |-> IF e \in ContactEntries /\ seen_at[e.arg] < PurgeBefore
                                      THEN 0 ELSE cache[e]]
           asked == \E r \in {in_flight} \cup ToSet(pending_queue) : r.cmd = FullSync
           q == IF asked THEN pending_queue ELSE Append(pending_queue, Own(FullSync))
<1>1. CacheTypes /\ RadioTypes /\ SlotTypes /\ SyncInv BY DEF MirrorInv, BaseInv, CalmInv
<1>2. c \in Entries /\ c.arg = k BY EntryKinds DEF ContactEntry, Entry
<1>3. seen_at[k] >= synced_at BY <1>1 DEF SyncInv
<1>4. held[c] # 0
  <2>1. seen_at[k] \in Int /\ synced_at \in Int /\ PurgeBefore \in Int /\ PurgeBefore <= synced_at
    BY <1>1, PurgeAge DEF CacheTypes, RadioTypes, Never
  <2>2. ~(seen_at[k] < PurgeBefore) BY <1>3, <2>1
  <2> QED BY <1>2, <2>2, Zenon
<1> HIDE DEF c, held
<1>5. in_flight # NoRequest => cache' = held BY Zenon DEF run_maintenance, held
<1>6. CASE in_flight = NoRequest
  <2>1. advance_queue(q, held) BY <1>6, Zenon DEF run_maintenance, held
  <2>2. pending_queue = << >> BY <1>1, <1>6 DEF SlotTypes
  <2> HIDE DEF asked
  <2>3. Own(FullSync) \in Waiting /\ Own(FullSync).cmd = FullSync
    BY OwnCommands, OwnWaits, OwnAsks
  <2>4. q = << >> \/ q = <<Own(FullSync)>> BY <2>2
  <2>5. << >> \in Seq(Waiting) /\ Len(<< >>) = 0
        /\ <<Own(FullSync)>> \in Seq(Waiting) /\ Len(<<Own(FullSync)>>) = 1
        /\ <<Own(FullSync)>>[1] = Own(FullSync)
    BY <2>3, Single
  <2> HIDE DEF q
  <2>6. q \in Seq(Waiting) /\ \A n \in 1 .. Len(q) : q[n].cmd = FullSync
    <3>1. CASE q = << >> BY <2>5, <3>1
    <3>2. CASE q = <<Own(FullSync)>>
      <4>1. Len(q) = 1 /\ q[1].cmd = FullSync /\ q \in Seq(Waiting) BY <2>3, <2>5, <3>2
      <4>2. \A n \in 1 .. Len(q) : n = 1 BY <4>1
      <4> QED BY <4>1, <4>2
    <3> QED BY <2>4, <3>1, <3>2
  <2>7. Moves(q, held) BY <2>1, <2>6, AdvanceMoves
  <2>8. CASE Rests(q, held) BY <1>4, <2>8, Zenon DEF Rests, c
  <2>9. CASE Sends(q, held)
    <3>1. PICK n \in 1 .. Len(q) :
            cache' = [e \in Entries |-> IF e \in EvictedBy(q[n].cmd) THEN 0 ELSE held[e]]
      BY <2>9, Zenon DEF Sends
    <3>2. c \notin EvictedBy(q[n].cmd)
      <4>1. q[n].cmd = FullSync /\ FullSync \in Cmds BY <2>6, OwnCommands
      <4>2. FullSync # Removal(k) BY DEF FullSync, Removal, Entry, GetContacts, RemoveContact
      <4> QED BY <4>1, <4>2, EvictsContact DEF c
    <3> QED BY <1>2, <1>4, <3>1, <3>2, Zenon DEF c
  <2> QED BY <2>7, <2>8, <2>9 DEF Moves
<1> QED BY <1>4, <1>5, <1>6 DEF c

\* Nothing but maintenance counts as maintenance.
LEMMA OnlyMaintenance ==
  ASSUME RadioTypes, Next, spent'.maintenance > spent.maintenance
  PROVE  run_maintenance
<1>1. spent.maintenance \in Nat /\ spent \in Ledger BY DEF RadioTypes, Ledger
<1>2. spent' # spent BY <1>1
<1>3. \A what \in {"reads", "losses", "timeouts", "refusals"} : ~Spend(what)
  <2>1. ASSUME NEW what \in {"reads", "losses", "timeouts", "refusals"}, Spend(what)
        PROVE  spent'.maintenance = spent.maintenance
    BY <1>1, <2>1 DEF Spend, Ledger
  <2> QED BY <1>1, <2>1
<1>4. ~Spend("reads") /\ ~Spend("losses") /\ ~Spend("timeouts") /\ ~Spend("refusals") BY <1>3
<1>5. \A cmd \in Commands : ~Query(cmd) /\ ~Change(cmd) BY <1>2, <1>4, Zenon DEF Query, Change
<1>6. ~handle_radio_rx BY <1>2, Zenon DEF handle_radio_rx
<1>7. ~Timeout /\ \A restart \in BOOLEAN : ~Reconnect(restart) BY <1>4, Zenon DEF Timeout, Reconnect
<1>8. ~RadioStep
  <2>1. \A cmd : ~SendContacts(cmd) /\ ~SendEntry(cmd) BY <1>2, Zenon DEF SendContacts, SendEntry
  <2>2. \A cmd : ~Refuse(cmd) BY <1>4, Zenon DEF Refuse
  <2>3. \A cmd, val : ~Obey(cmd, val) BY <1>2, Zenon DEF Obey
  <2> QED BY <2>1, <2>2, <2>3, Zenon DEF RadioStep
<1>9. /\ \A k \in Contacts : ~RadioHears(k) /\ ~RadioForgets(k)
      /\ ~RadioDrains /\ ~Tick
  BY <1>2, Zenon DEF RadioHears, RadioForgets, RadioDrains, Tick
<1> QED BY <1>5, <1>6, <1>7, <1>8, <1>9, Zenon DEF Next

\* The daily maintenance (run_maintenance, maintain) spares what the radio has
\* held since before the last complete sync, unless a request timed out.
THEOREM PurgeSparesHeldHolds == Spec => PurgeSparesHeld
<1> DEFINE Spares == spent.timeouts = 0 /\ spent'.maintenance > spent.maintenance =>
                       \A k \in Contacts :
                         Holds(k) /\ cache[ContactEntry(k)] # 0 /\ since[k] < synced_at =>
                           cache'[ContactEntry(k)] # 0
<1>1. MirrorInv /\ [Next]_vars => [Spares]_vars
  <2> SUFFICES ASSUME MirrorInv, Next, spent.timeouts = 0, spent'.maintenance > spent.maintenance,
                      NEW k \in Contacts, Holds(k), cache[ContactEntry(k)] # 0, since[k] < synced_at
               PROVE  cache'[ContactEntry(k)] # 0
    BY Zenon
  <2>1. run_maintenance BY OnlyMaintenance DEF MirrorInv, BaseInv
  <2> QED BY <2>1, MaintenanceSpares
<1>2. Spec => [][Spares]_vars BY <1>1, MirrorInductive, PTL DEF Spec
<1> QED BY <1>2 DEF PurgeSparesHeld

=============================================================================
