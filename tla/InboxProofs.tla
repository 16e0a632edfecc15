---------------------------- MODULE InboxProofs -----------------------------
(***************************************************************************)
(* What a client that comes back gets and does not get, proved for any     *)
(* number of clients, identities, messages, purges and faults.             *)
(***************************************************************************)
EXTENDS Inbox, SequenceTheorems, WellFoundedInduction, TLAPS

AnyIdentity == Identities \cup {NoOne}
Session     == [ident : AnyIdentity, pending : SUBSET Nat]

\* The types that TypeOK leaves open, and what the stages of handling mean: a
\* message on its way is the last one stored, or will be the next one.
Types ==
  /\ sessions \in [Clients -> Session]
  /\ cursor \in [Identities -> Int]
  /\ seen \in [Identities -> SUBSET Nat]
  /\ replayed \in [Identities -> SUBSET Nat]
  /\ waived \in [Identities -> SUBSET Nat]
  /\ author \in [1 .. MaxMessages -> AnyIdentity]
  /\ handling.stage = "idle" => handling = Idle
  /\ handling.stage = "route" => handling.id = lastId /\ handling.audience \subseteq Identities
  /\ handling.stage = "echo" => handling.id = lastId + 1 /\ handling.audience = {}

Unserved == {"late", "closed", "unread"}

\* Identity i has message id, or there is an excuse.
Settled(i, id) == Served(i, id) \/ Excused(i, id, Unserved)

\* The message stored and not sent yet.
OnItsWay(id) == handling.stage = "route" /\ id = handling.id

\* A cursor passes only what is settled ...
CursorInv ==
  \A i \in Identities, id \in Stored : id <= cursor[i] => Settled(i, id) \/ OnItsWay(id)

\* ... because a connected client has everything that is not settled in its
\* pending list, whatever its cursor says.
SessionInv ==
  \A c \in channels : sessions[c].ident # NoOne =>
    \A id \in Stored : Settled(sessions[c].ident, id) \/ OnItsWay(id) \/ id \in sessions[c].pending

\* Whoever will be sent the message on its way, or was moved to it, was
\* connected when it was stored; an echo was sent to all that still are.
AudienceInv ==
  /\ handling.stage = "route" =>
       /\ Identified(channels) \subseteq handling.audience
       /\ \A i \in Identities : cursor[i] >= handling.id => i \in handling.audience
  /\ handling.stage = "echo" => \A i \in Identified(channels) : handling.id \in seen[i]

\* What was replayed is behind the cursor.
ReplayedInv == \A i \in Identities : \A id \in replayed[i] : id <= cursor[i] /\ id >= 1

\* Nobody has a message of its own pending.
PendingInv == \A c \in Clients : \A id \in sessions[c].pending \cap Stored : messages[id] # sessions[c].ident

\* A connection that is yet to come has no session.
NewInv == \A c \in Clients \ (channels \cup gone) : sessions[c] = NoSession

\* The sender is known by one identity while its request waits, ...
QueueInv ==
  \A k \in DOMAIN pending_queue :
    LET r == pending_queue[k]
    IN /\ r.client \in channels \cup gone
       /\ r.client \in channels /\ r.author # NoOne => sessions[r.client].ident = r.author

\* ... when it is dispatched, ...
FlightInv == in_flight.author # NoOne => in_flight.origin = in_flight.author

\* ... and in the database.
AuthorInv ==
  \A id \in 1 .. MaxMessages :
    /\ id > lastId => author[id] = NoOne
    /\ id \in Stored /\ author[id] # NoOne => messages[id] = author[id]

\* The conjuncts of TypeOK about requests.
SlotOK ==
  /\ in_flight \in Request \cup {NoRequest}
  /\ pending_queue \in Seq(Request)
  /\ radio \in Seq({"get", "send"})

InboxInv ==
  /\ TypeOK /\ Types
  /\ CursorInv /\ SessionInv /\ AudienceInv
  /\ ReplayedInv /\ PendingInv /\ NewInv
  /\ QueueInv /\ FlightInv /\ AuthorInv

-----------------------------------------------------------------------------
(* The least and the greatest of a set of ids.                             *)

\* A set of naturals that is not empty has a least element (Min).
LEMMA LeastId ==
  ASSUME NEW S, S \subseteq Nat, S # {}
  PROVE  Min(S) \in S /\ \A y \in S : Min(S) <= y
<1>1. \E x \in S : \A y \in S : ~(<<y, x>> \in OpToRel(<, Nat))
  BY NatLessThanWellFounded, WFMin, Zenon
<1>2. \A x, y \in Nat : <<y, x>> \notin OpToRel(<, Nat) => x <= y
  BY DEF OpToRel
<1>3. \E x \in S : \A y \in S : x <= y
  BY <1>1, <1>2
<1> QED BY <1>3 DEF Min

\* A set of ids that is not empty has a greatest element (Max).
LEMMA GreatestId ==
  ASSUME NEW n \in Nat, NEW S, S \subseteq 1 .. n, S # {}
  PROVE  Max(S) \in S /\ \A y \in S : y <= Max(S)
<1> DEFINE T == {n - x : x \in S}
<1>0. \A x \in S : x \in 1 .. n /\ n - x \in Nat OBVIOUS
<1>1. T \subseteq Nat /\ T # {} BY <1>0
<1>2. Min(T) \in T /\ \A y \in T : Min(T) <= y BY <1>1, LeastId
<1>3. PICK x \in S : Min(T) = n - x BY <1>2
<1>4. \A y \in S : n - y \in T OBVIOUS
<1>5. ASSUME NEW y \in S PROVE x >= y
  <2>1. n - x <= n - y BY <1>2, <1>3, <1>4
  <2>2. x \in Nat /\ y \in Nat OBVIOUS
  <2> QED BY <2>1, <2>2
<1>6. \A y \in S : x >= y BY <1>5
<1>7. Max(S) \in S /\ \A y \in S : Max(S) >= y BY <1>6 DEF Max
<1>8. \A y \in S : y \in Nat OBVIOUS
<1> QED BY <1>7, <1>8

\* The head is the newest message there is, or 0.
LEMMA HeadFacts ==
  ASSUME TypeOK
  PROVE  message_head \in 0 .. lastId /\ \A id \in Stored : id <= message_head
<1>1. lastId \in Nat /\ Stored \subseteq 1 .. lastId BY DEF TypeOK
<1>2. CASE Stored = {} BY <1>1, <1>2 DEF message_head
<1>3. CASE Stored # {}
  <2>1. Max(Stored) \in Stored /\ \A y \in Stored : y <= Max(Stored)
    BY <1>1, <1>3, GreatestId
  <2>2. message_head = Max(Stored) BY <1>3 DEF message_head
  <2> DEFINE m == Max(Stored)
             S == Stored
  <2>3. message_head = m /\ m \in S /\ (\A y \in S : y <= m) /\ S \subseteq 1 .. lastId
    BY <1>1, <2>1, <2>2
  <2> HIDE DEF m, S
  <2>4. message_head \in 0 .. lastId /\ \A id \in S : id <= message_head BY <1>1, <2>3
  <2> QED BY <2>4 DEF S
<1> QED BY <1>2, <1>3

-----------------------------------------------------------------------------
(* What the tables' operations do.                                         *)

\* The upsert never moves a cursor back, and moves only those it is told to.
LEMMA AdvanceFacts ==
  ASSUME NEW cur \in [Identities -> Int], NEW ids, NEW id \in Int
  PROVE  LET new == advance_client_cursor(cur, ids, id)
         IN /\ new \in [Identities -> Int]
            /\ \A i \in Identities :
                 /\ new[i] \in {cur[i], id}
                 /\ new[i] >= cur[i]
                 /\ i \in ids => new[i] >= id
                 /\ i \notin ids => new[i] = cur[i]
BY DEF advance_client_cursor

\* A row is added under an id that no row has had.
LEMMA InsertFacts ==
  ASSUME TypeOK, NEW origin, insert_message(origin)
  PROVE  /\ lastId' = lastId + 1 /\ lastId' \in Nat
         /\ Stored' = Stored \cup {lastId'}
         /\ lastId' \notin Stored
         /\ messages'[lastId'] = origin
         /\ \A k \in Stored : messages'[k] = messages[k]
<1>1. lastId \in Nat /\ Stored \subseteq 1 .. lastId BY DEF TypeOK
<1>2. lastId' = lastId + 1
      /\ messages' = [k \in Stored \cup {lastId'} |-> IF k = lastId' THEN origin ELSE messages[k]]
  BY Zenon DEF insert_message
<1>3. lastId' \notin Stored BY <1>1, <1>2
<1>4. Stored' = Stored \cup {lastId'} BY <1>2, Zenon DEF Stored
<1> QED BY <1>1, <1>2, <1>3, <1>4

\* What is settled stays settled.
LEMMA SettledStays ==
  ASSUME NEW i \in Identities, NEW id, Settled(i, id),
         seen[i] \subseteq seen'[i], waived[i] \subseteq waived'[i],
         excused \subseteq excused', messages'[id] = messages[id]
  PROVE  Settled(i, id)'
BY DEF Settled, Served, Excused

\* An excuse settles.
LEMMA ExcuseSettles ==
  ASSUME NEW i, NEW ids, NEW why \in Unserved, NEW id \in ids,
         Excuse(i, ids, why) \subseteq excused'
  PROVE  Settled(i, id)'
BY DEF Settled, Excused, Excuse, Unserved

-----------------------------------------------------------------------------
(* Requests.                                                               *)

\* The queue moves on (advance_queue): the request that is dispatched is known
\* by the identity that asked for it.
LEMMA QueueMoves ==
  ASSUME InboxInv, NEW line \in Seq({"get", "send"}), advance_queue(line),
         UNCHANGED netVars, \A c \in channels : sessions'[c].ident = sessions[c].ident
  PROVE  SlotOK' /\ QueueInv' /\ FlightInv'
<1>1. /\ pending_queue \in Seq(Request) /\ QueueInv /\ channels \subseteq Clients
      /\ sessions \in [Clients -> Session]
  BY DEF InboxInv, TypeOK, Types
<1>2. PICK k \in 1 .. Len(pending_queue) + 1 :
        /\ pending_queue' = SubSeq(pending_queue, k + 1, Len(pending_queue))
        /\ IF k <= Len(pending_queue)
           THEN /\ pending_queue[k].client \in channels
                /\ dispatch_to_radio(pending_queue[k], line)
           ELSE in_flight' = NoRequest /\ radio' = line
  BY DEF advance_queue
<1> DEFINE n == Len(pending_queue)
<1>3. n \in Nat /\ DOMAIN pending_queue = 1 .. n BY <1>1, LenProperties
<1>4. \A i \in 1 .. n : pending_queue[i] \in Request BY <1>1, LenProperties
<1>5. /\ pending_queue' \in Seq(Request)
      /\ Len(pending_queue') = IF k + 1 <= n THEN n - (k + 1) + 1 ELSE 0
      /\ \A i \in 1 .. n - (k + 1) + 1 : pending_queue'[i] = pending_queue[(k + 1) + i - 1]
  BY <1>2, <1>3, <1>4, SubSeqProperties
<1>6. DOMAIN pending_queue' = 1 .. Len(pending_queue') BY <1>5, LenProperties
<1>7. \A i \in DOMAIN pending_queue' :
        k + i \in DOMAIN pending_queue /\ pending_queue'[i] = pending_queue[k + i]
  <2> TAKE i \in DOMAIN pending_queue'
  <2>0. i \in 1 .. Len(pending_queue') /\ k \in 1 .. n + 1 BY <1>6
  <2> HIDE DEF n
  <2>1. i \in 1 .. n - (k + 1) + 1 BY <1>3, <1>5, <2>0
  <2>2. (k + 1) + i - 1 = k + i /\ k + i \in 1 .. n
    <3>1. n \in Int /\ k \in Int /\ i \in Int /\ i >= 1 /\ k >= 1 /\ i <= n - (k + 1) + 1
      BY <1>3, <2>0, <2>1
    <3> QED BY <3>1
  <2> QED BY <1>3, <1>5, <2>1, <2>2
<1>8. QueueInv' BY <1>1, <1>7 DEF QueueInv, netVars
<1>9. CASE k <= n
  <2> DEFINE r == pending_queue[k]
  <2>1. k \in 1 .. n BY <1>3, <1>9
  <2>2. r \in Request /\ r.client \in channels BY <1>2, <1>4, <1>9, <2>1
  <2>3. /\ in_flight' = [r EXCEPT !.origin = sessions[r.client].ident]
        /\ radio' = Append(line, r.cmd)
    BY <1>2, <1>9 DEF dispatch_to_radio
  <2>4. r.author # NoOne => sessions[r.client].ident = r.author
    BY <1>1, <1>3, <2>1, <2>2 DEF QueueInv
  <2> HIDE DEF r
  <2>5. sessions[r.client].ident \in AnyIdentity
    BY <1>1, <2>2 DEF Session
  <2>6. in_flight' \in Request /\ in_flight'.author = r.author
        /\ in_flight'.origin = sessions[r.client].ident
    BY <2>2, <2>3, <2>5 DEF Request, AnyIdentity
  <2>7. r.cmd \in {"get", "send"} BY <2>2 DEF Request
  <2>8. radio' \in Seq({"get", "send"}) BY <2>3, <2>7, AppendProperties
  <2> QED BY <1>5, <1>8, <2>4, <2>6, <2>8 DEF SlotOK, FlightInv
<1>10. CASE ~(k <= n)
  BY <1>2, <1>5, <1>8, <1>10 DEF SlotOK, FlightInv, NoRequest
<1> QED BY <1>9, <1>10

\* A command joins the queue or goes out (enqueue_or_dispatch).
LEMMA AskKeeps ==
  ASSUME InboxInv, NEW c \in channels, NEW cmd \in {"get", "send"}, Ask(c, cmd),
         UNCHANGED netVars, \A d \in channels : sessions'[d].ident = sessions[d].ident
  PROVE  SlotOK' /\ QueueInv' /\ FlightInv'
<1> DEFINE r == [client |-> c, cmd |-> cmd, origin |-> NoOne, author |-> sessions[c].ident]
<1>1. /\ pending_queue \in Seq(Request) /\ QueueInv /\ FlightInv /\ channels \subseteq Clients
      /\ sessions \in [Clients -> Session] /\ radio \in Seq({"get", "send"})
      /\ in_flight \in Request \cup {NoRequest}
  BY DEF InboxInv, TypeOK, Types
<1>2. c \in Clients /\ sessions[c].ident \in AnyIdentity BY <1>1 DEF Session
<1>3. /\ r \in Request /\ r.client = c /\ r.cmd = cmd /\ r.author = sessions[c].ident
  BY <1>2 DEF Request, AnyIdentity
<1>4. \/ dispatch_to_radio(r, radio) /\ pending_queue' = pending_queue
      \/ pending_queue' = Append(pending_queue, r) /\ in_flight' = in_flight /\ radio' = radio
  BY DEF Ask
<1> HIDE DEF r
<1>5. CASE dispatch_to_radio(r, radio) /\ pending_queue' = pending_queue
  <2>1. in_flight' = [r EXCEPT !.origin = sessions[c].ident] /\ radio' = Append(radio, cmd)
    BY <1>3, <1>5 DEF dispatch_to_radio
  <2>2. in_flight' \in Request /\ in_flight'.author = r.author
        /\ in_flight'.origin = sessions[c].ident
    BY <1>2, <1>3, <2>1 DEF Request, AnyIdentity
  <2>3. radio' \in Seq({"get", "send"}) BY <1>1, <2>1, AppendProperties
  <2>4. QueueInv' BY <1>1, <1>5 DEF QueueInv, netVars
  <2> QED BY <1>1, <1>3, <1>5, <2>2, <2>3, <2>4 DEF SlotOK, FlightInv
<1>6. CASE pending_queue' = Append(pending_queue, r) /\ in_flight' = in_flight /\ radio' = radio
  <2> DEFINE n == Len(pending_queue)
  <2>1. /\ pending_queue' \in Seq(Request) /\ Len(pending_queue') = n + 1
        /\ \A i \in 1 .. n : pending_queue'[i] = pending_queue[i]
        /\ pending_queue'[n + 1] = r
    BY <1>1, <1>3, <1>6, AppendProperties
  <2>2. n \in Nat /\ DOMAIN pending_queue = 1 .. n /\ DOMAIN pending_queue' = 1 .. n + 1
    BY <1>1, <2>1, LenProperties
  <2>3. \A i \in DOMAIN pending_queue' :
          (i \in DOMAIN pending_queue /\ pending_queue'[i] = pending_queue[i]) \/ pending_queue'[i] = r
    BY <2>1, <2>2
  <2>4. QueueInv' BY <1>1, <1>3, <2>3 DEF QueueInv, netVars
  <2> QED BY <1>1, <1>6, <2>1, <2>4 DEF SlotOK, FlightInv
<1> QED BY <1>4, <1>5, <1>6

\* Everything is failed or lost at once.
LEMMA NoRequests ==
  ASSUME in_flight' = NoRequest, pending_queue' = << >>, radio' = << >>
  PROVE  SlotOK' /\ QueueInv' /\ FlightInv'
BY EmptySeq DEF SlotOK, QueueInv, FlightInv, NoRequest

\* A step that touches only requests.
LEMMA SlotStep ==
  ASSUME InboxInv, SlotOK' /\ QueueInv' /\ FlightInv',
         UNCHANGED <<netVars, sessions, messages, lastId, cursor, handling, seen, ghostVars>>
  PROVE  InboxInv'
<1> USE DEF netVars, ghostVars
<1>1. TypeOK' BY DEF InboxInv, TypeOK, SlotOK, Stored
<1>2. Types' BY DEF InboxInv, Types
<1>3. CursorInv' /\ SessionInv'
  BY DEF InboxInv, CursorInv, SessionInv, Settled, Served, Excused, OnItsWay, Stored
<1>4. AudienceInv' BY DEF InboxInv, AudienceInv, Identified
<1>5. ReplayedInv' /\ PendingInv' /\ NewInv' /\ AuthorInv'
  BY DEF InboxInv, ReplayedInv, PendingInv, NewInv, AuthorInv, Stored
<1> QED BY <1>1, <1>2, <1>3, <1>4, <1>5 DEF InboxInv

-----------------------------------------------------------------------------
(* Connections.                                                            *)

\* An empty database and nobody there.
LEMMA InboxInit == Init => InboxInv
<1> SUFFICES ASSUME Init PROVE InboxInv OBVIOUS
<1>1. Stored = {} BY DEF Init, Stored
<1>2. NoSession \in Session BY DEF NoSession, Session, AnyIdentity
<1>3. << >> \in Seq(Request) /\ << >> \in Seq({"get", "send"}) BY EmptySeq
<1>4. Never \in Int /\ Never <= 0 BY DEF Never
<1>5. TypeOK BY <1>1, <1>2, <1>3, <1>4 DEF Init, TypeOK, Idle, NoSession
<1>6. Types BY <1>2, <1>4 DEF Init, Types, Idle, AnyIdentity
<1>7. CursorInv /\ SessionInv /\ PendingInv
  BY <1>1 DEF CursorInv, SessionInv, PendingInv
<1>8. AudienceInv BY DEF Init, AudienceInv, Idle
<1>9. ReplayedInv /\ NewInv /\ QueueInv BY DEF Init, ReplayedInv, NewInv, QueueInv
<1>10. FlightInv BY DEF Init, FlightInv, NoRequest
<1>11. AuthorInv BY <1>1 DEF Init, AuthorInv
<1> QED BY <1>5, <1>6, <1>7, <1>8, <1>9, <1>10, <1>11 DEF InboxInv

\* The identities of a set of clients.
LEMMA IdentifiedFacts ==
  ASSUME sessions \in [Clients -> Session], NEW cs, cs \subseteq Clients
  PROVE  /\ Identified(cs) \subseteq Identities
         /\ \A i : i \in Identified(cs) <=> i # NoOne /\ \E c \in cs : sessions[c].ident = i
<1>1. \A c \in cs : sessions[c] \in Session OBVIOUS
<1>2. \A c \in cs : sessions[c].ident \in AnyIdentity BY <1>1 DEF Session
<1> QED BY <1>2 DEF Identified, AnyIdentity

\* A connection is accepted, or closed: nothing else changes.
LEMMA ConnectionStep ==
  ASSUME InboxInv, NEW c \in Clients, Connect(c) \/ Disconnect(c)
  PROVE  InboxInv'
<1>0. /\ UNCHANGED <<sessions, messages, lastId, cursor, slotVars, handling, seen, ghostVars, spent>>
      /\ \/ c \notin channels \cup gone /\ channels' = channels \cup {c} /\ gone' = gone
         \/ c \in channels /\ channels' = channels \ {c} /\ gone' = gone \cup {c}
  BY DEF Connect, Disconnect
<1> USE DEF slotVars, ghostVars
<1>1. TypeOK /\ Types BY DEF InboxInv
<1>2. Stored' = Stored BY <1>0 DEF Stored
<1>3. TypeOK' BY <1>0, <1>1, <1>2 DEF TypeOK
<1>4. Types' BY <1>0, <1>1 DEF Types
<1>5. \A d \in channels' : sessions[d].ident # NoOne => d \in channels
  BY <1>0 DEF InboxInv, NewInv, NoSession
<1>6. CursorInv'
  BY <1>0, <1>2 DEF InboxInv, CursorInv, Settled, Served, Excused, OnItsWay
<1>7. SessionInv'
  BY <1>0, <1>2, <1>5 DEF InboxInv, SessionInv, Settled, Served, Excused, OnItsWay
<1>8. AudienceInv'
  <2>1. channels \subseteq Clients /\ channels' \subseteq Clients /\ sessions \in [Clients -> Session]
    BY <1>1, <1>3 DEF TypeOK, Types
  <2>2. Identified(channels)' \subseteq Identified(channels)
    BY <1>0, <1>5 DEF Identified
  <2> QED BY <1>0, <2>2 DEF InboxInv, AudienceInv
<1>9. ReplayedInv' /\ PendingInv' /\ AuthorInv' /\ FlightInv'
  BY <1>0, <1>2 DEF InboxInv, ReplayedInv, PendingInv, AuthorInv, FlightInv
<1>10. NewInv' BY <1>0 DEF InboxInv, NewInv
<1>11. QueueInv' BY <1>0 DEF InboxInv, QueueInv
<1> QED BY <1>3, <1>4, <1>6, <1>7, <1>8, <1>9, <1>10, <1>11 DEF InboxInv

-----------------------------------------------------------------------------
(* Commands.                                                               *)

\* What holds while the core is about to handle a command.
LEMMA ReadyFacts ==
  ASSUME InboxInv, NEW c \in Clients, Ready(c)
  PROVE  /\ TypeOK /\ Types /\ c \in channels /\ channels \subseteq Clients
         /\ handling = Idle /\ handling.stage = "idle"
         /\ sessions \in [Clients -> Session] /\ sessions[c] \in Session
         /\ sessions[c].ident \in AnyIdentity
         /\ sessions[c].pending \subseteq 1 .. lastId /\ lastId \in Nat
         /\ Stored \subseteq 1 .. lastId
         /\ cursor \in [Identities -> Int]
         /\ \A i \in Identities, id \in Stored : id <= cursor[i] => Settled(i, id)
         /\ \A d \in channels : sessions[d].ident # NoOne =>
              \A id \in Stored : Settled(sessions[d].ident, id) \/ id \in sessions[d].pending
<1>1. TypeOK /\ Types /\ CursorInv /\ SessionInv BY DEF InboxInv
<1>2. c \in channels /\ handling = Idle /\ handling.stage = "idle" BY DEF Ready, Idle
<1>3. /\ channels \subseteq Clients /\ sessions \in [Clients -> Session]
      /\ sessions[c].pending \subseteq 1 .. lastId /\ lastId \in Nat
      /\ Stored \subseteq 1 .. lastId /\ cursor \in [Identities -> Int]
  BY <1>1 DEF TypeOK, Types
<1>4. sessions[c] \in Session BY <1>3
<1>5. sessions[c].ident \in AnyIdentity BY <1>4 DEF Session
<1>6. \A id : ~OnItsWay(id) BY <1>2 DEF OnItsWay
<1> QED BY <1>1, <1>2, <1>3, <1>4, <1>5, <1>6 DEF CursorInv, SessionInv

\* A session with another pending list.
LEMMA NewPending ==
  ASSUME NEW s \in Session, NEW q
  PROVE  [s EXCEPT !.pending = q] = [ident |-> s.ident, pending |-> q]
<1>1. PICK i \in AnyIdentity, p \in SUBSET Nat : s = [ident |-> i, pending |-> p]
  BY Zenon DEF Session
<1> QED BY <1>1

\* A command of client c, which then has identity i and these messages pending,
\* settles what it moves the cursor past; nothing else is lost of sight.
CommandDone(c, i, pending, t) ==
  /\ UNCHANGED <<netVars, messages, lastId, handling, author>>
  /\ sessions[c].ident \in {NoOne, i}
  /\ pending \subseteq 1 .. lastId
  /\ \A id \in pending \cap Stored : messages[id] # i
  /\ sessions' = [sessions EXCEPT ![c] = [ident |-> i, pending |-> pending]]
  /\ t \in Int /\ t <= lastId
  /\ cursor' = advance_client_cursor(cursor, {i}, t)
  /\ seen' \in [Identities -> SUBSET Nat]
  /\ waived' \in [Identities -> SUBSET Nat]
  /\ replayed' \in [Identities -> SUBSET Nat]
  /\ \A j \in Identities : seen[j] \subseteq seen'[j] /\ waived[j] \subseteq waived'[j]
  /\ excused \subseteq excused'
  /\ \A j \in Identities : \A id \in replayed'[j] :
       id \in replayed[j] \/ (j = i /\ id <= t /\ id >= 1)
  /\ i # NoOne => \A id \in Stored : Settled(i, id)' \/ (id \in pending /\ id > t)
  /\ SlotOK' /\ QueueInv' /\ FlightInv'

\* Such a command keeps the invariant.
LEMMA CommandStep ==
  ASSUME InboxInv, NEW c \in Clients, Ready(c), NEW i \in AnyIdentity, NEW pending, NEW t,
         CommandDone(c, i, pending, t)
  PROVE  InboxInv'
<1> SUFFICES
      ASSUME UNCHANGED <<netVars, messages, lastId, handling, author>>,
             sessions[c].ident \in {NoOne, i},
             pending \subseteq 1 .. lastId,
             \A id \in pending \cap Stored : messages[id] # i,
             sessions' = [sessions EXCEPT ![c] = [ident |-> i, pending |-> pending]],
             t \in Int, t <= lastId,
             cursor' = advance_client_cursor(cursor, {i}, t),
             seen' \in [Identities -> SUBSET Nat],
             waived' \in [Identities -> SUBSET Nat],
             replayed' \in [Identities -> SUBSET Nat],
             \A j \in Identities : seen[j] \subseteq seen'[j] /\ waived[j] \subseteq waived'[j],
             excused \subseteq excused',
             \A j \in Identities : \A id \in replayed'[j] :
               id \in replayed[j] \/ (j = i /\ id <= t /\ id >= 1),
             i # NoOne => \A id \in Stored : Settled(i, id)' \/ (id \in pending /\ id > t),
             SlotOK' /\ QueueInv' /\ FlightInv'
      PROVE  InboxInv'
  BY DEF CommandDone
<1> DEFINE s == [ident |-> i, pending |-> pending]
<1>0. /\ TypeOK /\ Types /\ c \in channels /\ channels \subseteq Clients
      /\ handling = Idle /\ handling.stage = "idle"
      /\ sessions \in [Clients -> Session] /\ lastId \in Nat /\ Stored \subseteq 1 .. lastId
      /\ cursor \in [Identities -> Int]
      /\ \A j \in Identities, id \in Stored : id <= cursor[j] => Settled(j, id)
      /\ \A d \in channels : sessions[d].ident # NoOne =>
           \A id \in Stored : Settled(sessions[d].ident, id) \/ id \in sessions[d].pending
  BY ReadyFacts
<1>1. s \in Session /\ s.ident = i /\ s.pending = pending
  BY <1>0 DEF Session
<1>2. /\ sessions' \in [Clients -> Session] /\ sessions'[c] = s
      /\ \A d \in Clients : d # c => sessions'[d] = sessions[d]
  BY <1>0, <1>1
<1> HIDE DEF s
<1>3. Stored' = Stored /\ lastId' = lastId /\ messages' = messages /\ channels' = channels
      /\ gone' = gone /\ handling' = handling /\ author' = author
  BY DEF Stored, netVars
<1>4. /\ cursor' \in [Identities -> Int]
      /\ \A j \in Identities : cursor'[j] >= cursor[j] /\ cursor'[j] \in {cursor[j], t}
      /\ \A j \in Identities : j # i => cursor'[j] = cursor[j]
      /\ i \in Identities => cursor'[i] >= t
  BY <1>0, AdvanceFacts
<1>5. \A j \in Identities : cursor[j] \in Never .. lastId BY <1>0 DEF TypeOK
<1>6. Never \in Int /\ Never <= lastId BY <1>0 DEF Never
<1>7. \A j \in Identities : cursor'[j] \in Never .. lastId
  <2> TAKE j \in Identities
  <2>1. cursor'[j] \in Int BY <1>4, Zenon
  <2>2. cursor'[j] >= cursor[j] /\ cursor'[j] \in {cursor[j], t} BY <1>4, Zenon
  <2>3. cursor[j] \in Never .. lastId BY <1>5
  <2>4. lastId \in Int BY <1>0
  <2> QED BY <1>6, <2>1, <2>2, <2>3, <2>4
<1>8. TypeOK'
  <2>1. \A d \in Clients : sessions'[d].ident \in Identities \cup {NoOne}
                           /\ sessions'[d].pending \subseteq 1 .. lastId
    BY <1>0, <1>1, <1>2 DEF TypeOK, Session, AnyIdentity
  <2> QED BY <1>0, <1>3, <1>7, <2>1 DEF TypeOK, SlotOK
<1>9. Types' BY <1>0, <1>2, <1>3, <1>4 DEF Types
<1>10. \A j \in Identities, id \in Stored : Settled(j, id) => Settled(j, id)'
  BY <1>3, SettledStays
<1>11. CursorInv'
  <2> SUFFICES ASSUME NEW j \in Identities, NEW id \in Stored, id <= cursor'[j]
               PROVE  Settled(j, id)'
    BY <1>3 DEF CursorInv
  <2>1. CASE id <= cursor[j] BY <2>1, <1>0, <1>10
  <2>2. CASE ~(id <= cursor[j])
    <3>1. j = i /\ cursor'[j] = t BY <2>2, <1>4
    <3>2. i # NoOne BY <3>1, IdentitiesAssumption
    <3>3. id \in Int BY <1>0
    <3>4. ~(id > t) BY <3>1, <3>3
    <3> QED BY <3>1, <3>2, <3>4
  <2> QED BY <2>1, <2>2
<1>12. SessionInv'
  <2> SUFFICES ASSUME NEW d \in channels, sessions'[d].ident # NoOne, NEW id \in Stored
               PROVE  Settled(sessions[d].ident, id)' \/ id \in sessions'[d].pending
    BY <1>3 DEF SessionInv
  <2>1. d \in Clients BY <1>0
  <2>2. CASE d = c
    <3>1. sessions'[d].ident = i /\ sessions'[d].pending = pending BY <2>2, <1>1, <1>2
    <3>2. Settled(i, id)' \/ id \in pending BY <3>1
    <3> QED BY <3>1, <3>2 DEF Settled, Served, Excused
  <2>3. CASE d # c
    <3>1. sessions'[d] = sessions[d] /\ sessions[d] \in Session BY <2>1, <2>3, <1>0, <1>2
    <3>2. sessions[d].ident \in Identities BY <3>1 DEF Session, AnyIdentity
    <3> DEFINE j == sessions[d].ident
    <3>3. Settled(j, id) \/ id \in sessions[d].pending BY <3>1, <1>0
    <3>4. CASE Settled(j, id)
      <4>1. PICK k \in Identities : k = j /\ sessions'[d].ident = k BY <3>1, <3>2
      <4>2. Settled(k, id)' BY <1>10, <3>4, <4>1
      <4> QED BY <4>1, <4>2 DEF Settled, Served, Excused
    <3> QED BY <3>1, <3>3, <3>4
  <2> QED BY <2>2, <2>3
<1>13. AudienceInv' BY <1>0, <1>3 DEF AudienceInv
<1>14. ReplayedInv'
  <2> SUFFICES ASSUME NEW j \in Identities, NEW id \in replayed'[j]
               PROVE  id <= cursor'[j] /\ id >= 1
    BY DEF ReplayedInv
  <2>1. id \in Nat OBVIOUS
  <2>2. CASE id \in replayed[j]
    <3>1. id <= cursor[j] /\ id >= 1 BY <2>2 DEF InboxInv, ReplayedInv
    <3>2. cursor'[j] >= cursor[j] /\ cursor'[j] \in Int /\ cursor[j] \in Int BY <1>0, <1>4
    <3> QED BY <2>1, <3>1, <3>2
  <2>3. CASE j = i /\ id <= t /\ id >= 1
    <3>1. cursor'[j] >= t /\ cursor'[j] \in Int BY <2>3, <1>4
    <3> QED BY <2>1, <2>3, <3>1
  <2> QED BY <2>2, <2>3
<1>15. PendingInv'
  <2> SUFFICES ASSUME NEW d \in Clients, NEW id \in sessions'[d].pending \cap Stored
               PROVE  messages[id] # sessions'[d].ident
    BY <1>3 DEF PendingInv
  <2>1. CASE d = c BY <2>1, <1>1, <1>2
  <2>2. CASE d # c BY <2>2, <1>2 DEF InboxInv, PendingInv
  <2> QED BY <2>1, <2>2
<1>16. NewInv' BY <1>0, <1>2, <1>3 DEF InboxInv, NewInv
<1>17. AuthorInv' BY <1>3 DEF InboxInv, AuthorInv
<1> QED BY <1>8, <1>9, <1>11, <1>12, <1>13, <1>14, <1>15, <1>16, <1>17 DEF InboxInv

\* What a client has missed: messages of others, all that its cursor has not
\* passed, unless it was never seen.
LEMMA MissedFacts ==
  ASSUME NEW i \in Identities, NEW missed \in Missed(i)
  PROVE  /\ missed \subseteq ReplayableTo(i)
         /\ cursor[i] # Never => missed = {id \in ReplayableTo(i) : id > cursor[i]}
<1>1. CASE cursor[i] = Never
  <2>1. PICK n \in Backlogs : missed = Newest(n, ReplayableTo(i)) BY <1>1, Zenon DEF Missed
  <2> QED BY <1>1, <2>1 DEF Newest
<1>2. CASE cursor[i] # Never BY <1>2, Zenon DEF Missed
<1> QED BY <1>1, <1>2

\* APP_START: the cursor stops before the first message that is pending.
LEMMA RegisterStep ==
  ASSUME InboxInv, NEW c \in Clients, NEW i \in Identities, register_session(c, i)
  PROVE  InboxInv'
<1>0. PICK missed \in Missed(i) : \E pending \in {missed, {}} :
        /\ Unreadable(i, missed \ pending)
        /\ cursor' = advance_client_cursor(cursor, {i},
                       IF pending = {} THEN message_head ELSE Min(pending) - 1)
        /\ sessions' = [sessions EXCEPT ![c] = [ident |-> i, pending |-> pending]]
        /\ waived' = IF cursor[i] = Never
                     THEN [waived EXCEPT ![i] = @ \cup (Stored \ missed)]
                     ELSE waived
  BY DEF register_session
<1>1. PICK pending \in {missed, {}} :
        /\ Unreadable(i, missed \ pending)
        /\ cursor' = advance_client_cursor(cursor, {i},
                       IF pending = {} THEN message_head ELSE Min(pending) - 1)
        /\ sessions' = [sessions EXCEPT ![c] = [ident |-> i, pending |-> pending]]
        /\ waived' = IF cursor[i] = Never
                     THEN [waived EXCEPT ![i] = @ \cup (Stored \ missed)]
                     ELSE waived
  BY <1>0
<1>2. /\ Ready(c) /\ sessions[c].ident \in {NoOne, i}
      /\ UNCHANGED <<netVars, messages, lastId, slotVars, handling, seen, replayed, author, spent>>
  BY DEF register_session
<1>3. /\ TypeOK /\ Types /\ c \in channels /\ channels \subseteq Clients
      /\ sessions \in [Clients -> Session] /\ lastId \in Nat /\ Stored \subseteq 1 .. lastId
      /\ \A id \in Stored : id <= cursor[i] => Settled(i, id)
  BY <1>2, ReadyFacts
<1>4. /\ missed \subseteq ReplayableTo(i)
      /\ cursor[i] # Never => missed = {id \in ReplayableTo(i) : id > cursor[i]}
  BY MissedFacts
<1>5. missed \subseteq Stored /\ pending \subseteq missed
      /\ \A id \in Stored : messages[id] # i => id \in ReplayableTo(i)
  BY <1>4 DEF ReplayableTo
<1> DEFINE t == IF pending = {} THEN message_head ELSE Min(pending) - 1
<1>6. t \in Int /\ t <= lastId /\ \A id \in pending : id > t
  <2>1. CASE pending = {} BY <1>3, <2>1, HeadFacts
  <2>2. CASE pending # {}
    <3>1. pending \subseteq 1 .. lastId BY <1>3, <1>5
    <3>2. pending \subseteq Nat BY <1>3, <3>1
    <3>3. Min(pending) \in pending /\ \A y \in pending : Min(pending) <= y BY <2>2, <3>2, LeastId
    <3> DEFINE m == Min(pending)
    <3>4. m \in 1 .. lastId /\ (\A y \in pending : m <= y) /\ t = m - 1 BY <2>2, <3>1, <3>3
    <3> HIDE DEF m, t
    <3> QED BY <1>3, <3>1, <3>4
  <2> QED BY <2>1, <2>2
<1>7. cursor' = advance_client_cursor(cursor, {i}, t) BY <1>1
<1> HIDE DEF t
<1>8. excused \subseteq excused' /\ Excuse(i, missed \ pending, "unread") \subseteq excused'
  BY <1>1 DEF Unreadable, Excuse
<1>9. \A id \in missed \ pending : Settled(i, id)'
  BY <1>8, ExcuseSettles DEF Unserved
<1>10. /\ waived' \in [Identities -> SUBSET Nat]
       /\ \A j \in Identities : waived[j] \subseteq waived'[j]
       /\ cursor[i] = Never => Stored \ missed \subseteq waived'[i]
  <2>1. waived \in [Identities -> SUBSET Nat] /\ Stored \subseteq Nat BY <1>3 DEF Types
  <2> HIDE DEF Stored
  <2> QED BY <1>1, <2>1
<1>11. \A j \in Identities : seen'[j] = seen[j] /\ replayed'[j] = replayed[j]
  BY <1>2
<1>12. messages' = messages BY <1>2
<1>13. ASSUME NEW id \in Stored
       PROVE  Settled(i, id)' \/ (id \in pending /\ id > t)
  <2>1. CASE id \in missed BY <2>1, <1>6, <1>9
  <2>2. CASE messages[id] = i BY <2>2, <1>12 DEF Settled, Served
  <2>3. CASE cursor[i] = Never /\ id \notin missed
    BY <2>3, <1>10 DEF Settled, Served
  <2>4. CASE cursor[i] # Never /\ id \notin missed /\ messages[id] # i
    <3>1. ~(id > cursor[i]) BY <2>4, <1>4, <1>5
    <3>2. id \in Int /\ cursor[i] \in Int BY <1>3 DEF Types
    <3>3. Settled(i, id) BY <1>3, <3>1, <3>2
    <3> QED BY <1>8, <1>10, <1>11, <1>12, <3>3, SettledStays
  <2> QED BY <2>1, <2>2, <2>3, <2>4
<1>14. pending \subseteq 1 .. lastId /\ \A id \in pending \cap Stored : messages[id] # i
  BY <1>3, <1>4, <1>5 DEF ReplayableTo
<1>15. SlotOK' /\ FlightInv' /\ QueueInv'
  <2>1. SlotOK' BY <1>2, <1>3 DEF SlotOK, TypeOK, slotVars
  <2>2. FlightInv' BY <1>2 DEF InboxInv, FlightInv, slotVars
  <2>3. \A d \in Clients : d # c => sessions'[d] = sessions[d] BY <1>1, <1>3
  <2>4. sessions'[c].ident = i BY <1>1, <1>3
  <2>5. \A d \in channels : sessions[d].ident # NoOne => sessions'[d].ident = sessions[d].ident
    BY <1>2, <1>3, <2>3, <2>4
  <2>6. QueueInv' BY <1>2, <2>5 DEF InboxInv, QueueInv, slotVars, netVars
  <2> QED BY <2>1, <2>2, <2>6
<1>16. seen' \in [Identities -> SUBSET Nat] /\ replayed' \in [Identities -> SUBSET Nat]
  BY <1>2, <1>3 DEF Types
<1>17. i \in AnyIdentity BY DEF AnyIdentity
<1>18. CommandDone(c, i, pending, t)
  BY <1>1, <1>2, <1>6, <1>7, <1>8, <1>10, <1>11, <1>13, <1>14, <1>15, <1>16 DEF CommandDone
<1> QED BY <1>2, <1>17, <1>18, CommandStep

\* GET_MSG with something to replay: what is skipped could not be read.
LEMMA ReplayStep ==
  ASSUME InboxInv, NEW c \in Clients, Replay(c)
  PROVE  InboxInv'
<1>a. PICK i \in AnyIdentity, p \in SUBSET Nat : i = sessions[c].ident /\ p = sessions[c].pending
  BY ReadyFacts DEF Replay, Session
<1>1. PICK id \in p \cap Stored :
        /\ Unreadable(i, {k \in p \cap Stored : k < id})
        /\ sessions' = [sessions EXCEPT ![c].pending = {k \in p : k > id}]
        /\ cursor' = advance_client_cursor(cursor, {i},
                       IF {k \in p : k > id} = {} THEN Max({id, message_head}) ELSE id)
        /\ seen' = [seen EXCEPT ![i] = @ \cup {id}]
        /\ replayed' = [replayed EXCEPT ![i] = @ \cup {id}]
  BY <1>a DEF Replay
<1>2. /\ Ready(c)
      /\ UNCHANGED <<netVars, messages, lastId, slotVars, handling, waived, author, spent>>
  BY DEF Replay
<1>3. /\ TypeOK /\ Types /\ c \in channels /\ channels \subseteq Clients
      /\ sessions \in [Clients -> Session] /\ sessions[c] \in Session /\ i \in AnyIdentity
      /\ lastId \in Nat /\ Stored \subseteq 1 .. lastId /\ p \subseteq 1 .. lastId
      /\ i # NoOne => \A k \in Stored : Settled(i, k) \/ k \in p
  BY <1>a, <1>2, ReadyFacts
<1> DEFINE rest == {k \in p : k > id}
           t == IF rest = {} THEN Max({id, message_head}) ELSE id
<1>4. t \in Int /\ t <= lastId /\ id <= t /\ id >= 1 /\ \A k \in rest : k > t
  <2>0. id \in 1 .. lastId BY <1>3
  <2>1. CASE rest = {}
    <3>1. message_head \in 0 .. lastId BY <1>3, HeadFacts
    <3>2. PICK h \in 0 .. lastId : h = message_head BY <3>1
    <3>3. \E x \in {id, h} : \A y \in {id, h} : x >= y BY <1>3, <2>0
    <3>4. Max({id, h}) \in {id, h} /\ \A y \in {id, h} : Max({id, h}) >= y BY <3>3 DEF Max
    <3> DEFINE m == Max({id, h})
    <3>5. t = m /\ m \in {id, h} /\ m >= id BY <2>1, <3>2, <3>4
    <3> HIDE DEF m, t
    <3> QED BY <1>3, <2>0, <2>1, <3>2, <3>5
  <2>2. CASE rest # {} BY <1>3, <2>0, <2>2
  <2> QED BY <2>1, <2>2
<1>5. cursor' = advance_client_cursor(cursor, {i}, t) BY <1>1
<1>6. sessions' = [sessions EXCEPT ![c] = [ident |-> i, pending |-> rest]]
  <2>1. [sessions[c] EXCEPT !.pending = rest] = [ident |-> i, pending |-> rest]
    BY <1>a, <1>3, NewPending
  <2> QED BY <1>1, <2>1
<1>7. excused \subseteq excused' /\ Excuse(i, {k \in p \cap Stored : k < id}, "unread") \subseteq excused'
  BY <1>1 DEF Unreadable, Excuse
<1>8. \A k \in p \cap Stored : k < id => Settled(i, k)'
  BY <1>7, ExcuseSettles DEF Unserved
<1> HIDE DEF t
<1>9. /\ seen' \in [Identities -> SUBSET Nat] /\ replayed' \in [Identities -> SUBSET Nat]
      /\ \A j \in Identities : seen[j] \subseteq seen'[j]
      /\ i \in Identities => id \in seen'[i]
      /\ \A j \in Identities : \A k \in replayed'[j] : k \in replayed[j] \/ (j = i /\ k = id)
  <2>1. seen \in [Identities -> SUBSET Nat] /\ replayed \in [Identities -> SUBSET Nat]
    BY <1>3 DEF Types
  <2>2. id \in Nat BY <1>3
  <2> QED BY <1>1, <2>1, <2>2
<1>10. waived' = waived /\ messages' = messages BY <1>2
<1>11. waived' \in [Identities -> SUBSET Nat] BY <1>3, <1>10 DEF Types
<1>12. ASSUME i # NoOne, NEW k \in Stored
       PROVE  Settled(i, k)' \/ (k \in rest /\ k > t)
  <2>0. i \in Identities BY <1>3, <1>12 DEF AnyIdentity
  <2>1. k \in Int /\ id \in Int BY <1>3
  <2>2. CASE k \in p /\ k < id BY <2>2, <1>8
  <2>3. CASE k = id
    <3>1. PICK j \in Identities : j = i BY <2>0
    <3>2. k \in seen'[j] BY <2>0, <2>3, <1>9, <3>1
    <3>3. Settled(j, k)' BY <3>2 DEF Settled, Served
    <3> QED BY <3>1, <3>3
  <2>4. CASE k \in p /\ k > id BY <2>4, <1>4
  <2>5. CASE Settled(i, k)
    BY <2>0, <2>5, <1>7, <1>9, <1>10, SettledStays
  <2> QED BY <2>1, <2>2, <2>3, <2>4, <2>5, <1>3, <1>12
<1>13. rest \subseteq 1 .. lastId /\ \A k \in rest \cap Stored : messages[k] # i
  BY <1>a, <1>3 DEF InboxInv, PendingInv
<1>14. SlotOK' /\ FlightInv' /\ QueueInv'
  <2>1. SlotOK' BY <1>2, <1>3 DEF SlotOK, TypeOK, slotVars
  <2>2. FlightInv' BY <1>2 DEF InboxInv, FlightInv, slotVars
  <2>3. \A d \in channels : sessions'[d].ident = sessions[d].ident
    BY <1>a, <1>3, <1>6
  <2>4. QueueInv' BY <1>2, <2>3 DEF InboxInv, QueueInv, slotVars, netVars
  <2> QED BY <2>1, <2>2, <2>4
<1>15. /\ UNCHANGED <<netVars, messages, lastId, handling, author>>
       /\ sessions[c].ident \in {NoOne, i}
       /\ \A j \in Identities : seen[j] \subseteq seen'[j] /\ waived[j] \subseteq waived'[j]
       /\ \A j \in Identities : \A k \in replayed'[j] :
            k \in replayed[j] \/ (j = i /\ k <= t /\ k >= 1)
  BY <1>a, <1>2, <1>4, <1>9, <1>10
<1> HIDE DEF rest
<1>16. CommandDone(c, i, rest, t)
  BY <1>4, <1>5, <1>6, <1>7, <1>9, <1>11, <1>12, <1>13, <1>14, <1>15 DEF CommandDone
<1> QED BY <1>2, <1>16, CommandStep

\* GET_MSG with nothing to replay.
LEMMA AskRadioStep ==
  ASSUME InboxInv, NEW c \in Clients, AskRadio(c)
  PROVE  InboxInv'
<1>a. PICK i \in AnyIdentity, p \in SUBSET Nat : i = sessions[c].ident /\ p = sessions[c].pending
  BY ReadyFacts DEF AskRadio, Session
<1>1. /\ Ready(c)
      /\ Unreadable(i, p \cap Stored)
      /\ sessions' = [sessions EXCEPT ![c].pending = {}]
      /\ cursor' = advance_client_cursor(cursor, {i}, message_head)
      /\ Ask(c, "get")
      /\ UNCHANGED <<netVars, messages, lastId, handling, seen, replayed, waived, author>>
  BY <1>a DEF AskRadio
<1>2. /\ TypeOK /\ Types /\ c \in channels /\ channels \subseteq Clients
      /\ sessions \in [Clients -> Session] /\ sessions[c] \in Session /\ i \in AnyIdentity
      /\ i # NoOne => \A k \in Stored : Settled(i, k) \/ k \in p
  BY <1>a, <1>1, ReadyFacts
<1>3. message_head \in Int /\ message_head <= lastId BY <1>2, HeadFacts DEF TypeOK
<1>4. sessions' = [sessions EXCEPT ![c] = [ident |-> i, pending |-> {}]]
  <2>1. [sessions[c] EXCEPT !.pending = {}] = [ident |-> i, pending |-> {}]
    BY <1>a, <1>2, NewPending
  <2> QED BY <1>1, <2>1
<1>5. excused \subseteq excused' /\ Excuse(i, p \cap Stored, "unread") \subseteq excused'
  BY <1>1 DEF Unreadable, Excuse
<1>6. \A k \in p \cap Stored : Settled(i, k)'
  BY <1>5, ExcuseSettles DEF Unserved
<1>7. ASSUME i # NoOne, NEW k \in Stored PROVE Settled(i, k)'
  <2>1. i \in Identities BY <1>2, <1>7 DEF AnyIdentity
  <2>2. CASE Settled(i, k) BY <1>1, <1>5, <2>1, <2>2, SettledStays
  <2> QED BY <1>2, <1>6, <1>7, <2>2
<1>8. \A d \in channels : sessions'[d].ident = sessions[d].ident
  BY <1>a, <1>2, <1>4
<1>9. SlotOK' /\ QueueInv' /\ FlightInv' BY <1>1, <1>2, <1>8, AskKeeps
<1>10. /\ seen' \in [Identities -> SUBSET Nat] /\ waived' \in [Identities -> SUBSET Nat]
       /\ replayed' \in [Identities -> SUBSET Nat]
  BY <1>1, <1>2 DEF Types
<1>11. /\ UNCHANGED <<netVars, messages, lastId, handling, author>>
       /\ sessions[c].ident \in {NoOne, i}
       /\ \A j \in Identities : seen[j] \subseteq seen'[j] /\ waived[j] \subseteq waived'[j]
       /\ replayed' = replayed
  BY <1>a, <1>1
<1> DEFINE t == message_head
           q == {}
<1>12. t \in Int BY <1>3
<1>13. t <= lastId /\ cursor' = advance_client_cursor(cursor, {i}, t)
       /\ sessions' = [sessions EXCEPT ![c] = [ident |-> i, pending |-> q]]
  BY <1>1, <1>3, <1>4, <1>12
<1>14. /\ q \subseteq 1 .. lastId /\ \A k \in q \cap Stored : messages[k] # i
       /\ i # NoOne => \A k \in Stored : Settled(i, k)' \/ (k \in q /\ k > t)
       /\ \A j \in Identities : \A k \in replayed'[j] : k \in replayed[j] \/ (j = i /\ k <= t /\ k >= 1)
  BY <1>7, <1>11, <1>12
<1> HIDE DEF t, q
<1>15. Ready(c) /\ (excused \subseteq excused') BY <1>1, <1>5
<1>16. UNCHANGED <<netVars, messages, lastId, handling, author>> /\ sessions[c].ident \in {NoOne, i}
       /\ \A j \in Identities : seen[j] \subseteq seen'[j] /\ waived[j] \subseteq waived'[j]
  BY <1>11
<1>17. CommandDone(c, i, q, t)
  BY <1>9, <1>10, <1>12, <1>13, <1>14, <1>15, <1>16 DEF CommandDone
<1> QED BY <1>15, <1>17, CommandStep

\* SEND_MSG or SEND_CHAN_MSG.
LEMMA SendStep ==
  ASSUME InboxInv, NEW c \in Clients, Send(c)
  PROVE  InboxInv'
<1>1. /\ c \in channels /\ Ask(c, "send")
      /\ UNCHANGED <<netVars, sessions, messages, lastId, cursor, handling, seen, ghostVars>>
  BY DEF Send, Ready
<1>2. SlotOK' /\ QueueInv' /\ FlightInv' BY <1>1, AskKeeps
<1> QED BY <1>1, <1>2, SlotStep

-----------------------------------------------------------------------------
(* Frames from the radio.                                                  *)

\* The answers that are left.
LEMMA RadioTail ==
  ASSUME InboxInv, radio # << >>
  PROVE  Tail(radio) \in Seq({"get", "send"})
<1>1. radio \in Seq({"get", "send"}) BY DEF InboxInv, TypeOK
<1> QED BY <1>1, HeadTailProperties

\* Refusals, silence, timeouts and the loss of the radio concern requests only.
LEMMA NoMessageStep ==
  ASSUME InboxInv, Refused \/ Silent \/ Timeout \/ LoseRadio
  PROVE  InboxInv'
<1>1. UNCHANGED <<netVars, sessions, messages, lastId, cursor, handling, seen, ghostVars>>
  BY DEF Refused, Silent, Timeout, LoseRadio
<1>2. UNCHANGED netVars /\ \A c \in channels : sessions'[c].ident = sessions[c].ident
  BY <1>1
<1>3. radio \in Seq({"get", "send"}) /\ in_flight \in Request \cup {NoRequest}
      /\ pending_queue \in Seq(Request) /\ QueueInv /\ FlightInv
  BY DEF InboxInv, TypeOK
<1>4. ASSUME radio' \in Seq({"get", "send"}), UNCHANGED <<in_flight, pending_queue>>
      PROVE  SlotOK' /\ QueueInv' /\ FlightInv'
  BY <1>1, <1>3, <1>4 DEF SlotOK, QueueInv, FlightInv, netVars
<1>5. CASE Refused
  <2>1. Tail(radio) \in Seq({"get", "send"}) BY <1>5, RadioTail DEF Refused
  <2>2. \/ advance_queue(Tail(radio))
        \/ radio' = Tail(radio) /\ UNCHANGED <<in_flight, pending_queue>>
    BY <1>5 DEF Refused
  <2>3. SlotOK' /\ QueueInv' /\ FlightInv' BY <1>2, <1>4, <2>1, <2>2, QueueMoves
  <2> QED BY <1>1, <2>3, SlotStep
<1>6. CASE Silent
  <2>1. radio' \in Seq({"get", "send"}) /\ UNCHANGED <<in_flight, pending_queue>>
    BY <1>6, RadioTail DEF Silent
  <2>2. SlotOK' /\ QueueInv' /\ FlightInv' BY <1>4, <2>1
  <2> QED BY <1>1, <2>2, SlotStep
<1>7. CASE Timeout
  <2>1. SlotOK' /\ QueueInv' /\ FlightInv' BY <1>2, <1>3, <1>7, QueueMoves DEF Timeout
  <2> QED BY <1>1, <2>1, SlotStep
<1>8. CASE LoseRadio
  <2>1. SlotOK' /\ QueueInv' /\ FlightInv' BY <1>8, NoRequests DEF LoseRadio
  <2> QED BY <1>1, <2>1, SlotStep
<1> QED BY <1>5, <1>6, <1>7, <1>8

\* A SEND is accepted: the echo goes to all that are connected.
LEMMA AcceptedStep ==
  ASSUME InboxInv, Accepted
  PROVE  InboxInv'
<1>1. /\ handling = Idle /\ radio' = Tail(radio) /\ radio # << >>
      /\ UNCHANGED <<netVars, sessions, messages, lastId, cursor, in_flight,
                     pending_queue, ghostVars, spent>>
      /\ \/ /\ handling' = [id |-> lastId + 1, stage |-> "echo", audience |-> {}]
            /\ seen' = [i \in Identities |-> IF i \in Identified(channels)
                                             THEN seen[i] \cup {lastId + 1} ELSE seen[i]]
         \/ UNCHANGED <<handling, seen>>
  BY DEF Accepted
<1>2. radio' \in Seq({"get", "send"}) BY <1>1, RadioTail
<1>3. TypeOK /\ Types /\ QueueInv /\ FlightInv BY DEF InboxInv
<1>4. SlotOK' /\ QueueInv' /\ FlightInv'
  BY <1>1, <1>2, <1>3 DEF TypeOK, SlotOK, QueueInv, FlightInv, netVars
<1>5. CASE UNCHANGED <<handling, seen>> BY <1>1, <1>4, <1>5, SlotStep
<1>6. CASE /\ handling' = [id |-> lastId + 1, stage |-> "echo", audience |-> {}]
           /\ seen' = [i \in Identities |-> IF i \in Identified(channels)
                                            THEN seen[i] \cup {lastId + 1} ELSE seen[i]]
  <2> USE DEF netVars, ghostVars
  <2>0. lastId \in Nat /\ seen \in [Identities -> SUBSET Nat] BY <1>3 DEF TypeOK, Types
  <2>1. /\ seen' \in [Identities -> SUBSET Nat]
        /\ \A i \in Identities : seen[i] \subseteq seen'[i]
        /\ \A i \in Identities : i \in Identified(channels) => lastId + 1 \in seen'[i]
    BY <1>6, <2>0
  <2>2. Stored' = Stored /\ Identified(channels)' = Identified(channels)
    BY <1>1 DEF Stored, Identified
  <2>3. handling'.stage = "echo" /\ handling'.id = lastId + 1 /\ handling'.audience = {}
    BY <1>6
  <2>4. TypeOK' BY <1>1, <1>3, <1>4, <2>2, <2>3 DEF TypeOK, SlotOK
  <2>5. Types' BY <1>1, <1>3, <2>1, <2>3 DEF Types
  <2>6. \A id : ~OnItsWay(id) BY <1>1 DEF OnItsWay, Idle
  <2>7. \A i \in Identities, id \in Stored : Settled(i, id) => Settled(i, id)'
    BY <1>1, <2>1, SettledStays
  <2>8. CursorInv' BY <1>1, <2>2, <2>6, <2>7 DEF InboxInv, CursorInv
  <2>9. SessionInv'
    <3> SUFFICES ASSUME NEW d \in channels, sessions[d].ident # NoOne, NEW id \in Stored
                 PROVE  Settled(sessions[d].ident, id)' \/ id \in sessions[d].pending
      BY <1>1, <2>2 DEF SessionInv
    <3>1. PICK i \in Identities : i = sessions[d].ident
      BY <1>3 DEF TypeOK
    <3>2. Settled(i, id) \/ id \in sessions[d].pending
      BY <2>6, <3>1 DEF InboxInv, SessionInv
    <3>3. Settled(i, id) => Settled(i, id)' BY <2>7
    <3>4. sessions'[d].ident = i BY <1>1, <3>1
    <3> QED BY <3>2, <3>3, <3>4 DEF Settled, Served, Excused
  <2>10. AudienceInv'
    <3>1. channels \subseteq Clients /\ sessions \in [Clients -> Session]
      BY <1>3 DEF TypeOK, Types
    <3>2. Identified(channels) \subseteq Identities BY <3>1, IdentifiedFacts
    <3> QED BY <2>1, <2>2, <2>3, <3>2 DEF AudienceInv
  <2>11. ReplayedInv' /\ PendingInv' /\ NewInv' /\ AuthorInv'
    BY <1>1, <2>2 DEF InboxInv, ReplayedInv, PendingInv, NewInv, AuthorInv
  <2> QED BY <1>4, <2>4, <2>5, <2>8, <2>9, <2>10, <2>11 DEF InboxInv
<1> QED BY <1>1, <1>5, <1>6

\* A message is stored: who is moved to it has caught up, so has everything
\* that was stored before.
LEMMA StoreFacts ==
  ASSUME InboxInv, handling.stage # "route", NEW origin \in AnyIdentity,
         insert_message(origin), follow_head, UNCHANGED netVars
  PROVE  /\ sessions' \in [Clients -> Session]
         /\ \A c \in channels : sessions'[c] = sessions[c]
         /\ \A c \in Clients \ channels : sessions'[c] = NoSession
         /\ \A c \in Clients : sessions'[c].ident \in Identities \cup {NoOne}
                               /\ sessions'[c].pending \subseteq 1 .. lastId
         /\ Identified(channels)' = Identified(channels)
         /\ cursor' \in [Identities -> Int]
         /\ \A i \in Identities : cursor'[i] \in Never .. lastId' /\ cursor'[i] >= cursor[i]
         /\ \A i \in Identities : cursor'[i] >= lastId' => i \in Identified(channels)
         /\ \A i \in Identities, id \in Stored : id <= cursor'[i] => Settled(i, id)
         /\ \A i \in Identified(channels) : i \in Identities
         /\ \A id \in Stored' : messages'[id] \in Identities \cup {NoOne}
         /\ PendingInv' /\ NewInv'
<1>0. TypeOK /\ Types BY DEF InboxInv
<1>1. /\ channels \subseteq Clients /\ sessions \in [Clients -> Session]
      /\ lastId \in Nat /\ Stored \subseteq 1 .. lastId /\ cursor \in [Identities -> Int]
      /\ channels' = channels /\ gone' = gone
  BY <1>0 DEF TypeOK, Types, netVars
<1>2. /\ lastId' = lastId + 1 /\ lastId' \in Nat
      /\ Stored' = Stored \cup {lastId'}
      /\ messages'[lastId'] = origin
      /\ \A k \in Stored : messages'[k] = messages[k]
  BY <1>0, InsertFacts
<1> DEFINE ready == {c \in channels : sessions[c].pending = {}}
<1>3. /\ sessions' = [c \in Clients |-> IF c \in channels THEN sessions[c] ELSE NoSession]
      /\ cursor' = advance_client_cursor(cursor, Identified(ready), lastId')
  BY DEF follow_head
<1>4. NoSession \in Session /\ NoSession.ident = NoOne /\ NoSession.pending = {}
  BY DEF NoSession, Session, AnyIdentity
<1>5. sessions' \in [Clients -> Session]
      /\ (\A c \in channels : sessions'[c] = sessions[c])
      /\ (\A c \in Clients \ channels : sessions'[c] = NoSession)
  BY <1>1, <1>3, <1>4
<1>6. \A c \in Clients : sessions'[c].ident \in Identities \cup {NoOne}
                         /\ sessions'[c].pending \subseteq 1 .. lastId
  BY <1>0, <1>4, <1>5 DEF TypeOK
<1>7. Identified(channels)' = Identified(channels) BY <1>1, <1>5 DEF Identified
<1>8. /\ cursor' \in [Identities -> Int]
      /\ \A i \in Identities :
           /\ cursor'[i] \in {cursor[i], lastId'}
           /\ cursor'[i] >= cursor[i]
           /\ i \notin Identified(ready) => cursor'[i] = cursor[i]
  BY <1>1, <1>2, <1>3, AdvanceFacts
<1>9. \A i \in Identities : cursor[i] \in Never .. lastId BY <1>0 DEF TypeOK
<1>10. Never \in Int /\ Never <= 0 BY DEF Never
<1>11. ready \subseteq channels OBVIOUS
<1>12. /\ \A i : i \in Identified(ready) <=> i # NoOne /\ \E c \in ready : sessions[c].ident = i
       /\ \A i : i \in Identified(channels) <=> i # NoOne /\ \E c \in channels : sessions[c].ident = i
       /\ Identified(channels) \subseteq Identities
  BY <1>1, <1>11, IdentifiedFacts
<1>13. \A c \in ready : c \in channels /\ sessions[c].pending = {} OBVIOUS
<1> HIDE DEF ready
<1>14. \A i \in Identities : cursor'[i] \in Never .. lastId' /\ cursor'[i] >= cursor[i]
  <2> TAKE i \in Identities
  <2>1. cursor'[i] \in Int /\ cursor'[i] \in {cursor[i], lastId'} /\ cursor'[i] >= cursor[i] BY <1>8, Zenon
  <2>2. cursor[i] \in Never .. lastId BY <1>9
  <2> QED BY <1>1, <1>2, <1>10, <2>1, <2>2
<1>15. \A i \in Identities : cursor'[i] # cursor[i] => i \in Identified(ready)
  BY <1>8, Zenon
<1>16. \A i \in Identities : cursor'[i] >= lastId' => i \in Identified(channels)
  <2> SUFFICES ASSUME NEW i \in Identities, cursor'[i] >= lastId' PROVE i \in Identified(channels)
    OBVIOUS
  <2>1. cursor[i] \in Never .. lastId BY <1>9
  <2>2. cursor'[i] # cursor[i] BY <1>1, <1>2, <1>10, <2>1
  <2> QED BY <1>12, <1>13, <1>15, <2>2
<1>17. \A i \in Identities, id \in Stored : id <= cursor'[i] => Settled(i, id)
  <2> SUFFICES ASSUME NEW i \in Identities, NEW id \in Stored, id <= cursor'[i] PROVE Settled(i, id)
    OBVIOUS
  <2>0. ~OnItsWay(id) BY DEF OnItsWay
  <2>1. CASE cursor'[i] = cursor[i] BY <2>0, <2>1 DEF InboxInv, CursorInv
  <2>2. CASE cursor'[i] # cursor[i]
    <3>1. PICK c \in ready : sessions[c].ident = i BY <1>12, <1>15, <2>2
    <3>2. i # NoOne BY IdentitiesAssumption
    <3> QED BY <1>13, <2>0, <3>1, <3>2 DEF InboxInv, SessionInv
  <2> QED BY <2>1, <2>2
<1>18. \A id \in Stored' : messages'[id] \in Identities \cup {NoOne}
  BY <1>0, <1>2 DEF TypeOK, AnyIdentity
<1>19. PendingInv'
  <2> SUFFICES ASSUME NEW c \in Clients, NEW id \in sessions'[c].pending \cap Stored'
               PROVE  messages'[id] # sessions'[c].ident
    BY DEF PendingInv
  <2>1. c \in channels BY <1>4, <1>5
  <2>2. id \in 1 .. lastId BY <1>6
  <2>3. id \in Stored BY <1>1, <1>2, <2>2
  <2> QED BY <1>2, <1>5, <2>1, <2>3 DEF InboxInv, PendingInv
<1>20. NewInv' BY <1>1, <1>5 DEF NewInv
<1> QED BY <1>5, <1>6, <1>7, <1>8, <1>12, <1>14, <1>16, <1>17, <1>18, <1>19, <1>20

\* A message comes as the answer to a GET_MSG, and is on its way.
LEMMA StoreMessageStep ==
  ASSUME InboxInv, StoreMessage
  PROVE  InboxInv'
<1>1. /\ handling = Idle /\ radio # << >> /\ radio' = Tail(radio)
      /\ insert_message(NoOne) /\ follow_head
      /\ handling' = [id |-> lastId', stage |-> "route", audience |-> Identified(channels)]
      /\ UNCHANGED <<netVars, in_flight, pending_queue, seen, ghostVars, spent>>
  BY DEF StoreMessage
<1>2. handling.stage = "idle" BY <1>1 DEF Idle
<1>3. TypeOK /\ Types /\ QueueInv /\ FlightInv BY DEF InboxInv
<1>4. NoOne \in AnyIdentity BY DEF AnyIdentity
<1>5. /\ sessions' \in [Clients -> Session]
      /\ \A c \in channels : sessions'[c] = sessions[c]
      /\ \A c \in Clients : sessions'[c].ident \in Identities \cup {NoOne}
                            /\ sessions'[c].pending \subseteq 1 .. lastId
      /\ Identified(channels)' = Identified(channels)
      /\ cursor' \in [Identities -> Int]
      /\ \A i \in Identities : cursor'[i] \in Never .. lastId' /\ cursor'[i] >= cursor[i]
      /\ \A i \in Identities : cursor'[i] >= lastId' => i \in Identified(channels)
      /\ \A i \in Identities, id \in Stored : id <= cursor'[i] => Settled(i, id)
      /\ \A i \in Identified(channels) : i \in Identities
      /\ \A id \in Stored' : messages'[id] \in Identities \cup {NoOne}
      /\ PendingInv' /\ NewInv'
  BY <1>1, <1>2, <1>4, StoreFacts
<1>6. /\ lastId' = lastId + 1 /\ lastId' \in Nat /\ Stored' = Stored \cup {lastId'}
      /\ messages'[lastId'] = NoOne /\ \A k \in Stored : messages'[k] = messages[k]
  BY <1>1, <1>3, InsertFacts
<1>7. lastId \in Nat /\ Stored \subseteq 1 .. lastId /\ channels \subseteq Clients
  BY <1>3 DEF TypeOK
<1>8. SlotOK' /\ FlightInv'
  BY <1>1, <1>3, RadioTail DEF TypeOK, SlotOK, FlightInv
<1>9. QueueInv' BY <1>1, <1>3, <1>5 DEF QueueInv, netVars
<1>10. handling'.id = lastId' /\ handling'.stage = "route" /\ handling'.audience = Identified(channels)
  BY <1>1
<1>11. TypeOK'
  <2>1. Stored' \subseteq 1 .. lastId' BY <1>6, <1>7
  <2>2. 1 .. lastId \subseteq 1 .. lastId' BY <1>6, <1>7
  <2>3. \A c \in Clients : sessions'[c].pending \subseteq 1 .. lastId' BY <1>5, <2>2
  <2> QED BY <1>1, <1>3, <1>5, <1>6, <1>8, <1>10, <2>1, <2>3 DEF TypeOK, SlotOK, netVars
<1>12. Types' BY <1>1, <1>3, <1>5, <1>10 DEF Types, ghostVars
<1>13. \A i \in Identities, id \in Stored : Settled(i, id) => Settled(i, id)'
  BY <1>1, <1>6, SettledStays DEF ghostVars
<1>14. OnItsWay(lastId)' BY <1>10 DEF OnItsWay
<1>15. CursorInv' BY <1>5, <1>6, <1>13, <1>14 DEF CursorInv
<1>16. SessionInv'
  <2> SUFFICES ASSUME NEW d \in channels, sessions[d].ident # NoOne, NEW id \in Stored
               PROVE  Settled(sessions[d].ident, id)' \/ id \in sessions[d].pending
    BY <1>1, <1>5, <1>6, <1>14 DEF SessionInv, netVars
  <2>1. PICK i \in Identities : i = sessions[d].ident BY <1>3, <1>7 DEF TypeOK
  <2>2. Settled(i, id) \/ id \in sessions[d].pending
    BY <1>2, <2>1 DEF InboxInv, SessionInv, OnItsWay
  <2>3. Settled(i, id) => Settled(i, id)' BY <1>13
  <2>4. sessions'[d].ident = i BY <1>5, <2>1
  <2> QED BY <2>2, <2>3, <2>4 DEF Settled, Served, Excused
<1>17. AudienceInv' BY <1>1, <1>5, <1>10 DEF AudienceInv, netVars
<1>18. ReplayedInv'
  <2> SUFFICES ASSUME NEW i \in Identities, NEW id \in replayed[i]
               PROVE  id <= cursor'[i] /\ id >= 1
    BY <1>1 DEF ReplayedInv, ghostVars
  <2>1. id \in Nat /\ cursor[i] \in Int /\ cursor'[i] \in Int BY <1>3, <1>5 DEF Types
  <2>2. id <= cursor[i] /\ id >= 1 BY DEF InboxInv, ReplayedInv
  <2>3. cursor'[i] >= cursor[i] BY <1>5
  <2> QED BY <2>1, <2>2, <2>3
<1>19. AuthorInv'
  <2>1. author' = author BY <1>1 DEF ghostVars
  <2> SUFFICES ASSUME NEW id \in 1 .. MaxMessages
               PROVE  /\ id > lastId' => author[id] = NoOne
                      /\ id \in Stored' /\ author[id] # NoOne => messages'[id] = author[id]
    BY <2>1 DEF AuthorInv
  <2>2. /\ id > lastId => author[id] = NoOne
        /\ id \in Stored /\ author[id] # NoOne => messages[id] = author[id]
    BY DEF InboxInv, AuthorInv
  <2>3. id \in Int OBVIOUS
  <2>4. id > lastId' => id > lastId BY <1>6, <1>7, <2>3
  <2>5. id = lastId' => id > lastId BY <1>6, <1>7
  <2> QED BY <1>6, <2>2, <2>4, <2>5
<1> QED BY <1>5, <1>8, <1>9, <1>11, <1>12, <1>15, <1>16, <1>17, <1>18, <1>19 DEF InboxInv

\* The message on its way is sent, or dropped: those whose cursor has passed it
\* have it, or there is an excuse.
LEMMA RouteStep ==
  ASSUME InboxInv, RouteMessage
  PROVE  InboxInv'
<1> DEFINE late == in_flight.cmd # "get"
           to   == IF late THEN {} ELSE Identified(channels)
<1>1. PICK k : k = handling.id OBVIOUS
<1>2. /\ handling.stage = "route" /\ handling' = Idle
      /\ seen' = [i \in Identities |-> IF i \in to THEN seen[i] \cup {k} ELSE seen[i]]
      /\ excused' = excused \cup
           {[ident |-> i, id |-> k, why |-> IF late THEN "late" ELSE "closed"] :
              i \in {j \in handling.audience \ to : late \/ cursor[j] >= k}}
      /\ UNCHANGED slotVars \/ advance_queue(radio)
      /\ UNCHANGED <<netVars, sessions, messages, lastId, cursor, replayed, waived, author, spent>>
  BY <1>1 DEF RouteMessage
<1>3. TypeOK /\ Types /\ QueueInv /\ FlightInv /\ AudienceInv BY DEF InboxInv
<1>4. /\ k = lastId /\ k \in Nat /\ handling.audience \subseteq Identities
      /\ Identified(channels) \subseteq handling.audience
      /\ \A i \in Identities : cursor[i] >= k => i \in handling.audience
      /\ radio \in Seq({"get", "send"}) /\ Stored \subseteq 1 .. lastId
      /\ channels \subseteq Clients /\ sessions \in [Clients -> Session]
      /\ cursor \in [Identities -> Int]
  BY <1>1, <1>2, <1>3 DEF TypeOK, Types, AudienceInv
<1>5. SlotOK' /\ QueueInv' /\ FlightInv'
  <2>1. CASE UNCHANGED slotVars
    BY <1>2, <1>3, <2>1 DEF slotVars, netVars, SlotOK, TypeOK, QueueInv, FlightInv
  <2>2. CASE advance_queue(radio)
    <3>1. UNCHANGED netVars /\ \A c \in channels : sessions'[c].ident = sessions[c].ident BY <1>2
    <3> QED BY <1>4, <2>2, <3>1, QueueMoves
  <2> QED BY <1>2, <2>1, <2>2
<1>6. /\ seen' \in [Identities -> SUBSET Nat]
      /\ \A i \in Identities : seen[i] \subseteq seen'[i]
      /\ \A i \in Identities : i \in to => k \in seen'[i]
  <2>1. seen \in [Identities -> SUBSET Nat] BY <1>3 DEF Types
  <2> HIDE DEF to
  <2> QED BY <1>2, <1>4, <2>1
<1>7. excused \subseteq excused' BY <1>2
<1>8. Stored' = Stored /\ messages' = messages /\ handling'.stage = "idle"
  BY <1>2 DEF Stored, Idle
<1>9. \A i \in Identities, id \in Stored : Settled(i, id) => Settled(i, id)'
  BY <1>2, <1>6, <1>7, SettledStays
<1>10. ASSUME NEW i \in Identities, i \in Identified(channels) \/ cursor[i] >= k
       PROVE  Settled(i, k)'
  <2>0. i \in handling.audience BY <1>4, <1>10
  <2>1. CASE i \in to BY <1>6, <2>1 DEF Settled, Served
  <2>2. CASE i \notin to
    <3>1. late \/ cursor[i] >= k BY <1>10, <2>2
    <3>2. [ident |-> i, id |-> k, why |-> IF late THEN "late" ELSE "closed"] \in excused'
      BY <1>2, <2>0, <2>2, <3>1
    <3>3. [ident |-> i, id |-> k, why |-> "late"] \in excused'
          \/ [ident |-> i, id |-> k, why |-> "closed"] \in excused'
      BY <3>2
    <3> QED BY <3>3 DEF Settled, Excused, Unserved
  <2> QED BY <2>1, <2>2
<1> HIDE DEF late, to
<1>11. TypeOK' BY <1>2, <1>3, <1>5, <1>8 DEF TypeOK, SlotOK, netVars
<1>12. Types' BY <1>2, <1>3, <1>6, <1>8 DEF Types, Idle
<1>13. CursorInv'
  <2> SUFFICES ASSUME NEW i \in Identities, NEW id \in Stored, id <= cursor[i]
               PROVE  Settled(i, id)'
    BY <1>2, <1>8 DEF CursorInv
  <2>1. Settled(i, id) \/ id = k BY <1>1 DEF InboxInv, CursorInv, OnItsWay
  <2>2. id = k => cursor[i] >= k BY <1>4
  <2> QED BY <1>9, <1>10, <2>1, <2>2
<1>14. SessionInv'
  <2> SUFFICES ASSUME NEW d \in channels, sessions[d].ident # NoOne, NEW id \in Stored
               PROVE  Settled(sessions[d].ident, id)' \/ id \in sessions[d].pending
    BY <1>2, <1>8 DEF SessionInv, netVars
  <2>1. PICK i \in Identities : i = sessions[d].ident BY <1>3, <1>4 DEF TypeOK
  <2>2. Settled(i, id) \/ id = k \/ id \in sessions[d].pending
    BY <1>1, <2>1 DEF InboxInv, SessionInv, OnItsWay
  <2>3. i \in Identified(channels) BY <1>4, <2>1, IdentifiedFacts
  <2>4. Settled(i, id)' \/ id \in sessions[d].pending BY <1>9, <1>10, <2>2, <2>3
  <2>5. sessions'[d].ident = i BY <1>2, <2>1
  <2> QED BY <2>4, <2>5 DEF Settled, Served, Excused
<1>15. AudienceInv' BY <1>8 DEF AudienceInv
<1>16. ReplayedInv' /\ PendingInv' /\ NewInv' /\ AuthorInv'
  BY <1>2, <1>8 DEF InboxInv, ReplayedInv, PendingInv, NewInv, AuthorInv, netVars
<1> QED BY <1>5, <1>11, <1>12, <1>13, <1>14, <1>15, <1>16 DEF InboxInv

\* The echo of a message is stored under the identity that asked to send it.
LEMMA StoreEchoStep ==
  ASSUME InboxInv, StoreEcho
  PROVE  InboxInv'
<1>1. /\ handling.stage = "echo" /\ handling' = Idle
      /\ insert_message(in_flight.origin) /\ follow_head
      /\ author' = [author EXCEPT ![lastId'] = in_flight.author]
      /\ advance_queue(radio)
      /\ UNCHANGED <<netVars, seen, replayed, waived, excused, spent>>
  BY DEF StoreEcho
<1>2. TypeOK /\ Types /\ FlightInv /\ AudienceInv BY DEF InboxInv
<1>3. in_flight.origin \in AnyIdentity /\ in_flight.author \in AnyIdentity
  BY <1>2 DEF TypeOK, Request, NoRequest, AnyIdentity
<1>4. /\ sessions' \in [Clients -> Session]
      /\ \A c \in channels : sessions'[c] = sessions[c]
      /\ \A c \in Clients : sessions'[c].ident \in Identities \cup {NoOne}
                            /\ sessions'[c].pending \subseteq 1 .. lastId
      /\ Identified(channels)' = Identified(channels)
      /\ cursor' \in [Identities -> Int]
      /\ \A i \in Identities : cursor'[i] \in Never .. lastId' /\ cursor'[i] >= cursor[i]
      /\ \A i \in Identities : cursor'[i] >= lastId' => i \in Identified(channels)
      /\ \A i \in Identities, id \in Stored : id <= cursor'[i] => Settled(i, id)
      /\ \A i \in Identified(channels) : i \in Identities
      /\ \A id \in Stored' : messages'[id] \in Identities \cup {NoOne}
      /\ PendingInv' /\ NewInv'
  BY <1>1, <1>3, StoreFacts
<1>5. /\ lastId' = lastId + 1 /\ lastId' \in Nat /\ Stored' = Stored \cup {lastId'}
      /\ messages'[lastId'] = in_flight.origin /\ \A k \in Stored : messages'[k] = messages[k]
  BY <1>1, <1>2, InsertFacts
<1>6. /\ lastId \in Nat /\ Stored \subseteq 1 .. lastId /\ channels \subseteq Clients
      /\ radio \in Seq({"get", "send"}) /\ handling.id = lastId'
  BY <1>1, <1>2, <1>5 DEF TypeOK, Types
<1>7. SlotOK' /\ QueueInv' /\ FlightInv'
  <2>1. UNCHANGED netVars /\ \A c \in channels : sessions'[c].ident = sessions[c].ident
    BY <1>1, <1>4
  <2> QED BY <1>1, <1>6, <2>1, QueueMoves
<1>8. handling'.stage = "idle" BY <1>1 DEF Idle
<1>9. TypeOK'
  <2>1. Stored' \subseteq 1 .. lastId' BY <1>5, <1>6
  <2>2. 1 .. lastId \subseteq 1 .. lastId' BY <1>5, <1>6
  <2>3. \A c \in Clients : sessions'[c].pending \subseteq 1 .. lastId' BY <1>4, <2>2
  <2> QED BY <1>1, <1>2, <1>4, <1>5, <1>7, <1>8, <2>1, <2>3 DEF TypeOK, SlotOK, netVars
<1>10. author' \in [1 .. MaxMessages -> AnyIdentity]
  BY <1>1, <1>2, <1>3 DEF Types
<1>11. Types' BY <1>1, <1>2, <1>4, <1>8, <1>10 DEF Types, Idle
<1>12. \A i \in Identities, id \in Stored : Settled(i, id) => Settled(i, id)'
  BY <1>1, <1>5, SettledStays
<1>13. \A i \in Identified(channels) : lastId' \in seen'[i]
  BY <1>1, <1>2, <1>6 DEF AudienceInv
<1>14. CursorInv'
  <2> SUFFICES ASSUME NEW i \in Identities, NEW id \in Stored', id <= cursor'[i]
               PROVE  Settled(i, id)'
    BY DEF CursorInv
  <2>1. CASE id \in Stored BY <1>4, <1>12, <2>1
  <2>2. CASE id = lastId'
    <3>1. cursor'[i] \in Int /\ lastId' \in Int BY <1>4, <1>5
    <3>2. i \in Identified(channels) BY <1>4, <2>2, <3>1
    <3>3. id \in seen'[i] BY <1>13, <2>2, <3>2
    <3> QED BY <3>3 DEF Settled, Served
  <2> QED BY <1>5, <2>1, <2>2
<1>15. SessionInv'
  <2> SUFFICES ASSUME NEW d \in channels, sessions[d].ident # NoOne, NEW id \in Stored'
               PROVE  Settled(sessions[d].ident, id)' \/ id \in sessions[d].pending
    BY <1>1, <1>4 DEF SessionInv, netVars
  <2>1. PICK i \in Identities : i = sessions[d].ident BY <1>2, <1>6 DEF TypeOK
  <2>2. sessions'[d].ident = i BY <1>4, <2>1
  <2>3. CASE id \in Stored
    <3>1. Settled(i, id) \/ id \in sessions[d].pending
      BY <1>1, <2>1, <2>3 DEF InboxInv, SessionInv, OnItsWay
    <3>2. Settled(i, id)' \/ id \in sessions[d].pending BY <1>12, <2>3, <3>1
    <3> QED BY <2>2, <3>2 DEF Settled, Served, Excused
  <2>4. CASE id = lastId'
    <3>1. i \in Identified(channels) BY <1>2, <1>6, <2>1, IdentifiedFacts DEF Types
    <3>2. id \in seen'[i] BY <1>13, <2>4, <3>1
    <3> QED BY <2>2, <3>2 DEF Settled, Served
  <2> QED BY <1>5, <2>3, <2>4
<1>16. AudienceInv' BY <1>8 DEF AudienceInv
<1>17. ReplayedInv'
  <2> SUFFICES ASSUME NEW i \in Identities, NEW id \in replayed[i]
               PROVE  id <= cursor'[i] /\ id >= 1
    BY <1>1 DEF ReplayedInv
  <2>1. id \in Nat /\ cursor[i] \in Int /\ cursor'[i] \in Int BY <1>2, <1>4 DEF Types
  <2>2. id <= cursor[i] /\ id >= 1 BY DEF InboxInv, ReplayedInv
  <2>3. cursor'[i] >= cursor[i] BY <1>4
  <2> QED BY <2>1, <2>2, <2>3
<1>18. AuthorInv'
  <2> SUFFICES ASSUME NEW id \in 1 .. MaxMessages
               PROVE  /\ id > lastId' => author'[id] = NoOne
                      /\ id \in Stored' /\ author'[id] # NoOne => messages'[id] = author'[id]
    BY DEF AuthorInv
  <2>1. /\ id > lastId => author[id] = NoOne
        /\ id \in Stored /\ author[id] # NoOne => messages[id] = author[id]
    BY DEF InboxInv, AuthorInv
  <2>2. id \in Int OBVIOUS
  <2>3. author'[id] = IF id = lastId' THEN in_flight.author ELSE author[id]
    BY <1>1, <1>2 DEF Types
  <2>4. CASE id = lastId'
    <3>1. ~(id > lastId') BY <1>5, <2>4
    <3> QED BY <1>2, <1>5, <2>3, <2>4, <3>1 DEF FlightInv
  <2>5. CASE id # lastId'
    <3>1. id > lastId' => id > lastId BY <1>5, <1>6, <2>2
    <3> QED BY <1>5, <2>1, <2>3, <2>5, <3>1
  <2> QED BY <2>4, <2>5
<1> QED BY <1>4, <1>7, <1>9, <1>11, <1>14, <1>15, <1>16, <1>17, <1>18 DEF InboxInv

-----------------------------------------------------------------------------
(* Failures and maintenance.                                               *)

\* A restart: who had been moved to the message on its way will not get it.
LEMMA RestartStep ==
  ASSUME InboxInv, Restart
  PROVE  InboxInv'
<1>1. PICK k : k = handling.id OBVIOUS
<1>2. /\ channels' = {} /\ gone' = gone \cup channels
      /\ sessions' = [c \in Clients |-> NoSession]
      /\ in_flight' = NoRequest /\ pending_queue' = << >> /\ radio' = << >>
      /\ handling' = Idle
      /\ excused' = excused \cup {[ident |-> i, id |-> k, why |-> "closed"] :
                                    i \in {j \in handling.audience : cursor[j] >= k}}
      /\ seen' = [i \in Identities |->
                    IF handling.stage = "echo" THEN seen[i] \ {k} ELSE seen[i]]
      /\ UNCHANGED <<messages, lastId, cursor, replayed, waived, author>>
  BY <1>1 DEF Restart
<1>3. TypeOK /\ Types /\ AudienceInv /\ CursorInv BY DEF InboxInv
<1>4. /\ lastId \in Nat /\ Stored \subseteq 1 .. lastId /\ Stored' = Stored
      /\ channels \subseteq Clients /\ gone \subseteq Clients
      /\ cursor \in [Identities -> Int] /\ seen \in [Identities -> SUBSET Nat]
  BY <1>2, <1>3 DEF TypeOK, Types, Stored
<1>5. SlotOK' /\ QueueInv' /\ FlightInv' BY <1>2, NoRequests
<1>6. handling'.stage = "idle" BY <1>2 DEF Idle
<1>7. /\ NoSession \in Session /\ NoSession.ident = NoOne /\ NoSession.pending = {}
  BY DEF NoSession, Session, AnyIdentity
<1>8. \A c \in Clients : sessions'[c] = NoSession BY <1>2
<1>9. TypeOK'
  BY <1>2, <1>3, <1>4, <1>5, <1>6, <1>7, <1>8 DEF TypeOK, SlotOK
<1>10. Types'
  <2>1. sessions' \in [Clients -> Session] BY <1>2, <1>7
  <2>2. seen' \in [Identities -> SUBSET Nat] BY <1>2, <1>4
  <2> QED BY <1>2, <1>3, <1>6, <2>1, <2>2 DEF Types, Idle
<1>11. \A i \in Identities, id \in Stored : id \in seen[i] => id \in seen'[i]
  <2> SUFFICES ASSUME NEW i \in Identities, NEW id \in Stored, id \in seen[i] PROVE id \in seen'[i]
    OBVIOUS
  <2>1. handling.stage = "echo" => id # k
    BY <1>1, <1>3, <1>4 DEF Types
  <2> QED BY <1>2, <2>1
<1>12. \A i \in Identities, id \in Stored : Settled(i, id) => Settled(i, id)'
  BY <1>2, <1>11 DEF Settled, Served, Excused
<1>13. CursorInv'
  <2> SUFFICES ASSUME NEW i \in Identities, NEW id \in Stored, id <= cursor[i]
               PROVE  Settled(i, id)'
    BY <1>2, <1>4 DEF CursorInv
  <2>1. CASE Settled(i, id) BY <1>12, <2>1
  <2>2. CASE handling.stage = "route" /\ id = k
    <3>1. id \in Int /\ cursor[i] \in Int BY <1>4
    <3>2. cursor[i] >= k BY <2>2, <3>1
    <3>3. i \in handling.audience BY <1>1, <1>3, <2>2, <3>2 DEF AudienceInv
    <3>4. [ident |-> i, id |-> k, why |-> "closed"] \in excused' BY <1>2, <3>2, <3>3
    <3> QED BY <2>2, <3>4 DEF Settled, Excused, Unserved
  <2> QED BY <1>1, <1>3, <2>1, <2>2 DEF CursorInv, OnItsWay
<1>14. SessionInv' /\ AudienceInv' BY <1>2, <1>6 DEF SessionInv, AudienceInv
<1>15. PendingInv' /\ NewInv' BY <1>7, <1>8 DEF PendingInv, NewInv
<1>16. ReplayedInv' /\ AuthorInv' BY <1>2, <1>4 DEF InboxInv, ReplayedInv, AuthorInv
<1> QED BY <1>5, <1>9, <1>10, <1>13, <1>14, <1>15, <1>16 DEF InboxInv

\* Maintenance deletes messages and forgets identities.
LEMMA MaintainStep ==
  ASSUME InboxInv, maintain
  PROVE  InboxInv'
<1>1. PICK old \in SUBSET Stored, away \in SUBSET {i \in Identities : cursor[i] # Never} :
        /\ messages' = [id \in Stored \ old |-> messages[id]]
        /\ cursor' = [i \in Identities |-> IF i \in away THEN Never ELSE cursor[i]]
        /\ replayed' = [i \in Identities |-> IF i \in away THEN {} ELSE replayed[i]]
  BY DEF maintain
<1>2. /\ handling = Idle
      /\ UNCHANGED <<netVars, sessions, lastId, slotVars, handling, seen, waived, author, excused>>
  BY DEF maintain
<1> USE DEF netVars, slotVars
<1>3. TypeOK /\ Types BY DEF InboxInv
<1>4. /\ lastId \in Nat /\ Stored \subseteq 1 .. lastId
      /\ cursor \in [Identities -> Int] /\ replayed \in [Identities -> SUBSET Nat]
      /\ \A i \in Identities : cursor[i] \in Never .. lastId
  BY <1>3 DEF TypeOK, Types
<1>5. Never \in Int /\ Never < 0 BY DEF Never
<1>6. Stored' \subseteq Stored /\ \A id \in Stored' : messages'[id] = messages[id]
  BY <1>1 DEF Stored
<1>7. /\ cursor' \in [Identities -> Int]
      /\ \A i \in Identities : cursor'[i] = Never \/ (i \notin away /\ cursor'[i] = cursor[i])
  BY <1>1, <1>4, <1>5
<1>8. \A i \in Identities : cursor'[i] \in Never .. lastId
  BY <1>4, <1>5, <1>7
<1>9. replayed' \in [Identities -> SUBSET Nat] BY <1>1, <1>4
<1>10. TypeOK' BY <1>2, <1>3, <1>6, <1>8 DEF TypeOK
<1>11. Types' BY <1>2, <1>3, <1>7, <1>9 DEF Types
<1>12. \A id : ~OnItsWay(id) BY <1>2 DEF OnItsWay, Idle
<1>13. \A i \in Identities, id \in Stored' : Settled(i, id) => Settled(i, id)'
  BY <1>2, <1>6, SettledStays
<1>14. CursorInv'
  <2> SUFFICES ASSUME NEW i \in Identities, NEW id \in Stored', id <= cursor'[i]
               PROVE  Settled(i, id)'
    BY DEF CursorInv
  <2>1. id \in 1 .. lastId BY <1>4, <1>6
  <2>2. cursor'[i] # Never BY <1>4, <1>5, <2>1
  <2>3. id <= cursor[i] /\ id \in Stored BY <1>6, <1>7, <2>2
  <2>4. Settled(i, id) BY <1>12, <2>3 DEF InboxInv, CursorInv
  <2> QED BY <1>13, <2>4
<1>15. SessionInv'
  <2> SUFFICES ASSUME NEW d \in channels, sessions[d].ident # NoOne, NEW id \in Stored'
               PROVE  Settled(sessions[d].ident, id)' \/ id \in sessions[d].pending
    BY <1>2 DEF SessionInv
  <2>1. PICK i \in Identities : i = sessions[d].ident BY <1>3 DEF TypeOK
  <2>2. Settled(i, id) \/ id \in sessions[d].pending
    BY <1>6, <1>12, <2>1 DEF InboxInv, SessionInv
  <2>3. Settled(i, id) => Settled(i, id)' BY <1>13
  <2>4. sessions'[d].ident = i BY <1>2, <2>1
  <2> QED BY <2>2, <2>3, <2>4 DEF Settled, Served, Excused
<1>16. AudienceInv' BY <1>2 DEF AudienceInv, Idle
<1>17. ReplayedInv'
  <2> SUFFICES ASSUME NEW i \in Identities, NEW id \in replayed'[i]
               PROVE  id <= cursor'[i] /\ id >= 1
    BY DEF ReplayedInv
  <2>1. i \notin away /\ id \in replayed[i] BY <1>1
  <2>2. cursor'[i] = cursor[i] BY <1>1, <2>1
  <2> QED BY <2>1, <2>2 DEF InboxInv, ReplayedInv
<1>18. PendingInv' BY <1>2, <1>6 DEF InboxInv, PendingInv
<1>19. NewInv' /\ QueueInv' /\ FlightInv' BY <1>2 DEF InboxInv, NewInv, QueueInv, FlightInv
<1>20. AuthorInv' BY <1>2, <1>6 DEF InboxInv, AuthorInv
<1> QED BY <1>10, <1>11, <1>14, <1>15, <1>16, <1>17, <1>18, <1>19, <1>20 DEF InboxInv

-----------------------------------------------------------------------------
(* Theorems.                                                               *)

\* The invariant is inductive: commands, frames, lost replies, failures of the
\* database, disconnections, restarts and purges keep it, in any order.
THEOREM InboxInductive == Spec => []InboxInv
<1>1. InboxInv /\ [Next]_vars => InboxInv'
  <2> SUFFICES ASSUME InboxInv, [Next]_vars PROVE InboxInv' OBVIOUS
  <2>1. ASSUME NEW c \in Clients, Connect(c) \/ Disconnect(c) PROVE InboxInv'
    BY <2>1, ConnectionStep
  <2>2. ASSUME NEW c \in Clients, Replay(c) PROVE InboxInv' BY <2>2, ReplayStep
  <2>3. ASSUME NEW c \in Clients, AskRadio(c) PROVE InboxInv' BY <2>3, AskRadioStep
  <2>4. ASSUME NEW c \in Clients, Send(c) PROVE InboxInv' BY <2>4, SendStep
  <2>5. ASSUME NEW c \in Clients, NEW i \in Identities, register_session(c, i) PROVE InboxInv'
    BY <2>5, RegisterStep
  <2>6. CASE StoreMessage BY <2>6, StoreMessageStep
  <2>7. CASE RouteMessage BY <2>7, RouteStep
  <2>8. CASE Accepted BY <2>8, AcceptedStep
  <2>9. CASE StoreEcho BY <2>9, StoreEchoStep
  <2>10. CASE Refused \/ Silent \/ Timeout \/ LoseRadio BY <2>10, NoMessageStep
  <2>11. CASE Restart BY <2>11, RestartStep
  <2>12. CASE maintain BY <2>12, MaintainStep
  <2>13. CASE UNCHANGED vars
    <3>1. UNCHANGED <<netVars, sessions, messages, lastId, cursor, handling, seen, ghostVars>>
          /\ UNCHANGED <<in_flight, pending_queue, radio>>
      BY <2>13 DEF vars, netVars, ghostVars
    <3>2. SlotOK' /\ QueueInv' /\ FlightInv'
      BY <3>1 DEF InboxInv, TypeOK, SlotOK, QueueInv, FlightInv, netVars
    <3> QED BY <3>1, <3>2, SlotStep
  <2> QED
    BY <2>1, <2>2, <2>3, <2>4, <2>5, <2>6, <2>7, <2>8, <2>9, <2>10, <2>11, <2>12, <2>13
    DEF Next
<1> QED BY InboxInit, <1>1, PTL DEF Spec

\* The variables have their types, and no cursor is ahead of the ids given out.
THEOREM InboxTypeCorrect == Spec => []TypeOK
<1>1. InboxInv => TypeOK BY DEF InboxInv
<1> QED BY InboxInductive, <1>1, PTL

\* Whatever a cursor has passed, its identity got or has an excuse for.
THEOREM ServedBehindTheCursor == Spec => []NothingMissed
<1>1. InboxInv => NothingMissed
  <2> SUFFICES ASSUME InboxInv, handling = Idle, NEW i \in Identities, NEW id \in Stored,
                      id <= cursor[i]
               PROVE  Served(i, id) \/ Excused(i, id, {"late", "closed", "unread"})
    BY DEF NothingMissed
  <2>1. ~OnItsWay(id) BY DEF OnItsWay, Idle
  <2>2. Settled(i, id) BY <2>1 DEF InboxInv, CursorInv
  <2> QED BY <2>2 DEF Settled, Unserved
<1> QED BY InboxInductive, <1>1, PTL

\* Nobody is replayed what it asked to send.
THEOREM OwnMessagesKept == Spec => []NotEchoed
<1>1. InboxInv => NotEchoed
  <2> SUFFICES ASSUME InboxInv, NEW c \in Clients, NEW id \in 1 .. MaxMessages,
                      id \in sessions[c].pending \cap Stored, author[id] # NoOne
               PROVE  author[id] # sessions[c].ident
    BY DEF NotEchoed
  <2>1. messages[id] # sessions[c].ident BY DEF InboxInv, PendingInv
  <2>2. messages[id] = author[id] BY DEF InboxInv, AuthorInv
  <2> QED BY <2>1, <2>2
<1> QED BY InboxInductive, <1>1, PTL

\* A step moves a cursor forward, or maintenance forgets it.
LEMMA CursorStep ==
  ASSUME InboxInv, [Next]_vars, NEW i \in Identities
  PROVE  cursor'[i] >= cursor[i] \/ cursor'[i] = Never
<1>1. cursor \in [Identities -> Int] /\ TypeOK BY DEF InboxInv, Types
<1>2. CASE cursor' = cursor BY <1>1, <1>2
<1>3. ASSUME NEW ids, NEW id \in Int, cursor' = advance_client_cursor(cursor, ids, id)
      PROVE  cursor'[i] >= cursor[i]
  BY <1>1, <1>3, AdvanceFacts
<1>4. ASSUME NEW c \in Clients, Replay(c) PROVE cursor'[i] >= cursor[i]
  <2>0. c \in channels /\ Ready(c) BY <1>4 DEF Replay, Ready
  <2>1. PICK id \in sessions[c].pending \cap Stored :
          cursor' = advance_client_cursor(cursor, {sessions[c].ident},
                      IF {k \in sessions[c].pending : k > id} = {} THEN Max({id, message_head}) ELSE id)
    BY <1>4 DEF Replay
  <2>2. message_head \in 0 .. lastId /\ lastId \in Nat /\ Stored \subseteq 1 .. lastId
    BY <1>1, HeadFacts DEF TypeOK
  <2>3. PICK h \in 0 .. lastId : h = message_head BY <2>2
  <2>4. id \in 1 .. lastId BY <2>2
  <2>5. \E x \in {id, h} : \A y \in {id, h} : x >= y BY <2>2, <2>4
  <2>6. Max({id, h}) \in {id, h} BY <2>5 DEF Max
  <2>7. Max({id, h}) \in Int BY <2>2, <2>4, <2>6
  <2> QED BY <1>3, <2>1, <2>3, <2>4, <2>7
<1>5. ASSUME NEW c \in Clients, AskRadio(c) PROVE cursor'[i] >= cursor[i]
  <2>1. message_head \in Int BY <1>1, HeadFacts
  <2> QED BY <1>3, <1>5, <2>1 DEF AskRadio
<1>6. ASSUME NEW c \in Clients, NEW j \in Identities, register_session(c, j)
      PROVE  cursor'[i] >= cursor[i]
  <2>0. PICK missed \in Missed(j) : \E pending \in {missed, {}} :
          cursor' = advance_client_cursor(cursor, {j},
                      IF pending = {} THEN message_head ELSE Min(pending) - 1)
    BY <1>6 DEF register_session
  <2>1. PICK pending \in {missed, {}} :
          cursor' = advance_client_cursor(cursor, {j},
                      IF pending = {} THEN message_head ELSE Min(pending) - 1)
    BY <2>0
  <2>2. pending \subseteq Nat
    <3>1. missed \subseteq ReplayableTo(j) BY MissedFacts
    <3>2. missed \subseteq Stored BY <3>1 DEF ReplayableTo
    <3>3. Stored \subseteq Nat BY <1>1 DEF TypeOK
    <3> QED BY <3>2, <3>3
  <2>3. CASE pending = {}
    <3>1. message_head \in Int BY <1>1, HeadFacts
    <3> QED BY <1>3, <2>1, <2>3, <3>1
  <2>4. CASE pending # {}
    <3>1. Min(pending) \in Nat BY <2>2, <2>4, LeastId
    <3>2. Min(pending) - 1 \in Int BY <3>1
    <3> QED BY <1>3, <2>1, <2>4, <3>2
  <2> QED BY <2>3, <2>4
<1>7. CASE StoreMessage \/ StoreEcho
  <2>1. PICK origin : insert_message(origin) /\ follow_head BY <1>7 DEF StoreMessage, StoreEcho
  <2>2. lastId' \in Int BY <1>1, <2>1, InsertFacts
  <2> QED BY <1>3, <2>1, <2>2 DEF follow_head
<1>8. CASE maintain
  BY <1>1, <1>8 DEF maintain
<1>9. ASSUME NEW c \in Clients, Connect(c) \/ Disconnect(c) \/ Send(c) PROVE cursor' = cursor
  BY <1>9 DEF Connect, Disconnect, Send
<1>10. CASE RouteMessage \/ Accepted \/ Refused \/ Silent \/ Timeout \/ LoseRadio \/ Restart
  BY <1>2, <1>10 DEF RouteMessage, Accepted, Refused, Silent, Timeout, LoseRadio, Restart
<1>11. CASE UNCHANGED vars BY <1>2, <1>11 DEF vars
<1> QED BY <1>2, <1>4, <1>5, <1>6, <1>7, <1>8, <1>9, <1>10, <1>11 DEF Next

\* A cursor moves forward only, until maintenance forgets the identity.
THEOREM NoCursorGoesBack == Spec => CursorForward
<1>1. InboxInv /\ [Next]_vars =>
        [\A i \in Identities : cursor'[i] >= cursor[i] \/ cursor'[i] = Never]_vars
  BY CursorStep
<1> QED BY InboxInductive, <1>1, PTL DEF Spec, CursorForward

\* A connection gets its identity from APP_START only, and starts behind the
\* cursor of the identity.
LEMMA SessionStep ==
  ASSUME InboxInv, [Next]_vars, NEW c \in Clients, NEW i, i = sessions'[c].ident,
         sessions[c].ident = NoOne, i # NoOne, cursor[i] # Never
  PROVE  sessions'[c].pending \cap replayed[i] = {}
<1>1. /\ sessions \in [Clients -> Session] /\ cursor \in [Identities -> Int]
      /\ replayed \in [Identities -> SUBSET Nat] /\ TypeOK
  BY DEF InboxInv, Types
<1>2. PICK d \in Clients, j \in Identities : register_session(d, j)
  <2>1. sessions' # sessions OBVIOUS
  <2>2. ASSUME NEW d \in Clients, Replay(d) \/ AskRadio(d) PROVE FALSE
    <3>1. PICK q : sessions' = [sessions EXCEPT ![d].pending = q]
      BY <2>2 DEF Replay, AskRadio
    <3>2. sessions[d] \in Session BY <1>1
    <3>3. [sessions[d] EXCEPT !.pending = q].ident = sessions[d].ident BY <3>2, NewPending
    <3>4. sessions'[d] = [sessions[d] EXCEPT !.pending = q] BY <1>1, <3>1
    <3>5. sessions'[c].ident = sessions[c].ident
      <4>1. CASE c = d BY <3>3, <3>4, <4>1
      <4>2. CASE c # d BY <1>1, <3>1, <4>2
      <4> QED BY <4>1, <4>2
    <3> QED BY <3>5
  <2>3. CASE StoreMessage \/ StoreEcho \/ Restart
    <3>1. sessions'[c] = sessions[c] \/ sessions'[c] = NoSession
      BY <2>3 DEF StoreMessage, StoreEcho, Restart, follow_head
    <3> QED BY <3>1 DEF NoSession
  <2>4. ASSUME NEW d \in Clients, Connect(d) \/ Disconnect(d) \/ Send(d) PROVE sessions' = sessions
    BY <2>4 DEF Connect, Disconnect, Send
  <2>5. CASE RouteMessage \/ Accepted \/ Refused \/ Silent \/ Timeout \/ LoseRadio \/ maintain
    BY <2>1, <2>5 DEF RouteMessage, Accepted, Refused, Silent, Timeout, LoseRadio, maintain
  <2>6. CASE UNCHANGED vars BY <2>1, <2>6 DEF vars
  <2> QED BY <2>1, <2>2, <2>3, <2>4, <2>5, <2>6 DEF Next
<1>3. PICK missed \in Missed(j) : \E pending \in {missed, {}} :
        sessions' = [sessions EXCEPT ![d] = [ident |-> j, pending |-> pending]]
  BY <1>2 DEF register_session
<1>4. PICK pending \in {missed, {}} :
        sessions' = [sessions EXCEPT ![d] = [ident |-> j, pending |-> pending]]
  BY <1>3
<1>5. c = d /\ i = j /\ sessions'[c].pending = pending BY <1>1, <1>4
<1>6. missed = {id \in ReplayableTo(j) : id > cursor[j]} BY <1>5, MissedFacts
<1>7. \A id \in pending : id > cursor[i] BY <1>5, <1>6
<1>8. \A id \in replayed[i] : id <= cursor[i] /\ id \in Nat /\ cursor[i] \in Int
  BY <1>1, <1>5 DEF InboxInv, ReplayedInv
<1> QED BY <1>5, <1>7, <1>8

\* What was replayed to an identity is not pending for a later session of it.
THEOREM ReplayedOnce == Spec => OnlyOnce
<1>1. InboxInv /\ [Next]_vars =>
        [\A c \in Clients : LET i == sessions'[c].ident IN
           sessions[c].ident = NoOne /\ i # NoOne /\ cursor[i] # Never =>
             sessions'[c].pending \cap replayed[i] = {}]_vars
  BY SessionStep
<1> QED BY InboxInductive, <1>1, PTL DEF Spec, OnlyOnce

=============================================================================
