---------------------------- MODULE RoutingProofs ----------------------------
(***************************************************************************)
(* Whom the radio's frames are for: replies carry no request identifier,   *)
(* and still they reach the request that caused them as long as none was   *)
(* abandoned.  For every set of clients, commands and pushes and every     *)
(* bound, on top of the books of RequestsProofs.                           *)
(***************************************************************************)
EXTENDS RequestsProofs

\* A frame that answers a request, and one that ends it.
IsReply(f) == f.re # None /\ f.code # Ack
Final(f)   == IsReply(f) /\ Completes(awaiting_for(log[f.re].cmd), f.code)

Verdict(code) == IF code = Error THEN "error" ELSE "ok"

\* The radio has said nothing about request id.
Unanswered(id) ==
  /\ log[id].verdict = "none"
  /\ iter.req # id
  /\ \A i \in 1 .. Len(fromRadio) : IsReply(fromRadio[i]) => fromRadio[i].re # id

\* A request is sent once, after it has waited; ...
SentInv ==
  /\ \A i \in 1 .. Len(pending_queue) :
       /\ Unanswered(pending_queue[i])
       /\ \A j \in 1 .. Len(toRadio) : toRadio[j] # pending_queue[i]
  /\ \A i \in 1 .. Len(toRadio) : Unanswered(toRadio[i])
  /\ \A i, j \in 1 .. Len(toRadio) : i # j => toRadio[i] # toRadio[j]

\* ... the radio decides it once, ...
DecidedInv ==
  /\ iter.req # None => log[iter.req].verdict = "none" /\ log[iter.req].cmd.code = GetContacts
  /\ \A i \in 1 .. Len(fromRadio) :
       Final(fromRadio[i]) => log[fromRadio[i].re].verdict = Verdict(fromRadio[i].code)

\* ... and nothing about it follows the frame that ends it.
LastInv ==
  \A i, j \in 1 .. Len(fromRadio) :
    i < j /\ Final(fromRadio[i]) /\ IsReply(fromRadio[j]) => fromRadio[j].re # fromRadio[i].re

\* All that is on its way is about the request in flight, push codes included.
Serial ==
  link # "down" /\ ~abandoned =>
    /\ \A i \in 1 .. Len(toRadio) : toRadio[i] = in_flight
    /\ iter.req \in {None, in_flight}
    /\ \A i \in 1 .. Len(fromRadio) : IsReply(fromRadio[i]) => fromRadio[i].re = in_flight

\* Tags are stashed under the sender of the message.
AckInv ==
  misrouted = {} => \A e \in pending_acks \cup acked : log[e.ack].client = e.client

RadioInv == SentInv /\ DecidedInv /\ LastInv

RInv == IInv /\ RadioInv /\ Serial /\ AckInv /\ HonestOutcome /\ RightAnswer

-----------------------------------------------------------------------------
(* What the core does to the requests in a step.                           *)

\* A request that was waiting, or is new.
Waited(id) == id > Len(log) \/ \E j \in 1 .. Len(pending_queue) : pending_queue[j] = id

\* Requests keep what they are and what the radio said of them; of those
\* answered in this step all are in ends; only who has waited is sent.
Moves(ends) ==
  /\ Len(log) <= Len(log')
  /\ \A id \in 1 .. Len(log) :
       /\ log'[id].client = log[id].client
       /\ log'[id].cmd = log[id].cmd
       /\ log'[id].verdict = log[id].verdict
  /\ \A id \in 1 .. Len(log') : id > Len(log) => log'[id].verdict = "none"
  /\ \A id \in 1 .. Len(log') :
       log'[id].outcome \in {"accepted", "rejected"} =>
         id <= Len(log) /\ (log'[id].outcome = log[id].outcome \/ id \in ends)
  /\ \A i \in 1 .. Len(pending_queue') : Waited(pending_queue'[i])
  /\ \/ toRadio' = toRadio /\ in_flight' \in {in_flight, None}
     \/ toRadio' = Append(toRadio, in_flight') /\ Waited(in_flight')

\* advance_queue takes from the queue it is given, and gives up or sends.
LEMMA AdvanceMoves ==
  ASSUME NEW lg \in Seq(Request), NEW q \in Seq(1 .. Len(lg)), NEW entries,
         advance_queue(lg, q, entries)
  PROVE  /\ Len(log') = Len(lg)
         /\ \A id \in 1 .. Len(lg) :
              /\ log'[id].client = lg[id].client
              /\ log'[id].cmd = lg[id].cmd
              /\ log'[id].verdict = lg[id].verdict
              /\ log'[id].outcome \in {lg[id].outcome, "failed", "dropped"}
         /\ \A i \in 1 .. Len(pending_queue') : \E j \in 1 .. Len(q) : pending_queue'[i] = q[j]
         /\ \/ toRadio' = toRadio /\ in_flight' = None
            \/ \E j \in 1 .. Len(q) : in_flight' = q[j] /\ toRadio' = Append(toRadio, q[j])
<1>0. Len(lg) \in Nat /\ Len(q) \in Nat /\ \A i \in 1 .. Len(q) : q[i] \in 1 .. Len(lg)
  OBVIOUS
<1>1. PICK k \in 1 .. Len(q) + 1 :
        LET popped  == {q[i] : i \in 1 .. k - 1}
            refused == {id \in popped : Alive(lg[id].client)}
        IN /\ log' = Settle(Settle(lg, refused, "failed"), popped \ refused, "dropped")
           /\ pending_queue' = SubSeq(q, k + 1, Len(q))
           /\ IF k <= Len(q)
              THEN /\ in_flight' = q[k]
                   /\ toRadio' = Append(toRadio, q[k])
              ELSE /\ in_flight' = None
                   /\ toRadio' = toRadio
  BY Zenon DEF advance_queue
<1> DEFINE popped  == {q[i] : i \in 1 .. k - 1}
           refused == {id \in popped : Alive(lg[id].client)}
           lg1     == Settle(lg, refused, "failed")
           rest    == popped \ refused
<1>2. /\ log' = Settle(lg1, rest, "dropped")
      /\ pending_queue' = SubSeq(q, k + 1, Len(q))
      /\ k <= Len(q) => in_flight' = q[k] /\ toRadio' = Append(toRadio, q[k])
      /\ ~(k <= Len(q)) => in_flight' = None /\ toRadio' = toRadio
  BY <1>1, Zenon
<1> HIDE DEF popped, refused, rest
<1>3. /\ lg1 \in Seq(Request) /\ Len(lg1) = Len(lg)
      /\ \A i \in 1 .. Len(lg) :
           /\ lg1[i].outcome = IF i \in refused THEN "failed" ELSE lg[i].outcome
           /\ lg1[i].client = lg[i].client
           /\ lg1[i].cmd = lg[i].cmd
           /\ lg1[i].verdict = lg[i].verdict
  BY SettleFacts DEF Outcomes
<1> HIDE DEF lg1
<1>4. /\ Len(log') = Len(lg1)
      /\ \A i \in 1 .. Len(lg1) :
           /\ log'[i].outcome = IF i \in rest THEN "dropped" ELSE lg1[i].outcome
           /\ log'[i].client = lg1[i].client
           /\ log'[i].cmd = lg1[i].cmd
           /\ log'[i].verdict = lg1[i].verdict
  BY <1>2, <1>3, SettleFacts DEF Outcomes
<1>5. /\ Len(pending_queue') = IF k + 1 <= Len(q) THEN Len(q) - (k + 1) + 1 ELSE 0
      /\ \A i \in 1 .. Len(q) - (k + 1) + 1 : pending_queue'[i] = q[(k + 1) + i - 1]
  <2>1. \A i \in k + 1 .. Len(q) : q[i] \in 1 .. Len(lg) BY <1>0
  <2> QED BY <1>0, <1>2, <2>1, SubSeqProperties
<1>6. ASSUME NEW i \in 1 .. Len(pending_queue')
      PROVE  \E j \in 1 .. Len(q) : pending_queue'[i] = q[j]
  <2> DEFINE n == Len(q)
  <2>1. n \in Nat /\ k \in 1 .. n + 1 BY <1>0
  <2> HIDE DEF n
  <2>2. Len(pending_queue') = IF k + 1 <= n THEN n - (k + 1) + 1 ELSE 0 BY <1>5 DEF n
  <2>3. i \in 1 .. n - (k + 1) + 1 /\ (k + 1) + i - 1 \in 1 .. n BY <2>1, <2>2
  <2> QED BY <1>5, <2>3 DEF n
<1>7. \/ toRadio' = toRadio /\ in_flight' = None
      \/ \E j \in 1 .. Len(q) : in_flight' = q[j] /\ toRadio' = Append(toRadio, q[j])
  <2>1. CASE k <= Len(q)
    <3>1. k \in 1 .. Len(q) BY <1>0, <2>1
    <3> QED BY <1>2, <2>1, <3>1
  <2>2. CASE ~(k <= Len(q)) BY <1>2, <2>2
  <2> QED BY <2>1, <2>2
<1>8. \A id \in 1 .. Len(lg) :
        /\ log'[id].client = lg[id].client
        /\ log'[id].cmd = lg[id].cmd
        /\ log'[id].verdict = lg[id].verdict
        /\ log'[id].outcome \in {lg[id].outcome, "failed", "dropped"}
  BY <1>3, <1>4
<1> QED BY <1>3, <1>4, <1>6, <1>7, <1>8

\* The core's own requests behind the log lg and the queue: new, and open.
LEMMA InternalFacts ==
  ASSUME IInv, NEW lg \in Seq(Request), Len(lg) = Len(log), NEW cmds \in Seq(Command)
  PROVE  LET lg2 == lg \o InternalRequests(cmds)
             q2  == pending_queue \o NextIds(cmds)
         IN /\ lg2 \in Seq(Request)
            /\ Len(lg2) = Len(log) + Len(cmds)
            /\ \A id \in 1 .. Len(log) : lg2[id] = lg[id]
            /\ \A id \in 1 .. Len(lg2) :
                 id > Len(log) => lg2[id].verdict = "none" /\ lg2[id].outcome = "open"
            /\ q2 \in Seq(1 .. Len(lg2))
            /\ \A i \in 1 .. Len(q2) : Waited(q2[i])
<1> DEFINE new == InternalRequests(cmds)
           ids == NextIds(cmds)
           n   == Len(log)
           m   == Len(cmds)
<1>1. n \in Nat /\ m \in Nat /\ DOMAIN cmds = 1 .. m /\ \A i \in 1 .. m : cmds[i] \in Command
  BY DEF IInv, TypeOK
<1>2. new = [i \in 1 .. m |-> NewRequest(Internal, cmds[i])] BY <1>1 DEF InternalRequests
<1>3. \A i \in 1 .. m : NewRequest(Internal, cmds[i]) \in Request BY <1>1 DEF NewRequest, Request
<1>4. new \in Seq(Request) /\ Len(new) = m
  BY <1>1, <1>2, <1>3, SeqDef
<1>5. \A i \in 1 .. m : new[i].verdict = "none" /\ new[i].outcome = "open"
  BY <1>2 DEF NewRequest
<1>6. ids = [i \in 1 .. m |-> n + i] BY <1>1 DEF NextIds
<1>7. ids \in Seq(1 .. n + m) /\ Len(ids) = m /\ \A i \in 1 .. m : ids[i] = n + i
  <2>1. \A i \in 1 .. m : n + i \in 1 .. n + m BY <1>1
  <2>2. ids \in [1 .. m -> 1 .. n + m] BY <1>6, <2>1
  <2> QED BY <1>1, <1>6, <2>2, SeqDef
<1> HIDE DEF new, ids
<1> DEFINE lg2 == lg \o new
           q2  == pending_queue \o ids
<1>8. /\ lg2 \in Seq(Request) /\ Len(lg2) = Len(lg) + Len(new)
      /\ \A i \in 1 .. Len(lg) + Len(new) : lg2[i] = IF i <= Len(lg) THEN lg[i] ELSE new[i - Len(lg)]
  BY <1>4, ConcatProperties
<1>9. pending_queue \in Seq(1 .. n + m)
  <2>1. pending_queue \in Seq(1 .. n) BY DEF IInv, TypeOK, Ids
  <2>2. 1 .. n \subseteq 1 .. n + m BY <1>1
  <2> HIDE DEF n, m
  <2> QED BY <2>1, <2>2, SeqMonotonic
<1>10. /\ q2 \in Seq(1 .. n + m) /\ Len(q2) = Len(pending_queue) + m
       /\ \A i \in 1 .. Len(pending_queue) + m :
            q2[i] = IF i <= Len(pending_queue) THEN pending_queue[i] ELSE ids[i - Len(pending_queue)]
  <2> HIDE DEF n, m
  <2> QED BY <1>7, <1>9, ConcatProperties
<1>11. \A i \in 1 .. Len(q2) : Waited(q2[i])
  <2> TAKE i \in 1 .. Len(q2)
  <2> DEFINE p == Len(pending_queue)
  <2>1. p \in Nat /\ i \in 1 .. p + m BY <1>9, <1>10
  <2> HIDE DEF p
  <2>2. CASE i <= p BY <1>10, <2>1, <2>2 DEF Waited, p
  <2>3. CASE ~(i <= p)
    <3>1. i - p \in 1 .. m BY <1>1, <2>1, <2>3
    <3>2. q2[i] = n + (i - p) BY <1>7, <1>10, <2>1, <2>3, <3>1 DEF p
    <3>3. n + (i - p) > n BY <1>1, <2>1, <3>1
    <3> QED BY <3>2, <3>3 DEF Waited
  <2> QED BY <2>2, <2>3
<1>12. /\ Len(lg2) = n + m
       /\ \A id \in 1 .. n : lg2[id] = lg[id]
       /\ \A id \in 1 .. n + m : id > n => lg2[id].verdict = "none" /\ lg2[id].outcome = "open"
  <2>1. \A id \in 1 .. n + m : id > n => id - n \in 1 .. m BY <1>1
  <2> QED BY <1>1, <1>4, <1>5, <1>8, <2>1
<1> HIDE DEF n, m, lg2, q2
<1>13. /\ lg2 \in Seq(Request) /\ Len(lg2) = n + m
       /\ q2 \in Seq(1 .. Len(lg2))
  BY <1>8, <1>10, <1>12
<1> QED BY <1>11, <1>12, <1>13 DEF n, m, lg2, q2, new, ids

\* A log with more requests and some ended, and a queue of waiting ones, handed
\* to advance_queue.
LEMMA QueueMoves ==
  ASSUME IInv, NEW lg \in Seq(Request), NEW q \in Seq(1 .. Len(lg)), NEW entries, NEW ends,
         Len(log) <= Len(lg),
         \A id \in 1 .. Len(log) :
           /\ lg[id].client = log[id].client
           /\ lg[id].cmd = log[id].cmd
           /\ lg[id].verdict = log[id].verdict
           /\ lg[id].outcome = log[id].outcome \/ id \in ends \/ lg[id].outcome = "failed",
         \A id \in 1 .. Len(lg) :
           id > Len(log) => lg[id].verdict = "none" /\ lg[id].outcome = "open",
         \A i \in 1 .. Len(q) : Waited(q[i]),
         advance_queue(lg, q, entries)
  PROVE  /\ Moves(ends)
         /\ \A id \in 1 .. Len(lg) : log'[id].outcome \in {lg[id].outcome, "failed", "dropped"}
<1>1. /\ Len(log') = Len(lg)
      /\ \A id \in 1 .. Len(lg) :
           /\ log'[id].client = lg[id].client
           /\ log'[id].cmd = lg[id].cmd
           /\ log'[id].verdict = lg[id].verdict
           /\ log'[id].outcome \in {lg[id].outcome, "failed", "dropped"}
      /\ \A i \in 1 .. Len(pending_queue') : \E j \in 1 .. Len(q) : pending_queue'[i] = q[j]
      /\ \/ toRadio' = toRadio /\ in_flight' = None
         \/ \E j \in 1 .. Len(q) : in_flight' = q[j] /\ toRadio' = Append(toRadio, q[j])
  BY AdvanceMoves
<1>2. Len(log) \in Nat /\ Len(lg) \in Nat BY DEF IInv, TypeOK
<1>3. \A id \in 1 .. Len(log) : id \in 1 .. Len(lg) BY <1>2
<1>4. \A id \in 1 .. Len(lg) : id <= Len(log) => id \in 1 .. Len(log) BY <1>2
<1>5. \A id \in 1 .. Len(lg) : id <= Len(log) \/ id > Len(log) BY <1>2
<1>6. ASSUME NEW id \in 1 .. Len(lg), log'[id].outcome \in {"accepted", "rejected"}
      PROVE  id <= Len(log) /\ (log'[id].outcome = log[id].outcome \/ id \in ends)
  <2>1. log'[id].outcome = lg[id].outcome BY <1>1, <1>6
  <2>2. id <= Len(log) BY <1>5, <1>6, <2>1
  <2> QED BY <1>4, <1>6, <2>1, <2>2
<1>7. \A i \in 1 .. Len(pending_queue') : Waited(pending_queue'[i]) BY <1>1
<1>8. \/ toRadio' = toRadio /\ in_flight' \in {in_flight, None}
      \/ toRadio' = Append(toRadio, in_flight') /\ Waited(in_flight')
  BY <1>1
<1> QED BY <1>1, <1>3, <1>6, <1>7, <1>8 DEF Moves

\* A refresh or a sync of the core's own; a busy radio is left alone.
LEMMA EnqueueMoves ==
  ASSUME IInv, NEW cmd \in Command, EnqueueInternal(cmd)
  PROVE  /\ Moves({})
         /\ in_flight # None => in_flight' = in_flight /\ toRadio' = toRadio
<1> DEFINE lg == log \o InternalRequests(<<cmd>>)
           q  == pending_queue \o NextIds(<<cmd>>)
<1>1. <<cmd>> \in Seq(Command) /\ Len(<<cmd>>) = 1 /\ log \in Seq(Request) /\ Len(log) \in Nat
  BY DEF IInv, TypeOK
<1>2. /\ lg \in Seq(Request) /\ Len(lg) = Len(log) + 1
      /\ \A id \in 1 .. Len(log) : lg[id] = log[id]
      /\ \A id \in 1 .. Len(lg) :
           id > Len(log) => lg[id].verdict = "none" /\ lg[id].outcome = "open"
      /\ q \in Seq(1 .. Len(lg))
      /\ \A i \in 1 .. Len(q) : Waited(q[i])
  BY <1>1, InternalFacts
<1>3. \/ in_flight = None /\ advance_queue(lg, q, cached)
      \/ in_flight # None /\ log' = lg /\ pending_queue' = q /\ UNCHANGED <<in_flight, toRadio>>
  BY Zenon DEF EnqueueInternal
<1> HIDE DEF lg, q
<1>4. Len(log) <= Len(lg) BY <1>1, <1>2
<1>5. CASE in_flight = None /\ advance_queue(lg, q, cached)
  <2>1. Moves({}) BY <1>2, <1>4, <1>5, QueueMoves
  <2> QED BY <1>5, <2>1
<1>6. CASE in_flight # None /\ log' = lg /\ pending_queue' = q /\ UNCHANGED <<in_flight, toRadio>>
  <2>1. \A id \in 1 .. Len(lg) : id <= Len(log) \/ id > Len(log) BY <1>1, <1>2
  <2>2. \A id \in 1 .. Len(lg) : lg[id].outcome \in {"accepted", "rejected"} =>
          id <= Len(log) /\ lg[id].outcome = log[id].outcome
    <3> SUFFICES ASSUME NEW id \in 1 .. Len(lg), lg[id].outcome \in {"accepted", "rejected"}
                 PROVE  id <= Len(log) /\ lg[id].outcome = log[id].outcome
      OBVIOUS
    <3>1. id <= Len(log) BY <1>2, <2>1
    <3>2. id \in 1 .. Len(log) BY <1>1, <1>2, <3>1
    <3> QED BY <1>2, <3>1, <3>2
  <2> QED BY <1>2, <1>4, <1>6, <2>2 DEF Moves
<1> QED BY <1>3, <1>5, <1>6

\* check_in_flight_timeout
LEMMA TimeoutMoves ==
  ASSUME IInv, Timeout
  PROVE  Moves({})
<1> DEFINE st == Settle(log, {in_flight}, "failed")
<1>1. log \in Seq(Request) /\ Len(log) \in Nat /\ pending_queue \in Seq(1 .. Len(log))
  BY DEF IInv, TypeOK, Ids
<1>2. advance_queue(st, pending_queue, cached) BY DEF Timeout
<1>3. /\ st \in Seq(Request) /\ Len(st) = Len(log)
      /\ \A i \in 1 .. Len(log) :
           /\ st[i].outcome = IF i \in {in_flight} THEN "failed" ELSE log[i].outcome
           /\ st[i].client = log[i].client
           /\ st[i].cmd = log[i].cmd
           /\ st[i].verdict = log[i].verdict
  BY <1>1, SettleFacts DEF Outcomes
<1> HIDE DEF st
<1>4. \A i \in 1 .. Len(pending_queue) : Waited(pending_queue[i]) BY DEF Waited
<1>5. Len(log) <= Len(st) /\ \A id \in 1 .. Len(st) : ~(id > Len(log)) BY <1>1, <1>3
<1> QED BY <1>1, <1>2, <1>3, <1>4, <1>5, QueueMoves

\* A frame routed to the request in flight: when it ends it, the slot goes to
\* the next; the outcome tells an ERROR from anything else.
LEMMA RouteReplyMoves ==
  ASSUME IInv, RouteReply
  PROVE  LET f == Head(fromRadio)
         IN \/ /\ Completes(awaiting_for(log[in_flight].cmd), f.code)
               /\ Moves({in_flight})
               /\ in_flight' # in_flight
               /\ log'[in_flight].outcome = "accepted" => f.code # Error
               /\ log'[in_flight].outcome = "rejected" => f.code = Error
            \/ /\ ~Completes(awaiting_for(log[in_flight].cmd), f.code)
               /\ UNCHANGED <<log, pending_queue, in_flight, toRadio>>
<1> DEFINE f     == Head(fromRadio)
           req   == log[in_flight]
           await == awaiting_for(req.cmd)
           again == Refreshes(req.cmd, f.code)
           ended == Settle(log, {in_flight}, Outcome(f.code))
<1>1. /\ in_flight # None
      /\ IF Completes(await, f.code)
         THEN advance_queue(ended \o InternalRequests(again),
                            pending_queue \o NextIds(again),
                            CacheResponse(cached, f))
         ELSE UNCHANGED <<log, pending_queue, in_flight, toRadio>>
  BY Zenon DEF RouteReply
<1>2. log \in Seq(Request) /\ Len(log) \in Nat /\ in_flight \in 1 .. Len(log)
      /\ Book(log, pending_queue, in_flight)
  BY <1>1 DEF IInv, TypeOK, Ids
<1>3. again \in Seq(Command)
  <2>1. req \in Request BY <1>2
  <2>2. req.cmd \in Command BY <2>1 DEF Request
  <2> QED BY <2>2, RefreshType
<1>4. Outcome(f.code) \in Outcomes BY DEF Outcome, Outcomes
<1>5. (Outcome(f.code) = "accepted" => f.code # Error) /\ (Outcome(f.code) = "rejected" => f.code = Error)
      /\ Outcome(f.code) # "failed" /\ Outcome(f.code) # "dropped"
  BY DEF Outcome
<1> DEFINE o == Outcome(f.code)
<1> HIDE DEF f
<1>6. /\ ended \in Seq(Request) /\ Len(ended) = Len(log)
      /\ \A i \in 1 .. Len(log) :
           /\ ended[i].outcome = IF i \in {in_flight} THEN o ELSE log[i].outcome
           /\ ended[i].client = log[i].client
           /\ ended[i].cmd = log[i].cmd
           /\ ended[i].verdict = log[i].verdict
  BY <1>2, <1>4, SettleFacts
<1> HIDE DEF ended, again, await, req, o
<1>7. CASE Completes(await, f.code)
  <2> DEFINE lg == ended \o InternalRequests(again)
             q  == pending_queue \o NextIds(again)
  <2>1. advance_queue(lg, q, CacheResponse(cached, f)) BY <1>1, <1>7
  <2>2. /\ lg \in Seq(Request) /\ Len(lg) = Len(log) + Len(again)
        /\ \A id \in 1 .. Len(log) : lg[id] = ended[id]
        /\ \A id \in 1 .. Len(lg) :
             id > Len(log) => lg[id].verdict = "none" /\ lg[id].outcome = "open"
        /\ q \in Seq(1 .. Len(lg))
        /\ \A i \in 1 .. Len(q) : Waited(q[i])
    BY <1>3, <1>6, InternalFacts
  <2> HIDE DEF lg, q
  <2>3. Len(again) \in Nat BY <1>3
  <2>4. Len(log) <= Len(lg) BY <1>2, <2>2, <2>3
  <2>5. \A id \in 1 .. Len(log) :
          /\ lg[id].client = log[id].client
          /\ lg[id].cmd = log[id].cmd
          /\ lg[id].verdict = log[id].verdict
          /\ lg[id].outcome = log[id].outcome \/ id \in {in_flight} \/ lg[id].outcome = "failed"
    BY <1>6, <2>2
  <2>6. /\ Moves({in_flight})
        /\ \A id \in 1 .. Len(lg) : log'[id].outcome \in {lg[id].outcome, "failed", "dropped"}
    BY <2>1, <2>2, <2>4, <2>5, QueueMoves
  <2>7. in_flight \in 1 .. Len(lg) BY <1>2, <2>4
  <2>8. lg[in_flight].outcome = o BY <1>2, <1>6, <2>2
  <2>9. log'[in_flight].outcome \in {o, "failed", "dropped"} BY <2>6, <2>7, <2>8
  <2>10. in_flight' # in_flight
    <3>1. \/ in_flight' = None
          \/ \E j \in 1 .. Len(q) : in_flight' = q[j]
      BY <2>1, <2>2, AdvanceMoves
    <3>2. \A j \in 1 .. Len(q) : q[j] # in_flight
      <4> TAKE j \in 1 .. Len(q)
      <4>1. Waited(q[j]) BY <2>2
      <4>2. ~(in_flight > Len(log)) BY <1>2
      <4>3. \A i \in 1 .. Len(pending_queue) : pending_queue[i] # in_flight
        <5>1. \A i \in 1 .. Len(pending_queue) : in_flight < pending_queue[i] BY <1>2 DEF Book
        <5>2. in_flight \in Int BY <1>2
        <5> QED BY <5>1, <5>2
      <4> QED BY <4>1, <4>2, <4>3 DEF Waited
    <3> QED BY <1>1, <3>1, <3>2
  <2> QED BY <1>5, <1>7, <2>6, <2>9, <2>10 DEF await, req, f, o
<1>8. CASE ~Completes(await, f.code)
  BY <1>1, <1>8 DEF await, req, f
<1> QED BY <1>7, <1>8

\* A client's command joins the queue, is sent, or fails.
LEMMA ForwardMoves ==
  ASSUME IInv, Forward
  PROVE  /\ Moves({})
         /\ in_flight # None => in_flight' = in_flight /\ toRadio' = toRadio
<1> DEFINE m  == Head(command_rx)
           id == Len(log) + 1
           r  == NewRequest(m.client, m.cmd)
           lg == Append(log, r)
<1>1. \/ /\ in_flight # None
         /\ log' = lg
         /\ pending_queue' = Append(pending_queue, id)
         /\ UNCHANGED <<in_flight, toRadio>>
      \/ /\ in_flight = None
         /\ log' = lg
         /\ in_flight' = id
         /\ toRadio' = Append(toRadio, id)
         /\ UNCHANGED pending_queue
      \/ /\ in_flight = None
         /\ log' = Settle(lg, {id}, "failed")
         /\ UNCHANGED <<pending_queue, in_flight, toRadio>>
  BY Zenon DEF Forward
<1>2. log \in Seq(Request) /\ Len(log) \in Nat /\ pending_queue \in Seq(1 .. Len(log))
      /\ command_rx # << >>
  BY DEF IInv, TypeOK, Ids, Forward, CommandReady
<1>3. r \in Request
  <2>1. command_rx \in Seq([client : channels \cup gone, cmd : Commands])
        /\ channels \subseteq Clients /\ gone \subseteq Clients
    BY DEF IInv, TypeOK
  <2> DEFINE S == [client : channels \cup gone, cmd : Commands]
  <2>2. command_rx \in Seq(S) BY <2>1
  <2> HIDE DEF S
  <2>3. m \in S BY <1>2, <2>2, Shift
  <2>4. m.client \in Clients /\ m.cmd \in Command BY <2>1, <2>3, CommandsAssumption DEF S
  <2> QED BY <2>4 DEF NewRequest, Request
<1>4. r.verdict = "none" /\ r.outcome = "open" BY DEF NewRequest
<1> HIDE DEF r, m
<1>5. /\ lg \in Seq(Request) /\ Len(lg) = Len(log) + 1
      /\ lg[Len(log) + 1] = r
      /\ \A i \in 1 .. Len(log) : lg[i] = log[i]
  BY <1>2, <1>3, AppendRequest
<1> HIDE DEF lg
<1> DEFINE fl == Settle(lg, {id}, "failed")
<1>6. /\ Len(fl) = Len(lg)
      /\ \A i \in 1 .. Len(lg) :
           /\ fl[i].outcome = IF i \in {id} THEN "failed" ELSE lg[i].outcome
           /\ fl[i].client = lg[i].client
           /\ fl[i].cmd = lg[i].cmd
           /\ fl[i].verdict = lg[i].verdict
  <2>1. lg \in Seq(Request) /\ "failed" \in Outcomes BY <1>5 DEF Outcomes
  <2> HIDE DEF id
  <2> QED BY <2>1, SettleFacts
<1> HIDE DEF fl
<1>7. \A i \in 1 .. Len(lg) : i \in 1 .. Len(log) \/ (i = Len(log) + 1 /\ i > Len(log))
  BY <1>2, <1>5
<1>8. \A i \in 1 .. Len(log) : ~(i > Len(log)) /\ i <= Len(log) /\ i # id /\ i \in 1 .. Len(lg)
  BY <1>2, <1>5
<1>9. /\ Len(log) <= Len(log')
      /\ \A i \in 1 .. Len(log) :
           /\ log'[i].client = log[i].client
           /\ log'[i].cmd = log[i].cmd
           /\ log'[i].verdict = log[i].verdict
      /\ \A i \in 1 .. Len(log') : i > Len(log) => log'[i].verdict = "none"
      /\ \A i \in 1 .. Len(log') :
           log'[i].outcome \in {"accepted", "rejected"} =>
             i <= Len(log) /\ log'[i].outcome = log[i].outcome
  <2>1. Len(log) <= Len(lg) BY <1>2, <1>5
  <2>2. CASE log' = lg BY <1>4, <1>5, <1>7, <1>8, <2>1, <2>2
  <2>3. CASE log' = fl BY <1>4, <1>5, <1>6, <1>7, <1>8, <2>1, <2>3
  <2> QED BY <1>1, <2>2, <2>3 DEF fl
<1>10. Waited(id) /\ \A i \in 1 .. Len(pending_queue) : Waited(pending_queue[i])
  BY <1>2 DEF Waited
<1>11. \A i \in 1 .. Len(pending_queue') : Waited(pending_queue'[i])
  <2>1. CASE pending_queue' = pending_queue BY <1>10, <2>1
  <2>2. CASE pending_queue' = Append(pending_queue, id)
    <3> HIDE DEF id
    <3>1. Len(pending_queue) \in Nat /\ Len(pending_queue') = Len(pending_queue) + 1
          /\ \A i \in 1 .. Len(pending_queue') :
               pending_queue'[i] = IF i <= Len(pending_queue) THEN pending_queue[i] ELSE id
      BY <1>2, <2>2
    <3> QED BY <1>10, <3>1
  <2> QED BY <1>1, <2>1, <2>2
<1>12. \/ toRadio' = toRadio /\ in_flight' \in {in_flight, None}
       \/ toRadio' = Append(toRadio, in_flight') /\ Waited(in_flight')
  BY <1>1, <1>10
<1>13. Moves({}) BY <1>9, <1>11, <1>12 DEF Moves
<1> QED BY <1>1, <1>13

\* The ranges of the request numbers that are about.
Ranges ==
  /\ Len(log) \in Nat /\ Len(pending_queue) \in Nat
  /\ Len(toRadio) \in Nat /\ Len(fromRadio) \in Nat
  /\ \A i \in 1 .. Len(pending_queue) : pending_queue[i] \in 1 .. Len(log)
  /\ \A i \in 1 .. Len(toRadio) : toRadio[i] \in 1 .. Len(log)
  /\ \A i \in 1 .. Len(fromRadio) :
       fromRadio[i].re \in 0 .. Len(log) /\ fromRadio[i].code \in Byte
  /\ iter.req \in 0 .. Len(log)
  /\ in_flight \in 0 .. Len(log)

\* They follow from the types, ...
LEMMA RangesHold == IInv => Ranges
<1> SUFFICES ASSUME IInv PROVE Ranges
  OBVIOUS
<1>1. /\ log \in Seq(Request) /\ pending_queue \in Seq(1 .. Len(log))
      /\ toRadio \in Seq(1 .. Len(log)) /\ fromRadio \in Seq(Frame(Len(log)))
      /\ iter \in [req : {None} \cup 1 .. Len(log), left : Nat]
      /\ in_flight \in {None} \cup 1 .. Len(log)
  BY DEF IInv, TypeOK, Ids
<1>2. Len(log) \in Nat BY <1>1
<1> DEFINE n == Len(log)
<1>3. /\ n \in Nat /\ pending_queue \in Seq(1 .. n)
      /\ toRadio \in Seq(1 .. n) /\ fromRadio \in Seq(Frame(n))
      /\ iter.req \in {None} \cup 1 .. n
      /\ in_flight \in {None} \cup 1 .. n
  BY <1>1, <1>2
<1> HIDE DEF n
<1>4. {None} \cup 1 .. n = 0 .. n BY <1>3 DEF None
<1>5. \A i \in 1 .. Len(fromRadio) : fromRadio[i] \in Frame(n) BY <1>3
<1>6. \A f \in Frame(n) : f.re \in 0 .. n /\ f.code \in Byte BY DEF Frame
<1>7. Len(pending_queue) \in Nat /\ Len(toRadio) \in Nat /\ Len(fromRadio) \in Nat
      /\ (\A i \in 1 .. Len(pending_queue) : pending_queue[i] \in 1 .. n)
      /\ (\A i \in 1 .. Len(toRadio) : toRadio[i] \in 1 .. n)
  BY <1>3
<1> QED BY <1>3, <1>4, <1>5, <1>6, <1>7 DEF Ranges, n

\* ... before and after a step.
LEMMA RangesHoldNext == IInv' => Ranges'
BY RangesHold, PTL

\* What is left of the radio's frames: some may have been taken from the front,
\* some at the end be lost.
Shifted(n) ==
  \A i \in 1 .. Len(fromRadio') : i + n \in 1 .. Len(fromRadio) /\ fromRadio'[i] = fromRadio[i + n]

\* A request that is about to wait or to be sent is unheard of.
LEMMA WaitedFresh ==
  ASSUME Ranges, SentInv, NEW ends, Moves(ends), NEW id \in 1 .. Len(log'), Waited(id)
  PROVE  /\ log'[id].verdict = "none"
         /\ iter.req # id
         /\ \A i \in 1 .. Len(fromRadio) : IsReply(fromRadio[i]) => fromRadio[i].re # id
         /\ \A i \in 1 .. Len(toRadio) : toRadio[i] # id
<1>1. CASE id > Len(log)
  <2>1. log'[id].verdict = "none" BY <1>1 DEF Moves
  <2>2. \A x \in 0 .. Len(log) : x # id BY <1>1 DEF Ranges
  <2>3. \A x \in 1 .. Len(log) : x # id BY <1>1 DEF Ranges
  <2> QED BY <2>1, <2>2, <2>3 DEF Ranges
<1>2. CASE \E j \in 1 .. Len(pending_queue) : pending_queue[j] = id
  <2>1. PICK j \in 1 .. Len(pending_queue) : pending_queue[j] = id BY <1>2
  <2>2. id \in 1 .. Len(log) BY <2>1 DEF Ranges
  <2>3. Unanswered(id) /\ \A i \in 1 .. Len(toRadio) : toRadio[i] # id BY <2>1 DEF SentInv
  <2>4. log'[id].verdict = "none" BY <2>2, <2>3 DEF Moves, Unanswered
  <2> QED BY <2>3, <2>4 DEF Unanswered
<1> QED BY <1>1, <1>2 DEF Waited

\* What the core does leaves the radio's books in order.
LEMMA CoreRadio ==
  ASSUME IInv, IInv', RadioInv, NEW ends, Moves(ends), NEW n \in Nat, Shifted(n), iter' = iter
  PROVE  RadioInv'
<1>1. Ranges /\ Ranges' BY RangesHold, RangesHoldNext
<1>2. SentInv /\ DecidedInv /\ LastInv BY DEF RadioInv
<1>3. /\ Len(log) <= Len(log')
      /\ \A id \in 1 .. Len(log) :
           log'[id].cmd = log[id].cmd /\ log'[id].verdict = log[id].verdict
      /\ \A i \in 1 .. Len(pending_queue') : Waited(pending_queue'[i])
      /\ \/ toRadio' = toRadio
         \/ toRadio' = Append(toRadio, in_flight') /\ Waited(in_flight')
  BY DEF Moves
<1>4. \A id \in 1 .. Len(log') : Waited(id) =>
        /\ log'[id].verdict = "none"
        /\ iter'.req # id
        /\ \A i \in 1 .. Len(fromRadio') : IsReply(fromRadio'[i]) => fromRadio'[i].re # id
        /\ \A i \in 1 .. Len(toRadio) : toRadio[i] # id
  BY <1>1, <1>2, WaitedFresh DEF Shifted
<1>5. \A id \in 1 .. Len(log) : Unanswered(id) =>
        /\ log'[id].verdict = "none"
        /\ iter'.req # id
        /\ \A i \in 1 .. Len(fromRadio') : IsReply(fromRadio'[i]) => fromRadio'[i].re # id
  BY <1>3 DEF Unanswered, Shifted
<1>6. \A i \in 1 .. Len(toRadio') :
        \/ i \in 1 .. Len(toRadio) /\ toRadio'[i] = toRadio[i]
        \/ /\ i = Len(toRadio) + 1 /\ toRadio'[i] = in_flight' /\ Waited(in_flight')
           /\ in_flight' \in 1 .. Len(log')
  <2>1. CASE toRadio' = toRadio BY <2>1
  <2>2. CASE toRadio' = Append(toRadio, in_flight') /\ Waited(in_flight')
    <3>1. toRadio \in Seq(1 .. Len(log)) BY DEF IInv, TypeOK, Ids
    <3> DEFINE t == in_flight'
               S == 1 .. Len(log)
    <3>2. toRadio \in Seq(S) /\ toRadio' = Append(toRadio, t) BY <2>2, <3>1
    <3> HIDE DEF t, S
    <3>3. /\ Len(toRadio) \in Nat /\ Len(toRadio') = Len(toRadio) + 1
          /\ toRadio'[Len(toRadio) + 1] = t
          /\ \A i \in 1 .. Len(toRadio) : toRadio'[i] = toRadio[i]
      BY <3>2
    <3>4. t \in 1 .. Len(log')
      <4>1. Len(toRadio) + 1 \in 1 .. Len(toRadio') BY <3>3
      <4>2. toRadio'[Len(toRadio) + 1] \in 1 .. Len(log') BY <1>1, <4>1 DEF Ranges
      <4> QED BY <3>3, <4>2
    <3>5. \A i \in 1 .. Len(toRadio') : i \in 1 .. Len(toRadio) \/ i = Len(toRadio) + 1 BY <3>3
    <3> QED BY <2>2, <3>3, <3>4, <3>5 DEF t
  <2> QED BY <1>3, <2>1, <2>2
<1>7. \A i \in 1 .. Len(pending_queue') :
        pending_queue'[i] \in 1 .. Len(log') /\ pending_queue'[i] # in_flight'
  <2>1. \A i \in 1 .. Len(pending_queue') : in_flight' < pending_queue'[i] BY DEF IInv, Book
  <2>2. \A i \in 1 .. Len(pending_queue') : pending_queue'[i] \in Int BY <1>1 DEF Ranges
  <2>3. in_flight' \in Int BY <1>1 DEF Ranges
  <2>4. \A i \in 1 .. Len(pending_queue') : pending_queue'[i] # in_flight' BY <2>1, <2>2, <2>3
  <2> QED BY <1>1, <2>4 DEF Ranges
<1>8. SentInv'
  <2>1. \A i \in 1 .. Len(pending_queue') :
          /\ Unanswered(pending_queue[i])'
          /\ \A j \in 1 .. Len(toRadio') : toRadio'[j] # pending_queue'[i]
    <3> TAKE i \in 1 .. Len(pending_queue')
    <3>1. Waited(pending_queue'[i]) /\ pending_queue'[i] \in 1 .. Len(log')
          /\ pending_queue'[i] # in_flight'
      BY <1>3, <1>7
    <3>2. Unanswered(pending_queue[i])' BY <1>4, <3>1 DEF Unanswered
    <3>3. \A j \in 1 .. Len(toRadio') : toRadio'[j] # pending_queue'[i]
      BY <1>4, <1>6, <3>1
    <3> QED BY <3>2, <3>3
  <2>2. \A i \in 1 .. Len(toRadio') : Unanswered(toRadio[i])'
    <3> TAKE i \in 1 .. Len(toRadio')
    <3>1. CASE i \in 1 .. Len(toRadio) /\ toRadio'[i] = toRadio[i]
      <4>1. toRadio[i] \in 1 .. Len(log) /\ Unanswered(toRadio[i])
        BY <1>1, <1>2, <3>1 DEF Ranges, SentInv
      <4> QED BY <1>5, <3>1, <4>1 DEF Unanswered
    <3>2. CASE /\ i = Len(toRadio) + 1 /\ toRadio'[i] = in_flight' /\ Waited(in_flight')
               /\ in_flight' \in 1 .. Len(log')
      BY <1>4, <3>2 DEF Unanswered
    <3> QED BY <1>6, <3>1, <3>2
  <2>3. \A i, j \in 1 .. Len(toRadio') : i # j => toRadio'[i] # toRadio'[j]
    <3> TAKE i, j \in 1 .. Len(toRadio')
    <3>1. CASE i \in 1 .. Len(toRadio) /\ j \in 1 .. Len(toRadio)
      <4>1. i # Len(toRadio) + 1 /\ j # Len(toRadio) + 1 BY <1>1, <3>1 DEF Ranges
      <4>2. toRadio'[i] = toRadio[i] /\ toRadio'[j] = toRadio[j] BY <1>6, <3>1, <4>1
      <4> QED BY <1>2, <3>1, <4>2 DEF SentInv
    <3>2. CASE ~(i \in 1 .. Len(toRadio)) /\ j \in 1 .. Len(toRadio)
      <4>1. j # Len(toRadio) + 1 BY <1>1, <3>2 DEF Ranges
      <4>2. toRadio'[j] = toRadio[j] BY <1>6, <3>2, <4>1
      <4> QED BY <1>4, <1>6, <3>2, <4>2
    <3>3. CASE i \in 1 .. Len(toRadio) /\ ~(j \in 1 .. Len(toRadio))
      <4>1. i # Len(toRadio) + 1 BY <1>1, <3>3 DEF Ranges
      <4>2. toRadio'[i] = toRadio[i] BY <1>6, <3>3, <4>1
      <4> QED BY <1>4, <1>6, <3>3, <4>2
    <3>4. CASE ~(i \in 1 .. Len(toRadio)) /\ ~(j \in 1 .. Len(toRadio))
      BY <1>6, <3>4
    <3> QED BY <3>1, <3>2, <3>3, <3>4
  <2> QED BY <2>1, <2>2, <2>3 DEF SentInv
<1>9. \A i \in 1 .. Len(fromRadio') :
        Final(fromRadio[i])' <=> Final(fromRadio[i + n])
  <2> TAKE i \in 1 .. Len(fromRadio')
  <2> DEFINE f == fromRadio[i + n]
  <2>1. i + n \in 1 .. Len(fromRadio) /\ fromRadio'[i] = f BY DEF Shifted
  <2>2. f.re \in 0 .. Len(log) BY <1>1, <2>1 DEF Ranges
  <2> HIDE DEF f
  <2>3. f.re # None => f.re \in 1 .. Len(log) BY <1>1, <2>2 DEF Ranges, None
  <2>4. f.re # None => log'[f.re].cmd = log[f.re].cmd BY <1>3, <2>3
  <2> QED BY <2>1, <2>4, Zenon DEF Final, IsReply, f
<1>10. DecidedInv'
  <2>1. iter'.req # None => log'[iter'.req].verdict = "none" /\ log'[iter'.req].cmd.code = GetContacts
    <3>1. iter.req # None => iter.req \in 1 .. Len(log) BY <1>1 DEF Ranges, None
    <3> QED BY <1>2, <1>3, <3>1 DEF DecidedInv
  <2>2. \A i \in 1 .. Len(fromRadio') :
          Final(fromRadio[i])' => log'[fromRadio'[i].re].verdict = Verdict(fromRadio'[i].code)
    <3> SUFFICES ASSUME NEW i \in 1 .. Len(fromRadio'), Final(fromRadio[i])'
                 PROVE  log'[fromRadio'[i].re].verdict = Verdict(fromRadio'[i].code)
      OBVIOUS
    <3>1. i + n \in 1 .. Len(fromRadio) /\ fromRadio'[i] = fromRadio[i + n] BY DEF Shifted
    <3>2. Final(fromRadio[i + n]) BY <1>9
    <3>3. log[fromRadio[i + n].re].verdict = Verdict(fromRadio[i + n].code)
      BY <1>2, <3>1, <3>2 DEF DecidedInv
    <3>4. fromRadio[i + n].re # None BY <3>2 DEF Final, IsReply
    <3>5. fromRadio[i + n].re \in 1 .. Len(log) BY <1>1, <3>1, <3>4 DEF Ranges, None
    <3> QED BY <1>3, <3>1, <3>3, <3>5
  <2> QED BY <2>1, <2>2 DEF DecidedInv
<1>11. LastInv'
  <2> SUFFICES ASSUME NEW i \in 1 .. Len(fromRadio'), NEW j \in 1 .. Len(fromRadio'),
                      i < j, Final(fromRadio[i])', IsReply(fromRadio'[j])
               PROVE  fromRadio'[j].re # fromRadio'[i].re
    BY DEF LastInv, IsReply
  <2>1. /\ i + n \in 1 .. Len(fromRadio) /\ fromRadio'[i] = fromRadio[i + n]
        /\ j + n \in 1 .. Len(fromRadio) /\ fromRadio'[j] = fromRadio[j + n]
    BY DEF Shifted
  <2>2. i + n < j + n BY <1>1 DEF Ranges
  <2>3. Final(fromRadio[i + n]) BY <1>9
  <2>4. IsReply(fromRadio[j + n]) BY <2>1
  <2> QED BY <1>2, <2>1, <2>2, <2>3, <2>4 DEF LastInv
<1> QED BY <1>8, <1>10, <1>11 DEF RadioInv

\* What a command other than GET_CONTACTS waits for: never an ERROR as such,
\* and of the push events only TELEMETRY_RESPONSE.
LEMMA AwaitCodes ==
  ASSUME NEW cmd \in Command, cmd.code # GetContacts
  PROVE  /\ awaiting_for(cmd).kind \in {"Any", "OneOf"}
         /\ \A x \in awaiting_for(cmd).codes : x # Error /\ (x < 128 \/ x = TelemetryResponse)
<1> DEFINE Q == {q[2] : q \in {r \in Queries : r[1] = cmd.code}}
<1>1. \A x \in Q : x # Error /\ x < 128
  BY DEF Queries, AppStart, GetBattery, DeviceQuery, GetContactByKey, GetChannel,
         SelfInfo, Battery, DeviceInfo, Contact, ChannelInfo, Error
<1> HIDE DEF Q
<1>2. awaiting_for(cmd) \in
        {OneOf({MsgSent}), OneOf({TelemetryResponse}),
         OneOf({ContactMsgRecv, ChannelMsgRecv, ContactMsgRecvV3,
                ChannelMsgRecvV3, ChannelDataRecv, NoMoreMsgs}),
         OneOf({14, 15}), OneOf({Ok, 15}), OneOf({Ok}), OneOf(Q), AnyReply}
  BY DEF awaiting_for, Q
<1> QED
  BY <1>1, <1>2 DEF OneOf, AnyReply, MsgSent, TelemetryResponse, ContactMsgRecv, Error,
     ChannelMsgRecv, ContactMsgRecvV3, ChannelMsgRecvV3, ChannelDataRecv, NoMoreMsgs, Ok

\* GET_CONTACTS waits for a stream of frames.
LEMMA AwaitContacts ==
  ASSUME NEW cmd, cmd.code = GetContacts
  PROVE  awaiting_for(cmd) = Stream({ContactStart, Contact}, ContactEnd)
BY DEF awaiting_for, GetContacts, SentCommands, SendMsg, GetTelemetry, GetMsg, OkCommands,
       SendChanMsg, SetName, UpdateContact, SetRadio, SetTxPower, ResetPath, SetCoords,
       RemoveContact, ImportContact, SetTuning, SetChannel, SetDevicePin, SetOtherParams,
       FactoryReset, AppStart, GetBattery, DeviceQuery, GetContactByKey, GetChannel, Queries

\* Of the push events only TELEMETRY_RESPONSE can answer a command.
LEMMA BelongsPush ==
  ASSUME NEW cmd \in Command, NEW code \in Byte, Belongs(awaiting_for(cmd), code),
         is_push_event(code)
  PROVE  code = TelemetryResponse
<1> DEFINE a == awaiting_for(cmd)
<1>1. code # Error /\ code >= 128 /\ ~(code < 128) BY DEF is_push_event, Error, Byte
<1>2. CASE cmd.code = GetContacts
  <2>1. a = Stream({ContactStart, Contact}, ContactEnd) BY <1>2, AwaitContacts
  <2>2. code \in {Error, ContactEnd} \cup {ContactStart, Contact} BY <2>1 DEF Belongs, Stream
  <2> QED BY <1>1, <2>2 DEF Error, ContactEnd, ContactStart, Contact
<1>3. CASE cmd.code # GetContacts
  <2>1. /\ a.kind \in {"Any", "OneOf"}
        /\ \A x \in a.codes : x # Error /\ (x < 128 \/ x = TelemetryResponse)
    BY <1>3, AwaitCodes
  <2> HIDE DEF a
  <2>2. a.kind = "Any" => ~is_push_event(code) BY DEF a, Belongs
  <2>3. a.kind = "OneOf" => code = Error \/ code \in a.codes BY DEF a, Belongs
  <2> QED BY <1>1, <2>1, <2>2, <2>3
<1> QED BY <1>2, <1>3

\* What the radio answers is never the code of a refusal.
LEMMA ReplyNotError ==
  ASSUME NEW cmd \in Command, cmd.code # GetContacts, NEW code \in ReplyCodes(cmd)
  PROVE  code # Error /\ Completes(awaiting_for(cmd), code)
<1>1. /\ awaiting_for(cmd).kind \in {"Any", "OneOf"}
      /\ \A x \in awaiting_for(cmd).codes : x # Error
  BY AwaitCodes
<1>2. code \in {Ok, ContactMsgRecvV3, NoMoreMsgs} \/ code \in awaiting_for(cmd).codes
  BY DEF ReplyCodes
<1>3. code # Error BY <1>1, <1>2 DEF Ok, ContactMsgRecvV3, NoMoreMsgs, Error
<1> QED BY <1>1, <1>3 DEF Completes

\* A contact iteration ends with CONTACT_END or with ERROR.
LEMMA ContactsComplete ==
  ASSUME NEW cmd, cmd.code = GetContacts, NEW code
  PROVE  Completes(awaiting_for(cmd), code) <=> code \in {Error, ContactEnd}
BY AwaitContacts DEF Completes, Stream

\* Nothing is on its way to or from the radio, in the frames from n + 1 on.
Quiet(n) ==
  /\ Len(toRadio) = 0
  /\ iter.req = None
  /\ \A i \in 1 .. Len(fromRadio) : n < i => ~IsReply(fromRadio[i])

\* With a free slot, the radio has nothing to do.
LEMMA FreeIsQuiet ==
  ASSUME Ranges, Serial, link # "down", ~abandoned, in_flight = None
  PROVE  Quiet(0)
<1>1. /\ \A i \in 1 .. Len(toRadio) : toRadio[i] = None
      /\ iter.req = None
      /\ \A i \in 1 .. Len(fromRadio) : IsReply(fromRadio[i]) => fromRadio[i].re = None
  BY DEF Serial
<1>2. \A i \in 1 .. Len(toRadio) : toRadio[i] # None BY DEF Ranges, None
<1>3. Len(toRadio) \in Nat /\ ~(1 \in 1 .. Len(toRadio)) BY <1>1, <1>2 DEF Ranges
<1>4. Len(toRadio) = 0 BY <1>3
<1> QED BY <1>1, <1>4 DEF Quiet, IsReply

\* When the request in flight gets the frame that ends it, nothing else is
\* left of it.
LEMMA EndIsQuiet ==
  ASSUME Ranges, Serial, RadioInv, link # "down", ~abandoned, in_flight # None,
         1 \in 1 .. Len(fromRadio), Final(fromRadio[1]), fromRadio[1].re = in_flight
  PROVE  Quiet(1)
<1>1. log[in_flight].verdict # "none"
  <2>1. log[in_flight].verdict = Verdict(fromRadio[1].code) BY DEF RadioInv, DecidedInv
  <2> QED BY <2>1 DEF Verdict
<1>2. \A i \in 1 .. Len(toRadio) : toRadio[i] # in_flight
  BY <1>1 DEF RadioInv, SentInv, Unanswered
<1>3. iter.req # in_flight BY <1>1 DEF RadioInv, DecidedInv
<1>4. \A i \in 1 .. Len(fromRadio) : 1 < i /\ IsReply(fromRadio[i]) => fromRadio[i].re # in_flight
  BY DEF RadioInv, LastInv
<1>5. /\ \A i \in 1 .. Len(toRadio) : toRadio[i] = in_flight
      /\ iter.req \in {None, in_flight}
      /\ \A i \in 1 .. Len(fromRadio) : IsReply(fromRadio[i]) => fromRadio[i].re = in_flight
  BY DEF Serial
<1>6. Len(toRadio) \in Nat /\ ~(1 \in 1 .. Len(toRadio)) BY <1>2, <1>5 DEF Ranges
<1>7. Len(toRadio) = 0 BY <1>6
<1> QED BY <1>3, <1>4, <1>5, <1>7 DEF Quiet

\* The radio stays serialized when the core sends nothing, ...
LEMMA SerialStays ==
  ASSUME Serial, NEW n \in Nat, Shifted(n), UNCHANGED <<link, abandoned, in_flight, toRadio, iter>>
  PROVE  Serial'
<1> SUFFICES ASSUME link' # "down", ~abandoned'
             PROVE  /\ \A i \in 1 .. Len(toRadio') : toRadio'[i] = in_flight'
                    /\ iter'.req \in {None, in_flight'}
                    /\ \A i \in 1 .. Len(fromRadio') : IsReply(fromRadio'[i]) => fromRadio'[i].re = in_flight'
  BY Zenon DEF Serial, IsReply
<1>1. link # "down" /\ ~abandoned BY Zenon
<1>2. /\ \A i \in 1 .. Len(toRadio) : toRadio[i] = in_flight
      /\ iter.req \in {None, in_flight}
      /\ \A i \in 1 .. Len(fromRadio) : IsReply(fromRadio[i]) => fromRadio[i].re = in_flight
  BY <1>1 DEF Serial
<1> QED BY <1>2 DEF Shifted

\* ... and when it sends to a quiet radio.
LEMMA SerialSends ==
  ASSUME IInv, NEW n \in Nat, Quiet(n), Shifted(n), NEW ends, Moves(ends), iter' = iter
  PROVE  Serial'
<1>1. Ranges BY RangesHold
<1>2. \A i \in 1 .. Len(toRadio') : toRadio'[i] = in_flight'
  <2>1. CASE toRadio' = toRadio BY <2>1 DEF Quiet
  <2>2. CASE toRadio' = Append(toRadio, in_flight')
    <3>1. toRadio \in Seq(1 .. Len(log)) /\ Len(toRadio) = 0 BY DEF IInv, TypeOK, Ids, Quiet
    <3> DEFINE t == in_flight'
               S == 1 .. Len(log)
    <3>2. toRadio \in Seq(S) /\ toRadio' = Append(toRadio, t) BY <2>2, <3>1
    <3> HIDE DEF t, S
    <3>3. Len(toRadio') = 1 /\ toRadio'[1] = t BY <3>1, <3>2
    <3> QED BY <3>3 DEF t
  <2> QED BY <2>1, <2>2 DEF Moves
<1>3. \A i \in 1 .. Len(fromRadio') : ~IsReply(fromRadio'[i])
  <2> TAKE i \in 1 .. Len(fromRadio')
  <2>1. i + n \in 1 .. Len(fromRadio) /\ fromRadio'[i] = fromRadio[i + n] BY DEF Shifted
  <2>2. n < i + n BY <2>1
  <2> QED BY <2>1, <2>2 DEF Quiet
<1>4. iter'.req = None BY DEF Quiet
<1> QED BY <1>2, <1>3, <1>4 DEF Serial, IsReply

\* A free slot is taken by the request sent; a taken one waits.
LEMMA SerialEnqueues ==
  ASSUME IInv, Serial, NEW n \in Nat, Shifted(n), Moves({}), iter' = iter,
         in_flight # None => in_flight' = in_flight /\ toRadio' = toRadio,
         UNCHANGED <<link, abandoned>>
  PROVE  Serial'
<1>1. CASE in_flight # None
  BY <1>1, SerialStays
<1>2. CASE in_flight = None /\ link # "down" /\ ~abandoned
  <2>1. Quiet(0) BY <1>2, FreeIsQuiet, RangesHold
  <2>2. Quiet(n)
    <3>1. \A i \in 1 .. Len(fromRadio) : 0 < i BY RangesHold DEF Ranges
    <3> QED BY <2>1, <3>1 DEF Quiet
  <2> QED BY <2>2, SerialSends
<1>3. CASE link = "down" \/ abandoned
  <2>1. ~(link' # "down" /\ ~abandoned') BY <1>3, Zenon
  <2> QED BY <2>1, Zenon DEF Serial
<1> QED BY <1>1, <1>2, <1>3

\* The outcomes stay honest when the requests ended in this step are.
LEMMA HonestStays ==
  ASSUME IInv, HonestOutcome, NEW ends, Moves(ends), misrouted \subseteq misrouted',
         \A id \in ends \cap Ids : (\A m \in misrouted' : m.req # id) =>
           /\ log'[id].outcome = "accepted" => log[id].verdict = "ok"
           /\ log'[id].outcome = "rejected" => log[id].verdict = "error"
  PROVE  HonestOutcome'
<1> SUFFICES ASSUME NEW id \in 1 .. Len(log'), \A m \in misrouted' : m.req # id,
                    log'[id].outcome \in {"accepted", "rejected"}
             PROVE  /\ log'[id].outcome = "accepted" => log'[id].verdict = "ok"
                    /\ log'[id].outcome = "rejected" => log'[id].verdict = "error"
  BY DEF HonestOutcome, Ids
<1>1. id <= Len(log) /\ (log'[id].outcome = log[id].outcome \/ id \in ends) BY DEF Moves
<1>2. id \in 1 .. Len(log) BY <1>1, RangesHold DEF Ranges
<1>3. log'[id].verdict = log[id].verdict BY <1>2 DEF Moves
<1>4. \A m \in misrouted : m.req # id OBVIOUS
<1>5. CASE log'[id].outcome = log[id].outcome
  BY <1>2, <1>3, <1>4, <1>5 DEF HonestOutcome, Ids
<1>6. CASE id \in ends
  BY <1>2, <1>3, <1>6 DEF Ids
<1> QED BY <1>1, <1>5, <1>6

\* The tags stay under the sender when none is added.
LEMMA AcksStay ==
  ASSUME IInv, AckInv, NEW ends, Moves(ends), misrouted \subseteq misrouted',
         pending_acks' \cup acked' \subseteq pending_acks \cup acked
  PROVE  AckInv'
<1> SUFFICES ASSUME misrouted' = {}, NEW e \in pending_acks' \cup acked'
             PROVE  log'[e.ack].client = e.client
  BY DEF AckInv
<1>1. e \in pending_acks \cup acked /\ misrouted = {} OBVIOUS
<1>2. e.ack \in 1 .. Len(log) BY <1>1 DEF IInv, TypeOK, Ids
<1>3. log[e.ack].client = e.client BY <1>1 DEF AckInv
<1> QED BY <1>2, <1>3 DEF Moves

\* A step that leaves the requests alone moves nothing.
LEMMA IdleMoves ==
  ASSUME IInv, UNCHANGED <<log, pending_queue, in_flight, toRadio>>
  PROVE  Moves({})
<1>1. Ranges BY RangesHold
<1>2. \A id \in 1 .. Len(log) : id <= Len(log) /\ ~(id > Len(log)) BY <1>1 DEF Ranges
<1>3. \A i \in 1 .. Len(pending_queue) : Waited(pending_queue[i]) BY DEF Waited
<1>4. Len(log) <= Len(log') BY <1>1 DEF Ranges
<1> QED BY <1>2, <1>3, <1>4 DEF Moves

\* The frames, all of them or from the second on.
LEMMA AllShifted ==
  ASSUME Ranges, UNCHANGED fromRadio
  PROVE  Shifted(0)
BY DEF Shifted, Ranges

\* Taking the first frame moves the others up by one.
LEMMA TailShifted ==
  ASSUME IInv, fromRadio # << >>, fromRadio' = Tail(fromRadio)
  PROVE  /\ Shifted(1)
         /\ 1 \in 1 .. Len(fromRadio) /\ Head(fromRadio) = fromRadio[1]
<1> DEFINE S == Frame(Len(log))
<1>1. fromRadio \in Seq(S) BY DEF IInv, TypeOK
<1> HIDE DEF S
<1> QED BY <1>1, Shift DEF Shifted

-----------------------------------------------------------------------------
(* The steps of the core and of the clients.                               *)

\* The parts of the invariant besides the books.
Routed == RadioInv /\ Serial /\ AckInv /\ HonestOutcome /\ RightAnswer

\* A step that only adds requests, sends to a free radio, and ends none with
\* an answer.
LEMMA QuietStep ==
  ASSUME IInv, IInv', Routed, Moves({}), NEW n \in Nat, Shifted(n),
         in_flight # None => in_flight' = in_flight /\ toRadio' = toRadio,
         UNCHANGED <<link, abandoned, iter, misrouted>>,
         pending_acks' \cup acked' \subseteq pending_acks \cup acked
  PROVE  Routed'
<1>1. RadioInv' BY CoreRadio DEF Routed
<1>2. Serial' BY SerialEnqueues DEF Routed
<1>3. AckInv' BY AcksStay DEF Routed
<1>4. HonestOutcome' BY HonestStays DEF Routed
<1>5. RightAnswer' BY DEF Routed, RightAnswer
<1> QED BY <1>1, <1>2, <1>3, <1>4, <1>5 DEF Routed

\* AnswerLocally, the clients and stuttering leave all of this alone.
LEMMA IdleStep ==
  ASSUME IInv, IInv', Routed,
         UNCHANGED <<log, pending_queue, in_flight, toRadio, fromRadio, iter, link, abandoned,
                     misrouted, pending_acks, acked>>
  PROVE  Routed'
<1>1. Moves({}) BY IdleMoves
<1>2. Shifted(0) BY AllShifted, RangesHold
<1> QED BY <1>1, <1>2, QuietStep

\* A client's command waits, is sent to a free radio, or fails.
LEMMA ForwardRouted ==
  ASSUME IInv, IInv', Routed, Forward
  PROVE  Routed'
<1>1. /\ Moves({})
      /\ in_flight # None => in_flight' = in_flight /\ toRadio' = toRadio
  BY ForwardMoves
<1>2. UNCHANGED <<link, abandoned, iter, misrouted, fromRadio, pending_acks, acked>>
  BY DEF Forward, ghostVars
<1>3. Shifted(0) BY <1>2, AllShifted, RangesHold
<1> QED BY <1>1, <1>2, <1>3, QuietStep

\* A push of the radio: broadcast, or followed by a request of the core's own.
LEMMA BroadcastRouted ==
  ASSUME IInv, IInv', Routed, BroadcastOrDrop
  PROVE  Routed'
<1>1. /\ fromRadio # << >> /\ fromRadio' = Tail(fromRadio)
      /\ UNCHANGED <<link, abandoned, iter, misrouted, pending_acks, acked>>
  BY DEF BroadcastOrDrop, FrameReady, ghostVars
<1>2. Shifted(1) BY <1>1, TailShifted
<1>3. /\ Moves({})
      /\ in_flight # None => in_flight' = in_flight /\ toRadio' = toRadio
  <2>1. CASE EnqueueInternal(ContactSync(Head(fromRadio).arg))
    <3> DEFINE S == Frame(Len(log))
    <3>1. fromRadio \in Seq(S) BY DEF IInv, TypeOK
    <3> HIDE DEF S
    <3>2. Head(fromRadio) \in S BY <1>1, <3>1
    <3>3. Head(fromRadio).arg \in Args BY <3>2 DEF S, Frame
    <3>4. ContactSync(Head(fromRadio).arg) \in Command
      BY <3>3 DEF ContactSync, Command, Byte, GetContactByKey
    <3> QED BY <2>1, <3>4, EnqueueMoves
  <2>2. CASE UNCHANGED <<log, pending_queue, in_flight, toRadio>>
    BY <2>2, IdleMoves
  <2> QED BY <2>1, <2>2 DEF BroadcastOrDrop
<1> QED BY <1>1, <1>2, <1>3, QuietStep

\* The daily maintenance adds at most one request of the core's own.
LEMMA MaintenanceRouted ==
  ASSUME IInv, IInv', Routed, Maintenance
  PROVE  Routed'
<1>1. UNCHANGED <<link, abandoned, iter, misrouted, fromRadio, pending_acks, acked>>
  BY DEF Maintenance, ghostVars
<1>2. Shifted(0) BY <1>1, AllShifted, RangesHold
<1>3. /\ Moves({})
      /\ in_flight # None => in_flight' = in_flight /\ toRadio' = toRadio
  <2>1. CASE EnqueueInternal(FullSync)
    <3>1. FullSync \in Command
      BY CommandsAssumption DEF FullSync, Command, Byte, GetContacts
    <3> QED BY <2>1, <3>1, EnqueueMoves
  <2>2. CASE UNCHANGED <<log, pending_queue, in_flight, toRadio>>
    BY <2>2, IdleMoves
  <2> QED BY <2>1, <2>2 DEF Maintenance
<1> QED BY <1>1, <1>2, <1>3, QuietStep

\* A request that times out is abandoned: the radio may still answer it.
LEMMA TimeoutRouted ==
  ASSUME IInv, IInv', Routed, Timeout
  PROVE  Routed'
<1>1. /\ abandoned' = TRUE
      /\ UNCHANGED <<link, iter, misrouted, fromRadio, pending_acks, acked>>
  BY DEF Timeout
<1>2. Moves({}) BY TimeoutMoves
<1>3. Shifted(0) BY <1>1, AllShifted, RangesHold
<1>4. RadioInv' BY <1>1, <1>2, <1>3, CoreRadio DEF Routed
<1>5. Serial' BY <1>1, Zenon DEF Serial
<1>6. AckInv' BY <1>1, <1>2, AcksStay DEF Routed
<1>7. HonestOutcome' BY <1>1, <1>2, HonestStays DEF Routed
<1>8. RightAnswer' BY <1>1 DEF Routed, RightAnswer
<1> QED BY <1>4, <1>5, <1>6, <1>7, <1>8 DEF Routed

\* An ACK is routed to the client its tag is stashed under.
LEMMA RouteAckRouted ==
  ASSUME IInv, IInv', Routed, RouteAck
  PROVE  Routed'
<1>1. /\ fromRadio # << >> /\ fromRadio' = Tail(fromRadio)
      /\ UNCHANGED <<link, abandoned, iter, misrouted, log, pending_queue, in_flight, toRadio>>
  BY DEF RouteAck, FrameReady, radioVars
<1>2. Shifted(1) BY <1>1, TailShifted
<1>3. Moves({}) BY <1>1, IdleMoves
<1>4. PICK e \in pending_acks :
        /\ e.ack = Head(fromRadio).re
        /\ pending_acks' = pending_acks \ {e}
        /\ acked' = acked \cup {[ack |-> Head(fromRadio).re, client |-> e.client]}
  BY DEF RouteAck
<1>5. e \in [ack : Ids, client : Clients] BY DEF IInv, TypeOK
<1>6. [ack |-> Head(fromRadio).re, client |-> e.client] = e BY <1>4, <1>5
<1>7. pending_acks' \cup acked' \subseteq pending_acks \cup acked BY <1>4, <1>6
<1> QED BY <1>1, <1>2, <1>3, <1>7, QuietStep

\* The link goes down: no request is answered by it.
LEMMA LoseRadioRouted ==
  ASSUME IInv, IInv', Routed, LoseRadio
  PROVE  Routed'
<1>1. /\ link' = "down" /\ fromRadio = << >> /\ toRadio' = << >> /\ pending_queue' = << >>
      /\ log' = Settle(log, {in_flight} \cup Range(pending_queue), "failed")
      /\ UNCHANGED <<iter, misrouted, fromRadio, pending_acks, acked>>
  BY DEF LoseRadio, LossReady, ghostVars
<1>2. log \in Seq(Request) /\ "failed" \in Outcomes /\ Ranges
  BY RangesHold DEF IInv, TypeOK, Outcomes
<1> DEFINE ids == {in_flight} \cup Range(pending_queue)
<1>3. log' = Settle(log, ids, "failed") BY <1>1
<1> HIDE DEF ids
<1>4. /\ Len(log') = Len(log)
      /\ \A i \in 1 .. Len(log) :
           /\ log'[i].outcome = IF i \in ids THEN "failed" ELSE log[i].outcome
           /\ log'[i].client = log[i].client
           /\ log'[i].cmd = log[i].cmd
           /\ log'[i].verdict = log[i].verdict
  BY <1>2, <1>3, SettleFacts
<1>5. Len(toRadio') = 0 /\ Len(pending_queue') = 0 /\ Len(fromRadio') = 0 BY <1>1
<1>6. RadioInv'
  <2>1. SentInv' BY <1>5 DEF SentInv
  <2>2. LastInv' BY <1>5 DEF LastInv
  <2>3. iter.req # None => iter.req \in 1 .. Len(log) BY <1>2 DEF Ranges, None
  <2>4. iter.req # None => log[iter.req].verdict = "none" /\ log[iter.req].cmd.code = GetContacts
    BY DEF DecidedInv, Routed, RadioInv
  <2>5. iter'.req # None => log'[iter'.req].verdict = "none" /\ log'[iter'.req].cmd.code = GetContacts
    BY <1>1, <1>4, <2>3, <2>4
  <2>6. ~\E i \in 1 .. Len(fromRadio') : TRUE BY <1>5
  <2>7. DecidedInv' BY <2>5, <2>6, Zenon DEF DecidedInv
  <2> QED BY <2>1, <2>2, <2>7 DEF RadioInv
<1>7. Serial' BY <1>1 DEF Serial
<1>8. AckInv'
  <2> SUFFICES ASSUME misrouted' = {}, NEW e \in pending_acks' \cup acked'
               PROVE  log'[e.ack].client = e.client
    BY DEF AckInv
  <2>1. e.ack \in 1 .. Len(log) BY <1>1 DEF IInv, TypeOK, Ids
  <2>2. log[e.ack].client = e.client BY <1>1 DEF Routed, AckInv
  <2> QED BY <1>4, <2>1, <2>2
<1>9. HonestOutcome' BY <1>1, <1>4 DEF HonestOutcome, Ids, Routed
<1>10. RightAnswer' BY <1>1 DEF Routed, RightAnswer
<1> QED BY <1>6, <1>7, <1>8, <1>9, <1>10 DEF Routed

\* A frame is taken as (part of) the answer to the request in flight.
LEMMA RouteReplyRouted ==
  ASSUME IInv, IInv', Routed, RouteReply
  PROVE  Routed'
<1> DEFINE f     == fromRadio[1]
           await == awaiting_for(log[in_flight].cmd)
           ends  == IF Completes(await, f.code) THEN {in_flight} ELSE {}
<1>1. /\ fromRadio # << >> /\ fromRadio' = Tail(fromRadio) /\ in_flight # None
      /\ link # "down"
      /\ UNCHANGED <<link, iter, acked>>
  BY DEF RouteReply, FrameReady
<1>2. Ranges /\ Ranges' BY RangesHold, RangesHoldNext
<1>3. Shifted(1) /\ 1 \in 1 .. Len(fromRadio) /\ Head(fromRadio) = f BY <1>1, TailShifted
<1>4. /\ Belongs(await, f.code)
      /\ StashAck(f, log[in_flight].client)
      /\ misrouted' = IF f.re = in_flight THEN misrouted
                      ELSE misrouted \cup {[req |-> in_flight, re |-> f.re, code |-> f.code,
                                            abandoned |-> abandoned]}
      /\ abandoned' = (abandoned \/ (f.re # in_flight /\ Completes(await, f.code)))
  BY <1>3, Zenon DEF RouteReply
<1>5. /\ f.re \in 0 .. Len(log) /\ f.code \in Byte
      /\ in_flight \in 1 .. Len(log)
  BY <1>1, <1>2, <1>3 DEF Ranges, None
<1>6. log[in_flight].cmd \in Command
  <2>1. log[in_flight] \in Request BY <1>5 DEF IInv, TypeOK
  <2> QED BY <2>1 DEF Request
<1>7. f.re = None => is_push_event(f.code) BY <1>3 DEF IInv, Caused
<1>8. /\ \/ /\ Completes(await, f.code)
            /\ Moves({in_flight})
            /\ log'[in_flight].outcome = "accepted" => f.code # Error
            /\ log'[in_flight].outcome = "rejected" => f.code = Error
         \/ /\ ~Completes(await, f.code)
            /\ UNCHANGED <<log, pending_queue, in_flight, toRadio>>
  BY <1>3, RouteReplyMoves
<1> HIDE DEF f
<1>9. f.code # Ack
  <2>1. is_push_event(f.code) => f.code = TelemetryResponse BY <1>4, <1>5, <1>6, BelongsPush
  <2> QED BY <2>1 DEF is_push_event, Ack, TelemetryResponse
<1>10. f.re = in_flight => IsReply(f) BY <1>1, <1>9 DEF IsReply
<1>11. f.re = in_flight /\ Completes(await, f.code) => Final(f) BY <1>10 DEF Final
<1> HIDE DEF await
<1>12. Moves(ends)
  <2>1. CASE Completes(await, f.code) BY <1>8, <2>1
  <2>2. CASE ~Completes(await, f.code) BY <1>8, <2>2, IdleMoves
  <2> QED BY <2>1, <2>2
<1>13. misrouted \subseteq misrouted' BY <1>4
<1>14. f.re # in_flight =>
         [req |-> in_flight, re |-> f.re, code |-> f.code, abandoned |-> abandoned] \in misrouted'
  BY <1>4
<1>15. RadioInv' BY <1>1, <1>3, <1>12, CoreRadio DEF Routed
<1>16. Serial'
  <2>1. CASE abandoned \/ (f.re # in_flight /\ Completes(await, f.code))
    <3>1. abandoned' BY <1>4, <2>1, Zenon
    <3> QED BY <3>1, Zenon DEF Serial
  <2>2. CASE ~abandoned /\ f.re = in_flight /\ Completes(await, f.code)
    <3>1. Final(fromRadio[1]) /\ fromRadio[1].re = in_flight BY <1>11, <2>2 DEF f
    <3>2. Quiet(1) BY <1>1, <1>2, <1>3, <2>2, <3>1, EndIsQuiet DEF Routed
    <3> QED BY <1>1, <1>3, <1>12, <3>2, SerialSends
  <2>3. CASE ~abandoned /\ ~Completes(await, f.code)
    <3>1. abandoned' = abandoned
      <4>1. abandoned \in BOOLEAN BY DEF IInv, TypeOK
      <4> QED BY <1>4, <2>3, <4>1, Zenon
    <3>2. UNCHANGED <<link, abandoned, in_flight, toRadio, iter>> BY <1>1, <1>8, <2>3, <3>1, Zenon
    <3> QED BY <1>3, <3>2, SerialStays DEF Routed
  <2> QED BY <2>1, <2>2, <2>3, Zenon
<1>17. HonestOutcome'
  <2>1. ASSUME NEW id \in ends \cap Ids, \A m \in misrouted' : m.req # id
        PROVE  /\ log'[id].outcome = "accepted" => log[id].verdict = "ok"
               /\ log'[id].outcome = "rejected" => log[id].verdict = "error"
    <3>1. id = in_flight /\ Completes(await, f.code) BY <2>1
    <3>2. f.re = in_flight BY <1>14, <2>1, <3>1
    <3>3. Final(f) BY <1>11, <3>1, <3>2
    <3>4. log[in_flight].verdict = Verdict(f.code)
      BY <1>3, <3>2, <3>3 DEF f, Routed, RadioInv, DecidedInv
    <3> QED BY <1>8, <3>1, <3>4 DEF Verdict
  <2> HIDE DEF ends
  <2> QED BY <1>12, <1>13, <2>1, HonestStays DEF Routed
<1>18. AckInv'
  <2> SUFFICES ASSUME misrouted' = {}, NEW e \in pending_acks' \cup acked'
               PROVE  log'[e.ack].client = e.client
    BY DEF AckInv
  <2>1. misrouted = {} /\ f.re = in_flight BY <1>13, <1>14
  <2>2. e \in pending_acks \cup acked \/ e = [ack |-> f.re, client |-> log[in_flight].client]
    BY <1>1, <1>4 DEF StashAck
  <2>3. CASE e \in pending_acks \cup acked
    <3>1. e.ack \in 1 .. Len(log) BY <2>3 DEF IInv, TypeOK, Ids
    <3>2. log[e.ack].client = e.client BY <2>1, <2>3 DEF Routed, AckInv
    <3> QED BY <1>12, <3>1, <3>2 DEF Moves
  <2>4. CASE e = [ack |-> f.re, client |-> log[in_flight].client]
    BY <1>5, <1>12, <2>1, <2>4 DEF Moves
  <2> QED BY <2>2, <2>3, <2>4
<1>19. RightAnswer'
  <2>1. ASSUME ~abandoned, f.re # in_flight
        PROVE  f.re = None /\ f.code = TelemetryResponse
    <3>1. IsReply(f) => f.re = in_flight BY <1>1, <1>3, <2>1 DEF f, Routed, Serial
    <3>2. f.re = None BY <1>9, <2>1, <3>1 DEF IsReply
    <3> QED BY <1>4, <1>5, <1>6, <1>7, <3>2, BelongsPush DEF await
  <2>2. \A m \in misrouted : m.abandoned \/ (m.re = None /\ m.code = TelemetryResponse)
    BY DEF Routed, RightAnswer
  <2> DEFINE r == [req |-> in_flight, re |-> f.re, code |-> f.code, abandoned |-> abandoned]
  <2>3. r.abandoned = abandoned /\ r.re = f.re /\ r.code = f.code OBVIOUS
  <2>4. misrouted' = IF f.re = in_flight THEN misrouted ELSE misrouted \cup {r} BY <1>4
  <2> HIDE DEF r
  <2>5. f.re # in_flight => r.abandoned \/ (r.re = None /\ r.code = TelemetryResponse)
    BY <2>1, <2>3, Zenon
  <2> QED BY <2>2, <2>4, <2>5, Zenon DEF RightAnswer
<1> QED BY <1>15, <1>16, <1>17, <1>18, <1>19 DEF Routed

\* A new connection starts with new requests and nothing heard.
LEMMA ReconnectRouted ==
  ASSUME IInv, IInv', Routed, Reconnect
  PROVE  Routed'
<1> DEFINE q  == NextIds(SyncCommands)
           lg == log \o InternalRequests(SyncCommands)
           h  == Head(q)
<1>1. /\ link = "down" /\ writer' \in BOOLEAN
      /\ log' = IF writer' THEN lg ELSE Settle(lg, {h}, "failed")
      /\ in_flight' = IF writer' THEN h ELSE None
      /\ toRadio' = IF writer' THEN <<h>> ELSE << >>
      /\ pending_queue' = Tail(q)
      /\ fromRadio' = << >> /\ iter' = NoIter
      /\ UNCHANGED <<pending_acks, misrouted, acked>>
  BY DEF Reconnect
<1>2. Ranges /\ Ranges' /\ log \in Seq(Request) /\ pending_queue = << >>
  BY <1>1, RangesHold, RangesHoldNext DEF IInv, TypeOK
<1>3. Len(q) = Len(SyncCommands) /\ q \in Seq(Nat) /\ \A i \in 1 .. Len(q) : q[i] > Len(log)
  <2>1. Len(SyncCommands) \in Nat /\ DOMAIN SyncCommands = 1 .. Len(SyncCommands)
    BY SyncType
  <2>2. q = [i \in 1 .. Len(SyncCommands) |-> Len(log) + i]
    BY <2>1 DEF NextIds
  <2>3. q \in [1 .. Len(SyncCommands) -> Nat] BY <1>2, <2>2 DEF Ranges
  <2>4. q \in Seq(Nat) /\ Len(q) = Len(SyncCommands) BY <2>1, <2>3, SeqDef
  <2>5. \A i \in 1 .. Len(SyncCommands) : Len(log) + i > Len(log) BY <1>2 DEF Ranges
  <2> QED BY <2>2, <2>4, <2>5
<1>4. /\ lg \in Seq(Request) /\ Len(lg) = Len(log) + Len(SyncCommands)
      /\ \A id \in 1 .. Len(log) : lg[id] = log[id]
      /\ \A id \in 1 .. Len(lg) :
           id > Len(log) => lg[id].verdict = "none" /\ lg[id].outcome = "open"
  BY <1>2, SyncType, InternalFacts
<1>5. q # << >> BY <1>3, SyncType
<1> HIDE DEF q, lg
<1>6. h > Len(log) /\ \A i \in 1 .. Len(Tail(q)) : Tail(q)[i] > Len(log) BY <1>3, <1>5, Shift
<1> HIDE DEF h
<1> DEFINE st == Settle(lg, {h}, "failed")
<1>7. /\ Len(st) = Len(lg)
      /\ \A i \in 1 .. Len(lg) :
           /\ st[i].outcome = IF i \in {h} THEN "failed" ELSE lg[i].outcome
           /\ st[i].client = lg[i].client
           /\ st[i].cmd = lg[i].cmd
           /\ st[i].verdict = lg[i].verdict
  <2>1. "failed" \in Outcomes BY DEF Outcomes
  <2> QED BY <1>4, <2>1, SettleFacts
<1>8. log' \in {lg, st} BY <1>1
<1> HIDE DEF st
<1>9. /\ Len(log') = Len(log) + Len(SyncCommands)
      /\ \A id \in 1 .. Len(log) : log'[id].client = log[id].client
      /\ \A id \in 1 .. Len(log) : log'[id].verdict = log[id].verdict
      /\ \A id \in 1 .. Len(log) : log'[id].outcome = log[id].outcome
      /\ \A id \in 1 .. Len(log') : id > Len(log) =>
           log'[id].verdict = "none" /\ log'[id].outcome \in {"open", "failed"}
  <2>1. \A id \in 1 .. Len(log) : id \in 1 .. Len(lg)
    BY <1>2, <1>4, SyncType DEF Ranges
  <2>2. \A id \in 1 .. Len(log) : id # h BY <1>2, <1>6 DEF Ranges
  <2>3. CASE log' = lg BY <1>4, <2>3
  <2>4. CASE log' = st BY <1>4, <1>7, <2>1, <2>2, <2>4
  <2> QED BY <1>8, <2>3, <2>4
<1>10. \A id \in 1 .. Len(log') : id <= Len(log) \/ id > Len(log) BY <1>2 DEF Ranges
<1>11. Len(fromRadio') = 0 /\ iter'.req = None BY <1>1 DEF NoIter
<1>12. toRadio' = << >> \/ (toRadio' = <<h>> /\ in_flight' = h) BY <1>1
<1>13. /\ \A i \in 1 .. Len(toRadio') : i = 1 /\ toRadio'[i] = h /\ in_flight' = h
       /\ \A i \in 1 .. Len(toRadio') : toRadio'[i] = in_flight'
  <2>1. CASE toRadio' = << >>
    <3>1. ~\E i \in 1 .. Len(toRadio') : TRUE BY <2>1
    <3> QED BY <3>1, Zenon
  <2>2. CASE toRadio' = <<h>> /\ in_flight' = h BY <2>2
  <2> QED BY <1>12, <2>1, <2>2
<1>14. \A id \in 1 .. Len(log') : id > Len(log) =>
         /\ log'[id].verdict = "none"
         /\ iter'.req # id
         /\ \A i \in 1 .. Len(fromRadio') : IsReply(fromRadio'[i]) => fromRadio'[i].re # id
  <2>1. \A id \in 1 .. Len(log') : id # None BY <1>2 DEF Ranges, None
  <2> QED BY <1>9, <1>11, <2>1
<1>15. RadioInv'
  <2>1. \A i \in 1 .. Len(pending_queue') : Unanswered(pending_queue[i])'
    BY <1>1, <1>2, <1>6, <1>14 DEF Unanswered, Ranges
  <2>2. \A i \in 1 .. Len(toRadio') : Unanswered(toRadio[i])'
    BY <1>2, <1>6, <1>13, <1>14 DEF Unanswered, Ranges
  <2>3. \A i \in 1 .. Len(pending_queue'), j \in 1 .. Len(toRadio') : toRadio'[j] # pending_queue'[i]
    <3>1. \A i \in 1 .. Len(pending_queue') : in_flight' < pending_queue'[i] BY DEF IInv, Book
    <3>2. \A i \in 1 .. Len(pending_queue') : pending_queue'[i] \in Int BY <1>2 DEF Ranges
    <3>3. in_flight' \in Int BY <1>2 DEF Ranges
    <3>4. \A i \in 1 .. Len(pending_queue') : pending_queue'[i] # in_flight' BY <3>1, <3>2, <3>3
    <3> QED BY <1>13, <3>4
  <2>4. \A i, j \in 1 .. Len(toRadio') : i # j => toRadio'[i] # toRadio'[j] BY <1>13
  <2>5. SentInv' BY <2>1, <2>2, <2>3, <2>4 DEF SentInv
  <2>6. ~\E i \in 1 .. Len(fromRadio') : TRUE BY <1>11
  <2>7. DecidedInv' BY <1>11, <2>6, Zenon DEF DecidedInv
  <2>8. LastInv' BY <2>6, Zenon DEF LastInv
  <2> QED BY <2>5, <2>7, <2>8 DEF RadioInv
<1>16. Serial'
  <2>1. ~\E i \in 1 .. Len(fromRadio') : TRUE BY <1>11
  <2> QED BY <1>11, <1>13, <2>1, Zenon DEF Serial
<1>17. AckInv'
  <2> SUFFICES ASSUME misrouted' = {}, NEW e \in pending_acks' \cup acked'
               PROVE  log'[e.ack].client = e.client
    BY DEF AckInv
  <2>1. e.ack \in 1 .. Len(log) BY <1>1 DEF IInv, TypeOK, Ids
  <2>2. log[e.ack].client = e.client BY <1>1 DEF Routed, AckInv
  <2> QED BY <1>9, <2>1, <2>2
<1>18. HonestOutcome'
  <2> SUFFICES ASSUME NEW id \in 1 .. Len(log'), \A m \in misrouted' : m.req # id
               PROVE  /\ log'[id].outcome = "accepted" => log'[id].verdict = "ok"
                      /\ log'[id].outcome = "rejected" => log'[id].verdict = "error"
    BY DEF HonestOutcome, Ids
  <2>1. CASE id > Len(log) BY <1>9, <2>1
  <2>2. CASE id <= Len(log)
    <3>1. id \in 1 .. Len(log) BY <1>2, <2>2 DEF Ranges
    <3>2. \A m \in misrouted : m.req # id BY <1>1
    <3>3. /\ log[id].outcome = "accepted" => log[id].verdict = "ok"
          /\ log[id].outcome = "rejected" => log[id].verdict = "error"
      BY <3>1, <3>2 DEF HonestOutcome, Ids, Routed
    <3> QED BY <1>9, <3>1, <3>3
  <2> QED BY <1>10, <2>1, <2>2
<1>19. RightAnswer' BY <1>1 DEF Routed, RightAnswer
<1> QED BY <1>15, <1>16, <1>17, <1>18, <1>19 DEF Routed

-----------------------------------------------------------------------------
(* The steps of the radio and of its connection.                           *)

\* What is left of the requests the radio has to read.
Unread(m) ==
  \A i \in 1 .. Len(toRadio') : i + m \in 1 .. Len(toRadio) /\ toRadio'[i] = toRadio[i + m]

\* Requests or frames may be lost on the way, on either side.
LEMMA LostRouted ==
  ASSUME IInv, Routed, NEW m \in Nat, Unread(m), Shifted(0), link' # "down" => link # "down",
         UNCHANGED <<log, pending_queue, in_flight, iter, abandoned, misrouted, pending_acks, acked>>
  PROVE  Routed'
<1>1. Ranges BY RangesHold
<1>2. /\ SentInv /\ DecidedInv /\ LastInv BY DEF Routed, RadioInv
<1>3. \A i \in 1 .. Len(fromRadio') : i \in 1 .. Len(fromRadio) /\ fromRadio'[i] = fromRadio[i]
  <2> TAKE i \in 1 .. Len(fromRadio')
  <2>1. i + 0 \in 1 .. Len(fromRadio) /\ fromRadio'[i] = fromRadio[i + 0] BY DEF Shifted
  <2>2. i \in Int OBVIOUS
  <2>3. i + 0 = i BY <2>2
  <2> QED BY <2>1, <2>3
<1>4. \A id : Unanswered(id) =>
        /\ log'[id].verdict = "none"
        /\ iter'.req # id
        /\ \A i \in 1 .. Len(fromRadio') : IsReply(fromRadio'[i]) => fromRadio'[i].re # id
  BY <1>3 DEF Unanswered
<1>5. SentInv'
  <2>1. \A i \in 1 .. Len(pending_queue') :
          /\ Unanswered(pending_queue[i])'
          /\ \A j \in 1 .. Len(toRadio') : toRadio'[j] # pending_queue'[i]
    <3>1. \A i \in 1 .. Len(pending_queue) :
            /\ Unanswered(pending_queue[i])
            /\ \A j \in 1 .. Len(toRadio) : toRadio[j] # pending_queue[i]
      BY <1>2 DEF SentInv
    <3>2. \A i \in 1 .. Len(pending_queue') : Unanswered(pending_queue[i])'
      BY <1>4, <3>1 DEF Unanswered
    <3> QED BY <3>1, <3>2 DEF Unread
  <2>2. \A i \in 1 .. Len(toRadio') : Unanswered(toRadio[i])'
    <3> TAKE i \in 1 .. Len(toRadio')
    <3>1. toRadio'[i] = toRadio[i + m] /\ Unanswered(toRadio[i + m])
      BY <1>2 DEF SentInv, Unread
    <3> QED BY <1>4, <3>1 DEF Unanswered
  <2>3. \A i, j \in 1 .. Len(toRadio') : i # j => toRadio'[i] # toRadio'[j]
    <3> SUFFICES ASSUME NEW i \in 1 .. Len(toRadio'), NEW j \in 1 .. Len(toRadio'), i # j
                 PROVE  toRadio'[i] # toRadio'[j]
      OBVIOUS
    <3>1. i + m # j + m OBVIOUS
    <3> QED BY <1>2, <3>1 DEF SentInv, Unread
  <2> QED BY <2>1, <2>2, <2>3 DEF SentInv
<1>6. DecidedInv' BY <1>2, <1>3 DEF DecidedInv, Final, IsReply
<1>7. LastInv' BY <1>2, <1>3 DEF LastInv, Final, IsReply
<1>8. Serial'
  <2> SUFFICES ASSUME link' # "down", ~abandoned'
               PROVE  /\ \A i \in 1 .. Len(toRadio') : toRadio'[i] = in_flight'
                      /\ iter'.req \in {None, in_flight'}
                      /\ \A i \in 1 .. Len(fromRadio') : IsReply(fromRadio'[i]) => fromRadio'[i].re = in_flight'
    BY Zenon DEF Serial, IsReply
  <2>1. link # "down" /\ ~abandoned BY Zenon
  <2>2. /\ \A i \in 1 .. Len(toRadio) : toRadio[i] = in_flight
        /\ iter.req \in {None, in_flight}
        /\ \A i \in 1 .. Len(fromRadio) : IsReply(fromRadio[i]) => fromRadio[i].re = in_flight
    BY <2>1 DEF Routed, Serial
  <2> QED BY <1>3, <2>2 DEF Unread
<1>9. AckInv' /\ HonestOutcome' /\ RightAnswer'
  BY DEF Routed, AckInv, HonestOutcome, RightAnswer, Ids
<1> QED BY <1>5, <1>6, <1>7, <1>8, <1>9 DEF Routed, RadioInv

\* A silent radio and the end of either half of the connection only lose.
LEMMA LossesRouted ==
  ASSUME IInv, Routed, RadioSilent \/ WriterEnds \/ RelayEnds
  PROVE  Routed'
<1>1. UNCHANGED <<log, pending_queue, in_flight, iter, abandoned, misrouted, pending_acks, acked>>
      /\ (link' # "down" => link # "down")
  BY DEF RadioSilent, WriterEnds, RelayEnds, ghostVars, radioVars
<1>2. Ranges /\ toRadio \in Seq(1 .. Len(log)) /\ fromRadio \in Seq(Frame(Len(log)))
  BY RangesHold DEF IInv, TypeOK, Ids
<1> DEFINE S == 1 .. Len(log)
           F == Frame(Len(log))
<1>3. toRadio \in Seq(S) /\ fromRadio \in Seq(F) BY <1>2
<1> HIDE DEF S, F
<1>4. toRadio' = toRadio => Unread(0) BY <1>2 DEF Unread, Ranges
<1>5. fromRadio' = fromRadio => Shifted(0) BY <1>2, AllShifted
<1>6. CASE RadioSilent
  <2>1. toRadio # << >> /\ toRadio' = Tail(toRadio) /\ fromRadio' = fromRadio
    BY <1>6 DEF RadioSilent
  <2>2. Unread(1) BY <1>3, <2>1, Shift DEF Unread
  <2> QED BY <1>1, <1>5, <2>1, <2>2, LostRouted
<1>7. CASE WriterEnds
  <2>1. PICK n \in 0 .. Len(toRadio) : toRadio' = SubSeq(toRadio, 1, n) BY <1>7 DEF WriterEnds
  <2>2. \A i \in 1 .. Len(toRadio') : i \in 1 .. Len(toRadio) /\ toRadio'[i] = toRadio[i]
    BY <1>3, <2>1, Prefix
  <2>3. \A i \in 1 .. Len(toRadio) : i + 0 = i BY <1>2 DEF Ranges
  <2>4. Unread(0) BY <2>2, <2>3 DEF Unread
  <2> QED BY <1>1, <1>5, <1>7, <2>4, LostRouted DEF WriterEnds
<1>8. CASE RelayEnds
  <2>1. PICK n \in 0 .. Len(fromRadio) : fromRadio' = SubSeq(fromRadio, 1, n) BY <1>8 DEF RelayEnds
  <2>2. \A i \in 1 .. Len(fromRadio') : i \in 1 .. Len(fromRadio) /\ fromRadio'[i] = fromRadio[i]
    BY <1>3, <2>1, Prefix
  <2>3. \A i \in 1 .. Len(fromRadio) : i + 0 = i BY <1>2 DEF Ranges
  <2>4. Shifted(0) BY <2>2, <2>3 DEF Shifted
  <2> QED BY <1>1, <1>4, <1>8, <2>4, LostRouted DEF RelayEnds, radioVars
<1> QED BY <1>6, <1>7, <1>8

\* One more frame at the end.
Extended(f) ==
  /\ Len(fromRadio') = Len(fromRadio) + 1
  /\ \A i \in 1 .. Len(fromRadio) : fromRadio'[i] = fromRadio[i]
  /\ fromRadio'[Len(fromRadio) + 1] = f

\* Emit adds its frame at the end.
LEMMA EmitExtends ==
  ASSUME IInv, NEW code, NEW arg, NEW re, Emit(code, arg, re)
  PROVE  Extended([code |-> code, arg |-> arg, re |-> re])
<1> DEFINE S == Frame(Len(log))
           f == [code |-> code, arg |-> arg, re |-> re]
<1>1. fromRadio \in Seq(S) /\ fromRadio' = Append(fromRadio, f) BY DEF IInv, TypeOK, Emit
<1> HIDE DEF S, f
<1>2. Extended(f) BY <1>1 DEF Extended
<1> QED BY <1>2 DEF f

\* A push event or a delivery ACK says nothing about a request.
LEMMA PushRouted ==
  ASSUME IInv, Routed, NEW f, Extended(f), ~IsReply(f),
         UNCHANGED <<log, pending_queue, in_flight, toRadio, iter, link, abandoned, misrouted,
                     pending_acks, acked>>
  PROVE  Routed'
<1>1. Ranges BY RangesHold
<1>2. SentInv /\ DecidedInv /\ LastInv BY DEF Routed, RadioInv
<1>3. \A i \in 1 .. Len(fromRadio') : IsReply(fromRadio'[i]) =>
        i \in 1 .. Len(fromRadio) /\ fromRadio'[i] = fromRadio[i]
  <2>1. \A i \in 1 .. Len(fromRadio') : i \in 1 .. Len(fromRadio) \/ i = Len(fromRadio) + 1
    BY <1>1 DEF Extended, Ranges
  <2> QED BY <2>1 DEF Extended
<1>4. \A id : Unanswered(id) => Unanswered(id)' BY <1>3 DEF Unanswered
<1>5. SentInv'
  <2>1. \A i \in 1 .. Len(pending_queue') :
          /\ Unanswered(pending_queue[i])'
          /\ \A j \in 1 .. Len(toRadio') : toRadio'[j] # pending_queue'[i]
    BY <1>2, <1>4 DEF SentInv, Unanswered
  <2>2. \A i \in 1 .. Len(toRadio') : Unanswered(toRadio[i])'
    BY <1>2, <1>4 DEF SentInv, Unanswered
  <2> QED BY <1>2, <2>1, <2>2 DEF SentInv
<1>6. DecidedInv' BY <1>2, <1>3 DEF DecidedInv, Final
<1>7. LastInv' BY <1>2, <1>3 DEF LastInv, Final
<1>8. Serial'
  <2> SUFFICES ASSUME link' # "down", ~abandoned'
               PROVE  /\ \A i \in 1 .. Len(toRadio') : toRadio'[i] = in_flight'
                      /\ iter'.req \in {None, in_flight'}
                      /\ \A i \in 1 .. Len(fromRadio') : IsReply(fromRadio'[i]) => fromRadio'[i].re = in_flight'
    BY Zenon DEF Serial, IsReply
  <2>1. link # "down" /\ ~abandoned BY Zenon
  <2>2. /\ \A i \in 1 .. Len(toRadio) : toRadio[i] = in_flight
        /\ iter.req \in {None, in_flight}
        /\ \A i \in 1 .. Len(fromRadio) : IsReply(fromRadio[i]) => fromRadio[i].re = in_flight
    BY <2>1 DEF Routed, Serial
  <2> QED BY <1>3, <2>2
<1>9. AckInv' /\ HonestOutcome' /\ RightAnswer'
  BY DEF Routed, AckInv, HonestOutcome, RightAnswer, Ids
<1> QED BY <1>5, <1>6, <1>7, <1>8, <1>9 DEF Routed, RadioInv

\* Spontaneous pushes and delivery ACKs.
LEMMA RadioPushRouted ==
  ASSUME IInv, Routed, RadioPush \/ RadioAck
  PROVE  Routed'
<1>1. UNCHANGED <<log, pending_queue, in_flight, toRadio, iter, link, abandoned, misrouted,
                  pending_acks, acked>>
  BY DEF RadioPush, RadioAck, radioVars, ghostVars
<1>2. PICK code, arg, re : Emit(code, arg, re) /\ (re = None \/ code = Ack)
  BY DEF RadioPush, RadioAck
<1> DEFINE f == [code |-> code, arg |-> arg, re |-> re]
<1>3. Extended(f) BY <1>2, EmitExtends
<1>4. ~IsReply(f) BY <1>2 DEF IsReply
<1> HIDE DEF f
<1> QED BY <1>1, <1>3, <1>4, PushRouted

\* The radio answers request id with the frame f, for good or to go on.
LEMMA AnswerRouted ==
  ASSUME IInv, IInv', Routed, NEW id \in 1 .. Len(log), NEW f, NEW m \in Nat,
         log[id].verdict = "none",
         Extended(f), f.re = id,
         Unread(m), \A j \in 1 .. Len(toRadio') : toRadio'[j] # id,
         \A i \in 1 .. Len(pending_queue) : pending_queue[i] # id,
         link # "down" /\ ~abandoned => in_flight = id,
         \/ /\ ~Final(f) /\ log' = log /\ iter'.req = id /\ log[id].cmd.code = GetContacts
         \/ /\ Judge(id, Verdict(f.code))
            /\ iter'.req \in {None, iter.req} /\ iter'.req # id,
         UNCHANGED <<pending_queue, in_flight, link, abandoned, misrouted, pending_acks, acked>>
  PROVE  Routed'
<1>1. Ranges BY RangesHold
<1>2. SentInv /\ DecidedInv /\ LastInv BY DEF Routed, RadioInv
<1>3. \A i \in 1 .. Len(fromRadio') :
        \/ i \in 1 .. Len(fromRadio) /\ fromRadio'[i] = fromRadio[i]
        \/ i = Len(fromRadio) + 1 /\ fromRadio'[i] = f
  <2>1. \A i \in 1 .. Len(fromRadio') : i \in 1 .. Len(fromRadio) \/ i = Len(fromRadio) + 1
    BY <1>1 DEF Extended, Ranges
  <2> QED BY <2>1 DEF Extended
<1>4. /\ Len(log') = Len(log)
      /\ \A x \in 1 .. Len(log) : x # id => log'[x] = log[x]
      /\ \A x \in 1 .. Len(log) :
           /\ log'[x].client = log[x].client
           /\ log'[x].cmd = log[x].cmd
           /\ log'[x].outcome = log[x].outcome
      /\ Judge(id, Verdict(f.code)) => log'[id].verdict = Verdict(f.code)
  <2>1. CASE ~Judge(id, Verdict(f.code)) /\ log' = log BY <2>1
  <2>2. CASE Judge(id, Verdict(f.code))
    <3> DEFINE v == Verdict(f.code)
    <3>1. log \in Seq(Request) /\ DOMAIN log = 1 .. Len(log) /\ log' = [log EXCEPT ![id].verdict = v]
      BY <2>2 DEF IInv, TypeOK, Judge
    <3> HIDE DEF v
    <3>2. DOMAIN log' = 1 .. Len(log) BY <3>1
    <3>3. Len(log') = Len(log)
      <4>1. log' \in Seq(Request) BY DEF IInv, TypeOK
      <4>2. DOMAIN log' = 1 .. Len(log') /\ Len(log') \in Nat BY <4>1
      <4> QED BY <1>1, <3>2, <4>2 DEF Ranges
    <3>4. \A x \in 1 .. Len(log) : log'[x] = IF x = id THEN [log[x] EXCEPT !.verdict = v] ELSE log[x]
      BY <3>1
    <3>5. \A x \in 1 .. Len(log) : log[x] \in Request BY <3>1
    <3>6. \A r \in Request :
            /\ [r EXCEPT !.verdict = v].verdict = v
            /\ [r EXCEPT !.verdict = v].client = r.client
            /\ [r EXCEPT !.verdict = v].cmd = r.cmd
            /\ [r EXCEPT !.verdict = v].outcome = r.outcome
      BY DEF Request
    <3>7. log'[id].verdict = v
      <4>1. log'[id] = [log[id] EXCEPT !.verdict = v] BY <3>4
      <4>2. log[id] \in Request BY <3>5
      <4>3. [log[id] EXCEPT !.verdict = v].verdict = v BY <3>6, <4>2, Zenon
      <4> QED BY <4>1, <4>3, Zenon
    <3>8. \A x \in 1 .. Len(log) :
            /\ log'[x].client = log[x].client
            /\ log'[x].cmd = log[x].cmd
            /\ log'[x].outcome = log[x].outcome
      BY <3>4, <3>5, <3>6
    <3>9. \A x \in 1 .. Len(log) : x # id => log'[x] = log[x] BY <3>4
    <3> QED BY <3>3, <3>7, <3>8, <3>9 DEF v
  <2> QED BY <2>1, <2>2
<1>5. iter'.req \in {None, iter.req, id} OBVIOUS
<1>6. \A x \in 1 .. Len(log) : x # id /\ Unanswered(x) =>
        /\ log'[x].verdict = "none"
        /\ iter'.req # x
        /\ \A i \in 1 .. Len(fromRadio') : IsReply(fromRadio'[i]) => fromRadio'[i].re # x
  <2> SUFFICES ASSUME NEW x \in 1 .. Len(log), x # id, Unanswered(x)
               PROVE  /\ log'[x].verdict = "none"
                      /\ iter'.req # x
                      /\ \A i \in 1 .. Len(fromRadio') : IsReply(fromRadio'[i]) => fromRadio'[i].re # x
    OBVIOUS
  <2>1. log'[x].verdict = "none" BY <1>4 DEF Unanswered
  <2>2. x # None BY <1>1 DEF Ranges, None
  <2>3. iter'.req # x BY <1>5, <2>2 DEF Unanswered
  <2>4. \A i \in 1 .. Len(fromRadio') : IsReply(fromRadio'[i]) => fromRadio'[i].re # x
    BY <1>3 DEF Unanswered
  <2> QED BY <2>1, <2>3, <2>4
<1>7. \A i \in 1 .. Len(toRadio') :
        i + m \in 1 .. Len(toRadio) /\ toRadio'[i] = toRadio[i + m]
        /\ toRadio'[i] \in 1 .. Len(log) /\ toRadio'[i] # id
  BY <1>1 DEF Unread, Ranges
<1>8. SentInv'
  <2>1. \A i \in 1 .. Len(pending_queue') :
          /\ Unanswered(pending_queue[i])'
          /\ \A j \in 1 .. Len(toRadio') : toRadio'[j] # pending_queue'[i]
    <3> TAKE i \in 1 .. Len(pending_queue')
    <3> DEFINE x == pending_queue[i]
    <3>1. x \in 1 .. Len(log) /\ x # id /\ Unanswered(x)
          /\ \A j \in 1 .. Len(toRadio) : toRadio[j] # x
      BY <1>1, <1>2 DEF Ranges, SentInv
    <3>2. Unanswered(pending_queue[i])' BY <1>6, <3>1 DEF Unanswered
    <3> QED BY <1>7, <3>1, <3>2
  <2>2. \A i \in 1 .. Len(toRadio') : Unanswered(toRadio[i])'
    <3> TAKE i \in 1 .. Len(toRadio')
    <3>1. Unanswered(toRadio[i + m]) BY <1>2, <1>7 DEF SentInv
    <3> QED BY <1>6, <1>7, <3>1 DEF Unanswered
  <2>3. \A i, j \in 1 .. Len(toRadio') : i # j => toRadio'[i] # toRadio'[j]
    <3> SUFFICES ASSUME NEW i \in 1 .. Len(toRadio'), NEW j \in 1 .. Len(toRadio'), i # j
                 PROVE  toRadio'[i] # toRadio'[j]
      OBVIOUS
    <3>1. i + m # j + m OBVIOUS
    <3> QED BY <1>2, <1>7, <3>1 DEF SentInv
  <2> QED BY <2>1, <2>2, <2>3 DEF SentInv
<1>9. \A i \in 1 .. Len(fromRadio) : Final(fromRadio[i]) =>
        /\ fromRadio[i].re \in 1 .. Len(log) /\ fromRadio[i].re # id
        /\ log[fromRadio[i].re].verdict = Verdict(fromRadio[i].code)
  <2> SUFFICES ASSUME NEW i \in 1 .. Len(fromRadio), Final(fromRadio[i])
               PROVE  /\ fromRadio[i].re \in 1 .. Len(log) /\ fromRadio[i].re # id
                      /\ log[fromRadio[i].re].verdict = Verdict(fromRadio[i].code)
    OBVIOUS
  <2>1. log[fromRadio[i].re].verdict = Verdict(fromRadio[i].code) BY <1>2 DEF DecidedInv
  <2>2. fromRadio[i].re # None BY DEF Final, IsReply
  <2>3. fromRadio[i].re \in 1 .. Len(log) BY <1>1, <2>2 DEF Ranges, None
  <2> QED BY <2>1, <2>3 DEF Verdict
<1>10. \A i \in 1 .. Len(fromRadio) : fromRadio[i].re # None =>
         log'[fromRadio[i].re].cmd = log[fromRadio[i].re].cmd
  <2>1. \A i \in 1 .. Len(fromRadio) : fromRadio[i].re # None => fromRadio[i].re \in 1 .. Len(log)
    BY <1>1 DEF Ranges, None
  <2> QED BY <1>4, <2>1
<1>11. \A i \in 1 .. Len(fromRadio) : fromRadio'[i] = fromRadio[i] /\ Final(fromRadio[i])' => Final(fromRadio[i])
  BY <1>10, Zenon DEF Final, IsReply
<1>12. DecidedInv'
  <2>1. iter'.req # None => log'[iter'.req].verdict = "none" /\ log'[iter'.req].cmd.code = GetContacts
    <3>1. CASE ~Final(f) /\ log' = log /\ iter'.req = id /\ log[id].cmd.code = GetContacts
      BY <3>1
    <3>2. CASE iter'.req \in {None, iter.req} /\ iter'.req # id
      <4>1. iter.req # None => iter.req \in 1 .. Len(log) BY <1>1 DEF Ranges, None
      <4> QED BY <1>2, <1>4, <3>2, <4>1 DEF DecidedInv
    <3> QED BY <3>1, <3>2
  <2>2. \A i \in 1 .. Len(fromRadio') :
          Final(fromRadio[i])' => log'[fromRadio'[i].re].verdict = Verdict(fromRadio'[i].code)
    <3> SUFFICES ASSUME NEW i \in 1 .. Len(fromRadio'), Final(fromRadio[i])'
                 PROVE  log'[fromRadio'[i].re].verdict = Verdict(fromRadio'[i].code)
      OBVIOUS
    <3>1. CASE i \in 1 .. Len(fromRadio) /\ fromRadio'[i] = fromRadio[i]
      BY <1>4, <1>9, <1>11, <3>1
    <3>2. CASE i = Len(fromRadio) + 1 /\ fromRadio'[i] = f
      <4>1. Final(f)
        <5>1. log'[f.re].cmd = log[f.re].cmd BY <1>4
        <5> QED BY <3>2, <5>1 DEF Final
      <4>2. log'[id].verdict = Verdict(f.code)
        <5>1. Judge(id, Verdict(f.code)) BY <4>1
        <5> QED BY <1>4, <5>1
      <4> QED BY <3>2, <4>2
    <3> QED BY <1>3, <3>1, <3>2
  <2> QED BY <2>1, <2>2 DEF DecidedInv
<1>13. LastInv'
  <2> SUFFICES ASSUME NEW i \in 1 .. Len(fromRadio'), NEW j \in 1 .. Len(fromRadio'),
                      i < j, Final(fromRadio[i])', IsReply(fromRadio'[j])
               PROVE  fromRadio'[j].re # fromRadio'[i].re
    BY DEF LastInv, IsReply
  <2>1. i \in 1 .. Len(fromRadio) /\ fromRadio'[i] = fromRadio[i]
    <3>1. i # Len(fromRadio) + 1 BY <1>1 DEF Extended, Ranges
    <3> QED BY <1>3, <3>1
  <2>2. Final(fromRadio[i]) BY <1>11, <2>1
  <2>3. CASE j \in 1 .. Len(fromRadio) /\ fromRadio'[j] = fromRadio[j]
    BY <1>2, <2>1, <2>2, <2>3 DEF LastInv
  <2>4. CASE j = Len(fromRadio) + 1 /\ fromRadio'[j] = f
    BY <1>9, <2>1, <2>2, <2>4
  <2> QED BY <1>3, <2>3, <2>4
<1>14. Serial'
  <2> SUFFICES ASSUME link' # "down", ~abandoned'
               PROVE  /\ \A i \in 1 .. Len(toRadio') : toRadio'[i] = in_flight'
                      /\ iter'.req \in {None, in_flight'}
                      /\ \A i \in 1 .. Len(fromRadio') : IsReply(fromRadio'[i]) => fromRadio'[i].re = in_flight'
    BY Zenon DEF Serial, IsReply
  <2>1. link # "down" /\ ~abandoned BY Zenon
  <2>2. /\ \A i \in 1 .. Len(toRadio) : toRadio[i] = in_flight
        /\ iter.req \in {None, in_flight}
        /\ \A i \in 1 .. Len(fromRadio) : IsReply(fromRadio[i]) => fromRadio[i].re = in_flight
    BY <2>1 DEF Routed, Serial
  <2>3. in_flight = id BY <2>1
  <2> QED BY <1>3, <1>5, <1>7, <2>2, <2>3
<1>15. AckInv'
  <2> SUFFICES ASSUME misrouted' = {}, NEW e \in pending_acks' \cup acked'
               PROVE  log'[e.ack].client = e.client
    BY DEF AckInv
  <2>1. e.ack \in 1 .. Len(log) BY DEF IInv, TypeOK, Ids
  <2>2. log[e.ack].client = e.client BY DEF Routed, AckInv
  <2> QED BY <1>4, <2>1, <2>2
<1>16. HonestOutcome'
  <2> SUFFICES ASSUME NEW x \in 1 .. Len(log), \A e \in misrouted : e.req # x
               PROVE  /\ log'[x].outcome = "accepted" => log'[x].verdict = "ok"
                      /\ log'[x].outcome = "rejected" => log'[x].verdict = "error"
    BY <1>4 DEF HonestOutcome, Ids
  <2>1. /\ log[x].outcome = "accepted" => log[x].verdict = "ok"
        /\ log[x].outcome = "rejected" => log[x].verdict = "error"
    BY DEF Routed, HonestOutcome, Ids
  <2>2. CASE x # id BY <1>4, <2>1, <2>2
  <2>3. CASE x = id BY <1>4, <2>1, <2>3
  <2> QED BY <2>2, <2>3
<1>17. RightAnswer' BY DEF Routed, RightAnswer
<1> QED BY <1>8, <1>12, <1>13, <1>14, <1>15, <1>16, <1>17 DEF Routed, RadioInv

\* The radio reads a request and answers or refuses it.
LEMMA RadioAnswerRouted ==
  ASSUME IInv, IInv', Routed, RadioAnswer
  PROVE  Routed'
<1> DEFINE id  == Head(toRadio)
           cmd == log[id].cmd
<1>1. /\ toRadio # << >> /\ toRadio' = Tail(toRadio)
      /\ UNCHANGED <<pending_queue, in_flight, link, abandoned, misrouted, pending_acks, acked>>
  BY DEF RadioAnswer, ghostVars
<1>2. \/ /\ cmd.code # GetContacts
         /\ \E code \in ReplyCodes(cmd) : Emit(code, ReplyArg(cmd), id)
         /\ Judge(id, "ok")
         /\ iter' = IF cmd.code = AppStart THEN NoIter ELSE iter
      \/ /\ cmd.code = GetContacts
         /\ Emit(ContactStart, NoArg, id)
         /\ \E n \in 0 .. MaxContacts : iter' = [req |-> id, left |-> n]
         /\ log' = log
      \/ /\ Emit(Error, NoArg, id)
         /\ Judge(id, "error")
         /\ iter' = iter
  BY Zenon DEF RadioAnswer
<1>3. Ranges /\ toRadio \in Seq(1 .. Len(log)) BY RangesHold DEF IInv, TypeOK, Ids
<1>4. id = toRadio[1] /\ 1 \in 1 .. Len(toRadio) /\ Unread(1)
  <2> DEFINE S == 1 .. Len(log)
  <2>1. toRadio \in Seq(S) BY <1>3
  <2> HIDE DEF S
  <2> QED BY <1>1, <2>1, Shift DEF Unread
<1> HIDE DEF id
<1>5. id \in 1 .. Len(log) BY <1>3, <1>4 DEF Ranges
<1>6. /\ Unanswered(id)
      /\ \A i \in 1 .. Len(toRadio) : i # 1 => toRadio[i] # id
      /\ \A i \in 1 .. Len(pending_queue) : pending_queue[i] # id
  BY <1>4 DEF Routed, RadioInv, SentInv
<1>7. \A j \in 1 .. Len(toRadio') : toRadio'[j] # id
  <2> TAKE j \in 1 .. Len(toRadio')
  <2>1. j + 1 \in 1 .. Len(toRadio) /\ toRadio'[j] = toRadio[j + 1] /\ j + 1 # 1 BY <1>4 DEF Unread
  <2> QED BY <1>6, <2>1
<1>8. link # "down" /\ ~abandoned => in_flight = id BY <1>4 DEF Routed, Serial
<1>9. cmd \in Command
  <2>1. log[id] \in Request BY <1>5 DEF IInv, TypeOK
  <2> QED BY <2>1 DEF Request
<1>10. log[id].verdict = "none" /\ iter.req # id /\ id # None
  BY <1>5, <1>6 DEF Unanswered, None
<1> HIDE DEF cmd
<1>11. PICK f :
         /\ Extended(f) /\ f.re = id
         /\ \/ ~Final(f) /\ log' = log /\ iter'.req = id /\ cmd.code = GetContacts
            \/ Judge(id, Verdict(f.code)) /\ iter'.req \in {None, iter.req} /\ iter'.req # id
  <2>1. CASE /\ cmd.code # GetContacts
             /\ \E code \in ReplyCodes(cmd) : Emit(code, ReplyArg(cmd), id)
             /\ Judge(id, "ok")
             /\ iter' = IF cmd.code = AppStart THEN NoIter ELSE iter
    <3>1. PICK code \in ReplyCodes(cmd) : Emit(code, ReplyArg(cmd), id) BY <2>1
    <3> DEFINE f == [code |-> code, arg |-> ReplyArg(cmd), re |-> id]
    <3>2. Extended(f) BY <3>1, EmitExtends
    <3>3. f.re = id /\ f.code = code OBVIOUS
    <3>4. code # Error BY <1>9, <2>1, ReplyNotError
    <3>5. Verdict(f.code) = "ok" BY <3>3, <3>4 DEF Verdict
    <3> HIDE DEF f
    <3>6. iter'.req \in {None, iter.req} /\ iter'.req # id BY <1>10, <2>1 DEF NoIter
    <3> QED BY <2>1, <3>2, <3>3, <3>5, <3>6
  <2>2. CASE /\ cmd.code = GetContacts
             /\ Emit(ContactStart, NoArg, id)
             /\ \E n \in 0 .. MaxContacts : iter' = [req |-> id, left |-> n]
             /\ log' = log
    <3> DEFINE f == [code |-> ContactStart, arg |-> NoArg, re |-> id]
    <3>1. Extended(f) BY <2>2, EmitExtends
    <3>2. f.re = id /\ f.code = ContactStart OBVIOUS
    <3> HIDE DEF f
    <3>3. ~Completes(awaiting_for(cmd), ContactStart)
      BY <2>2, ContactsComplete DEF ContactStart, Error, ContactEnd
    <3>4. ~Final(f) BY <3>2, <3>3 DEF Final, cmd
    <3>5. iter'.req = id BY <2>2
    <3> QED BY <2>2, <3>1, <3>2, <3>4, <3>5
  <2>3. CASE Emit(Error, NoArg, id) /\ Judge(id, "error") /\ iter' = iter
    <3> DEFINE f == [code |-> Error, arg |-> NoArg, re |-> id]
    <3>1. Extended(f) BY <2>3, EmitExtends
    <3>2. f.re = id /\ f.code = Error OBVIOUS
    <3> HIDE DEF f
    <3>3. Verdict(f.code) = "error" BY <3>2 DEF Verdict
    <3> QED BY <1>10, <2>3, <3>1, <3>2, <3>3
  <2> QED BY <1>2, <2>1, <2>2, <2>3
<1> QED BY <1>1, <1>4, <1>5, <1>6, <1>7, <1>8, <1>10, <1>11, AnswerRouted DEF cmd

\* The next frame of a contact iteration, or its end.
LEMMA RadioIterateRouted ==
  ASSUME IInv, IInv', Routed, RadioIterate
  PROVE  Routed'
<1> DEFINE id == iter.req
<1>1. /\ iter # NoIter
      /\ \/ /\ \E k \in Keys : Emit(Contact, k, id)
            /\ iter' = [iter EXCEPT !.left = @ - 1]
            /\ log' = log
         \/ /\ Emit(ContactEnd, NoArg, id)
            /\ iter' = NoIter
            /\ Judge(id, "ok")
      /\ UNCHANGED <<pending_queue, in_flight, toRadio, link, abandoned, misrouted, pending_acks,
                     acked>>
  BY DEF RadioIterate, ghostVars
<1>2. Ranges /\ iter \in [req : {None} \cup Ids, left : Nat] /\ id # None
  BY <1>1, RangesHold DEF IInv, TypeOK
<1>3. id \in 1 .. Len(log) BY <1>2 DEF Ranges, None
<1>4. log[id].verdict = "none" /\ log[id].cmd.code = GetContacts
  BY <1>2 DEF Routed, RadioInv, DecidedInv
<1>5. /\ \A j \in 1 .. Len(toRadio') : toRadio'[j] # id
      /\ \A i \in 1 .. Len(pending_queue) : pending_queue[i] # id
  BY <1>1 DEF Routed, RadioInv, SentInv, Unanswered
<1>6. Unread(0) BY <1>1, <1>2 DEF Unread, Ranges
<1>7. link # "down" /\ ~abandoned => in_flight = id BY <1>2 DEF Routed, Serial
<1>8. PICK f :
        /\ Extended(f) /\ f.re = id
        /\ \/ ~Final(f) /\ log' = log /\ iter'.req = id /\ log[id].cmd.code = GetContacts
           \/ Judge(id, Verdict(f.code)) /\ iter'.req \in {None, iter.req} /\ iter'.req # id
  <2>1. CASE /\ \E k \in Keys : Emit(Contact, k, id)
             /\ iter' = [iter EXCEPT !.left = @ - 1]
             /\ log' = log
    <3>1. PICK k \in Keys : Emit(Contact, k, id) BY <2>1
    <3> DEFINE f == [code |-> Contact, arg |-> k, re |-> id]
    <3>2. Extended(f) BY <3>1, EmitExtends
    <3>3. f.re = id /\ f.code = Contact OBVIOUS
    <3> HIDE DEF f
    <3>4. ~Completes(awaiting_for(log[id].cmd), Contact)
      BY <1>4, ContactsComplete DEF Contact, Error, ContactEnd
    <3>5. ~Final(f) BY <3>3, <3>4 DEF Final
    <3>6. iter'.req = id BY <1>2, <2>1
    <3> QED BY <1>4, <2>1, <3>2, <3>3, <3>5, <3>6
  <2>2. CASE Emit(ContactEnd, NoArg, id) /\ iter' = NoIter /\ Judge(id, "ok")
    <3> DEFINE f == [code |-> ContactEnd, arg |-> NoArg, re |-> id]
    <3>1. Extended(f) BY <2>2, EmitExtends
    <3>2. f.re = id /\ f.code = ContactEnd OBVIOUS
    <3> HIDE DEF f
    <3>3. Verdict(f.code) = "ok" BY <3>2 DEF Verdict, ContactEnd, Error
    <3>4. iter'.req = None BY <2>2 DEF NoIter
    <3> QED BY <1>2, <2>2, <3>1, <3>2, <3>3, <3>4
  <2> QED BY <1>1, <2>1, <2>2
<1> QED BY <1>1, <1>3, <1>4, <1>5, <1>6, <1>7, <1>8, AnswerRouted

-----------------------------------------------------------------------------
\* Before the first connection there is nothing to mix up.
LEMMA RoutedInit == Init => RInv
<1> SUFFICES ASSUME Init PROVE RInv
  OBVIOUS
<1>1. IInv BY InitHolds
<1>2. /\ link = "down" /\ Len(pending_queue) = 0 /\ Len(toRadio) = 0 /\ Len(fromRadio) = 0
      /\ iter.req = None /\ Len(log) = 0 /\ misrouted = {} /\ pending_acks = {} /\ acked = {}
  BY DEF Init, NoIter
<1>3. ~\E i \in 1 .. 0 : TRUE OBVIOUS
<1>4. SentInv BY <1>2, <1>3, Zenon DEF SentInv
<1>5. DecidedInv BY <1>2, <1>3, Zenon DEF DecidedInv
<1>6. LastInv BY <1>2, <1>3, Zenon DEF LastInv
<1>7. Serial BY <1>2, Zenon DEF Serial
<1>8. AckInv BY <1>2, Zenon DEF AckInv
<1>9. HonestOutcome BY <1>2, <1>3, Zenon DEF HonestOutcome, Ids
<1>10. RightAnswer BY <1>2, Zenon DEF RightAnswer
<1> QED BY <1>1, <1>4, <1>5, <1>6, <1>7, <1>8, <1>9, <1>10 DEF RInv, RadioInv

\* Every step of Next, and stuttering, keeps the routing right.
LEMMA RoutedStep == RInv /\ [Next]_vars => RInv'
<1> SUFFICES ASSUME IInv, Routed, [Next]_vars PROVE RInv'
  BY DEF RInv, Routed
<1>1. IInv' BY StepHolds
<1>2. ASSUME Core PROVE Routed'
  <2>1. ASSUME AnswerLocally PROVE Routed'
    BY <1>1, <2>1, IdleStep DEF AnswerLocally, radioVars, ghostVars
  <2> QED
    BY <1>1, <1>2, <2>1, ForwardRouted, RouteReplyRouted, RouteAckRouted, BroadcastRouted,
       TimeoutRouted, MaintenanceRouted, LoseRadioRouted, ReconnectRouted DEF Core
<1>3. ASSUME Radio PROVE Routed'
  BY <1>1, <1>3, RadioAnswerRouted, RadioIterateRouted, RadioPushRouted, LossesRouted DEF Radio
<1>4. ASSUME NEW c \in Clients, Connect(c) \/ Disconnect(c) PROVE Routed'
  BY <1>1, <1>4, IdleStep DEF Connect, Disconnect, radioVars, ghostVars
<1>5. ASSUME NEW c \in Clients, NEW cmd \in Commands, ClientSend(c, cmd) PROVE Routed'
  BY <1>1, <1>5, IdleStep DEF ClientSend, radioVars, ghostVars
<1>6. ASSUME UNCHANGED vars PROVE Routed'
  BY <1>1, <1>6, IdleStep DEF vars
<1>7. Routed' BY <1>2, <1>3, <1>4, <1>5, <1>6 DEF Next
<1> QED BY <1>1, <1>7 DEF RInv, Routed

\* The radio's books are inductive: a request is sent once, decided once, and
\* what ends it is the last that is heard of it.
THEOREM RoutingInductive == Spec => []RInv
BY RoutedInit, RoutedStep, PTL DEF Spec

\* As long as no request was abandoned on this connection, all the radio has
\* to read, iterates over or has answered is about the request in flight.
THEOREM OneAtATime == Spec => []RadioSerialized
<1>1. RInv => RadioSerialized
  <2> SUFFICES ASSUME RInv, link # "down", ~abandoned
               PROVE  /\ \A i \in DOMAIN toRadio : toRadio[i] = in_flight
                      /\ iter.req \in {None, in_flight}
                      /\ \A i \in DOMAIN fromRadio :
                           ~is_push_event(fromRadio[i].code) => fromRadio[i].re = in_flight
    BY DEF RadioSerialized
  <2>1. DOMAIN toRadio = 1 .. Len(toRadio) /\ DOMAIN fromRadio = 1 .. Len(fromRadio)
    BY DEF RInv, IInv, TypeOK
  <2>2. /\ \A i \in 1 .. Len(toRadio) : toRadio[i] = in_flight
        /\ iter.req \in {None, in_flight}
        /\ \A i \in 1 .. Len(fromRadio) : IsReply(fromRadio[i]) => fromRadio[i].re = in_flight
    BY DEF RInv, Serial
  <2>3. \A i \in 1 .. Len(fromRadio) : ~is_push_event(fromRadio[i].code) => IsReply(fromRadio[i])
    <3>1. \A i \in 1 .. Len(fromRadio) : fromRadio[i].re = None => is_push_event(fromRadio[i].code)
      BY DEF RInv, IInv, Caused
    <3>2. is_push_event(Ack) BY DEF is_push_event, Ack
    <3> QED BY <3>1, <3>2, Zenon DEF IsReply
  <2> QED BY <2>1, <2>2, <2>3
<1> QED BY <1>1, RoutingInductive, PTL

\* A frame routed to a request was caused by it, unless a request of the same
\* connection was abandoned before or the frame is a telemetry push.
THEOREM AnswersToTheAsker == Spec => []RightAnswer
<1>1. RInv => RightAnswer BY DEF RInv
<1> QED BY <1>1, RoutingInductive, PTL

\* The ACK of a message goes to the client that sent it, unless replies were
\* mixed up before.
THEOREM AckedToSender == Spec => []AckToSender
<1>1. RInv => AckToSender BY DEF RInv, AckInv, AckToSender
<1> QED BY <1>1, RoutingInductive, PTL

\* What a client is told of its request is what the radio decided.
THEOREM ToldAsDecided == Spec => []HonestOutcome
<1>1. RInv => HonestOutcome BY DEF RInv
<1> QED BY <1>1, RoutingInductive, PTL

==============================================================================
