----------------------------- MODULE TurnsProofs -----------------------------
(***************************************************************************)
(* The multiplexer implements Turns, for every set of clients, commands    *)
(* and pushes and every bound: each of its steps is a step of the queue    *)
(* that serves one request at a time, in order, and ends each once, or     *)
(* leaves that queue alone.  The refinement mapping is the one of          *)
(* RequestsTurns, the invariant it needs the books of RequestsProofs.      *)
(***************************************************************************)
EXTENDS RequestsTurns, RoutingProofs

\* The endings are the outcomes, one for each request.
Mapped ==
  /\ Len(log) \in Nat /\ DOMAIN log = 1 .. Len(log)
  /\ DOMAIN Endings = 1 .. Len(log) /\ Len(Endings) = Len(log)
  /\ \A id \in 1 .. Len(log) : Endings[id] = log[id].outcome /\ log[id].outcome \in Outcomes

\* So it is in every state with the right types, ...
LEMMA EndingsFacts == IInv => Mapped
<1> SUFFICES ASSUME IInv PROVE Mapped
  OBVIOUS
<1>1. log \in Seq(Request) /\ Len(log) \in Nat /\ DOMAIN log = 1 .. Len(log) BY DEF IInv, TypeOK
<1>2. \A id \in 1 .. Len(log) : log[id].outcome \in Outcomes
  <2>1. \A id \in 1 .. Len(log) : log[id] \in Request BY <1>1
  <2>2. \A r \in Request : r.outcome \in Outcomes BY DEF Request, Outcomes
  <2> QED BY <2>1, <2>2
<1>3. Endings = [id \in 1 .. Len(log) |-> log[id].outcome] BY <1>1 DEF Endings
<1>4. Endings \in [1 .. Len(log) -> Outcomes] BY <1>2, <1>3
<1>5. Endings \in Seq(Outcomes) /\ Len(Endings) = Len(log)
  <2> DEFINE n == Len(log)
  <2>1. n \in Nat /\ Endings \in [1 .. n -> Outcomes] BY <1>1, <1>4
  <2> HIDE DEF n
  <2>2. Endings \in Seq(Outcomes) BY <2>1, SeqDef
  <2>3. DOMAIN Endings = 1 .. n /\ DOMAIN Endings = 1 .. Len(Endings) /\ Len(Endings) \in Nat
    BY <2>1, <2>2
  <2> QED BY <2>1, <2>2, <2>3 DEF n
<1> QED BY <1>1, <1>2, <1>3, <1>5 DEF Mapped

\* ... before and after a step.
LEMMA EndingsFactsNext == IInv' => Mapped'
BY EndingsFacts, PTL

\* The mapping before and after a step.
LEMMA EndingsBoth ==
  ASSUME IInv, IInv'
  PROVE  /\ Len(log) \in Nat /\ DOMAIN Endings = 1 .. Len(log) /\ Len(Endings) = Len(log)
         /\ \A id \in 1 .. Len(log) : Endings[id] = log[id].outcome
         /\ Len(log') \in Nat /\ DOMAIN Endings' = 1 .. Len(log') /\ Len(Endings') = Len(log')
         /\ \A id \in 1 .. Len(log') :
              Endings'[id] = log'[id].outcome /\ log'[id].outcome \in Outcomes
<1>1. Mapped BY EndingsFacts
<1>2. Mapped' BY EndingsFactsNext
<1> QED BY <1>1, <1>2, Zenon DEF Mapped

\* Those who wait once the requests for cmds have come.
LEMMA WhoWaits ==
  ASSUME IInv, IInv', NEW cmds \in Seq(Command), Len(log') = Len(log) + Len(cmds)
  PROVE  T!Queue = pending_queue \o NextIds(cmds)
<1>1. /\ Len(log) \in Nat /\ Len(cmds) \in Nat /\ DOMAIN cmds = 1 .. Len(cmds)
      /\ Len(Endings) = Len(log) /\ Len(Endings') = Len(log')
  BY EndingsBoth, LenProperties
<1>2. Len(Endings') - Len(Endings) = Len(cmds) BY <1>1
<1>3. T!Arrivals = [i \in 1 .. Len(Endings') - Len(Endings) |-> Len(Endings) + i]
  BY DEF T!Arrivals
<1>4. T!Arrivals = [i \in 1 .. Len(cmds) |-> Len(log) + i] BY <1>1, <1>2, <1>3
<1>5. NextIds(cmds) = [i \in 1 .. Len(cmds) |-> Len(log) + i] BY <1>1 DEF NextIds
<1> QED BY <1>4, <1>5 DEF T!Queue

\* A step in which requests come, the one in service ends, the first n in the
\* queue q are given up and the next may be served.
Turned(cmds, q, n) ==
  /\ cmds \in Seq(Command) /\ Len(log') = Len(log) + Len(cmds)
  /\ q \in Seq(1 .. Len(log')) /\ q = pending_queue \o NextIds(cmds) /\ n \in 0 .. Len(q)
  /\ in_flight # None => log'[in_flight].outcome # "open"
  /\ \A i \in 1 .. n : log'[q[i]].outcome \in {"failed", "dropped"}
  /\ \A id \in 1 .. Len(log') :
       id # in_flight /\ (\A i \in 1 .. n : id # q[i]) =>
         log'[id].outcome = IF id <= Len(log) THEN log[id].outcome ELSE "open"
  /\ \/ /\ in_flight' = None
        /\ pending_queue' = SubSeq(q, n + 1, Len(q))
     \/ /\ n < Len(q)
        /\ in_flight' = q[n + 1]
        /\ pending_queue' = SubSeq(q, n + 2, Len(q))

\* Such a step is an Advance.
LEMMA TurnAdvances ==
  ASSUME IInv, IInv', NEW cmds, NEW q, NEW n, Turned(cmds, q, n)
  PROVE  T!Next
<1> SUFFICES ASSUME
         cmds \in Seq(Command), Len(log') = Len(log) + Len(cmds),
         q \in Seq(1 .. Len(log')), q = pending_queue \o NextIds(cmds), n \in 0 .. Len(q),
         in_flight # None => log'[in_flight].outcome # "open",
         \A i \in 1 .. n : log'[q[i]].outcome \in {"failed", "dropped"},
         \A id \in 1 .. Len(log') :
           id # in_flight /\ (\A i \in 1 .. n : id # q[i]) =>
             log'[id].outcome = IF id <= Len(log) THEN log[id].outcome ELSE "open",
         \/ /\ in_flight' = None
            /\ pending_queue' = SubSeq(q, n + 1, Len(q))
         \/ /\ n < Len(q)
            /\ in_flight' = q[n + 1]
            /\ pending_queue' = SubSeq(q, n + 2, Len(q))
       PROVE  T!Next
  BY Zenon DEF Turned
<1>1. T!Queue = q BY WhoWaits
<1>2. /\ Len(log) \in Nat /\ DOMAIN Endings = 1 .. Len(log) /\ Len(Endings) = Len(log)
      /\ \A id \in 1 .. Len(log) : Endings[id] = log[id].outcome
      /\ Len(log') \in Nat /\ DOMAIN Endings' = 1 .. Len(log') /\ Len(Endings') = Len(log')
      /\ \A id \in 1 .. Len(log') :
           Endings'[id] = log'[id].outcome /\ log'[id].outcome \in Outcomes
      /\ Len(cmds) \in Nat
  <2>1. Len(cmds) \in Nat BY LenProperties
  <2> QED BY <2>1, EndingsBoth, Zenon
<1>3. Len(Endings') >= Len(Endings) BY <1>2
<1>4. \A id \in 1 .. Len(log) : id \in 1 .. Len(log') BY <1>2
<1>5. Len(q) \in Nat /\ n \in Nat /\ \A i \in 1 .. n : i \in 1 .. Len(q) /\ q[i] \in 1 .. Len(log')
  OBVIOUS
<1> DEFINE given == {q[i] : i \in 1 .. n}
<1>6. in_flight # T!Nobody => Endings'[in_flight] \in T!Answered \cup T!Given
  <2>1. ASSUME in_flight # None PROVE Endings'[in_flight] \in T!Answered \cup T!Given
    <3>1. in_flight \in 1 .. Len(log) BY <2>1 DEF IInv, TypeOK, Ids
    <3>2. in_flight \in 1 .. Len(log') BY <1>4, <3>1
    <3>3. Endings'[in_flight] \in Outcomes /\ Endings'[in_flight] # "open" BY <1>2, <2>1, <3>2
    <3> QED BY <3>3 DEF Outcomes, T!Answered, T!Given
  <2> QED BY <2>1 DEF None, T!Nobody
<1>7. \A id \in given : Endings'[id] \in T!Given
  <2>1. \A i \in 1 .. n : Endings'[q[i]] \in {"failed", "dropped"} BY <1>2, <1>5
  <2> QED BY <2>1 DEF T!Given
<1>8. T!OnlyEnds(given \cup {in_flight})
  <2> SUFFICES ASSUME NEW id \in DOMAIN Endings' \ (given \cup {in_flight})
               PROVE  Endings'[id] = IF id \in DOMAIN Endings THEN Endings[id] ELSE "open"
    BY DEF T!OnlyEnds
  <2>1. id \in 1 .. Len(log') /\ id # in_flight /\ \A i \in 1 .. n : id # q[i] BY <1>2
  <2>2. Endings'[id] = IF id <= Len(log) THEN log[id].outcome ELSE "open" BY <1>2, <2>1
  <2>3. id <= Len(log) <=> id \in 1 .. Len(log) BY <1>2, <2>1
  <2> QED BY <1>2, <2>2, <2>3
<1>9. \/ /\ in_flight' = T!Nobody
         /\ pending_queue' = SubSeq(q, n + 1, Len(q))
      \/ /\ n < Len(q)
         /\ in_flight' = q[n + 1]
         /\ pending_queue' = SubSeq(q, n + 2, Len(q))
  BY DEF T!Nobody, None
<1> DEFINE gv == {T!Queue[i] : i \in 1 .. n}
<1>10. gv = given BY <1>1
<1> HIDE DEF given, gv
<1>11. /\ n \in 0 .. Len(T!Queue)
       /\ \A id \in gv : Endings'[id] \in T!Given
       /\ T!OnlyEnds(gv \cup {in_flight})
       /\ \/ /\ in_flight' = T!Nobody
             /\ pending_queue' = SubSeq(T!Queue, n + 1, Len(T!Queue))
          \/ /\ n < Len(T!Queue)
             /\ in_flight' = T!Queue[n + 1]
             /\ pending_queue' = SubSeq(T!Queue, n + 2, Len(T!Queue))
  BY <1>1, <1>7, <1>8, <1>9, <1>10
<1>12. T!Advance BY <1>6, <1>11, Zenon DEF T!Advance, gv
<1> QED BY <1>3, <1>12, Zenon DEF T!Next

\* A step in which requests come while one is served.
LEMMA TurnArrives ==
  ASSUME IInv, IInv', NEW cmds \in Seq(Command), Len(log') = Len(log) + Len(cmds),
         in_flight # None, in_flight' = in_flight,
         pending_queue' = pending_queue \o NextIds(cmds),
         \A id \in 1 .. Len(log') :
           log'[id].outcome = IF id <= Len(log) THEN log[id].outcome ELSE "open"
  PROVE  T!Next
<1>1. pending_queue' = T!Queue BY WhoWaits
<1>2. /\ Len(log) \in Nat /\ DOMAIN Endings = 1 .. Len(log) /\ Len(Endings) = Len(log)
      /\ \A id \in 1 .. Len(log) : Endings[id] = log[id].outcome
      /\ Len(log') \in Nat /\ DOMAIN Endings' = 1 .. Len(log') /\ Len(Endings') = Len(log')
      /\ \A id \in 1 .. Len(log') : Endings'[id] = log'[id].outcome
      /\ Len(cmds) \in Nat
  <2>1. Len(cmds) \in Nat BY LenProperties
  <2> QED BY <2>1, EndingsBoth, Zenon
<1>3. Len(Endings') >= Len(Endings) BY <1>2
<1>4. T!OnlyEnds({})
  <2> SUFFICES ASSUME NEW id \in DOMAIN Endings' \ {}
               PROVE  Endings'[id] = IF id \in DOMAIN Endings THEN Endings[id] ELSE "open"
    BY DEF T!OnlyEnds
  <2>1. id \in 1 .. Len(log') BY <1>2
  <2>2. Endings'[id] = IF id <= Len(log) THEN log[id].outcome ELSE "open" BY <1>2, <2>1
  <2>3. id <= Len(log) <=> id \in 1 .. Len(log) BY <1>2, <2>1
  <2> QED BY <1>2, <2>2, <2>3
<1>5. T!Arrive BY <1>1, <1>4 DEF T!Arrive, T!Nobody, None
<1> QED BY <1>3, <1>5 DEF T!Next

\* A step in which no request comes, moves or ends.
LEMMA TurnStutters ==
  ASSUME IInv, IInv', UNCHANGED <<pending_queue, in_flight>>, Len(log') = Len(log),
         \A id \in 1 .. Len(log) : log'[id].outcome = log[id].outcome
  PROVE  UNCHANGED T!vars
<1>1. DOMAIN log = 1 .. Len(log) /\ DOMAIN log' = 1 .. Len(log)
  BY EndingsFacts, EndingsFactsNext DEF Mapped
<1>2. Endings' = Endings BY <1>1 DEF Endings
<1> QED BY <1>2 DEF T!vars

\* advance_queue is a turn of the queue: who is popped is given up, the next
\* that can be sent is served.
LEMMA AdvanceTurn ==
  ASSUME IInv, IInv', NEW cmds \in Seq(Command), NEW lg \in Seq(Request), Len(lg) = Len(log),
         \A id \in 1 .. Len(log) : id # in_flight => lg[id].outcome = log[id].outcome,
         in_flight # None => lg[in_flight].outcome # "open",
         NEW entries,
         advance_queue(lg \o InternalRequests(cmds), pending_queue \o NextIds(cmds), entries)
  PROVE  T!Next
<1> DEFINE l2 == lg \o InternalRequests(cmds)
           q  == pending_queue \o NextIds(cmds)
<1>1. /\ l2 \in Seq(Request)
      /\ Len(l2) = Len(log) + Len(cmds)
      /\ \A id \in 1 .. Len(log) : l2[id] = lg[id]
      /\ \A id \in 1 .. Len(l2) : id > Len(log) => l2[id].outcome = "open"
      /\ q \in Seq(1 .. Len(l2))
  BY InternalFacts
<1>2. PICK k \in 1 .. Len(q) + 1 :
        LET popped  == {q[i] : i \in 1 .. k - 1}
            refused == {id \in popped : Alive(l2[id].client)}
        IN /\ log' = Settle(Settle(l2, refused, "failed"), popped \ refused, "dropped")
           /\ pending_queue' = SubSeq(q, k + 1, Len(q))
           /\ IF k <= Len(q) THEN in_flight' = q[k] ELSE in_flight' = None
  BY Zenon DEF advance_queue
<1> DEFINE popped  == {q[i] : i \in 1 .. k - 1}
           refused == {id \in popped : Alive(l2[id].client)}
           rest    == popped \ refused
           l3      == Settle(l2, refused, "failed")
<1>3. /\ log' = Settle(l3, rest, "dropped")
      /\ pending_queue' = SubSeq(q, k + 1, Len(q))
      /\ k <= Len(q) => in_flight' = q[k]
      /\ ~(k <= Len(q)) => in_flight' = None
  BY <1>2, Zenon
<1> HIDE DEF l2, q
<1>4. popped = refused \cup rest OBVIOUS
<1>5. \A id : id \in popped <=> \E i \in 1 .. k - 1 : id = q[i] OBVIOUS
<1> HIDE DEF popped, refused, rest
<1>6. /\ l3 \in Seq(Request) /\ Len(l3) = Len(l2)
      /\ \A i \in 1 .. Len(l2) : l3[i].outcome = IF i \in refused THEN "failed" ELSE l2[i].outcome
  <2>1. "failed" \in Outcomes BY DEF Outcomes
  <2> QED BY <1>1, <2>1, SettleFacts
<1> HIDE DEF l3
<1>7. /\ Len(log') = Len(l3)
      /\ \A i \in 1 .. Len(l3) : log'[i].outcome = IF i \in rest THEN "dropped" ELSE l3[i].outcome
  BY <1>3, <1>6, SettleFacts DEF Outcomes
<1>8. /\ Len(log') = Len(log) + Len(cmds) /\ Len(l2) = Len(log')
      /\ \A id \in 1 .. Len(log') :
           IF id \in popped THEN log'[id].outcome \in {"failed", "dropped"}
                            ELSE log'[id].outcome = l2[id].outcome
  BY <1>1, <1>4, <1>6, <1>7
<1>9. Len(log) \in Nat /\ Len(cmds) \in Nat /\ Len(q) \in Nat BY <1>1, EndingsFacts DEF Mapped
<1> DEFINE n == k - 1
<1>10. n \in 0 .. Len(q) /\ n + 1 = k /\ n + 2 = k + 1 BY <1>9
<1>11. q \in Seq(1 .. Len(log')) BY <1>1, <1>8
<1>12. in_flight # None => log'[in_flight].outcome # "open"
  <2> SUFFICES ASSUME in_flight # None PROVE log'[in_flight].outcome # "open"
    OBVIOUS
  <2>1. in_flight \in 1 .. Len(log) BY DEF IInv, TypeOK, Ids
  <2>2. in_flight \in 1 .. Len(log') BY <1>8, <1>9, <2>1
  <2>3. l2[in_flight].outcome # "open" BY <1>1, <2>1
  <2> QED BY <1>8, <2>2, <2>3
<1>13. \A i \in 1 .. n : log'[q[i]].outcome \in {"failed", "dropped"}
  <2> TAKE i \in 1 .. n
  <2>1. i \in 1 .. Len(q) BY <1>9
  <2>2. q[i] \in 1 .. Len(log') BY <1>11, <2>1
  <2>3. q[i] \in popped BY <1>5
  <2> QED BY <1>8, <2>2, <2>3
<1>14. \A id \in 1 .. Len(log') :
         id # in_flight /\ (\A i \in 1 .. n : id # q[i]) =>
           log'[id].outcome = IF id <= Len(log) THEN log[id].outcome ELSE "open"
  <2> SUFFICES ASSUME NEW id \in 1 .. Len(log'), id # in_flight, \A i \in 1 .. n : id # q[i]
               PROVE  log'[id].outcome = IF id <= Len(log) THEN log[id].outcome ELSE "open"
    OBVIOUS
  <2>1. id \notin popped BY <1>5
  <2>2. log'[id].outcome = l2[id].outcome BY <1>8, <2>1
  <2>3. CASE id <= Len(log)
    <3>1. id \in 1 .. Len(log) BY <1>9, <2>3
    <3> QED BY <1>1, <2>2, <2>3, <3>1
  <2>4. CASE ~(id <= Len(log))
    <3>1. id > Len(log) BY <1>9, <2>4
    <3> QED BY <1>1, <1>8, <2>2, <2>4, <3>1
  <2> QED BY <2>3, <2>4
<1>15. \/ /\ in_flight' = None
          /\ pending_queue' = SubSeq(q, n + 1, Len(q))
       \/ /\ n < Len(q)
          /\ in_flight' = q[n + 1]
          /\ pending_queue' = SubSeq(q, n + 2, Len(q))
  <2>1. CASE k <= Len(q)
    <3>1. n < Len(q) BY <1>9, <2>1
    <3> HIDE DEF n
    <3> QED BY <1>3, <1>10, <2>1, <3>1
  <2>2. CASE ~(k <= Len(q))
    <3>1. Len(q) < k /\ Len(q) < k + 1 /\ k \in Int /\ k + 1 \in Int /\ Len(q) \in Int
      BY <1>9, <2>2
    <3>2. SubSeq(q, k + 1, Len(q)) = << >> /\ SubSeq(q, k, Len(q)) = << >> BY <3>1, SubSeqEmpty
    <3> HIDE DEF n
    <3> QED BY <1>3, <1>10, <2>2, <3>2
  <2> QED BY <2>1, <2>2
<1> HIDE DEF n
<1>16. q = pending_queue \o NextIds(cmds) BY DEF q
<1>17. Turned(cmds, q, n) BY <1>8, <1>10, <1>11, <1>12, <1>13, <1>14, <1>15, <1>16, Zenon DEF Turned
<1> QED BY <1>17, TurnAdvances

\* No request of the core's own: the queue is the one there was.
LEMMA NoArrivals ==
  ASSUME IInv
  PROVE  /\ << >> \in Seq(Command) /\ Len(<< >>) = 0
         /\ pending_queue \o NextIds(<< >>) = pending_queue
         /\ \A lg \in Seq(Request) : lg \o InternalRequests(<< >>) = lg
<1>1. NextIds(<< >>) = << >> /\ InternalRequests(<< >>) = << >>
  BY DEF NextIds, InternalRequests
<1>2. pending_queue \in Seq(1 .. Len(log)) BY DEF IInv, TypeOK, Ids
<1>3. pending_queue \o << >> = pending_queue BY <1>2, ConcatEmptySeq
<1>4. \A lg \in Seq(Request) : lg \o << >> = lg BY ConcatEmptySeq
<1>5. << >> \in Seq(Command) /\ Len(<< >>) = 0 OBVIOUS
<1>6. \A lg \in Seq(Request) : lg \o InternalRequests(<< >>) = lg BY <1>1, <1>4, Zenon
<1> QED BY <1>1, <1>3, <1>5, <1>6, Zenon

-----------------------------------------------------------------------------
(* The steps of the multiplexer.                                           *)

\* check_in_flight_timeout gives up the one in service.
LEMMA TimeoutTurn ==
  ASSUME IInv, IInv', Timeout
  PROVE  T!Next
<1> DEFINE st == Settle(log, {in_flight}, "failed")
<1>1. log \in Seq(Request) /\ "failed" \in Outcomes BY DEF IInv, TypeOK, Outcomes
<1>2. /\ st \in Seq(Request) /\ Len(st) = Len(log)
      /\ \A i \in 1 .. Len(log) : st[i].outcome = IF i \in {in_flight} THEN "failed" ELSE log[i].outcome
  BY <1>1, SettleFacts
<1>3. advance_queue(st, pending_queue, cached) BY DEF Timeout
<1> HIDE DEF st
<1>4. /\ << >> \in Seq(Command)
      /\ pending_queue \o NextIds(<< >>) = pending_queue
      /\ st \o InternalRequests(<< >>) = st
  BY <1>2, NoArrivals
<1>5. advance_queue(st \o InternalRequests(<< >>), pending_queue \o NextIds(<< >>), cached)
  BY <1>3, <1>4
<1>6. in_flight # None => in_flight \in 1 .. Len(log) BY DEF IInv, TypeOK, Ids
<1>7. in_flight # None => st[in_flight].outcome # "open" BY <1>2, <1>6
<1>8. \A id \in 1 .. Len(log) : id # in_flight => st[id].outcome = log[id].outcome BY <1>2
<1> QED BY <1>2, <1>4, <1>5, <1>7, <1>8, AdvanceTurn

\* The frame that completes the request in flight ends it with an answer.
LEMMA RouteReplyTurn ==
  ASSUME IInv, IInv', RouteReply
  PROVE  T!Next \/ UNCHANGED T!vars
<1> DEFINE f     == Head(fromRadio)
           req   == log[in_flight]
           await == awaiting_for(req.cmd)
           again == Refreshes(req.cmd, f.code)
           o     == Outcome(f.code)
           ended == Settle(log, {in_flight}, o)
<1>1. /\ in_flight # None
      /\ IF Completes(await, f.code)
         THEN advance_queue(ended \o InternalRequests(again),
                            pending_queue \o NextIds(again),
                            CacheResponse(cached, f))
         ELSE UNCHANGED <<log, pending_queue, in_flight, toRadio>>
  BY Zenon DEF RouteReply
<1>2. log \in Seq(Request) /\ in_flight \in 1 .. Len(log)
  BY <1>1 DEF IInv, TypeOK, Ids
<1>3. again \in Seq(Command)
  <2>1. req \in Request BY <1>2
  <2>2. req.cmd \in Command BY <2>1 DEF Request
  <2> QED BY <2>2, RefreshType
<1>4. o \in Outcomes /\ o # "open" BY DEF Outcome, Outcomes
<1> HIDE DEF f, o
<1>5. /\ ended \in Seq(Request) /\ Len(ended) = Len(log)
      /\ \A i \in 1 .. Len(log) : ended[i].outcome = IF i \in {in_flight} THEN o ELSE log[i].outcome
  BY <1>2, <1>4, SettleFacts
<1> HIDE DEF ended, again, await, req
<1>6. CASE Completes(await, f.code)
  <2>1. advance_queue(ended \o InternalRequests(again), pending_queue \o NextIds(again),
                      CacheResponse(cached, f))
    BY <1>1, <1>6
  <2>2. ended[in_flight].outcome # "open" BY <1>2, <1>4, <1>5
  <2>3. \A id \in 1 .. Len(log) : id # in_flight => ended[id].outcome = log[id].outcome BY <1>5
  <2> QED BY <1>3, <1>5, <2>1, <2>2, <2>3, AdvanceTurn
<1>7. CASE ~Completes(await, f.code)
  <2>1. UNCHANGED <<log, pending_queue, in_flight>> BY <1>1, <1>7
  <2> QED BY <2>1, TurnStutters
<1> QED BY <1>6, <1>7

\* A request of the core's own comes last, and is served if nobody is.
LEMMA EnqueueTurn ==
  ASSUME IInv, IInv', NEW cmd \in Command, EnqueueInternal(cmd)
  PROVE  T!Next
<1> DEFINE cs == <<cmd>>
<1>1. cs \in Seq(Command) /\ log \in Seq(Request) /\ Len(cs) = 1 BY DEF IInv, TypeOK
<1>2. \/ in_flight = None /\ advance_queue(log \o InternalRequests(cs), pending_queue \o NextIds(cs), cached)
      \/ /\ in_flight # None
         /\ log' = log \o InternalRequests(cs)
         /\ pending_queue' = pending_queue \o NextIds(cs)
         /\ in_flight' = in_flight
  BY Zenon DEF EnqueueInternal
<1> HIDE DEF cs
<1>3. CASE in_flight = None /\ advance_queue(log \o InternalRequests(cs), pending_queue \o NextIds(cs), cached)
  BY <1>1, <1>3, AdvanceTurn
<1>4. CASE /\ in_flight # None
           /\ log' = log \o InternalRequests(cs)
           /\ pending_queue' = pending_queue \o NextIds(cs)
           /\ in_flight' = in_flight
  <2>1. /\ Len(log') = Len(log) + Len(cs)
        /\ \A id \in 1 .. Len(log) : log'[id] = log[id]
        /\ \A id \in 1 .. Len(log') : id > Len(log) => log'[id].outcome = "open"
    BY <1>1, <1>4, InternalFacts
  <2>2. \A id \in 1 .. Len(log') : id <= Len(log) => id \in 1 .. Len(log)
    BY EndingsFacts DEF Mapped
  <2>3. \A id \in 1 .. Len(log') : ~(id <= Len(log)) => id > Len(log)
    BY EndingsFacts DEF Mapped
  <2>4. \A id \in 1 .. Len(log') :
          log'[id].outcome = IF id <= Len(log) THEN log[id].outcome ELSE "open"
    BY <2>1, <2>2, <2>3
  <2> QED BY <1>1, <1>4, <2>1, <2>4, TurnArrives
<1> QED BY <1>2, <1>3, <1>4

\* The radio's verdict on a request is no turn of the queue.
LEMMA JudgeTurn ==
  ASSUME IInv, IInv', NEW id \in 1 .. Len(log), NEW v, Judge(id, v),
         UNCHANGED <<pending_queue, in_flight>>
  PROVE  UNCHANGED T!vars
<1>1. log \in Seq(Request) /\ DOMAIN log = 1 .. Len(log) /\ log' = [log EXCEPT ![id].verdict = v]
  BY DEF IInv, TypeOK, Judge
<1>2. DOMAIN log' = 1 .. Len(log) BY <1>1
<1>3. Len(log') = Len(log) BY <1>2, EndingsFacts, EndingsFactsNext DEF Mapped
<1>4. \A x \in 1 .. Len(log) : log'[x] = IF x = id THEN [log[x] EXCEPT !.verdict = v] ELSE log[x]
  BY <1>1
<1>5. \A x \in 1 .. Len(log) : log[x] \in Request BY <1>1
<1>6. \A r \in Request : [r EXCEPT !.verdict = v].outcome = r.outcome BY DEF Request
<1>7. \A x \in 1 .. Len(log) : log'[x].outcome = log[x].outcome BY <1>4, <1>5, <1>6
<1> QED BY <1>3, <1>7, TurnStutters

\* One request comes.
LEMMA OneArrives ==
  ASSUME IInv, NEW cmd \in Command
  PROVE  /\ <<cmd>> \in Seq(Command) /\ Len(<<cmd>>) = 1
         /\ pending_queue \o NextIds(<<cmd>>) = Append(pending_queue, Len(log) + 1)
<1> DEFINE id == Len(log) + 1
           S  == 1 .. id
<1>1. <<cmd>> \in Seq(Command) /\ Len(<<cmd>>) = 1 /\ DOMAIN <<cmd>> = 1 .. 1 OBVIOUS
<1>2. Len(log) \in Nat /\ pending_queue \in Seq(1 .. Len(log)) BY DEF IInv, TypeOK, Ids
<1>3. 1 .. Len(log) \subseteq S /\ id \in S BY <1>2
<1>4. NextIds(<<cmd>>) = [i \in 1 .. 1 |-> Len(log) + i] BY <1>1 DEF NextIds
<1>5. [i \in 1 .. 1 |-> Len(log) + i] = <<id>> BY <1>2
<1> HIDE DEF id, S
<1>6. pending_queue \in Seq(S) BY <1>2, <1>3, SeqMonotonic
<1>7. pending_queue \o <<id>> = Append(pending_queue, id)
  <2>1. <<id>> \in Seq(S) /\ Len(<<id>>) = 1 /\ <<id>>[1] = id BY <1>3
  <2>2. /\ pending_queue \o <<id>> \in Seq(S)
        /\ Len(pending_queue \o <<id>>) = Len(pending_queue) + 1
        /\ \A i \in 1 .. Len(pending_queue) + 1 :
             (pending_queue \o <<id>>)[i] = IF i <= Len(pending_queue) THEN pending_queue[i]
                                            ELSE <<id>>[i - Len(pending_queue)]
    BY <1>6, <2>1, ConcatProperties
  <2>3. Len(pending_queue) \in Nat BY <1>6
  <2>4. /\ Append(pending_queue, id) \in Seq(S)
        /\ Len(Append(pending_queue, id)) = Len(pending_queue) + 1
        /\ \A i \in 1 .. Len(pending_queue) : Append(pending_queue, id)[i] = pending_queue[i]
        /\ Append(pending_queue, id)[Len(pending_queue) + 1] = id
    BY <1>3, <1>6, AppendProperties
  <2>5. \A i \in 1 .. Len(pending_queue) + 1 :
          (pending_queue \o <<id>>)[i] = Append(pending_queue, id)[i]
    <3> TAKE i \in 1 .. Len(pending_queue) + 1
    <3>1. CASE i <= Len(pending_queue)
      <4>1. i \in 1 .. Len(pending_queue) BY <2>3, <3>1
      <4> QED BY <2>2, <2>4, <3>1, <4>1
    <3>2. CASE ~(i <= Len(pending_queue))
      <4>1. i = Len(pending_queue) + 1 /\ i - Len(pending_queue) = 1 BY <2>3, <3>2
      <4> QED BY <2>1, <2>2, <2>4, <3>2, <4>1
    <3> QED BY <3>1, <3>2
  <2> QED BY <2>2, <2>4, <2>5, SeqEqual
<1> QED BY <1>1, <1>4, <1>5, <1>7 DEF id

\* A client's command comes: it waits, is served at once, or fails.
LEMMA ForwardTurn ==
  ASSUME IInv, IInv', Forward
  PROVE  T!Next
<1> DEFINE m  == Head(command_rx)
           id == Len(log) + 1
           r  == NewRequest(m.client, m.cmd)
           lg == Append(log, r)
<1>1. \/ /\ in_flight # None
         /\ log' = lg
         /\ pending_queue' = Append(pending_queue, id)
         /\ UNCHANGED <<in_flight, toRadio>>
      \/ /\ in_flight = None /\ writer
         /\ log' = lg
         /\ in_flight' = id
         /\ UNCHANGED pending_queue
      \/ /\ in_flight = None
         /\ log' = Settle(lg, {id}, "failed")
         /\ UNCHANGED <<pending_queue, in_flight, toRadio>>
  BY Zenon DEF Forward
<1>2. log \in Seq(Request) /\ Len(log) \in Nat /\ pending_queue \in Seq(1 .. Len(log))
      /\ command_rx # << >>
  BY DEF IInv, TypeOK, Ids, Forward, CommandReady
<1>3. m.client \in Clients /\ m.cmd \in Command
  <2>1. command_rx \in Seq([client : channels \cup gone, cmd : Commands])
        /\ channels \subseteq Clients /\ gone \subseteq Clients
    BY DEF IInv, TypeOK
  <2> DEFINE S == [client : channels \cup gone, cmd : Commands]
  <2>2. command_rx \in Seq(S) BY <2>1
  <2> HIDE DEF S
  <2>3. m \in S BY <1>2, <2>2, Shift
  <2> QED BY <2>1, <2>3, CommandsAssumption DEF S
<1>4. r \in Request /\ r.outcome = "open" BY <1>3 DEF NewRequest, Request
<1> DEFINE cs == <<m.cmd>>
<1>5. /\ cs \in Seq(Command) /\ Len(cs) = 1
      /\ pending_queue \o NextIds(cs) = Append(pending_queue, id)
  BY <1>3, OneArrives
<1> HIDE DEF r, m, cs
<1>6. /\ lg \in Seq(Request) /\ Len(lg) = Len(log) + 1
      /\ lg[Len(log) + 1] = r
      /\ \A i \in 1 .. Len(log) : lg[i] = log[i]
  BY <1>2, <1>4, AppendRequest
<1> HIDE DEF lg
<1>7. \A i \in 1 .. Len(log) + 1 :
        lg[i].outcome = IF i <= Len(log) THEN log[i].outcome ELSE "open"
  <2>1. \A i \in 1 .. Len(log) + 1 : IF i <= Len(log) THEN i \in 1 .. Len(log) ELSE i = Len(log) + 1
    BY <1>2
  <2> QED BY <1>4, <1>6, <2>1
<1>8. CASE /\ in_flight # None
           /\ log' = lg
           /\ pending_queue' = Append(pending_queue, id)
           /\ UNCHANGED <<in_flight, toRadio>>
  <2>1. Len(log') = Len(log) + Len(cs) BY <1>5, <1>6, <1>8
  <2>2. \A i \in 1 .. Len(log') :
          log'[i].outcome = IF i <= Len(log) THEN log[i].outcome ELSE "open"
    BY <1>6, <1>7, <1>8
  <2>3. pending_queue' = pending_queue \o NextIds(cs) BY <1>5, <1>8
  <2> QED BY <1>5, <1>8, <2>1, <2>2, <2>3, TurnArrives
<1>9. CASE /\ in_flight = None /\ writer
           /\ log' = lg
           /\ in_flight' = id
           /\ UNCHANGED pending_queue
  <2> DEFINE q == pending_queue \o NextIds(cs)
  <2>1. pending_queue = << >> BY <1>9 DEF IInv, WorkConserving
  <2>2. Len(log') = Len(log) + Len(cs) /\ Len(log') = id BY <1>5, <1>6, <1>9
  <2>3. q = <<id>> BY <1>5, <2>1
  <2>4. id \in 1 .. Len(log') BY <1>2, <2>2
  <2> DEFINE n == 0
  <2>5. q \in Seq(1 .. Len(log')) /\ Len(q) = 1 /\ q[1] = id BY <2>3, <2>4
  <2>6. SubSeq(q, 2, Len(q)) = << >> BY <2>5, SubSeqEmpty
  <2>7. \A i \in 1 .. Len(log') :
          log'[i].outcome = IF i <= Len(log) THEN log[i].outcome ELSE "open"
    BY <1>6, <1>7, <1>9
  <2>8. q = pending_queue \o NextIds(cs) OBVIOUS
  <2> HIDE DEF q, id
  <2>9. n \in 0 .. Len(q) /\ n < Len(q) /\ n + 1 = 1 /\ n + 2 = 2 BY <2>5
  <2>10. n < Len(q) /\ in_flight' = q[n + 1] /\ pending_queue' = SubSeq(q, n + 2, Len(q))
    BY <1>9, <2>1, <2>5, <2>6
  <2>11. \A i \in 1 .. n : log'[q[i]].outcome \in {"failed", "dropped"} OBVIOUS
  <2> HIDE DEF n
  <2>12. Turned(cs, q, n) BY <1>5, <1>9, <2>2, <2>5, <2>7, <2>8, <2>9, <2>10, <2>11, Zenon DEF Turned
  <2> QED BY <2>12, TurnAdvances
<1>10. CASE /\ in_flight = None
            /\ log' = Settle(lg, {id}, "failed")
            /\ UNCHANGED <<pending_queue, in_flight, toRadio>>
  <2>1. "failed" \in Outcomes BY DEF Outcomes
  <2>2. /\ Len(log') = Len(lg)
        /\ \A i \in 1 .. Len(lg) : log'[i].outcome = IF i \in {id} THEN "failed" ELSE lg[i].outcome
    <3> HIDE DEF id
    <3> QED BY <1>6, <1>10, <2>1, SettleFacts
  <2>3. Mapped /\ Mapped' BY EndingsFacts, EndingsFactsNext
  <2>4. /\ \A i \in 1 .. Len(log) : Endings'[i] = Endings[i]
        /\ Endings'[Len(log) + 1] = "failed"
        /\ Len(Endings') = Len(log) + 1 /\ Len(Endings) = Len(log)
    <3>1. \A i \in 1 .. Len(log) : i \in 1 .. Len(log) + 1 /\ i # id /\ i <= Len(log) BY <1>2
    <3>2. id \in 1 .. Len(log) + 1 BY <1>2
    <3>3. \A i \in 1 .. Len(log) + 1 : Endings'[i] = IF i = id THEN "failed" ELSE lg[i].outcome
      BY <1>6, <2>2, <2>3 DEF Mapped
    <3>4. \A i \in 1 .. Len(log) : Endings'[i] = log[i].outcome BY <1>7, <3>1, <3>3
    <3>5. \A i \in 1 .. Len(log) : Endings[i] = log[i].outcome BY <2>3 DEF Mapped
    <3>6. Len(Endings') = Len(log) + 1 /\ Len(Endings) = Len(log) BY <1>6, <2>2, <2>3 DEF Mapped
    <3> QED BY <3>2, <3>3, <3>4, <3>5, <3>6
  <2>5. Endings \in Seq(Outcomes) /\ Endings' \in Seq(Outcomes)
    <3>1. Endings = [id_1 \in 1 .. Len(log) |-> log[id_1].outcome] BY <2>3 DEF Mapped, Endings
    <3>2. Endings' = [id_1 \in 1 .. Len(log') |-> log'[id_1].outcome] BY <2>3 DEF Mapped, Endings
    <3>3. Endings \in [1 .. Len(log) -> Outcomes] BY <2>3, <3>1 DEF Mapped
    <3>4. Endings' \in [1 .. Len(log') -> Outcomes] BY <2>3, <3>2 DEF Mapped
    <3>5. Len(log) \in Nat /\ Len(log') \in Nat BY <2>3 DEF Mapped
    <3> QED BY <3>3, <3>4, <3>5, SeqDef
  <2>6. Endings' = Append(Endings, "failed")
    <3>1. /\ Append(Endings, "failed") \in Seq(Outcomes)
          /\ Len(Append(Endings, "failed")) = Len(Endings) + 1
          /\ \A i \in 1 .. Len(Endings) : Append(Endings, "failed")[i] = Endings[i]
          /\ Append(Endings, "failed")[Len(Endings) + 1] = "failed"
      BY <2>1, <2>5, AppendProperties
    <3>2. \A i \in 1 .. Len(Endings') : i \in 1 .. Len(log) \/ i = Len(log) + 1 BY <1>2, <2>4
    <3>3. \A i \in 1 .. Len(Endings') : Endings'[i] = Append(Endings, "failed")[i]
      BY <2>4, <3>1, <3>2
    <3> QED BY <2>4, <2>5, <3>1, <3>3, SeqEqual
  <2>7. Len(Endings') >= Len(Endings) BY <1>2, <2>4
  <2>8. in_flight = T!Nobody /\ in_flight' = T!Nobody /\ pending_queue' = pending_queue
    BY <1>10 DEF T!Nobody, None
  <2>9. T!Refuse BY <2>6, <2>8, Zenon DEF T!Refuse
  <2> QED BY <2>7, <2>9, Zenon DEF T!Next
<1> QED BY <1>1, <1>8, <1>9, <1>10

\* A lost connection gives up the one in service and all who wait.
LEMMA LoseRadioTurn ==
  ASSUME IInv, IInv', LoseRadio
  PROVE  T!Next
<1> DEFINE held == {in_flight} \cup Range(pending_queue)
           q    == pending_queue
           n    == Len(pending_queue)
<1>1. /\ log' = Settle(log, held, "failed")
      /\ in_flight' = None
      /\ pending_queue' = << >>
  BY DEF LoseRadio
<1>2. /\ log \in Seq(Request) /\ Len(log) \in Nat
      /\ q \in Seq(1 .. Len(log)) /\ n \in Nat /\ DOMAIN q = 1 .. n
      /\ "failed" \in Outcomes
  <2>1. log \in Seq(Request) /\ q \in Seq(1 .. Len(log)) BY DEF IInv, TypeOK, Ids
  <2>2. Len(log) \in Nat BY <2>1
  <2>3. n \in Nat /\ DOMAIN q = 1 .. n BY <2>1
  <2> QED BY <2>1, <2>2, <2>3 DEF Outcomes
<1>3. \A id : id \in held <=> id = in_flight \/ \E i \in 1 .. n : q[i] = id
  BY <1>2 DEF Range
<1> HIDE DEF held
<1>4. /\ Len(log') = Len(log)
      /\ \A i \in 1 .. Len(log) : log'[i].outcome = IF i \in held THEN "failed" ELSE log[i].outcome
  BY <1>1, <1>2, SettleFacts
<1> DEFINE cs == << >>
<1>5. cs \in Seq(Command) /\ Len(cs) = 0 /\ q = pending_queue \o NextIds(cs) BY NoArrivals
<1> HIDE DEF cs
<1>6. Len(log') = Len(log) + Len(cs) BY <1>2, <1>4, <1>5
<1>7. in_flight # None => log'[in_flight].outcome # "open"
  <2>1. in_flight # None => in_flight \in 1 .. Len(log) BY DEF IInv, TypeOK, Ids
  <2> QED BY <1>3, <1>4, <2>1
<1>8. \A i \in 1 .. n : log'[q[i]].outcome \in {"failed", "dropped"}
  <2>1. \A i \in 1 .. n : q[i] \in 1 .. Len(log) BY <1>2
  <2> QED BY <1>3, <1>4, <2>1
<1>9. \A id \in 1 .. Len(log') : id # in_flight /\ (\A i \in 1 .. n : id # q[i]) =>
        log'[id].outcome = IF id <= Len(log) THEN log[id].outcome ELSE "open"
  <2>1. \A id \in 1 .. Len(log') : id <= Len(log) BY <1>2, <1>4
  <2> QED BY <1>3, <1>4, <2>1
<1>10. pending_queue' = SubSeq(q, n + 1, Len(q))
  <2>1. n < n + 1 /\ n \in Int /\ n + 1 \in Int BY <1>2
  <2>2. SubSeq(q, n + 1, n) = << >> BY <2>1, SubSeqEmpty
  <2> QED BY <1>1, <2>2
<1>11. n \in 0 .. Len(q) /\ q \in Seq(1 .. Len(log')) BY <1>2, <1>4
<1> HIDE DEF q, n
<1>12. Turned(cs, q, n) BY <1>1, <1>5, <1>6, <1>7, <1>8, <1>9, <1>10, <1>11, Zenon DEF Turned
<1> QED BY <1>12, TurnAdvances

\* A new connection brings the sync requests, and the first of them is served
\* or given up.
LEMMA ReconnectTurn ==
  ASSUME IInv, IInv', Reconnect
  PROVE  T!Next
<1> DEFINE q  == NextIds(SyncCommands)
           lg == log \o InternalRequests(SyncCommands)
           h  == Head(q)
<1>1. /\ link = "down" /\ writer' \in BOOLEAN
      /\ log' = IF writer' THEN lg ELSE Settle(lg, {h}, "failed")
      /\ in_flight' = IF writer' THEN h ELSE None
      /\ pending_queue' = Tail(q)
  BY DEF Reconnect
<1>2. log \in Seq(Request) /\ Len(log) \in Nat /\ pending_queue = << >> /\ in_flight = None
  BY <1>1 DEF IInv, TypeOK
<1>3. /\ SyncCommands \in Seq(Command) /\ Len(SyncCommands) >= 1 /\ Len(SyncCommands) \in Nat
      /\ DOMAIN SyncCommands = 1 .. Len(SyncCommands)
  BY SyncType
<1>4. q \in Seq(Nat) /\ Len(q) = Len(SyncCommands)
  <2>1. q = [i \in 1 .. Len(SyncCommands) |-> Len(log) + i] BY <1>3 DEF NextIds
  <2>2. q \in [1 .. Len(SyncCommands) -> Nat] BY <1>2, <2>1
  <2> QED BY <1>3, <2>2, SeqDef
<1>5. pending_queue \o q = q BY <1>2, <1>4, ConcatEmptySeq
<1>6. /\ lg \in Seq(Request) /\ Len(lg) = Len(log) + Len(SyncCommands)
      /\ \A id \in 1 .. Len(log) : lg[id] = log[id]
      /\ \A id \in 1 .. Len(lg) : id > Len(log) => lg[id].outcome = "open"
      /\ pending_queue \o q \in Seq(1 .. Len(lg))
  BY <1>2, <1>3, InternalFacts
<1>7. q \in Seq(1 .. Len(lg)) BY <1>5, <1>6
<1>8. q = pending_queue \o NextIds(SyncCommands) BY <1>5
<1>9. q # << >> BY <1>3, <1>4
<1> HIDE DEF q, lg
<1>10. h = q[1] /\ 1 \in 1 .. Len(q) /\ h \in 1 .. Len(lg) /\ Tail(q) = SubSeq(q, 2, Len(q))
  <2> DEFINE S == 1 .. Len(lg)
  <2>1. q \in Seq(S) BY <1>7
  <2> HIDE DEF S
  <2>2. h \in S /\ h = q[1] /\ 1 \in 1 .. Len(q) BY <1>9, <2>1, Shift
  <2>3. Tail(q) = SubSeq(q, 2, Len(q)) BY <1>9, <2>1, TailIsSubSeq
  <2> QED BY <2>2, <2>3 DEF S
<1> HIDE DEF h
<1>11. \A id \in 1 .. Len(lg) :
         lg[id].outcome = IF id <= Len(log) THEN log[id].outcome ELSE "open"
  <2>1. \A id \in 1 .. Len(lg) : IF id <= Len(log) THEN id \in 1 .. Len(log) ELSE id > Len(log)
    BY <1>2
  <2> QED BY <1>6, <2>1
<1>12. CASE writer' = TRUE
  <2>1. log' = lg /\ in_flight' = h BY <1>1, <1>12
  <2> DEFINE n == 0
  <2>2. n \in 0 .. Len(q) /\ n < Len(q) /\ n + 1 = 1 /\ n + 2 = 2 BY <1>3, <1>4
  <2>3. \A i \in 1 .. n : log'[q[i]].outcome \in {"failed", "dropped"} OBVIOUS
  <2> HIDE DEF n
  <2>4. n < Len(q) /\ in_flight' = q[n + 1] /\ pending_queue' = SubSeq(q, n + 2, Len(q))
    BY <1>1, <1>10, <2>1, <2>2
  <2>5. Len(log') = Len(log) + Len(SyncCommands) /\ q \in Seq(1 .. Len(log')) BY <1>6, <1>7, <2>1
  <2>6. \A id \in 1 .. Len(log') : log'[id].outcome = IF id <= Len(log) THEN log[id].outcome ELSE "open"
    BY <1>11, <2>1
  <2>7. Turned(SyncCommands, q, n)
    BY <1>2, <1>3, <1>8, <2>2, <2>3, <2>4, <2>5, <2>6, Zenon DEF Turned
  <2> QED BY <2>7, TurnAdvances
<1>13. CASE writer' = FALSE
  <2>1. log' = Settle(lg, {h}, "failed") /\ in_flight' = None BY <1>1, <1>13
  <2>2. "failed" \in Outcomes BY DEF Outcomes
  <2>3. /\ Len(log') = Len(lg)
        /\ \A i \in 1 .. Len(lg) : log'[i].outcome = IF i \in {h} THEN "failed" ELSE lg[i].outcome
    <3> DEFINE hs == {h}
    <3>1. log' = Settle(lg, hs, "failed") /\ lg \in Seq(Request) BY <1>6, <2>1
    <3> HIDE DEF hs
    <3>2. /\ Len(Settle(lg, hs, "failed")) = Len(lg)
          /\ \A i \in 1 .. Len(lg) :
               Settle(lg, hs, "failed")[i].outcome = IF i \in hs THEN "failed" ELSE lg[i].outcome
      BY <2>2, <3>1, SettleFacts
    <3> QED BY <3>1, <3>2 DEF hs
  <2> DEFINE n == 1
  <2>4. n \in 0 .. Len(q) /\ n + 1 = 2 /\ 1 \in 1 .. n /\ \A i \in 1 .. n : i = 1 BY <1>3, <1>4
  <2> HIDE DEF n
  <2>5. \A i \in 1 .. n : log'[q[i]].outcome \in {"failed", "dropped"} BY <1>10, <2>3, <2>4
  <2>6. \A id \in 1 .. Len(log') : id # in_flight /\ (\A i \in 1 .. n : id # q[i]) =>
          log'[id].outcome = IF id <= Len(log) THEN log[id].outcome ELSE "open"
    <3> SUFFICES ASSUME NEW id \in 1 .. Len(log'), \A i \in 1 .. n : id # q[i]
                 PROVE  log'[id].outcome = IF id <= Len(log) THEN log[id].outcome ELSE "open"
      OBVIOUS
    <3>1. id # h BY <1>10, <2>4
    <3>2. log'[id].outcome = lg[id].outcome BY <2>3, <3>1
    <3> QED BY <1>11, <2>3, <3>2
  <2>7. pending_queue' = SubSeq(q, n + 1, Len(q)) BY <1>1, <1>10, <2>4
  <2>8. Len(log') = Len(log) + Len(SyncCommands) /\ q \in Seq(1 .. Len(log')) BY <1>6, <1>7, <2>3
  <2>9. Turned(SyncCommands, q, n)
    BY <1>2, <1>3, <1>8, <2>1, <2>4, <2>5, <2>6, <2>7, <2>8, Zenon DEF Turned
  <2> QED BY <2>9, TurnAdvances
<1> QED BY <1>1, <1>12, <1>13

\* A push is followed by a request of the core's own, or by nothing.
LEMMA BroadcastTurn ==
  ASSUME IInv, IInv', BroadcastOrDrop
  PROVE  T!Next \/ UNCHANGED T!vars
<1>1. CASE EnqueueInternal(ContactSync(Head(fromRadio).arg))
  <2> DEFINE S == Frame(Len(log))
  <2>1. fromRadio \in Seq(S) /\ fromRadio # << >> BY DEF IInv, TypeOK, BroadcastOrDrop, FrameReady
  <2> HIDE DEF S
  <2>2. Head(fromRadio) \in S BY <2>1
  <2>3. Head(fromRadio).arg \in Args BY <2>2 DEF S, Frame
  <2>4. ContactSync(Head(fromRadio).arg) \in Command
    BY <2>3 DEF ContactSync, Command, Byte, GetContactByKey
  <2> QED BY <1>1, <2>4, EnqueueTurn
<1>2. CASE UNCHANGED <<log, pending_queue, in_flight>>
  BY <1>2, TurnStutters
<1> QED BY <1>1, <1>2 DEF BroadcastOrDrop

\* The daily maintenance adds a request of the core's own, or nothing.
LEMMA MaintenanceTurn ==
  ASSUME IInv, IInv', Maintenance
  PROVE  T!Next \/ UNCHANGED T!vars
<1>1. CASE EnqueueInternal(FullSync)
  <2>1. FullSync \in Command
    BY CommandsAssumption DEF FullSync, Command, Byte, GetContacts
  <2> QED BY <1>1, <2>1, EnqueueTurn
<1>2. CASE UNCHANGED <<log, pending_queue, in_flight>>
  BY <1>2, TurnStutters
<1> QED BY <1>1, <1>2 DEF Maintenance

\* Nothing the radio does is a turn of the queue.
LEMMA RadioTurn ==
  ASSUME IInv, IInv', Radio
  PROVE  UNCHANGED T!vars
<1>1. UNCHANGED <<pending_queue, in_flight>>
  BY DEF Radio, RadioAnswer, RadioSilent, RadioIterate, RadioPush, RadioAck, WriterEnds, RelayEnds
<1>2. Ranges BY RangesHold
<1>3. CASE log' = log BY <1>1, <1>3, TurnStutters
<1>4. ASSUME RadioAnswer PROVE UNCHANGED T!vars
  <2>1. toRadio # << >> /\ toRadio \in Seq(1 .. Len(log))
    BY <1>4 DEF RadioAnswer, IInv, TypeOK, Ids
  <2>2. Head(toRadio) \in 1 .. Len(log)
    <3> DEFINE S == 1 .. Len(log)
    <3>1. toRadio \in Seq(S) BY <2>1
    <3> HIDE DEF S
    <3>2. Head(toRadio) \in S BY <2>1, <3>1
    <3> QED BY <3>2 DEF S
  <2>3. log' = log \/ \E v : Judge(Head(toRadio), v) BY <1>4 DEF RadioAnswer
  <2> QED BY <1>1, <1>3, <2>2, <2>3, JudgeTurn
<1>5. ASSUME RadioIterate PROVE UNCHANGED T!vars
  <2>1. iter.req \in 1 .. Len(log)
    BY <1>2, <1>5 DEF RadioIterate, IInv, Ranges, None
  <2>2. log' = log \/ Judge(iter.req, "ok") BY <1>5 DEF RadioIterate
  <2> QED BY <1>1, <1>3, <2>1, <2>2, JudgeTurn
<1>6. ASSUME RadioSilent \/ RadioPush \/ RadioAck \/ WriterEnds \/ RelayEnds PROVE log' = log
  BY <1>6 DEF RadioSilent, RadioPush, RadioAck, WriterEnds, RelayEnds
<1> QED BY <1>3, <1>4, <1>5, <1>6 DEF Radio

-----------------------------------------------------------------------------
\* The empty queue maps to the empty queue.
LEMMA TurnInit == Init => T!Init
<1> SUFFICES ASSUME Init PROVE T!Init
  OBVIOUS
<1>1. log = << >> /\ in_flight = None /\ pending_queue = << >> BY DEF Init
<1>2. Endings = << >> BY <1>1 DEF Endings
<1> QED BY <1>1, <1>2 DEF T!Init, T!Nobody, None

\* Every step is a step of Turns or leaves its state alone.
LEMMA TurnStep == IInv /\ IInv' /\ [Next]_vars => [T!Next]_(T!vars)
<1> SUFFICES ASSUME IInv, IInv', [Next]_vars PROVE T!Next \/ UNCHANGED T!vars
  OBVIOUS
<1>1. ASSUME UNCHANGED <<log, pending_queue, in_flight>> PROVE UNCHANGED T!vars
  BY <1>1, TurnStutters
<1>2. ASSUME Core PROVE T!Next \/ UNCHANGED T!vars
  <2>1. ASSUME AnswerLocally \/ RouteAck PROVE UNCHANGED <<log, pending_queue, in_flight>>
    BY <2>1 DEF AnswerLocally, RouteAck
  <2> QED
    BY <1>1, <1>2, <2>1, ForwardTurn, RouteReplyTurn, BroadcastTurn, TimeoutTurn, MaintenanceTurn,
       LoseRadioTurn, ReconnectTurn DEF Core
<1>3. ASSUME Radio PROVE UNCHANGED T!vars
  BY <1>3, RadioTurn
<1>4. ASSUME NEW c \in Clients, Connect(c) \/ Disconnect(c)
      PROVE  UNCHANGED <<log, pending_queue, in_flight>>
  BY <1>4 DEF Connect, Disconnect
<1>5. ASSUME NEW c \in Clients, NEW cmd \in Commands, ClientSend(c, cmd)
      PROVE  UNCHANGED <<log, pending_queue, in_flight>>
  BY <1>5 DEF ClientSend
<1>6. ASSUME UNCHANGED vars PROVE UNCHANGED <<log, pending_queue, in_flight>>
  BY <1>6 DEF vars
<1> QED BY <1>1, <1>2, <1>3, <1>4, <1>5, <1>6 DEF Next

\* README: "serialized through a FIFO queue and forwarded one at a time to the
\* radio": the multiplexer implements the queue of Turns, whatever the clients,
\* the radio and the connection do.
THEOREM ServedInTurn == Spec => InTurn
<1>1. Spec => []IInv BY Inductive
<1>2. Init => T!Init BY TurnInit
<1>3. IInv /\ IInv' /\ [Next]_vars => [T!Next]_(T!vars) BY TurnStep
<1> QED BY <1>1, <1>2, <1>3, PTL DEF Spec, InTurn, T!Spec

==============================================================================
