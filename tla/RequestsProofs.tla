--------------------------- MODULE RequestsProofs ---------------------------
(***************************************************************************)
(* Theorems about Requests, for every set of clients, commands and pushes  *)
(* and every bound.                                                        *)
(***************************************************************************)
EXTENDS Requests, SequenceTheorems, TLAPS

Outcomes == {"open", "accepted", "rejected", "failed", "dropped"}

\* The books of the multiplexer: the log lg agrees with the queue q and the
\* slot s.
Book(lg, q, s) ==
  /\ lg \in Seq(Request)
  /\ q \in Seq(1 .. Len(lg))
  /\ s \in {None} \cup 1 .. Len(lg)
  /\ \A id \in 1 .. Len(lg) :
       lg[id].outcome = "open" <=> id = s \/ \E i \in 1 .. Len(q) : q[i] = id
  /\ \A i \in 1 .. Len(q) : s < q[i]
  /\ \A i, j \in 1 .. Len(q) : i < j => q[i] < q[j]
  /\ \A id \in 1 .. Len(lg) : lg[id].client \in {Internal} \cup channels \cup gone
  /\ \A id \in 1 .. Len(lg) : lg[id].outcome = "dropped" => lg[id].client \in gone

\* The requests that ended in lg ended the same way in lg2.
EndsStand(lg, lg2) ==
  \A id \in 1 .. Len(lg) : lg[id].outcome # "open" => lg2[id].outcome = lg[id].outcome

\* Settle changes the outcome of the named requests and nothing else.
LEMMA SettleFacts ==
  ASSUME NEW lg \in Seq(Request), NEW ids, NEW o \in Outcomes
  PROVE  /\ Settle(lg, ids, o) \in Seq(Request)
         /\ Len(Settle(lg, ids, o)) = Len(lg)
         /\ \A i \in 1 .. Len(lg) :
              /\ Settle(lg, ids, o)[i].outcome = IF i \in ids THEN o ELSE lg[i].outcome
              /\ Settle(lg, ids, o)[i].client = lg[i].client
              /\ Settle(lg, ids, o)[i].cmd = lg[i].cmd
              /\ Settle(lg, ids, o)[i].verdict = lg[i].verdict
<1> DEFINE st == Settle(lg, ids, o)
<1>1. \A i \in 1 .. Len(lg) : lg[i] \in Request
  OBVIOUS
<1>2. \A i \in 1 .. Len(lg) : [lg[i] EXCEPT !.outcome = o] \in Request
  BY <1>1 DEF Request, Outcomes
<1>3. st \in [1 .. Len(lg) -> Request]
  BY <1>1, <1>2 DEF Settle
<1>4. Len(lg) \in Nat
  OBVIOUS
<1>5. st \in Seq(Request)
  BY <1>3, <1>4, SeqDef
<1>6. Len(st) = Len(lg)
  BY <1>3, <1>4, <1>5
<1>7. ASSUME NEW i \in 1 .. Len(lg)
      PROVE  st[i] = IF i \in ids THEN [lg[i] EXCEPT !.outcome = o] ELSE lg[i]
  BY DOMAIN lg = 1 .. Len(lg), Zenon DEF Settle
<1>8. ASSUME NEW i \in 1 .. Len(lg)
      PROVE  /\ st[i].outcome = IF i \in ids THEN o ELSE lg[i].outcome
             /\ st[i].client = lg[i].client
             /\ st[i].cmd = lg[i].cmd
             /\ st[i].verdict = lg[i].verdict
  <2> HIDE DEF st
  <2> QED
    BY <1>1, <1>7 DEF Request
<1> QED
  BY <1>5, <1>6, <1>8

\* advance_queue keeps the books, leaves no request waiting for a free slot
\* while the radio can be sent to, and reopens nothing.
LEMMA AdvanceBook ==
  ASSUME NEW lg, NEW q, NEW entries,
         Book(lg, q, None),
         toRadio \in Seq(1 .. Len(lg)),
         writer \in BOOLEAN,
         advance_queue(lg, q, entries)
  PROVE  /\ Book(log', pending_queue', in_flight')
         /\ Len(log') = Len(lg)
         /\ toRadio' \in Seq(1 .. Len(lg))
         /\ writer /\ in_flight' = None => pending_queue' = << >>
         /\ \A id \in 1 .. Len(lg) :
              /\ lg[id].outcome # "open" => log'[id].outcome = lg[id].outcome
              /\ log'[id].client = lg[id].client
              /\ log'[id].cmd = lg[id].cmd
              /\ log'[id].verdict = lg[id].verdict
<1>0. /\ lg \in Seq(Request)
      /\ q \in Seq(1 .. Len(lg))
      /\ \A id \in 1 .. Len(lg) :
           lg[id].outcome = "open" <=> id = None \/ \E i \in 1 .. Len(q) : q[i] = id
      /\ \A i, j \in 1 .. Len(q) : i < j => q[i] < q[j]
      /\ \A id \in 1 .. Len(lg) : lg[id].client \in {Internal} \cup channels \cup gone
      /\ \A id \in 1 .. Len(lg) : lg[id].outcome = "dropped" => lg[id].client \in gone
      /\ Len(lg) \in Nat /\ Len(q) \in Nat
  BY DEF Book
<1>1. PICK k \in 1 .. Len(q) + 1 :
        LET popped  == {q[i] : i \in 1 .. k - 1}
            refused == {id \in popped : Alive(lg[id].client)}
        IN /\ writer => refused = {}
           /\ k <= Len(q) => writer /\ Alive(lg[q[k]].client)
           /\ log' = Settle(Settle(lg, refused, "failed"), popped \ refused, "dropped")
           /\ pending_queue' = SubSeq(q, k + 1, Len(q))
           /\ IF k <= Len(q)
              THEN /\ in_flight' = q[k]
                   /\ toRadio' = Append(toRadio, q[k])
                   /\ cached' = entries \ EvictedBy(lg[q[k]].cmd)
              ELSE /\ in_flight' = None
                   /\ toRadio' = toRadio
                   /\ cached' = entries
  BY Zenon DEF advance_queue
<1> DEFINE popped  == {q[i] : i \in 1 .. k - 1}
           refused == {id \in popped : Alive(lg[id].client)}
           lg1 == Settle(lg, refused, "failed")
<1>2. /\ writer => refused = {}
      /\ k <= Len(q) => writer /\ Alive(lg[q[k]].client)
      /\ log' = Settle(lg1, popped \ refused, "dropped")
      /\ pending_queue' = SubSeq(q, k + 1, Len(q))
      /\ k <= Len(q) => in_flight' = q[k] /\ toRadio' = Append(toRadio, q[k])
      /\ ~(k <= Len(q)) => in_flight' = None /\ toRadio' = toRadio
  BY <1>1, Zenon
<1>3. \A id : /\ id \in refused <=> id \in popped /\ Alive(lg[id].client)
              /\ id \in popped <=> \E i \in 1 .. k - 1 : q[i] = id
  BY Zenon
<1> HIDE DEF popped, refused
<1>4. /\ lg1 \in Seq(Request)
      /\ Len(lg1) = Len(lg)
      /\ \A i \in 1 .. Len(lg) :
           /\ lg1[i].outcome = IF i \in refused THEN "failed" ELSE lg[i].outcome
           /\ lg1[i].client = lg[i].client
           /\ lg1[i].cmd = lg[i].cmd
           /\ lg1[i].verdict = lg[i].verdict
  <2>1. "failed" \in Outcomes
    BY DEF Outcomes
  <2> QED
    BY <1>0, <2>1, SettleFacts
<1> HIDE DEF lg1
<1>5. /\ log' \in Seq(Request)
      /\ Len(log') = Len(lg)
      /\ \A id \in 1 .. Len(lg) :
           /\ log'[id].outcome = IF id \in refused THEN "failed"
                                 ELSE IF id \in popped THEN "dropped"
                                 ELSE lg[id].outcome
           /\ log'[id].client = lg[id].client
           /\ log'[id].cmd = lg[id].cmd
           /\ log'[id].verdict = lg[id].verdict
  <2>1. "dropped" \in Outcomes
    BY DEF Outcomes
  <2>2. /\ log' \in Seq(Request)
        /\ Len(log') = Len(lg1)
        /\ \A i \in 1 .. Len(lg1) :
             /\ log'[i].outcome = IF i \in popped \ refused THEN "dropped" ELSE lg1[i].outcome
             /\ log'[i].client = lg1[i].client
             /\ log'[i].cmd = lg1[i].cmd
             /\ log'[i].verdict = lg1[i].verdict
    <3> DEFINE unanswered == popped \ refused
    <3>1. log' = Settle(lg1, unanswered, "dropped")
      BY <1>2
    <3>2. \A i : i \in unanswered <=> i \in popped \ refused
      OBVIOUS
    <3> HIDE DEF unanswered
    <3> QED
      BY <1>4, <2>1, <3>1, <3>2, SettleFacts
  <2> QED
    BY <1>3, <1>4, <2>2
<1>6. \A i \in 1 .. Len(q) : q[i] \in 1 .. Len(lg)
  BY <1>0
<1>7. /\ Len(pending_queue') = Len(q) - (IF k <= Len(q) THEN k ELSE Len(q))
      /\ pending_queue' \in Seq(1 .. Len(lg))
      /\ \A i \in 1 .. Len(pending_queue') : pending_queue'[i] = q[k + i]
  <2>1. \A i \in k + 1 .. Len(q) : q[i] \in 1 .. Len(lg)
    BY <1>0, <1>6
  <2>2. /\ pending_queue' \in Seq(1 .. Len(lg))
        /\ Len(pending_queue') = IF k + 1 <= Len(q) THEN Len(q) - (k + 1) + 1 ELSE 0
        /\ \A i \in 1 .. Len(q) - (k + 1) + 1 : pending_queue'[i] = q[k + 1 + i - 1]
    BY <1>0, <1>2, <2>1, SubSeqProperties
  <2>3. \A i \in 1 .. Len(q) : k + 1 + i - 1 = k + i
    BY <1>0
  <2>4. CASE k <= Len(q)
    <3>1. Len(pending_queue') = Len(q) - k
      BY <1>0, <2>2, <2>4
    <3>2. ASSUME NEW i \in 1 .. Len(pending_queue')
          PROVE  pending_queue'[i] = q[k + i]
      <4>1. i \in 1 .. Len(q) - (k + 1) + 1 /\ i \in 1 .. Len(q)
        BY <1>0, <3>1
      <4>2. pending_queue'[i] = q[k + 1 + i - 1]
        BY <2>2, <4>1
      <4> QED
        BY <2>3, <4>1, <4>2
    <3> QED
      BY <2>2, <2>4, <3>1, <3>2
  <2>5. CASE ~(k <= Len(q))
    BY <1>0, <2>2, <2>5
  <2> QED
    BY <2>4, <2>5
<1>8. /\ toRadio' \in Seq(1 .. Len(lg))
      /\ in_flight' = IF k <= Len(q) THEN q[k] ELSE None
  <2>1. CASE k <= Len(q)
    <3>1. q[k] \in 1 .. Len(lg)
      BY <1>6, <2>1
    <3>2. Append(toRadio, q[k]) \in Seq(1 .. Len(lg))
      BY <3>1, AppendProperties
    <3> QED
      BY <1>2, <2>1, <3>2
  <2>2. CASE ~(k <= Len(q))
    BY <1>2, <2>2
  <2> QED
    BY <2>1, <2>2
<1>9. writer /\ in_flight' = None => pending_queue' = << >>
  <2>1. CASE k <= Len(q)
    BY <1>6, <1>8, <2>1 DEF None
  <2>2. CASE ~(k <= Len(q))
    BY <1>0, <1>7, <2>2
  <2> QED
    BY <2>1, <2>2
<1>10. \A id \in 1 .. Len(lg) : id \in popped => lg[id].outcome = "open"
  BY <1>0, <1>3
<1>11. \A id \in 1 .. Len(lg) :
         log'[id].outcome = "open" <=>
           id = in_flight' \/ \E i \in 1 .. Len(pending_queue') : pending_queue'[i] = id
  <2> SUFFICES ASSUME NEW id \in 1 .. Len(lg)
               PROVE  log'[id].outcome = "open" <=>
                        id = in_flight' \/ \E i \in 1 .. Len(pending_queue') : pending_queue'[i] = id
    OBVIOUS
  <2>1. log'[id].outcome = "open" <=> lg[id].outcome = "open" /\ id \notin popped
    BY <1>3, <1>5
  <2>2. lg[id].outcome = "open" <=> \E i \in 1 .. Len(q) : q[i] = id
    BY <1>0 DEF None
  <2>3. ASSUME NEW i \in 1 .. Len(q), q[i] = id
        PROVE  id \in popped <=> i < k
    <3>1. id \in popped <=> \E j \in 1 .. k - 1 : q[j] = id
      BY <1>3
    <3>2. ASSUME NEW j \in 1 .. k - 1, q[j] = id, ~(i < k)
          PROVE  FALSE
      <4>1. j \in 1 .. Len(q) /\ j < i
        BY <1>0, <3>2
      <4>2. q[j] < q[i]
        BY <1>0, <4>1
      <4> QED
        BY <2>3, <3>2, <4>2
    <3>3. i < k => i \in 1 .. k - 1
      BY <1>0
    <3> QED
      BY <2>3, <3>1, <3>2, <3>3
  <2>4. ASSUME NEW i \in 1 .. Len(q), q[i] = id, ~(i < k)
        PROVE  id = in_flight' \/ \E j \in 1 .. Len(pending_queue') : pending_queue'[j] = id
    <3>1. CASE i = k
      BY <3>1, <2>4, <1>8
    <3>2. CASE i > k
      <4>1. i - k \in 1 .. Len(pending_queue')
        BY <3>2, <1>7, <1>0
      <4>2. pending_queue'[i - k] = q[k + (i - k)]
        BY <4>1, <1>7
      <4>3. k + (i - k) = i
        BY <1>0
      <4> QED
        BY <4>1, <4>2, <4>3, <2>4
    <3> QED
      BY <3>1, <3>2, <2>4, <1>0
  <2>5. ASSUME id = in_flight'
        PROVE  \E i \in 1 .. Len(q) : q[i] = id /\ ~(i < k)
    BY <2>5, <1>8, <1>0 DEF None
  <2>6. ASSUME NEW j \in 1 .. Len(pending_queue'), pending_queue'[j] = id
        PROVE  \E i \in 1 .. Len(q) : q[i] = id /\ ~(i < k)
    <3>1. k + j \in 1 .. Len(q) /\ ~(k + j < k)
      BY <1>7, <1>0
    <3>2. q[k + j] = id
      BY <2>6, <1>7
    <3> QED
      BY <3>1, <3>2
  <2> QED
    BY <2>1, <2>2, <2>3, <2>4, <2>5, <2>6
<1>12. /\ \A i \in 1 .. Len(pending_queue') : in_flight' < pending_queue'[i]
       /\ \A i, j \in 1 .. Len(pending_queue') :
            i < j => pending_queue'[i] < pending_queue'[j]
  <2>1. ASSUME NEW i \in 1 .. Len(pending_queue')
        PROVE  k + i \in 1 .. Len(q) /\ k <= Len(q)
    BY <1>0, <1>7
  <2>2. ASSUME NEW i \in 1 .. Len(pending_queue')
        PROVE  in_flight' < pending_queue'[i]
    <3>1. k + i \in 1 .. Len(q) /\ k \in 1 .. Len(q) /\ k < k + i
      BY <1>0, <2>1
    <3>2. q[k] < q[k + i]
      BY <1>0, <3>1
    <3> QED
      BY <1>7, <1>8, <2>1, <3>2
  <2>3. ASSUME NEW i \in 1 .. Len(pending_queue'),
               NEW j \in 1 .. Len(pending_queue'), i < j
        PROVE  pending_queue'[i] < pending_queue'[j]
    <3>1. k + i \in 1 .. Len(q) /\ k + j \in 1 .. Len(q) /\ k + i < k + j
      BY <1>0, <2>1, <2>3
    <3>2. q[k + i] < q[k + j]
      BY <1>0, <3>1
    <3> QED
      BY <1>7, <3>2
  <2> QED
    BY <2>2, <2>3
<1>13. \A id \in 1 .. Len(lg) : log'[id].client \in {Internal} \cup channels \cup gone
  BY <1>0, <1>5
<1>14. \A id \in 1 .. Len(lg) : log'[id].outcome = "dropped" => log'[id].client \in gone
  BY <1>0, <1>3, <1>5 DEF Alive
<1>15. in_flight' \in {None} \cup 1 .. Len(lg)
  BY <1>6, <1>8
<1>16. \A id \in 1 .. Len(lg) :
         lg[id].outcome # "open" => log'[id].outcome = lg[id].outcome
  BY <1>3, <1>5, <1>10
<1>17. Book(log', pending_queue', in_flight')
  BY <1>5, <1>7, <1>11, <1>12, <1>13, <1>14, <1>15 DEF Book
<1> QED
  BY <1>5, <1>8, <1>9, <1>16, <1>17

\* New internal requests at the back of the queue keep the books.
LEMMA InternalBook ==
  ASSUME NEW lg, NEW q, NEW s, NEW cmds \in Seq(Command),
         Book(lg, q, s), Len(lg) = Len(log)
  PROVE  /\ Book(lg \o InternalRequests(cmds), q \o NextIds(cmds), s)
         /\ Len(lg \o InternalRequests(cmds)) = Len(lg) + Len(cmds)
         /\ \A id \in 1 .. Len(lg) : (lg \o InternalRequests(cmds))[id] = lg[id]
<1> DEFINE new == InternalRequests(cmds)
           ids == NextIds(cmds)
           lg2 == lg \o new
           q2  == q \o ids
           n   == Len(lg)
           m   == Len(cmds)
<1>0. /\ lg \in Seq(Request) /\ n \in Nat /\ m \in Nat
      /\ q \in Seq(1 .. n) /\ Len(q) \in Nat
      /\ s \in {None} \cup 1 .. n
      /\ \A id \in 1 .. n :
           lg[id].outcome = "open" <=> id = s \/ \E i \in 1 .. Len(q) : q[i] = id
      /\ \A i \in 1 .. Len(q) : s < q[i]
      /\ \A i, j \in 1 .. Len(q) : i < j => q[i] < q[j]
      /\ \A id \in 1 .. n : lg[id].client \in {Internal} \cup channels \cup gone
      /\ \A id \in 1 .. n : lg[id].outcome = "dropped" => lg[id].client \in gone
  BY DEF Book
<1>1. DOMAIN cmds = 1 .. m /\ \A i \in 1 .. m : cmds[i] \in Command
  OBVIOUS
<1>2. /\ new \in Seq(Request) /\ Len(new) = m
      /\ \A i \in 1 .. m : new[i].client = Internal /\ new[i].outcome = "open"
  <2>1. \A i \in 1 .. m : NewRequest(Internal, cmds[i]) \in Request
    BY <1>1 DEF NewRequest, Request
  <2>2. new = [i \in 1 .. m |-> NewRequest(Internal, cmds[i])]
    BY <1>1 DEF InternalRequests
  <2>3. new \in [1 .. m -> Request]
    BY <2>1, <2>2
  <2>4. new \in Seq(Request)
    BY <1>0, <2>3, SeqDef
  <2>5. Len(new) = m
    BY <1>0, <2>3, <2>4
  <2>6. \A i \in 1 .. m : new[i].client = Internal /\ new[i].outcome = "open"
    BY <2>2 DEF NewRequest
  <2> QED
    BY <2>4, <2>5, <2>6
<1>3. /\ ids \in Seq(1 .. n + m) /\ Len(ids) = m
      /\ \A i \in 1 .. m : ids[i] = n + i
  <2>1. ids = [i \in 1 .. m |-> n + i]
    BY <1>1 DEF NextIds
  <2>2. ids \in [1 .. m -> 1 .. n + m]
    BY <1>0, <2>1
  <2>3. ids \in Seq(1 .. n + m)
    BY <1>0, <2>2, SeqDef
  <2> QED
    BY <1>0, <2>1, <2>2, <2>3
<1> HIDE DEF new, ids
<1>4. /\ lg2 \in Seq(Request) /\ Len(lg2) = n + m
      /\ \A i \in 1 .. n + m : lg2[i] = IF i <= n THEN lg[i] ELSE new[i - n]
  <2>1. /\ lg2 \in Seq(Request) /\ Len(lg2) = Len(lg) + Len(new)
        /\ \A i \in 1 .. Len(lg) + Len(new) :
             lg2[i] = IF i <= Len(lg) THEN lg[i] ELSE new[i - Len(lg)]
    BY <1>0, <1>2, ConcatProperties, Zenon
  <2> QED
    BY <1>2, <2>1
<1>5. /\ q2 \in Seq(1 .. n + m) /\ Len(q2) = Len(q) + m
      /\ \A i \in 1 .. Len(q) + m : q2[i] = IF i <= Len(q) THEN q[i] ELSE ids[i - Len(q)]
  <2>1. 1 .. n \subseteq 1 .. n + m
    BY <1>0
  <2>2. q \in Seq(1 .. n + m)
    BY <1>0, <2>1, SeqMonotonic
  <2>3. /\ q2 \in Seq(1 .. n + m) /\ Len(q2) = Len(q) + Len(ids)
        /\ \A i \in 1 .. Len(q) + Len(ids) :
             q2[i] = IF i <= Len(q) THEN q[i] ELSE ids[i - Len(q)]
    <3> DEFINE S == 1 .. n + m
    <3>1. q \in Seq(S) /\ ids \in Seq(S)
      BY <1>3, <2>2
    <3> HIDE DEF S
    <3>2. /\ q2 \in Seq(S) /\ Len(q2) = Len(q) + Len(ids)
          /\ \A i \in 1 .. Len(q) + Len(ids) :
               q2[i] = IF i <= Len(q) THEN q[i] ELSE ids[i - Len(q)]
      BY <3>1, ConcatProperties, Zenon
    <3> QED
      BY <3>2 DEF S
  <2> QED
    BY <1>3, <2>3
<1> HIDE DEF lg2, q2, n, m
<1>6. \A i \in 1 .. Len(q) : q2[i] = q[i] /\ q[i] \in 1 .. n
  BY <1>0, <1>5
<1>7. \A i \in Len(q) + 1 .. Len(q) + m : q2[i] = n + (i - Len(q))
  <2> SUFFICES ASSUME NEW i \in Len(q) + 1 .. Len(q) + m
               PROVE  q2[i] = n + (i - Len(q))
    OBVIOUS
  <2>1. i \in 1 .. Len(q) + m /\ ~(i <= Len(q)) /\ i - Len(q) \in 1 .. m
    BY <1>0
  <2> QED
    BY <1>3, <1>5, <2>1
<1>8. \A i \in 1 .. n : lg2[i] = lg[i]
  BY <1>0, <1>4
<1>9. \A i \in n + 1 .. n + m : lg2[i].client = Internal /\ lg2[i].outcome = "open"
  <2> SUFFICES ASSUME NEW i \in n + 1 .. n + m
               PROVE  lg2[i].client = Internal /\ lg2[i].outcome = "open"
    OBVIOUS
  <2>1. i \in 1 .. n + m /\ ~(i <= n) /\ i - n \in 1 .. m
    BY <1>0
  <2> QED
    BY <1>2, <1>4, <2>1
<1>10. \A id \in 1 .. n + m :
         lg2[id].outcome = "open" <=> id = s \/ \E i \in 1 .. Len(q2) : q2[i] = id
  <2> SUFFICES ASSUME NEW id \in 1 .. n + m
               PROVE  lg2[id].outcome = "open" <=>
                        id = s \/ \E i \in 1 .. Len(q2) : q2[i] = id
    OBVIOUS
  <2>1. CASE id <= n
    <3>1. id \in 1 .. n
      BY <1>0, <2>1
    <3>2. (\E i \in 1 .. Len(q2) : q2[i] = id) <=> (\E i \in 1 .. Len(q) : q[i] = id)
      <4>1. ASSUME NEW i \in 1 .. Len(q2), q2[i] = id
            PROVE  i \in 1 .. Len(q)
        <5>1. CASE i \in Len(q) + 1 .. Len(q) + m
          BY <1>0, <1>7, <3>1, <4>1, <5>1
        <5> QED
          BY <1>0, <1>5, <4>1, <5>1
      <4>2. \A i \in 1 .. Len(q) : i \in 1 .. Len(q2)
        BY <1>0, <1>5
      <4> QED
        BY <1>6, <4>1, <4>2
    <3> QED
      BY <1>0, <1>8, <3>1, <3>2
  <2>2. CASE ~(id <= n)
    <3>1. id \in n + 1 .. n + m
      BY <1>0, <2>2
    <3> DEFINE w == Len(q) + (id - n)
    <3>2. /\ w \in Len(q) + 1 .. Len(q) + m
          /\ w \in 1 .. Len(q2)
          /\ n + (w - Len(q)) = id
      BY <1>0, <1>5, <3>1
    <3> HIDE DEF w
    <3>3. q2[w] = id
      BY <1>7, <3>2
    <3> QED
      BY <1>9, <3>1, <3>2, <3>3
  <2> QED
    BY <2>1, <2>2
<1>11. \A i \in 1 .. Len(q2) : s < q2[i]
  <2> SUFFICES ASSUME NEW i \in 1 .. Len(q2) PROVE s < q2[i]
    OBVIOUS
  <2>1. CASE i \in 1 .. Len(q)
    BY <1>0, <1>6, <2>1
  <2>2. CASE i \in Len(q) + 1 .. Len(q) + m
    <3>1. q2[i] = n + (i - Len(q))
      BY <1>7, <2>2
    <3> QED
      BY <1>0, <2>2, <3>1 DEF None
  <2> QED
    BY <1>0, <1>5, <2>1, <2>2
<1>12. \A i, j \in 1 .. Len(q2) : i < j => q2[i] < q2[j]
  <2> SUFFICES ASSUME NEW i \in 1 .. Len(q2), NEW j \in 1 .. Len(q2), i < j
               PROVE  q2[i] < q2[j]
    OBVIOUS
  <2>1. CASE j \in 1 .. Len(q)
    <3>1. i \in 1 .. Len(q)
      BY <1>0, <1>5, <2>1
    <3> QED
      BY <1>0, <1>6, <2>1, <3>1
  <2>2. CASE j \in Len(q) + 1 .. Len(q) + m
    <3>1. q2[j] = n + (j - Len(q))
      BY <1>7, <2>2
    <3>2. CASE i \in 1 .. Len(q)
      <4>1. q2[i] \in 1 .. n
        BY <1>6, <3>2
      <4> QED
        BY <1>0, <2>2, <3>1, <4>1
    <3>3. CASE i \in Len(q) + 1 .. Len(q) + m
      <4>1. q2[i] = n + (i - Len(q))
        BY <1>7, <3>3
      <4> QED
        BY <1>0, <3>1, <4>1
    <3> QED
      BY <1>0, <1>5, <3>2, <3>3
  <2> QED
    BY <1>0, <1>5, <2>1, <2>2
<1>13. \A id \in 1 .. n + m :
         /\ lg2[id].client \in {Internal} \cup channels \cup gone
         /\ lg2[id].outcome = "dropped" => lg2[id].client \in gone
  <2> SUFFICES ASSUME NEW id \in 1 .. n + m
               PROVE  /\ lg2[id].client \in {Internal} \cup channels \cup gone
                      /\ lg2[id].outcome = "dropped" => lg2[id].client \in gone
    OBVIOUS
  <2>1. id \in 1 .. n \/ id \in n + 1 .. n + m
    BY <1>0
  <2> QED
    BY <1>0, <1>8, <1>9, <2>1
<1>14. s \in {None} \cup 1 .. n + m
  BY <1>0
<1>15. Book(lg2, q2, s)
  BY <1>4, <1>5, <1>10, <1>11, <1>12, <1>13, <1>14 DEF Book
<1> QED
  BY <1>4, <1>8, <1>15 DEF lg2, q2, new, ids, n, m

-----------------------------------------------------------------------------
(* The inductive invariant: the types, the books, and why replies always   *)
(* name a request.                                                         *)

\* Only push events have no cause.
Caused == \A i \in 1 .. Len(fromRadio) :
            fromRadio[i].re = None => is_push_event(fromRadio[i].code)

IInv ==
  /\ TypeOK
  /\ Book(log, pending_queue, in_flight)
  /\ WorkConserving
  /\ Caused
  /\ iter.req = None => iter = NoIter
  /\ link = "down" => in_flight = None /\ pending_queue = << >>

\* What every step of the core establishes about the books.
Kept ==
  /\ Book(log', pending_queue', in_flight')
  /\ Len(log) <= Len(log')
  /\ toRadio' \in Seq(1 .. Len(log'))
  /\ writer' /\ in_flight' = None => pending_queue' = << >>
  /\ StaysSettled

\* Types that mention request numbers survive a growing log.
LEMMA Grow ==
  ASSUME TypeOK, NEW n \in Nat, Len(log) <= n
  PROVE  /\ toRadio \in Seq(1 .. n)
         /\ fromRadio \in Seq(Frame(n))
         /\ iter \in [req : {None} \cup 1 .. n, left : Nat]
         /\ onair \subseteq 1 .. n
         /\ pending_acks \subseteq [ack : 1 .. n, client : Clients]
         /\ acked \subseteq [ack : 1 .. n, client : Clients]
         /\ misrouted \subseteq [req : 1 .. n, re : {None} \cup 1 .. n,
                                 code : Byte, abandoned : BOOLEAN]
<1>1. Len(log) \in Nat
  BY DEF TypeOK
<1>2. Ids \subseteq 1 .. n
  BY <1>1 DEF Ids
<1>3. Frame(Len(log)) \subseteq Frame(n)
  BY <1>1 DEF Frame
<1>4. toRadio \in Seq(1 .. n)
  BY <1>2, SeqMonotonic DEF TypeOK
<1>5. fromRadio \in Seq(Frame(n))
  BY <1>3, SeqMonotonic DEF TypeOK
<1>6. iter \in [req : {None} \cup 1 .. n, left : Nat] /\ onair \subseteq 1 .. n
  BY <1>2 DEF TypeOK
<1>7. /\ pending_acks \subseteq [ack : 1 .. n, client : Clients]
      /\ acked \subseteq [ack : 1 .. n, client : Clients]
  BY <1>2 DEF TypeOK
<1>8. misrouted \subseteq [req : 1 .. n, re : {None} \cup 1 .. n,
                           code : Byte, abandoned : BOOLEAN]
  BY <1>2 DEF TypeOK
<1> QED
  BY <1>4, <1>5, <1>6, <1>7, <1>8

\* Ending the request in flight frees the slot and keeps the books.
LEMMA SettleBook ==
  ASSUME NEW lg, NEW q, NEW s, NEW o \in {"accepted", "rejected", "failed"},
         Book(lg, q, s), s # None
  PROVE  /\ Book(Settle(lg, {s}, o), q, None)
         /\ Len(Settle(lg, {s}, o)) = Len(lg)
         /\ EndsStand(lg, Settle(lg, {s}, o))
<1> DEFINE st == Settle(lg, {s}, o)
<1>1. o \in Outcomes /\ lg \in Seq(Request)
  BY DEF Outcomes, Book
<1>2. /\ st \in Seq(Request)
      /\ Len(st) = Len(lg)
      /\ \A i \in 1 .. Len(lg) :
           /\ st[i].outcome = IF i \in {s} THEN o ELSE lg[i].outcome
           /\ st[i].client = lg[i].client
  BY <1>1, SettleFacts
<1> HIDE DEF st
<1>3. Len(lg) \in Nat /\ q \in Seq(1 .. Len(lg)) /\ Len(q) \in Nat
  BY DEF Book
<1>4. \A i \in 1 .. Len(q) : q[i] \in 1 .. Len(lg)
  BY <1>3
<1>5. \A id \in 1 .. Len(lg) :
        st[id].outcome = "open" <=>
          id = None \/ \E i \in 1 .. Len(q) : q[i] = id
  <2> SUFFICES ASSUME NEW id \in 1 .. Len(lg)
               PROVE  st[id].outcome = "open" <=>
                        id = None \/ \E i \in 1 .. Len(q) : q[i] = id
    OBVIOUS
  <2>1. id # None
    BY DEF None
  <2>2. s \in 1 .. Len(lg) /\ \A i \in 1 .. Len(q) : s < q[i]
    BY DEF Book
  <2>3. lg[id].outcome = "open" <=>
          id = s \/ \E i \in 1 .. Len(q) : q[i] = id
    BY DEF Book
  <2> QED
    BY <1>2, <1>4, <2>1, <2>2, <2>3
<1>6. \A i \in 1 .. Len(q) : None < q[i]
  BY <1>4 DEF None
<1>7. Book(st, q, None)
  BY <1>2, <1>3, <1>5, <1>6 DEF Book
<1>8. \A id \in 1 .. Len(lg) : lg[id].outcome # "open" => st[id].outcome = lg[id].outcome
  BY <1>2 DEF Book
<1> QED
  BY <1>2, <1>7, <1>8 DEF st, EndsStand

\* advance_queue on updated books that extend the log.
LEMMA AdvanceKept ==
  ASSUME IInv, NEW lg, NEW q, NEW entries,
         Book(lg, q, None), Len(log) <= Len(lg),
         EndsStand(log, lg),
         advance_queue(lg, q, entries), UNCHANGED writer
  PROVE  Kept
<1>1. Len(lg) \in Nat /\ Len(log) \in Nat /\ writer \in BOOLEAN
  BY DEF Book, IInv, TypeOK
<1>2. toRadio \in Seq(1 .. Len(lg))
  BY <1>1, Grow DEF IInv
<1>3. /\ Book(log', pending_queue', in_flight')
      /\ Len(log') = Len(lg)
      /\ toRadio' \in Seq(1 .. Len(lg))
      /\ writer /\ in_flight' = None => pending_queue' = << >>
      /\ \A id \in 1 .. Len(lg) : lg[id].outcome # "open" => log'[id].outcome = lg[id].outcome
  BY <1>1, <1>2, AdvanceBook
<1>4. StaysSettled
  <2> SUFFICES ASSUME NEW id \in 1 .. Len(log), log[id].outcome # "open"
               PROVE  log'[id].outcome = log[id].outcome
    BY DEF StaysSettled, Ids
  <2>1. id \in 1 .. Len(lg)
    BY <1>1
  <2> QED
    BY <1>3, <2>1 DEF EndsStand
<1> QED
  BY <1>3, <1>4 DEF Kept

\* A handler that leaves log, queue and slot alone keeps the books.
LEMMA IdleKept ==
  ASSUME IInv, UNCHANGED <<log, pending_queue, in_flight, toRadio, writer>>
  PROVE  Kept
BY DEF IInv, Kept, Book, StaysSettled, WorkConserving, TypeOK, Ids

\* An internal request queued, and sent at once by an idle core.
LEMMA EnqueueKept ==
  ASSUME IInv, NEW cmd \in Command, EnqueueInternal(cmd), UNCHANGED writer
  PROVE  Kept
<1> DEFINE lg == log \o InternalRequests(<<cmd>>)
           q  == pending_queue \o NextIds(<<cmd>>)
<1>1. <<cmd>> \in Seq(Command) /\ Len(<<cmd>>) = 1
  OBVIOUS
<1>2. Book(log, pending_queue, in_flight) /\ Len(log) \in Nat /\ toRadio \in Seq(1 .. Len(log))
  BY DEF IInv, TypeOK, Ids
<1>3. /\ Book(lg, q, in_flight)
      /\ Len(lg) = Len(log) + 1
      /\ \A id \in 1 .. Len(log) : lg[id] = log[id]
  BY <1>1, <1>2, InternalBook
<1>4. CASE in_flight = None
  <2>1. advance_queue(lg, q, cached)
    BY <1>4 DEF EnqueueInternal
  <2> HIDE DEF lg, q
  <2> QED
    BY <1>2, <1>3, <1>4, <2>1, AdvanceKept DEF EndsStand
<1>5. CASE in_flight # None
  <2>1. log' = lg /\ pending_queue' = q /\ UNCHANGED <<in_flight, toRadio>>
    BY <1>5 DEF EnqueueInternal
  <2> HIDE DEF lg, q
  <2>2. toRadio' \in Seq(1 .. Len(log'))
    BY <1>2, <1>3, <2>1, Grow DEF IInv
  <2>3. StaysSettled
    BY <1>3, <2>1 DEF StaysSettled, Ids
  <2> QED
    BY <1>2, <1>3, <1>5, <2>1, <2>2, <2>3 DEF Kept
<1> QED
  BY <1>4, <1>5

\* A timeout (check_in_flight_timeout) keeps the books: the request in flight
\* ends as failed and the queue moves on.
LEMMA TimeoutKept ==
  ASSUME IInv, Timeout
  PROVE  Kept
<1>1. Book(log, pending_queue, in_flight) /\ Len(log) \in Nat
  BY DEF IInv, TypeOK
<1>2. /\ in_flight # None
      /\ advance_queue(Settle(log, {in_flight}, "failed"), pending_queue, cached)
      /\ UNCHANGED writer
  BY DEF Timeout
<1> DEFINE st == Settle(log, {in_flight}, "failed")
<1>3. /\ Book(st, pending_queue, None)
      /\ Len(st) = Len(log)
      /\ EndsStand(log, st)
  BY <1>1, <1>2, SettleBook
<1>4. advance_queue(st, pending_queue, cached)
  BY <1>2
<1> HIDE DEF st
<1> QED
  BY <1>1, <1>2, <1>3, <1>4, AdvanceKept

\* The commands the core queues on its own are commands.
LEMMA RefreshType ==
  ASSUME NEW cmd \in Command, NEW code
  PROVE  Refreshes(cmd, code) \in Seq(Command)
<1>1. ContactSync(cmd.arg) \in Command /\ FullSync \in Command
  BY CommandsAssumption
     DEF Command, ContactSync, FullSync, Byte, GetContacts, GetContactByKey
<1> DEFINE c == ContactSync(cmd.arg)
           d == FullSync
<1>2. Refreshes(cmd, code) \in {<< >>, <<c>>, <<d>>}
  BY DEF Refreshes, RefreshAfter
<1> HIDE DEF c, d
<1>3. c \in Command /\ d \in Command
  BY <1>1 DEF c, d
<1>4. << >> \in Seq(Command) /\ <<c>> \in Seq(Command) /\ <<d>> \in Seq(Command)
  BY <1>3
<1> QED
  BY <1>2, <1>4

\* A frame routed by try_route_to_in_flight keeps the books, whether it ends
\* the request (and queues refreshes) or is one of a stream.
LEMMA RouteReplyKept ==
  ASSUME IInv, RouteReply
  PROVE  Kept
<1> DEFINE f     == Head(fromRadio)
           req   == log[in_flight]
           await == awaiting_for(req.cmd)
           again == Refreshes(req.cmd, f.code)
           ended == Settle(log, {in_flight}, Outcome(f.code))
<1>1. /\ in_flight # None
      /\ UNCHANGED writer
      /\ IF Completes(await, f.code)
         THEN advance_queue(ended \o InternalRequests(again),
                            pending_queue \o NextIds(again),
                            CacheResponse(cached, f))
         ELSE UNCHANGED <<log, pending_queue, in_flight, toRadio>>
  BY Zenon DEF RouteReply
<1>2. Book(log, pending_queue, in_flight) /\ Len(log) \in Nat /\ in_flight \in 1 .. Len(log)
  BY <1>1 DEF IInv, TypeOK, Ids
<1>3. again \in Seq(Command)
  <2>1. req \in Request
    BY <1>2 DEF IInv, TypeOK
  <2>2. req.cmd \in Command
    BY <2>1 DEF Request
  <2> QED
    BY <2>2, RefreshType
<1>4. Outcome(f.code) \in {"accepted", "rejected", "failed"}
  BY DEF Outcome
<1>5. /\ Book(ended, pending_queue, None)
      /\ Len(ended) = Len(log)
      /\ EndsStand(log, ended)
  <2> HIDE DEF f
  <2> QED
    BY <1>1, <1>2, <1>4, SettleBook
<1> HIDE DEF ended, again, await, req, f
<1>6. CASE Completes(await, f.code)
  <2> DEFINE lg == ended \o InternalRequests(again)
             q  == pending_queue \o NextIds(again)
  <2>1. /\ Book(lg, q, None)
        /\ Len(lg) = Len(log) + Len(again)
        /\ \A id \in 1 .. Len(log) : lg[id] = ended[id]
    BY <1>3, <1>5, InternalBook
  <2>2. Len(again) \in Nat
    BY <1>3
  <2>3. advance_queue(lg, q, CacheResponse(cached, f))
    BY <1>1, <1>6
  <2>4. EndsStand(log, lg)
    BY <1>5, <2>1 DEF EndsStand
  <2> HIDE DEF lg, q
  <2> QED
    BY <1>1, <1>2, <1>5, <2>1, <2>2, <2>3, <2>4, AdvanceKept
<1>7. CASE ~Completes(await, f.code)
  BY <1>1, <1>7, IdleKept
<1> QED
  BY <1>6, <1>7

\* A frame nobody waits for keeps the books, also when an advert queues a
\* contact refresh.
LEMMA BroadcastKept ==
  ASSUME IInv, BroadcastOrDrop
  PROVE  Kept
<1>1. UNCHANGED writer /\ fromRadio # << >>
  BY DEF BroadcastOrDrop, FrameReady
<1>2. Head(fromRadio) \in Frame(Len(log))
  BY <1>1 DEF IInv, TypeOK
<1>3. ContactSync(Head(fromRadio).arg) \in Command
  BY <1>2 DEF Frame, ContactSync, Command, Byte, GetContactByKey
<1>4. CASE EnqueueInternal(ContactSync(Head(fromRadio).arg))
  BY <1>1, <1>3, <1>4, EnqueueKept
<1>5. CASE UNCHANGED <<log, pending_queue, in_flight, toRadio>>
  BY <1>1, <1>5, IdleKept
<1> QED
  BY <1>4, <1>5 DEF BroadcastOrDrop

\* run_maintenance keeps the books, whether or not it queues a full sync.
LEMMA MaintenanceKept ==
  ASSUME IInv, Maintenance
  PROVE  Kept
<1>1. UNCHANGED writer
  BY DEF Maintenance
<1>2. FullSync \in Command
  BY CommandsAssumption DEF FullSync, Command, Byte, GetContacts
<1>3. CASE EnqueueInternal(FullSync)
  BY <1>1, <1>2, <1>3, EnqueueKept
<1>4. CASE UNCHANGED <<log, pending_queue, in_flight, toRadio>>
  BY <1>1, <1>4, IdleKept
<1> QED
  BY <1>3, <1>4 DEF Maintenance

\* One more request, not yet settled, at the end of the log.
LEMMA AppendRequest ==
  ASSUME NEW lg \in Seq(Request), NEW r \in Request
  PROVE  /\ Append(lg, r) \in Seq(Request)
         /\ Len(Append(lg, r)) = Len(lg) + 1
         /\ Append(lg, r)[Len(lg) + 1] = r
         /\ \A id \in 1 .. Len(lg) : Append(lg, r)[id] = lg[id]
BY AppendProperties

\* A client's command keeps the books, in its three cases: queued behind the
\* request in flight, sent, or failed because the radio takes nothing.
LEMMA ForwardKept ==
  ASSUME IInv, Forward
  PROVE  Kept
<1> DEFINE m  == Head(command_rx)
           id == Len(log) + 1
           r  == NewRequest(m.client, m.cmd)
           lg == Append(log, r)
<1>1. /\ m.client \in channels
      /\ UNCHANGED writer
      /\ \/ /\ in_flight # None
            /\ log' = lg
            /\ pending_queue' = Append(pending_queue, id)
            /\ UNCHANGED <<in_flight, toRadio>>
         \/ /\ in_flight = None /\ writer
            /\ log' = lg
            /\ in_flight' = id
            /\ toRadio' = Append(toRadio, id)
            /\ UNCHANGED pending_queue
         \/ /\ in_flight = None /\ ~writer
            /\ log' = Settle(lg, {id}, "failed")
            /\ UNCHANGED <<pending_queue, in_flight, toRadio>>
  BY Zenon DEF Forward
<1>2. /\ Book(log, pending_queue, in_flight) /\ Len(log) \in Nat
      /\ toRadio \in Seq(1 .. Len(log)) /\ log \in Seq(Request)
      /\ pending_queue \in Seq(1 .. Len(log)) /\ Len(pending_queue) \in Nat
      /\ channels \subseteq Clients
      /\ command_rx \in Seq([client : channels \cup gone, cmd : Commands])
  BY DEF IInv, TypeOK, Ids
<1>0. /\ in_flight \in {None} \cup 1 .. Len(log)
      /\ \A i \in 1 .. Len(log) :
           log[i].outcome = "open" <=>
             i = in_flight \/ \E j \in 1 .. Len(pending_queue) : pending_queue[j] = i
      /\ \A i \in 1 .. Len(pending_queue) : in_flight < pending_queue[i]
      /\ \A i, j \in 1 .. Len(pending_queue) : i < j => pending_queue[i] < pending_queue[j]
      /\ \A i \in 1 .. Len(log) : log[i].client \in {Internal} \cup channels \cup gone
      /\ \A i \in 1 .. Len(log) : log[i].outcome = "dropped" => log[i].client \in gone
  BY <1>2 DEF Book
<1>3. m \in [client : channels \cup gone, cmd : Commands]
  <2>1. command_rx # << >>
    BY DEF Forward, CommandReady
  <2> DEFINE S == [client : channels \cup gone, cmd : Commands]
  <2>2. command_rx \in Seq(S)
    BY <1>2
  <2> HIDE DEF S
  <2>3. m \in S
    BY <2>1, <2>2
  <2> QED
    BY <2>3 DEF S
<1>4. r \in Request /\ r.outcome = "open" /\ r.client = m.client
  <2>1. m.cmd \in Command /\ m.client \in Clients
    BY <1>1, <1>2, <1>3, CommandsAssumption
  <2> HIDE DEF m
  <2> QED
    BY <2>1 DEF NewRequest, Request
<1> HIDE DEF m, r
<1>5. /\ lg \in Seq(Request)
      /\ Len(lg) = Len(log) + 1
      /\ lg[id] = r
      /\ \A i \in 1 .. Len(log) : lg[i] = log[i]
  BY <1>2, <1>4, AppendRequest
<1> HIDE DEF lg
<1>6. \A i \in 1 .. Len(pending_queue) : pending_queue[i] \in 1 .. Len(log)
  BY <1>2
<1>10. \A i \in 1 .. Len(log) + 1 : i \in 1 .. Len(log) \/ i = id
  BY <1>2
<1>11. \A i \in 1 .. Len(log) + 1 :
         /\ lg[i].client \in {Internal} \cup channels \cup gone
         /\ lg[i].outcome = "dropped" => lg[i].client \in gone
  BY <1>0, <1>1, <1>4, <1>5, <1>10
<1>12. id \in 1 .. Len(log) + 1 /\ id \notin 1 .. Len(log) /\ id # None
  BY <1>2 DEF None
<1>13. \A i \in 1 .. Len(log) : i < id
  BY <1>2
<1> HIDE DEF id
<1>7. CASE /\ in_flight # None
           /\ log' = lg
           /\ pending_queue' = Append(pending_queue, id)
           /\ UNCHANGED <<in_flight, toRadio>>
  <2>1. /\ pending_queue' \in Seq(1 .. Len(log) + 1)
        /\ Len(pending_queue') = Len(pending_queue) + 1
        /\ pending_queue'[Len(pending_queue) + 1] = id
        /\ \A i \in 1 .. Len(pending_queue) : pending_queue'[i] = pending_queue[i]
    <3>1. 1 .. Len(log) \subseteq 1 .. Len(log) + 1 /\ id \in 1 .. Len(log) + 1
      BY <1>2, <1>12
    <3>2. pending_queue \in Seq(1 .. Len(log) + 1)
      BY <1>2, <3>1, SeqMonotonic
    <3> QED
      BY <1>7, <3>1, <3>2, AppendProperties
  <2>5. \A i \in 1 .. Len(pending_queue') :
          i \in 1 .. Len(pending_queue) \/ i = Len(pending_queue) + 1
    BY <1>2, <2>1
  <2>2. Book(lg, pending_queue', in_flight)
    <3>1. \A i \in 1 .. Len(log) + 1 :
            lg[i].outcome = "open" <=>
              i = in_flight \/ \E j \in 1 .. Len(pending_queue') : pending_queue'[j] = i
      <4> SUFFICES ASSUME NEW i \in 1 .. Len(log) + 1
                   PROVE  lg[i].outcome = "open" <=>
                            i = in_flight \/ \E j \in 1 .. Len(pending_queue') : pending_queue'[j] = i
        OBVIOUS
      <4>1. CASE i = id
        BY <1>4, <1>5, <2>1, <2>5, <4>1
      <4>2. CASE i \in 1 .. Len(log)
        <5>1. (\E j \in 1 .. Len(pending_queue') : pending_queue'[j] = i)
                <=> (\E j \in 1 .. Len(pending_queue) : pending_queue[j] = i)
          BY <1>12, <2>1, <2>5, <4>2
        <5> QED
          BY <1>0, <1>5, <4>2, <5>1
      <4> QED
        BY <1>10, <4>1, <4>2
    <3>2. \A i \in 1 .. Len(pending_queue') : in_flight < pending_queue'[i]
      <4>1. in_flight < id
        BY <1>0, <1>7, <1>13
      <4> QED
        BY <1>0, <2>1, <2>5, <4>1
    <3>3. \A i, j \in 1 .. Len(pending_queue') :
            i < j => pending_queue'[i] < pending_queue'[j]
      <4> SUFFICES ASSUME NEW i \in 1 .. Len(pending_queue'),
                          NEW j \in 1 .. Len(pending_queue'), i < j
                   PROVE  pending_queue'[i] < pending_queue'[j]
        OBVIOUS
      <4>1. i \in 1 .. Len(pending_queue)
        BY <1>2, <2>1
      <4>2. CASE j \in 1 .. Len(pending_queue)
        BY <1>0, <2>1, <4>1, <4>2
      <4>3. CASE j = Len(pending_queue) + 1
        BY <1>6, <1>13, <2>1, <4>1, <4>3
      <4> QED
        BY <2>5, <4>2, <4>3
    <3>5. in_flight \in {None} \cup 1 .. Len(log) + 1
      BY <1>0, <1>2
    <3> QED
      BY <1>5, <1>11, <2>1, <3>1, <3>2, <3>3, <3>5 DEF Book
  <2>3. toRadio' \in Seq(1 .. Len(log'))
    BY <1>2, <1>5, <1>7, Grow DEF IInv
  <2>4. StaysSettled
    BY <1>5, <1>7 DEF StaysSettled, Ids
  <2> QED
    BY <1>2, <1>5, <1>7, <2>2, <2>3, <2>4 DEF Kept
<1>8. CASE /\ in_flight = None /\ writer
           /\ log' = lg
           /\ in_flight' = id
           /\ toRadio' = Append(toRadio, id)
           /\ UNCHANGED pending_queue
  <2>1. pending_queue = << >>
    BY <1>8 DEF IInv, WorkConserving
  <2>2. toRadio' \in Seq(1 .. Len(log) + 1)
    <3>1. toRadio \in Seq(1 .. Len(log) + 1)
      BY <1>2, Grow DEF IInv
    <3> QED
      BY <1>8, <1>12, <3>1, AppendProperties
  <2>3. Book(lg, << >>, id)
    <3>1. \A i \in 1 .. Len(log) + 1 : lg[i].outcome = "open" <=> i = id
      <4>1. \A i \in 1 .. Len(log) : log[i].outcome # "open"
        BY <1>0, <1>8, <2>1 DEF None
      <4> QED
        BY <1>4, <1>5, <1>10, <1>12, <4>1
    <3> QED
      BY <1>5, <1>11, <1>12, <3>1 DEF Book
  <2>4. StaysSettled
    BY <1>5, <1>8 DEF StaysSettled, Ids
  <2> QED
    BY <1>2, <1>5, <1>8, <2>1, <2>2, <2>3, <2>4 DEF Kept, None
<1>9. CASE /\ in_flight = None /\ ~writer
           /\ log' = Settle(lg, {id}, "failed")
           /\ UNCHANGED <<pending_queue, in_flight, toRadio>>
  <2>1. /\ log' \in Seq(Request)
        /\ Len(log') = Len(log) + 1
        /\ \A i \in 1 .. Len(log) + 1 :
             /\ log'[i].outcome = IF i \in {id} THEN "failed" ELSE lg[i].outcome
             /\ log'[i].client = lg[i].client
    <3>1. "failed" \in Outcomes
      BY DEF Outcomes
    <3> QED
      BY <1>5, <1>9, <3>1, SettleFacts
  <2>2. Book(log', pending_queue, None)
    <3>1. \A i \in 1 .. Len(log) + 1 :
            log'[i].outcome = "open" <=>
              i = None \/ \E j \in 1 .. Len(pending_queue) : pending_queue[j] = i
      <4> SUFFICES ASSUME NEW i \in 1 .. Len(log) + 1
                   PROVE  log'[i].outcome = "open" <=>
                            i = None \/ \E j \in 1 .. Len(pending_queue) : pending_queue[j] = i
        OBVIOUS
      <4>1. CASE i = id
        BY <1>6, <1>12, <2>1, <4>1
      <4>2. CASE i \in 1 .. Len(log)
        <5>1. log'[i].outcome = log[i].outcome
          BY <1>5, <1>12, <2>1, <4>2
        <5>2. log[i].outcome = "open" <=>
                i = in_flight \/ \E j \in 1 .. Len(pending_queue) : pending_queue[j] = i
          BY <1>0, <4>2
        <5> QED
          BY <1>9, <5>1, <5>2
      <4> QED
        BY <1>10, <4>1, <4>2
    <3>2. \A i \in 1 .. Len(log) + 1 :
            /\ log'[i].client \in {Internal} \cup channels \cup gone
            /\ log'[i].outcome = "dropped" => log'[i].client \in gone
      BY <1>11, <2>1
    <3>3. pending_queue \in Seq(1 .. Len(log) + 1)
      <4>1. 1 .. Len(log) \subseteq 1 .. Len(log) + 1
        BY <1>2
      <4> QED
        BY <1>2, <4>1, SeqMonotonic
    <3> QED
      BY <1>0, <1>9, <2>1, <3>1, <3>2, <3>3 DEF Book
  <2>3. toRadio' \in Seq(1 .. Len(log'))
    BY <1>2, <1>9, <2>1, Grow DEF IInv
  <2>4. StaysSettled
    BY <1>5, <1>10, <1>12, <2>1 DEF StaysSettled, Ids
  <2> QED
    BY <1>1, <1>2, <1>9, <2>1, <2>2, <2>3, <2>4 DEF Kept
<1> QED
  BY <1>1, <1>7, <1>8, <1>9

\* reconnect_radio settles the slot and the whole queue.
LEMMA LoseRadioKept ==
  ASSUME IInv, LoseRadio
  PROVE  /\ Kept
         /\ Len(log') = Len(log)
<1> DEFINE held == {in_flight} \cup Range(pending_queue)
<1>1. /\ log' = Settle(log, held, "failed")
      /\ in_flight' = None
      /\ pending_queue' = << >>
      /\ toRadio' = << >>
      /\ writer' = FALSE
  BY DEF LoseRadio
<1>2. /\ log \in Seq(Request)
      /\ Len(log) \in Nat
      /\ pending_queue \in Seq(1 .. Len(log))
      /\ \A id \in 1 .. Len(log) :
           log[id].outcome = "open" <=>
             id = in_flight \/ \E i \in 1 .. Len(pending_queue) : pending_queue[i] = id
      /\ \A id \in 1 .. Len(log) : log[id].client \in {Internal} \cup channels \cup gone
      /\ \A id \in 1 .. Len(log) : log[id].outcome = "dropped" => log[id].client \in gone
  <2>1. Book(log, pending_queue, in_flight) /\ log \in Seq(Request)
    BY DEF IInv, TypeOK
  <2>2. Len(log) \in Nat
    BY <2>1
  <2> QED
    BY <2>1, <2>2 DEF Book
<1>3. \A id : id \in held <=>
        id = in_flight \/ \E i \in 1 .. Len(pending_queue) : pending_queue[i] = id
  <2>1. DOMAIN pending_queue = 1 .. Len(pending_queue)
    BY <1>2
  <2> QED
    BY <2>1 DEF Range
<1> HIDE DEF held
<1>4. /\ log' \in Seq(Request)
      /\ Len(log') = Len(log)
      /\ \A i \in 1 .. Len(log) :
           /\ log'[i].outcome = IF i \in held THEN "failed" ELSE log[i].outcome
           /\ log'[i].client = log[i].client
  <2>1. "failed" \in Outcomes
    BY DEF Outcomes
  <2> QED
    BY <1>1, <1>2, <2>1, SettleFacts
<1>5. \A id \in 1 .. Len(log) :
        /\ log'[id].outcome # "open"
        /\ id # None
        /\ log'[id].client \in {Internal} \cup channels \cup gone
        /\ log'[id].outcome = "dropped" => log'[id].client \in gone
        /\ log[id].outcome # "open" => log'[id].outcome = log[id].outcome
  BY <1>2, <1>3, <1>4 DEF None
<1>6. Book(log', << >>, None)
  BY <1>2, <1>4, <1>5 DEF Book
<1> QED
  BY <1>1, <1>2, <1>4, <1>5, <1>6 DEF Kept, StaysSettled, Ids

\* What sync_from_radio queues are commands.
LEMMA SyncType ==
  /\ SyncCommands \in Seq(Command)
  /\ Len(SyncCommands) >= 1
<1> DEFINE n  == Len(SyncChannels)
           ch == [i \in DOMAIN SyncChannels |-> ChannelSync(SyncChannels[i])]
           fs == <<FullSync>>
<1>1. /\ n \in Nat
      /\ DOMAIN SyncChannels = 1 .. n
      /\ \A i \in 1 .. n : SyncChannels[i] \in Args
  BY CommandsAssumption
<1>2. \A i \in 1 .. n : ChannelSync(SyncChannels[i]) \in Command
  BY <1>1 DEF ChannelSync, Command, Byte, GetChannel
<1>3. ch \in [1 .. n -> Command]
  BY <1>1, <1>2
<1>4. ch \in Seq(Command) /\ Len(ch) = n
  BY <1>1, <1>3, SeqDef
<1>5. fs \in Seq(Command) /\ Len(fs) = 1
  <2>1. FullSync \in Command
    BY CommandsAssumption DEF FullSync, Command, Byte, GetContacts
  <2> QED
    BY <2>1
<1>6. SyncCommands = fs \o ch
  BY DEF SyncCommands
<1> HIDE DEF ch, fs, n
<1>7. fs \o ch \in Seq(Command) /\ Len(fs \o ch) = Len(fs) + Len(ch)
  BY <1>4, <1>5, ConcatProperties
<1> QED
  BY <1>1, <1>4, <1>5, <1>6, <1>7

\* Moving the head of the queue into a free slot keeps the books.
LEMMA StartHead ==
  ASSUME NEW lg, NEW q, Book(lg, q, None), q # << >>
  PROVE  /\ Book(lg, Tail(q), Head(q))
         /\ Head(q) \in 1 .. Len(lg)
<1> DEFINE t == Tail(q)
           h == Head(q)
           n == Len(lg)
<1>0. /\ lg \in Seq(Request) /\ n \in Nat
      /\ q \in Seq(1 .. n)
      /\ \A id \in 1 .. n :
           lg[id].outcome = "open" <=> id = None \/ \E i \in 1 .. Len(q) : q[i] = id
      /\ \A i, j \in 1 .. Len(q) : i < j => q[i] < q[j]
      /\ \A id \in 1 .. n : lg[id].client \in {Internal} \cup channels \cup gone
      /\ \A id \in 1 .. n : lg[id].outcome = "dropped" => lg[id].client \in gone
  BY DEF Book
<1> HIDE DEF n
<1>1. /\ t \in Seq(1 .. n)
      /\ Len(q) \in Nat /\ Len(q) >= 1
      /\ Len(t) = Len(q) - 1
      /\ h = q[1] /\ h \in 1 .. n
      /\ \A i \in 1 .. Len(t) : t[i] = q[i + 1]
  BY <1>0
<1> HIDE DEF t, h
<1>2. \A i \in 1 .. Len(t) : i + 1 \in 1 .. Len(q) /\ 1 < i + 1
  BY <1>1
<1>3. \A i \in 1 .. Len(q) : i = 1 \/ (i - 1 \in 1 .. Len(t) /\ (i - 1) + 1 = i)
  BY <1>1
<1>4. \A i \in 1 .. Len(t) : h < t[i]
  <2>1. 1 \in 1 .. Len(q)
    BY <1>1
  <2> QED
    BY <1>0, <1>1, <1>2, <2>1
<1>5. \A i, j \in 1 .. Len(t) : i < j => t[i] < t[j]
  <2> SUFFICES ASSUME NEW i \in 1 .. Len(t), NEW j \in 1 .. Len(t), i < j
               PROVE  t[i] < t[j]
    OBVIOUS
  <2>1. i + 1 < j + 1
    OBVIOUS
  <2> QED
    BY <1>0, <1>1, <1>2, <2>1
<1>6. \A id \in 1 .. n :
        lg[id].outcome = "open" <=> id = h \/ \E i \in 1 .. Len(t) : t[i] = id
  <2> SUFFICES ASSUME NEW id \in 1 .. n
               PROVE  (\E i \in 1 .. Len(q) : q[i] = id) <=>
                        id = h \/ \E i \in 1 .. Len(t) : t[i] = id
    BY <1>0 DEF None
  <2>1. ASSUME NEW i \in 1 .. Len(q), q[i] = id
        PROVE  id = h \/ \E j \in 1 .. Len(t) : t[j] = id
    <3>1. CASE i = 1
      BY <1>1, <2>1, <3>1
    <3>2. CASE i - 1 \in 1 .. Len(t) /\ (i - 1) + 1 = i
      <4>1. t[i - 1] = q[(i - 1) + 1]
        BY <1>1, <3>2
      <4> QED
        BY <2>1, <3>2, <4>1
    <3> QED
      BY <1>3, <3>1, <3>2
  <2>2. 1 \in 1 .. Len(q)
    BY <1>1
  <2> QED
    BY <1>1, <1>2, <2>1, <2>2
<1>7. Book(lg, t, h)
  BY <1>0, <1>1, <1>4, <1>5, <1>6 DEF Book, n
<1> QED
  BY <1>1, <1>7 DEF t, h, n

\* sync_from_radio on a fresh connection: nothing was waiting, so the books
\* hold what it queues and nothing else.
LEMMA ReconnectKept ==
  ASSUME IInv, Reconnect
  PROVE  Kept
<1> DEFINE q  == NextIds(SyncCommands)
           lg == log \o InternalRequests(SyncCommands)
           h  == Head(q)
<1>1. /\ link = "down"
      /\ writer' \in BOOLEAN
      /\ log' = IF writer' THEN lg ELSE Settle(lg, {h}, "failed")
      /\ in_flight' = IF writer' THEN h ELSE None
      /\ toRadio' = IF writer' THEN <<h>> ELSE << >>
      /\ pending_queue' = Tail(q)
  BY DEF Reconnect
<1>2. Book(log, << >>, None) /\ Len(log) \in Nat /\ log \in Seq(Request)
  BY <1>1 DEF IInv, TypeOK
<1>3. /\ Book(lg, << >> \o q, None)
      /\ Len(lg) = Len(log) + Len(SyncCommands)
      /\ \A id \in 1 .. Len(log) : lg[id] = log[id]
  BY <1>2, SyncType, InternalBook
<1>4. q \in Seq(Nat) /\ Len(q) = Len(SyncCommands) /\ Len(q) \in Nat
  <2>1. Len(SyncCommands) \in Nat /\ DOMAIN SyncCommands = 1 .. Len(SyncCommands)
    BY SyncType
  <2>2. q = [i \in 1 .. Len(SyncCommands) |-> Len(log) + i]
    BY <2>1 DEF NextIds
  <2>3. q \in [1 .. Len(SyncCommands) -> Nat]
    BY <1>2, <2>2
  <2> QED
    BY <2>1, <2>3, SeqDef
<1>5. Book(lg, q, None)
  <2>1. << >> \o q = q
    BY <1>4, ConcatEmptySeq
  <2> QED
    BY <1>3, <2>1
<1>6. q # << >>
  BY <1>4, SyncType
<1> HIDE DEF q, lg
<1>7. Book(lg, Tail(q), h) /\ h \in 1 .. Len(lg) /\ h # None
  <2>1. Book(lg, Tail(q), h) /\ h \in 1 .. Len(lg)
    BY <1>5, <1>6, StartHead
  <2> QED
    BY <2>1 DEF None
<1> HIDE DEF h
<1>8. Len(log) <= Len(lg) /\ Len(lg) \in Nat
  BY <1>2, <1>3, <1>4
<1>9. CASE writer' = TRUE
  <2>1. log' = lg /\ in_flight' = h /\ toRadio' = <<h>>
    BY <1>1, <1>9
  <2>2. StaysSettled
    BY <1>3, <2>1 DEF StaysSettled, Ids
  <2>3. toRadio' \in Seq(1 .. Len(lg))
    BY <1>7, <2>1
  <2> QED
    BY <1>1, <1>7, <1>8, <2>1, <2>2, <2>3 DEF Kept
<1>10. CASE writer' = FALSE
  <2>1. log' = Settle(lg, {h}, "failed") /\ in_flight' = None /\ toRadio' = << >>
    BY <1>1, <1>10
  <2>2. /\ Book(log', Tail(q), None)
        /\ Len(log') = Len(lg)
        /\ EndsStand(lg, log')
    BY <1>7, <2>1, SettleBook
  <2>3. StaysSettled
    <3>1. \A id \in 1 .. Len(log) : id \in 1 .. Len(lg)
      BY <1>2, <1>8
    <3> QED
      BY <1>3, <2>2, <3>1 DEF StaysSettled, Ids, EndsStand
  <2> QED
    BY <1>1, <1>8, <1>10, <2>1, <2>2, <2>3 DEF Kept
<1> QED
  BY <1>1, <1>9, <1>10

\* The radio's verdict on a request is history and touches nothing else.
LEMMA JudgeKept ==
  ASSUME IInv, NEW id \in 1 .. Len(log), NEW v \in {"ok", "error"}, Judge(id, v),
         UNCHANGED <<pending_queue, in_flight, writer>>,
         toRadio' \in Seq(1 .. Len(log))
  PROVE  /\ Kept
         /\ Len(log') = Len(log)
<1>1. log \in Seq(Request) /\ Len(log) \in Nat /\ \A i \in 1 .. Len(log) : log[i] \in Request
  BY DEF IInv, TypeOK
<1>2. log' = [log EXCEPT ![id] = [log[id] EXCEPT !.verdict = v]]
  BY DEF Judge
<1>3. [log[id] EXCEPT !.verdict = v] \in Request
  BY <1>1 DEF Request
<1>4. log' \in Seq(Request) /\ Len(log') = Len(log)
  BY <1>1, <1>2, <1>3
<1>5. \A i \in 1 .. Len(log) :
        log'[i].outcome = log[i].outcome /\ log'[i].client = log[i].client
  BY <1>1, <1>2 DEF Request
<1>6. Book(log, pending_queue, in_flight)
  BY DEF IInv
<1>7. Book(log', pending_queue, in_flight)
  BY <1>4, <1>5, <1>6 DEF Book
<1>8. writer /\ in_flight = None => pending_queue = << >>
  BY DEF IInv, WorkConserving
<1> QED
  BY <1>1, <1>4, <1>5, <1>7, <1>8 DEF Kept, StaysSettled, Ids

-----------------------------------------------------------------------------
(* The invariant is inductive: one lemma per action.                       *)

\* A step that keeps the books and the types of what it touches keeps IInv.
LEMMA Combine ==
  ASSUME IInv, Kept, UNCHANGED <<channels, gone>>,
         link' \in {"up", "lost", "down"}, writer' \in BOOLEAN,
         command_rx' \in Seq([client : channels \cup gone, cmd : Commands]),
         fromRadio' \in Seq(Frame(Len(log'))), Caused',
         iter' \in [req : {None} \cup 1 .. Len(log'), left : Nat],
         iter'.req = None => iter' = NoIter,
         onair' \subseteq 1 .. Len(log'),
         pending_acks' \subseteq [ack : 1 .. Len(log'), client : Clients],
         acked' \subseteq [ack : 1 .. Len(log'), client : Clients],
         misrouted' \subseteq [req : 1 .. Len(log'), re : {None} \cup 1 .. Len(log'),
                               code : Byte, abandoned : BOOLEAN],
         abandoned' \in BOOLEAN,
         link' = "down" => in_flight' = None /\ pending_queue' = << >>
  PROVE  IInv' /\ StaysSettled
<1>1. /\ log' \in Seq(Request)
      /\ pending_queue' \in Seq(1 .. Len(log'))
      /\ in_flight' \in {None} \cup 1 .. Len(log')
  BY DEF Kept, Book
<1>2. channels' \subseteq Clients /\ gone' \subseteq Clients \ channels'
  BY DEF IInv, TypeOK
<1>3. toRadio' \in Seq(1 .. Len(log'))
  BY DEF Kept
<1>4. TypeOK'
  BY <1>1, <1>2, <1>3 DEF TypeOK, Ids
<1>5. Book(log, pending_queue, in_flight)'
  BY DEF Kept, Book
<1>6. WorkConserving' /\ StaysSettled
  BY DEF Kept, WorkConserving
<1> QED
  BY <1>4, <1>5, <1>6 DEF IInv

\* What the core knows about a step that keeps the books.
LEMMA Carry ==
  ASSUME IInv, Kept
  PROVE  /\ fromRadio \in Seq(Frame(Len(log')))
         /\ iter \in [req : {None} \cup 1 .. Len(log'), left : Nat]
         /\ onair \subseteq 1 .. Len(log')
         /\ pending_acks \subseteq [ack : 1 .. Len(log'), client : Clients]
         /\ acked \subseteq [ack : 1 .. Len(log'), client : Clients]
         /\ misrouted \subseteq [req : 1 .. Len(log'), re : {None} \cup 1 .. Len(log'),
                                 code : Byte, abandoned : BOOLEAN]
         /\ command_rx \in Seq([client : channels \cup gone, cmd : Commands])
         /\ link \in {"up", "lost", "down"} /\ writer \in BOOLEAN
         /\ abandoned \in BOOLEAN
         /\ Caused /\ (iter.req = None => iter = NoIter)
         /\ link = "down" => in_flight = None /\ pending_queue = << >>
<1>1. Len(log') \in Nat /\ Len(log) <= Len(log')
  BY DEF Kept, Book
<1>2. TypeOK
  BY DEF IInv
<1> QED
  BY <1>1, <1>2, Grow DEF IInv, TypeOK

\* The next command or frame, and what stays behind it.
LEMMA Shift ==
  ASSUME NEW S, NEW seq \in Seq(S), seq # << >>
  PROVE  /\ Head(seq) \in S /\ Head(seq) = seq[1] /\ 1 \in 1 .. Len(seq)
         /\ Tail(seq) \in Seq(S)
         /\ \A i \in 1 .. Len(Tail(seq)) : i + 1 \in 1 .. Len(seq) /\ Tail(seq)[i] = seq[i + 1]
  OBVIOUS

\* Consuming the next frame keeps the others.
LEMMA NextFrame ==
  ASSUME NEW n \in Nat, fromRadio \in Seq(Frame(n)), fromRadio # << >>, Caused,
         fromRadio' = Tail(fromRadio)
  PROVE  /\ fromRadio' \in Seq(Frame(n))
         /\ Caused'
         /\ Head(fromRadio) \in Frame(n)
         /\ Head(fromRadio).re = None => is_push_event(Head(fromRadio).code)
<1> DEFINE S == Frame(n)
<1>1. fromRadio \in Seq(S)
  OBVIOUS
<1> HIDE DEF S
<1>2. /\ Head(fromRadio) \in S /\ Head(fromRadio) = fromRadio[1] /\ 1 \in 1 .. Len(fromRadio)
      /\ fromRadio' \in Seq(S)
      /\ \A i \in 1 .. Len(fromRadio') :
           i + 1 \in 1 .. Len(fromRadio) /\ fromRadio'[i] = fromRadio[i + 1]
  BY <1>1, Shift
<1>3. Caused'
  BY <1>2 DEF Caused
<1>4. Head(fromRadio).re = None => is_push_event(Head(fromRadio).code)
  BY <1>2 DEF Caused
<1> QED
  BY <1>2, <1>3, <1>4 DEF S

\* A command answered without the radio preserves IInv.
LEMMA AnswerLocallyStep ==
  ASSUME IInv, AnswerLocally
  PROVE  IInv' /\ StaysSettled
<1>1. Kept
  BY IdleKept DEF AnswerLocally, radioVars
<1>2. command_rx # << >> /\ command_rx' = Tail(command_rx)
  BY DEF AnswerLocally, CommandReady
<1>3. command_rx' \in Seq([client : channels \cup gone, cmd : Commands])
  BY <1>1, <1>2, Carry, Shift
<1>4. UNCHANGED <<link, writer, channels, gone, pending_queue, in_flight, pending_acks,
                  fromRadio, iter, onair, log, abandoned, misrouted, acked>>
  BY DEF AnswerLocally, connVars, radioVars, ghostVars
<1>5. Caused'
  BY <1>1, <1>4, Carry DEF Caused
<1> QED
  BY <1>1, <1>3, <1>4, <1>5, Carry, Combine

\* A command for the radio (enqueue_or_dispatch) preserves IInv.
LEMMA ForwardStep ==
  ASSUME IInv, Forward
  PROVE  IInv' /\ StaysSettled
<1>1. Kept
  BY ForwardKept
<1>2. command_rx # << >> /\ command_rx' = Tail(command_rx) /\ link # "down"
  BY DEF Forward, CommandReady
<1>3. command_rx' \in Seq([client : channels \cup gone, cmd : Commands])
  BY <1>1, <1>2, Carry, Shift
<1>4. UNCHANGED <<link, writer, channels, gone, pending_acks, fromRadio, iter, onair,
                  abandoned, misrouted, acked>>
  BY DEF Forward, connVars, ghostVars
<1>5. Caused'
  BY <1>1, <1>4, Carry DEF Caused
<1> QED
  BY <1>1, <1>2, <1>3, <1>4, <1>5, Carry, Combine

\* try_route_to_in_flight preserves IInv.
LEMMA RouteReplyStep ==
  ASSUME IInv, RouteReply
  PROVE  IInv' /\ StaysSettled
<1> DEFINE f == Head(fromRadio)
           n == Len(log')
<1>1. Kept
  BY RouteReplyKept
<1>2. n \in Nat /\ Len(log) \in Nat /\ Len(log) <= n
  BY <1>1 DEF Kept, Book, IInv, TypeOK
<1>3. fromRadio # << >> /\ fromRadio' = Tail(fromRadio) /\ link # "down" /\ in_flight # None
  BY DEF RouteReply, FrameReady
<1>4. UNCHANGED <<link, writer, channels, gone, command_rx, iter, onair, acked>>
  BY DEF RouteReply, connVars
<1>5. /\ fromRadio' \in Seq(Frame(n)) /\ Caused'
      /\ f \in Frame(n)
      /\ f.re = None => is_push_event(f.code)
  BY <1>1, <1>2, <1>3, Carry, NextFrame
<1>6. /\ StashAck(f, log[in_flight].client)
      /\ misrouted' \subseteq misrouted \cup {[req |-> in_flight, re |-> f.re, code |-> f.code,
                                               abandoned |-> abandoned]}
      /\ abandoned' \in BOOLEAN
  BY <1>1, Carry DEF RouteReply
<1>7. in_flight \in 1 .. Len(log) /\ log[in_flight].client \in Clients \cup {Internal}
  <2>1. in_flight \in 1 .. Len(log) /\ log \in Seq(Request)
    BY <1>3 DEF IInv, TypeOK, Ids
  <2>2. log[in_flight] \in Request
    BY <2>1
  <2> QED
    BY <2>1, <2>2 DEF Request
<1> HIDE DEF f
<1>8. f.re \in {None} \cup 1 .. n /\ f.code \in Byte
  <2>1. f.re \in 0 .. n /\ f.code \in Byte
    BY <1>5 DEF Frame
  <2> QED
    BY <1>2, <2>1 DEF None
<1>9. pending_acks' \subseteq [ack : 1 .. n, client : Clients]
  <2>1. pending_acks \subseteq [ack : 1 .. n, client : Clients]
    BY <1>1, Carry
  <2>2. CASE f.code = MsgSent /\ log[in_flight].client # Internal
    <3>1. f.re \in 1 .. n
      BY <1>5, <1>8, <2>2 DEF is_push_event, MsgSent
    <3>2. PICK kept \in SUBSET pending_acks :
            pending_acks' = {e \in kept : e.ack # f.re}
                              \cup {[ack |-> f.re, client |-> log[in_flight].client]}
      BY <1>6, <2>2 DEF StashAck
    <3> QED
      BY <1>7, <2>1, <2>2, <3>1, <3>2
  <2>3. CASE ~(f.code = MsgSent /\ log[in_flight].client # Internal)
    BY <1>6, <2>1, <2>3 DEF StashAck
  <2> QED
    BY <2>2, <2>3
<1>10. misrouted' \subseteq [req : 1 .. n, re : {None} \cup 1 .. n,
                             code : Byte, abandoned : BOOLEAN]
  <2>1. in_flight \in 1 .. n
    BY <1>2, <1>7
  <2>2. misrouted \subseteq [req : 1 .. n, re : {None} \cup 1 .. n,
                             code : Byte, abandoned : BOOLEAN] /\ abandoned \in BOOLEAN
    BY <1>1, Carry
  <2> QED
    BY <1>6, <1>8, <2>1, <2>2
<1> QED
  BY <1>1, <1>3, <1>4, <1>5, <1>6, <1>9, <1>10, Carry, Combine

\* try_route_ack preserves IInv.
LEMMA RouteAckStep ==
  ASSUME IInv, RouteAck
  PROVE  IInv' /\ StaysSettled
<1>1. Kept
  BY IdleKept DEF RouteAck, radioVars
<1>2. Len(log') \in Nat
  BY <1>1 DEF Kept, Book
<1>3. fromRadio # << >> /\ fromRadio' = Tail(fromRadio) /\ link # "down"
  BY DEF RouteAck, FrameReady
<1>4. UNCHANGED <<link, writer, channels, gone, command_rx, iter, onair, misrouted, abandoned>>
  BY DEF RouteAck, connVars, radioVars
<1>5. fromRadio' \in Seq(Frame(Len(log'))) /\ Caused'
  BY <1>1, <1>2, <1>3, Carry, NextFrame
<1>6. PICK e \in pending_acks :
        /\ e.ack = Head(fromRadio).re
        /\ pending_acks' = pending_acks \ {e}
        /\ acked' = acked \cup {[ack |-> Head(fromRadio).re, client |-> e.client]}
  BY DEF RouteAck
<1>7. /\ pending_acks' \subseteq [ack : 1 .. Len(log'), client : Clients]
      /\ acked' \subseteq [ack : 1 .. Len(log'), client : Clients]
  BY <1>1, <1>6, Carry
<1> QED
  BY <1>1, <1>3, <1>4, <1>5, <1>7, Carry, Combine

\* A push broadcast, or a frame dropped, by handle_radio_rx preserves IInv.
LEMMA BroadcastStep ==
  ASSUME IInv, BroadcastOrDrop
  PROVE  IInv' /\ StaysSettled
<1>1. Kept
  BY BroadcastKept
<1>2. Len(log') \in Nat
  BY <1>1 DEF Kept, Book
<1>3. fromRadio # << >> /\ fromRadio' = Tail(fromRadio) /\ link # "down"
  BY DEF BroadcastOrDrop, FrameReady
<1>4. UNCHANGED <<link, writer, channels, gone, command_rx, pending_acks, iter, onair,
                  misrouted, abandoned, acked>>
  BY DEF BroadcastOrDrop, connVars, ghostVars
<1>5. fromRadio' \in Seq(Frame(Len(log'))) /\ Caused'
  BY <1>1, <1>2, <1>3, Carry, NextFrame
<1> QED
  BY <1>1, <1>3, <1>4, <1>5, Carry, Combine

\* The two ticks of the main loop preserve IInv.
LEMMA TickStep ==
  ASSUME IInv, Timeout \/ Maintenance
  PROVE  IInv' /\ StaysSettled
<1>1. Kept
  BY TimeoutKept, MaintenanceKept
<1>2. /\ link = "up"
      /\ UNCHANGED <<link, writer, channels, gone, command_rx, pending_acks, fromRadio,
                     iter, onair, misrouted, acked>>
      /\ abandoned' \in {abandoned, TRUE}
  BY DEF Timeout, Maintenance, TickReady, connVars, ghostVars
<1>3. Caused' /\ abandoned' \in BOOLEAN
  BY <1>1, <1>2, Carry DEF Caused
<1> QED
  BY <1>1, <1>2, <1>3, Carry, Combine

\* The first half of reconnect_radio, which fails all requests, preserves IInv.
LEMMA LoseRadioStep ==
  ASSUME IInv, LoseRadio
  PROVE  IInv' /\ StaysSettled
<1>1. Kept
  BY LoseRadioKept
<1>2. /\ link' = "down" /\ writer' = FALSE /\ in_flight' = None /\ pending_queue' = << >>
      /\ UNCHANGED <<channels, gone, command_rx, pending_acks, fromRadio, iter, onair,
                     misrouted, acked, abandoned>>
  BY DEF LoseRadio, connVars, ghostVars
<1>3. Caused'
  BY <1>1, <1>2, Carry DEF Caused
<1> QED
  BY <1>1, <1>2, <1>3, Carry, Combine

\* A new connection and its sync_from_radio preserve IInv.
LEMMA ReconnectStep ==
  ASSUME IInv, Reconnect
  PROVE  IInv' /\ StaysSettled
<1>1. Kept
  BY ReconnectKept
<1>2. /\ link' = "up" /\ fromRadio' = << >> /\ iter' = NoIter /\ abandoned' = FALSE
      /\ UNCHANGED <<channels, gone, command_rx, pending_acks, onair, misrouted, acked>>
  BY DEF Reconnect, connVars
<1>3. writer' \in BOOLEAN
  BY DEF Reconnect
<1>4. /\ Caused'
      /\ iter' \in [req : {None} \cup 1 .. Len(log'), left : Nat]
      /\ fromRadio' \in Seq(Frame(Len(log')))
  BY <1>2 DEF Caused, NoIter
<1> QED
  BY <1>1, <1>2, <1>3, <1>4, Carry, Combine

\* A frame the radio emits: a reply names its request, a push names none.
LEMMA EmitFrame ==
  ASSUME IInv, NEW n \in Nat, Len(log) <= n,
         NEW code \in Byte, NEW arg \in Args, NEW re \in 0 .. n,
         re = None => is_push_event(code),
         Emit(code, arg, re)
  PROVE  fromRadio' \in Seq(Frame(n)) /\ Caused'
<1> DEFINE S == Frame(n)
           f == [code |-> code, arg |-> arg, re |-> re]
<1>1. fromRadio \in Seq(S) /\ f \in S /\ fromRadio' = Append(fromRadio, f)
  BY Grow DEF IInv, Frame, Emit
<1>2. f.re = re /\ f.code = code
  OBVIOUS
<1> HIDE DEF S, f
<1>3. /\ fromRadio' \in Seq(S)
      /\ Len(fromRadio') = Len(fromRadio) + 1
      /\ fromRadio'[Len(fromRadio) + 1] = f
      /\ \A i \in 1 .. Len(fromRadio) : fromRadio'[i] = fromRadio[i]
  BY <1>1, AppendProperties
<1>4. \A i \in 1 .. Len(fromRadio') : i \in 1 .. Len(fromRadio) \/ i = Len(fromRadio) + 1
  BY <1>1, <1>3
<1>5. Caused
  BY DEF IInv
<1>6. Caused'
  BY <1>2, <1>3, <1>4, <1>5 DEF Caused
<1> QED
  BY <1>3, <1>6 DEF S

\* What the radio may answer are codes, and what it answers about arguments.
LEMMA ReplyType ==
  ASSUME NEW cmd \in Command, cmd.code # GetContacts
  PROVE  /\ \A code \in ReplyCodes(cmd) : code \in Byte
         /\ ReplyArg(cmd) \in Args
<1>1. ReplyArg(cmd) \in Args
  BY CommandsAssumption DEF ReplyArg, Command
<1>2. \A q \in Queries : q[2] \in Byte
  BY DEF Queries, Byte, AppStart, GetBattery, DeviceQuery, GetContactByKey, GetChannel,
         SelfInfo, Battery, DeviceInfo, Contact, ChannelInfo
<1>3. \A code \in awaiting_for(cmd).codes : code \in Byte
  <2>1. \A q \in Queries : q[2] \in Byte
    BY <1>2
  <2> DEFINE Q == {q[2] : q \in {r \in Queries : r[1] = cmd.code}}
  <2>2. \A code \in Q : code \in Byte
    BY <2>1
  <2> HIDE DEF Q
  <2>3. awaiting_for(cmd) \in
          {OneOf({MsgSent}), OneOf({TelemetryResponse}),
           OneOf({ContactMsgRecv, ChannelMsgRecv, ContactMsgRecvV3,
                  ChannelMsgRecvV3, ChannelDataRecv, NoMoreMsgs}),
           OneOf({14, 15}), OneOf({Ok, 15}), OneOf({Ok}), OneOf(Q), AnyReply}
    BY DEF awaiting_for, Q
  <2> QED
    BY <2>2, <2>3 DEF OneOf, AnyReply, Byte, MsgSent, TelemetryResponse, ContactMsgRecv,
       ChannelMsgRecv, ContactMsgRecvV3, ChannelMsgRecvV3, ChannelDataRecv, NoMoreMsgs, Ok
<1>4. \A code \in {Ok, ContactMsgRecvV3, NoMoreMsgs} : code \in Byte
  BY DEF Byte, Ok, ContactMsgRecvV3, NoMoreMsgs
<1> QED
  BY <1>1, <1>3, <1>4 DEF ReplyCodes

\* The radio's answer to a command preserves IInv.
LEMMA RadioAnswerStep ==
  ASSUME IInv, RadioAnswer
  PROVE  IInv' /\ StaysSettled
<1> DEFINE id  == Head(toRadio)
           cmd == log[id].cmd
<1>1. /\ link = "up" /\ toRadio # << >> /\ toRadio' = Tail(toRadio)
      /\ UNCHANGED <<link, writer, channels, gone, command_rx, pending_queue, in_flight,
                     pending_acks, abandoned, misrouted, acked>>
  BY DEF RadioAnswer, connVars, ghostVars
<1>2. toRadio \in Seq(1 .. Len(log)) /\ log \in Seq(Request) /\ Len(log) \in Nat
  BY DEF IInv, TypeOK, Ids
<1>3. id \in 1 .. Len(log) /\ toRadio' \in Seq(1 .. Len(log))
  BY <1>1, <1>2, Shift
<1>4. cmd \in Command
  <2>1. log[id] \in Request
    BY <1>2, <1>3
  <2> QED
    BY <2>1 DEF Request
<1>5. id # None /\ id \in 0 .. Len(log)
  BY <1>2, <1>3 DEF None
<1> HIDE DEF id
<1>6. CASE /\ cmd.code # GetContacts
           /\ \E code \in ReplyCodes(cmd) : Emit(code, ReplyArg(cmd), id)
           /\ Judge(id, "ok")
           /\ onair' = IF cmd.code = SendMsg THEN onair \cup {id} ELSE onair
           /\ iter' = IF cmd.code = AppStart THEN NoIter ELSE iter
  <2>1. Kept /\ Len(log') = Len(log)
    BY <1>1, <1>3, <1>6, JudgeKept
  <2>2. PICK code \in ReplyCodes(cmd) : Emit(code, ReplyArg(cmd), id)
    BY <1>6
  <2>3. fromRadio' \in Seq(Frame(Len(log))) /\ Caused'
    BY <1>2, <1>4, <1>5, <1>6, <2>2, ReplyType, EmitFrame
  <2>4. /\ onair' \subseteq 1 .. Len(log')
        /\ iter' \in [req : {None} \cup 1 .. Len(log'), left : Nat]
        /\ iter'.req = None => iter' = NoIter
    BY <1>3, <1>6, <2>1, Carry DEF NoIter
  <2> QED
    BY <1>1, <2>1, <2>3, <2>4, Carry, Combine
<1>7. CASE /\ cmd.code = GetContacts
           /\ iter = NoIter
           /\ Emit(ContactStart, NoArg, id)
           /\ \E n \in 0 .. MaxContacts : iter' = [req |-> id, left |-> n]
           /\ UNCHANGED <<onair, log>>
  <2>1. Kept
    BY <1>1, <1>3, <1>7 DEF IInv, Kept, Book, StaysSettled, WorkConserving, TypeOK, Ids
  <2>2. ContactStart \in Byte /\ NoArg \in Args
    BY CommandsAssumption DEF ContactStart, Byte
  <2>3. fromRadio' \in Seq(Frame(Len(log))) /\ Caused'
    BY <1>2, <1>5, <1>7, <2>2, EmitFrame
  <2>4. PICK n \in 0 .. MaxContacts : iter' = [req |-> id, left |-> n]
    BY <1>7
  <2>5. /\ iter' \in [req : {None} \cup 1 .. Len(log'), left : Nat]
        /\ iter'.req # None
    BY <1>3, <1>5, <1>7, <2>4, BoundsAssumption
  <2> QED
    BY <1>1, <1>7, <2>1, <2>3, <2>5, Carry, Combine
<1>8. CASE /\ Emit(Error, NoArg, id)
           /\ Judge(id, "error")
           /\ UNCHANGED <<iter, onair>>
  <2>1. Kept /\ Len(log') = Len(log)
    BY <1>1, <1>3, <1>8, JudgeKept
  <2>2. Error \in Byte /\ NoArg \in Args
    BY CommandsAssumption DEF Error, Byte
  <2>3. fromRadio' \in Seq(Frame(Len(log))) /\ Caused'
    BY <1>2, <1>5, <1>8, <2>2, EmitFrame
  <2> QED
    BY <1>1, <1>8, <2>1, <2>3, Carry, Combine
<1> QED
  BY <1>6, <1>7, <1>8 DEF RadioAnswer, id

\* A lost command or reply preserves IInv.
LEMMA RadioSilentStep ==
  ASSUME IInv, RadioSilent
  PROVE  IInv' /\ StaysSettled
<1>1. /\ toRadio # << >> /\ toRadio' = Tail(toRadio)
      /\ UNCHANGED <<link, writer, channels, gone, command_rx, pending_queue, in_flight,
                     pending_acks, fromRadio, iter, onair, log, abandoned, misrouted, acked>>
  BY DEF RadioSilent, connVars, ghostVars
<1>2. toRadio' \in Seq(1 .. Len(log))
  BY <1>1, Shift DEF IInv, TypeOK, Ids
<1>3. Kept
  BY <1>1, <1>2 DEF IInv, Kept, Book, StaysSettled, WorkConserving, TypeOK, Ids
<1>4. Caused'
  BY <1>1, <1>3, Carry DEF Caused
<1> QED
  BY <1>1, <1>3, <1>4, Carry, Combine

\* A frame of the radio's contact iteration preserves IInv.
LEMMA RadioIterateStep ==
  ASSUME IInv, RadioIterate
  PROVE  IInv' /\ StaysSettled
<1>1. /\ link = "up" /\ iter # NoIter
      /\ UNCHANGED <<link, writer, channels, gone, command_rx, pending_queue, in_flight,
                     pending_acks, toRadio, onair, abandoned, misrouted, acked>>
  BY DEF RadioIterate, connVars, ghostVars
<1>2. /\ iter \in [req : {None} \cup 1 .. Len(log), left : Nat] /\ iter.req # None
      /\ Len(log) \in Nat /\ toRadio \in Seq(1 .. Len(log))
  BY <1>1 DEF IInv, TypeOK, Ids
<1>3. iter.req \in 1 .. Len(log) /\ iter.req \in 0 .. Len(log)
  BY <1>2
<1>4. CASE iter.left > 0
  <2>1. /\ \E k \in Keys : Emit(Contact, k, iter.req)
        /\ iter' = [iter EXCEPT !.left = @ - 1]
        /\ log' = log
    BY <1>4 DEF RadioIterate
  <2>2. Kept
    BY <1>1, <2>1, IdleKept
  <2>3. PICK k \in Keys : Emit(Contact, k, iter.req)
    BY <2>1
  <2>4. Contact \in Byte /\ k \in Args
    BY CommandsAssumption DEF Contact, Byte
  <2>5. fromRadio' \in Seq(Frame(Len(log))) /\ Caused'
    BY <1>2, <1>3, <2>3, <2>4, EmitFrame
  <2>6. /\ iter' \in [req : {None} \cup 1 .. Len(log'), left : Nat]
        /\ iter'.req # None
    BY <1>2, <1>4, <2>1
  <2> QED
    BY <1>1, <2>1, <2>2, <2>5, <2>6, Carry, Combine
<1>5. CASE ~(iter.left > 0)
  <2>1. /\ Emit(ContactEnd, NoArg, iter.req)
        /\ iter' = NoIter
        /\ Judge(iter.req, "ok")
    BY <1>5 DEF RadioIterate
  <2>2. Kept /\ Len(log') = Len(log)
    BY <1>1, <1>2, <1>3, <2>1, JudgeKept
  <2>3. ContactEnd \in Byte /\ NoArg \in Args
    BY CommandsAssumption DEF ContactEnd, Byte
  <2>4. fromRadio' \in Seq(Frame(Len(log))) /\ Caused'
    BY <1>2, <1>3, <2>1, <2>3, EmitFrame
  <2>5. /\ iter' \in [req : {None} \cup 1 .. Len(log'), left : Nat]
        /\ iter'.req = None => iter' = NoIter
    BY <2>1 DEF NoIter
  <2> QED
    BY <1>1, <2>2, <2>4, <2>5, Carry, Combine
<1> QED
  BY <1>4, <1>5

\* A push event or a delivery ACK of the radio preserves IInv.
LEMMA RadioPushStep ==
  ASSUME IInv, RadioPush \/ RadioAck
  PROVE  IInv' /\ StaysSettled
<1>1. /\ link = "up"
      /\ UNCHANGED <<link, writer, channels, gone, command_rx, pending_queue, in_flight,
                     pending_acks, toRadio, iter, log, abandoned, misrouted, acked>>
  BY DEF RadioPush, RadioAck, connVars, radioVars, ghostVars
<1>2. Kept
  BY <1>1, IdleKept
<1>3. Len(log) \in Nat /\ onair \subseteq 1 .. Len(log)
  BY DEF IInv, TypeOK, Ids
<1>4. CASE RadioPush
  <2>1. PICK p \in Pushes : Emit(p.code, p.arg, None)
    BY <1>4 DEF RadioPush
  <2>2. /\ p.code \in Byte /\ p.arg \in Args /\ is_push_event(p.code)
        /\ None \in 0 .. Len(log)
    <3>1. p \in [code : 128 .. 255, arg : Args]
      BY CommandsAssumption
    <3>2. p.code \in 128 .. 255 /\ p.arg \in Args
      BY <3>1
    <3>3. \A c \in 128 .. 255 : c \in Byte /\ is_push_event(c)
      BY DEF Byte, is_push_event
    <3>4. None \in 0 .. Len(log)
      BY <1>3 DEF None
    <3> QED
      BY <3>2, <3>3, <3>4
  <2>3. fromRadio' \in Seq(Frame(Len(log))) /\ Caused'
    BY <1>3, <2>1, <2>2, EmitFrame
  <2>4. onair' = onair
    BY <1>4 DEF RadioPush, radioVars
  <2> QED
    BY <1>1, <1>2, <2>3, <2>4, Carry, Combine
<1>5. CASE RadioAck
  <2>1. PICK id \in onair : Emit(Ack, NoArg, id) /\ onair' = onair \ {id}
    BY <1>5 DEF RadioAck
  <2>2. /\ Ack \in Byte /\ NoArg \in Args /\ is_push_event(Ack)
        /\ id \in 0 .. Len(log)
    BY <1>3, CommandsAssumption DEF Byte, is_push_event, Ack
  <2>3. fromRadio' \in Seq(Frame(Len(log))) /\ Caused'
    BY <1>3, <2>1, <2>2, EmitFrame
  <2>4. onair' \subseteq 1 .. Len(log')
    BY <1>1, <1>3, <2>1
  <2> QED
    BY <1>1, <1>2, <2>3, <2>4, Carry, Combine
<1> QED
  BY <1>4, <1>5

\* A prefix of a sequence.
LEMMA Prefix ==
  ASSUME NEW S, NEW seq \in Seq(S), NEW n \in 0 .. Len(seq)
  PROVE  /\ SubSeq(seq, 1, n) \in Seq(S)
         /\ \A i \in 1 .. Len(SubSeq(seq, 1, n)) :
              i \in 1 .. Len(seq) /\ SubSeq(seq, 1, n)[i] = seq[i]
  OBVIOUS

\* The failure of either half of the radio connection preserves IInv.
LEMMA LinkFailureStep ==
  ASSUME IInv, WriterEnds \/ RelayEnds
  PROVE  IInv' /\ StaysSettled
<1>1. UNCHANGED <<channels, gone, command_rx, pending_queue, in_flight, pending_acks,
                  iter, onair, log, abandoned, misrouted, acked>>
  BY DEF WriterEnds, RelayEnds, connVars, radioVars, ghostVars
<1>2. CASE WriterEnds
  <2>1. PICK n \in 0 .. Len(toRadio) : toRadio' = SubSeq(toRadio, 1, n)
    BY <1>2 DEF WriterEnds
  <2>2. writer' = FALSE /\ link' = link /\ fromRadio' = fromRadio
    BY <1>2 DEF WriterEnds
  <2>3. toRadio' \in Seq(1 .. Len(log))
    BY <2>1, Prefix DEF IInv, TypeOK, Ids
  <2>4. Kept
    BY <1>1, <2>2, <2>3 DEF IInv, Kept, Book, StaysSettled, TypeOK, Ids
  <2>5. Caused'
    BY <2>2, <2>4, Carry DEF Caused
  <2> QED
    BY <1>1, <2>2, <2>4, <2>5, Carry, Combine
<1>3. CASE RelayEnds
  <2>1. PICK n \in 0 .. Len(fromRadio) : fromRadio' = SubSeq(fromRadio, 1, n)
    BY <1>3 DEF RelayEnds
  <2>2. writer' = writer /\ link' = "lost" /\ toRadio' = toRadio
    BY <1>3 DEF RelayEnds, radioVars
  <2>3. Kept
    BY <1>1, <2>2, IdleKept
  <2> DEFINE S == Frame(Len(log))
  <2>4. fromRadio \in Seq(S) /\ Caused
    BY DEF IInv, TypeOK
  <2> HIDE DEF S
  <2>5. /\ fromRadio' \in Seq(S)
        /\ \A i \in 1 .. Len(fromRadio') :
             i \in 1 .. Len(fromRadio) /\ fromRadio'[i] = fromRadio[i]
    BY <2>1, <2>4, Prefix
  <2>6. Caused'
    BY <2>4, <2>5 DEF Caused
  <2>7. fromRadio' \in Seq(Frame(Len(log')))
    BY <1>1, <2>5 DEF S
  <2> QED
    BY <1>1, <2>2, <2>3, <2>6, <2>7, Carry, Combine
<1> QED
  BY <1>2, <1>3

\* A connection that opens or closes stays known to the books.
LEMMA ConnectionStep ==
  ASSUME IInv, NEW c \in Clients, Connect(c) \/ Disconnect(c)
  PROVE  IInv' /\ StaysSettled
<1>1. /\ UNCHANGED <<link, writer, command_rx, pending_queue, in_flight, pending_acks,
                     toRadio, fromRadio, iter, onair, log, abandoned, misrouted, acked>>
  BY DEF Connect, Disconnect, radioVars, ghostVars
<1>2. /\ channels' \subseteq Clients /\ gone' \subseteq Clients \ channels'
      /\ channels \cup gone \subseteq channels' \cup gone'
      /\ gone \subseteq gone'
  BY DEF Connect, Disconnect, IInv, TypeOK
<1>3. command_rx' \in Seq([client : channels' \cup gone', cmd : Commands])
  <2>1. command_rx \in Seq([client : channels \cup gone, cmd : Commands])
    BY DEF IInv, TypeOK
  <2>2. [client : channels \cup gone, cmd : Commands]
          \subseteq [client : channels' \cup gone', cmd : Commands]
    BY <1>2
  <2> QED
    BY <1>1, <2>1, <2>2, SeqMonotonic
<1>4. TypeOK'
  BY <1>1, <1>2, <1>3 DEF IInv, TypeOK, Ids
<1>5. Book(log, pending_queue, in_flight)'
  BY <1>1, <1>2 DEF IInv, Book
<1>6. /\ WorkConserving' /\ Caused' /\ StaysSettled
      /\ iter'.req = None => iter' = NoIter
      /\ link' = "down" => in_flight' = None /\ pending_queue' = << >>
  BY <1>1 DEF IInv, WorkConserving, Caused, StaysSettled
<1> QED
  BY <1>4, <1>5, <1>6 DEF IInv

\* A command read from a client's socket preserves IInv.
LEMMA ClientSendStep ==
  ASSUME IInv, NEW c \in Clients, NEW cmd \in Commands, ClientSend(c, cmd)
  PROVE  IInv' /\ StaysSettled
<1>1. /\ c \in channels
      /\ command_rx' = Append(command_rx, [client |-> c, cmd |-> cmd])
      /\ UNCHANGED <<link, writer, channels, gone, pending_queue, in_flight, pending_acks,
                     toRadio, fromRadio, iter, onair, log, abandoned, misrouted, acked>>
  BY DEF ClientSend, connVars, radioVars, ghostVars
<1>2. Kept
  BY <1>1, IdleKept
<1>3. command_rx' \in Seq([client : channels \cup gone, cmd : Commands])
  <2>1. [client |-> c, cmd |-> cmd] \in [client : channels \cup gone, cmd : Commands]
    BY <1>1
  <2> QED
    BY <1>1, <1>2, <2>1, Carry, AppendProperties
<1>4. Caused'
  BY <1>1, <1>2, Carry DEF Caused
<1> QED
  BY <1>1, <1>2, <1>3, <1>4, Carry, Combine

\* A stuttering step preserves IInv.
LEMMA StutterStep ==
  ASSUME IInv, UNCHANGED vars
  PROVE  IInv' /\ StaysSettled
<1>1. UNCHANGED <<link, writer, channels, gone, command_rx, pending_queue, in_flight,
                  pending_acks, toRadio, fromRadio, iter, onair, log, abandoned, misrouted,
                  acked>>
  BY DEF vars
<1>2. Kept
  BY <1>1, IdleKept
<1>3. Caused'
  BY <1>1, <1>2, Carry DEF Caused
<1> QED
  BY <1>1, <1>2, <1>3, Carry, Combine

\* IInv holds when coresplitter starts.
LEMMA InitHolds == Init => IInv
<1> SUFFICES ASSUME Init PROVE IInv
  OBVIOUS
<1>1. TypeOK
  <2>1. /\ link = "down" /\ writer = FALSE /\ channels = {} /\ gone = {}
        /\ command_rx = << >> /\ pending_queue = << >> /\ in_flight = None
        /\ pending_acks = {} /\ toRadio = << >> /\ fromRadio = << >>
        /\ iter = NoIter /\ onair = {} /\ log = << >> /\ abandoned = FALSE
        /\ misrouted = {} /\ acked = {}
    BY DEF Init
  <2>2. iter \in [req : {None} \cup Ids, left : Nat]
    BY <2>1 DEF NoIter
  <2>3. \A S : << >> \in Seq(S)
    OBVIOUS
  <2> QED
    BY <2>1, <2>2, <2>3 DEF TypeOK
<1>2. Book(log, pending_queue, in_flight)
  BY DEF Init, Book, None
<1>3. WorkConserving /\ Caused
  BY DEF Init, WorkConserving, Caused
<1> QED
  BY <1>1, <1>2, <1>3 DEF Init, IInv

\* Every step of coresplitter, its clients and its radio preserves IInv and
\* changes no request that has ended.
LEMMA StepHolds == IInv /\ [Next]_vars => IInv' /\ StaysSettled
<1> SUFFICES ASSUME IInv, [Next]_vars PROVE IInv' /\ StaysSettled
  OBVIOUS
<1>1. CASE Core
  BY <1>1, AnswerLocallyStep, ForwardStep, RouteReplyStep, RouteAckStep, BroadcastStep,
     TickStep, LoseRadioStep, ReconnectStep DEF Core
<1>2. CASE Radio
  BY <1>2, RadioAnswerStep, RadioSilentStep, RadioIterateStep, RadioPushStep,
     LinkFailureStep DEF Radio
<1>3. CASE \E c \in Clients : Connect(c) \/ Disconnect(c)
  BY <1>3, ConnectionStep
<1>4. CASE \E c \in Clients, cmd \in Commands : ClientSend(c, cmd)
  BY <1>4, ClientSendStep
<1>5. CASE UNCHANGED vars
  BY <1>5, StutterStep
<1> QED
  BY <1>1, <1>2, <1>3, <1>4, <1>5 DEF Next

-----------------------------------------------------------------------------
(* The theorems.                                                           *)

\* The inductive invariant holds in every reachable state of the core.
THEOREM Inductive == Spec => []IInv
BY InitHolds, StepHolds, PTL DEF Spec

\* Every variable keeps its type, whatever clients, radio and backend do.
THEOREM TypeCorrect == Spec => []TypeOK
<1>1. IInv => TypeOK
  BY DEF IInv
<1> QED
  BY <1>1, Inductive, PTL

\* After every handler of the main loop a free slot with a live send channel
\* means an empty queue: nobody waits for an idle radio.
THEOREM NeverIdle == Spec => []WorkConserving
<1>1. IInv => WorkConserving
  BY DEF IInv
<1> QED
  BY <1>1, Inductive, PTL

\* A request is open exactly while the slot or the queue holds it: timeouts,
\* disconnects, reconnects and refreshes neither lose one nor answer one early.
THEOREM NothingForgotten == Spec => []Accounted
<1>1. IInv => Accounted
  <2> SUFFICES ASSUME IInv PROVE Accounted
    OBVIOUS
  <2>1. /\ Book(log, pending_queue, in_flight)
        /\ pending_queue \in Seq(1 .. Len(log)) /\ Len(log) \in Nat
        /\ in_flight \in {None} \cup 1 .. Len(log)
    BY DEF IInv, TypeOK, Ids
  <2>2. \A id : id \in Waiting <=> \E i \in 1 .. Len(pending_queue) : pending_queue[i] = id
    <3>1. DOMAIN pending_queue = 1 .. Len(pending_queue)
      BY <2>1
    <3> QED
      BY <3>1 DEF Waiting, Range
  <2>3. \A id \in Ids : log[id].outcome = "open" <=> id = in_flight \/ id \in Waiting
    BY <2>1, <2>2 DEF Book, Ids
  <2>4. \A i \in 1 .. Len(pending_queue) : in_flight < pending_queue[i]
    BY <2>1 DEF Book
  <2>5. in_flight \notin Waiting
    BY <2>1, <2>2, <2>4 DEF None
  <2> QED
    BY <2>3, <2>5 DEF Accounted
<1> QED
  BY <1>1, Inductive, PTL

\* Requests wait in the order the core accepted them, behind the one in
\* flight: the core's own refreshes never overtake a client.
THEOREM FirstComeFirstServed == Spec => []DispatchInOrder
<1>1. IInv => DispatchInOrder
  <2> SUFFICES ASSUME IInv PROVE DispatchInOrder
    OBVIOUS
  <2>1. Book(log, pending_queue, in_flight) /\ pending_queue \in Seq(1 .. Len(log))
    BY DEF IInv, TypeOK, Ids
  <2>2. DOMAIN pending_queue = 1 .. Len(pending_queue)
    BY <2>1
  <2> QED
    BY <2>1, <2>2 DEF Book, DispatchInOrder
<1> QED
  BY <1>1, Inductive, PTL

\* A request ends without an answer only when its client has gone.
THEOREM EveryClientAnswered == Spec => []NoSilentDrop
<1>1. IInv => NoSilentDrop
  BY DEF IInv, Book, NoSilentDrop, Ids
<1> QED
  BY <1>1, Inductive, PTL

\* How a request ended is never revised, not by a late reply either.
THEOREM AnsweredOnce == Spec => SettledOnce
<1>1. IInv /\ [Next]_vars => [StaysSettled]_vars
  BY StepHolds
<1> QED
  BY <1>1, Inductive, PTL DEF Spec, SettledOnce

=============================================================================
