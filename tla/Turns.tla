-------------------------------- MODULE Turns --------------------------------
(***************************************************************************)
(* What the request multiplexer promises, without radio, clients or        *)
(* connections: requests are numbered as they come, wait in that order,    *)
(* are served one at a time and end once.  Only the one in service can be  *)
(* answered; a waiting one can only fail or be dropped, and only when it   *)
(* is its turn.                                                            *)
(***************************************************************************)
EXTENDS Naturals, Sequences

VARIABLES
  outcome,   \* how each request ended, "open" while it has not
  serving,   \* the request in service, Nobody without one
  line       \* the requests that wait, first come first

vars == <<outcome, serving, line>>

Nobody   == 0
Answered == {"accepted", "rejected"}
Given    == {"failed", "dropped"}

Init ==
  /\ outcome = << >>
  /\ serving = Nobody
  /\ line = << >>

\* The numbers of the requests that come in this step, and all who wait then.
Arrivals == [i \in 1 .. Len(outcome') - Len(outcome) |-> Len(outcome) + i]
Queue    == line \o Arrivals

\* No request ends but those in ids.
OnlyEnds(ids) ==
  \A id \in DOMAIN outcome' \ ids :
    outcome'[id] = IF id \in DOMAIN outcome THEN outcome[id] ELSE "open"

\* Others come while one is served.
Arrive ==
  /\ serving # Nobody /\ serving' = serving
  /\ line' = Queue
  /\ OnlyEnds({})

\* The one in service, if any, is answered or fails; of those who wait the
\* first n are given up, and the next may be served.
Advance ==
  \E n \in 0 .. Len(Queue) :
    LET given == {Queue[i] : i \in 1 .. n}
    IN /\ serving # Nobody => outcome'[serving] \in Answered \cup Given
       /\ \A id \in given : outcome'[id] \in Given
       /\ OnlyEnds(given \cup {serving})
       /\ \/ /\ serving' = Nobody
             /\ line' = SubSeq(Queue, n + 1, Len(Queue))
          \/ /\ n < Len(Queue)
             /\ serving' = Queue[n + 1]
             /\ line' = SubSeq(Queue, n + 2, Len(Queue))

\* One who comes when nobody can be served fails at once, past the others.
Refuse ==
  /\ serving = Nobody /\ serving' = Nobody
  /\ line' = line
  /\ outcome' = Append(outcome, "failed")

Next ==
  /\ Len(outcome') >= Len(outcome)
  /\ Arrive \/ Advance \/ Refuse

Spec == Init /\ [][Next]_vars
=============================================================================
