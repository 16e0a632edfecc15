---------------------------- MODULE RequestsTurns ----------------------------
(* The multiplexer implements Turns.                                       *)
EXTENDS Requests

Endings == [id \in DOMAIN log |-> log[id].outcome]

T == INSTANCE Turns WITH outcome <- Endings, serving <- in_flight, line <- pending_queue

\* README: "serialized through a FIFO queue and forwarded one at a time to the
\* radio": every step of the core, the radio, the clients and the connection is
\* a step of Turns or none.  In particular a lost connection, a timeout and the
\* core's own syncs and refreshes never reorder, revive or skip a request.
InTurn == T!Spec
=============================================================================
