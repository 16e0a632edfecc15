----------------------------- MODULE FrameParser -----------------------------
(***************************************************************************)
(* The framing both the frontend and the serial and TCP backends use: a    *)
(* header byte, the length as a little-endian 16-bit number, the payload.  *)
(* The stream arrives in pieces of any size; feed is called with each, and *)
(* each turn of its loop is a step here.  Bytes are digits to a small      *)
(* base, so that lengths and payloads contain header bytes and the high    *)
(* digit of a length is used.                                              *)
(***************************************************************************)
EXTENDS Integers, Sequences

CONSTANTS
  Base,                 \* values of a byte, 256 in the code
  FRAME_HEADER_CLIENT,
  FRAME_HEADER_SERVER,
  Payloads,             \* the payloads that are sent
  Noise,                \* runs of bytes a line may add before a frame
  MaxFrames             \* bound: frames sent

Bytes   == 0 .. Base - 1
Headers == {FRAME_HEADER_CLIENT, FRAME_HEADER_SERVER}

\* A length is kept in two digits; noise is never taken for a header.
ASSUME FramesAssumption ==
  /\ Base \in Nat \ {0}
  /\ Headers \subseteq Bytes
  /\ Payloads \subseteq Seq(Bytes)
  /\ \A p \in Payloads : Len(p) < Base * Base
  /\ Noise \subseteq Seq(Bytes \ Headers)

VARIABLES
  stream,   \* history: the bytes written
  sent,     \* history: the payloads handed to encode, and where their frames begin
  fed,      \* how many bytes of the stream have been read
  parser,   \* header_byte, expected_len and buffer of the receiver
  feeding,  \* a call of feed is under way ...
  found,    \* ... and has found these payloads
  frames    \* history: what feed has returned so far

vars == <<stream, sent, fed, parser, feeding, found, frames>>

None == -1
New == [header_byte |-> None, expected_len |-> None, buffer |-> << >>]

u16(n) == n % (Base * Base)

encode(header, payload) ==
  <<header, u16(Len(payload)) % Base, u16(Len(payload)) \div Base>> \o payload

-----------------------------------------------------------------------------
(* What the loop of feed does to the parser p.                             *)

\* Mutant of Skipped: the byte that is no header is looked at again.
Skipped_Stays(p) == p

Skipped(p) == [p EXCEPT !.buffer = Tail(@)]

WithHeader(p) == [p EXCEPT !.header_byte = Head(p.buffer), !.buffer = Tail(@)]

WithLength(p) ==
  [p EXCEPT !.expected_len = p.buffer[1] + Base * p.buffer[2],
            !.buffer = SubSeq(@, 3, Len(@))]

\* Mutant of Restarted: the length of the last frame is kept.
Restarted_KeepsLength(p) ==
  [p EXCEPT !.header_byte = None,
            !.buffer = SubSeq(@, p.expected_len + 1, Len(@))]

\* The parser once the payload is split off.
Restarted(p) ==
  [header_byte |-> None, expected_len |-> None,
   buffer |-> SubSeq(p.buffer, p.expected_len + 1, Len(p.buffer))]

\* Mutant of Complete: the frame ends only when more follows.
Complete_NeedsMore(p) == Len(p.buffer) > p.expected_len

Complete(p) == Len(p.buffer) >= p.expected_len

-----------------------------------------------------------------------------
(* The loop; what it waits for decides which turn it takes.                *)

NeedsHeader  == parser.header_byte = None
NeedsLength  == parser.header_byte # None /\ parser.expected_len = None
NeedsPayload == parser.header_byte # None /\ parser.expected_len # None

SkipByte ==
  /\ NeedsHeader /\ parser.buffer # << >> /\ Head(parser.buffer) \notin Headers
  /\ parser' = Skipped(parser)
  /\ UNCHANGED <<feeding, found, frames>>

ReadHeader ==
  /\ NeedsHeader /\ parser.buffer # << >> /\ Head(parser.buffer) \in Headers
  /\ parser' = WithHeader(parser)
  /\ UNCHANGED <<feeding, found, frames>>

ReadLength ==
  /\ NeedsLength /\ Len(parser.buffer) >= 2
  /\ parser' = WithLength(parser)
  /\ UNCHANGED <<feeding, found, frames>>

TakePayload ==
  /\ NeedsPayload /\ Complete(parser)
  /\ parser' = Restarted(parser)
  /\ found' = Append(found, SubSeq(parser.buffer, 1, parser.expected_len))
  /\ UNCHANGED <<feeding, frames>>

\* The loop breaks and feed returns.
Return ==
  /\ \/ NeedsHeader /\ parser.buffer = << >>
     \/ NeedsLength /\ Len(parser.buffer) < 2
     \/ NeedsPayload /\ ~Complete(parser)
  /\ feeding' = FALSE
  /\ frames' = frames \o found
  /\ found' = << >>
  /\ UNCHANGED parser

Turn ==
  /\ feeding
  /\ SkipByte \/ ReadHeader \/ ReadLength \/ TakePayload \/ Return
  /\ UNCHANGED <<stream, sent, fed>>

-----------------------------------------------------------------------------
Init ==
  /\ stream = << >>
  /\ sent = << >>
  /\ fed = 0
  /\ parser = New
  /\ feeding = FALSE
  /\ found = << >>
  /\ frames = << >>

\* encode_command or encode_response; noise may come before the frame.
Write ==
  /\ Len(sent) < MaxFrames
  /\ \E h \in Headers, p \in Payloads, noise \in Noise :
       /\ stream' = stream \o noise \o encode(h, p)
       /\ sent' = Append(sent, [payload |-> p, at |-> Len(stream) + Len(noise) + 1])
  /\ UNCHANGED <<fed, parser, feeding, found, frames>>

\* A read returns some of the bytes that are there, and feed is called.
Read ==
  /\ ~feeding
  /\ \E n \in fed + 1 .. Len(stream) :
       /\ parser' = [parser EXCEPT !.buffer = @ \o SubSeq(stream, fed + 1, n)]
       /\ fed' = n
  /\ feeding' = TRUE
  /\ UNCHANGED <<stream, sent, found, frames>>

Next == Write \/ Read \/ Turn

\* feed runs to its end once it is called.
Spec == Init /\ [][Next]_vars /\ WF_vars(Turn)

-----------------------------------------------------------------------------
(* Properties.                                                             *)

\* However the stream is cut into pieces, and whatever header bytes its
\* payloads and lengths contain, feed returns the payloads that were sent,
\* unchanged and in order.
InOrder ==
  /\ Len(frames) <= Len(sent)
  /\ \A i \in 1 .. Len(frames) : frames[i] = sent[i].payload

\* The place of a frame's last byte.
EndOf(f) == f.at + 2 + Len(f.payload)

\* A frame is returned by the feed that gets its last byte: nothing waits in
\* the buffer for later traffic, not even an empty payload, and when all has
\* been read nothing is kept.
NothingHeldBack ==
  ~feeding =>
    /\ \A i \in 1 .. Len(sent) : EndOf(sent[i]) <= fed => i <= Len(frames)
    /\ fed = Len(stream) => parser = New

\* The bytes and the known length that the loop has left to use up.
Left == Len(parser.buffer) + IF parser.expected_len = None THEN 0 ELSE 1

\* The loop of feed (`loop`, `continue`) uses something up in every turn but
\* the one that ends it, also where a payload is empty; so it has an end.
EachTurnConsumes == [][Turn => ~feeding' \/ Left' < Left]_vars

\* feed returns, whatever bytes it is given; until it does, the connection
\* is not read.
FeedReturns == feeding ~> ~feeding

=============================================================================
