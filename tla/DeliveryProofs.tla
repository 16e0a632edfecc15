--------------------------- MODULE DeliveryProofs ---------------------------
(***************************************************************************)
(* What a client reads on its socket, proved for any number of clients,    *)
(* commands, pushes and losses of the radio, and any capacity of the       *)
(* broadcast channel.                                                      *)
(***************************************************************************)
EXTENDS Delivery, SequenceTheorems, TLAPS

Frames == [kind : {"info", "missed", "message", "reply", "error", "push"},
           id : Nat, layout : {"none", "v1", "v3"}]
Own    == [kind : {"info", "missed", "message", "reply", "error"},
           id : Nat, layout : {"none", "v1", "v3"}]
Waits  == [client : Clients, id : Nat, version : Nat]

\* The types that TypeOK leaves open; a client's own channel has no pushes.
Types ==
  /\ direct \in [Clients -> Seq(Own)]
  /\ got \in [Clients -> Seq(Frames)]
  /\ pos \in [Clients -> Nat]
  /\ joined \in [Clients -> Nat]
  /\ lagged \in [Clients -> BOOLEAN]
  /\ fanned \in [Clients -> SUBSET Nat]
  /\ waiting \in Seq(Waits)
  /\ spent \in [commands : Nat, losses : Nat]

\* What holds of everything on a client's way w that negotiated version v and
\* was connected when the messages known were fanned out: the answers to its
\* DEVICE_QUERY carry the version it still has, messages behind such an answer
\* have its layout, and no message is there twice.
WayInv(w, v, known) ==
  /\ \A i \in DOMAIN w : w[i].kind = "info" => v # 0 /\ w[i].id = v
  /\ \A i, j \in DOMAIN w :
       i < j /\ w[i].kind = "info" /\ w[j].layout # "none" => w[j].layout = Layout(v)
  /\ \A i \in DOMAIN w : w[i].kind = "message" => w[i].id \in known
  /\ \A i, j \in DOMAIN w :
       w[i].kind = "message" /\ w[j].kind = "message" /\ w[i].id = w[j].id => i = j

\* Every one of the messages known is on the way w.
Present(w, known) ==
  \A id \in known : \E i \in DOMAIN w : w[i].kind = "message" /\ w[i].id = id

\* What holds of the frames g written to a client that joined after push from
\* and whose receiver stands at push upto.
PushInv(g, from, upto, skipped) ==
  /\ \A i \in DOMAIN g : g[i].kind = "push" => g[i].id <= upto
  /\ \A i, j \in DOMAIN g :
       i < j /\ g[i].kind = "push" /\ g[j].kind = "push" => g[i].id < g[j].id
  /\ ~skipped => \A n \in from + 1 .. upto : \E i \in DOMAIN g : g[i].kind = "push" /\ g[i].id = n

ClientInv(c) ==
  /\ WayInv(Way(c), protocol_versions[c], fanned[c])
  /\ PushInv(got[c], joined[c], pos[c], lagged[c])
  /\ conn[c] = "open" => Present(Way(c), fanned[c])
  /\ conn[c] = "new" => got[c] = << >> /\ fanned[c] = {}

\* The requests that wait are numbered in the order they came, behind all
\* that was fanned out, and ask for the version their client still has.
WaitingInv ==
  /\ \A i \in DOMAIN waiting :
       /\ waiting[i].id \in 1 .. spent.commands
       /\ waiting[i].version # 0 => waiting[i].version = protocol_versions[waiting[i].client]
  /\ \A i, j \in DOMAIN waiting : i < j => waiting[i].id < waiting[j].id
  /\ \A c \in Clients : \A id \in fanned[c] :
       /\ id \in 1 .. spent.commands
       /\ \A i \in DOMAIN waiting : id < waiting[i].id

DeliveryInv == TypeOK /\ Types /\ WaitingInv /\ \A c \in Clients : ClientInv(c)

-----------------------------------------------------------------------------
(* Ways, as sequences.                                                     *)

\* The frames of a way are frames.
LEMMA FrameOf ==
  ASSUME NEW g \in Seq(Frames)
  PROVE  \A i \in DOMAIN g : g[i] \in Frames /\ g[i].id \in Nat
<1> TAKE i \in DOMAIN g
<1>1. i \in 1 .. Len(g) BY LenProperties
<1>2. g[i] \in Frames BY <1>1, ElementOfSeq
<1> QED BY <1>2 DEF Frames

\* A frame at the end of the client's channel is at the end of its way.
LEMMA AppendWay ==
  ASSUME NEW g \in Seq(Frames), NEW d \in Seq(Frames), NEW f \in Frames
  PROVE  g \o Append(d, f) = Append(g \o d, f)
<1>1. Append(d, f) = d \o <<f>> BY AppendIsConcat
<1>2. g \o d \in Seq(Frames) BY ConcatProperties
<1>3. Append(g \o d, f) = (g \o d) \o <<f>> BY <1>2, AppendIsConcat
<1>4. <<f>> \in Seq(Frames) OBVIOUS
<1> QED BY <1>1, <1>3, <1>4, ConcatAssociative

\* The write task takes the first frame of the channel: the way is the same.
LEMMA MoveWay ==
  ASSUME NEW g \in Seq(Frames), NEW d \in Seq(Frames), d # << >>
  PROVE  Append(g, Head(d)) \o Tail(d) = g \o d
<1>1. Head(d) \in Frames /\ Tail(d) \in Seq(Frames) BY HeadTailProperties
<1>2. Append(g, Head(d)) = g \o <<Head(d)>> BY <1>1, AppendIsConcat
<1>3. <<Head(d)>> \in Seq(Frames) BY <1>1
<1>4. d = <<Head(d)>> \o Tail(d)
  <2>1. Len(d) \in Nat \ {0} BY EmptySeq
  <2>2. /\ Len(Tail(d)) = Len(d) - 1
        /\ \A i \in 1 .. Len(Tail(d)) : Tail(d)[i] = d[i + 1]
    BY HeadTailProperties
  <2> DEFINE e == <<Head(d)>> \o Tail(d)
  <2>3. /\ e \in Seq(Frames) /\ Len(e) = 1 + Len(Tail(d))
        /\ \A i \in 1 .. 1 + Len(Tail(d)) :
             e[i] = IF i <= 1 THEN <<Head(d)>>[i] ELSE Tail(d)[i - 1]
    BY <1>1, <1>3, ConcatProperties
  <2>4. Len(e) = Len(d) BY <2>1, <2>2, <2>3
  <2>5. \A i \in 1 .. Len(d) : d[i] = e[i]
    <3> TAKE i \in 1 .. Len(d)
    <3> HIDE DEF e
    <3>1. CASE i = 1 BY <3>1, <2>1, <2>2, <2>3
    <3>2. CASE i # 1
      <4>1. i - 1 \in 1 .. Len(Tail(d)) /\ i \in 1 .. 1 + Len(Tail(d)) /\ ~(i <= 1)
        BY <3>2, <2>1, <2>2
      <4>2. Tail(d)[i - 1] = d[(i - 1) + 1] BY <4>1, <2>2
      <4>3. (i - 1) + 1 = i OBVIOUS
      <4> QED BY <4>1, <4>2, <4>3, <2>3
    <3> QED BY <3>1, <3>2
  <2> HIDE DEF e
  <2>6. d = e BY <2>3, <2>4, <2>5, SeqEqual
  <2> QED BY <2>6 DEF e
<1> HIDE <1>4
<1>5. (g \o <<Head(d)>>) \o Tail(d) = g \o (<<Head(d)>> \o Tail(d))
  BY <1>1, <1>3, ConcatAssociative
<1> QED BY <1>2, <1>4, <1>5

\* A push is written between what was written and what is yet to be: the
\* places of the frames behind it move by one.
LEMMA InsertWay ==
  ASSUME NEW g \in Seq(Frames), NEW d \in Seq(Frames), NEW f \in Frames
  PROVE  LET w == g \o d
             x == Append(g, f) \o d
         IN /\ w \in Seq(Frames) /\ x \in Seq(Frames)
            /\ DOMAIN w = 1 .. Len(w) /\ DOMAIN x = 1 .. Len(w) + 1 /\ Len(w) \in Nat
            /\ Len(g) \in 0 .. Len(w)
            /\ x[Len(g) + 1] = f
            /\ \A i \in 1 .. Len(w) : x[IF i <= Len(g) THEN i ELSE i + 1] = w[i]
<1> DEFINE w == g \o d
           a == Append(g, f)
           x == a \o d
<1>1. /\ a \in Seq(Frames) /\ Len(a) = Len(g) + 1
      /\ \A i \in 1 .. Len(g) : a[i] = g[i]
      /\ a[Len(g) + 1] = f
  BY AppendProperties
<1>2. /\ w \in Seq(Frames) /\ Len(w) = Len(g) + Len(d)
      /\ \A i \in 1 .. Len(g) + Len(d) : w[i] = IF i <= Len(g) THEN g[i] ELSE d[i - Len(g)]
  BY ConcatProperties
<1> HIDE DEF a
<1>3. /\ x \in Seq(Frames) /\ Len(x) = Len(a) + Len(d)
      /\ \A i \in 1 .. Len(a) + Len(d) : x[i] = IF i <= Len(a) THEN a[i] ELSE d[i - Len(a)]
  BY <1>1, ConcatProperties
<1>4. Len(g) \in Nat /\ Len(d) \in Nat BY LenProperties
<1> HIDE DEF w, x
<1>5. x[Len(g) + 1] = f
  BY <1>1, <1>3, <1>4
<1>6. ASSUME NEW i \in 1 .. Len(w)
      PROVE  x[IF i <= Len(g) THEN i ELSE i + 1] = w[i]
  <2>1. CASE i <= Len(g)
    BY <2>1, <1>1, <1>2, <1>3, <1>4
  <2>2. CASE ~(i <= Len(g))
    <3>1. x[i + 1] = d[(i + 1) - Len(a)]
      BY <2>2, <1>1, <1>2, <1>3, <1>4
    <3>2. (i + 1) - Len(a) = i - Len(g) BY <1>1, <1>4, <1>2
    <3> QED BY <2>2, <3>1, <3>2, <1>2
  <2> QED BY <2>1, <2>2
<1>7. DOMAIN w = 1 .. Len(w) /\ DOMAIN x = 1 .. Len(x)
  BY <1>2, <1>3, LenProperties
<1>8. Len(x) = Len(w) + 1 /\ Len(w) \in Nat /\ Len(g) \in 0 .. Len(w)
  BY <1>1, <1>2, <1>3, <1>4
<1> QED BY <1>1, <1>2, <1>3, <1>5, <1>6, <1>7, <1>8 DEF w, x, a

-----------------------------------------------------------------------------
(* What happens to a way keeps what holds of it.                           *)

\* A connection begins with an empty way.
LEMMA EmptyWay ==
  ASSUME NEW v, NEW known, NEW from, NEW skipped
  PROVE  /\ WayInv(<< >>, v, known)
         /\ Present(<< >>, {})
         /\ from \in Nat => PushInv(<< >>, from, from, skipped)
BY DEF WayInv, Present, PushInv

\* A frame is put on the way (send_to_client, broadcast_to_others): an answer
\* to DEVICE_QUERY has the version of the client, a message its layout, and a
\* message of the radio is a new one.
LEMMA FrameOnWay ==
  ASSUME NEW w \in Seq(Frames), NEW v \in Nat, NEW known, NEW f \in Frames,
         WayInv(w, v, known),
         f.kind = "info" => v # 0 /\ f.id = v,
         f.layout # "none" => f.layout = Layout(v),
         f.kind = "message" => f.id \notin known,
         NEW more, more = IF f.kind = "message" THEN known \cup {f.id} ELSE known
  PROVE  WayInv(Append(w, f), v, more)
<1> DEFINE x == Append(w, f)
           n == Len(w)
<1>1. /\ n \in Nat /\ DOMAIN w = 1 .. n /\ DOMAIN x = 1 .. n + 1
      /\ \A i \in 1 .. n : x[i] = w[i]
      /\ x[n + 1] = f
  <2>1. x \in Seq(Frames) /\ Len(x) = n + 1 BY AppendProperties
  <2> QED BY <2>1, AppendProperties, LenProperties
<1>2. known \subseteq more /\ (f.kind = "message" => f.id \in more) OBVIOUS
<1> HIDE DEF x, n
<1>3. \A i \in DOMAIN x : i \in DOMAIN w \/ i = n + 1
  BY <1>1
<1>4. \A i \in DOMAIN w : i \in 1 .. n /\ x[i] = w[i] /\ i < n + 1
  BY <1>1
<1>5. \A i \in DOMAIN x : x[i].kind = "info" => v # 0 /\ x[i].id = v
  BY <1>1, <1>3, <1>4 DEF WayInv
<1>6. \A i, j \in DOMAIN x :
        i < j /\ x[i].kind = "info" /\ x[j].layout # "none" => x[j].layout = Layout(v)
  <2> SUFFICES ASSUME NEW i \in DOMAIN x, NEW j \in DOMAIN x,
                      i < j, x[i].kind = "info", x[j].layout # "none"
               PROVE  x[j].layout = Layout(v)
    OBVIOUS
  <2>1. CASE j = n + 1 BY <2>1, <1>1
  <2>2. CASE j # n + 1
    <3>1. j \in DOMAIN w /\ i \in DOMAIN w BY <2>2, <1>1, <1>3
    <3> QED BY <3>1, <1>4 DEF WayInv
  <2> QED BY <2>1, <2>2
<1>7. \A i \in DOMAIN x : x[i].kind = "message" => x[i].id \in more
  BY <1>1, <1>2, <1>3, <1>4 DEF WayInv
<1>8. \A i, j \in DOMAIN x :
        x[i].kind = "message" /\ x[j].kind = "message" /\ x[i].id = x[j].id => i = j
  BY <1>1, <1>3, <1>4 DEF WayInv
<1> QED BY <1>5, <1>6, <1>7, <1>8 DEF WayInv, x

\* The messages on the way stay on it when a frame is added, and an added
\* message is on it.
LEMMA FramePresent ==
  ASSUME NEW w \in Seq(Frames), NEW known, NEW f \in Frames, Present(w, known),
         NEW more, more = IF f.kind = "message" THEN known \cup {f.id} ELSE known
  PROVE  Present(Append(w, f), more)
<1> DEFINE x == Append(w, f)
           n == Len(w)
<1>1. /\ n \in Nat /\ DOMAIN w = 1 .. n /\ DOMAIN x = 1 .. n + 1
      /\ \A i \in 1 .. n : x[i] = w[i]
      /\ x[n + 1] = f
  <2>1. x \in Seq(Frames) /\ Len(x) = n + 1 BY AppendProperties
  <2> QED BY <2>1, AppendProperties, LenProperties
<1> HIDE DEF x, n
<1>2. Present(x, known) BY <1>1 DEF Present
<1>3. n + 1 \in DOMAIN x BY <1>1
<1>4. CASE f.kind = "message"
  <2>1. Present(x, known \cup {f.id}) BY <1>1, <1>2, <1>3, <1>4 DEF Present
  <2> QED BY <2>1, <1>4 DEF x
<1> QED BY <1>2, <1>4 DEF x

\* A push is written (the write task's second arm): nothing else on the way
\* changes its order.
LEMMA PushOnWay ==
  ASSUME NEW g \in Seq(Frames), NEW d \in Seq(Frames), NEW f \in Frames,
         f.kind = "push", f.layout = "none", NEW v, NEW known
  PROVE  /\ WayInv(g \o d, v, known) => WayInv(Append(g, f) \o d, v, known)
         /\ Present(g \o d, known) => Present(Append(g, f) \o d, known)
<1> DEFINE w == g \o d
           x == Append(g, f) \o d
           k == Len(g)
           at(i) == IF i <= k THEN i ELSE i + 1
           back(i) == IF i <= k THEN i ELSE i - 1
<1>1. /\ DOMAIN w = 1 .. Len(w) /\ DOMAIN x = 1 .. Len(w) + 1 /\ Len(w) \in Nat
      /\ k \in 0 .. Len(w) /\ x[k + 1] = f
      /\ \A i \in 1 .. Len(w) : x[at(i)] = w[i]
  BY InsertWay
<1> HIDE DEF w, x, k
<1>2. ASSUME NEW i \in DOMAIN x, i # k + 1
      PROVE  back(i) \in DOMAIN w /\ x[i] = w[back(i)]
  <2>1. back(i) \in 1 .. Len(w) /\ at(back(i)) = i BY <1>1, <1>2
  <2> QED BY <2>1, <1>1
<1>3. ASSUME NEW i \in DOMAIN x, NEW j \in DOMAIN x, i # k + 1, j # k + 1
      PROVE  (i < j => back(i) < back(j)) /\ (back(i) = back(j) => i = j)
  BY <1>1, <1>3
<1>4. \A i \in DOMAIN x : (x[i].kind \in {"info", "message"} \/ x[i].layout # "none") => i # k + 1
  BY <1>1
<1> HIDE DEF back
<1>5. ASSUME WayInv(w, v, known) PROVE WayInv(x, v, known)
  <2>1. \A i \in DOMAIN x : x[i].kind = "info" => v # 0 /\ x[i].id = v
    BY <1>2, <1>4, <1>5 DEF WayInv
  <2>2. \A i, j \in DOMAIN x :
          i < j /\ x[i].kind = "info" /\ x[j].layout # "none" => x[j].layout = Layout(v)
    <3> SUFFICES ASSUME NEW i \in DOMAIN x, NEW j \in DOMAIN x,
                        i < j, x[i].kind = "info", x[j].layout # "none"
                 PROVE  x[j].layout = Layout(v)
      OBVIOUS
    <3>1. i # k + 1 /\ j # k + 1 BY <1>4
    <3>2. back(i) \in DOMAIN w /\ back(j) \in DOMAIN w /\ x[i] = w[back(i)] /\ x[j] = w[back(j)]
      BY <3>1, <1>2
    <3>3. back(i) < back(j) BY <3>1, <1>3
    <3> QED BY <3>2, <3>3, <1>5 DEF WayInv
  <2>3. \A i \in DOMAIN x : x[i].kind = "message" => x[i].id \in known
    BY <1>2, <1>4, <1>5 DEF WayInv
  <2>4. \A i, j \in DOMAIN x :
          x[i].kind = "message" /\ x[j].kind = "message" /\ x[i].id = x[j].id => i = j
    <3> SUFFICES ASSUME NEW i \in DOMAIN x, NEW j \in DOMAIN x,
                        x[i].kind = "message", x[j].kind = "message", x[i].id = x[j].id
                 PROVE  i = j
      OBVIOUS
    <3>1. i # k + 1 /\ j # k + 1 BY <1>4
    <3>2. back(i) \in DOMAIN w /\ back(j) \in DOMAIN w /\ x[i] = w[back(i)] /\ x[j] = w[back(j)]
      BY <3>1, <1>2
    <3>3. back(i) = back(j) BY <3>2, <1>5 DEF WayInv
    <3> QED BY <3>1, <3>3, <1>3
  <2> QED BY <2>1, <2>2, <2>3, <2>4 DEF WayInv
<1>6. ASSUME Present(w, known) PROVE Present(x, known)
  <2>1. \A i \in DOMAIN w : at(i) \in DOMAIN x BY <1>1
  <2>2. \A i \in DOMAIN w : x[at(i)] = w[i] BY <1>1
  <2> HIDE DEF at
  <2> QED BY <2>1, <2>2, <1>6 DEF Present
<1> QED BY <1>5, <1>6 DEF w, x

\* A connection closes: of its way only what was written is left.
LEMMA CutWay ==
  ASSUME NEW g \in Seq(Frames), NEW d \in Seq(Frames), NEW v, NEW known,
         WayInv(g \o d, v, known)
  PROVE  WayInv(g \o << >>, v, known)
<1>1. g \o << >> = g BY ConcatEmptySeq
<1> DEFINE w == g \o d
<1>2. Len(g) \in Nat /\ Len(d) \in Nat /\ DOMAIN g = 1 .. Len(g) BY LenProperties
<1>3. /\ w \in Seq(Frames) /\ Len(w) = Len(g) + Len(d)
      /\ \A i \in 1 .. Len(g) + Len(d) : w[i] = IF i <= Len(g) THEN g[i] ELSE d[i - Len(g)]
  BY ConcatProperties
<1>4. DOMAIN w = 1 .. Len(g) + Len(d) BY <1>3, LenProperties
<1> HIDE DEF w
<1>5. \A i \in DOMAIN g : i \in DOMAIN w /\ w[i] = g[i] BY <1>2, <1>3, <1>4
<1>6. WayInv(w, v, known) BY DEF w
<1>7. WayInv(g, v, known) BY <1>5, <1>6 DEF WayInv
<1> QED BY <1>1, <1>7

\* A frame of the client's own channel is no push; a push is the next one.
LEMMA FrameWritten ==
  ASSUME NEW g \in Seq(Frames), NEW f \in Frames, NEW from \in Nat, NEW upto \in Nat,
         NEW skipped, PushInv(g, from, upto, skipped)
  PROVE  /\ f.kind # "push" => PushInv(Append(g, f), from, upto, skipped)
         /\ f.kind = "push" /\ f.id = upto + 1 => PushInv(Append(g, f), from, upto + 1, skipped)
<1> DEFINE x == Append(g, f)
           n == Len(g)
<1>1. /\ n \in Nat /\ DOMAIN g = 1 .. n /\ DOMAIN x = 1 .. n + 1
      /\ \A i \in 1 .. n : x[i] = g[i]
      /\ x[n + 1] = f
  <2>1. x \in Seq(Frames) /\ Len(x) = n + 1 BY AppendProperties
  <2> QED BY <2>1, AppendProperties, LenProperties
<1>0. \A i \in DOMAIN g : g[i].id \in Nat BY FrameOf
<1> HIDE DEF x, n
<1>2. \A i \in DOMAIN x : i \in DOMAIN g \/ i = n + 1
  BY <1>1
<1>3. \A i \in DOMAIN g : i \in DOMAIN x /\ i \in 1 .. n /\ x[i] = g[i] /\ i < n + 1
  BY <1>1
<1>4. \A i, j \in DOMAIN x : i < j => i \in DOMAIN g BY <1>1
<1>5. n + 1 \in DOMAIN x BY <1>1
<1>6. CASE f.kind # "push"
  BY <1>1, <1>2, <1>3, <1>4, <1>6 DEF PushInv, x
<1>7. CASE f.kind = "push" /\ f.id = upto + 1
  <2>1. \A i \in DOMAIN x : x[i].kind = "push" => x[i].id <= upto + 1
    BY <1>0, <1>1, <1>2, <1>3, <1>7 DEF PushInv
  <2>2. \A i, j \in DOMAIN x :
          i < j /\ x[i].kind = "push" /\ x[j].kind = "push" => x[i].id < x[j].id
    <3> SUFFICES ASSUME NEW i \in DOMAIN x, NEW j \in DOMAIN x,
                        i < j, x[i].kind = "push", x[j].kind = "push"
                 PROVE  x[i].id < x[j].id
      OBVIOUS
    <3>1. i \in DOMAIN g /\ x[i] = g[i] BY <1>3, <1>4
    <3>2. CASE j \in DOMAIN g BY <3>1, <3>2, <1>3 DEF PushInv
    <3>3. CASE j = n + 1
      <4>1. x[j].id = upto + 1 BY <3>3, <1>1, <1>7
      <4>2. x[i].id \in Nat /\ x[i].id <= upto BY <3>1, <1>0 DEF PushInv
      <4> QED BY <4>1, <4>2
    <3> QED BY <3>2, <3>3, <1>2
  <2>3. ASSUME ~skipped, NEW m \in from + 1 .. upto + 1
        PROVE  \E i \in DOMAIN x : x[i].kind = "push" /\ x[i].id = m
    <3>1. CASE m = upto + 1 BY <3>1, <1>1, <1>5, <1>7
    <3>2. CASE m # upto + 1
      <4>1. m \in from + 1 .. upto BY <3>2
      <4> QED BY <4>1, <2>3, <1>3 DEF PushInv
    <3> QED BY <3>1, <3>2
  <2>4. PushInv(x, from, upto + 1, skipped) BY <2>1, <2>2, <2>3, Zenon DEF PushInv
  <2> QED BY <2>4, <1>7 DEF x
<1> QED BY <1>6, <1>7

\* A receiver that skips stands further on.
LEMMA PushesSkipped ==
  ASSUME NEW g \in Seq(Frames), NEW from \in Nat, NEW upto \in Nat, NEW far \in Nat,
         NEW skipped, PushInv(g, from, upto, skipped), upto <= far
  PROVE  PushInv(g, from, far, TRUE)
<1>1. \A i \in DOMAIN g : g[i].id \in Nat BY FrameOf
<1> QED BY <1>1 DEF PushInv

-----------------------------------------------------------------------------
(* The parts of a step.                                                    *)

\* A client nothing happens to.
LEMMA SameClient ==
  ASSUME NEW c \in Clients, ClientInv(c),
         conn'[c] = conn[c], direct'[c] = direct[c], got'[c] = got[c],
         protocol_versions'[c] = protocol_versions[c], fanned'[c] = fanned[c],
         joined'[c] = joined[c], pos'[c] = pos[c], lagged'[c] = lagged[c]
  PROVE  ClientInv(c)'
BY DEF ClientInv, Way

\* The types of one client's channel and of what it read.
LEMMA OfClient ==
  ASSUME Types, NEW c \in Clients
  PROVE  /\ direct[c] \in Seq(Own) /\ direct[c] \in Seq(Frames) /\ got[c] \in Seq(Frames)
         /\ pos[c] \in Nat /\ joined[c] \in Nat /\ Way(c) \in Seq(Frames)
<1>1. direct[c] \in Seq(Own) /\ got[c] \in Seq(Frames) /\ pos[c] \in Nat /\ joined[c] \in Nat
  BY DEF Types
<1>2. Own \subseteq Frames BY DEF Own, Frames
<1>3. direct[c] \in Seq(Frames) BY <1>1, <1>2, SeqMonotonic
<1>4. Way(c) \in Seq(Frames) BY <1>1, <1>3, ConcatProperties DEF Way
<1> QED BY <1>1, <1>3, <1>4

\* A client that has not negotiated may take any version: no answer to a
\* DEVICE_QUERY is on its way.
LEMMA FirstVersion ==
  ASSUME NEW w, NEW v, NEW known, WayInv(w, 0, known)
  PROVE  WayInv(w, v, known)
BY DEF WayInv

\* What send_to_client and broadcast_to_others put into the channel of an open
\* client is the frame in the client's layout; the others get nothing.
LEMMA SendFacts ==
  ASSUME DeliveryInv, NEW to, NEW frame \in Own, Send(to, frame), NEW c \in Clients
  PROVE  /\ c \notin to \cap Open => direct'[c] = direct[c]
         /\ c \in to \cap Open =>
              \E f \in Own : /\ direct'[c] = Append(direct[c], f)
                             /\ f.kind = frame.kind /\ f.id = frame.id
                             /\ frame.layout = "none" => f.layout = "none"
                             /\ frame.layout # "none" => f.layout = Layout(protocol_versions[c])
<1> DEFINE f == message_frame_for(protocol_version(c), frame)
<1>1. direct'[c] = IF c \in to \cap Open THEN Append(direct[c], f) ELSE direct[c]
  BY DEF Send
<1>2. Layout(protocol_versions[c]) \in {"v1", "v3"} BY DEF Layout
<1>3. /\ f \in Own /\ f.kind = frame.kind /\ f.id = frame.id
      /\ frame.layout = "none" => f.layout = "none"
      /\ frame.layout # "none" => f.layout = Layout(protocol_versions[c])
  BY <1>2 DEF message_frame_for, protocol_version, Own
<1> HIDE DEF f
<1> QED BY <1>1, <1>3, Zenon

\* Sending keeps what holds of every client, when an answer to DEVICE_QUERY
\* carries the version the client then has and a message is new to it.
LEMMA SendKeeps ==
  ASSUME DeliveryInv, NEW to, NEW frame \in Own, Send(to, frame), NEW c \in Clients,
         UNCHANGED <<conn, outVars>>,
         protocol_versions'[c] \in Nat,
         protocol_versions'[c] = protocol_versions[c]
           \/ (protocol_versions[c] = 0 /\ frame.layout = "none"),
         frame.kind = "info" /\ c \in to =>
           protocol_versions'[c] # 0 /\ frame.id = protocol_versions'[c],
         frame.kind = "message" /\ c \in Open => c \in to /\ frame.id \notin fanned[c],
         fanned'[c] = IF frame.kind = "message" /\ c \in Open
                      THEN fanned[c] \cup {frame.id} ELSE fanned[c]
  PROVE  /\ ClientInv(c)'
         /\ direct'[c] \in Seq(Own)
         /\ direct'[c] # << >> => conn'[c] = "open"
<1> DEFINE v == protocol_versions'[c]
<1>1. ClientInv(c) /\ Types /\ TypeOK BY DEF DeliveryInv
<1>2. /\ direct[c] \in Seq(Own) /\ direct[c] \in Seq(Frames) /\ got[c] \in Seq(Frames)
      /\ Way(c) \in Seq(Frames)
  BY <1>1, OfClient
<1>3. WayInv(Way(c), v, fanned[c])
  BY <1>1, FirstVersion DEF ClientInv
<1>4. conn'[c] = conn[c] /\ got'[c] = got[c] /\ joined'[c] = joined[c] /\ pos'[c] = pos[c]
      /\ lagged'[c] = lagged[c]
  BY DEF outVars
<1>5. PushInv(got'[c], joined'[c], pos'[c], lagged'[c]) BY <1>1, <1>4, Zenon DEF ClientInv
<1>6. CASE c \notin to \cap Open
  <2>1. direct'[c] = direct[c] BY <1>6, SendFacts
  <2>2. fanned'[c] = fanned[c] BY <1>6
  <2>3. Way(c)' = Way(c) BY <2>1, <1>4 DEF Way
  <2>4. ClientInv(c)' BY <1>1, <1>3, <1>4, <1>5, <2>2, <2>3 DEF ClientInv
  <2>5. direct'[c] # << >> => conn'[c] = "open" BY <1>1, <1>4, <2>1 DEF TypeOK
  <2> QED BY <1>2, <2>1, <2>4, <2>5
<1>7. CASE c \in to \cap Open
  <2>1. PICK f \in Own : /\ direct'[c] = Append(direct[c], f)
                         /\ f.kind = frame.kind /\ f.id = frame.id
                         /\ frame.layout = "none" => f.layout = "none"
                         /\ frame.layout # "none" => f.layout = Layout(protocol_versions[c])
    BY <1>7, SendFacts
  <2>2. f \in Frames BY DEF Own, Frames
  <2>3. Way(c)' = Append(Way(c), f)
    BY <1>2, <1>4, <2>1, <2>2, AppendWay DEF Way
  <2>4. fanned'[c] = IF f.kind = "message" THEN fanned[c] \cup {f.id} ELSE fanned[c]
    BY <1>7, <2>1
  <2>5. f.layout # "none" => f.layout = Layout(v) BY <2>1
  <2>6. f.kind = "info" => v # 0 /\ f.id = v BY <2>1, <1>7
  <2>7. f.kind = "message" => f.id \notin fanned[c] BY <2>1, <1>7
  <2>8. WayInv(Append(Way(c), f), v, fanned'[c])
    BY <1>2, <1>3, <2>2, <2>4, <2>5, <2>6, <2>7, FrameOnWay
  <2>9. conn[c] = "open" BY <1>7 DEF Open
  <2>10. Present(Append(Way(c), f), fanned'[c])
    BY <1>1, <1>2, <2>2, <2>4, <2>9, FramePresent DEF ClientInv
  <2>11. ClientInv(c)'
    BY <1>4, <1>5, <2>3, <2>8, <2>9, <2>10 DEF ClientInv
  <2>12. direct'[c] \in Seq(Own) BY <1>2, <2>1, AppendProperties
  <2> QED BY <1>4, <2>9, <2>11, <2>12
<1> QED BY <1>6, <1>7

-----------------------------------------------------------------------------
(* The requests that wait.                                                 *)

\* The conjunct of TypeOK about waiting.
KnownWaiters == \A r \in ToSet(waiting) : r.client \in Clients \ {c \in Clients : conn[c] = "new"}

\* The oldest request is answered, timed out or failed, and may be fanned out.
LEMMA PopWaiting ==
  ASSUME DeliveryInv, waiting # << >>, waiting' = Tail(waiting),
         UNCHANGED <<conn, protocol_versions, spent>>,
         \A c \in Clients : fanned'[c] \subseteq fanned[c] \cup {Oldest.id}
  PROVE  WaitingInv' /\ KnownWaiters' /\ waiting' \in Seq(Waits)
<1>1. waiting \in Seq(Waits) /\ WaitingInv /\ KnownWaiters /\ spent.commands \in Nat
  BY DEF DeliveryInv, Types, TypeOK, KnownWaiters
<1>2. /\ waiting' \in Seq(Waits) /\ Len(waiting') = Len(waiting) - 1
      /\ \A i \in 1 .. Len(waiting') : waiting'[i] = waiting[i + 1]
  BY <1>1, HeadTailProperties
<1>3. /\ DOMAIN waiting = 1 .. Len(waiting) /\ Len(waiting) \in Nat \ {0}
      /\ DOMAIN waiting' = 1 .. Len(waiting')
  BY <1>1, <1>2, LenProperties, EmptySeq
<1>4. \A i \in DOMAIN waiting' : i \in Nat /\ i + 1 \in DOMAIN waiting /\ waiting'[i] = waiting[i + 1]
  BY <1>2, <1>3
<1>5. Oldest = waiting[1] /\ 1 \in DOMAIN waiting BY <1>1, <1>3 DEF Oldest
<1>6. ASSUME NEW i \in DOMAIN waiting'
      PROVE  /\ waiting'[i].id \in 1 .. spent'.commands
             /\ waiting'[i].version # 0 =>
                  waiting'[i].version = protocol_versions'[waiting'[i].client]
             /\ Oldest.id < waiting'[i].id
  <2>1. i + 1 \in DOMAIN waiting /\ waiting'[i] = waiting[i + 1] /\ 1 < i + 1 BY <1>3, <1>4
  <2> QED BY <1>1, <1>5, <2>1 DEF WaitingInv
<1>7. ASSUME NEW i \in DOMAIN waiting', NEW j \in DOMAIN waiting', i < j
      PROVE  waiting'[i].id < waiting'[j].id
  <2>1. /\ i + 1 \in DOMAIN waiting /\ waiting'[i] = waiting[i + 1]
        /\ j + 1 \in DOMAIN waiting /\ waiting'[j] = waiting[j + 1] /\ i + 1 < j + 1
    BY <1>3, <1>4, <1>7
  <2> QED BY <1>1, <2>1 DEF WaitingInv
<1>8. ASSUME NEW c \in Clients, NEW id \in fanned'[c]
      PROVE  /\ id \in 1 .. spent'.commands
             /\ \A i \in DOMAIN waiting' : id < waiting'[i].id
  <2>1. CASE id \in fanned[c] BY <1>1, <1>4, <2>1 DEF WaitingInv
  <2>2. CASE id = Oldest.id BY <1>1, <1>5, <1>6, <2>2 DEF WaitingInv
  <2> QED BY <1>8, <2>1, <2>2
<1>9. WaitingInv' BY <1>6, <1>7, <1>8 DEF WaitingInv
<1>10. KnownWaiters' BY <1>1, <1>4 DEF KnownWaiters, ToSet
<1> QED BY <1>2, <1>9, <1>10

\* A command comes that does not wait: it is counted, and may have negotiated
\* the first version of its client.
LEMMA CountCommand ==
  ASSUME DeliveryInv, Spend("commands"), UNCHANGED <<conn, waiting, fanned>>,
         \A c \in Clients : protocol_versions'[c] = protocol_versions[c] \/ protocol_versions[c] = 0
  PROVE  /\ WaitingInv' /\ KnownWaiters' /\ waiting' \in Seq(Waits)
         /\ spent' \in [commands : Nat, losses : Nat]
         /\ spent'.commands = spent.commands + 1
<1>1. waiting \in Seq(Waits) /\ WaitingInv /\ KnownWaiters /\ spent \in [commands : Nat, losses : Nat]
  BY DEF DeliveryInv, Types, TypeOK, KnownWaiters
<1>2. spent' \in [commands : Nat, losses : Nat] /\ spent'.commands = spent.commands + 1
  BY <1>1 DEF Spend
<1>3. \A i \in DOMAIN waiting : waiting[i] \in Waits BY <1>1, LenProperties
<1>4. \A i \in DOMAIN waiting : waiting[i].client \in Clients BY <1>3 DEF Waits
<1>5. WaitingInv' BY <1>1, <1>2, <1>4 DEF WaitingInv
<1> QED BY <1>1, <1>2, <1>5 DEF KnownWaiters

\* A command that waits for the radio goes to the end of the line.
LEMMA AppendWaiting ==
  ASSUME DeliveryInv, Spend("commands"), UNCHANGED <<conn, fanned>>,
         NEW d \in Open, NEW version \in Nat,
         waiting' = Append(waiting, [client |-> d, id |-> spent.commands + 1, version |-> version]),
         \A c \in Clients : protocol_versions'[c] = protocol_versions[c] \/ protocol_versions[c] = 0,
         version # 0 => version = protocol_versions'[d]
  PROVE  /\ WaitingInv' /\ KnownWaiters' /\ waiting' \in Seq(Waits)
         /\ spent' \in [commands : Nat, losses : Nat]
<1> DEFINE r == [client |-> d, id |-> spent.commands + 1, version |-> version]
           n == Len(waiting)
<1>1. waiting \in Seq(Waits) /\ WaitingInv /\ KnownWaiters /\ spent \in [commands : Nat, losses : Nat]
  BY DEF DeliveryInv, Types, TypeOK, KnownWaiters
<1>2. /\ spent' \in [commands : Nat, losses : Nat] /\ spent'.commands = spent.commands + 1
      /\ spent.commands \in Nat
  BY <1>1 DEF Spend
<1>3. d \in Clients /\ conn[d] = "open" BY DEF Open
<1>4. r \in Waits /\ r.id = spent.commands + 1 /\ r.client = d /\ r.version = version
  BY <1>2, <1>3 DEF Waits
<1>5. waiting' = Append(waiting, r) OBVIOUS
<1> HIDE DEF r
<1>6. /\ waiting' \in Seq(Waits) /\ DOMAIN waiting' = 1 .. n + 1 /\ n \in Nat
      /\ DOMAIN waiting = 1 .. n
      /\ \A i \in 1 .. n : waiting'[i] = waiting[i]
      /\ waiting'[n + 1] = r
  BY <1>1, <1>4, <1>5, AppendProperties, LenProperties
<1>7. \A i \in DOMAIN waiting' : (i \in DOMAIN waiting /\ waiting'[i] = waiting[i]) \/ i = n + 1
  BY <1>6
<1>8. \A i, j \in DOMAIN waiting' : i < j => i \in DOMAIN waiting /\ waiting'[i] = waiting[i]
  BY <1>6
<1>9. \A i \in DOMAIN waiting : waiting[i] \in Waits BY <1>1, LenProperties
<1>10. \A i \in DOMAIN waiting : waiting[i].client \in Clients BY <1>9 DEF Waits
<1>11. ASSUME NEW i \in DOMAIN waiting'
       PROVE  /\ waiting'[i].id \in 1 .. spent'.commands
              /\ waiting'[i].version # 0 =>
                   waiting'[i].version = protocol_versions'[waiting'[i].client]
  <2>1. CASE i = n + 1 BY <2>1, <1>2, <1>4, <1>6
  <2>2. CASE i \in DOMAIN waiting /\ waiting'[i] = waiting[i]
    BY <2>2, <1>1, <1>2, <1>10 DEF WaitingInv
  <2> QED BY <2>1, <2>2, <1>7
<1>12. ASSUME NEW i \in DOMAIN waiting', NEW j \in DOMAIN waiting', i < j
       PROVE  waiting'[i].id < waiting'[j].id
  <2>1. i \in DOMAIN waiting /\ waiting'[i] = waiting[i] BY <1>8, <1>12
  <2>2. waiting[i].id \in 1 .. spent.commands BY <2>1, <1>1 DEF WaitingInv
  <2>3. CASE j = n + 1 BY <2>1, <2>2, <2>3, <1>2, <1>4, <1>6
  <2>4. CASE j \in DOMAIN waiting /\ waiting'[j] = waiting[j]
    BY <2>1, <2>4, <1>1, <1>12 DEF WaitingInv
  <2> QED BY <2>3, <2>4, <1>7
<1>13. ASSUME NEW c \in Clients, NEW id \in fanned'[c]
       PROVE  /\ id \in 1 .. spent'.commands
              /\ \A i \in DOMAIN waiting' : id < waiting'[i].id
  <2>1. /\ id \in 1 .. spent.commands
        /\ \A i \in DOMAIN waiting : id < waiting[i].id
    BY <1>1, <1>13 DEF WaitingInv
  <2>2. id < r.id BY <2>1, <1>2, <1>4
  <2> QED BY <2>1, <2>2, <1>2, <1>6, <1>7
<1>14. WaitingInv' BY <1>11, <1>12, <1>13 DEF WaitingInv
<1>15. KnownWaiters'
  BY <1>1, <1>3, <1>4, <1>6, <1>7 DEF KnownWaiters, ToSet
<1> QED BY <1>2, <1>6, <1>14, <1>15

-----------------------------------------------------------------------------
(* One lemma per action.                                                   *)

\* main starts without clients.
LEMMA DeliveryInit == Init => DeliveryInv
<1> SUFFICES ASSUME Init PROVE DeliveryInv OBVIOUS
<1>1. << >> \in Seq(Own) /\ << >> \in Seq(Frames) /\ << >> \in Seq(Waits) BY EmptySeq
<1>2. Types BY <1>1 DEF Init, Types
<1>3. radio_up \in BOOLEAN /\ failing \in BOOLEAN BY Zenon DEF Init
<1>4. ToSet(waiting) = {} BY DEF Init, ToSet
<1>5. /\ conn \in [Clients -> {"new", "open", "closed"}]
      /\ \A c \in Clients : direct[c] = << >>
      /\ pushes \in 0 .. MaxPushes
      /\ \A c \in Clients : pos[c] \in joined[c] .. pushes
      /\ protocol_versions \in [Clients -> {0} \cup Versions]
  BY PushesAssumption DEF Init
<1>6. TypeOK BY <1>3, <1>4, <1>5, Zenon DEF TypeOK
<1>7. WaitingInv BY DEF Init, WaitingInv
<1>8. ASSUME NEW c \in Clients PROVE ClientInv(c)
  <2>1. Way(c) = << >> BY <1>1, ConcatEmptySeq DEF Init, Way
  <2>2. got[c] = << >> /\ fanned[c] = {} /\ joined[c] = 0 /\ pos[c] = 0 /\ conn[c] = "new"
    BY DEF Init
  <2>3. PushInv(<< >>, 0, 0, lagged[c]) BY EmptyWay
  <2> QED BY <2>1, <2>2, <2>3, EmptyWay DEF ClientInv
<1> QED BY <1>2, <1>6, <1>7, <1>8 DEF DeliveryInv

\* The frontend accepts a connection.
LEMMA ConnectStep ==
  ASSUME DeliveryInv, NEW c \in Clients, Connect(c)
  PROVE  DeliveryInv'
<1>1. TypeOK /\ Types /\ WaitingInv BY DEF DeliveryInv
<1>2. TypeOK' BY <1>1 DEF TypeOK, Types, Connect
<1>3. Types' BY <1>1 DEF TypeOK, Types, Connect
<1>4. WaitingInv' BY <1>1 DEF WaitingInv, Connect
<1>5. ASSUME NEW d \in Clients PROVE ClientInv(d)'
  <2>0. ClientInv(d) BY DEF DeliveryInv
  <2>1. CASE d # c
    <3>1. /\ conn'[d] = conn[d] /\ pos'[d] = pos[d] /\ joined'[d] = joined[d]
          /\ direct'[d] = direct[d] /\ got'[d] = got[d] /\ lagged'[d] = lagged[d]
          /\ protocol_versions'[d] = protocol_versions[d] /\ fanned'[d] = fanned[d]
      BY <1>1, <2>1 DEF Connect, TypeOK, Types
    <3> QED BY <2>0, <3>1, SameClient
  <2>2. CASE d = c
    <3>1. conn[c] = "new" /\ direct[c] = << >> BY <1>1 DEF Connect, TypeOK
    <3>2. got[c] = << >> /\ fanned[c] = {} BY <2>0, <2>2, <3>1 DEF ClientInv
    <3>3. conn'[c] = "open" /\ pos'[c] = pushes /\ joined'[c] = pushes /\ pushes \in Nat
      BY <1>1 DEF Connect, TypeOK, Types
    <3>4. << >> \in Seq(Frames) BY EmptySeq
    <3>5. Way(c)' = << >> BY <3>1, <3>2, <3>4, ConcatEmptySeq DEF Connect, Way
    <3>6. got'[c] = << >> /\ fanned'[c] = {} BY <3>2 DEF Connect
    <3>7. PushInv(<< >>, pushes, pushes, lagged'[c]) BY <3>3, EmptyWay
    <3> QED BY <2>2, <3>3, <3>5, <3>6, <3>7, EmptyWay DEF ClientInv
  <2> QED BY <2>1, <2>2
<1> QED BY <1>2, <1>3, <1>4, <1>5 DEF DeliveryInv

\* handle_client ends, for whatever reason.
LEMMA CloseStep ==
  ASSUME DeliveryInv, NEW c \in Clients, conn[c] = "open", Close(c)
  PROVE  DeliveryInv'
<1>1. TypeOK /\ Types /\ WaitingInv BY DEF DeliveryInv
<1>2. TypeOK' BY <1>1 DEF TypeOK, Types, Close, outVars
<1>3. << >> \in Seq(Own) BY EmptySeq
<1>4. Types' BY <1>1, <1>3 DEF TypeOK, Types, Close, outVars
<1>5. WaitingInv' BY <1>1 DEF WaitingInv, Close
<1>6. ASSUME NEW d \in Clients PROVE ClientInv(d)'
  <2>0. ClientInv(d) BY DEF DeliveryInv
  <2>1. /\ pos'[d] = pos[d] /\ joined'[d] = joined[d]
        /\ got'[d] = got[d] /\ lagged'[d] = lagged[d]
        /\ protocol_versions'[d] = protocol_versions[d] /\ fanned'[d] = fanned[d]
    BY DEF Close, outVars
  <2>2. CASE d # c
    <3>1. conn'[d] = conn[d] /\ direct'[d] = direct[d]
      BY <1>1, <2>2 DEF Close, TypeOK, Types
    <3> QED BY <2>0, <2>1, <3>1, SameClient
  <2>3. CASE d = c
    <3>1. conn'[c] = "closed" /\ direct'[c] = << >> BY <1>1 DEF Close, TypeOK, Types
    <3>2. Way(c)' = got[c] \o << >> BY <2>1, <2>3, <3>1 DEF Way
    <3>3. got[c] \in Seq(Frames) /\ direct[c] \in Seq(Frames) BY <1>1, OfClient
    <3>4. WayInv(got[c] \o direct[c], protocol_versions[c], fanned[c])
      BY <2>0, <2>3 DEF ClientInv, Way
    <3>5. WayInv(got[c] \o << >>, protocol_versions[c], fanned[c])
      BY <3>3, <3>4, CutWay
    <3> QED BY <2>0, <2>1, <2>3, <3>1, <3>2, <3>5 DEF ClientInv
  <2> QED BY <2>2, <2>3
<1> QED BY <1>2, <1>4, <1>5, <1>6 DEF DeliveryInv

\* The write task takes a frame of the client's channel.
LEMMA WriteDirectStep ==
  ASSUME DeliveryInv, NEW c \in Clients, WriteDirect(c)
  PROVE  DeliveryInv'
<1>1. TypeOK /\ Types /\ WaitingInv BY DEF DeliveryInv
<1>2. /\ direct[c] \in Seq(Own) /\ direct[c] \in Seq(Frames) /\ got[c] \in Seq(Frames)
      /\ direct[c] # << >> /\ pos[c] \in Nat /\ joined[c] \in Nat
  BY <1>1, OfClient DEF WriteDirect
<1>3. Head(direct[c]) \in Own /\ Tail(direct[c]) \in Seq(Own) BY <1>2, HeadTailProperties
<1>4. Head(direct[c]) \in Frames /\ Head(direct[c]).kind # "push" BY <1>3 DEF Own, Frames
<1>5. Append(got[c], Head(direct[c])) \in Seq(Frames) BY <1>2, <1>4, AppendProperties
<1>6. /\ got' = [got EXCEPT ![c] = Append(got[c], Head(direct[c]))]
      /\ direct' = [direct EXCEPT ![c] = Tail(direct[c])]
      /\ conn[c] = "open"
      /\ UNCHANGED <<conn, pushes, pos, protocol_versions, waiting, radio_up, failing,
                     joined, lagged, fanned, spent>>
  BY DEF WriteDirect
<1>7. TypeOK' BY <1>1, <1>6 DEF TypeOK, Types
<1>8. Types' BY <1>1, <1>3, <1>5, <1>6 DEF Types
<1>9. WaitingInv' BY <1>1, <1>6 DEF WaitingInv
<1>10. ASSUME NEW d \in Clients PROVE ClientInv(d)'
  <2>0. ClientInv(d) BY DEF DeliveryInv
  <2>1. CASE d # c
    <3>1. direct'[d] = direct[d] /\ got'[d] = got[d] BY <1>1, <1>6, <2>1 DEF Types
    <3> QED BY <1>6, <2>0, <3>1, SameClient
  <2>2. CASE d = c
    <3>1. direct'[c] = Tail(direct[c]) /\ got'[c] = Append(got[c], Head(direct[c]))
      BY <1>1, <1>6 DEF Types
    <3>2. Way(c)' = Way(c) BY <1>2, <3>1, MoveWay DEF Way
    <3>3. PushInv(got'[c], joined[c], pos[c], lagged[c])
      BY <1>2, <1>4, <2>0, <2>2, <3>1, FrameWritten DEF ClientInv
    <3> QED BY <1>6, <2>0, <2>2, <3>2, <3>3 DEF ClientInv
  <2> QED BY <2>1, <2>2
<1> QED BY <1>7, <1>8, <1>9, <1>10 DEF DeliveryInv

\* The write task takes a push, or learns that it has skipped some.
LEMMA WritePushStep ==
  ASSUME DeliveryInv, NEW c \in Clients, WritePush(c)
  PROVE  DeliveryInv'
<1>1. TypeOK /\ Types /\ WaitingInv BY DEF DeliveryInv
<1>2. /\ direct[c] \in Seq(Frames) /\ got[c] \in Seq(Frames)
      /\ pos[c] \in Nat /\ joined[c] \in Nat /\ pushes \in Nat /\ joined[c] <= pos[c]
  BY <1>1, OfClient DEF TypeOK
<1>3. /\ conn[c] = "open" /\ pos[c] < pushes
      /\ UNCHANGED <<conn, direct, pushes, protocol_versions, waiting, radio_up, failing,
                     joined, fanned, spent>>
  BY DEF WritePush
<1>4. WaitingInv' BY <1>1, <1>3 DEF WaitingInv
<1>5. CASE pushes - pos[c] > Capacity
  <2>1. /\ pos' = [pos EXCEPT ![c] = pushes - Capacity]
        /\ lagged' = [lagged EXCEPT ![c] = TRUE] /\ got' = got
    BY <1>5 DEF WritePush
  <2>2. pushes - Capacity \in Nat /\ pos[c] <= pushes - Capacity /\ pushes - Capacity <= pushes
    BY <1>2, <1>5, CapacityAssumption
  <2>3. pos' \in [Clients -> Nat] /\ \A d \in Clients : pos'[d] \in joined'[d] .. pushes'
    BY <1>1, <1>2, <1>3, <2>1, <2>2 DEF Types, TypeOK
  <2>4. TypeOK' BY <1>1, <1>3, <2>3 DEF TypeOK
  <2>5. Types' BY <1>1, <1>3, <2>1, <2>3 DEF Types
  <2>6. ASSUME NEW d \in Clients PROVE ClientInv(d)'
    <3>0. ClientInv(d) BY DEF DeliveryInv
    <3>1. CASE d # c
      <4>1. pos'[d] = pos[d] /\ lagged'[d] = lagged[d] BY <1>1, <2>1, <3>1 DEF Types
      <4> QED BY <1>3, <2>1, <3>0, <4>1, SameClient
    <3>2. CASE d = c
      <4>1. pos'[c] = pushes - Capacity BY <1>1, <2>1 DEF Types
      <4>2. PushInv(got[c], joined[c], pushes - Capacity, TRUE)
        BY <1>2, <2>2, <3>0, <3>2, PushesSkipped DEF ClientInv
      <4>3. PushInv(got'[c], joined'[c], pos'[c], lagged'[c])
        <5>1. lagged'[c] = TRUE BY <1>1, <2>1, Zenon DEF Types
        <5> QED BY <1>3, <2>1, <4>1, <4>2, <5>1, Zenon
      <4>4. Way(c)' = Way(c) BY <1>3, <2>1 DEF Way
      <4> QED BY <1>3, <2>1, <3>0, <3>2, <4>3, <4>4 DEF ClientInv
    <3> QED BY <3>1, <3>2
  <2> QED BY <1>4, <2>4, <2>5, <2>6 DEF DeliveryInv
<1>6. CASE ~(pushes - pos[c] > Capacity)
  <2> DEFINE f == Frame("push", pos[c] + 1, "none")
  <2>1. pos' = [pos EXCEPT ![c] = pos[c] + 1] /\ lagged' = lagged
    BY <1>6 DEF WritePush
  <2>2. pos'[c] = pos[c] + 1 BY <1>1, <2>1 DEF Types
  <2>3. got' = [got EXCEPT ![c] = Append(got[c], f)]
    BY <1>6, <2>2 DEF WritePush
  <2>4. f \in Frames /\ f.kind = "push" /\ f.layout = "none" /\ f.id = pos[c] + 1
    BY <1>2 DEF Frame, Frames
  <2> HIDE DEF f
  <2>5. pos' \in [Clients -> Nat] /\ \A d \in Clients : pos'[d] \in joined'[d] .. pushes'
    BY <1>1, <1>2, <1>3, <2>1 DEF Types, TypeOK
  <2>6. Append(got[c], f) \in Seq(Frames) BY <1>2, <2>4, AppendProperties
  <2>7. TypeOK' BY <1>1, <1>3, <2>5 DEF TypeOK
  <2>8. Types'
    <3>1. got' \in [Clients -> Seq(Frames)] BY <1>1, <2>3, <2>6 DEF Types
    <3> QED BY <1>1, <1>3, <2>1, <2>5, <3>1, Zenon DEF Types
  <2>9. ASSUME NEW d \in Clients PROVE ClientInv(d)'
    <3>0. ClientInv(d) BY DEF DeliveryInv
    <3>1. CASE d # c
      <4>1. pos'[d] = pos[d] /\ got'[d] = got[d] BY <1>1, <2>1, <2>3, <3>1 DEF Types
      <4> QED BY <1>3, <2>1, <3>0, <4>1, SameClient
    <3>2. CASE d = c
      <4>1. got'[c] = Append(got[c], f) BY <1>1, <2>3 DEF Types
      <4>2. PushInv(Append(got[c], f), joined[c], pos[c] + 1, lagged[c])
        BY <1>2, <2>4, <3>0, <3>2, FrameWritten DEF ClientInv
      <4>3. Way(c)' = Append(got[c], f) \o direct[c] BY <1>3, <4>1 DEF Way
      <4>4. WayInv(Way(c)', protocol_versions[c], fanned[c]) /\ Present(Way(c)', fanned[c])
        BY <1>2, <1>3, <2>4, <3>0, <3>2, <4>3, PushOnWay DEF ClientInv, Way
      <4> QED BY <1>3, <2>1, <2>2, <3>2, <4>1, <4>2, <4>4 DEF ClientInv
    <3> QED BY <3>1, <3>2
  <2> QED BY <1>4, <2>7, <2>8, <2>9 DEF DeliveryInv
<1> QED BY <1>5, <1>6

\* The core's steps leave connections and sockets alone.
LEMMA CoreStep ==
  ASSUME DeliveryInv, UNCHANGED <<conn, outVars>>,
         direct' \in [Clients -> Seq(Own)],
         \A c \in Clients : direct'[c] # << >> => conn'[c] = "open",
         \A c \in Clients : ClientInv(c)',
         WaitingInv' /\ KnownWaiters' /\ waiting' \in Seq(Waits),
         protocol_versions' \in [Clients -> {0} \cup Versions],
         fanned' \in [Clients -> SUBSET Nat],
         spent' \in [commands : Nat, losses : Nat],
         radio_up' \in BOOLEAN /\ failing' \in BOOLEAN
  PROVE  DeliveryInv'
<1>1. TypeOK /\ Types BY DEF DeliveryInv
<1>2. TypeOK' BY <1>1, Zenon DEF TypeOK, KnownWaiters, outVars
<1>3. Types' BY <1>1, Zenon DEF Types, outVars
<1> QED BY <1>2, <1>3 DEF DeliveryInv

\* The types that the lemmas above need of a state.
LEMMA Unpacked ==
  ASSUME DeliveryInv
  PROVE  /\ TypeOK /\ Types /\ WaitingInv /\ KnownWaiters
         /\ direct \in [Clients -> Seq(Own)]
         /\ \A c \in Clients : direct[c] # << >> => conn[c] = "open"
         /\ \A c \in Clients : ClientInv(c)
         /\ protocol_versions \in [Clients -> {0} \cup Versions]
         /\ protocol_versions \in [Clients -> Nat]
         /\ fanned \in [Clients -> SUBSET Nat]
         /\ waiting \in Seq(Waits)
         /\ spent \in [commands : Nat, losses : Nat]
         /\ radio_up \in BOOLEAN /\ failing \in BOOLEAN
<1>1. TypeOK /\ Types /\ WaitingInv /\ \A c \in Clients : ClientInv(c) BY DEF DeliveryInv
<1>2. KnownWaiters BY <1>1, Zenon DEF TypeOK, KnownWaiters
<1>3. protocol_versions \in [Clients -> {0} \cup Versions] BY <1>1, Zenon DEF TypeOK
<1>4. protocol_versions \in [Clients -> Nat]
  <2>1. {0} \cup Versions \subseteq Nat BY VersionsAssumption
  <2> QED BY <1>3, <2>1
<1> QED BY <1>1, <1>2, <1>3, <1>4, Zenon DEF TypeOK, Types

\* A frame goes to the clients in to, none of them new to the version it
\* tells and none with the message it carries.
LEMMA SendStep ==
  ASSUME DeliveryInv, NEW to, NEW frame \in Own, Send(to, frame),
         UNCHANGED <<conn, outVars>>,
         protocol_versions' \in [Clients -> {0} \cup Versions],
         \A c \in Clients :
           \/ protocol_versions'[c] = protocol_versions[c]
           \/ protocol_versions[c] = 0 /\ frame.layout = "none",
         \A c \in Clients : frame.kind = "info" /\ c \in to =>
           protocol_versions'[c] # 0 /\ frame.id = protocol_versions'[c],
         \A c \in Open : frame.kind = "message" => c \in to /\ frame.id \notin fanned[c],
         fanned' = [c \in Clients |-> IF frame.kind = "message" /\ c \in Open
                                      THEN fanned[c] \cup {frame.id} ELSE fanned[c]],
         WaitingInv' /\ KnownWaiters' /\ waiting' \in Seq(Waits),
         spent' \in [commands : Nat, losses : Nat],
         UNCHANGED <<radio_up, failing>>
  PROVE  DeliveryInv'
<1>1. \A c \in Clients : protocol_versions'[c] \in Nat
  <2>1. {0} \cup Versions \subseteq Nat BY VersionsAssumption
  <2> QED BY <2>1
<1>2. ASSUME NEW c \in Clients
      PROVE  /\ ClientInv(c)'
             /\ direct'[c] \in Seq(Own)
             /\ direct'[c] # << >> => conn'[c] = "open"
  <2>1. frame.kind = "message" /\ c \in Open => c \in to /\ frame.id \notin fanned[c] OBVIOUS
  <2>2. fanned'[c] = IF frame.kind = "message" /\ c \in Open
                     THEN fanned[c] \cup {frame.id} ELSE fanned[c]
    BY Zenon
  <2> QED BY <1>1, <2>1, <2>2, SendKeeps
<1>3. direct' = [c \in Clients |-> direct'[c]] BY DEF Send
<1>4. direct' \in [Clients -> Seq(Own)] BY <1>2, <1>3, Zenon
<1>5. frame.id \in Nat BY DEF Own
<1>6. fanned \in [Clients -> SUBSET Nat] /\ radio_up \in BOOLEAN /\ failing \in BOOLEAN BY Unpacked
<1>7. fanned' \in [Clients -> SUBSET Nat] BY <1>5, <1>6
<1>8. radio_up' \in BOOLEAN /\ failing' \in BOOLEAN BY <1>6, Zenon
<1> QED BY <1>2, <1>4, <1>7, <1>8, CoreStep

\* A command of which only its place in the line matters.
LEMMA AskStep ==
  ASSUME DeliveryInv, NEW c \in Clients, Ask(c)
  PROVE  DeliveryInv'
<1>1. /\ Spend("commands")
      /\ UNCHANGED <<conn, direct, outVars, protocol_versions, radio_up, failing, fanned>>
      /\ waiting' = Append(waiting, [client |-> c, id |-> spent.commands + 1, version |-> 0])
      /\ c \in Open
  BY DEF Ask, Ready
<1>2. WaitingInv' /\ KnownWaiters' /\ waiting' \in Seq(Waits)
      /\ spent' \in [commands : Nat, losses : Nat]
  BY <1>1, AppendWaiting
<1>3. \A d \in Clients : ClientInv(d)'
  BY <1>1, Unpacked, SameClient DEF outVars
<1> QED BY <1>1, <1>2, <1>3, Unpacked, CoreStep

\* DEVICE_QUERY, answered from the cache or passed on.
LEMMA NegotiateStep ==
  ASSUME DeliveryInv, NEW c \in Clients, NEW version \in Versions, Negotiate(c, version)
  PROVE  DeliveryInv'
<1>1. /\ c \in Open /\ Spend("commands")
      /\ protocol_versions[c] \in {0, version}
      /\ protocol_versions' = [protocol_versions EXCEPT ![c] = version]
      /\ UNCHANGED <<conn, outVars, radio_up, failing, fanned>>
  BY DEF Negotiate, Ready
<1>2. version \in Nat /\ version # 0 BY VersionsAssumption
<1>3. protocol_versions \in [Clients -> {0} \cup Versions] BY Unpacked
<1>4. /\ protocol_versions' \in [Clients -> {0} \cup Versions]
      /\ protocol_versions'[c] = version
      /\ \A d \in Clients : protocol_versions'[d] = protocol_versions[d] \/ protocol_versions[d] = 0
  BY <1>1, <1>3
<1>5. CASE Send({c}, Frame("info", version, "none")) /\ UNCHANGED waiting
  <2> DEFINE frame == Frame("info", version, "none")
  <2>1. frame \in Own /\ frame.kind = "info" /\ frame.id = version /\ frame.layout = "none"
    BY <1>2 DEF Frame, Own
  <2>2. WaitingInv' /\ KnownWaiters' /\ waiting' \in Seq(Waits)
        /\ spent' \in [commands : Nat, losses : Nat]
    BY <1>1, <1>4, <1>5, CountCommand
  <2>3. fanned' = [d \in Clients |-> fanned[d]] BY <1>1, Unpacked
  <2> HIDE DEF frame
  <2>4. fanned' = [d \in Clients |-> IF frame.kind = "message" /\ d \in Open
                                     THEN fanned[d] \cup {frame.id} ELSE fanned[d]]
    BY <2>1, <2>3
  <2>5. Send({c}, frame) BY <1>5 DEF frame
  <2>6. \A d \in Clients : frame.kind = "info" /\ d \in {c} =>
          protocol_versions'[d] # 0 /\ frame.id = protocol_versions'[d]
    BY <1>2, <1>4, <2>1
  <2> QED BY <1>1, <1>4, <2>1, <2>2, <2>4, <2>5, <2>6, SendStep
<1>6. CASE /\ waiting' = Append(waiting, [client |-> c, id |-> spent.commands + 1,
                                          version |-> version])
           /\ UNCHANGED direct
  <2>1. WaitingInv' /\ KnownWaiters' /\ waiting' \in Seq(Waits)
        /\ spent' \in [commands : Nat, losses : Nat]
    BY <1>1, <1>2, <1>4, <1>6, AppendWaiting
  <2>2. ASSUME NEW d \in Clients PROVE ClientInv(d)'
    <3>1. ClientInv(d) BY Unpacked
    <3>2. WayInv(Way(d), protocol_versions'[d], fanned[d])
      BY <1>4, <3>1, FirstVersion DEF ClientInv
    <3>3. Way(d)' = Way(d) BY <1>1, <1>6 DEF Way, outVars
    <3> QED BY <1>1, <3>1, <3>2, <3>3 DEF ClientInv, outVars
  <2> QED BY <1>1, <1>4, <1>6, <2>1, <2>2, Unpacked, CoreStep
<1> QED BY <1>5, <1>6 DEF Negotiate

\* GET_MSG answered with a missed message.
LEMMA ReplayMissedStep ==
  ASSUME DeliveryInv, NEW c \in Clients, ReplayMissed(c)
  PROVE  DeliveryInv'
<1>1. /\ Spend("commands")
      /\ UNCHANGED <<conn, outVars, protocol_versions, waiting, radio_up, failing, fanned>>
  BY DEF ReplayMissed
<1>2. PICK layout \in {"v1", "v3"} : Send({c}, Frame("missed", 0, layout))
  BY DEF ReplayMissed
<1> DEFINE frame == Frame("missed", 0, layout)
<1>3. frame \in Own /\ frame.kind = "missed"
  BY DEF Frame, Own
<1>4. WaitingInv' /\ KnownWaiters' /\ waiting' \in Seq(Waits)
      /\ spent' \in [commands : Nat, losses : Nat]
  BY <1>1, CountCommand
<1>5. fanned' = [d \in Clients |-> fanned[d]] BY <1>1, Unpacked
<1> HIDE DEF frame
<1>6. fanned' = [d \in Clients |-> IF frame.kind = "message" /\ d \in Open
                                   THEN fanned[d] \cup {frame.id} ELSE fanned[d]]
  BY <1>3, <1>5
<1>7. Send({c}, frame) BY <1>2 DEF frame
<1>8. protocol_versions' \in [Clients -> {0} \cup Versions] BY <1>1, Unpacked
<1> QED BY <1>1, <1>3, <1>4, <1>6, <1>7, <1>8, SendStep

\* The oldest request and what is known of it.
LEMMA OldestFacts ==
  ASSUME DeliveryInv, waiting # << >>
  PROVE  /\ Oldest \in Waits /\ Oldest.client \in Clients /\ Oldest.id \in Nat
         /\ Oldest.version \in Nat
         /\ Oldest.version # 0 => Oldest.version = protocol_versions[Oldest.client]
         /\ \A c \in Clients : Oldest.id \notin fanned[c]
<1>1. waiting \in Seq(Waits) /\ WaitingInv BY Unpacked
<1>2. Oldest \in Waits BY <1>1, HeadTailProperties DEF Oldest
<1>3. 1 \in DOMAIN waiting /\ Oldest = waiting[1]
  BY <1>1, LenProperties, EmptySeq DEF Oldest
<1>4. \A c \in Clients : \A id \in fanned[c] : id < Oldest.id /\ id \in 1 .. spent.commands
  BY <1>1, <1>3 DEF WaitingInv
<1> QED BY <1>1, <1>2, <1>3, <1>4 DEF WaitingInv, Waits

\* The radio hands out a message, to everybody.
LEMMA AnswerMessageStep ==
  ASSUME DeliveryInv, AnswerMessage
  PROVE  DeliveryInv'
<1>1. /\ waiting # << >> /\ waiting' = Tail(waiting)
      /\ fanned' = [c \in Clients |-> IF c \in Open THEN fanned[c] \cup {Oldest.id} ELSE fanned[c]]
      /\ UNCHANGED <<conn, outVars, protocol_versions, radio_up, failing, spent>>
  BY DEF AnswerMessage
<1>2. PICK layout \in {"v1", "v3"} :
        Send({Oldest.client} \cup Clients, Frame("message", Oldest.id, layout))
  BY DEF AnswerMessage, broadcast_to_others
<1> DEFINE frame == Frame("message", Oldest.id, layout)
<1>3. Oldest.id \in Nat /\ \A c \in Clients : Oldest.id \notin fanned[c] BY <1>1, OldestFacts
<1>4. frame \in Own /\ frame.kind = "message" /\ frame.id = Oldest.id
  BY <1>3 DEF Frame, Own
<1>5. \A c \in Clients : fanned'[c] \subseteq fanned[c] \cup {Oldest.id} BY <1>1
<1>6. WaitingInv' /\ KnownWaiters' /\ waiting' \in Seq(Waits) BY <1>1, <1>5, PopWaiting
<1> HIDE DEF frame
<1>7. fanned' = [d \in Clients |-> IF frame.kind = "message" /\ d \in Open
                                   THEN fanned[d] \cup {frame.id} ELSE fanned[d]]
  BY <1>1, <1>4
<1>8. Send({Oldest.client} \cup Clients, frame) BY <1>2 DEF frame
<1>9. protocol_versions' \in [Clients -> {0} \cup Versions]
      /\ spent' \in [commands : Nat, losses : Nat]
  BY <1>1, Unpacked
<1>10. \A c \in Open : c \in {Oldest.client} \cup Clients /\ frame.id \notin fanned[c]
  BY <1>3, <1>4 DEF Open
<1> QED BY <1>1, <1>4, <1>6, <1>7, <1>8, <1>9, <1>10, SendStep

\* Any other answer to the oldest request, also the ERROR of reconnect_radio.
LEMMA AnswerOne ==
  ASSUME DeliveryInv, waiting # << >>, waiting' = Tail(waiting),
         UNCHANGED <<conn, outVars, protocol_versions, radio_up, failing, fanned, spent>>,
         NEW kind \in {"error", "reply", "info"}, NEW id \in Nat,
         kind = "info" => id # 0 /\ id = protocol_versions[Oldest.client],
         Send({Oldest.client}, Frame(kind, id, "none"))
  PROVE  DeliveryInv'
<1> DEFINE frame == Frame(kind, id, "none")
<1>1. frame \in Own /\ frame.kind = kind /\ frame.id = id
  BY DEF Frame, Own
<1>2. WaitingInv' /\ KnownWaiters' /\ waiting' \in Seq(Waits) BY PopWaiting
<1>3. fanned' = [d \in Clients |-> fanned[d]] BY Unpacked
<1>4. protocol_versions' \in [Clients -> {0} \cup Versions]
      /\ spent' \in [commands : Nat, losses : Nat]
  BY Unpacked
<1>5. Send({Oldest.client}, frame) OBVIOUS
<1> HIDE DEF frame
<1>6. fanned' = [d \in Clients |-> IF frame.kind = "message" /\ d \in Open
                                   THEN fanned[d] \cup {frame.id} ELSE fanned[d]]
  BY <1>1, <1>3
<1>7. \A d \in Clients : frame.kind = "info" /\ d \in {Oldest.client} =>
        protocol_versions'[d] # 0 /\ frame.id = protocol_versions'[d]
  BY <1>1
<1>8. \A c \in Open : frame.kind # "message" BY <1>1
<1> QED BY <1>1, <1>2, <1>4, <1>5, <1>6, <1>7, <1>8, SendStep

\* A reply of the radio, or the ERROR of a timeout.
LEMMA AnswerOtherStep ==
  ASSUME DeliveryInv, AnswerOther
  PROVE  DeliveryInv'
<1>1. /\ waiting # << >> /\ waiting' = Tail(waiting)
      /\ UNCHANGED <<conn, outVars, protocol_versions, radio_up, failing, fanned, spent>>
  BY DEF AnswerOther
<1>2. \/ Send({Oldest.client}, Frame("error", Oldest.id, "none"))
      \/ Oldest.version = 0 /\ Send({Oldest.client}, Frame("reply", Oldest.id, "none"))
      \/ Oldest.version # 0 /\ Send({Oldest.client}, Frame("info", Oldest.version, "none"))
  BY Zenon DEF AnswerOther
<1> QED BY <1>1, <1>2, OldestFacts, AnswerOne

\* reconnect_radio fails the oldest request.
LEMMA FailNextStep ==
  ASSUME DeliveryInv, FailNext
  PROVE  DeliveryInv'
BY OldestFacts, AnswerOne DEF FailNext

\* A push reaches the broadcast channel; the radio goes and comes back.
LEMMA RadioStep ==
  ASSUME DeliveryInv, Push \/ LoseRadio \/ RadioBack
  PROVE  DeliveryInv'
<1>1. CASE Push
  <2>1. TypeOK /\ Types /\ WaitingInv BY Unpacked
  <2>2. TypeOK'
    <3>1. pushes' = pushes + 1 /\ pushes < MaxPushes BY <1>1 DEF Push
    <3>2. pushes \in 0 .. MaxPushes /\ \A c \in Clients : pos[c] \in joined[c] .. pushes
      BY <2>1, Zenon DEF TypeOK
    <3>3. pushes' \in 0 .. MaxPushes BY <3>1, <3>2, PushesAssumption
    <3>4. \A c \in Clients : pos[c] \in Nat /\ joined[c] \in Nat BY <2>1 DEF Types
    <3>5. \A c \in Clients : pos[c] \in joined[c] .. pushes'
      BY <3>1, <3>2, <3>4, PushesAssumption
    <3>6. UNCHANGED <<conn, direct, pos, protocol_versions, waiting, radio_up, failing, joined>>
      BY <1>1 DEF Push
    <3> QED BY <2>1, <3>3, <3>5, <3>6, Zenon DEF TypeOK
  <2>3. Types' BY <1>1, <2>1, Zenon DEF Types, Push
  <2>4. WaitingInv' BY <1>1, <2>1 DEF WaitingInv, Push
  <2>5. \A d \in Clients : ClientInv(d)' BY <1>1, Unpacked, SameClient DEF Push
  <2> QED BY <2>2, <2>3, <2>4, <2>5 DEF DeliveryInv
<1>2. CASE LoseRadio
  <2>1. UNCHANGED <<conn, direct, outVars, protocol_versions, waiting, fanned>> /\ Spend("losses")
    BY <1>2 DEF LoseRadio
  <2>2. radio_up' \in BOOLEAN /\ failing' \in BOOLEAN BY <1>2, Zenon DEF LoseRadio
  <2>3. spent' \in [commands : Nat, losses : Nat] /\ spent'.commands = spent.commands
    <3>1. spent \in [commands : Nat, losses : Nat] BY Unpacked
    <3>2. spent' = [spent EXCEPT !["losses"] = @ + 1] BY <2>1 DEF Spend
    <3> QED BY <3>1, <3>2
  <2>4. WaitingInv' /\ KnownWaiters'
    BY <2>1, <2>3, Unpacked DEF WaitingInv, KnownWaiters
  <2>5. \A d \in Clients : ClientInv(d)' BY <2>1, Unpacked, SameClient DEF outVars
  <2> QED BY <2>1, <2>2, <2>3, <2>4, <2>5, Unpacked, CoreStep
<1>3. CASE RadioBack
  <2>1. UNCHANGED <<conn, direct, outVars, protocol_versions, waiting, fanned, spent>>
    BY <1>3 DEF RadioBack
  <2>2. radio_up' \in BOOLEAN /\ failing' \in BOOLEAN BY <1>3, Zenon DEF RadioBack
  <2>3. WaitingInv' /\ KnownWaiters'
    BY <2>1, Unpacked DEF WaitingInv, KnownWaiters
  <2>4. \A d \in Clients : ClientInv(d)' BY <2>1, Unpacked, SameClient DEF outVars
  <2> QED BY <2>1, <2>2, <2>3, <2>4, Unpacked, CoreStep
<1> QED BY <1>1, <1>2, <1>3

-----------------------------------------------------------------------------
(* The theorems.                                                           *)

\* Every step of the core, of the write tasks and of the frontend keeps what
\* holds of every client's way.
THEOREM DeliveryInductive == Spec => []DeliveryInv
<1>1. DeliveryInv /\ UNCHANGED vars => DeliveryInv'
  BY DEF DeliveryInv, TypeOK, Types, WaitingInv, ClientInv, Way, vars
<1>2. DeliveryInv /\ Next => DeliveryInv'
  BY ConnectStep, CloseStep, WriteDirectStep, WritePushStep, AskStep, NegotiateStep,
     ReplayMissedStep, AnswerMessageStep, AnswerOtherStep, RadioStep, FailNextStep
     DEF Next, Leave, CloseForRadio
<1> QED BY <1>1, <1>2, DeliveryInit, PTL DEF Spec

\* Nothing waits in the channel of a connection that is not open, a receiver
\* is never ahead of the pushes, and every variable keeps its type.
THEOREM DeliveryTypeCorrect == Spec => []TypeOK
<1>1. DeliveryInv => TypeOK BY DEF DeliveryInv
<1> QED BY <1>1, DeliveryInductive, PTL

\* A message behind the answer to DEVICE_QUERY has the layout asked for, for
\* any number of clients negotiating and asking at once.
THEOREM LayoutAsNegotiated == Spec => []NegotiatedLayout
<1>1. DeliveryInv => NegotiatedLayout
  BY DEF DeliveryInv, ClientInv, WayInv, NegotiatedLayout
<1> QED BY <1>1, DeliveryInductive, PTL

\* A message the radio handed out is on the way of every connected client
\* exactly once, whatever closes, lags or fails meanwhile.
THEOREM FannedOutOnce == Spec => []MessageOnce
<1>1. DeliveryInv => MessageOnce
  <2> SUFFICES ASSUME DeliveryInv, NEW c \in Open, NEW id \in 1 .. spent.commands
               PROVE  LET copies == {i \in DOMAIN Way(c) :
                                       Way(c)[i].kind = "message" /\ Way(c)[i].id = id}
                      IN IF id \in fanned[c] THEN \E i \in copies : copies = {i} ELSE copies = {}
    BY DEF MessageOnce
  <2> DEFINE copies == {i \in DOMAIN Way(c) : Way(c)[i].kind = "message" /\ Way(c)[i].id = id}
  <2>1. c \in Clients /\ conn[c] = "open" BY DEF Open
  <2>2. WayInv(Way(c), protocol_versions[c], fanned[c]) /\ Present(Way(c), fanned[c])
    BY <2>1 DEF DeliveryInv, ClientInv
  <2>3. \A i, j \in copies : i = j BY <2>2 DEF WayInv
  <2>4. CASE id \in fanned[c]
    <3>1. PICK i \in copies : TRUE BY <2>2, <2>4 DEF Present
    <3>2. copies = {i} BY <2>3, <3>1
    <3> QED BY <2>4, <3>2
  <2>5. CASE id \notin fanned[c]
    <3>1. copies = {} BY <2>2, <2>5 DEF WayInv
    <3> QED BY <2>5, <3>1
  <2> QED BY <2>4, <2>5
<1> QED BY <1>1, DeliveryInductive, PTL

\* Pushes are read in the radio's order, none twice, and without a gap as long
\* as the client was never more than the capacity of the channel behind.
THEOREM PushesAsSent == Spec => []PushesInOrder
<1>1. DeliveryInv => PushesInOrder
  BY DEF DeliveryInv, ClientInv, PushInv, PushesInOrder, Open
<1> QED BY <1>1, DeliveryInductive, PTL

=============================================================================
