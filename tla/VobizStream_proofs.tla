-------------------------- MODULE VobizStream_proofs --------------------------
(***************************************************************************)
(* Proofs about VobizStream, for every value of its constants.              *)
(***************************************************************************)
EXTENDS VobizStream, Integers, SequenceTheorems, WellFoundedInduction, TLAPS

(***************************************************************************)
(* The inductive invariant.                                                 *)
(***************************************************************************)

\* A clear that waits is about to return on an acknowledgement.
Due == IF ack /\ clear = "waiting" /\ ~finished THEN 1 ELSE 0

\* The clears are numbered by those sent before them, on the line l and, carried
\* out, on the wire w, and b acknowledgements are not ahead of what was carried out.
Ordered(b, l, w, c) ==
    /\ b <= c
    /\ \A i \in DOMAIN l : /\ b <= l[i].epoch /\ l[i].epoch <= c
                           /\ l[i].kind = "clear" => l[i].epoch < c
    /\ \A i, j \in DOMAIN l : i < j /\ l[i].kind = "clear" => l[i].epoch < l[j].epoch
    /\ \A i \in DOMAIN w : w[i].kind = "cleared" =>
         /\ b <= w[i].n /\ w[i].n < c
         /\ \A j \in DOMAIN l : w[i].n < l[j].epoch
    /\ \A i, j \in DOMAIN w :
         i < j /\ w[i].kind = "cleared" /\ w[j].kind = "cleared" => w[i].n < w[j].n

Counted == Ordered(acked + Due, line, wire, clears)

\* A frame that is being sent has a chunk left, and there are no loops before
\* the session has started.
UnderWay ==
    /\ output = "sending" => left > 0
    /\ session \in {"waiting", "starting"} => audioLoop = "off" /\ playLoop = "off"

IInv == TypeOK /\ EndReachesReaders /\ UnderWay /\ Counted

-----------------------------------------------------------------------------
(* Packets and queues.                                                      *)

LEMMA Element == ASSUME NEW S, NEW q \in Seq(S), NEW i \in DOMAIN q PROVE q[i] \in S
  OBVIOUS

\* What is behind the i-th entry.
LEMMA Rest ==
  ASSUME NEW S, NEW q \in Seq(S), NEW i \in DOMAIN q
  PROVE  /\ SubSeq(q, i + 1, Len(q)) \in Seq(S)
         /\ DOMAIN SubSeq(q, i + 1, Len(q)) = 1..(Len(q) - i)
         /\ DOMAIN q = 1..Len(q) /\ Len(q) \in Nat /\ i \in Nat
         /\ \A j \in 1..(Len(q) - i) :
              j + i \in DOMAIN q /\ SubSeq(q, i + 1, Len(q))[j] = q[j + i]
  OBVIOUS

LEMMA NumbersOK ==
  /\ 0..MaxFrames \subseteq Numbers /\ 0..MaxSends \subseteq Numbers /\ 0..MaxClears \subseteq Numbers
  /\ Numbers \subseteq Nat
  BY VobizAssumption DEF Numbers

LEMMA EndOK == End \in Packets /\ Nothing \in Packets /\ End.kind = "end" /\ Nothing.kind = "none"
  BY NumbersOK, VobizAssumption DEF End, Nothing, Packets, Numbers

LEMMA QueueOK ==
  ASSUME NEW q \in Seq(Packets), q # <<>>
  PROVE  /\ Head(q) \in Packets /\ Tail(q) \in Seq(Packets) /\ Len(Tail(q)) = Len(q) - 1
         /\ Head(q) = q[1] /\ Len(q) \in Nat /\ Len(q) >= 1
         /\ DOMAIN Tail(q) = 1..(Len(q) - 1) /\ DOMAIN q = 1..Len(q)
         /\ \A i \in 1..(Len(q) - 1) : Tail(q)[i] = q[i + 1]
         /\ \A p : Has(q, p) => Head(q) = p \/ Has(Tail(q), p)
  <1>1. /\ Tail(q) \in Seq(Packets) /\ Len(Tail(q)) = Len(q) - 1
        /\ Head(q) = q[1] /\ Len(q) \in Nat /\ Len(q) >= 1
        /\ DOMAIN Tail(q) = 1..(Len(q) - 1) /\ DOMAIN q = 1..Len(q)
        /\ \A i \in 1..(Len(q) - 1) : Tail(q)[i] = q[i + 1]
    OBVIOUS
  <1>2. 1 \in DOMAIN q /\ q[1] \in Packets
    BY <1>1, Element
  <1>3. ASSUME NEW p, Has(q, p), Head(q) # p PROVE Has(Tail(q), p)
    <2>1. PICK i \in DOMAIN q : q[i] = p
      BY <1>3 DEF Has
    <2>2. i # 1 /\ i \in 1..Len(q)
      BY <1>1, <1>3, <2>1
    <2>3. i - 1 \in 1..(Len(q) - 1) /\ (i - 1) + 1 = i
      BY <1>1, <2>2
    <2>4. Tail(q)[i - 1] = p
      BY <1>1, <2>1, <2>3
    <2> QED
      BY <1>1, <2>3, <2>4 DEF Has
  <1> QED
    BY <1>1, <1>2, <1>3

LEMMA AppendOK ==
  ASSUME NEW q \in Seq(Packets), NEW e \in Packets
  PROVE  /\ Append(q, e) \in Seq(Packets) /\ Len(Append(q, e)) = Len(q) + 1 /\ Len(q) \in Nat
         /\ DOMAIN Append(q, e) = 1..(Len(q) + 1) /\ DOMAIN q = 1..Len(q)
         /\ \A i \in DOMAIN q : Append(q, e)[i] = q[i]
         /\ Append(q, e)[Len(q) + 1] = e
         /\ \A p : Has(q, p) => Has(Append(q, e), p)
         /\ Has(Append(q, e), e)
  <1>1. /\ Append(q, e) \in Seq(Packets) /\ Len(Append(q, e)) = Len(q) + 1 /\ Len(q) \in Nat
        /\ DOMAIN Append(q, e) = 1..(Len(q) + 1) /\ DOMAIN q = 1..Len(q)
        /\ \A i \in DOMAIN q : Append(q, e)[i] = q[i]
        /\ Append(q, e)[Len(q) + 1] = e
    OBVIOUS
  <1>2. \A i \in DOMAIN q : i \in DOMAIN Append(q, e)
    BY <1>1
  <1>3. Len(q) + 1 \in DOMAIN Append(q, e)
    BY <1>1
  <1> QED
    BY <1>1, <1>2, <1>3 DEF Has

\* The end marker always gets in, and the queue keeps to its places.
LEMMA PutTerminalOK ==
  ASSUME NEW q \in Seq(Packets), Len(q) <= QueueMax
  PROVE  PutTerminal(q) \in Seq(Packets) /\ Len(PutTerminal(q)) <= QueueMax /\ Has(PutTerminal(q), End)
  <1>0. QueueMax \in Nat /\ QueueMax >= 1 /\ Len(q) \in Nat /\ End \in Packets
    BY VobizAssumption, EndOK
  <1>1. CASE Len(q) < QueueMax
    <2>1. PutTerminal(q) = Append(q, End)
      BY <1>1 DEF PutTerminal
    <2>2. /\ Append(q, End) \in Seq(Packets) /\ Len(Append(q, End)) = Len(q) + 1
          /\ Has(Append(q, End), End)
      BY <1>0, AppendOK
    <2> QED
      BY <1>0, <1>1, <2>1, <2>2
  <1>2. CASE ~(Len(q) < QueueMax)
    <2>1. q # <<>> /\ Len(q) = QueueMax
      BY <1>0, <1>2
    <2>2. Tail(q) \in Seq(Packets) /\ Len(Tail(q)) = QueueMax - 1
      BY <2>1, QueueOK
    <2>3. PutTerminal(q) = Append(Tail(q), End)
      BY <1>2 DEF PutTerminal
    <2>4. /\ Append(Tail(q), End) \in Seq(Packets)
          /\ Len(Append(Tail(q), End)) = Len(Tail(q)) + 1
          /\ Has(Append(Tail(q), End), End)
      BY <1>0, <2>2, AppendOK
    <2> QED
      BY <1>0, <2>2, <2>3, <2>4
  <1> QED
    BY <1>1, <1>2

\* _finish_stream leaves both queues with an end marker, or as they were.
LEMMA FinishOK ==
  ASSUME TypeOK, EndReachesReaders, Finish
  PROVE  /\ audio' \in Seq(Packets) /\ Len(audio') <= QueueMax
         /\ events' \in Seq(Packets) /\ Len(events') <= QueueMax
         /\ finished' = TRUE /\ startSet' = TRUE /\ ack' = TRUE
         /\ Has(audio', End) \/ audioLoop = "over"
         /\ Has(events', End) \/ playLoop \in {"hanging", "over"}
  <1>1. CASE finished
    BY <1>1 DEF Finish, TypeOK, EndReachesReaders
  <1>2. CASE ~finished
    BY <1>2, PutTerminalOK DEF Finish, TypeOK
  <1> QED
    BY <1>1, <1>2

-----------------------------------------------------------------------------
(* The clears stay in order.                                                *)

LEMMA Lengths ==
  ASSUME NEW S, NEW q \in Seq(S), NEW e
  PROVE  /\ Len(q) \in Nat /\ DOMAIN q = 1..Len(q)
         /\ DOMAIN Append(q, e) = 1..(Len(q) + 1)
         /\ \A i \in DOMAIN q : Append(q, e)[i] = q[i]
         /\ Append(q, e)[Len(q) + 1] = e
  <1>1. Len(q) \in Nat /\ DOMAIN q = 1..Len(q)
    OBVIOUS
  <1> QED
    BY <1>1

LEMMA TailLengths ==
  ASSUME NEW S, NEW q \in Seq(S), q # <<>>
  PROVE  /\ Len(q) \in Nat /\ DOMAIN q = 1..Len(q) /\ 1 \in DOMAIN q /\ Head(q) = q[1]
         /\ DOMAIN Tail(q) = 1..(Len(q) - 1)
         /\ \A i \in DOMAIN Tail(q) : i + 1 \in DOMAIN q /\ Tail(q)[i] = q[i + 1]
  <1>1. Len(q) \in Nat /\ DOMAIN q = 1..Len(q) /\ Len(q) >= 1
    OBVIOUS
  <1> QED
    BY <1>1

LEMMA Values ==
  ASSUME NEW l \in Seq(Line), NEW w \in Seq(Packets)
  PROVE  /\ \A i \in DOMAIN l : l[i].epoch \in Nat
         /\ \A i \in DOMAIN w : w[i].n \in Nat
  <1>1. ASSUME NEW i \in DOMAIN l PROVE l[i].epoch \in Nat
    <2>1. l[i] \in Line
      BY Element
    <2>2. l[i].epoch \in Numbers
      BY <2>1 DEF Line
    <2> QED
      BY <2>2, NumbersOK
  <1>2. ASSUME NEW i \in DOMAIN w PROVE w[i].n \in Nat
    <2>1. w[i] \in Packets
      BY Element
    <2>2. w[i].n \in Numbers
      BY <2>1 DEF Packets
    <2> QED
      BY <2>2, NumbersOK
  <1> QED
    BY <1>1, <1>2

\* Fewer acknowledgements, or a clear more that was sent.
LEMMA Lower ==
  ASSUME NEW b \in Nat, NEW c \in Nat, NEW l \in Seq(Line), NEW w \in Seq(Packets),
         Ordered(b, l, w, c), NEW a \in Nat, a <= b
  PROVE  Ordered(a, l, w, c) /\ Ordered(a, l, w, c + 1)
  <1>1. /\ \A i \in DOMAIN l : l[i].epoch \in Nat
        /\ \A i \in DOMAIN w : w[i].n \in Nat
    BY Values
  <1> QED
    BY <1>1 DEF Ordered

LEMMA Cut ==
  ASSUME NEW b \in Nat, NEW c \in Nat, NEW l \in Seq(Line), NEW w \in Seq(Packets),
         Ordered(b, l, w, c)
  PROVE  /\ Ordered(b, <<>>, w, c) /\ Ordered(b, <<>>, <<>>, c)
         /\ l # <<>> => Ordered(b, Tail(l), w, c)
         /\ w # <<>> => Ordered(b, l, Tail(w), c)
  <1>1. Ordered(b, <<>>, w, c) /\ Ordered(b, <<>>, <<>>, c)
    BY DEF Ordered
  <1>2. ASSUME l # <<>> PROVE Ordered(b, Tail(l), w, c)
    <2>1. /\ DOMAIN Tail(l) \subseteq Nat
          /\ \A i \in DOMAIN Tail(l) : i + 1 \in DOMAIN l /\ Tail(l)[i] = l[i + 1]
      BY <1>2, TailLengths
    <2>2. \A i, j \in DOMAIN Tail(l) : i < j => i + 1 < j + 1
      BY <2>1
    <2> QED
      BY <2>1, <2>2 DEF Ordered
  <1>3. ASSUME w # <<>> PROVE Ordered(b, l, Tail(w), c)
    <2>1. /\ DOMAIN Tail(w) \subseteq Nat
          /\ \A i \in DOMAIN Tail(w) : i + 1 \in DOMAIN w /\ Tail(w)[i] = w[i + 1]
      BY <1>3, TailLengths
    <2>2. \A i, j \in DOMAIN Tail(w) : i < j => i + 1 < j + 1
      BY <2>1
    <2> QED
      BY <2>1, <2>2 DEF Ordered
  <1> QED
    BY <1>1, <1>2, <1>3

\* The head of the wire is acknowledged: what is left was cleared after it.
LEMMA Acknowledged ==
  ASSUME NEW b \in Nat, NEW c \in Nat, NEW l \in Seq(Line), NEW w \in Seq(Packets),
         Ordered(b, l, w, c), w # <<>>, Head(w).kind = "cleared"
  PROVE  Ordered(b + 1, l, Tail(w), c)
  <1>1. /\ DOMAIN Tail(w) \subseteq Nat /\ 1 \in DOMAIN w /\ Head(w) = w[1]
        /\ \A i \in DOMAIN Tail(w) : i + 1 \in DOMAIN w /\ Tail(w)[i] = w[i + 1] /\ 1 < i + 1
    BY TailLengths
  <1>2. /\ \A i \in DOMAIN l : l[i].epoch \in Nat
        /\ \A i \in DOMAIN w : w[i].n \in Nat
    BY Values
  <1>3. PICK n \in Nat : n = w[1].n
    BY <1>1, <1>2
  <1>4. w[1].kind = "cleared" /\ b <= n /\ n < c
    BY <1>1, <1>3 DEF Ordered
  <1>5. \A i \in DOMAIN l : n < l[i].epoch
    BY <1>1, <1>3, <1>4 DEF Ordered
  <1>6. \A i \in DOMAIN Tail(w) : Tail(w)[i].kind = "cleared" => n < Tail(w)[i].n /\ Tail(w)[i].n \in Nat
    <2> TAKE i \in DOMAIN Tail(w)
    <2> HAVE Tail(w)[i].kind = "cleared"
    <2>1. i + 1 \in DOMAIN w /\ w[i + 1] = Tail(w)[i] /\ w[i + 1].kind = "cleared" /\ 1 < i + 1
      BY <1>1
    <2>2. w[1].n < w[i + 1].n
      BY <1>1, <1>4, <2>1 DEF Ordered
    <2> QED
      BY <1>2, <1>3, <2>1, <2>2
  <1>7. Ordered(b, l, Tail(w), c)
    BY Cut
  <1>8. b + 1 <= c
    BY <1>4
  <1>9. \A i \in DOMAIN l : b + 1 <= l[i].epoch
    BY <1>2, <1>4, <1>5
  <1>10. \A i \in DOMAIN Tail(w) : Tail(w)[i].kind = "cleared" => b + 1 <= Tail(w)[i].n
    BY <1>4, <1>6
  <1> QED
    BY <1>7, <1>8, <1>9, <1>10 DEF Ordered

\* A packet that is no acknowledgement.
LEMMA Told ==
  ASSUME NEW b \in Nat, NEW c \in Nat, NEW l \in Seq(Line), NEW w \in Seq(Packets),
         Ordered(b, l, w, c), NEW p, p.kind # "cleared"
  PROVE  Ordered(b, l, Append(w, p), c)
  <1>1. /\ \A i \in DOMAIN w : Append(w, p)[i] = w[i]
        /\ \A i \in DOMAIN Append(w, p) : i \in DOMAIN w \/ Append(w, p)[i] = p
    BY Lengths
  <1> QED
    BY <1>1 DEF Ordered

\* An entry behind all clears, and a clear behind all clears.
LEMMA Sent ==
  ASSUME NEW b \in Nat, NEW c \in Nat, NEW l \in Seq(Line), NEW w \in Seq(Packets),
         Ordered(b, l, w, c), NEW e \in Line, e.epoch = c
  PROVE  /\ e.kind # "clear" => Ordered(b, Append(l, e), w, c)
         /\ Ordered(b, Append(l, e), w, c + 1)
  <1>1. /\ \A i \in DOMAIN l : Append(l, e)[i] = l[i]
        /\ \A i \in DOMAIN Append(l, e) :
             i \in DOMAIN l \/ (Append(l, e)[i] = e /\ \A j \in DOMAIN Append(l, e) : ~(i < j))
    BY Lengths
  <1>2. /\ \A i \in DOMAIN l : l[i].epoch \in Nat
        /\ \A i \in DOMAIN w : w[i].n \in Nat
    BY Values
  <1>3. \A i, j \in DOMAIN Append(l, e) :
           i < j /\ Append(l, e)[i].kind = "clear" => Append(l, e)[i].epoch < Append(l, e)[j].epoch
    BY <1>1 DEF Ordered
  <1>4. \A i \in DOMAIN w : w[i].kind = "cleared" => \A j \in DOMAIN Append(l, e) : w[i].n < Append(l, e)[j].epoch
    BY <1>1 DEF Ordered
  <1>5. \A i \in DOMAIN Append(l, e) : /\ b <= Append(l, e)[i].epoch /\ Append(l, e)[i].epoch <= c
                                      /\ Append(l, e)[i].epoch \in Nat
    BY <1>1, <1>2 DEF Ordered
  <1>6. ASSUME e.kind # "clear" PROVE Ordered(b, Append(l, e), w, c)
    <2>1. \A i \in DOMAIN Append(l, e) : Append(l, e)[i].kind = "clear" => Append(l, e)[i].epoch < c
      BY <1>1, <1>6 DEF Ordered
    <2> QED
      BY <1>3, <1>4, <1>5, <2>1 DEF Ordered
  <1>7. Ordered(b, Append(l, e), w, c + 1)
    <2>1. \A i \in DOMAIN Append(l, e) : Append(l, e)[i].epoch < c + 1 /\ Append(l, e)[i].epoch <= c + 1
      BY <1>5
    <2>2. b <= c + 1
      BY DEF Ordered
    <2>3. \A i \in DOMAIN w : w[i].kind = "cleared" => b <= w[i].n /\ w[i].n < c + 1
      BY <1>2 DEF Ordered
    <2>4. \A i, j \in DOMAIN w :
             i < j /\ w[i].kind = "cleared" /\ w[j].kind = "cleared" => w[i].n < w[j].n
      BY DEF Ordered
    <2> QED
      BY <1>3, <1>4, <1>5, <2>1, <2>2, <2>3, <2>4 DEF Ordered
  <1> QED
    BY <1>6, <1>7

\* A clear is carried out.
LEMMA CarriedOut ==
  ASSUME NEW b \in Nat, NEW c \in Nat, NEW l \in Seq(Line), NEW w \in Seq(Packets),
         Ordered(b, l, w, c), NEW i \in DOMAIN l, l[i].kind = "clear",
         NEW p, p.n = l[i].epoch
  PROVE  Ordered(b, SubSeq(l, i + 1, Len(l)), Append(w, p), c)
  <1> DEFINE r == SubSeq(l, i + 1, Len(l))
  <1>1. /\ DOMAIN r = 1..(Len(l) - i) /\ Len(l) \in Nat /\ i \in Nat
        /\ \A j \in 1..(Len(l) - i) : j + i \in DOMAIN l /\ r[j] = l[j + i]
    BY Rest
  <1>2. /\ \A j \in DOMAIN r : j \in Nat /\ j + i \in DOMAIN l /\ r[j] = l[j + i] /\ i < j + i
        /\ \A j, k \in DOMAIN r : j < k => j + i < k + i
    <2> HIDE DEF r
    <2>1. DOMAIN r = 1..(Len(l) - i) /\ \A j \in DOMAIN r : j \in Nat /\ 0 < j
      BY <1>1
    <2>2. \A j \in DOMAIN r : j + i \in DOMAIN l /\ r[j] = l[j + i]
      BY <1>1, <2>1
    <2>3. \A j \in Nat : 0 < j => i < j + i
      BY <1>1
    <2>4. \A j, k \in Nat : j < k => j + i < k + i
      BY <1>1
    <2> QED
      BY <2>1, <2>2, <2>3, <2>4
  <1>3. /\ \A j \in DOMAIN w : Append(w, p)[j] = w[j]
        /\ \A j \in DOMAIN Append(w, p) :
             j \in DOMAIN w \/ (Append(w, p)[j] = p /\ \A k \in DOMAIN Append(w, p) : ~(j < k))
    BY Lengths
  <1>4. b <= p.n /\ p.n < c
    BY DEF Ordered
  <1>5. \A j \in DOMAIN r : p.n < r[j].epoch
    BY <1>2 DEF Ordered
  <1>6. \A j \in DOMAIN w : w[j].kind = "cleared" => w[j].n < p.n
    BY DEF Ordered
  <1> HIDE DEF r
  <1>7. \A j \in DOMAIN r : /\ b <= r[j].epoch /\ r[j].epoch <= c
                            /\ r[j].kind = "clear" => r[j].epoch < c
    BY <1>2 DEF Ordered
  <1>8. \A j, k \in DOMAIN r : j < k /\ r[j].kind = "clear" => r[j].epoch < r[k].epoch
    BY <1>2 DEF Ordered
  <1>9. \A j \in DOMAIN Append(w, p) : Append(w, p)[j].kind = "cleared" =>
           /\ b <= Append(w, p)[j].n /\ Append(w, p)[j].n < c
           /\ \A k \in DOMAIN r : Append(w, p)[j].n < r[k].epoch
    BY <1>2, <1>3, <1>4, <1>5 DEF Ordered
  <1>10. \A j, k \in DOMAIN Append(w, p) :
            j < k /\ Append(w, p)[j].kind = "cleared" /\ Append(w, p)[k].kind = "cleared"
            => Append(w, p)[j].n < Append(w, p)[k].n
    BY <1>3, <1>6 DEF Ordered
  <1>11. Ordered(b, r, Append(w, p), c)
    BY <1>4, <1>7, <1>8, <1>9, <1>10 DEF Ordered
  <1> QED
    BY <1>11 DEF r

-----------------------------------------------------------------------------
(* The types, part by part.                                                 *)

PlatformTypes ==
    /\ wire \in Seq(Packets) /\ line \in Seq(Line) /\ sock \in {"open", "gone", "closed"}
    /\ talked \in Numbers /\ told \in Seq(Packets)
AdapterTypes ==
    /\ opened \in BOOLEAN /\ finished \in BOOLEAN /\ startSet \in BOOLEAN /\ ack \in BOOLEAN
    /\ receiver \in {"reading", "holding", "over"} /\ held \in Packets
    /\ audio \in Seq(Packets) /\ Len(audio) <= QueueMax
    /\ events \in Seq(Packets) /\ Len(events) <= QueueMax
TaskTypes ==
    /\ session \in {"waiting", "starting", "running", "stopping", "failed", "over"}
    /\ stop \in [Stoppers -> {"no", "sending", "ending", "done"}]
LoopTypes ==
    /\ audioLoop \in {"off", "on", "over"} /\ playLoop \in {"off", "on", "hanging", "over"}
    /\ routed \in Numbers /\ stt \in Seq(Packets) /\ Len(stt) <= SttMax /\ seen \in Seq(Packets)
SenderTypes ==
    /\ output \in {"off", "idle", "sending", "over"} /\ left \in 0..Chunks
    /\ sends \in 0..MaxSends /\ clear \in {"idle", "waiting", "over"}
    /\ clears \in 0..MaxClears /\ acked \in 0..MaxClears

LEMMA Parts ==
  ASSUME TypeOK
  PROVE  PlatformTypes /\ AdapterTypes /\ TaskTypes /\ LoopTypes /\ SenderTypes
  BY DEF TypeOK, PlatformTypes, AdapterTypes, TaskTypes, LoopTypes, SenderTypes

LEMMA Together ==
  ASSUME PlatformTypes', AdapterTypes', TaskTypes', LoopTypes', SenderTypes'
  PROVE  TypeOK'
  BY DEF TypeOK, PlatformTypes, AdapterTypes, TaskTypes, LoopTypes, SenderTypes

LEMMA Kept ==
  ASSUME TypeOK
  PROVE  /\ UNCHANGED platform => PlatformTypes'
         /\ UNCHANGED adapter => AdapterTypes'
         /\ UNCHANGED tasks => TaskTypes'
         /\ UNCHANGED loops => LoopTypes'
         /\ UNCHANGED senders => SenderTypes'
  <1>1. UNCHANGED platform => PlatformTypes'
    BY Parts DEF platform, PlatformTypes
  <1>2. UNCHANGED adapter => AdapterTypes'
    BY Parts DEF adapter, AdapterTypes
  <1>3. UNCHANGED tasks => TaskTypes'
    BY Parts DEF tasks, TaskTypes
  <1>4. UNCHANGED loops => LoopTypes'
    BY Parts DEF loops, LoopTypes
  <1>5. UNCHANGED senders => SenderTypes'
    BY Parts DEF senders, SenderTypes
  <1> QED
    BY <1>1, <1>2, <1>3, <1>4, <1>5

LEMMA PacketOK ==
  ASSUME NEW k \in {"start", "media", "played", "cleared", "stop", "error"}, NEW n \in Numbers
  PROVE  Packet(k, n) \in Packets /\ Packet(k, n).kind = k /\ Packet(k, n).n = n /\ Packet(k, n) # End
  BY DEF Packet, Packets, End

\* The numbers the packets of the two sides carry.
LEMMA SmallOK ==
  /\ 0 \in Numbers /\ 1 \in Numbers /\ 2 \in Numbers
  /\ \A n \in 0..MaxSends : n + 1 \in Numbers
  /\ \A n \in 0..MaxClears : n \in Numbers
  /\ \A n \in 1..MaxFrames : n \in Numbers /\ n + 1 \in Numbers
  BY VobizAssumption DEF Numbers

-----------------------------------------------------------------------------
(* Every step keeps the types.                                              *)

LEMMA InitOK == Init => IInv
  <1> SUFFICES ASSUME Init PROVE IInv
    OBVIOUS
  <1>1. TypeOK
    <2>1. /\ Nothing \in Packets /\ 0 \in Numbers
          /\ <<>> \in Seq(Packets) /\ <<>> \in Seq(Line) /\ Len(<<>>) = 0
      BY EndOK, SmallOK
    <2>2. 0 \in 0..MaxClears /\ 0 \in 0..MaxSends /\ 0 \in 0..Chunks /\ 0 <= QueueMax /\ 0 <= SttMax
      BY VobizAssumption
    <2>3. PlatformTypes
      BY <2>1 DEF Init, PlatformTypes
    <2>4. AdapterTypes
      BY <2>1, <2>2 DEF Init, AdapterTypes
    <2>5. TaskTypes
      BY DEF Init, TaskTypes
    <2>6. LoopTypes
      BY <2>1, <2>2 DEF Init, LoopTypes
    <2>7. SenderTypes
      BY <2>2 DEF Init, SenderTypes
    <2> QED
      BY <2>3, <2>4, <2>5, <2>6, <2>7
         DEF TypeOK, PlatformTypes, AdapterTypes, TaskTypes, LoopTypes, SenderTypes
  <1>2. Counted
    BY VobizAssumption DEF Init, Counted, Ordered, Due
  <1> QED
    BY <1>1, <1>2 DEF Init, IInv, EndReachesReaders, UnderWay

\* What the receiver and stop() do to the adapter.
LEMMA AdapterFinish ==
  ASSUME TypeOK, EndReachesReaders, Finish, opened' \in BOOLEAN, held' \in Packets,
         receiver' \in {"reading", "holding", "over"}
  PROVE  AdapterTypes'
  <1>1. finished' \in BOOLEAN /\ startSet' \in BOOLEAN /\ ack' \in BOOLEAN
    BY FinishOK
  <1>2. /\ audio' \in Seq(Packets) /\ Len(audio') <= QueueMax
        /\ events' \in Seq(Packets) /\ Len(events') <= QueueMax
    BY FinishOK
  <1> QED
    BY <1>1, <1>2 DEF AdapterTypes

LEMMA PutsOK ==
  ASSUME TypeOK, NEW p \in Packets, PutAudio(p) \/ PutEvent(p)
  PROVE  /\ receiver' \in {"reading", "holding", "over"} /\ held' \in Packets
         /\ audio' \in Seq(Packets) /\ Len(audio') <= QueueMax
         /\ events' \in Seq(Packets) /\ Len(events') <= QueueMax
         /\ \A e : Has(audio, e) => Has(audio', e)
         /\ \A e : Has(events, e) => Has(events', e)
  <1>1. /\ held \in Packets /\ QueueMax \in Nat
        /\ audio \in Seq(Packets) /\ Len(audio) <= QueueMax
        /\ events \in Seq(Packets) /\ Len(events) <= QueueMax
    BY VobizAssumption DEF TypeOK
  <1>2. CASE PutAudio(p)
    <2>1. CASE Len(audio) < QueueMax
      <3>1. audio' = Append(audio, p) /\ events' = events /\ held' = held /\ ReadOn
        BY <1>2, <2>1 DEF PutAudio
      <3>2. receiver' \in {"reading", "holding", "over"}
        BY <3>1 DEF ReadOn
      <3>3. /\ Append(audio, p) \in Seq(Packets) /\ Len(Append(audio, p)) = Len(audio) + 1
            /\ Len(audio) \in Nat /\ \A e : Has(audio, e) => Has(Append(audio, p), e)
        BY <1>1, AppendOK
      <3> QED
        BY <1>1, <2>1, <3>1, <3>2, <3>3
    <2>2. CASE ~(Len(audio) < QueueMax)
      BY <1>1, <1>2, <2>2 DEF PutAudio
    <2> QED
      BY <2>1, <2>2
  <1>3. CASE PutEvent(p)
    <2>1. CASE Len(events) < QueueMax
      <3>1. events' = Append(events, p) /\ audio' = audio /\ held' = held /\ ReadOn
        BY <1>3, <2>1 DEF PutEvent
      <3>2. receiver' \in {"reading", "holding", "over"}
        BY <3>1 DEF ReadOn
      <3>3. /\ Append(events, p) \in Seq(Packets) /\ Len(Append(events, p)) = Len(events) + 1
            /\ Len(events) \in Nat /\ \A e : Has(events, e) => Has(Append(events, p), e)
        BY <1>1, AppendOK
      <3> QED
        BY <1>1, <2>1, <3>1, <3>2, <3>3
    <2>2. CASE ~(Len(events) < QueueMax)
      BY <1>1, <1>3, <2>2 DEF PutEvent
    <2> QED
      BY <2>1, <2>2
  <1> QED
    BY <1>2, <1>3

LEMMA PutHeldOK ==
  ASSUME TypeOK, PutHeld
  PROVE  /\ receiver' \in {"reading", "holding", "over"} /\ held' \in Packets
         /\ audio' \in Seq(Packets) /\ Len(audio') <= QueueMax
         /\ events' \in Seq(Packets) /\ Len(events') <= QueueMax
         /\ \A e : Has(audio, e) => Has(audio', e)
         /\ \A e : Has(events, e) => Has(events', e)
  <1>1. /\ held \in Packets /\ QueueMax \in Nat
        /\ audio \in Seq(Packets) /\ Len(audio) <= QueueMax
        /\ events \in Seq(Packets) /\ Len(events) <= QueueMax
    BY VobizAssumption DEF TypeOK
  <1>2. held' \in Packets /\ receiver' \in {"reading", "holding", "over"}
    BY EndOK DEF PutHeld, ReadOn
  <1>3. CASE held.kind = "media"
    <2>1. Len(audio) < QueueMax /\ audio' = Append(audio, held) /\ events' = events
      BY <1>3 DEF PutHeld
    <2>2. /\ Append(audio, held) \in Seq(Packets) /\ Len(Append(audio, held)) = Len(audio) + 1
          /\ Len(audio) \in Nat /\ \A e : Has(audio, e) => Has(Append(audio, held), e)
      BY <1>1, AppendOK
    <2> QED
      BY <1>1, <1>2, <2>1, <2>2
  <1>4. CASE held.kind # "media"
    <2>1. Len(events) < QueueMax /\ events' = Append(events, held) /\ audio' = audio
      BY <1>4 DEF PutHeld
    <2>2. /\ Append(events, held) \in Seq(Packets) /\ Len(Append(events, held)) = Len(events) + 1
          /\ Len(events) \in Nat /\ \A e : Has(events, e) => Has(Append(events, held), e)
      BY <1>1, AppendOK
    <2> QED
      BY <1>1, <1>2, <2>1, <2>2
  <1> QED
    BY <1>3, <1>4

\* One packet: what happens by its kind.
LEMMA ReceiveCases ==
  ASSUME TypeOK, Receive
  PROVE  /\ wire \in Seq(Packets) /\ wire # <<>> /\ wire' = Tail(wire) /\ Head(wire) \in Packets
         /\ UNCHANGED <<line, sock, talked, told, tasks, loops, senders>>
         /\ \/ HandleStart(Head(wire))
            \/ /\ PutAudio(Head(wire)) \/ PutEvent(Head(wire))
               /\ Head(wire).kind # "cleared" /\ UNCHANGED <<opened, finished, startSet, ack>>
            \/ /\ PutEvent(Head(wire)) /\ Head(wire).kind = "cleared" /\ ack' = TRUE
               /\ UNCHANGED <<opened, finished, startSet>>
            \/ Ended(Head(wire))
  <1>1. wire \in Seq(Packets) /\ wire # <<>>
    BY DEF Receive, TypeOK
  <1>2. Head(wire) \in Packets
    BY <1>1, QueueOK
  <1>3. wire' = Tail(wire) /\ UNCHANGED <<line, sock, talked, told, tasks, loops, senders>>
    BY DEF Receive
  <1> DEFINE p == Head(wire)
  <1>4. CASE p.kind = "start"
    BY <1>1, <1>2, <1>3, <1>4 DEF Receive
  <1>5. CASE p.kind = "media"
    BY <1>1, <1>2, <1>3, <1>5 DEF Receive
  <1>6. CASE p.kind = "played"
    BY <1>1, <1>2, <1>3, <1>6 DEF Receive
  <1>7. CASE p.kind = "cleared"
    BY <1>1, <1>2, <1>3, <1>7 DEF Receive
  <1>8. CASE p.kind \notin {"start", "media", "played", "cleared"}
    BY <1>1, <1>2, <1>3, <1>8 DEF Receive
  <1> QED
    BY <1>4, <1>5, <1>6, <1>7, <1>8

\* Send puts at most one entry on the line.
LEMMA SendOK ==
  ASSUME TypeOK, NEW k \in {"chunk", "mark", "clear"}, Send(k)
  PROVE  line' \in Seq(Line)
  <1>1. sends + 1 \in Numbers /\ clears \in Numbers
    BY SmallOK DEF TypeOK
  <1>2. [kind |-> k, n |-> sends + 1, epoch |-> clears] \in Line
    BY <1>1 DEF Line
  <1>3. line \in Seq(Line)
    BY DEF TypeOK
  <1>4. Append(line, [kind |-> k, n |-> sends + 1, epoch |-> clears]) \in Seq(Line)
    BY <1>2, <1>3
  <1> QED
    BY <1>3, <1>4 DEF Send

LEMMA StopOK ==
  ASSUME TypeOK, NEW s \in Stoppers, Stop(s)
  PROVE  stop' \in [Stoppers -> {"no", "sending", "ending", "done"}]
  BY DEF TypeOK, Stop

LEMMA ReceiverTypes ==
  ASSUME IInv, Receiver
  PROVE  TypeOK'
  <1> USE DEF IInv
  <1>1. CASE Receive
    <2>0. PICK p \in Packets : p = Head(wire)
      BY <1>1, ReceiveCases
    <2>1. /\ wire \in Seq(Packets) /\ wire # <<>> /\ wire' = Tail(wire)
          /\ UNCHANGED <<line, sock, talked, told, tasks, loops, senders>>
      BY <1>1, ReceiveCases
    <2>2. \/ HandleStart(p)
          \/ (PutAudio(p) \/ PutEvent(p)) /\ UNCHANGED <<opened, finished, startSet, ack>>
          \/ PutEvent(p) /\ ack' = TRUE /\ UNCHANGED <<opened, finished, startSet>>
          \/ Ended(p)
      BY <1>1, <2>0, ReceiveCases
    <2>3. PlatformTypes'
      <3>1. wire' \in Seq(Packets)
        BY <2>1, QueueOK
      <3> QED
        BY <2>1, <3>1, Parts DEF PlatformTypes
    <2>4. TaskTypes' /\ LoopTypes' /\ SenderTypes'
      BY <2>1, Kept
    <2>5. AdapterTypes /\ held \in Packets /\ opened \in BOOLEAN /\ finished \in BOOLEAN
      BY Parts DEF AdapterTypes
    <2> SUFFICES AdapterTypes'
      BY <2>3, <2>4, Together
    <2>6. CASE HandleStart(p)
      <3>1. opened' \in BOOLEAN
        BY <2>6 DEF HandleStart
      <3>2. CASE Finish /\ receiver' = "over" /\ UNCHANGED held
        <4>1. held' \in Packets /\ receiver' \in {"reading", "holding", "over"}
          BY <2>5, <3>2
        <4> QED
          BY <3>1, <3>2, <4>1, AdapterFinish
      <3>3. CASE startSet' = TRUE /\ UNCHANGED <<finished, ack, audio, events, receiver, held>>
        BY <2>5, <3>1, <3>3 DEF AdapterTypes
      <3> QED
        BY <2>6, <3>2, <3>3 DEF HandleStart
    <2>7. CASE (PutAudio(p) \/ PutEvent(p)) /\ UNCHANGED <<opened, finished, startSet, ack>>
      <3>1. /\ receiver' \in {"reading", "holding", "over"} /\ held' \in Packets
            /\ audio' \in Seq(Packets) /\ Len(audio') <= QueueMax
            /\ events' \in Seq(Packets) /\ Len(events') <= QueueMax
        BY <2>1, <2>7, PutsOK
      <3> QED
        BY <2>5, <2>7, <3>1 DEF AdapterTypes
    <2>8. CASE PutEvent(p) /\ ack' = TRUE /\ UNCHANGED <<opened, finished, startSet>>
      <3>1. /\ receiver' \in {"reading", "holding", "over"} /\ held' \in Packets
            /\ audio' \in Seq(Packets) /\ Len(audio') <= QueueMax
            /\ events' \in Seq(Packets) /\ Len(events') <= QueueMax
        BY <2>1, <2>8, PutsOK
      <3> QED
        BY <2>5, <2>8, <3>1 DEF AdapterTypes
    <2>9. CASE Ended(p)
      <3>1. /\ Finish /\ opened' \in BOOLEAN /\ held' \in Packets
            /\ receiver' \in {"reading", "holding", "over"}
        BY <2>5, <2>9 DEF Ended
      <3> QED
        BY <3>1, AdapterFinish
    <2> QED
      BY <2>2, <2>6, <2>7, <2>8, <2>9
  <1>2. CASE PutHeld
    <2>1. UNCHANGED <<platform, opened, finished, startSet, ack, tasks, loops, senders>>
      BY <1>2 DEF PutHeld
    <2>2. AdapterTypes'
      BY <1>2, <2>1, Parts, PutHeldOK DEF AdapterTypes
    <2> QED
      BY <2>1, <2>2, Kept, Together
  <1> QED
    BY <1>1, <1>2 DEF Receiver

LEMMA SessionTypes ==
  ASSUME IInv, Session \/ Stops \/ HungUp \/ HangupOver
  PROVE  TypeOK'
  <1>0. TypeOK /\ EndReachesReaders /\ TaskTypes /\ PlatformTypes /\ LoopTypes /\ SenderTypes
    BY Parts DEF IInv
  <1>1. CASE StartSeen \/ StartTimeout \/ ShutDown \/ HungUp
    <2>1. UNCHANGED platform /\ UNCHANGED adapter /\ UNCHANGED loops /\ UNCHANGED senders
      BY <1>1 DEF StartSeen, StartTimeout, ShutDown, HungUp
    <2>2. session' \in {"waiting", "starting", "running", "stopping", "failed", "over"}
      BY <1>0, <1>1 DEF StartSeen, StartTimeout, ShutDown, HungUp, TaskTypes
    <2>3. stop' = stop \/ \E s \in Stoppers : Stop(s)
      BY <1>1 DEF StartSeen, StartTimeout, ShutDown, HungUp, Stoppers
    <2>4. TaskTypes'
      BY <1>0, <2>2, <2>3, StopOK DEF TaskTypes
    <2> QED
      BY <1>0, <2>1, <2>4, Kept, Together
  <1>2. CASE LoopsStart
    <2>1. PlatformTypes' /\ AdapterTypes'
      BY <1>0, <1>2, Kept DEF LoopsStart
    <2>2. TaskTypes'
      BY <1>0, <1>2 DEF LoopsStart, TaskTypes
    <2>3. LoopTypes'
      BY <1>0, <1>2 DEF LoopsStart, LoopTypes
    <2>4. SenderTypes'
      BY <1>0, <1>2 DEF LoopsStart, SenderTypes
    <2> QED
      BY <2>1, <2>2, <2>3, <2>4, Together
  <1>3. CASE StartFails
    <2>1. AdapterTypes' /\ LoopTypes' /\ SenderTypes'
      BY <1>0, <1>3, Kept DEF StartFails
    <2>2. TaskTypes'
      BY <1>0, <1>3 DEF StartFails, TaskTypes
    <2>3. Packet("error", 0) \in Packets
      BY PacketOK, SmallOK
    <2>4. wire' \in Seq(Packets)
      BY <1>0, <1>3, <2>3, AppendOK DEF StartFails, PlatformTypes
    <2>5. PlatformTypes'
      BY <1>0, <1>3, <2>4 DEF StartFails, PlatformTypes
    <2> QED
      BY <2>1, <2>2, <2>5, Together
  <1>4. ASSUME NEW s \in Stoppers, StopSent(s)
        PROVE  TypeOK'
    <2>1. UNCHANGED platform /\ UNCHANGED adapter /\ UNCHANGED loops /\ UNCHANGED senders
      BY <1>4 DEF StopSent
    <2>2. TaskTypes'
      BY <1>0, <1>4 DEF StopSent, TaskTypes
    <2> QED
      BY <1>0, <2>1, <2>2, Kept, Together
  <1>5. ASSUME NEW s \in Stoppers, StopReturns(s)
        PROVE  TypeOK'
    <2>1. PlatformTypes'
      BY <1>0, <1>5 DEF StopReturns, PlatformTypes
    <2>2. AdapterTypes'
      <3>1. Finish /\ opened' \in BOOLEAN /\ held' \in Packets /\ receiver' = "over"
        BY <1>0, <1>5, EndOK DEF StopReturns, CancelReceiver, TypeOK
      <3> QED
        BY <1>0, <3>1, AdapterFinish
    <2>3. TaskTypes'
      BY <1>0, <1>5 DEF StopReturns, TaskTypes
    <2>4. LoopTypes'
      BY <1>0, <1>5 DEF StopReturns, LoopTypes
    <2>5. SenderTypes'
      BY <1>0, <1>5 DEF StopReturns, SenderTypes
    <2> QED
      BY <2>1, <2>2, <2>3, <2>4, <2>5, Together
  <1>6. CASE HangupOver
    <2>1. PlatformTypes' /\ AdapterTypes' /\ SenderTypes'
      BY <1>0, <1>6, Kept DEF HangupOver
    <2>2. TaskTypes'
      <3>1. stop' = stop \/ \E s \in Stoppers : Stop(s)
        BY <1>6 DEF HangupOver, tasks, Stoppers
      <3>2. session' \in {"waiting", "starting", "running", "stopping", "failed", "over"}
        BY <1>0, <1>6 DEF HangupOver, tasks, TaskTypes
      <3> QED
        BY <1>0, <3>1, <3>2, StopOK DEF TaskTypes
    <2>3. LoopTypes'
      BY <1>0, <1>6 DEF HangupOver, LoopTypes
    <2> QED
      BY <2>1, <2>2, <2>3, Together
  <1> QED
    BY <1>1, <1>2, <1>3, <1>4, <1>5, <1>6 DEF Session, Stops

LEMMA LoopSteps ==
  ASSUME IInv, RouteFrame \/ TakeFrame \/ TakeEvent
  PROVE  TypeOK'
  <1>0. TypeOK /\ AdapterTypes /\ LoopTypes /\ SttMax \in Nat /\ SttMax >= 1
    BY Parts, VobizAssumption DEF IInv
  <1>1. CASE RouteFrame
    <2>1. PlatformTypes' /\ TaskTypes' /\ SenderTypes'
      BY <1>0, <1>1, Kept DEF RouteFrame
    <2>2. /\ audio \in Seq(Packets) /\ audio # <<>> /\ audio' = Tail(audio)
          /\ Len(audio) <= QueueMax
      BY <1>0, <1>1 DEF RouteFrame, AdapterTypes
    <2>3. PICK p \in Packets : p = Head(audio)
      BY <2>2, QueueOK
    <2>4. /\ audio' \in Seq(Packets) /\ Len(audio') = Len(audio) - 1 /\ Len(audio) \in Nat
      BY <2>2, QueueOK
    <2>5. AdapterTypes'
      BY <1>0, <1>1, <2>2, <2>4, VobizAssumption DEF RouteFrame, AdapterTypes
    <2>6. stt' \in Seq(Packets) /\ Len(stt') <= SttMax
      <3>0. stt \in Seq(Packets) /\ Len(stt) \in Nat /\ Len(stt) <= SttMax
        BY <1>0 DEF LoopTypes
      <3>1. CASE Len(stt) < SttMax
        <4>1. stt' = Append(stt, p)
          BY <1>1, <2>3, <3>1 DEF RouteFrame, PutStt
        <4>2. Append(stt, p) \in Seq(Packets) /\ Len(Append(stt, p)) = Len(stt) + 1
          BY <3>0, AppendOK
        <4> QED
          BY <1>0, <3>0, <3>1, <4>1, <4>2
      <3>2. CASE ~(Len(stt) < SttMax)
        <4>1. stt' = Append(Tail(stt), p)
          BY <1>1, <2>3, <3>2 DEF RouteFrame, PutStt
        <4>2. stt # <<>> /\ Len(stt) = SttMax
          BY <1>0, <3>0, <3>2
        <4>3. Tail(stt) \in Seq(Packets) /\ Len(Tail(stt)) = Len(stt) - 1
          BY <3>0, <4>2, QueueOK
        <4>4. Append(Tail(stt), p) \in Seq(Packets) /\ Len(Append(Tail(stt), p)) = Len(Tail(stt)) + 1
          BY <4>3, AppendOK
        <4> QED
          BY <1>0, <3>0, <4>1, <4>2, <4>3, <4>4
      <3> QED
        BY <3>1, <3>2
    <2>7. routed' \in Numbers /\ audioLoop' \in {"off", "on", "over"} /\ UNCHANGED <<playLoop, seen>>
      <3>1. p.n \in Numbers
        BY DEF Packets
      <3> QED
        BY <1>0, <1>1, <2>3, <3>1 DEF RouteFrame, LoopTypes
    <2>8. LoopTypes'
      BY <1>0, <2>6, <2>7 DEF LoopTypes
    <2> QED
      BY <2>1, <2>5, <2>8, Together
  <1>2. CASE TakeFrame
    <2>1. PlatformTypes' /\ AdapterTypes' /\ TaskTypes' /\ SenderTypes'
      BY <1>0, <1>2, Kept DEF TakeFrame
    <2>2. stt \in Seq(Packets) /\ stt # <<>> /\ stt' = Tail(stt) /\ Len(stt) <= SttMax
      BY <1>0, <1>2 DEF TakeFrame, LoopTypes
    <2>3. stt' \in Seq(Packets) /\ Len(stt') = Len(stt) - 1 /\ Len(stt) \in Nat
      BY <2>2, QueueOK
    <2>4. Len(stt') <= SttMax
      BY <1>0, <2>2, <2>3
    <2>5. LoopTypes'
      BY <1>0, <1>2, <2>3, <2>4 DEF TakeFrame, LoopTypes
    <2> QED
      BY <2>1, <2>5, Together
  <1>3. CASE TakeEvent
    <2>1. PlatformTypes' /\ TaskTypes' /\ SenderTypes'
      BY <1>0, <1>3, Kept DEF TakeEvent
    <2>2. events \in Seq(Packets) /\ events # <<>> /\ events' = Tail(events) /\ Len(events) <= QueueMax
      BY <1>0, <1>3 DEF TakeEvent, AdapterTypes
    <2>3. events' \in Seq(Packets) /\ Len(events') = Len(events) - 1 /\ Len(events) \in Nat
      BY <2>2, QueueOK
    <2>4. Len(events') <= QueueMax
      BY <2>2, <2>3, VobizAssumption
    <2>5. AdapterTypes'
      BY <1>0, <1>3, <2>3, <2>4 DEF TakeEvent, AdapterTypes
    <2>6. seen' = seen \/ seen' = Append(seen, Head(events))
      BY <1>3 DEF TakeEvent
    <2>7. seen' \in Seq(Packets)
      <3>1. seen \in Seq(Packets) /\ Head(events) \in Packets
        BY <1>0, <2>2, QueueOK DEF LoopTypes
      <3> QED
        BY <2>6, <3>1, AppendOK
    <2>8. LoopTypes'
      BY <1>0, <1>3, <2>7 DEF TakeEvent, LoopTypes
    <2> QED
      BY <2>1, <2>5, <2>8, Together
  <1> QED
    BY <1>1, <1>2, <1>3

LEMMA SenderSteps ==
  ASSUME IInv, Output \/ Clear
  PROVE  TypeOK'
  <1>0. /\ TypeOK /\ EndReachesReaders /\ PlatformTypes /\ AdapterTypes /\ SenderTypes
        /\ MaxSends \in Nat /\ MaxClears \in Nat /\ Chunks \in Nat \ {0}
    BY Parts, VobizAssumption DEF IInv
  <1>1. CASE SendStarts
    <2>1. PlatformTypes' /\ AdapterTypes' /\ TaskTypes' /\ LoopTypes'
      BY <1>0, <1>1, Kept DEF SendStarts
    <2>2. SenderTypes'
      BY <1>0, <1>1 DEF SendStarts, SenderTypes
    <2> QED
      BY <2>1, <2>2, Together
  <1>2. CASE SendChunk
    <2>1. AdapterTypes' /\ TaskTypes' /\ LoopTypes'
      BY <1>0, <1>2, Kept DEF SendChunk
    <2>2. SenderTypes'
      BY <1>0, <1>2 DEF SendChunk, SenderTypes, IInv, UnderWay
    <2>3. line' \in Seq(Line)
      <3>1. line' = line \/ Send("chunk")
        BY <1>2 DEF SendChunk
      <3> QED
        BY <1>0, <3>1, SendOK DEF PlatformTypes
    <2>4. PlatformTypes'
      BY <1>0, <1>2, <2>3 DEF SendChunk, PlatformTypes
    <2> QED
      BY <2>1, <2>2, <2>4, Together
  <1>3. CASE SendCheckpoint
    <2>1. AdapterTypes' /\ TaskTypes' /\ LoopTypes'
      BY <1>0, <1>3, Kept DEF SendCheckpoint
    <2>2. SenderTypes'
      BY <1>0, <1>3 DEF SendCheckpoint, SenderTypes
    <2>3. line' \in Seq(Line)
      BY <1>0, <1>3, SendOK DEF SendCheckpoint
    <2>4. PlatformTypes'
      BY <1>0, <1>3, <2>3 DEF SendCheckpoint, PlatformTypes
    <2> QED
      BY <2>1, <2>2, <2>4, Together
  <1>4. CASE SendFails
    <2>1. PlatformTypes' /\ TaskTypes' /\ LoopTypes'
      BY <1>0, <1>4, Kept DEF SendFails
    <2>2. SenderTypes'
      BY <1>0, <1>4 DEF SendFails, SenderTypes
    <2>3. AdapterTypes'
      <3>1. /\ opened' \in BOOLEAN /\ held' \in Packets /\ UNCHANGED <<opened, receiver, held>>
            /\ receiver' \in {"reading", "holding", "over"}
        BY <1>0, <1>4 DEF SendFails, AdapterTypes
      <3>2. CASE Finish
        BY <1>0, <3>1, <3>2, AdapterFinish
      <3>3. CASE UNCHANGED <<finished, startSet, ack, audio, events>>
        BY <1>0, <3>1, <3>3 DEF AdapterTypes
      <3> QED
        BY <1>4, <3>2, <3>3 DEF SendFails
    <2> QED
      BY <2>1, <2>2, <2>3, Together
  <1>5. CASE ClearStarts
    <2>1. TaskTypes' /\ LoopTypes'
      BY <1>0, <1>5, Kept DEF ClearStarts
    <2>2. SenderTypes'
      BY <1>0, <1>5 DEF ClearStarts, SenderTypes
    <2>3. AdapterTypes'
      BY <1>0, <1>5 DEF ClearStarts, ForgetAck, AdapterTypes
    <2>4. line' \in Seq(Line)
      BY <1>0, <1>5, SendOK DEF ClearStarts
    <2>5. PlatformTypes'
      BY <1>0, <1>5, <2>4 DEF ClearStarts, PlatformTypes
    <2> QED
      BY <2>1, <2>2, <2>3, <2>5, Together
  <1>6. CASE ClearReturns
    <2>1. PlatformTypes' /\ AdapterTypes' /\ TaskTypes' /\ LoopTypes'
      BY <1>0, <1>6, Kept DEF ClearReturns
    <2>2. ~finished => acked + 1 <= clears
      BY <1>6 DEF ClearReturns, IInv, Counted, Ordered, Due
    <2>3. acked' \in 0..MaxClears
      <3>1. acked \in 0..MaxClears /\ clears \in 0..MaxClears
        BY <1>0 DEF SenderTypes
      <3>2. acked' = IF finished THEN acked ELSE acked + 1
        BY <1>6 DEF ClearReturns
      <3> QED
        BY <1>0, <2>2, <3>1, <3>2
    <2>4. SenderTypes'
      BY <1>0, <1>6, <2>3 DEF ClearReturns, SenderTypes
    <2> QED
      BY <2>1, <2>4, Together
  <1>7. CASE ClearTimeout
    <2>1. PlatformTypes' /\ AdapterTypes' /\ TaskTypes' /\ LoopTypes'
      BY <1>0, <1>7, Kept DEF ClearTimeout
    <2>2. SenderTypes'
      BY <1>0, <1>7 DEF ClearTimeout, SenderTypes
    <2> QED
      BY <2>1, <2>2, Together
  <1> QED
    BY <1>1, <1>2, <1>3, <1>4, <1>5, <1>6, <1>7 DEF Output, Clear

\* What the platform's side says.
LEMMA TellOK ==
  ASSUME TypeOK, NEW p \in Packets, Tell(p)
  PROVE  wire' \in Seq(Packets)
  <1>1. wire \in Seq(Packets)
    BY DEF TypeOK
  <1> QED
    BY <1>1, AppendOK DEF Tell

LEMMA PlatformSteps ==
  ASSUME IInv, Platform
  PROVE  TypeOK'
  <1>0. TypeOK /\ PlatformTypes
    BY Parts DEF IInv
  <1>1. AdapterTypes' /\ TaskTypes' /\ LoopTypes' /\ SenderTypes'
    BY <1>0, Kept DEF Platform, Connect, Talk, PlayNext, CarryOutClear, HangUp
  <1> SUFFICES PlatformTypes'
    BY <1>1, Together
  <1>2. CASE Connect
    <2>1. PICK n \in 0..2 : Tell(Packet("start", n))
      BY <1>2 DEF Connect
    <2>2. n \in Numbers
      BY SmallOK
    <2>3. wire' \in Seq(Packets)
      BY <1>0, <2>1, <2>2, PacketOK, TellOK
    <2> QED
      BY <1>0, <1>2, <2>3, SmallOK DEF Connect, PlatformTypes
  <1>3. CASE Talk
    <2>1. talked \in Numbers /\ talked + 1 \in Numbers
      BY <1>3, SmallOK DEF Talk
    <2>2. wire' \in Seq(Packets)
      BY <1>0, <1>3, <2>1, PacketOK, TellOK DEF Talk
    <2> QED
      BY <1>0, <1>3, <2>1, <2>2 DEF Talk, PlatformTypes
  <1>4. CASE PlayNext
    <2>1. line \in Seq(Line) /\ line # <<>> /\ line' = Tail(line)
      BY <1>0, <1>4 DEF PlayNext, PlatformTypes
    <2>2. Head(line) \in Line /\ Tail(line) \in Seq(Line)
      BY <2>1
    <2>3. PICK e \in Packets : e = Packet("played", Head(line).n)
      <3>1. Head(line).n \in Numbers
        BY <2>2 DEF Line
      <3> QED
        BY <3>1, PacketOK
    <2>4. (Tell(e) /\ told' = Append(told, e)) \/ UNCHANGED <<wire, told>>
      BY <1>4, <2>3 DEF PlayNext
    <2>5. wire' \in Seq(Packets) /\ told' \in Seq(Packets)
      <3>1. told \in Seq(Packets) /\ wire \in Seq(Packets)
        BY <1>0 DEF PlatformTypes
      <3>2. CASE Tell(e) /\ told' = Append(told, e)
        <4>1. wire' \in Seq(Packets)
          BY <1>0, <3>2, TellOK
        <4>2. Append(told, e) \in Seq(Packets)
          BY <3>1, AppendOK
        <4> QED
          BY <3>2, <4>1, <4>2
      <3>3. CASE UNCHANGED <<wire, told>>
        BY <3>1, <3>3
      <3> QED
        BY <2>4, <3>2, <3>3
    <2> QED
      BY <1>0, <1>4, <2>1, <2>2, <2>5 DEF PlayNext, PlatformTypes
  <1>5. CASE CarryOutClear
    <2>1. line \in Seq(Line) /\ told \in Seq(Packets)
      BY <1>0 DEF PlatformTypes
    <2>2. PICK i \in DOMAIN line :
            /\ line' = SubSeq(line, i + 1, Len(line))
            /\ Tell(Packet("cleared", line[i].epoch))
            /\ told' = Append(told, Packet("cleared", line[i].epoch))
      BY <1>5 DEF CarryOutClear
    <2>3. PICK e \in Packets : e = Packet("cleared", line[i].epoch)
      <3>1. line[i] \in Line
        BY <2>1, Element
      <3>2. line[i].epoch \in Numbers
        BY <3>1 DEF Line
      <3> QED
        BY <3>2, PacketOK
    <2>4. wire' \in Seq(Packets) /\ told' \in Seq(Packets)
      BY <1>0, <2>1, <2>2, <2>3, AppendOK, TellOK
    <2>5. line' \in Seq(Line)
      BY <2>1, <2>2, Rest
    <2> QED
      BY <1>0, <1>5, <2>4, <2>5 DEF CarryOutClear, PlatformTypes
  <1>6. CASE HangUp
    <2>1. wire \in Seq(Packets) /\ Packet("stop", 0) \in Packets /\ Packet("error", 0) \in Packets
      BY <1>0, PacketOK, SmallOK DEF PlatformTypes
    <2>2. Append(wire, Packet("error", 0)) \in Seq(Packets)
      BY <2>1, AppendOK
    <2>3. wire \o <<Packet("stop", 0), Packet("error", 0)>> \in Seq(Packets)
      BY <2>1
    <2>4. wire' \in Seq(Packets)
      BY <1>6, <2>2, <2>3 DEF HangUp
    <2> QED
      BY <1>0, <1>6, <2>4 DEF HangUp, PlatformTypes
  <1> QED
    BY <1>2, <1>3, <1>4, <1>5, <1>6 DEF Platform

LEMMA TypeStep ==
  ASSUME IInv, [Next]_vars
  PROVE  TypeOK'
  <1>1. CASE Next
    BY <1>1, ReceiverTypes, SessionTypes, LoopSteps, SenderSteps, PlatformSteps DEF Next
  <1>2. CASE UNCHANGED vars
    BY <1>2, Kept, Together DEF vars, IInv
  <1> QED
    BY <1>1, <1>2

-----------------------------------------------------------------------------
(* Every step keeps the rest.                                               *)

LEMMA UnderWayStep ==
  ASSUME IInv, [Next]_vars
  PROVE  UnderWay'
  <1>0. UnderWay /\ Chunks \in Nat \ {0} /\ left \in 0..Chunks
    BY VobizAssumption DEF IInv, TypeOK
  <1>1. (output' = "sending" => left' > 0)
    <2>1. CASE SendStarts
      BY <1>0, <2>1 DEF SendStarts, UnderWay
    <2>2. CASE SendChunk
      <3>1. CASE finished
        BY <2>2, <3>1 DEF SendChunk
      <3>2. CASE ~finished
        BY <1>0, <2>2, <3>2 DEF SendChunk, UnderWay
      <3> QED
        BY <3>1, <3>2
    <2>3. CASE LoopsStart
      BY <2>3 DEF LoopsStart
    <2>4. ASSUME NEW s \in Stoppers, StopReturns(s)
          PROVE  output' = "sending" => left' > 0
      BY <1>0, <2>4 DEF StopReturns, UnderWay
    <2>5. CASE SendFails
      BY <1>0, <2>5 DEF SendFails, UnderWay
    <2>6. CASE UNCHANGED <<output, left>>
      BY <1>0, <2>6 DEF UnderWay
    <2> QED
      BY <2>1, <2>2, <2>3, <2>4, <2>5, <2>6
         DEF Next, vars, senders, Receiver, Receive, PutHeld, Session, StartSeen, StartTimeout,
             StartFails, ShutDown, Stops, StopSent, RouteFrame, TakeFrame, TakeEvent, HungUp,
             HangupOver, Output, SendCheckpoint, Clear, ClearStarts, ClearReturns, ClearTimeout,
             Platform, Connect, Talk, PlayNext, CarryOutClear, HangUp
  <1>2. session' \in {"waiting", "starting"} => audioLoop' = "off" /\ playLoop' = "off"
    <2>1. CASE UNCHANGED <<session, audioLoop, playLoop>>
      BY <1>0, <2>1 DEF UnderWay
    <2>2. CASE StartSeen
      BY <1>0, <2>2 DEF StartSeen, UnderWay, loops
    <2>3. CASE StartTimeout \/ ShutDown \/ StartFails \/ LoopsStart
      BY <2>3 DEF StartTimeout, ShutDown, StartFails, LoopsStart
    <2>4. ASSUME NEW s \in Stoppers, StopReturns(s)
          PROVE  session' \in {"waiting", "starting"} => audioLoop' = "off" /\ playLoop' = "off"
      BY <1>0, <2>4 DEF StopReturns, UnderWay
    <2>5. CASE RouteFrame \/ TakeEvent \/ HangupOver
      <3>1. ~(audioLoop = "off" /\ playLoop = "off")
        BY <2>5 DEF RouteFrame, TakeEvent, HangupOver
      <3>2. session' = session \/ session' = "stopping"
        BY <2>5 DEF RouteFrame, TakeEvent, HangupOver, tasks
      <3> QED
        BY <1>0, <3>1, <3>2 DEF UnderWay
    <2> QED
      BY <2>1, <2>2, <2>3, <2>4, <2>5
         DEF Next, vars, tasks, loops, Receiver, Receive, PutHeld, Session, Stops, StopSent,
             TakeFrame, HungUp, Output, SendStarts, SendChunk, SendCheckpoint, SendFails,
             Clear, ClearStarts, ClearReturns, ClearTimeout,
             Platform, Connect, Talk, PlayNext, CarryOutClear, HangUp
  <1> QED
    BY <1>1, <1>2 DEF UnderWay

\* The end of the stream stays in a queue until its reader has had it: nothing
\* but the reader takes from a queue once the stream is finished.
LEMMA EndStep ==
  ASSUME IInv, [Next]_vars
  PROVE  EndReachesReaders'
  <1>0. TypeOK /\ EndReachesReaders /\ UnderWay
    BY DEF IInv
  <1>1. ASSUME Finish, UNCHANGED <<audioLoop, playLoop>>
        PROVE  EndReachesReaders'
    <2>1. /\ Has(audio', End) \/ audioLoop = "over"
          /\ Has(events', End) \/ playLoop \in {"hanging", "over"}
      BY <1>0, <1>1, FinishOK
    <2>2. Has(audio, End)' = Has(audio', End) /\ Has(events, End)' = Has(events', End)
      BY DEF Has, End
    <2> QED
      BY <1>1, <2>1, <2>2 DEF EndReachesReaders
  <1>2. ASSUME UNCHANGED <<finished, audioLoop, playLoop>>,
               \A e : Has(audio, e) => Has(audio', e), \A e : Has(events, e) => Has(events', e)
        PROVE  EndReachesReaders'
    <2>1. finished => /\ Has(audio', End) \/ audioLoop = "over"
                      /\ Has(events', End) \/ playLoop \in {"hanging", "over"}
      BY <1>0, <1>2 DEF EndReachesReaders
    <2>2. Has(audio, End)' = Has(audio', End) /\ Has(events, End)' = Has(events', End)
      BY DEF Has, End
    <2> QED
      BY <1>2, <2>1, <2>2 DEF EndReachesReaders
  <1>3. ASSUME UNCHANGED <<finished, audio, events, audioLoop, playLoop>>
        PROVE  EndReachesReaders'
    BY <1>0, <1>3 DEF EndReachesReaders, Has, End
  <1>4. CASE Receive
    <2>0. PICK p \in Packets : p = Head(wire)
      BY <1>0, <1>4, ReceiveCases
    <2>1. /\ UNCHANGED <<audioLoop, playLoop>>
          /\ \/ HandleStart(p)
             \/ (PutAudio(p) \/ PutEvent(p)) /\ UNCHANGED finished
             \/ Ended(p)
      BY <1>0, <1>4, <2>0, ReceiveCases DEF loops
    <2>2. CASE (PutAudio(p) \/ PutEvent(p)) /\ UNCHANGED finished
      <3>1. /\ \A e : Has(audio, e) => Has(audio', e)
            /\ \A e : Has(events, e) => Has(events', e)
        BY <1>0, <2>2, PutsOK
      <3> QED
        BY <1>2, <2>1, <2>2, <3>1
    <2> QED
      BY <1>1, <1>3, <2>1, <2>2 DEF HandleStart, Ended
  <1>5. CASE PutHeld
    <2>1. UNCHANGED <<finished, audioLoop, playLoop>>
      BY <1>5 DEF PutHeld, loops
    <2>2. /\ \A e : Has(audio, e) => Has(audio', e)
          /\ \A e : Has(events, e) => Has(events', e)
      BY <1>0, <1>5, PutHeldOK
    <2> QED
      BY <1>2, <2>1, <2>2
  <1>6. CASE LoopsStart
    <2>1. /\ finished => Has(audio, End) /\ Has(events, End)
          /\ UNCHANGED <<finished, audio, events>>
      BY <1>0, <1>6 DEF LoopsStart, UnderWay, EndReachesReaders, adapter
    <2> QED
      BY <2>1 DEF EndReachesReaders, Has, End
  <1>7. ASSUME NEW s \in Stoppers, StopReturns(s)
        PROVE  EndReachesReaders'
    <2>1. Finish /\ (UNCHANGED <<audioLoop, playLoop>> \/ (audioLoop' = "over" /\ playLoop' = "over"))
      BY <1>7 DEF StopReturns
    <2> QED
      BY <1>1, <2>1 DEF EndReachesReaders
  <1>8. CASE RouteFrame
    <2>1. audio \in Seq(Packets) /\ audio # <<>> /\ audio' = Tail(audio) /\ audioLoop = "on"
      BY <1>0, <1>8 DEF RouteFrame, TypeOK
    <2>2. Has(audio, End) => Head(audio) = End \/ Has(audio', End)
      BY <2>1, QueueOK
    <2>3. /\ Head(audio) = End => audioLoop' = "over"
          /\ UNCHANGED <<finished, events, playLoop>>
      BY <1>8 DEF RouteFrame
    <2>4. Has(audio, End)' = Has(audio', End) /\ Has(events, End)' = Has(events, End)
      BY <2>3 DEF Has, End
    <2> QED
      BY <1>0, <2>1, <2>2, <2>3, <2>4 DEF EndReachesReaders
  <1>9. CASE TakeEvent
    <2>1. events \in Seq(Packets) /\ events # <<>> /\ events' = Tail(events) /\ playLoop = "on"
      BY <1>0, <1>9 DEF TakeEvent, TypeOK
    <2>2. Has(events, End) => Head(events) = End \/ Has(events', End)
      BY <2>1, QueueOK
    <2>3. Head(events) = End => playLoop' = "over"
      BY <1>9, EndOK DEF TakeEvent
    <2>4. UNCHANGED <<finished, audio, audioLoop>> /\ playLoop' \in {"on", "hanging", "over"}
      BY <1>9, <2>1 DEF TakeEvent
    <2>5. Has(audio, End)' = Has(audio, End) /\ Has(events, End)' = Has(events', End)
      BY <2>4 DEF Has, End
    <2> QED
      BY <1>0, <2>1, <2>2, <2>3, <2>4, <2>5 DEF EndReachesReaders
  <1>10. CASE HangupOver
    BY <1>0, <1>10 DEF HangupOver, adapter, EndReachesReaders, Has, End
  <1>11. CASE SendFails
    BY <1>1, <1>3, <1>11 DEF SendFails, loops
  <1> QED
    BY <1>3, <1>4, <1>5, <1>6, <1>7, <1>8, <1>9, <1>10, <1>11
       DEF Next, vars, adapter, loops, Receiver, Session, StartSeen, StartTimeout,
           StartFails, ShutDown, Stops, StopSent, TakeFrame, HungUp, Output, SendStarts,
           SendChunk, SendCheckpoint, Clear, ClearStarts, ClearReturns, ClearTimeout,
           Platform, Connect, Talk, PlayNext, CarryOutClear, HangUp

LEMMA CountedStep ==
  ASSUME IInv, [Next]_vars
  PROVE  Counted'
  <1>0. /\ TypeOK /\ Counted /\ line \in Seq(Line) /\ wire \in Seq(Packets)
        /\ acked \in Nat /\ clears \in Nat
    BY VobizAssumption DEF IInv, TypeOK
  <1>1. \A x, y \in Nat : x + y \in Nat
    OBVIOUS
  <1>2. Due \in Nat /\ Due' \in Nat /\ Due' <= 1
    BY DEF Due
  <1> PICK b \in Nat : b = acked + Due
    BY <1>0, <1>1, <1>2
  <1>3. Ordered(b, line, wire, clears)
    BY <1>0 DEF Counted
  \* It is enough that the order holds for as many acknowledgements or more.
  <1>4. ASSUME NEW a \in Nat, acked' + Due' <= a, acked' \in Nat,
               NEW l \in Seq(Line), NEW w \in Seq(Packets), NEW c \in Nat,
               line' = l, wire' = w, clears' = c, Ordered(a, l, w, c)
        PROVE  Counted'
    <2> PICK d \in Nat : d = acked' + Due'
      BY <1>1, <1>2, <1>4
    <2>1. Ordered(d, l, w, c)
      BY <1>4, Lower
    <2> QED
      BY <1>4, <2>1 DEF Counted
  <1>5. ASSUME UNCHANGED <<acked, ack, clear, finished>>
        PROVE  acked' + Due' <= b /\ acked' \in Nat
    <2>1. Due' = Due
      BY <1>5 DEF Due
    <2> QED
      BY <1>0, <1>5, <2>1
  <1>6. ASSUME UNCHANGED acked, Due' = 0
        PROVE  acked' + Due' <= b /\ acked' \in Nat
    BY <1>0, <1>2, <1>6
  <1>7. CASE Receive
    <2>1. /\ wire # <<>> /\ wire' = Tail(wire) /\ Tail(wire) \in Seq(Packets)
          /\ UNCHANGED <<line, clears, acked, clear>>
      BY <1>0, <1>7, ReceiveCases, QueueOK DEF senders
    <2>2. PICK p \in Packets : p = Head(wire)
      BY <1>0, <2>1, QueueOK
    <2>3. \/ HandleStart(p)
          \/ UNCHANGED <<ack, finished>>
          \/ p.kind = "cleared" /\ ack' = TRUE /\ UNCHANGED finished
          \/ Ended(p)
      BY <1>0, <1>7, <2>2, ReceiveCases
    <2>4. ASSUME acked' + Due' <= b PROVE Counted'
      <3>1. Ordered(b, line, Tail(wire), clears)
        BY <1>0, <1>3, <2>1, Cut
      <3> QED
        BY <1>0, <1>4, <2>1, <2>4, <3>1
    <2>5. CASE UNCHANGED <<ack, finished>>
      BY <1>5, <2>1, <2>4, <2>5
    <2>6. CASE HandleStart(p) \/ Ended(p)
      <3>1. Due' = 0 \/ UNCHANGED <<ack, finished>>
        BY <2>6 DEF HandleStart, Ended, Finish, Due
      <3> QED
        BY <1>5, <1>6, <2>1, <2>4, <3>1
    <2>7. CASE p.kind = "cleared" /\ ack' = TRUE /\ UNCHANGED finished
      <3>1. Ordered(b + 1, line, Tail(wire), clears)
        BY <1>0, <1>3, <2>1, <2>2, <2>7, Acknowledged
      <3>2. \A x, y, z \in Nat : z <= 1 => x + z <= (x + y) + 1
        OBVIOUS
      <3>3. acked + Due' <= b + 1
        BY <1>0, <1>2, <3>2, Zenon
      <3>4. acked' + Due' <= b + 1 /\ acked' \in Nat /\ b + 1 \in Nat
        BY <1>0, <2>1, <3>3
      <3> QED
        BY <1>0, <1>4, <2>1, <3>1, <3>4
    <2> QED
      BY <2>3, <2>5, <2>6, <2>7
  <1>8. CASE SendChunk \/ SendCheckpoint
    <2>1. UNCHANGED <<wire, clears, acked, ack, clear, finished>>
      BY <1>8 DEF SendChunk, SendCheckpoint, adapter
    <2>2. acked' + Due' <= b /\ acked' \in Nat
      BY <1>5, <2>1
    <2>3. line' = line \/ Send("chunk") \/ Send("mark")
      BY <1>8 DEF SendChunk, SendCheckpoint
    <2>4. CASE line' = line
      BY <1>0, <1>3, <1>4, <2>1, <2>2, <2>4
    <2>5. ASSUME NEW k \in {"chunk", "mark"}, Send(k), line' # line PROVE Counted'
      <3>1. PICK e \in Line : e.epoch = clears /\ e.kind = k /\ line' = Append(line, e)
        <4>1. sends + 1 \in Numbers /\ clears \in Numbers
          BY <1>0, SmallOK DEF TypeOK
        <4> QED
          BY <2>5, <4>1 DEF Send, Line
      <3>2. Ordered(b, Append(line, e), wire, clears) /\ Append(line, e) \in Seq(Line)
        BY <1>0, <1>3, <3>1, Sent
      <3> QED
        BY <1>0, <1>4, <2>1, <2>2, <3>1, <3>2
    <2> QED
      BY <2>3, <2>4, <2>5
  <1>9. CASE ClearStarts
    <2>1. UNCHANGED <<wire, acked>> /\ clears' = clears + 1 /\ Due' = 0 /\ clears + 1 \in Nat
      BY <1>0, <1>9 DEF ClearStarts, ForgetAck, Due
    <2>2. acked' + Due' <= b /\ acked' \in Nat
      BY <1>6, <2>1
    <2>3. CASE line' = line
      <3>1. b <= b
        OBVIOUS
      <3>2. Ordered(b, line, wire, clears + 1)
        BY <1>0, <1>3, <3>1, Lower
      <3> QED
        BY <1>0, <1>4, <2>1, <2>2, <2>3, <3>2
    <2>4. CASE line' # line
      <3>1. PICK e \in Line : e.epoch = clears /\ line' = Append(line, e)
        <4>1. sends + 1 \in Numbers /\ clears \in Numbers
          BY <1>0, SmallOK DEF TypeOK
        <4> QED
          BY <1>9, <2>4, <4>1 DEF ClearStarts, Send, Line
      <3>2. Ordered(b, Append(line, e), wire, clears + 1) /\ Append(line, e) \in Seq(Line)
        BY <1>0, <1>3, <3>1, Sent
      <3> QED
        BY <1>0, <1>4, <2>1, <2>2, <3>1, <3>2
    <2> QED
      BY <2>3, <2>4
  <1>10. CASE ClearReturns
    <2>1. UNCHANGED <<line, wire, clears>> /\ Due' = 0
      BY <1>10 DEF ClearReturns, platform, Due
    <2>2. acked' = acked + Due
      BY <1>0, <1>10 DEF ClearReturns, Due
    <2>3. acked' + Due' <= b /\ acked' \in Nat
      BY <1>0, <1>1, <1>2, <2>1, <2>2
    <2> QED
      BY <1>0, <1>3, <1>4, <2>1, <2>3
  <1>11. CASE ClearTimeout \/ SendFails
    <2>1. UNCHANGED <<line, wire, clears, acked>> /\ (Due' = 0 \/ UNCHANGED <<ack, clear, finished>>)
      BY <1>11 DEF ClearTimeout, SendFails, Finish, platform, Due
    <2>2. acked' + Due' <= b /\ acked' \in Nat
      BY <1>5, <1>6, <2>1
    <2> QED
      BY <1>0, <1>3, <1>4, <2>1, <2>2
  <1>12. ASSUME NEW s \in Stoppers, StopReturns(s) PROVE Counted'
    <2>1. line' = <<>> /\ wire' = <<>> /\ UNCHANGED <<clears, acked>> /\ Due' = 0
      BY <1>12 DEF StopReturns, Finish, Due
    <2>2. acked' + Due' <= b /\ acked' \in Nat
      BY <1>6, <2>1
    <2>3. Ordered(b, <<>>, <<>>, clears) /\ <<>> \in Seq(Line) /\ <<>> \in Seq(Packets)
      BY <1>0, <1>3, Cut
    <2> QED
      BY <1>0, <1>4, <2>1, <2>2, <2>3
  \* The rest leaves the acknowledgements alone.
  <1>13. ASSUME UNCHANGED <<ack, finished, clears, acked, clear>>,
                NEW l \in Seq(Line), NEW w \in Seq(Packets), line' = l, wire' = w,
                Ordered(b, l, w, clears)
         PROVE  Counted'
    BY <1>0, <1>4, <1>5, <1>13
  <1>14. CASE StartFails \/ HangUp
    <2>1. UNCHANGED <<ack, finished, clears, acked, clear>> /\ line' = <<>> /\ <<>> \in Seq(Line)
      BY <1>14 DEF StartFails, HangUp, adapter, senders
    <2>2. Ordered(b, <<>>, wire, clears)
      BY <1>0, <1>3, Cut
    <2>3. PICK stopped, broken \in Packets :
            /\ stopped = Packet("stop", 0) /\ broken = Packet("error", 0)
            /\ stopped.kind # "cleared" /\ broken.kind # "cleared"
      BY PacketOK, SmallOK
    <2>4. /\ Append(wire, stopped) \in Seq(Packets) /\ Append(wire, broken) \in Seq(Packets)
          /\ Append(Append(wire, stopped), broken) \in Seq(Packets)
          /\ wire \o <<stopped, broken>> = Append(Append(wire, stopped), broken)
      BY <1>0
    <2>5. wire' = Append(wire, broken) \/ wire' = Append(Append(wire, stopped), broken)
      BY <1>14, <2>3, <2>4 DEF StartFails, HangUp
    <2>6. /\ Ordered(b, <<>>, Append(wire, broken), clears)
          /\ Ordered(b, <<>>, Append(Append(wire, stopped), broken), clears)
      BY <1>0, <2>1, <2>2, <2>3, <2>4, Told
    <2> QED
      BY <1>13, <2>1, <2>4, <2>5, <2>6
  <1>15. CASE Connect \/ Talk
    <2>1. UNCHANGED <<line, ack, finished, clears, acked, clear>>
      BY <1>15 DEF Connect, Talk, adapter, senders
    <2>2. PICK p \in Packets : p.kind # "cleared" /\ wire' = Append(wire, p)
      <3>1. PICK k \in {"start", "media"}, n \in Numbers : Tell(Packet(k, n))
        BY <1>15, SmallOK DEF Connect, Talk
      <3> QED
        BY <3>1, PacketOK DEF Tell
    <2>3. Ordered(b, line, Append(wire, p), clears) /\ Append(wire, p) \in Seq(Packets)
      BY <1>0, <1>3, <2>2, Told
    <2> QED
      BY <1>0, <1>13, <2>1, <2>2, <2>3
  <1>16. CASE PlayNext
    <2>1. /\ UNCHANGED <<ack, finished, clears, acked, clear>>
          /\ line # <<>> /\ line' = Tail(line) /\ Tail(line) \in Seq(Line) /\ Head(line) \in Line
      BY <1>0, <1>16 DEF PlayNext, adapter, senders
    <2>2. Ordered(b, Tail(line), wire, clears)
      BY <1>0, <1>3, <2>1, Cut
    <2>3. PICK e \in Packets : e = Packet("played", Head(line).n) /\ e.kind # "cleared"
      <3>1. Head(line).n \in Numbers
        BY <2>1 DEF Line
      <3> QED
        BY <3>1, PacketOK
    <2>4. wire' = wire \/ wire' = Append(wire, e)
      BY <1>16, <2>3 DEF PlayNext, Tell
    <2>5. Ordered(b, Tail(line), Append(wire, e), clears) /\ Append(wire, e) \in Seq(Packets)
      <3>1. Append(wire, e) \in Seq(Packets)
        BY <1>0
      <3>2. Ordered(b, Tail(line), Append(wire, e), clears)
        BY <1>0, <2>1, <2>2, <2>3, Told
      <3> QED
        BY <3>1, <3>2
    <2>6. CASE wire' = wire
      BY <1>0, <1>13, <2>1, <2>2, <2>6
    <2>7. CASE wire' = Append(wire, e)
      BY <1>13, <2>1, <2>5, <2>7
    <2> QED
      BY <2>4, <2>6, <2>7
  <1>17. CASE CarryOutClear
    <2>1. UNCHANGED <<ack, finished, clears, acked, clear>>
      BY <1>17 DEF CarryOutClear, adapter, senders
    <2>2. PICK i \in DOMAIN line :
            /\ line[i].kind = "clear" /\ line' = SubSeq(line, i + 1, Len(line))
            /\ Tell(Packet("cleared", line[i].epoch))
      BY <1>17 DEF CarryOutClear
    <2>3. PICK p \in Packets : p = Packet("cleared", line[i].epoch) /\ p.n = line[i].epoch
      <3>1. line[i] \in Line
        BY <1>0, Element
      <3>2. line[i].epoch \in Numbers
        BY <3>1 DEF Line
      <3> QED
        BY <3>2, PacketOK
    <2>4. wire' = Append(wire, p) /\ Append(wire, p) \in Seq(Packets)
      BY <1>0, <2>2, <2>3 DEF Tell
    <2>5. Ordered(b, SubSeq(line, i + 1, Len(line)), Append(wire, p), clears)
      BY <1>0, <1>3, <2>2, <2>3, CarriedOut
    <2>6. SubSeq(line, i + 1, Len(line)) \in Seq(Line)
      BY <1>0, Rest
    <2> QED
      BY <1>13, <2>1, <2>2, <2>4, <2>5, <2>6
  <1>18. CASE UNCHANGED <<line, wire, ack, finished, clears, acked, clear>>
    BY <1>0, <1>3, <1>13, <1>18
  <1> QED
    BY <1>7, <1>8, <1>9, <1>10, <1>11, <1>12, <1>14, <1>15, <1>16, <1>17, <1>18
       DEF Next, vars, platform, adapter, senders, Receiver, PutHeld, Session, StartSeen,
           StartTimeout, LoopsStart, ShutDown, Stops, StopSent, RouteFrame, TakeFrame, TakeEvent,
           HungUp, HangupOver, Output, SendStarts, Clear, Platform

-----------------------------------------------------------------------------
(* The theorems.                                                            *)

LEMMA StepOK == IInv /\ [Next]_vars => IInv'
  BY TypeStep, EndStep, UnderWayStep, CountedStep DEF IInv

LEMMA Inductive == Spec => []IInv
  BY InitOK, StepOK, PTL DEF Spec

\* The types hold, and no queue ever has more than its places (_put_terminal,
\* the bounded queues of the adapter and put_packet).
THEOREM TypesHold == Spec => []TypeOK
  <1>1. IInv => TypeOK
    BY DEF IInv
  <1> QED
    BY <1>1, Inductive, PTL

\* Once the stream is finished, its end marker is in each queue until the
\* reader of that queue has had it (_finish_stream, the two loops).
THEOREM EndReachesHolds == Spec => []EndReachesReaders
  <1>1. IInv => EndReachesReaders
    BY DEF IInv
  <1> QED
    BY <1>1, Inductive, PTL

\* An acknowledgement serves one clear: what the platform still has to play was
\* sent after as many clears as have returned (clear_playback).
THEOREM AckHolds == Spec => []AckServesOneClear
  <1>1. ASSUME IInv PROVE AckServesOneClear
    <2>1. Ordered(acked + Due, line, wire, clears) /\ acked \in Nat /\ Due \in Nat
          /\ line \in Seq(Line) /\ wire \in Seq(Packets)
      BY <1>1, VobizAssumption DEF IInv, Counted, TypeOK, Due
    <2>2. ASSUME NEW i \in DOMAIN line PROVE line[i].epoch >= acked
      <3>1. line[i].epoch \in Nat /\ acked + Due <= line[i].epoch
        BY <2>1, Values DEF Ordered
      <3>2. PICK n \in Nat : n = line[i].epoch
        BY <3>1
      <3> QED
        BY <2>1, <3>1, <3>2
    <2> QED
      BY <2>2 DEF AckServesOneClear
  <1> QED
    BY <1>1, Inductive, PTL

-----------------------------------------------------------------------------
(* Media and Events.  OfKind is a recursive function: what holds of it is   *)
(* proved from the least length at which it would not hold.                 *)

LEMMA Least ==
  ASSUME NEW T, T \subseteq Nat, T # {}
  PROVE  \E m \in T : \A n \in T : m <= n
  <1> DEFINE R == {ss \in Nat \X Nat : ss[1] < ss[2]}
  <1>1. R = OpToRel(<, Nat)
    BY DEF OpToRel
  <1>2. IsWellFoundedOn(R, Nat)
    BY <1>1, NatLessThanWellFounded
  <1> HIDE DEF R
  <1>3. PICK x \in T : \A y \in T : ~(<<y, x>> \in R)
    BY <1>2, WFMin
  <1>4. \A y \in T : ~(y < x)
    BY <1>3 DEF R
  <1> QED
    BY <1>3, <1>4

\* What OfKind goes through, up to the k-th packet.
Kept1(q, K, s, n) == IF q[n].kind \in K THEN Append(s, q[n]) ELSE s
Unfolds(g, q, K, k) == g = [n \in 0..k |-> IF n = 0 THEN <<>> ELSE Kept1(q, K, g[n - 1], n)]

LEMMA UnfoldsExists == ASSUME NEW q, NEW K, NEW k \in Nat PROVE \E g : Unfolds(g, q, K, k)
  <1> DEFINE T == {j \in Nat : ~\E g : Unfolds(g, q, K, j)}
  <1> SUFFICES ASSUME T # {} PROVE FALSE
    OBVIOUS
  <1>1. PICK m \in T : \A j \in T : m <= j
    <2> HIDE DEF T
    <2>1. T \subseteq Nat
      BY DEF T
    <2> QED
      BY <2>1, Least
  <1>2. m # 0
    <2> DEFINE g == [n \in 0..0 |-> <<>>]
    <2>1. Unfolds(g, q, K, 0)
      BY DEF Unfolds
    <2> QED
      BY <2>1
  <1>3. m \in Nat /\ m - 1 \in Nat /\ m - 1 \notin T
    BY <1>1, <1>2
  <1>4. PICK g : Unfolds(g, q, K, m - 1)
    BY <1>3
  <1> DEFINE h == [n \in 0..m |-> IF n = m THEN Kept1(q, K, g[m - 1], m) ELSE g[n]]
  <1>5. Unfolds(h, q, K, m)
    <2>1. \A n \in 0..m : h[n] = IF n = 0 THEN <<>> ELSE Kept1(q, K, h[n - 1], n)
      <3> TAKE n \in 0..m
      <3>1. CASE n = m
        <4>1. h[n] = Kept1(q, K, g[m - 1], m) /\ h[n - 1] = g[m - 1]
          BY <1>2, <1>3, <3>1
        <4> QED
          BY <1>2, <3>1, <4>1
      <3>2. CASE n # m
        <4>1. n \in 0..(m - 1) /\ h[n] = g[n] /\ (n # 0 => n - 1 \in 0..m /\ n - 1 # m /\ h[n - 1] = g[n - 1])
          BY <1>3, <3>2
        <4>2. g[n] = IF n = 0 THEN <<>> ELSE Kept1(q, K, g[n - 1], n)
          BY <1>4, <4>1 DEF Unfolds
        <4> QED
          BY <4>1, <4>2
      <3> QED
        BY <3>1, <3>2
    <2> DEFINE z == [n \in 0..m |-> IF n = 0 THEN <<>> ELSE Kept1(q, K, h[n - 1], n)]
    <2>2. DOMAIN h = 0..m /\ h = [n \in 0..m |-> h[n]]
      OBVIOUS
    <2> HIDE DEF h
    <2>3. h = z
      BY <2>1, <2>2
    <2> QED
      BY <2>3 DEF Unfolds
  <1> QED
    BY <1>1, <1>5

\* It is the same for another sequence with the same beginning.
LEMMA UnfoldsSame ==
  ASSUME NEW q, NEW r, NEW K, NEW k \in Nat, NEW l \in Nat, k <= l, \A i \in 1..k : q[i] = r[i],
         NEW g, Unfolds(g, q, K, k), NEW h, Unfolds(h, r, K, l)
  PROVE  g[k] = h[k]
  <1> DEFINE T == {j \in 0..k : g[j] # h[j]}
  <1> SUFFICES ASSUME T # {} PROVE FALSE
    BY DEF T
  <1>1. PICK m \in T : \A j \in T : m <= j
    <2>1. T \subseteq Nat
      BY DEF T
    <2> HIDE DEF T
    <2> QED
      BY <2>1, Least
  <1>2. m \in 0..k /\ m \in 0..l /\ g[m] # h[m]
    BY <1>1
  <1>3. /\ g[m] = IF m = 0 THEN <<>> ELSE Kept1(q, K, g[m - 1], m)
        /\ h[m] = IF m = 0 THEN <<>> ELSE Kept1(r, K, h[m - 1], m)
    BY <1>2 DEF Unfolds
  <1>4. m # 0
    BY <1>2, <1>3
  <1>5. m - 1 \in 0..k /\ m - 1 \notin T /\ q[m] = r[m]
    BY <1>1, <1>2, <1>4
  <1>6. g[m - 1] = h[m - 1]
    BY <1>5
  <1> QED
    BY <1>2, <1>3, <1>4, <1>5, <1>6 DEF Kept1

LEMMA OfKindIs ==
  ASSUME NEW q, NEW K, Len(q) \in Nat
  PROVE  \E g : Unfolds(g, q, K, Len(q)) /\ OfKind(q, K) = g[Len(q)]
  <1> DEFINE f == CHOOSE g : Unfolds(g, q, K, Len(q))
  <1>1. Unfolds(f, q, K, Len(q))
    BY UnfoldsExists
  <1>2. OfKind(q, K) = f[Len(q)]
    BY DEF OfKind, Unfolds, Kept1
  <1> QED
    BY <1>1, <1>2

LEMMA OfKindEmpty == ASSUME NEW K PROVE OfKind(<<>>, K) = <<>>
  <1>1. Len(<<>>) = 0
    OBVIOUS
  <1>2. PICK g : Unfolds(g, <<>>, K, 0) /\ OfKind(<<>>, K) = g[0]
    BY <1>1, OfKindIs
  <1> QED
    BY <1>2 DEF Unfolds

LEMMA OfKindAppend ==
  ASSUME NEW q \in Seq(Packets), NEW e \in Packets, NEW K
  PROVE  OfKind(Append(q, e), K) = IF e.kind \in K THEN Append(OfKind(q, K), e) ELSE OfKind(q, K)
  <1> DEFINE r == Append(q, e)
             k == Len(q)
  <1>1. k \in Nat /\ Len(r) = k + 1 /\ r[k + 1] = e /\ \A i \in 1..k : q[i] = r[i]
    BY AppendOK
  <1> HIDE DEF r, k
  <1>2. PICK g : Unfolds(g, q, K, k) /\ OfKind(q, K) = g[k]
    BY <1>1, OfKindIs DEF k
  <1>3. PICK h : Unfolds(h, r, K, k + 1) /\ OfKind(r, K) = h[k + 1]
    BY <1>1, OfKindIs
  <1>4. g[k] = h[k]
    BY <1>1, <1>2, <1>3, UnfoldsSame
  <1>5. h[k + 1] = Kept1(r, K, h[k], k + 1)
    BY <1>1, <1>3 DEF Unfolds
  <1> QED
    BY <1>1, <1>2, <1>3, <1>4, <1>5 DEF Kept1, r

LEMMA OfKindOne ==
  ASSUME NEW e \in Packets, NEW K PROVE OfKind(<<e>>, K) = IF e.kind \in K THEN <<e>> ELSE <<>>
  <1>1. <<>> \in Seq(Packets) /\ Append(<<>>, e) = <<e>>
    OBVIOUS
  <1>2. OfKind(<<>>, K) = <<>>
    BY OfKindEmpty
  <1> DEFINE z == <<>>
  <1>3. OfKind(Append(z, e), K) = IF e.kind \in K THEN Append(OfKind(z, K), e) ELSE OfKind(z, K)
    <2>1. z \in Seq(Packets)
      BY <1>1
    <2> HIDE DEF z
    <2> QED
      BY <2>1, OfKindAppend
  <1> QED
    BY <1>1, <1>2, <1>3, Zenon

\* The last entry of a sequence, and what is before it.
LEMMA LastOff ==
  ASSUME NEW S, NEW q \in Seq(S), q # <<>>
  PROVE  \E c \in Seq(S), e \in S : q = Append(c, e) /\ Len(c) = Len(q) - 1 /\ Len(q) - 1 \in Nat
  <1> DEFINE k == Len(q)
             c == SubSeq(q, 1, k - 1)
             e == q[k]
  <1>1. k \in Nat /\ k # 0 /\ DOMAIN q = 1..k
    BY EmptySeq, LenProperties
  <1>2. k \in DOMAIN q /\ k - 1 \in Nat
    BY <1>1
  <1>3. e \in S
    BY <1>2
  <1>4. c \in Seq(S) /\ Len(c) = k - 1 /\ \A i \in 1..(k - 1) : c[i] = q[i]
    BY <1>1, <1>2
  <1> HIDE DEF c, e, k
  <1>5. /\ Append(c, e) \in Seq(S) /\ Len(Append(c, e)) = k
        /\ Append(c, e)[k] = e /\ \A i \in 1..(k - 1) : Append(c, e)[i] = c[i]
    BY <1>2, <1>3, <1>4
  <1>6. \A i \in 1..k : Append(c, e)[i] = q[i]
    BY <1>2, <1>4, <1>5 DEF e
  <1>7. q = Append(c, e)
    BY <1>1, <1>5, <1>6, SeqEqual DEF k
  <1> QED
    BY <1>2, <1>3, <1>4, <1>7 DEF k

LEMMA ConcatAppend ==
  ASSUME NEW S, NEW a \in Seq(S), NEW c \in Seq(S), NEW e \in S
  PROVE  a \o Append(c, e) = Append(a \o c, e) /\ a \o c \in Seq(S)
  OBVIOUS

LEMMA OfKindType ==
  ASSUME NEW q \in Seq(Packets), NEW K PROVE OfKind(q, K) \in Seq(Packets)
  <1> DEFINE T == {j \in Nat : \E r \in Seq(Packets) : Len(r) = j /\ OfKind(r, K) \notin Seq(Packets)}
  <1> SUFFICES ASSUME T # {} PROVE FALSE
    <2>1. Len(q) \in Nat
      OBVIOUS
    <2> QED
      BY <2>1
  <1>1. PICK m \in T : \A j \in T : m <= j
    <2>1. T \subseteq Nat
      BY DEF T
    <2> HIDE DEF T
    <2> QED
      BY <2>1, Least
  <1>2. PICK r \in Seq(Packets) : Len(r) = m /\ OfKind(r, K) \notin Seq(Packets)
    BY <1>1
  <1>3. r # <<>>
    BY <1>2, OfKindEmpty
  <1>4. PICK c \in Seq(Packets), e \in Packets : r = Append(c, e) /\ Len(c) = m - 1 /\ m - 1 \in Nat
    <2> DEFINE P == Packets
    <2>1. r \in Seq(P) /\ Len(r) = m
      BY <1>2
    <2> HIDE DEF P
    <2>2. \E c \in Seq(P), e \in P : r = Append(c, e) /\ Len(c) = Len(r) - 1 /\ Len(r) - 1 \in Nat
      BY <1>3, <2>1, LastOff, Zenon
    <2>3. \E c \in Seq(P), e \in P : r = Append(c, e) /\ Len(c) = m - 1 /\ m - 1 \in Nat
      BY <2>1, <2>2, Zenon
    <2> QED
      BY <2>3 DEF P
  <1>5. m - 1 \notin T
    BY <1>1, <1>4
  <1>6. OfKind(c, K) \in Seq(Packets)
    BY <1>4, <1>5
  <1>7. OfKind(r, K) \in Seq(Packets)
    <2>1. OfKind(Append(c, e), K) = IF e.kind \in K THEN Append(OfKind(c, K), e) ELSE OfKind(c, K)
      BY <1>4, OfKindAppend, Zenon
    <2>2. Append(OfKind(c, K), e) \in Seq(Packets)
      BY <1>4, <1>6
    <2> QED
      BY <1>4, <1>6, <2>1, <2>2
  <1> QED
    BY <1>2, <1>7

\* It is taken of two sequences apart.
LEMMA OfKindConcat ==
  ASSUME NEW a \in Seq(Packets), NEW b \in Seq(Packets), NEW K
  PROVE  OfKind(a \o b, K) = OfKind(a, K) \o OfKind(b, K)
  <1> DEFINE Fails(r) == OfKind(a \o r, K) # OfKind(a, K) \o OfKind(r, K)
             T == {j \in Nat : \E r \in Seq(Packets) : Len(r) = j /\ Fails(r)}
  <1> SUFFICES ASSUME T # {} PROVE FALSE
    <2>1. Len(b) \in Nat
      OBVIOUS
    <2> QED
      BY <2>1
  <1>1. PICK m \in T : \A j \in T : m <= j
    <2>1. T \subseteq Nat
      BY DEF T
    <2> HIDE DEF T
    <2> QED
      BY <2>1, Least
  <1>2. PICK r \in Seq(Packets) : Len(r) = m /\ Fails(r)
    BY <1>1
  <1>0. OfKind(a, K) \in Seq(Packets)
    BY OfKindType
  <1>3. r # <<>>
    <2>1. a \o <<>> = a /\ OfKind(a, K) \o <<>> = OfKind(a, K)
      BY <1>0
    <2> QED
      BY <1>2, <2>1, OfKindEmpty
  <1>4. PICK c \in Seq(Packets), e \in Packets : r = Append(c, e) /\ Len(c) = m - 1 /\ m - 1 \in Nat
    <2> DEFINE P == Packets
    <2>1. r \in Seq(P) /\ Len(r) = m
      BY <1>2
    <2> HIDE DEF P
    <2>2. \E c \in Seq(P), e \in P : r = Append(c, e) /\ Len(c) = Len(r) - 1 /\ Len(r) - 1 \in Nat
      BY <1>3, <2>1, LastOff, Zenon
    <2>3. \E c \in Seq(P), e \in P : r = Append(c, e) /\ Len(c) = m - 1 /\ m - 1 \in Nat
      BY <2>1, <2>2, Zenon
    <2> QED
      BY <2>3 DEF P
  <1>5. m - 1 \notin T
    BY <1>1, <1>4
  <1>6. ~Fails(c)
    BY <1>4, <1>5
  <1>7. a \o r = Append(a \o c, e) /\ a \o c \in Seq(Packets)
    BY <1>4, ConcatAppend, SMTT(40)
  <1>8. OfKind(a \o r, K) = IF e.kind \in K THEN Append(OfKind(a \o c, K), e) ELSE OfKind(a \o c, K)
    <2>1. OfKind(Append(a \o c, e), K) = IF e.kind \in K THEN Append(OfKind(a \o c, K), e) ELSE OfKind(a \o c, K)
      BY <1>7, OfKindAppend, Zenon
    <2> QED
      BY <1>7, <2>1, Zenon
  <1>9. OfKind(r, K) = IF e.kind \in K THEN Append(OfKind(c, K), e) ELSE OfKind(c, K)
    BY <1>4, OfKindAppend, Zenon
  <1>10. OfKind(c, K) \in Seq(Packets)
    BY OfKindType
  <1>11. OfKind(a, K) \o Append(OfKind(c, K), e) = Append(OfKind(a, K) \o OfKind(c, K), e)
    BY <1>0, <1>10, ConcatAppend, SMTT(40)
  <1>12. OfKind(a \o r, K) = OfKind(a, K) \o OfKind(r, K)
    BY <1>6, <1>8, <1>9, <1>11
  <1> QED
    BY <1>2, <1>12

(***************************************************************************)
(* The second inductive invariant: what is on its way.                      *)
(***************************************************************************)

Kinds ==
    /\ receiver = "holding" => held.kind \in {"media", "played", "cleared"}
    /\ receiver # "holding" => held = Nothing
    /\ \A i \in DOMAIN audio : audio[i].kind = "media" \/ audio[i] = End
    /\ ~finished => /\ \A i \in DOMAIN audio : audio[i] # End
                    /\ \A i \in DOMAIN events : events[i] # End

EventsKept == ~finished => told = seen \o events \o Events(Unread)

Frames == Media(audio) \o Media(Unread)

Rising(f, lo, hi) ==
    \A i \in DOMAIN f : /\ lo < f[i].n /\ f[i].n < hi
                        /\ \A j \in DOMAIN f : i < j => f[i].n < f[j].n

Complete(f, lo, hi) == lo + Len(f) = hi - 1 /\ \A i \in DOMAIN f : f[i].n = lo + i

FramesKept ==
    /\ routed < talked \/ (routed = 0 /\ talked = 0)
    /\ Rising(Frames, routed, talked)
    /\ ~finished /\ talked > 0 => Complete(Frames, routed, talked)

SttKept ==
    /\ audioLoop = "off" => stt = <<>>
    /\ session = "over" => audioLoop = "over"
    /\ audioLoop # "over" => \A i \in DOMAIN stt : stt[i] # End
    /\ \A i \in DOMAIN stt : stt[i] = End \/ stt[i].n <= routed
    /\ \A i, j \in DOMAIN stt : i < j => stt[i] # End /\ (stt[j] = End \/ stt[i].n < stt[j].n)
    /\ stt # <<>> /\ session # "over" /\ audioLoop = "over" => stt[Len(stt)] = End
    /\ stt # <<>> /\ audioLoop = "on" => stt[Len(stt)].n = routed

OnTheWay == Kinds /\ EventsKept /\ FramesKept /\ SttKept

-----------------------------------------------------------------------------
(* What the receiver has yet to hand on.                                    *)

Ahead(h, w) == (IF h = Nothing THEN <<>> ELSE <<h>>) \o w

LEMMA UnreadIs == Unread = Ahead(held, wire) /\ Unread' = Ahead(held', wire')
  BY DEF Unread, Ahead

LEMMA HeadRest ==
  ASSUME NEW S, NEW q \in Seq(S), q # <<>>
  PROVE  /\ q = <<Head(q)>> \o Tail(q) /\ Head(q) \in S /\ Tail(q) \in Seq(S)
         /\ Head(q) = q[1] /\ 1 \in DOMAIN q
  <1>1. Len(q) \in Nat \ {0} /\ DOMAIN q = 1..Len(q)
    BY EmptySeq, LenProperties
  <1>2. 1 \in 1..Len(q) /\ Len(q) \in 1..Len(q)
    BY <1>1
  <1>3. SubSeq(q, 1, Len(q)) = <<q[1]>> \o SubSeq(q, 1 + 1, Len(q))
    BY <1>2, SubSeqRecursiveFirst
  <1>4. SubSeq(q, 1, Len(q)) = q
    BY SubSeqFull
  <1>5. Tail(q) = SubSeq(q, 2, Len(q)) /\ Head(q) \in S /\ Tail(q) \in Seq(S)
    BY TailIsSubSeq, HeadTailProperties
  <1>6. Head(q) = q[1]
    OBVIOUS
  <1>7. 1 + 1 = 2
    OBVIOUS
  <1> QED
    BY <1>1, <1>2, <1>3, <1>4, <1>5, <1>6, <1>7

LEMMA UnType ==
  ASSUME NEW h \in Packets, NEW w \in Seq(Packets)
  PROVE  /\ Ahead(h, w) \in Seq(Packets) /\ Ahead(Nothing, w) = w
         /\ h # Nothing => Ahead(h, w) = <<h>> \o w
  <1>1. <<>> \o w = w /\ <<h>> \in Seq(Packets)
    BY ConcatEmptySeq
  <1>2. <<h>> \o w \in Seq(Packets)
    BY <1>1, ConcatProperties
  <1> QED
    BY <1>1, <1>2 DEF Ahead

LEMMA UnTell ==
  ASSUME NEW h \in Packets, NEW w \in Seq(Packets), NEW p \in Packets
  PROVE  Ahead(h, Append(w, p)) = Append(Ahead(h, w), p)
  <1>1. CASE h = Nothing
    <2>1. Append(w, p) \in Seq(Packets)
      BY AppendOK
    <2> QED
      BY <1>1, <2>1, UnType
  <1>2. CASE h # Nothing
    <2>1. Append(w, p) \in Seq(Packets) /\ <<h>> \in Seq(Packets)
      BY AppendOK
    <2>2. <<h>> \o Append(w, p) = Append(<<h>> \o w, p)
      BY <2>1, ConcatAppend
    <2>3. Ahead(h, Append(w, p)) = <<h>> \o Append(w, p) /\ Ahead(h, w) = <<h>> \o w
      BY <1>2, <2>1, UnType
    <2> QED
      BY <2>2, <2>3
  <1> QED
    BY <1>1, <1>2

\* One packet more at the front.
LEMMA OfKindFront ==
  ASSUME NEW p \in Packets, NEW q \in Seq(Packets), NEW K
  PROVE  OfKind(<<p>> \o q, K) = IF p.kind \in K THEN <<p>> \o OfKind(q, K) ELSE OfKind(q, K)
  <1>1. <<p>> \in Seq(Packets)
    OBVIOUS
  <1>2. OfKind(<<p>> \o q, K) = OfKind(<<p>>, K) \o OfKind(q, K)
    BY <1>1, OfKindConcat
  <1>3. OfKind(q, K) \in Seq(Packets)
    BY OfKindType
  <1>4. <<>> \o OfKind(q, K) = OfKind(q, K)
    BY <1>3, ConcatEmptySeq
  <1> QED
    BY <1>2, <1>4, OfKindOne

LEMMA MediaFront ==
  ASSUME NEW p \in Packets, NEW q \in Seq(Packets)
  PROVE  /\ p.kind = "media" => Media(<<p>> \o q) = <<p>> \o Media(q) /\ Events(<<p>> \o q) = Events(q)
         /\ p.kind \in {"played", "cleared"} =>
              Media(<<p>> \o q) = Media(q) /\ Events(<<p>> \o q) = <<p>> \o Events(q)
         /\ p.kind \notin {"media", "played", "cleared"} =>
              Media(<<p>> \o q) = Media(q) /\ Events(<<p>> \o q) = Events(q)
  <1>1. Media(<<p>> \o q) = IF p.kind \in {"media"} THEN <<p>> \o Media(q) ELSE Media(q)
    BY OfKindFront DEF Media
  <1>2. Events(<<p>> \o q) = IF p.kind \in {"played", "cleared"} THEN <<p>> \o Events(q) ELSE Events(q)
    BY OfKindFront DEF Events
  <1> QED
    BY <1>1, <1>2

LEMMA MediaBack ==
  ASSUME NEW p \in Packets, NEW q \in Seq(Packets)
  PROVE  /\ p.kind = "media" => Media(Append(q, p)) = Append(Media(q), p) /\ Events(Append(q, p)) = Events(q)
         /\ p.kind \in {"played", "cleared"} =>
              Media(Append(q, p)) = Media(q) /\ Events(Append(q, p)) = Append(Events(q), p)
         /\ p.kind \notin {"media", "played", "cleared"} =>
              Media(Append(q, p)) = Media(q) /\ Events(Append(q, p)) = Events(q)
  BY OfKindAppend DEF Media, Events

LEMMA MediaType ==
  ASSUME NEW q \in Seq(Packets) PROVE Media(q) \in Seq(Packets) /\ Events(q) \in Seq(Packets)
  BY OfKindType DEF Media, Events

LEMMA MediaNone == Media(<<>>) = <<>> /\ Events(<<>>) = <<>>
  BY OfKindEmpty DEF Media, Events

-----------------------------------------------------------------------------
(* Rising sequences.                                                        *)

LEMMA RisingParts ==
  ASSUME NEW a \in Seq(Packets), NEW b \in Seq(Packets), NEW lo, NEW hi, Rising(a \o b, lo, hi)
  PROVE  Rising(a, lo, hi) /\ Rising(b, lo, hi)
  <1> DEFINE f == a \o b
             k == Len(a)
             l == Len(b)
  <1>1. /\ k \in Nat /\ l \in Nat /\ DOMAIN a = 1..k /\ DOMAIN b = 1..l
        /\ f \in Seq(Packets) /\ Len(f) = k + l /\ DOMAIN f = 1..(k + l)
        /\ \A i \in 1..(k + l) : f[i] = IF i <= k THEN a[i] ELSE b[i - k]
    BY LenProperties, ConcatProperties
  <1>2. Rising(f, lo, hi)
    OBVIOUS
  <1> HIDE DEF f, k, l
  <1>3. \A i \in 1..k : i \in DOMAIN f /\ f[i] = a[i]
    BY <1>1
  <1>4. \A i \in 1..l : i + k \in DOMAIN f /\ f[i + k] = b[i]
    <2> TAKE i \in 1..l
    <2>1. i + k \in 1..(k + l) /\ ~(i + k <= k) /\ (i + k) - k = i
      BY <1>1
    <2> QED
      BY <1>1, <2>1
  <1>5. \A i, j \in 1..l : i < j => i + k < j + k
    BY <1>1
  <1>6. Rising(a, lo, hi)
    BY <1>1, <1>2, <1>3 DEF Rising
  <1>7. Rising(b, lo, hi)
    BY <1>1, <1>2, <1>4, <1>5 DEF Rising
  <1> QED
    BY <1>6, <1>7

LEMMA NumberOK == ASSUME NEW f \in Seq(Packets), NEW i \in DOMAIN f PROVE f[i].n \in Nat
  <1>1. f[i] \in Packets
    BY Element
  <1> QED
    BY <1>1, NumbersOK DEF Packets

\* Without its first entry.
LEMMA RisingFront ==
  ASSUME NEW h \in Packets, NEW b \in Seq(Packets), NEW lo \in Nat, NEW hi \in Nat,
         Rising(<<h>> \o b, lo, hi)
  PROVE  /\ lo < h.n /\ h.n < hi /\ h.n \in Nat /\ Rising(b, h.n, hi)
         /\ Complete(<<h>> \o b, lo, hi) => Complete(b, h.n, hi)
  <1> DEFINE f == <<h>> \o b
             l == Len(b)
  <1>1. /\ <<h>> \in Seq(Packets) /\ Len(<<h>>) = 1 /\ <<h>>[1] = h
        /\ l \in Nat /\ DOMAIN b = 1..l
    BY LenProperties
  <1>2. /\ f \in Seq(Packets) /\ Len(f) = 1 + l
        /\ \A i \in 1..(1 + l) : f[i] = IF i <= 1 THEN <<h>>[i] ELSE b[i - 1]
    BY <1>1, ConcatProperties
  <1>3. Rising(f, lo, hi)
    OBVIOUS
  <1>4. DOMAIN f = 1..(1 + l)
    BY <1>2, LenProperties
  <1>5. SUFFICES /\ lo < h.n /\ h.n < hi /\ h.n \in Nat /\ Rising(b, h.n, hi)
                 /\ Complete(f, lo, hi) => Complete(b, h.n, hi)
    OBVIOUS
  <1> HIDE DEF f, l
  <1>6. 1 \in DOMAIN f /\ f[1] = h
    BY <1>1, <1>2, <1>4
  <1>7. \A i \in 1..l : i + 1 \in DOMAIN f /\ f[i + 1] = b[i] /\ 1 < i + 1
    <2> TAKE i \in 1..l
    <2>1. i + 1 \in 1..(1 + l) /\ ~(i + 1 <= 1) /\ (i + 1) - 1 = i /\ 1 < i + 1
      BY <1>1
    <2> QED
      BY <1>2, <1>4, <2>1
  <1>8. \A i, j \in 1..l : i < j => i + 1 < j + 1
    BY <1>1
  <1>9. lo < h.n /\ h.n < hi
    BY <1>3, <1>6 DEF Rising
  <1>10. h.n \in Nat
    BY NumbersOK DEF Packets
  <1>11. Rising(b, h.n, hi)
    BY <1>1, <1>3, <1>6, <1>7, <1>8 DEF Rising
  <1>12. ASSUME Complete(f, lo, hi) PROVE Complete(b, h.n, hi)
    <2>1. h.n = lo + 1 /\ lo + (1 + l) = hi - 1
      BY <1>2, <1>6, <1>12 DEF Complete
    <2>2. h.n + l = hi - 1
      BY <1>1, <2>1
    <2>3. \A i \in 1..l : b[i].n = h.n + i
      <3> TAKE i \in 1..l
      <3>1. b[i].n = lo + (i + 1)
        BY <1>7, <1>12 DEF Complete
      <3> QED
        BY <2>1, <3>1
    <2> QED
      BY <1>1, <2>2, <2>3 DEF Complete, l
  <1> QED
    BY <1>9, <1>10, <1>11, <1>12

\* One frame more at the end.
LEMMA RisingBack ==
  ASSUME NEW f \in Seq(Packets), NEW lo \in Nat, NEW hi \in Nat, Rising(f, lo, hi),
         NEW e \in Packets, e.n = hi, lo < hi
  PROVE  /\ Rising(Append(f, e), lo, hi + 1)
         /\ Complete(f, lo, hi) => Complete(Append(f, e), lo, hi + 1)
  <1> DEFINE g == Append(f, e)
             l == Len(f)
  <1>1. /\ l \in Nat /\ DOMAIN f = 1..l /\ DOMAIN g = 1..(l + 1) /\ Len(g) = l + 1
        /\ g[l + 1] = e /\ \A i \in 1..l : g[i] = f[i]
    BY AppendOK
  <1>2. SUFFICES /\ Rising(g, lo, hi + 1)
                 /\ Complete(f, lo, hi) => Complete(g, lo, hi + 1)
    OBVIOUS
  <1>3. \A i \in 1..l : f[i].n \in Nat
    BY <1>1, NumberOK
  <1> HIDE DEF g
  <1>4. Rising(g, lo, hi + 1)
    <2>1. ASSUME NEW i \in DOMAIN g
          PROVE  lo < g[i].n /\ g[i].n < hi + 1 /\ \A j \in DOMAIN g : i < j => g[i].n < g[j].n
      <3> HIDE DEF l
      <3>1. CASE i = l + 1
        BY <1>1, <3>1
      <3>2. CASE i # l + 1
        <4>1. i \in 1..l /\ g[i] = f[i]
          BY <1>1, <2>1, <3>2
        <4>2. lo < f[i].n /\ f[i].n < hi /\ \A j \in 1..l : i < j => f[i].n < f[j].n
          BY <1>1, <4>1 DEF Rising
        <4>3. f[i].n < hi + 1
          BY <1>3, <4>1, <4>2
        <4>4. ASSUME NEW j \in DOMAIN g, i < j PROVE g[i].n < g[j].n
          <5>1. CASE j = l + 1
            BY <1>1, <4>1, <4>2, <5>1
          <5>2. CASE j # l + 1
            <6>1. j \in 1..l /\ g[j] = f[j]
              BY <1>1, <4>4, <5>2
            <6> QED
              BY <4>1, <4>2, <4>4, <6>1
          <5> QED
            BY <5>1, <5>2
        <4> QED
          BY <4>1, <4>2, <4>3, <4>4
      <3> QED
        BY <3>1, <3>2
    <2> QED
      BY <2>1 DEF Rising
  <1>5. ASSUME Complete(f, lo, hi) PROVE Complete(g, lo, hi + 1)
    <2>1. lo + l = hi - 1 /\ \A i \in 1..l : f[i].n = lo + i
      BY <1>1, <1>5 DEF Complete
    <2> HIDE DEF l
    <2>2. lo + (l + 1) = (hi + 1) - 1 /\ e.n = lo + (l + 1)
      BY <1>1, <2>1
    <2>3. \A i \in 1..(l + 1) : g[i].n = lo + i
      <3> TAKE i \in 1..(l + 1)
      <3>1. CASE i = l + 1
        BY <1>1, <2>2, <3>1
      <3>2. CASE i # l + 1
        BY <1>1, <2>1, <3>2
      <3> QED
        BY <3>1, <3>2
    <2> QED
      BY <1>1, <2>2, <2>3 DEF Complete
  <1> QED
    BY <1>4, <1>5

-----------------------------------------------------------------------------
(* What a step does to the frames and events on their way.                  *)

Still == /\ UNCHANGED <<finished, audio, events, routed, seen, talked, told>>
         /\ Media(Unread') = Media(Unread) /\ Events(Unread') = Events(Unread)

Connected == /\ UNCHANGED <<finished, audio, events, routed, seen, told>>
             /\ Media(Unread') = Media(Unread) /\ Events(Unread') = Events(Unread)
             /\ talked = 0 /\ talked' = 1

FrameTold(p) == /\ UNCHANGED <<finished, audio, events, routed, seen, told>>
                /\ p.n = talked /\ talked > 0 /\ talked' = talked + 1
                /\ Media(Unread') = Append(Media(Unread), p) /\ Events(Unread') = Events(Unread)

EventTold(p) == /\ UNCHANGED <<finished, audio, events, routed, seen, talked>>
                /\ told' = Append(told, p)
                /\ Media(Unread') = Media(Unread) /\ Events(Unread') = Append(Events(Unread), p)

FrameIn(p) == /\ UNCHANGED <<finished, events, routed, seen, talked, told>>
              /\ audio' = Append(audio, p) /\ p.kind = "media"
              /\ Media(Unread) = <<p>> \o Media(Unread') /\ Events(Unread') = Events(Unread)

EventIn(p) == /\ UNCHANGED <<finished, audio, routed, seen, talked, told>>
              /\ events' = Append(events, p)
              /\ Media(Unread') = Media(Unread) /\ Events(Unread) = <<p>> \o Events(Unread')

FrameOut == /\ UNCHANGED <<finished, events, seen, talked, told>>
            /\ audio # <<>> /\ audio' = Tail(audio)
            /\ IF Head(audio) = End THEN routed' = routed ELSE routed' = Head(audio).n
            /\ Media(Unread') = Media(Unread) /\ Events(Unread') = Events(Unread)

EventOut == /\ UNCHANGED <<finished, audio, routed, talked, told>>
            /\ events # <<>> /\ events' = Tail(events)
            /\ Head(events) = End \/ seen' = Append(seen, Head(events))
            /\ Media(Unread') = Media(Unread) /\ Events(Unread') = Events(Unread)

Over == /\ UNCHANGED <<routed, talked, told, seen>> /\ Finish
        /\ Media(Unread') = Media(Unread) \/ Media(Unread') = <<>>

Move == \/ Still \/ Connected \/ FrameOut \/ EventOut \/ Over
        \/ \E p \in Packets : FrameTold(p) \/ EventTold(p) \/ FrameIn(p) \/ EventIn(p)

LEMMA WireTypes ==
  ASSUME TypeOK
  PROVE  /\ wire \in Seq(Packets) /\ held \in Packets /\ Unread \in Seq(Packets)
         /\ audio \in Seq(Packets) /\ events \in Seq(Packets)
  <1>1. /\ wire \in Seq(Packets) /\ held \in Packets
        /\ audio \in Seq(Packets) /\ events \in Seq(Packets)
    BY DEF TypeOK
  <1> QED
    BY <1>1, UnreadIs, UnType

LEMMA ReceiveMoves == ASSUME IInv, Kinds, Receive PROVE Move
  <1>0. TypeOK
    BY DEF IInv
  <1>1. /\ wire \in Seq(Packets) /\ wire # <<>> /\ wire' = Tail(wire) /\ held = Nothing
        /\ receiver = "reading"
    BY <1>0, ReceiveCases DEF Receive, Kinds
  <1>2. PICK p \in Packets : p = Head(wire)
    BY <1>0, ReceiveCases
  <1>3. wire = <<p>> \o Tail(wire) /\ Tail(wire) \in Seq(Packets)
    BY <1>1, <1>2, HeadRest
  <1>4. Unread = <<p>> \o wire'
    BY <1>1, <1>3, UnreadIs, UnType
  <1>5. held' = Nothing => Unread' = wire'
    BY <1>1, <1>3, UnreadIs, UnType
  <1>6. held' = p /\ p # Nothing => Unread' = <<p>> \o wire'
    BY <1>1, <1>3, UnreadIs, UnType
  <1>7. wire' \in Seq(Packets)
    BY <1>1, <1>3
  <1>8. UNCHANGED <<talked, told, routed, seen>>
    BY DEF Receive, loops
  <1>9. CASE p.kind = "start"
    <2>1. HandleStart(p)
      BY <1>2, <1>9 DEF Receive
    <2>2. held' = Nothing
      BY <1>1, <2>1 DEF HandleStart
    <2>3. Media(Unread') = Media(Unread) /\ Events(Unread') = Events(Unread)
      BY <1>4, <1>5, <1>7, <1>9, <2>2, MediaFront
    <2>4. Finish \/ UNCHANGED <<finished, audio, events>>
      BY <2>1 DEF HandleStart
    <2> QED
      BY <1>8, <2>3, <2>4 DEF Move, Still, Over
  <1>10. CASE p.kind = "media"
    <2>1. PutAudio(p) /\ UNCHANGED finished
      BY <1>2, <1>10 DEF Receive
    <2>2. /\ Media(<<p>> \o wire') = <<p>> \o Media(wire') /\ Events(<<p>> \o wire') = Events(wire')
      BY <1>7, <1>10, MediaFront
    <2>3. CASE Len(audio) < QueueMax
      <3>1. audio' = Append(audio, p) /\ UNCHANGED events /\ held' = Nothing
        BY <1>1, <2>1, <2>3 DEF PutAudio
      <3>2. FrameIn(p)
        BY <1>4, <1>5, <1>8, <1>10, <2>1, <2>2, <3>1 DEF FrameIn
      <3> QED
        BY <3>2 DEF Move
    <2>4. CASE ~(Len(audio) < QueueMax)
      <3>1. held' = p /\ UNCHANGED <<audio, events>>
        BY <2>1, <2>4 DEF PutAudio
      <3>2. p # Nothing
        BY <1>10, EndOK
      <3> QED
        BY <1>4, <1>6, <1>8, <2>1, <3>1, <3>2 DEF Move, Still
    <2> QED
      BY <2>3, <2>4
  <1>11. CASE p.kind \in {"played", "cleared"}
    <2>1. PutEvent(p) /\ UNCHANGED finished
      BY <1>2, <1>11 DEF Receive
    <2>2. /\ Media(<<p>> \o wire') = Media(wire') /\ Events(<<p>> \o wire') = <<p>> \o Events(wire')
      BY <1>7, <1>11, MediaFront
    <2>3. CASE Len(events) < QueueMax
      <3>1. events' = Append(events, p) /\ UNCHANGED audio /\ held' = Nothing
        BY <1>1, <2>1, <2>3 DEF PutEvent
      <3>2. EventIn(p)
        BY <1>4, <1>5, <1>8, <2>1, <2>2, <3>1 DEF EventIn
      <3> QED
        BY <3>2 DEF Move
    <2>4. CASE ~(Len(events) < QueueMax)
      <3>1. held' = p /\ UNCHANGED <<audio, events>>
        BY <2>1, <2>4 DEF PutEvent
      <3>2. p # Nothing
        BY <1>11, EndOK
      <3> QED
        BY <1>4, <1>6, <1>8, <2>1, <3>1, <3>2 DEF Move, Still
    <2> QED
      BY <2>3, <2>4
  <1>12. CASE p.kind \notin {"start", "media", "played", "cleared"}
    <2>1. Ended(p)
      BY <1>2, <1>12 DEF Receive
    <2>2. held' = Nothing /\ Finish
      BY <1>1, <2>1 DEF Ended
    <2>3. Media(Unread') = Media(Unread)
      BY <1>4, <1>5, <1>7, <1>12, <2>2, MediaFront
    <2> QED
      BY <1>8, <2>2, <2>3 DEF Move, Over
  <1> QED
    BY <1>9, <1>10, <1>11, <1>12

LEMMA PutHeldMoves == ASSUME IInv, Kinds, PutHeld PROVE Move
  <1>0. TypeOK
    BY DEF IInv
  <1>1. /\ held \in Packets /\ wire \in Seq(Packets) /\ wire' = wire /\ held' = Nothing
        /\ UNCHANGED <<finished, talked, told, routed, seen>>
    BY <1>0, WireTypes DEF PutHeld, platform, loops
  <1>2. held.kind \in {"media", "played", "cleared"} /\ held # Nothing
    BY EndOK DEF PutHeld, Kinds
  <1>3. Unread = <<held>> \o wire /\ Unread' = wire
    BY <1>1, <1>2, UnreadIs, UnType
  <1>4. CASE held.kind = "media"
    <2>1. audio' = Append(audio, held) /\ UNCHANGED events
      BY <1>4 DEF PutHeld
    <2>2. Media(Unread) = <<held>> \o Media(wire) /\ Events(Unread) = Events(wire)
      BY <1>1, <1>3, <1>4, MediaFront
    <2>3. FrameIn(held)
      BY <1>1, <1>3, <1>4, <2>1, <2>2 DEF FrameIn
    <2> QED
      BY <1>1, <2>3 DEF Move
  <1>5. CASE held.kind # "media"
    <2>1. events' = Append(events, held) /\ UNCHANGED audio
      BY <1>5 DEF PutHeld
    <2>2. Events(Unread) = <<held>> \o Events(wire) /\ Media(Unread) = Media(wire)
      BY <1>1, <1>2, <1>3, <1>5, MediaFront
    <2>3. EventIn(held)
      BY <1>1, <1>3, <2>1, <2>2 DEF EventIn
    <2> QED
      BY <1>1, <2>3 DEF Move
  <1> QED
    BY <1>4, <1>5

\* A packet behind the others.
LEMMA Behind ==
  ASSUME TypeOK, NEW p \in Packets, Tell(p), UNCHANGED held
  PROVE  /\ p.kind = "media" => Media(Unread') = Append(Media(Unread), p) /\ Events(Unread') = Events(Unread)
         /\ p.kind \in {"played", "cleared"} =>
              Media(Unread') = Media(Unread) /\ Events(Unread') = Append(Events(Unread), p)
         /\ p.kind \notin {"media", "played", "cleared"} =>
              Media(Unread') = Media(Unread) /\ Events(Unread') = Events(Unread)
  <1>1. wire \in Seq(Packets) /\ held \in Packets /\ Unread \in Seq(Packets)
    BY WireTypes
  <1>2. Unread' = Append(Unread, p)
    <2>1. wire' = Append(wire, p) /\ held' = held
      BY DEF Tell
    <2> QED
      BY <1>1, <2>1, UnreadIs, UnTell
  <1> QED
    BY <1>1, <1>2, MediaBack

LEMMA PlatformMoves == ASSUME IInv, Platform \/ StartFails PROVE Move
  <1>0. TypeOK
    BY DEF IInv
  <1>1. UNCHANGED <<finished, audio, events, routed, seen, held>>
    BY DEF Platform, Connect, Talk, PlayNext, CarryOutClear, HangUp, StartFails, adapter, loops
  <1>2. CASE Connect
    <2>1. PICK n \in 0..2 : Tell(Packet("start", n))
      BY <1>2 DEF Connect
    <2>2. Packet("start", n) \in Packets /\ Packet("start", n).kind = "start"
      BY SmallOK, PacketOK
    <2>3. Media(Unread') = Media(Unread) /\ Events(Unread') = Events(Unread)
      BY <1>0, <1>1, <2>1, <2>2, Behind
    <2> QED
      BY <1>1, <1>2, <2>3 DEF Connect, Move, Connected
  <1>3. CASE Talk
    <2>1. PICK p \in Packets : p = Packet("media", talked) /\ p.kind = "media" /\ p.n = talked
      BY <1>3, SmallOK, PacketOK DEF Talk
    <2>2. Tell(p) /\ talked > 0 /\ talked' = talked + 1 /\ UNCHANGED told
      BY <1>3, <2>1 DEF Talk
    <2>3. FrameTold(p)
      BY <1>0, <1>1, <2>1, <2>2, Behind DEF FrameTold
    <2> QED
      BY <2>3 DEF Move
  <1>4. CASE PlayNext
    <2>1. line \in Seq(Line) /\ line # <<>> /\ UNCHANGED talked
      BY <1>0, <1>4 DEF PlayNext, TypeOK
    <2>2. Head(line) \in Line
      BY <2>1
    <2>3. PICK p \in Packets : p = Packet("played", Head(line).n) /\ p.kind = "played"
      BY <2>2, PacketOK DEF Line
    <2>4. CASE Head(line).kind = "mark"
      <3>1. Tell(p) /\ told' = Append(told, p)
        BY <1>4, <2>3, <2>4 DEF PlayNext
      <3>2. EventTold(p)
        BY <1>0, <1>1, <2>1, <2>3, <3>1, Behind DEF EventTold
      <3> QED
        BY <3>2 DEF Move
    <2>5. CASE Head(line).kind # "mark"
      <3>1. UNCHANGED <<wire, told>>
        BY <1>4, <2>5 DEF PlayNext
      <3>2. Unread' = Unread
        BY <1>1, <3>1 DEF Unread
      <3> QED
        BY <1>1, <2>1, <3>1, <3>2 DEF Move, Still
    <2> QED
      BY <2>4, <2>5
  <1>5. CASE CarryOutClear
    <2>1. PICK i \in DOMAIN line :
            LET e == Packet("cleared", line[i].epoch) IN Tell(e) /\ told' = Append(told, e)
      BY <1>5 DEF CarryOutClear
    <2>2. line[i] \in Line /\ UNCHANGED talked
      BY <1>0, <1>5, Element DEF TypeOK, CarryOutClear
    <2>3. PICK p \in Packets : p = Packet("cleared", line[i].epoch) /\ p.kind = "cleared"
      BY <2>2, PacketOK DEF Line
    <2>4. EventTold(p)
      BY <1>0, <1>1, <2>1, <2>2, <2>3, Behind DEF EventTold
    <2> QED
      BY <2>4 DEF Move
  <1>6. CASE HangUp \/ StartFails
    <2>1. UNCHANGED <<talked, told>> /\ wire \in Seq(Packets) /\ held \in Packets /\ Unread \in Seq(Packets)
      BY <1>0, <1>6, WireTypes DEF HangUp, StartFails
    <2>2. PICK s \in Packets : s = Packet("stop", 0) /\ s.kind = "stop"
      BY SmallOK, PacketOK
    <2>3. PICK e \in Packets : e = Packet("error", 0) /\ e.kind = "error"
      BY SmallOK, PacketOK
    <2>4. wire' = Append(wire, e) \/ wire' = Append(Append(wire, s), e)
      <3>1. wire \o <<s, e>> = Append(Append(wire, s), e)
        BY <2>1
      <3> QED
        BY <1>6, <2>2, <2>3, <3>1 DEF HangUp, StartFails
    <2>5. Append(wire, s) \in Seq(Packets) /\ Append(Unread, s) \in Seq(Packets)
      BY <2>1, AppendOK
    <2>6. Unread' = Append(Unread, e) \/ Unread' = Append(Append(Unread, s), e)
      <3>1. Unread = Ahead(held, wire) /\ Unread' = Ahead(held, wire')
        BY <1>1, UnreadIs
      <3>2. Ahead(held, Append(wire, e)) = Append(Ahead(held, wire), e)
        BY <2>1, UnTell
      <3>3. Ahead(held, Append(Append(wire, s), e)) = Append(Append(Ahead(held, wire), s), e)
        <4>1. Ahead(held, Append(Append(wire, s), e)) = Append(Ahead(held, Append(wire, s)), e)
          BY <2>1, <2>5, UnTell
        <4>2. Ahead(held, Append(wire, s)) = Append(Ahead(held, wire), s)
          BY <2>1, UnTell
        <4> QED
          BY <4>1, <4>2, Zenon
      <3> QED
        BY <2>4, <3>1, <3>2, <3>3
    <2>7. Media(Unread') = Media(Unread) /\ Events(Unread') = Events(Unread)
      <3>1. /\ Media(Append(Unread, e)) = Media(Unread) /\ Events(Append(Unread, e)) = Events(Unread)
            /\ Media(Append(Unread, s)) = Media(Unread) /\ Events(Append(Unread, s)) = Events(Unread)
        BY <2>1, <2>2, <2>3, MediaBack
      <3>2. /\ Media(Append(Append(Unread, s), e)) = Media(Append(Unread, s))
            /\ Events(Append(Append(Unread, s), e)) = Events(Append(Unread, s))
        BY <2>3, <2>5, MediaBack
      <3> QED
        BY <2>6, <3>1, <3>2, Zenon
    <2> QED
      BY <1>1, <2>1, <2>7 DEF Move, Still
  <1> QED
    BY <1>2, <1>3, <1>4, <1>5, <1>6 DEF Platform

LEMMA StepMoves == ASSUME IInv, Kinds, [Next]_vars PROVE Move
  <1>1. CASE Receive \/ PutHeld
    BY <1>1, ReceiveMoves, PutHeldMoves
  <1>2. CASE Platform \/ StartFails
    BY <1>2, PlatformMoves
  <1>3. CASE RouteFrame
    <2>1. UNCHANGED <<finished, events, seen, talked, told, held, wire>>
      BY <1>3 DEF RouteFrame, platform
    <2>2. Unread' = Unread
      BY <2>1 DEF Unread
    <2> QED
      BY <1>3, <2>1, <2>2 DEF RouteFrame, Move, FrameOut
  <1>4. CASE TakeEvent
    <2>1. UNCHANGED <<finished, audio, routed, talked, told, held, wire>>
      BY <1>4 DEF TakeEvent, platform
    <2>2. Unread' = Unread
      BY <2>1 DEF Unread
    <2> QED
      BY <1>4, <2>1, <2>2 DEF TakeEvent, Move, EventOut
  <1>5. CASE \E s \in Stoppers : StopReturns(s)
    <2>1. UNCHANGED <<routed, talked, told, seen>> /\ Finish /\ held' = Nothing /\ wire' = <<>>
      BY <1>5 DEF StopReturns, CancelReceiver
    <2>2. Unread' = <<>>
      <3>1. <<>> \in Seq(Packets) /\ Nothing \in Packets
        BY EndOK
      <3>2. Ahead(Nothing, <<>>) = <<>>
        BY <3>1, UnType
      <3> QED
        BY <2>1, <3>2, UnreadIs, Zenon
    <2> QED
      BY <2>1, <2>2, MediaNone DEF Move, Over
  <1>6. CASE SendFails
    <2>1. UNCHANGED <<routed, talked, told, seen, held, wire>> /\ (Finish \/ UNCHANGED <<finished, audio, events>>)
      BY <1>6 DEF SendFails, platform, loops
    <2>2. Unread' = Unread
      BY <2>1 DEF Unread
    <2> QED
      BY <2>1, <2>2 DEF Move, Still, Over
  <1>7. CASE \/ UNCHANGED vars \/ StartSeen \/ StartTimeout \/ LoopsStart \/ ShutDown \/ TakeFrame
             \/ HungUp \/ HangupOver \/ SendStarts \/ SendChunk \/ SendCheckpoint \/ Clear
             \/ \E s \in Stoppers : StopSent(s)
    <2>1. UNCHANGED <<finished, audio, events, routed, seen, talked, told, held, wire>>
      BY <1>7 DEF vars, platform, adapter, loops, StartSeen, StartTimeout, LoopsStart, ShutDown,
         TakeFrame, HungUp, HangupOver, SendStarts, SendChunk, SendCheckpoint, Clear,
         ClearStarts,
         ClearReturns, ClearTimeout, StopSent
    <2>2. Unread' = Unread
      BY <2>1 DEF Unread
    <2> QED
      BY <2>1, <2>2 DEF Move, Still
  <1> QED
    BY <1>1, <1>2, <1>3, <1>4, <1>5, <1>6, <1>7 DEF Next, Receiver, Session, Stops, Output

-----------------------------------------------------------------------------
(* Every step keeps it.                                                     *)

LEMMA EventsStep == IInv /\ Kinds /\ EventsKept /\ [Next]_vars => EventsKept'
  <1> SUFFICES ASSUME IInv, Kinds, EventsKept, [Next]_vars, ~finished' PROVE told' = seen' \o events' \o Events(Unread')
    BY DEF EventsKept
  <1>1. Move
    BY StepMoves
  <1>2. ~finished
    BY <1>1 DEF Move, Over, Finish, Still, Connected, FrameOut, EventOut, FrameTold, EventTold,
       FrameIn, EventIn
  <1>3. told = seen \o events \o Events(Unread)
    BY <1>2 DEF EventsKept
  <1>4. /\ seen \in Seq(Packets) /\ events \in Seq(Packets) /\ Events(Unread) \in Seq(Packets)
        /\ seen \o events \in Seq(Packets)
    <2>1. TypeOK /\ seen \in Seq(Packets) /\ events \in Seq(Packets)
      BY DEF IInv, TypeOK
    <2>2. Events(Unread) \in Seq(Packets)
      BY <2>1, WireTypes, MediaType
    <2> QED
      BY <2>1, <2>2, ConcatProperties
  <1>5. CASE Still \/ Connected \/ FrameOut \/ \E p \in Packets : FrameTold(p) \/ FrameIn(p)
    <2>1. UNCHANGED <<told, seen, events>> /\ Events(Unread') = Events(Unread)
      BY <1>5 DEF Still, Connected, FrameOut, FrameTold, FrameIn
    <2> QED
      BY <1>3, <2>1
  <1>6. ASSUME NEW p \in Packets, EventTold(p) PROVE told' = seen' \o events' \o Events(Unread')
    <2>1. UNCHANGED <<seen, events>> /\ told' = Append(told, p) /\ Events(Unread') = Append(Events(Unread), p)
      BY <1>6 DEF EventTold
    <2>2. (seen \o events) \o Append(Events(Unread), p) = Append((seen \o events) \o Events(Unread), p)
      BY <1>4, ConcatAppend
    <2> QED
      BY <1>3, <2>1, <2>2
  <1>7. ASSUME NEW p \in Packets, EventIn(p) PROVE told' = seen' \o events' \o Events(Unread')
    <2> DEFINE rest == Events(Unread')
    <2>1. /\ UNCHANGED <<seen, told>> /\ events' = Append(events, p) /\ Events(Unread) = <<p>> \o rest
      BY <1>7 DEF EventIn
    <2>2. rest \in Seq(Packets)
      <3>1. TypeOK'
        BY StepOK DEF IInv
      <3>2. wire' \in Seq(Packets) /\ held' \in Packets
        BY <3>1 DEF TypeOK
      <3>3. Unread' \in Seq(Packets)
        BY <3>2, UnreadIs, UnType
      <3> QED
        BY <3>3, MediaType
    <2> HIDE DEF rest
    <2>3. <<p>> \in Seq(Packets) /\ Append(events, p) = events \o <<p>>
      BY <1>4, AppendIsConcat
    <2>4. seen \o Append(events, p) = (seen \o events) \o <<p>>
      BY <1>4, <2>3, ConcatAssociative
    <2>5. ((seen \o events) \o <<p>>) \o rest = (seen \o events) \o (<<p>> \o rest)
      BY <1>4, <2>2, <2>3, ConcatAssociative
    <2>6. told' = (seen' \o events') \o rest
      BY <1>3, <2>1, <2>4, <2>5
    <2> QED
      BY <2>6 DEF rest
  <1>8. CASE EventOut
    <2>1. /\ UNCHANGED told /\ events # <<>> /\ events' = Tail(events) /\ Events(Unread') = Events(Unread)
          /\ Head(events) = End \/ seen' = Append(seen, Head(events))
      BY <1>8 DEF EventOut
    <2>2. /\ events = <<Head(events)>> \o Tail(events) /\ Head(events) \in Packets /\ Tail(events) \in Seq(Packets)
          /\ Head(events) = events[1] /\ 1 \in DOMAIN events
      BY <1>4, <2>1, HeadRest
    <2>3. Head(events) # End
      BY <1>2, <2>2 DEF Kinds
    <2>4. PICK h \in Packets : h = Head(events)
      BY <2>2
    <2>5. <<h>> \in Seq(Packets) /\ Append(seen, h) = seen \o <<h>>
      BY <1>4, AppendIsConcat
    <2>6. (seen \o <<h>>) \o Tail(events) = seen \o (<<h>> \o Tail(events))
      BY <1>4, <2>2, <2>5, ConcatAssociative
    <2>7. Append(seen, h) \o Tail(events) = seen \o events
      BY <2>2, <2>4, <2>5, <2>6, Zenon
    <2>8. seen' \o events' = seen \o events
      BY <2>1, <2>3, <2>4, <2>7, Zenon
    <2> QED
      BY <1>3, <2>1, <2>8
  <1>9. ~Over
    BY DEF Over, Finish
  <1> QED
    BY <1>1, <1>5, <1>6, <1>7, <1>8, <1>9 DEF Move

\* What a queue that ends keeps of its frames.
LEMMA OverFrames ==
  ASSUME TypeOK, Kinds, Finish
  PROVE  /\ Media(audio') \in Seq(Packets)
         /\ Media(audio') = Media(audio) \/ \E h \in Packets : Media(audio) = <<h>> \o Media(audio')
  <1>0. audio \in Seq(Packets) /\ Media(audio) \in Seq(Packets) /\ End \in Packets /\ End.kind = "end" /\ QueueMax \in Nat
        /\ QueueMax # 0 /\ Len(audio) \in Nat
    BY WireTypes, MediaType, EndOK, LenProperties, VobizAssumption
  <1>1. CASE audio' = audio
    BY <1>0, <1>1
  <1>2. CASE audio' = Append(audio, End)
    <2>1. Media(Append(audio, End)) = Media(audio)
      BY <1>0, MediaBack
    <2> QED
      BY <1>0, <1>2, <2>1
  <1>3. CASE ~finished /\ audio # <<>> /\ audio' = Append(Tail(audio), End)
    <2>1. /\ audio = <<Head(audio)>> \o Tail(audio) /\ Head(audio) \in Packets /\ Tail(audio) \in Seq(Packets)
          /\ Head(audio) = audio[1] /\ 1 \in DOMAIN audio
      BY <1>0, <1>3, HeadRest
    <2>2. Head(audio).kind = "media"
      BY <1>3, <2>1 DEF Kinds
    <2>3. PICK h \in Packets : h = Head(audio)
      BY <2>1
    <2>4. Media(<<h>> \o Tail(audio)) = <<h>> \o Media(Tail(audio)) /\ Media(Tail(audio)) \in Seq(Packets)
      BY <2>1, <2>2, <2>3, MediaFront, MediaType
    <2>5. Media(Append(Tail(audio), End)) = Media(Tail(audio))
      BY <1>0, <2>1, MediaBack
    <2>6. Media(audio) = <<h>> \o Media(audio') /\ Media(audio') \in Seq(Packets)
      BY <1>3, <2>1, <2>3, <2>4, <2>5, Zenon
    <2> QED
      BY <2>6
  <1>4. audio # <<>> \/ Len(audio) < QueueMax
    BY <1>0, VobizAssumption
  <1> QED
    BY <1>1, <1>2, <1>3, <1>4 DEF Finish, PutTerminal

LEMMA FramesStep == IInv /\ Kinds /\ FramesKept /\ [Next]_vars => FramesKept'
  <1> SUFFICES ASSUME IInv, Kinds, FramesKept, [Next]_vars PROVE FramesKept'
    OBVIOUS
  <1> DEFINE a == Media(audio)
             u == Media(Unread)
             aa == Media(audio')
             uu == Media(Unread')
  <1>1. Move
    BY StepMoves
  <1>2. /\ TypeOK /\ audio \in Seq(Packets) /\ a \in Seq(Packets) /\ u \in Seq(Packets)
        /\ routed \in Nat /\ talked \in Nat /\ a \o u \in Seq(Packets)
    <2>1. TypeOK
      BY DEF IInv
    <2>2. routed \in Nat /\ talked \in Nat
      BY <2>1, NumbersOK DEF TypeOK
    <2>3. audio \in Seq(Packets) /\ a \in Seq(Packets) /\ u \in Seq(Packets)
      BY <2>1, WireTypes, MediaType
    <2>4. a \o u \in Seq(Packets)
      BY <2>3, ConcatProperties
    <2> QED
      BY <2>1, <2>2, <2>3, <2>4
  <1>3. aa \in Seq(Packets) /\ uu \in Seq(Packets)
    <2>1. TypeOK'
      BY StepOK DEF IInv
    <2>2. wire' \in Seq(Packets) /\ held' \in Packets /\ audio' \in Seq(Packets)
      BY <2>1 DEF TypeOK
    <2>3. Unread' \in Seq(Packets)
      BY <2>2, UnreadIs, UnType
    <2> QED
      BY <2>2, <2>3, MediaType
  <1>4. /\ routed < talked \/ (routed = 0 /\ talked = 0)
        /\ Rising(a \o u, routed, talked)
        /\ ~finished /\ talked > 0 => Complete(a \o u, routed, talked)
    BY DEF FramesKept, Frames
  <1>5. SUFFICES /\ routed' < talked' \/ (routed' = 0 /\ talked' = 0)
                 /\ Rising(aa \o uu, routed', talked')
                 /\ ~finished' /\ talked' > 0 => Complete(aa \o uu, routed', talked')
    BY DEF FramesKept, Frames
  <1> HIDE DEF a, u, aa, uu
  <1>6. CASE UNCHANGED <<finished, routed, talked>> /\ aa \o uu = a \o u
    BY <1>4, <1>6
  <1>7. CASE Still \/ EventOut \/ \E p \in Packets : EventTold(p) \/ EventIn(p)
    <2>1. UNCHANGED <<finished, routed, talked, audio>> /\ uu = u
      BY <1>7 DEF Still, EventOut, EventTold, EventIn, u, uu
    <2>2. aa = a
      BY <2>1 DEF a, aa
    <2> QED
      BY <1>6, <2>1, <2>2
  <1>8. CASE Connected
    <2>1. UNCHANGED <<finished, routed, audio>> /\ uu = u /\ talked = 0 /\ talked' = 1
      BY <1>8 DEF Connected, u, uu
    <2>2. aa = a /\ routed = 0
      BY <1>2, <1>4, <2>1 DEF a, aa
    <2>3. \A i \in DOMAIN (a \o u) : FALSE
      <3>1. \A i \in DOMAIN (a \o u) : (a \o u)[i].n \in Nat /\ (a \o u)[i].n < 0
        BY <1>2, <1>4, <2>1, NumberOK DEF Rising
      <3> QED
        BY <3>1
    <2>4. Len(a \o u) = 0
      <3>1. Len(a \o u) \in Nat /\ DOMAIN (a \o u) = 1..Len(a \o u)
        BY <1>2, LenProperties
      <3>2. Len(a \o u) # 0 => 1 \in 1..Len(a \o u)
        BY <3>1
      <3> QED
        BY <2>3, <3>1, <3>2
    <2> QED
      BY <2>1, <2>2, <2>3, <2>4 DEF Rising, Complete
  <1>9. ASSUME NEW p \in Packets, FrameTold(p)
        PROVE  /\ routed' < talked' \/ (routed' = 0 /\ talked' = 0)
               /\ Rising(aa \o uu, routed', talked')
               /\ ~finished' /\ talked' > 0 => Complete(aa \o uu, routed', talked')
    <2>1. /\ UNCHANGED <<finished, routed, audio>> /\ uu = Append(u, p)
          /\ p.n = talked /\ talked > 0 /\ talked' = talked + 1
      BY <1>9 DEF FrameTold, u, uu
    <2>2. aa = a
      BY <2>1 DEF a, aa
    <2>3. aa \o uu = Append(a \o u, p)
      BY <1>2, <2>1, <2>2, ConcatAppend
    <2>4. routed < talked
      BY <1>4, <2>1
    <2>5. /\ Rising(Append(a \o u, p), routed, talked + 1)
          /\ Complete(a \o u, routed, talked) => Complete(Append(a \o u, p), routed, talked + 1)
      BY <1>2, <1>4, <2>1, <2>4, RisingBack
    <2> QED
      BY <1>2, <1>4, <2>1, <2>3, <2>4, <2>5
  <1>10. ASSUME NEW p \in Packets, FrameIn(p) PROVE UNCHANGED <<finished, routed, talked>> /\ aa \o uu = a \o u
    <2>1. UNCHANGED <<finished, routed, talked>> /\ audio' = Append(audio, p) /\ p.kind = "media" /\ u = <<p>> \o uu
      BY <1>10 DEF FrameIn, u, uu
    <2>2. Media(Append(audio, p)) = Append(Media(audio), p)
      BY <1>2, <2>1, MediaBack
    <2>3. aa = Append(a, p)
      BY <2>1, <2>2 DEF a, aa
    <2>4. <<p>> \in Seq(Packets) /\ Append(a, p) = a \o <<p>>
      BY <1>2, AppendIsConcat
    <2>5. (a \o <<p>>) \o uu = a \o (<<p>> \o uu)
      BY <1>2, <1>3, <2>4, ConcatAssociative
    <2> QED
      BY <2>1, <2>3, <2>4, <2>5
  <1>11. CASE FrameOut
    <2>1. UNCHANGED <<finished, talked>> /\ audio # <<>> /\ audio' = Tail(audio) /\ uu = u
          /\ IF Head(audio) = End THEN routed' = routed ELSE routed' = Head(audio).n
      BY <1>11 DEF FrameOut, u, uu
    <2>2. /\ audio = <<Head(audio)>> \o Tail(audio) /\ Head(audio) \in Packets /\ Tail(audio) \in Seq(Packets)
          /\ Head(audio) = audio[1] /\ 1 \in DOMAIN audio
      BY <1>2, <2>1, HeadRest
    <2>3. PICK h \in Packets : h = Head(audio)
      BY <2>2
    <2>4. /\ h.kind = "media" => Media(<<h>> \o Tail(audio)) = <<h>> \o Media(Tail(audio))
          /\ h.kind = "end" => Media(<<h>> \o Tail(audio)) = Media(Tail(audio))
      BY <2>2, MediaFront
    <2>5. CASE h = End
      <3>1. a = aa
        BY <2>1, <2>2, <2>3, <2>4, <2>5, EndOK DEF a, aa
      <3> QED
        BY <1>6, <2>1, <2>3, <2>5, <3>1
    <2>6. CASE h # End
      <3>1. h.kind = "media"
        BY <2>2, <2>3, <2>6 DEF Kinds
      <3>2. a = <<h>> \o aa
        BY <2>1, <2>2, <2>3, <2>4, <3>1 DEF a, aa
      <3>3. a \o u = <<h>> \o (aa \o uu) /\ aa \o uu \in Seq(Packets)
        <4>1. <<h>> \in Seq(Packets)
          OBVIOUS
        <4>2. (<<h>> \o aa) \o u = <<h>> \o (aa \o u) /\ aa \o u \in Seq(Packets)
          BY <1>2, <1>3, <4>1, ConcatAssociative, ConcatProperties
        <4> QED
          BY <2>1, <3>2, <4>2
      <3>4. Rising(<<h>> \o (aa \o uu), routed, talked)
        BY <1>4, <3>3
      <3>5. /\ h.n < talked /\ Rising(aa \o uu, h.n, talked)
            /\ Complete(<<h>> \o (aa \o uu), routed, talked) => Complete(aa \o uu, h.n, talked)
        BY <1>2, <3>3, <3>4, RisingFront
      <3>6. routed' = h.n
        BY <2>1, <2>3, <2>6
      <3> QED
        BY <1>4, <2>1, <3>3, <3>5, <3>6
    <2> QED
      BY <2>5, <2>6
  <1>12. CASE Over
    <2>1. UNCHANGED <<routed, talked>> /\ Finish /\ (uu = u \/ uu = <<>>)
      BY <1>12 DEF Over, u, uu
    <2>2. finished'
      BY <2>1 DEF Finish
    <2>3. a = aa \/ \E h \in Packets : a = <<h>> \o aa
      BY <1>2, <2>1, OverFrames DEF a, aa
    <2>4. Rising(aa \o u, routed, talked)
      <3>1. CASE a = aa
        BY <1>4, <3>1
      <3>2. ASSUME NEW h \in Packets, a = <<h>> \o aa PROVE Rising(aa \o u, routed, talked)
        <4>1. <<h>> \in Seq(Packets)
          OBVIOUS
        <4>2. (<<h>> \o aa) \o u = <<h>> \o (aa \o u) /\ aa \o u \in Seq(Packets)
          BY <1>2, <1>3, <4>1, ConcatAssociative, ConcatProperties
        <4>3. Rising(<<h>> \o (aa \o u), routed, talked)
          BY <1>4, <3>2, <4>2
        <4> QED
          BY <4>1, <4>2, <4>3, RisingParts
      <3> QED
        BY <2>3, <3>1, <3>2
    <2>5. Rising(aa, routed, talked) /\ aa \o <<>> = aa
      BY <1>2, <1>3, <2>4, RisingParts, ConcatEmptySeq
    <2> QED
      BY <1>4, <2>1, <2>2, <2>4, <2>5
  <1> QED
    BY <1>1, <1>6, <1>7, <1>8, <1>9, <1>10, <1>11, <1>12 DEF Move

\* Where the kinds of a queue's packets hold, they hold with one more and one less.
LEMMA EachOK ==
  ASSUME NEW q \in Seq(Packets), NEW p \in Packets
  PROVE  /\ \A i \in DOMAIN Append(q, p) : Append(q, p)[i] = p \/ \E j \in DOMAIN q : Append(q, p)[i] = q[j]
         /\ q # <<>> => \A i \in DOMAIN Tail(q) : \E j \in DOMAIN q : Tail(q)[i] = q[j]
  <1>1. /\ Len(q) \in Nat /\ DOMAIN q = 1..Len(q) /\ DOMAIN Append(q, p) = 1..(Len(q) + 1)
        /\ \A i \in DOMAIN q : Append(q, p)[i] = q[i]
        /\ Append(q, p)[Len(q) + 1] = p
    BY AppendOK
  <1>2. ASSUME NEW i \in DOMAIN Append(q, p)
        PROVE  Append(q, p)[i] = p \/ \E j \in DOMAIN q : Append(q, p)[i] = q[j]
    <2>1. i = Len(q) + 1 \/ i \in DOMAIN q
      BY <1>1, <1>2
    <2> QED
      BY <1>1, <2>1
  <1>3. ASSUME q # <<>> PROVE \A i \in DOMAIN Tail(q) : \E j \in DOMAIN q : Tail(q)[i] = q[j]
    BY <1>3, TailLengths
  <1> QED
    BY <1>2, <1>3

LEMMA KindsStep == IInv /\ Kinds /\ [Next]_vars => Kinds'
  <1> SUFFICES ASSUME IInv, Kinds, [Next]_vars PROVE Kinds'
    OBVIOUS
  <1>0. TypeOK /\ audio \in Seq(Packets) /\ events \in Seq(Packets) /\ held \in Packets /\ End \in Packets
        /\ receiver \in {"reading", "holding", "over"}
    BY WireTypes, EndOK DEF IInv, TypeOK
  <1> DEFINE Mark(q) == \A i \in DOMAIN q : q[i].kind = "media" \/ q[i] = End
             Open(q) == \A i \in DOMAIN q : q[i] # End
  <1>1. SUFFICES /\ receiver' = "holding" => held'.kind \in {"media", "played", "cleared"}
                 /\ receiver' # "holding" => held' = Nothing
                 /\ Mark(audio') /\ (~finished' => Open(audio') /\ Open(events'))
    BY DEF Kinds
  <1>2. Mark(audio) /\ (~finished => Open(audio) /\ Open(events))
    BY DEF Kinds
  <1>3. ASSUME NEW q \in Seq(Packets), NEW p \in Packets
        PROVE  /\ Mark(q) /\ (p.kind = "media" \/ p = End) => Mark(Append(q, p))
               /\ Open(q) /\ p # End => Open(Append(q, p))
               /\ Mark(q) /\ q # <<>> => Mark(Tail(q))
               /\ Open(q) /\ q # <<>> => Open(Tail(q))
    BY EachOK
  <1> HIDE DEF Mark, Open
  <1>4. Finish => Mark(audio') /\ finished'
    <2> SUFFICES ASSUME Finish PROVE Mark(audio') /\ finished'
      OBVIOUS
    <2>1. QueueMax \in Nat /\ QueueMax # 0 /\ Len(<<>>) = 0
      BY VobizAssumption
    <2>2. audio' = audio \/ audio' = Append(audio, End) \/ (audio # <<>> /\ audio' = Append(Tail(audio), End))
      BY <2>1, VobizAssumption DEF Finish, PutTerminal
    <2>3. audio # <<>> => Tail(audio) \in Seq(Packets)
      BY <1>0, HeadRest
    <2>4. Mark(Append(audio, End))
      BY <1>0, <1>2, <1>3
    <2>5. audio # <<>> => Mark(Tail(audio))
      BY <1>0, <1>2, <1>3
    <2>6. audio # <<>> => Mark(Append(Tail(audio), End))
      BY <1>0, <1>3, <2>3, <2>5
    <2> QED
      BY <1>2, <2>2, <2>4, <2>6 DEF Finish
  <1>5. CASE Receive
    <2>1. PICK p \in Packets : p = Head(wire)
      <3>1. Head(wire) \in Packets
        BY <1>0, <1>5, ReceiveCases
      <3> QED
        BY <3>1
    <2>2. receiver = "reading" /\ held = Nothing
      BY <1>5 DEF Receive, Kinds
    <2>3. CASE p.kind = "start"
      <3>1. HandleStart(p)
        BY <1>5, <2>1, <2>3 DEF Receive
      <3>2. held' = Nothing /\ receiver' # "holding"
        BY <2>2, <3>1 DEF HandleStart
      <3>3. Finish \/ UNCHANGED <<finished, audio, events>>
        BY <3>1 DEF HandleStart
      <3> QED
        BY <1>2, <1>4, <3>2, <3>3
    <2>4. CASE p.kind = "media"
      <3>1. PutAudio(p) /\ UNCHANGED finished
        BY <1>5, <2>1, <2>4 DEF Receive
      <3>2. /\ (receiver' = "holding" => held'.kind = "media") /\ (receiver' # "holding" => held' = Nothing)
            /\ audio' = audio \/ audio' = Append(audio, p)
            /\ events' = events
        BY <2>2, <2>4, <3>1 DEF PutAudio, ReadOn
      <3>3. Mark(Append(audio, p)) /\ (~finished => Open(Append(audio, p)))
        BY <1>0, <1>2, <1>3, <2>4, EndOK
      <3> QED
        BY <1>2, <3>1, <3>2, <3>3
    <2>5. CASE p.kind \in {"played", "cleared"}
      <3>1. PutEvent(p) /\ UNCHANGED finished
        BY <1>5, <2>1, <2>5 DEF Receive
      <3>2. /\ (receiver' = "holding" => held'.kind \in {"played", "cleared"})
            /\ (receiver' # "holding" => held' = Nothing)
            /\ events' = events \/ events' = Append(events, p)
            /\ audio' = audio
        BY <2>2, <2>5, <3>1 DEF PutEvent, ReadOn
      <3>3. ~finished => Open(Append(events, p))
        BY <1>0, <1>2, <1>3, <2>5, EndOK
      <3> QED
        BY <1>2, <3>1, <3>2, <3>3
    <2>6. CASE p.kind \notin {"start", "media", "played", "cleared"}
      <3>1. Ended(p)
        BY <1>5, <2>1, <2>6 DEF Receive
      <3> QED
        BY <1>4, <2>2, <3>1 DEF Ended
    <2> QED
      BY <2>3, <2>4, <2>5, <2>6
  <1>6. CASE PutHeld
    <2>1. held' = Nothing /\ receiver' # "holding" /\ UNCHANGED finished
          /\ held.kind \in {"media", "played", "cleared"}
      BY <1>6 DEF PutHeld, ReadOn, Kinds
    <2>2. CASE held.kind = "media"
      <3>1. audio' = Append(audio, held) /\ UNCHANGED events
        BY <1>6, <2>2 DEF PutHeld
      <3>2. Mark(Append(audio, held)) /\ (~finished => Open(Append(audio, held)))
        BY <1>0, <1>2, <1>3, <2>2, EndOK
      <3> QED
        BY <1>2, <2>1, <3>1, <3>2
    <2>3. CASE held.kind # "media"
      <3>1. events' = Append(events, held) /\ UNCHANGED audio
        BY <1>6, <2>3 DEF PutHeld
      <3>2. ~finished => Open(Append(events, held))
        BY <1>0, <1>2, <1>3, <2>1, EndOK
      <3> QED
        BY <1>2, <2>1, <3>1, <3>2
    <2> QED
      BY <2>2, <2>3
  <1>7. CASE \E s \in Stoppers : StopReturns(s)
    BY <1>4, <1>7 DEF StopReturns, CancelReceiver
  <1>8. CASE SendFails
    <2>1. UNCHANGED <<receiver, held>> /\ (Finish \/ UNCHANGED <<finished, audio, events>>)
      BY <1>8 DEF SendFails
    <2> QED
      BY <1>2, <1>4, <2>1 DEF Kinds
  <1>9. CASE RouteFrame
    <2>1. UNCHANGED <<receiver, held, finished, events>> /\ audio # <<>> /\ audio' = Tail(audio)
      BY <1>9 DEF RouteFrame
    <2>2. Mark(Tail(audio)) /\ (~finished => Open(Tail(audio)))
      BY <1>0, <1>2, <1>3, <2>1
    <2> QED
      BY <1>2, <2>1, <2>2 DEF Kinds
  <1>10. CASE TakeEvent
    <2>1. UNCHANGED <<receiver, held, finished, audio>> /\ events # <<>> /\ events' = Tail(events)
      BY <1>10 DEF TakeEvent
    <2>2. ~finished => Open(Tail(events))
      BY <1>0, <1>2, <1>3, <2>1
    <2> QED
      BY <1>2, <2>1, <2>2 DEF Kinds
  <1>11. CASE UNCHANGED <<receiver, held, finished, audio, events>>
    BY <1>2, <1>11 DEF Kinds
  <1>12. CASE \/ UNCHANGED vars \/ Session \/ TakeFrame \/ HungUp \/ HangupOver \/ Platform
              \/ SendStarts \/ SendChunk \/ SendCheckpoint \/ Clear
              \/ \E s \in Stoppers : StopSent(s)
    <2>1. UNCHANGED <<receiver, held, finished, audio, events>>
      BY <1>12 DEF vars, adapter, Session, StartSeen, StartTimeout, LoopsStart, StartFails,
         ShutDown,
         TakeFrame, HungUp, HangupOver, SendStarts, SendChunk, SendCheckpoint, Clear,
         ClearStarts,
         ClearReturns, ClearTimeout, StopSent, Platform, Connect, Talk, PlayNext,
         CarryOutClear, HangUp
    <2> QED
      BY <1>11, <2>1
  <1> QED
    BY <1>5, <1>6, <1>7, <1>8, <1>9, <1>10, <1>12 DEF Next, Receiver, Stops, Output

\* Frames up to the r-th, in order; and the same with p put behind them.
Fresh(q, r) ==
    /\ \A i \in DOMAIN q : q[i] # End /\ q[i].n <= r
    /\ \A i, j \in DOMAIN q : i < j => q[i].n < q[j].n
EndsIn(t, p, r) ==
    /\ \A i \in DOMAIN t : t[i] = End \/ t[i].n <= r
    /\ \A i, j \in DOMAIN t : i < j => t[i] # End /\ (t[j] = End \/ t[i].n < t[j].n)
    /\ t # <<>> /\ t[Len(t)] = p
    /\ p # End => \A i \in DOMAIN t : t[i] # End

\* What the audio loop puts is the latest.
LEMMA PutSttOK ==
  ASSUME NEW q \in Seq(Packets), NEW p \in Packets, NEW r \in Nat, NEW rr \in Nat, r <= rr,
         p = End \/ (p.n = rr /\ r < rr), Fresh(q, r)
  PROVE  EndsIn(Append(q, p), p, rr)
  <1> DEFINE t == Append(q, p)
  <1>0. /\ \A i \in DOMAIN q : q[i] # End /\ q[i].n <= r
        /\ \A i, j \in DOMAIN q : i < j => q[i].n < q[j].n
    BY DEF Fresh
  <1> DEFINE l == Len(q)
  <1>1. /\ l \in Nat /\ DOMAIN q = 1..l /\ DOMAIN t = 1..(l + 1) /\ Len(t) = l + 1
        /\ t[l + 1] = p /\ \A i \in 1..l : t[i] = q[i]
    BY AppendOK
  <1>2. \A i \in 1..l : q[i].n \in Nat /\ q[i] # End /\ q[i].n <= r
    BY <1>0, <1>1, NumberOK
  <1>3. t # <<>>
    BY AppendProperties
  <1> HIDE DEF l, t
  <1>4. \A i \in DOMAIN t : i \in 1..l \/ i = l + 1
    BY <1>1
  <1>5. \A i \in DOMAIN t : t[i] = End \/ t[i].n <= rr
    <2> TAKE i \in DOMAIN t
    <2>1. CASE i \in 1..l
      <3>1. q[i].n <= rr
        BY <1>2, <2>1
      <3> QED
        BY <1>1, <2>1, <3>1
    <2>2. CASE i = l + 1
      BY <1>1, <2>2
    <2> QED
      BY <1>4, <2>1, <2>2
  <1>6. ASSUME NEW i \in DOMAIN t, NEW j \in DOMAIN t, i < j
        PROVE  t[i] # End /\ (t[j] = End \/ t[i].n < t[j].n)
    <2>1. i \in 1..l
      BY <1>1, <1>6
    <2>2. t[i] = q[i] /\ t[i] # End
      BY <1>1, <1>2, <2>1
    <2>3. CASE j \in 1..l
      <3>1. q[i].n < q[j].n
        BY <1>0, <1>1, <1>6, <2>1, <2>3
      <3> QED
        BY <1>1, <2>2, <2>3, <3>1
    <2>4. CASE j = l + 1
      <3>1. t[j] = p
        BY <1>1, <2>4
      <3>2. p # End => q[i].n < p.n
        BY <1>2, <2>1
      <3> QED
        BY <2>2, <3>1, <3>2
    <2> QED
      BY <1>4, <2>3, <2>4
  <1>7. ASSUME p # End PROVE \A i \in DOMAIN t : t[i] # End
    BY <1>1, <1>2, <1>4, <1>7
  <1>8. EndsIn(t, p, rr)
    BY <1>1, <1>3, <1>5, <1>6, <1>7 DEF EndsIn
  <1> QED
    BY <1>8 DEF t

LEMMA SttStep == IInv /\ Kinds /\ FramesKept /\ SttKept /\ [Next]_vars => SttKept'
  <1> SUFFICES ASSUME IInv, Kinds, FramesKept, SttKept, [Next]_vars PROVE SttKept'
    OBVIOUS
  <1>0. /\ TypeOK /\ stt \in Seq(Packets) /\ audio \in Seq(Packets) /\ routed \in Nat /\ talked \in Nat
        /\ audioLoop \in {"off", "on", "over"}
    BY NumbersOK, WireTypes DEF IInv, TypeOK
  <1>1. /\ audioLoop = "off" => stt = <<>>
        /\ session = "over" => audioLoop = "over"
        /\ audioLoop # "over" => \A i \in DOMAIN stt : stt[i] # End
        /\ \A i \in DOMAIN stt : stt[i] = End \/ stt[i].n <= routed
        /\ \A i, j \in DOMAIN stt : i < j => stt[i] # End /\ (stt[j] = End \/ stt[i].n < stt[j].n)
        /\ stt # <<>> /\ session # "over" /\ audioLoop = "over" => stt[Len(stt)] = End
        /\ stt # <<>> /\ audioLoop = "on" => stt[Len(stt)].n = routed
    BY DEF SttKept
  <1>2. CASE RouteFrame
    <2>1. audioLoop = "on" /\ session # "over" /\ UNCHANGED session /\ audio # <<>>
      BY <1>1, <1>2 DEF RouteFrame, tasks
    <2>2. /\ audio = <<Head(audio)>> \o Tail(audio) /\ Head(audio) \in Packets /\ Tail(audio) \in Seq(Packets)
          /\ Head(audio) = audio[1] /\ 1 \in DOMAIN audio
      BY <1>0, <2>1, HeadRest
    <2>3. PICK p \in Packets : p = Head(audio)
      BY <2>2
    <2>4. IF p = End THEN audioLoop' = "over" /\ routed' = routed ELSE audioLoop' = "on" /\ routed' = p.n
      BY <1>2, <2>1, <2>3 DEF RouteFrame
    <2>5. p = End \/ (p.n \in Nat /\ routed < p.n)
      <3> SUFFICES ASSUME p # End PROVE p.n \in Nat /\ routed < p.n
        OBVIOUS
      <3> DEFINE b == Media(Tail(audio))
                 u == Media(Unread)
      <3>1. b \in Seq(Packets) /\ u \in Seq(Packets) /\ <<p>> \in Seq(Packets)
        <4>1. Unread \in Seq(Packets) /\ <<p>> \in Seq(Packets)
          BY <1>0, WireTypes
        <4>2. b \in Seq(Packets)
          BY <2>2, MediaType
        <4>3. u \in Seq(Packets)
          BY <4>1, MediaType
        <4> QED
          BY <4>1, <4>2, <4>3
      <3>2. p.kind = "media"
        BY <2>2, <2>3 DEF Kinds
      <3>3. Media(<<p>> \o Tail(audio)) = <<p>> \o b
        BY <2>2, <3>2, MediaFront
      <3>4. Frames = (<<p>> \o b) \o u
        BY <2>2, <2>3, <3>3, Zenon DEF Frames
      <3> HIDE DEF b, u
      <3>5. (<<p>> \o b) \o u = <<p>> \o (b \o u) /\ b \o u \in Seq(Packets)
        BY <3>1, ConcatAssociative, ConcatProperties
      <3>6. Rising(<<p>> \o (b \o u), routed, talked)
        BY <3>4, <3>5 DEF FramesKept
      <3> QED
        BY <1>0, <3>5, <3>6, RisingFront
    <2>6. PICK rr \in Nat : rr = routed' /\ routed <= rr
      BY <1>0, <2>4, <2>5
    <2>7. p = End \/ (p.n = rr /\ routed < rr)
      BY <2>4, <2>5, <2>6
    <2> DEFINE q == IF Len(stt) < SttMax THEN stt ELSE Tail(stt)
    <2>8. stt' = Append(q, p)
      BY <1>2, <2>3 DEF RouteFrame, PutStt
    <2>9. /\ q \in Seq(Packets) /\ \A i \in DOMAIN q : q[i] # End /\ q[i].n <= routed
          /\ \A i, j \in DOMAIN q : i < j => q[i].n < q[j].n
      <3>1. /\ \A i \in DOMAIN stt : stt[i] # End /\ stt[i].n <= routed
            /\ \A i, j \in DOMAIN stt : i < j => stt[i].n < stt[j].n
        BY <1>1, <2>1
      <3>2. CASE Len(stt) < SttMax
        BY <1>0, <3>1, <3>2
      <3>3. CASE ~(Len(stt) < SttMax)
        <4>1. stt # <<>> /\ q = Tail(stt)
          <5>1. Len(<<>>) = 0 /\ SttMax \in Nat /\ SttMax # 0
            BY VobizAssumption
          <5> QED
            BY <3>3, <5>1
        <4>2. Tail(stt) \in Seq(Packets)
          BY <1>0, <4>1, HeadRest
        <4>3. /\ DOMAIN Tail(stt) \subseteq Nat
              /\ \A i \in DOMAIN Tail(stt) : i + 1 \in DOMAIN stt /\ Tail(stt)[i] = stt[i + 1]
          BY <1>0, <4>1, TailLengths
        <4>4. \A i, j \in DOMAIN Tail(stt) : i < j => i + 1 < j + 1
          BY <4>3
        <4>5. /\ \A i \in DOMAIN Tail(stt) : Tail(stt)[i] # End /\ Tail(stt)[i].n <= routed
              /\ \A i, j \in DOMAIN Tail(stt) : i < j => Tail(stt)[i].n < Tail(stt)[j].n
          BY <3>1, <4>3, <4>4
        <4> HIDE DEF q
        <4> QED
          BY <4>1, <4>2, <4>5
      <3> QED
        BY <3>2, <3>3
    <2> HIDE DEF q
    <2>10. /\ \A i \in DOMAIN stt' : stt'[i] = End \/ stt'[i].n <= rr
           /\ \A i, j \in DOMAIN stt' : i < j => stt'[i] # End /\ (stt'[j] = End \/ stt'[i].n < stt'[j].n)
           /\ stt' # <<>> /\ stt'[Len(stt')] = p
           /\ p # End => \A i \in DOMAIN stt' : stt'[i] # End
      <3>1. Fresh(q, routed) /\ q \in Seq(Packets) /\ routed \in Nat /\ routed <= rr
        BY <1>0, <2>6, <2>9 DEF Fresh
      <3>2. EndsIn(Append(q, p), p, rr)
        BY <2>7, <3>1, PutSttOK
      <3> QED
        BY <2>8, <3>2 DEF EndsIn
    <2> QED
      BY <2>1, <2>4, <2>6, <2>7, <2>10 DEF SttKept
  <1>3. CASE TakeFrame
    <2>1. stt # <<>> /\ stt' = Tail(stt) /\ UNCHANGED <<audioLoop, session, routed>>
      BY <1>3 DEF TakeFrame, tasks
    <2>2. /\ DOMAIN Tail(stt) \subseteq Nat /\ Len(stt) \in Nat /\ DOMAIN stt = 1..Len(stt)
          /\ DOMAIN Tail(stt) = 1..(Len(stt) - 1)
          /\ \A i \in DOMAIN Tail(stt) : i + 1 \in DOMAIN stt /\ Tail(stt)[i] = stt[i + 1]
      BY <1>0, <2>1, TailLengths
    <2>3. \A i, j \in DOMAIN Tail(stt) : i < j => i + 1 < j + 1
      BY <2>2
    <2> DEFINE t == Tail(stt)
    <2>4. /\ audioLoop # "over" => \A i \in DOMAIN t : t[i] # End
          /\ \A i \in DOMAIN t : t[i] = End \/ t[i].n <= routed
          /\ \A i, j \in DOMAIN t : i < j => t[i] # End /\ (t[j] = End \/ t[i].n < t[j].n)
      BY <1>1, <2>2, <2>3
    <2>5. ASSUME t # <<>> PROVE t[Len(t)] = stt[Len(stt)]
      <3>1. t \in Seq(Packets) /\ Len(t) = Len(stt) - 1
        BY <1>0, <2>1, HeadTailProperties
      <3>2. Len(t) \in Nat /\ Len(t) # 0
        BY <2>5, <3>1, EmptySeq
      <3>3. Len(t) \in DOMAIN t /\ Len(t) + 1 = Len(stt)
        BY <2>2, <3>1, <3>2
      <3> QED
        BY <2>2, <3>3
    <2> HIDE DEF t
    <2>6. stt' = t
      BY <2>1 DEF t
    <2> QED
      BY <1>1, <2>1, <2>4, <2>5, <2>6 DEF SttKept
  <1>4. CASE LoopsStart
    <2>1. audioLoop = "off" /\ stt = <<>> /\ UNCHANGED <<stt, routed>> /\ session' = "running" /\ audioLoop' = "on"
      BY <1>1, <1>4 DEF LoopsStart, IInv, UnderWay
    <2> QED
      BY <2>1 DEF SttKept
  <1>5. CASE UNCHANGED <<stt, routed, audioLoop>> /\ (session' = session \/ (session # "over" /\ session' # "over"))
    BY <1>1, <1>5 DEF SttKept
  <1>6. CASE \E s \in Stoppers : StopReturns(s)
    <2>1. CASE UNCHANGED <<stt, routed, session, audioLoop>>
      BY <1>5, <2>1
    <2>2. CASE UNCHANGED <<stt, routed>> /\ session' = "over" /\ audioLoop' = "over"
      BY <1>1, <2>2 DEF SttKept
    <2> QED
      BY <1>6, <2>1, <2>2 DEF StopReturns
  <1>7. CASE \/ UNCHANGED vars \/ Receiver \/ StartSeen \/ StartTimeout \/ StartFails \/ ShutDown
             \/ TakeEvent \/ HungUp \/ HangupOver \/ Output \/ Clear \/ Platform
             \/ \E s \in Stoppers : StopSent(s)
    <2>1. UNCHANGED <<stt, routed, audioLoop>>
      BY <1>7 DEF vars, loops, Receiver, Receive, PutHeld, StartSeen, StartTimeout, StartFails,
         ShutDown,
         TakeEvent, HungUp, HangupOver, Output, SendStarts, SendChunk, SendCheckpoint,
         SendFails, Clear,
         ClearStarts, ClearReturns, ClearTimeout, StopSent, Platform, Connect, Talk, PlayNext,
         CarryOutClear, HangUp
    <2>2. session' = session \/ (session # "over" /\ session' # "over")
      BY <1>7 DEF vars, tasks, Receiver, Receive, PutHeld, StartSeen, StartTimeout, StartFails,
         ShutDown,
         TakeEvent, HungUp, HangupOver, Output, SendStarts, SendChunk, SendCheckpoint,
         SendFails, Clear,
         ClearStarts, ClearReturns, ClearTimeout, StopSent, Platform, Connect, Talk, PlayNext,
         CarryOutClear, HangUp
    <2> QED
      BY <1>5, <2>1, <2>2
  <1> QED
    BY <1>2, <1>3, <1>4, <1>6, <1>7 DEF Next, Session, Stops

LEMMA OnTheWayInit == Init => OnTheWay
  <1> SUFFICES ASSUME Init PROVE OnTheWay
    OBVIOUS
  <1>1. audio = <<>> /\ events = <<>> /\ held = Nothing /\ wire = <<>> /\ seen = <<>> /\ told = <<>> /\ stt = <<>>
        /\ routed = 0 /\ talked = 0 /\ audioLoop = "off" /\ session = "waiting" /\ receiver = "reading"
    BY DEF Init
  <1>2. <<>> \in Seq(Packets) /\ <<>> \o <<>> = <<>> /\ \A i \in DOMAIN <<>> : FALSE
    OBVIOUS
  <1>3. Unread = <<>>
    BY <1>1, <1>2 DEF Unread
  <1>4. EventsKept
    BY <1>1, <1>2, <1>3, MediaNone DEF EventsKept
  <1>5. Frames = <<>>
    BY <1>1, <1>2, <1>3, MediaNone DEF Frames
  <1>6. FramesKept
    BY <1>1, <1>2, <1>5 DEF FramesKept, Rising
  <1> QED
    BY <1>1, <1>2, <1>4, <1>6 DEF OnTheWay, Kinds, SttKept

LEMMA OnTheWayInductive == Spec => []OnTheWay
  <1>1. IInv /\ OnTheWay /\ [Next]_vars => OnTheWay'
    BY KindsStep, EventsStep, FramesStep, SttStep DEF OnTheWay
  <1> QED
    BY <1>1, OnTheWayInit, Inductive, PTL DEF Spec

\* While the stream is up the playback loop has, or will have, every playback
\* event in the order of the platform, and the audio loop every frame; from
\* there on the recogniser gets the latest frames, in order, and the end last
\* (_receiver_loop, the two bounded queues, _receive_audio_loop, put_packet).
THEOREM NothingSkippedHolds == Spec => []NothingSkipped
  <1>1. ASSUME IInv, OnTheWay PROVE NothingSkipped
    <2> USE <1>1 DEF OnTheWay
    <2>1. /\ TypeOK /\ audio \in Seq(Packets) /\ Unread \in Seq(Packets) /\ talked \in Nat
          /\ Frames \in Seq(Packets)
      <3>1. TypeOK /\ talked \in Nat
        BY NumbersOK DEF IInv, TypeOK
      <3>2. Media(audio) \in Seq(Packets) /\ Media(Unread) \in Seq(Packets)
        BY <3>1, WireTypes, MediaType
      <3> QED
        BY <3>1, <3>2, WireTypes, ConcatProperties DEF Frames
    <2>2. Media(audio \o Unread) = Frames
      BY <2>1, OfKindConcat DEF Frames, Media
    <2>3. ~finished => told = seen \o events \o Events(Unread)
      BY DEF EventsKept
    <2>4. ~finished /\ talked > 0 => routed + Len(Frames) = talked - 1 /\ \A i \in DOMAIN Frames : Frames[i].n = routed + i
      BY DEF FramesKept, Complete
    <2>5. talked = 0 => \A i \in DOMAIN Frames : FALSE
      <3>1. talked = 0 => \A i \in DOMAIN Frames : Frames[i].n \in Nat /\ Frames[i].n < 0
        BY <2>1, NumberOK DEF FramesKept, Rising
      <3> QED
        BY <3>1
    <2>6. /\ \A i, j \in DOMAIN stt : i < j => stt[i] # End /\ (stt[j].n > stt[i].n \/ stt[j] = End)
          /\ (stt # <<>> /\ session # "over" => (stt[Len(stt)] = End <=> audioLoop = "over"))
          /\ (stt # <<>> /\ audioLoop = "on" => stt[Len(stt)].n = routed)
      <3>1. stt \in Seq(Packets)
        BY <2>1 DEF TypeOK
      <3>2. stt # <<>> => Len(stt) \in DOMAIN stt
        BY <3>1, EmptySeq, LenProperties
      <3>3. \A i, j \in DOMAIN stt : i < j => stt[i] # End /\ (stt[j].n > stt[i].n \/ stt[j] = End)
        <4>1. \A i \in DOMAIN stt : stt[i].n \in Nat
          BY <3>1, NumberOK
        <4> QED
          BY <4>1 DEF SttKept
      <3> QED
        BY <3>2, <3>3 DEF SttKept
    <2> QED
      BY <2>1, <2>2, <2>3, <2>4, <2>5, <2>6 DEF NothingSkipped
  <1> QED
    BY <1>1, Inductive, OnTheWayInductive, PTL
=============================================================================
