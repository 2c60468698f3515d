--------------------------- MODULE RecordingProofs ---------------------------
(***************************************************************************)
(* Proofs about Recording for every set of records and every bound: a      *)
(* record is in one place and none disappears, a purge cuts the ring and   *)
(* the rows at one point, and totals are those of the rows.                *)
(***************************************************************************)
EXTENDS Recording, FiniteSetTheorems, WellFoundedInduction, TLAPS

\* The ids of requests are fresh: no backup and no other process has them.
Setting ==
  /\ IsFiniteSet(Incoming)
  /\ Records \cap (Incoming \cup Foreign \cup {None}) = {}

Places == {"select", "load", "work", "account", "publish", "remove", "done"}
Writers == [at : Places, held : Records \cup {None}, mode : {"run", "flush", "close"},
            serving : BOOLEAN, final : BOOLEAN, failed : BOOLEAN, error : BOOLEAN]
Commands == [all : BOOLEAN, accepted : Nat, boundary : SUBSET Ids,
             result : {None, "due", "ok", "failed"}]

Typed ==
  /\ queue \in Seq(Records) /\ batch \in Seq(Records)
  /\ accepted \in Nat /\ consumed \in Nat
  /\ w \in Writers /\ pending \in Commands
  /\ Range(ring) \subseteq Ids /\ DOMAIN rows \subseteq Ids

InHand == IF w.held = None THEN 0 ELSE 1

\* A record is enqueued once and taken from the queue once.
OnceQueued ==
  /\ \A m, n \in 1 .. Len(queue) : queue[m] = queue[n] => m = n
  /\ Range(queue) \cap Range(batch) = {}
  /\ w.held \notin Range(queue) \cup Range(batch)
  /\ w.at = "select" => w.held = None /\ ~w.serving
  /\ accepted = consumed + InHand + Len(queue)

\* OnePlace, record by record.
Apart ==
  \A r \in Records :
    /\ r \in Queued => r \notin DOMAIN rows \cup dropped \cup purged \cup lost
    /\ r \in DOMAIN rows => r \notin dropped \cup purged \cup lost
    /\ r \in dropped => r \notin purged \cup lost
    /\ r \in purged => r \notin lost

RingSeen == Range(ring) \subseteq Seen

\* What joined the ring after the fence the writer has not taken, or holds in hand.
Beyond(r) ==
  /\ r \notin DOMAIN rows \cup Range(batch)
  /\ w.held = r => consumed + 1 > pending.accepted
  /\ \A n \in 1 .. Len(queue) : queue[n] = r => consumed + InHand + n > pending.accepted

\* While a purge is due, the writer takes nothing that was enqueued after its fence.
FenceKept ==
  /\ w.serving => pending.result = "due"
  /\ ~up => pending.result = None
  /\ pending.result = "due" =>
       /\ consumed <= pending.accepted /\ pending.accepted <= accepted
       /\ w.held # None => IF w.serving THEN consumed = pending.accepted
                           ELSE w.at # "load" => consumed < pending.accepted
       /\ \A r \in Records : r \in Range(ring) /\ r \notin pending.boundary => Beyond(r)

\* purgeMu: a purge is due only while its administrator waits, and a merge that keeps
\* the connection is the one under way.
OneAdmin ==
  /\ pending.result = "due" => admin = "clear"
  /\ conn = "merge" => admin = "merge"

\* Between its commit and the removal from the ring a purge is still being served, no
\* selected record of ours has a row, and the purged ones the ring still shows are of
\* this purge and were in the ring at its fence.
Cutting == {"publish", "remove"}
CutKept ==
  /\ w.at \in Cutting => w.serving /\ DOMAIN rows \cap Selected \cap Records = {}
  /\ \A r \in Records : r \in purged /\ r \in Range(ring) =>
       w.at \in Cutting /\ r \in pending.boundary /\ r \in Selected

RecordsInv == Typed /\ OnceQueued /\ Apart /\ RingSeen /\ FenceKept

---------------------------------------------------------------------------
(* Sequences and what is kept by arrival number.                           *)

LEMMA AppendFacts ==
  ASSUME NEW S, NEW s \in Seq(S), NEW e \in S
  PROVE  /\ Append(s, e) \in Seq(S) /\ Len(Append(s, e)) = Len(s) + 1
         /\ Append(s, e)[Len(s) + 1] = e
         /\ \A n \in 1 .. Len(s) : Append(s, e)[n] = s[n]
         /\ Range(Append(s, e)) = Range(s) \cup {e}
<1>1. /\ Append(s, e) \in Seq(S) /\ Len(Append(s, e)) = Len(s) + 1
      /\ Append(s, e)[Len(s) + 1] = e
      /\ \A n \in 1 .. Len(s) : Append(s, e)[n] = s[n]
  OBVIOUS
<1>2. DOMAIN s = 1 .. Len(s) /\ DOMAIN Append(s, e) = 1 .. Len(s) + 1 /\ Len(s) \in Nat
  OBVIOUS
<1>3. 1 .. Len(s) + 1 = 1 .. Len(s) \cup {Len(s) + 1}
  BY <1>2
<1>4. QED
  BY <1>1, <1>2, <1>3 DEF Range

LEMMA TailFacts ==
  ASSUME NEW S, NEW s \in Seq(S), s # <<>>
  PROVE  /\ Tail(s) \in Seq(S) /\ Len(s) \in Nat /\ Len(s) >= 1
         /\ Len(Tail(s)) = Len(s) - 1
         /\ Head(s) \in S /\ Head(s) = s[1]
         /\ \A n \in 1 .. Len(s) - 1 : Tail(s)[n] = s[n + 1]
         /\ Range(s) = Range(Tail(s)) \cup {Head(s)}
         /\ Range(Tail(s)) \subseteq S
<1>1. /\ Tail(s) \in Seq(S) /\ Len(s) \in Nat /\ Len(s) >= 1
      /\ Len(Tail(s)) = Len(s) - 1
      /\ Head(s) \in S /\ Head(s) = s[1]
      /\ \A n \in 1 .. Len(s) - 1 : Tail(s)[n] = s[n + 1]
  OBVIOUS
<1>2. DOMAIN s = 1 .. Len(s) /\ DOMAIN Tail(s) = 1 .. Len(s) - 1
  BY <1>1
<1>3. Range(s) \subseteq Range(Tail(s)) \cup {Head(s)}
  <2> SUFFICES ASSUME NEW n \in 1 .. Len(s) PROVE s[n] \in Range(Tail(s)) \cup {Head(s)}
    BY <1>2 DEF Range
  <2>1. CASE n = 1
    BY <1>1, <2>1
  <2>2. CASE n # 1
    <3>1. n - 1 \in 1 .. Len(s) - 1 /\ Tail(s)[n - 1] = s[n]
      BY <1>1, <2>2
    <3>2. QED
      BY <1>2, <3>1 DEF Range
  <2>3. QED
    BY <2>1, <2>2
<1>4. Range(Tail(s)) \cup {Head(s)} \subseteq Range(s)
  <2>1. ASSUME NEW n \in 1 .. Len(s) - 1 PROVE Tail(s)[n] \in Range(s)
    <3>1. n + 1 \in 1 .. Len(s) /\ Tail(s)[n] = s[n + 1]
      BY <1>1, <2>1
    <3>2. QED
      BY <1>2, <3>1 DEF Range
  <2>2. s[1] \in Range(s)
    BY <1>1, <1>2 DEF Range
  <2>3. QED
    BY <1>1, <1>2, <2>1, <2>2 DEF Range
<1>5. Range(Tail(s)) \subseteq S
  BY <1>1 DEF Range
<1>6. QED
  BY <1>1, <1>3, <1>4, <1>5

LEMMA RecentFacts == Range(Recent) \subseteq DOMAIN rows
<1> DEFINE all == [n \in Range(rows) |-> CHOOSE i \in DOMAIN rows : rows[i] = n]
<1>1. \A n \in Range(rows) : \E i \in DOMAIN rows : rows[i] = n
  BY DEF Range
<1>2. \A n \in DOMAIN all : all[n] \in DOMAIN rows
  BY <1>1
<1> HIDE DEF all
<1>3. Range(Newest(all, RingCap)) \subseteq DOMAIN rows
  BY <1>2 DEF Newest, Restrict, Range
<1>4. QED
  BY <1>3 DEF Recent, all

\* A push adds its record and keeps no other than the ring had.
LEMMA PushFacts == \A r : Range(Push(r)) \subseteq Range(ring) \cup {r}
<1> SUFFICES ASSUME NEW r PROVE Range(Push(r)) \subseteq Range(ring) \cup {r}
  OBVIOUS
<1>1. Range(Longer(ring, r)) \subseteq Range(ring) \cup {r}
  BY DEF Longer, Range
<1>2. \A kept, cap : Range(Newest(kept, cap)) \subseteq Range(kept)
  BY DEF Newest, Restrict, Range
<1>3. QED
  BY <1>1, <1>2 DEF Push

---------------------------------------------------------------------------
(* What the steps do to the places a record can be in.                     *)

\* OnePlace pair by pair is Apart.
LEMMA ApartIsOnePlace == Apart <=> OnePlace
<1> DEFINE place == [queued |-> Queued, rows |-> DOMAIN rows, dropped |-> dropped,
                     purged |-> purged, lost |-> lost]
<1>1. OnePlace <=> \A p, q \in DOMAIN place :
        p # q => place[p] \intersect place[q] \intersect Records = {}
  BY DEF OnePlace
<1>2. DOMAIN place = {"queued", "rows", "dropped", "purged", "lost"}
  OBVIOUS
<1>3. /\ place["queued"] = Queued /\ place["rows"] = DOMAIN rows
      /\ place["dropped"] = dropped /\ place["purged"] = purged /\ place["lost"] = lost
  OBVIOUS
<1> HIDE DEF place
<1>4. ASSUME OnePlace PROVE Apart
  <2>1. /\ Queued \intersect DOMAIN rows \intersect Records = {}
        /\ Queued \intersect dropped \intersect Records = {}
        /\ Queued \intersect purged \intersect Records = {}
        /\ Queued \intersect lost \intersect Records = {}
    BY <1>1, <1>2, <1>3, <1>4
  <2>2. /\ DOMAIN rows \intersect dropped \intersect Records = {}
        /\ DOMAIN rows \intersect purged \intersect Records = {}
        /\ DOMAIN rows \intersect lost \intersect Records = {}
    BY <1>1, <1>2, <1>3, <1>4
  <2>3. /\ dropped \intersect purged \intersect Records = {}
        /\ dropped \intersect lost \intersect Records = {}
        /\ purged \intersect lost \intersect Records = {}
    BY <1>1, <1>2, <1>3, <1>4
  <2>4. QED
    BY <2>1, <2>2, <2>3 DEF Apart
<1>5. ASSUME Apart PROVE OnePlace
  <2> SUFFICES ASSUME NEW p \in DOMAIN place, NEW q \in DOMAIN place, p # q,
                      NEW r \in Records, r \in place[p], r \in place[q]
               PROVE  FALSE
    BY <1>1
  <2>1. /\ r \in Queued => r \notin DOMAIN rows /\ r \notin dropped /\ r \notin purged /\ r \notin lost
        /\ r \in DOMAIN rows => r \notin dropped /\ r \notin purged /\ r \notin lost
        /\ r \in dropped => r \notin purged /\ r \notin lost
        /\ r \in purged => r \notin lost
    BY <1>5 DEF Apart
  <2>2. QED
    BY <1>2, <1>3, <2>1
<1>6. QED
  BY <1>4, <1>5

\* Nothing moves: the writer changes where it is, or nothing of it.
LEMMA ControlStep ==
  ASSUME RecordsInv, UNCHANGED <<ring, queue, batch, accepted, consumed>>,
         UNCHANGED <<dropped, rows, purged, lost, pending>>,
         up' = up, w' \in Writers, w'.held = w.held,
         w'.at = "select" => w.held = None /\ ~w'.serving,
         w'.serving => pending.result = "due",
         pending.result = "due" /\ w.held # None =>
           IF w'.serving THEN consumed = pending.accepted
           ELSE w'.at # "load" => consumed < pending.accepted
  PROVE  RecordsInv'
<1> USE DEF RecordsInv
<1>1. Typed'
  BY DEF Typed
<1>2. OnceQueued'
  BY DEF OnceQueued, InHand
<1>3. Queued' = Queued
  BY DEF Queued
<1>4. Apart' /\ RingSeen'
  BY <1>3 DEF Apart, RingSeen, Seen
<1>5. FenceKept'
  BY DEF FenceKept, Beyond, InHand
<1>6. QED
  BY <1>1, <1>2, <1>4, <1>5

\* A record joins the ring and the queue.
LEMMA EnqueueStep ==
  ASSUME Setting, RecordsInv, NEW r \in Records, r \notin Seen, up,
         ring' = Push(r), queue' = Append(queue, r), accepted' = accepted + 1,
         UNCHANGED <<w, batch, consumed, dropped, rows, purged, lost, pending, up>>
  PROVE  RecordsInv'
<1> USE DEF RecordsInv
<1>1. /\ queue' \in Seq(Records) /\ Len(queue') = Len(queue) + 1 /\ Len(queue) \in Nat
      /\ queue'[Len(queue) + 1] = r
      /\ \A n \in 1 .. Len(queue) : queue'[n] = queue[n]
      /\ Range(queue') = Range(queue) \cup {r}
  BY AppendFacts DEF Typed
<1>2. Range(ring') \subseteq Range(ring) \cup {r}
  BY PushFacts
<1>3. Queued' = Queued \cup {r}
  BY <1>1 DEF Queued
<1>4. /\ r \notin Range(queue) /\ r \notin Range(batch) /\ r # w.held
      /\ r \notin DOMAIN rows /\ r \notin dropped /\ r \notin purged /\ r \notin lost
  BY DEF Seen, Queued, Setting
<1>5. Typed'
  BY <1>1, <1>2 DEF Typed, Ids
<1>6. \A n \in 1 .. Len(queue) : queue[n] # r
  BY <1>4 DEF Range, Typed
<1>7. OnceQueued'
  <2>1. ASSUME NEW m \in 1 .. Len(queue'), NEW n \in 1 .. Len(queue'), queue'[m] = queue'[n]
        PROVE  m = n
    <3>1. /\ m \in 1 .. Len(queue) \/ m = Len(queue) + 1
          /\ n \in 1 .. Len(queue) \/ n = Len(queue) + 1
      BY <1>1
    <3>2. \A i, j \in 1 .. Len(queue) : queue[i] = queue[j] => i = j
      BY DEF OnceQueued
    <3>3. QED
      BY <1>1, <1>6, <2>1, <3>1, <3>2
  <2>2. /\ Range(queue') \cap Range(batch) = {}
        /\ w.held \notin Range(queue') \cup Range(batch)
    BY <1>1, <1>4 DEF OnceQueued
  <2>3. accepted' = consumed + InHand + Len(queue')
    <3>1. accepted = consumed + InHand + Len(queue)
      BY DEF OnceQueued
    <3>2. accepted \in Nat /\ consumed \in Nat /\ InHand \in Nat
      BY DEF Typed, InHand
    <3>3. QED
      BY <1>1, <3>1, <3>2
  <2>4. QED
    BY <2>1, <2>2, <2>3 DEF OnceQueued, InHand
<1>8. Apart'
  BY <1>3, <1>4 DEF Apart
<1>9. RingSeen'
  BY <1>2, <1>3 DEF RingSeen, Seen
<1>10. FenceKept'
  <2>1. ASSUME pending.result = "due", NEW q \in Records, q \in Range(ring'),
               q \notin pending.boundary
        PROVE  Beyond(q)'
    <3>1. consumed + InHand + (Len(queue) + 1) > pending.accepted
      BY <2>1 DEF FenceKept, OnceQueued, Typed, Commands, InHand
    <3>2. CASE q = r
      BY <1>1, <1>4, <1>6, <3>1, <3>2 DEF Beyond, InHand
    <3>3. CASE q # r
      <4>1. Beyond(q)
        BY <1>2, <2>1, <3>3 DEF FenceKept
      <4>2. QED
        BY <1>1, <3>3, <4>1 DEF Beyond, InHand
    <3>4. QED
      BY <3>2, <3>3
  <2>2. pending.result = "due" => pending.accepted <= accepted'
    BY DEF FenceKept, Typed, Commands
  <2>3. QED
    BY <2>1, <2>2 DEF FenceKept
<1>11. QED
  BY <1>5, <1>7, <1>8, <1>9, <1>10

\* A record joins the ring and is counted as dropped.
LEMMA DropStep ==
  ASSUME Setting, RecordsInv, NEW r \in Records, r \notin Seen,
         ring' = Push(r), dropped' = dropped \cup {r},
         UNCHANGED <<queue, accepted, w, batch, consumed, rows, purged, lost, pending, up>>
  PROVE  RecordsInv'
<1> USE DEF RecordsInv
<1>1. Range(ring') \subseteq Range(ring) \cup {r}
  BY PushFacts
<1>2. Queued' = Queued
  BY DEF Queued
<1>3. /\ r \notin Range(queue) /\ r \notin Range(batch) /\ r # w.held /\ r \notin Queued
      /\ r \notin DOMAIN rows /\ r \notin dropped /\ r \notin purged /\ r \notin lost
  BY DEF Seen, Queued, Setting
<1>4. Typed' /\ OnceQueued'
  BY <1>1 DEF Typed, Ids, OnceQueued, InHand
<1>5. Apart' /\ RingSeen'
  BY <1>1, <1>2, <1>3 DEF Apart, RingSeen, Seen
<1>6. Beyond(r)
  BY <1>3 DEF Beyond, Range, Typed
<1>7. FenceKept'
  BY <1>1, <1>6 DEF FenceKept, Beyond, InHand
<1>8. QED
  BY <1>4, <1>5, <1>7

\* The head of the queue is taken in hand; the command is looked at next.
LEMMA TakeStep ==
  ASSUME Setting, RecordsInv, queue # <<>>, w.held = None, ~w.serving,
         queue' = Tail(queue), w' \in Writers, w'.held = Head(queue), w'.at = "load",
         ~w'.serving,
         UNCHANGED <<ring, accepted, batch, consumed, dropped, rows, purged, lost, pending, up>>
  PROVE  RecordsInv'
<1> USE DEF RecordsInv
<1>1. /\ queue' \in Seq(Records) /\ Len(queue) \in Nat /\ Len(queue) >= 1
      /\ Len(queue') = Len(queue) - 1
      /\ Head(queue) \in Records /\ Head(queue) = queue[1]
      /\ \A n \in 1 .. Len(queue) - 1 : queue'[n] = queue[n + 1]
      /\ Range(queue) = Range(queue') \cup {Head(queue)}
  BY TailFacts DEF Typed
<1>2. Head(queue) # None
  BY <1>1 DEF Setting
<1>3. Queued' = Queued
  BY <1>1, <1>2 DEF Queued
<1>4. InHand = 0 /\ InHand' = 1
  BY <1>2 DEF InHand
<1>5. Typed'
  BY <1>1 DEF Typed
<1>6. OnceQueued'
  <2>1. \A m, n \in 1 .. Len(queue) : queue[m] = queue[n] => m = n
    BY DEF OnceQueued
  <2>2. ASSUME NEW m \in 1 .. Len(queue'), NEW n \in 1 .. Len(queue'), queue'[m] = queue'[n]
        PROVE  m = n
    <3>1. m + 1 \in 1 .. Len(queue) /\ n + 1 \in 1 .. Len(queue)
      BY <1>1
    <3>2. queue[m + 1] = queue[n + 1]
      BY <1>1, <2>2
    <3>3. QED
      BY <2>1, <3>1, <3>2
  <2>3. \A n \in 1 .. Len(queue') : queue'[n] # Head(queue)
    <3>1. ASSUME NEW n \in 1 .. Len(queue') PROVE queue'[n] # Head(queue)
      <4>1. n + 1 \in 1 .. Len(queue) /\ 1 \in 1 .. Len(queue) /\ n + 1 # 1
        BY <1>1
      <4>2. QED
        BY <1>1, <2>1, <4>1
    <3>2. QED
      BY <3>1
  <2>4. Head(queue) \notin Range(queue')
    BY <1>1, <2>3 DEF Range
  <2>5. accepted = consumed + 0 + Len(queue)
    BY <1>4 DEF OnceQueued
  <2>6. accepted = consumed + 1 + Len(queue')
    BY <1>1, <2>5 DEF Typed
  <2>7. QED
    BY <1>1, <1>4, <2>2, <2>4, <2>6 DEF OnceQueued
<1>7. Apart' /\ RingSeen'
  BY <1>3 DEF Apart, RingSeen, Seen
<1>8. FenceKept'
  <2>1. ASSUME pending.result = "due", NEW q \in Records, q \in Range(ring),
               q \notin pending.boundary
        PROVE  Beyond(q)'
    <3>1. Beyond(q)
      BY <2>1 DEF FenceKept
    <3>2. consumed \in Nat /\ pending.accepted \in Nat
      BY DEF Typed, Commands
    <3>3. q = Head(queue) => consumed + 1 > pending.accepted
      BY <1>1, <1>4, <3>1, <3>2 DEF Beyond
    <3>4. ASSUME NEW n \in 1 .. Len(queue'), queue'[n] = q
          PROVE  consumed + 1 + n > pending.accepted
      <4>1. n + 1 \in 1 .. Len(queue) /\ queue[n + 1] = q
        BY <1>1, <3>4
      <4>2. QED
        BY <1>4, <3>1, <3>2, <4>1 DEF Beyond
    <3>5. QED
      BY <1>4, <3>1, <3>3, <3>4 DEF Beyond
  <2>2. QED
    BY <2>1 DEF FenceKept
<1>9. QED
  BY <1>5, <1>6, <1>7, <1>8

\* The record in hand joins the batch; while a purge is due, only from behind its fence.
LEMMA HeldStep ==
  ASSUME Setting, RecordsInv, w.held # None, w' \in Writers, w'.held = None,
         w'.at = "work", w'.serving => pending.result = "due",
         batch' = Append(batch, w.held), consumed' = consumed + 1,
         pending.result = "due" => consumed < pending.accepted,
         UNCHANGED <<ring, accepted, queue, dropped, rows, purged, lost, pending, up>>
  PROVE  RecordsInv'
<1> USE DEF RecordsInv
<1>1. w.held \in Records
  BY DEF Typed, Writers
<1>2. batch' \in Seq(Records) /\ Range(batch') = Range(batch) \cup {w.held}
  BY <1>1, AppendFacts DEF Typed
<1>3. Queued' = Queued
  BY <1>2 DEF Queued
<1>4. InHand = 1 /\ InHand' = 0
  BY DEF InHand
<1>5. consumed \in Nat /\ accepted \in Nat /\ pending.accepted \in Nat /\ Len(queue) \in Nat
  BY DEF Typed, Commands
<1>6. Typed'
  BY <1>2, <1>5 DEF Typed
<1>7. OnceQueued'
  <2>1. accepted = consumed + 1 + Len(queue)
    BY <1>4 DEF OnceQueued
  <2>2. accepted = consumed' + 0 + Len(queue)
    BY <1>5, <2>1
  <2>3. None \notin Range(queue) /\ None \notin Range(batch')
    BY <1>2, <1>6 DEF Typed, Range, Setting
  <2>4. QED
    BY <1>2, <1>4, <2>2, <2>3 DEF OnceQueued
<1>8. Apart' /\ RingSeen'
  BY <1>3 DEF Apart, RingSeen, Seen
<1>9. FenceKept'
  <2>1. ASSUME pending.result = "due", NEW q \in Records, q \in Range(ring),
               q \notin pending.boundary
        PROVE  Beyond(q)'
    <3>1. Beyond(q)
      BY <2>1 DEF FenceKept
    <3>2. q # w.held
      BY <1>5, <2>1, <3>1 DEF Beyond
    <3>3. \A n \in 1 .. Len(queue) : queue[n] = q => consumed + 1 + n > pending.accepted
      BY <1>4, <3>1 DEF Beyond
    <3>4. \A n \in 1 .. Len(queue) : queue[n] = q => consumed' + 0 + n > pending.accepted
      BY <1>5, <3>3
    <3>5. w'.held # q
      BY DEF Setting
    <3>6. QED
      BY <1>2, <1>4, <3>1, <3>2, <3>4, <3>5 DEF Beyond
  <2>2. pending.result = "due" => consumed' <= pending.accepted /\ pending.accepted <= accepted
    BY <1>5 DEF FenceKept
  <2>3. QED
    BY <2>1, <2>2 DEF FenceKept
<1>10. QED
  BY <1>6, <1>7, <1>8, <1>9

\* A purge being served drains the queue up to its fence.
LEMMA DrainStep ==
  ASSUME Setting, RecordsInv, queue # <<>>, w.serving, consumed < pending.accepted,
         queue' = Tail(queue), batch' = Append(batch, Head(queue)), consumed' = consumed + 1,
         UNCHANGED <<ring, accepted, w, dropped, rows, purged, lost, pending, up>>
  PROVE  RecordsInv'
<1> USE DEF RecordsInv
<1>1. /\ queue' \in Seq(Records) /\ Len(queue) \in Nat /\ Len(queue) >= 1
      /\ Len(queue') = Len(queue) - 1
      /\ Head(queue) \in Records /\ Head(queue) = queue[1]
      /\ \A n \in 1 .. Len(queue) - 1 : queue'[n] = queue[n + 1]
      /\ Range(queue) = Range(queue') \cup {Head(queue)}
  BY TailFacts DEF Typed
<1>2. batch' \in Seq(Records) /\ Range(batch') = Range(batch) \cup {Head(queue)}
  BY <1>1, AppendFacts DEF Typed
<1>3. Queued' = Queued
  BY <1>1, <1>2 DEF Queued
<1>4. consumed \in Nat /\ accepted \in Nat /\ pending.accepted \in Nat
  BY DEF Typed, Commands
<1>5. w.held = None /\ InHand = 0 /\ InHand' = 0 /\ pending.result = "due"
  BY <1>4 DEF FenceKept, InHand
<1>6. Typed'
  BY <1>1, <1>2, <1>4 DEF Typed
<1>7. OnceQueued'
  <2>1. \A m, n \in 1 .. Len(queue) : queue[m] = queue[n] => m = n
    BY DEF OnceQueued
  <2>2. ASSUME NEW m \in 1 .. Len(queue'), NEW n \in 1 .. Len(queue'), queue'[m] = queue'[n]
        PROVE  m = n
    <3>1. m + 1 \in 1 .. Len(queue) /\ n + 1 \in 1 .. Len(queue)
      BY <1>1
    <3>2. queue[m + 1] = queue[n + 1]
      BY <1>1, <2>2
    <3>3. QED
      BY <2>1, <3>1, <3>2
  <2>3. ASSUME NEW n \in 1 .. Len(queue') PROVE queue'[n] # Head(queue)
    <3>1. n + 1 \in 1 .. Len(queue) /\ 1 \in 1 .. Len(queue) /\ n + 1 # 1
      BY <1>1
    <3>2. QED
      BY <1>1, <2>1, <3>1
  <2>4. Head(queue) \notin Range(queue')
    BY <1>1, <2>3 DEF Range
  <2>5. accepted = consumed + 0 + Len(queue)
    BY <1>5 DEF OnceQueued
  <2>6. accepted = consumed' + 0 + Len(queue')
    BY <1>1, <1>4, <2>5
  <2>7. None \notin Range(queue') /\ None \notin Range(batch')
    BY <1>1, <1>2 DEF Range, Setting
  <2>8. QED
    BY <1>1, <1>2, <1>5, <2>2, <2>4, <2>6, <2>7 DEF OnceQueued
<1>8. Apart' /\ RingSeen'
  BY <1>3 DEF Apart, RingSeen, Seen
<1>9. FenceKept'
  <2>1. ASSUME NEW q \in Records, q \in Range(ring), q \notin pending.boundary
        PROVE  Beyond(q)'
    <3>1. Beyond(q)
      BY <1>5, <2>1 DEF FenceKept
    <3>2. q # Head(queue)
      BY <1>1, <1>4, <1>5, <3>1 DEF Beyond
    <3>3. ASSUME NEW n \in 1 .. Len(queue'), queue'[n] = q
          PROVE  consumed' + 0 + n > pending.accepted
      <4>1. n + 1 \in 1 .. Len(queue) /\ queue[n + 1] = q
        BY <1>1, <3>3
      <4>2. consumed + 0 + (n + 1) > pending.accepted
        BY <1>5, <3>1, <4>1 DEF Beyond
      <4>3. QED
        BY <1>1, <1>4, <4>2
    <3>4. w.held # q
      BY <1>5 DEF Setting
    <3>5. QED
      BY <1>2, <1>5, <3>1, <3>2, <3>3, <3>4 DEF Beyond
  <2>2. consumed' <= pending.accepted /\ pending.accepted <= accepted
    BY <1>4, <1>5 DEF FenceKept
  <2>3. QED
    BY <1>5, <2>1, <2>2 DEF FenceKept
<1>10. QED
  BY <1>6, <1>7, <1>8, <1>9

\* The batch leaves the writer, into the rows or counted as dropped.
LEMMA BatchStep ==
  ASSUME Setting, RecordsInv, batch' = <<>>, w' \in Writers, w'.held = w.held,
         w'.serving = w.serving, w'.at \in {"account", "work"}, w.at = "work",
         \/ DOMAIN rows' = DOMAIN rows \cup Range(batch) /\ dropped' = dropped
         \/ rows' = rows /\ dropped' = dropped \cup Range(batch),
         UNCHANGED <<ring, queue, accepted, consumed, purged, lost, pending, up>>
  PROVE  RecordsInv'
<1> USE DEF RecordsInv
<1>1. Range(batch') = {} /\ batch' \in Seq(Records) /\ Range(batch) \subseteq Records
  BY DEF Range, Typed
<1>2. Queued' = Range(queue) \cup ({w.held} \ {None})
  BY <1>1 DEF Queued
<1>3. Queued = Queued' \cup Range(batch) /\ Queued' \cap Range(batch) = {}
  BY <1>2 DEF Queued, OnceQueued
<1>4. Typed'
  BY <1>1 DEF Typed, Ids
<1>5. OnceQueued'
  BY <1>1 DEF OnceQueued, InHand
<1>6. Apart' /\ RingSeen'
  BY <1>3 DEF Apart, RingSeen, Seen
<1>7. FenceKept'
  <2>1. \A q : Beyond(q) => Beyond(q)'
    BY <1>1 DEF Beyond, InHand
  <2>2. QED
    BY <2>1 DEF FenceKept
<1>8. QED
  BY <1>4, <1>5, <1>6, <1>7

\* Rows of others join; no request of ours has their ids.
LEMMA OthersStep ==
  ASSUME Setting, RecordsInv, NEW others \in SUBSET (Ids \ Records),
         DOMAIN rows' = DOMAIN rows \cup others,
         UNCHANGED <<ring, queue, batch, accepted, consumed, w, dropped, purged, lost, pending, up>>
  PROVE  RecordsInv'
<1> USE DEF RecordsInv
<1>1. Queued' = Queued
  BY DEF Queued
<1>2. Typed' /\ OnceQueued'
  BY DEF Typed, OnceQueued, InHand
<1>3. Apart' /\ RingSeen'
  BY <1>1 DEF Apart, RingSeen, Seen
<1>4. \A q \in Records : Beyond(q) => Beyond(q)'
  BY DEF Beyond, InHand
<1>5. FenceKept'
  BY <1>4 DEF FenceKept
<1>6. QED
  BY <1>2, <1>3, <1>5

\* A command is published with both fences, or withdrawn when it is not due.
LEMMA CommandStep ==
  ASSUME Setting, RecordsInv, up, pending' \in Commands,
         \/ /\ pending'.result = "due" /\ pending'.accepted = accepted
            /\ pending'.boundary = Range(ring) /\ ~w.serving /\ w' = w
         \/ /\ pending'.result # "due" /\ w' \in Writers /\ w'.held = w.held /\ w'.at = w.at
            /\ ~w'.serving,
         UNCHANGED <<ring, queue, batch, accepted, consumed, dropped, rows, purged, lost, up>>
  PROVE  RecordsInv'
<1> USE DEF RecordsInv
<1>1. Queued' = Queued /\ InHand' = InHand
  BY DEF Queued, InHand
<1>2. Typed' /\ OnceQueued'
  BY <1>1 DEF Typed, OnceQueued
<1>3. Apart' /\ RingSeen'
  BY <1>1 DEF Apart, RingSeen, Seen
<1>4. FenceKept'
  <2>1. CASE pending'.result # "due"
    BY <2>1 DEF FenceKept
  <2>2. CASE pending'.result = "due"
    <3>1. /\ accepted = consumed + InHand + Len(queue)
          /\ consumed \in Nat /\ accepted \in Nat /\ Len(queue) \in Nat
      BY DEF OnceQueued, Typed
    <3>2. InHand \in {0, 1} /\ (w.held # None => InHand = 1)
      BY DEF InHand
    <3>3. consumed <= accepted /\ (w.held # None => consumed < accepted)
      BY <3>1, <3>2
    <3>4. QED
      BY <2>2, <3>3 DEF FenceKept, Typed
  <2>3. QED
    BY <2>1, <2>2
<1>5. QED
  BY <1>2, <1>3, <1>4

\* The purge commits: the selected rows are purged, and none of them reached the ring
\* after the fence.
LEMMA PurgeCommits ==
  ASSUME Setting, RecordsInv, purgeTransaction
  PROVE  /\ RecordsInv'
         /\ \A r \in Records :
              r \in purged' \ purged /\ r \in Range(ring) => r \in pending.boundary
<1> USE DEF RecordsInv
<1> DEFINE gone == DOMAIN rows \intersect Selected
<1>1. DOMAIN rows' = DOMAIN rows \ gone /\ purged' = purged \cup gone
  BY DEF purgeTransaction, Restrict
<1>2. /\ up /\ w.serving /\ w.at = "work"
      /\ UNCHANGED <<ring, queue, accepted, dropped, batch, consumed, up, lost, pending>>
  BY DEF purgeTransaction, Ready
<1>3. w' = [w EXCEPT !.at = "publish"] \/ w' = [w EXCEPT !.at = "remove"]
  BY DEF purgeTransaction, Goes
<1>4. /\ w' \in Writers /\ w'.held = w.held /\ w'.serving = w.serving
      /\ w'.at \in {"publish", "remove"}
  BY <1>3 DEF Typed, Writers, Places
<1>5. Queued' = Queued /\ InHand' = InHand
  BY <1>2, <1>4 DEF Queued, InHand
<1>6. Typed'
  BY <1>1, <1>2, <1>4 DEF Typed
<1>7. OnceQueued'
  BY <1>2, <1>4, <1>5 DEF OnceQueued
<1>8. Apart'
  BY <1>1, <1>2, <1>5 DEF Apart
<1>9. RingSeen'
  BY <1>1, <1>2, <1>5 DEF RingSeen, Seen
<1>10. FenceKept'
  <2>1. \A q : Beyond(q) => Beyond(q)'
    BY <1>1, <1>2, <1>4, <1>5 DEF Beyond
  <2>2. QED
    BY <1>2, <1>4, <2>1 DEF FenceKept
<1>11. ASSUME NEW r \in Records, r \in purged' \ purged, r \in Range(ring)
       PROVE  r \in pending.boundary
  BY <1>1, <1>2, <1>11 DEF FenceKept, Beyond
<1>12. QED
  BY <1>6, <1>7, <1>8, <1>9, <1>10, <1>11

\* The totals of a purge are installed: the writer goes on to the ring.
LEMMA PublishStep ==
  ASSUME Setting, RecordsInv, publishTotals
  PROVE  RecordsInv'
<1> USE DEF RecordsInv
<1>1. /\ up /\ w.at = "publish" /\ w' = [w EXCEPT !.at = "remove"]
      /\ UNCHANGED <<ring, queue, batch, accepted, consumed>>
      /\ UNCHANGED <<dropped, rows, purged, lost, pending, up>>
  BY DEF publishTotals, Goes, store, history
<1>2. w' \in Writers /\ w'.held = w.held /\ w'.serving = w.serving /\ w'.at = "remove"
  BY <1>1 DEF Typed, Writers, Places
<1>3. pending.result = "due" /\ w.held # None =>
        IF w'.serving THEN consumed = pending.accepted
        ELSE w'.at # "load" => consumed < pending.accepted
  BY <1>1, <1>2 DEF FenceKept
<1>4. w.serving => pending.result = "due"
  BY DEF FenceKept
<1>5. QED
  BY <1>1, <1>2, <1>3, <1>4, ControlStep

\* The purge empties the ring up to its boundary and answers.
LEMMA RemoveStep ==
  ASSUME Setting, RecordsInv, RemoveThrough
  PROVE  /\ RecordsInv'
         /\ Range(ring') = Range(ring) \ (pending.boundary \cap Selected)
<1> USE DEF RecordsInv
<1> DEFINE kept == {n \in DOMAIN ring : ring[n] \notin pending.boundary \intersect Selected}
<1>1. /\ up /\ ring' = Restrict(ring, kept)
      /\ pending' = [pending EXCEPT !.result = "ok"]
      /\ w' = [w EXCEPT !.at = "work", !.serving = FALSE, !.failed = FALSE]
      /\ UNCHANGED <<queue, batch, accepted, consumed>>
      /\ UNCHANGED <<dropped, rows, purged, lost, up>>
  BY DEF RemoveThrough, store, history
<1>2. Range(ring') = {ring[n] : n \in kept}
  BY <1>1 DEF Range, Restrict
<1>3. Range(ring') = Range(ring) \ (pending.boundary \cap Selected)
  BY <1>2 DEF Range
<1>4. w' \in Writers /\ w'.held = w.held /\ w'.at = "work" /\ ~w'.serving
  BY <1>1 DEF Typed, Writers, Places
<1>5. pending' \in Commands /\ pending'.result # "due"
  BY <1>1 DEF Typed, Commands
<1>6. Queued' = Queued /\ InHand' = InHand
  BY <1>1, <1>4 DEF Queued, InHand
<1>7. Typed' /\ OnceQueued'
  BY <1>1, <1>3, <1>4, <1>5, <1>6 DEF Typed, OnceQueued
<1>8. Apart' /\ RingSeen'
  BY <1>1, <1>3, <1>6 DEF Apart, RingSeen, Seen
<1>9. FenceKept'
  BY <1>1, <1>4, <1>5 DEF FenceKept
<1>10. QED
  BY <1>3, <1>7, <1>8, <1>9

\* What the process had in memory is lost.
LEMMA EndsStep ==
  ASSUME Setting, RecordsInv, Ends
  PROVE  RecordsInv'
<1> USE DEF RecordsInv
<1>1. /\ lost' = lost \cup Queued /\ UNCHANGED <<dropped, rows, purged>>
      /\ ring' = <<>> /\ queue' = <<>> /\ accepted' = 0 /\ batch' = <<>> /\ consumed' = 0
      /\ w' = IdleWriter /\ pending' = NoCommand
  BY DEF Ends, store
<1>2. /\ w' \in Writers /\ w'.held = None /\ ~w'.serving
      /\ pending' \in Commands /\ pending'.result = None /\ None # "due"
  BY <1>1 DEF IdleWriter, Writers, Places, NoCommand, Commands, None
<1>3. Range(ring') = {} /\ Range(queue') = {} /\ Range(batch') = {} /\ Len(queue') = 0
      /\ queue' \in Seq(Records) /\ batch' \in Seq(Records)
  BY <1>1 DEF Range
<1>4. Queued' = {} /\ InHand' = 0
  BY <1>2, <1>3 DEF Queued, InHand
<1>5. Typed'
  BY <1>1, <1>2, <1>3 DEF Typed
<1>6. OnceQueued'
  BY <1>1, <1>2, <1>3, <1>4 DEF OnceQueued
<1>7. Apart' /\ RingSeen'
  BY <1>1, <1>3, <1>4 DEF Apart, RingSeen
<1>8. FenceKept'
  BY <1>2 DEF FenceKept
<1>9. QED
  BY <1>5, <1>6, <1>7, <1>8

\* The next process fills its ring from the rows.
LEMMA OpenStep ==
  ASSUME Setting, RecordsInv, NEW scanned \in BOOLEAN, Open(scanned)
  PROVE  RecordsInv'
<1> USE DEF RecordsInv
<1>1. /\ UNCHANGED <<queue, accepted, dropped, w, batch, consumed, pending, rows, purged, lost>>
      /\ ring' = Recent /\ up' = TRUE /\ ~up
  BY DEF Open
<1>2. Range(ring') \subseteq DOMAIN rows
  <2> DEFINE byRow == [n \in Range(rows) |-> CHOOSE i \in DOMAIN rows : rows[i] = n]
  <2>1. ASSUME NEW n \in DOMAIN byRow PROVE byRow[n] \in DOMAIN rows
    <3>1. \E i \in DOMAIN rows : rows[i] = n
      BY <2>1 DEF Range
    <3>2. QED
      BY <3>1
  <2>2. Recent = Newest(byRow, RingCap)
    BY DEF Recent
  <2> HIDE DEF byRow
  <2>3. Range(byRow) \subseteq DOMAIN rows
    BY <2>1 DEF Range
  <2>4. \A kept, cap : Range(Newest(kept, cap)) \subseteq Range(kept)
    BY DEF Newest, Restrict, Range
  <2>5. QED
    BY <1>1, <2>2, <2>3, <2>4
<1>3. Queued' = Queued /\ InHand' = InHand
  BY <1>1 DEF Queued, InHand
<1>4. Typed' /\ OnceQueued'
  BY <1>1, <1>2, <1>3 DEF Typed, OnceQueued
<1>5. Apart' /\ RingSeen'
  BY <1>1, <1>2, <1>3 DEF Apart, RingSeen, Seen
<1>6. FenceKept'
  BY <1>1 DEF FenceKept, None
<1>7. QED
  BY <1>4, <1>5, <1>6

---------------------------------------------------------------------------
(* The actions.                                                            *)

\* A producer.
LEMMA RecordStep ==
  ASSUME Setting, RecordsInv, NEW r \in Records, record(r)
  PROVE  RecordsInv'
<1>1. /\ up /\ r \notin Seen /\ ring' = Push(r)
      /\ UNCHANGED <<w, batch, consumed, pending, rows, up, purged, lost>>
  BY DEF record, store, history
<1>2. CASE shut \/ Len(queue) >= ChanCap
  BY <1>1, <1>2, DropStep DEF record
<1>3. CASE ~(shut \/ Len(queue) >= ChanCap)
  BY <1>1, <1>3, EnqueueStep DEF record
<1>4. QED
  BY <1>2, <1>3

\* The writer's loop.
LEMMA SelectStep ==
  ASSUME Setting, RecordsInv, Select
  PROVE  RecordsInv'
<1> USE DEF RecordsInv
<1>1. /\ w.at = "select" /\ w.held = None /\ w \in Writers /\ ~w.serving
      /\ UNCHANGED <<ring, accepted, dropped, pending, rows, purged, lost, up>>
  BY DEF Select, OnceQueued, Typed, store, history
<1>2. CASE SelectRecord
  <2>1. /\ queue # <<>> /\ queue' = Tail(queue) /\ batch' = batch /\ consumed' = consumed
        /\ w' = [w EXCEPT !.at = "load", !.held = Head(queue)]
    BY <1>2 DEF SelectRecord, Take
  <2>2. Head(queue) \in Records
    BY <2>1, TailFacts DEF Typed
  <2>3. w' \in Writers /\ w'.held = Head(queue) /\ w'.at = "load" /\ ~w'.serving
    BY <1>1, <2>1, <2>2 DEF Writers, Places
  <2>4. QED
    BY <1>1, <2>1, <2>3, TakeStep
<1>3. CASE SelectWake \/ SelectFlush \/ SelectTick \/ SelectDone
  <2>1. UNCHANGED <<queue, batch, consumed>>
    BY <1>3 DEF SelectWake, SelectFlush, SelectTick, SelectDone
  <2>2. /\ w' \in Writers /\ w'.held = w.held /\ w'.at # "select" /\ w'.serving = w.serving
    BY <1>1, <1>3 DEF SelectWake, SelectFlush, SelectTick, SelectDone, Goes, Writers, Places
  <2>3. QED
    BY <1>1, <2>1, <2>2, ControlStep
<1>4. QED
  BY <1>2, <1>3 DEF Select

\* servicePurge's look at the command.
LEMMA LoadStep ==
  ASSUME Setting, RecordsInv, LoadPurge
  PROVE  RecordsInv'
<1> USE DEF RecordsInv
<1>1. /\ w.at = "load" /\ w \in Writers /\ consumed \in Nat /\ pending.accepted \in Nat
      /\ UNCHANGED <<ring, queue, accepted, dropped, pending, rows, purged, lost, up>>
  BY DEF LoadPurge, Typed, Commands, store, history
<1>2. CASE pending.result = "due" /\ BehindFence
  <2>1. /\ w' = [w EXCEPT !.at = "work", !.serving = TRUE, !.failed = FALSE, !.held = None]
        /\ batch' = Append(batch, w.held) /\ consumed' = consumed + 1
        /\ w.held # None /\ consumed + 1 <= pending.accepted
    BY <1>2 DEF LoadPurge, BehindFence
  <2>2. w' \in Writers /\ w'.held = None /\ w'.at = "work"
    BY <1>1, <2>1 DEF Writers, Places
  <2>3. QED
    BY <1>1, <1>2, <2>1, <2>2, HeldStep
<1>3. CASE pending.result = "due" /\ ~BehindFence
  <2>1. /\ w' = [w EXCEPT !.at = "work", !.serving = TRUE, !.failed = FALSE, !.held = w.held]
        /\ batch' = batch /\ consumed' = consumed
    BY <1>3 DEF LoadPurge
  <2>2. w' \in Writers /\ w'.held = w.held /\ w'.at = "work" /\ w'.serving
    BY <1>1, <2>1 DEF Writers, Places
  <2>3. w.held # None => consumed = pending.accepted
    BY <1>1, <1>3 DEF BehindFence, FenceKept
  <2>4. QED
    BY <1>1, <1>3, <2>1, <2>2, <2>3, ControlStep
<1>4. CASE pending.result # "due"
  <2>1. w' = [w EXCEPT !.at = "work"] /\ batch' = batch /\ consumed' = consumed
    BY <1>4 DEF LoadPurge, Goes
  <2>2. w' \in Writers /\ w'.held = w.held /\ w'.at = "work" /\ w'.serving = w.serving
    BY <1>1, <2>1 DEF Writers, Places
  <2>3. w.serving => pending.result = "due"
    BY DEF FenceKept
  <2>4. QED
    BY <1>1, <1>4, <2>1, <2>2, <2>3, ControlStep
<1>5. QED
  BY <1>2, <1>3, <1>4

\* What follows the look.
LEMMA WorkStep ==
  ASSUME Setting, RecordsInv, Work
  PROVE  RecordsInv'
<1> USE DEF RecordsInv
<1>1. /\ w.at = "work" /\ w \in Writers /\ consumed \in Nat /\ pending.accepted \in Nat
      /\ (w.serving => pending.result = "due")
      /\ UNCHANGED <<ring, accepted, dropped, pending, rows, purged, lost, up>>
  BY DEF Work, Typed, Commands, FenceKept, store, history
<1>2. CASE DrainToFence
  BY <1>1, <1>2, DrainStep DEF DrainToFence, ToFence
<1>3. CASE AppendHeld
  <2>1. /\ w' = [w EXCEPT !.held = None] /\ batch' = Append(batch, w.held)
        /\ consumed' = consumed + 1 /\ queue' = queue /\ ~w.serving /\ w.held # None
    BY <1>3 DEF AppendHeld
  <2>2. w' \in Writers /\ w'.held = None /\ w'.at = "work" /\ ~w'.serving
    BY <1>1, <2>1 DEF Writers
  <2>3. pending.result = "due" => consumed < pending.accepted
    BY <1>1, <2>1 DEF FenceKept
  <2>4. QED
    BY <1>1, <2>1, <2>2, <2>3, HeldStep
<1>4. CASE DrainMore
  <2>1. /\ w' = [w EXCEPT !.at = "load", !.held = Head(queue)] /\ queue' = Tail(queue)
        /\ batch' = batch /\ consumed' = consumed /\ ~w.serving /\ w.held = None /\ queue # <<>>
    BY <1>4 DEF DrainMore
  <2>2. Head(queue) \in Records
    BY <2>1, TailFacts DEF Typed
  <2>3. w' \in Writers /\ w'.held = Head(queue) /\ w'.at = "load" /\ ~w'.serving
    BY <1>1, <2>1, <2>2 DEF Writers, Places
  <2>4. QED
    BY <1>1, <2>1, <2>3, TakeStep
<1>5. CASE LastLook \/ Rest
  <2>1. UNCHANGED <<queue, batch, consumed>> /\ w.held = None /\ ~w.serving
    BY <1>5 DEF LastLook, Rest
  <2>2. w' \in Writers /\ w'.held = None /\ ~w'.serving
    BY <1>1, <1>5, <2>1 DEF LastLook, Rest, IdleWriter, Writers, Places
  <2>3. QED
    BY <1>1, <2>1, <2>2, ControlStep
<1>6. QED
  BY <1>2, <1>3, <1>4, <1>5 DEF Work

\* The end of a batch, and the answer to a purge.
LEMMA FlushStep ==
  ASSUME Setting, RecordsInv,
         (\E rebuilt \in BOOLEAN : insertBatch(rebuilt)) \/ insertFails \/ account \/ purgeFails
  PROVE  RecordsInv'
<1> USE DEF RecordsInv
<1>1. w \in Writers /\ (w.serving => pending.result = "due")
  BY DEF Typed, FenceKept
<1>2. CASE \E rebuilt \in BOOLEAN : insertBatch(rebuilt)
  <2>1. PICK rebuilt \in BOOLEAN : insertBatch(rebuilt)
    BY <1>2
  <2>2. DOMAIN rows' = DOMAIN rows \cup Range(batch)
    BY <2>1 DEF insertBatch, Appended
  <2>3. /\ batch' = <<>> /\ w' = [w EXCEPT !.at = "account"] /\ w.at = "work"
        /\ UNCHANGED <<ring, queue, accepted, consumed, dropped, purged, lost, pending, up>>
    BY <2>1 DEF insertBatch, FlushDue, Goes
  <2>4. w' \in Writers /\ w'.held = w.held /\ w'.serving = w.serving /\ w'.at = "account"
    BY <1>1, <2>3 DEF Writers, Places
  <2>5. QED
    BY <2>2, <2>3, <2>4, BatchStep
<1>3. CASE insertFails
  <2>1. /\ batch' = <<>> /\ w' = [w EXCEPT !.failed = TRUE, !.error = TRUE] /\ w.at = "work"
        /\ dropped' = dropped \cup Range(batch)
        /\ UNCHANGED <<ring, queue, accepted, consumed, rows, purged, lost, pending, up>>
    BY <1>3 DEF insertFails, FlushDue, store
  <2>2. w' \in Writers /\ w'.held = w.held /\ w'.serving = w.serving /\ w'.at = "work"
    BY <1>1, <2>1 DEF Writers, Places
  <2>3. QED
    BY <2>1, <2>2, BatchStep
<1>4. CASE account
  <2>1. /\ w.at = "account" /\ w' = [w EXCEPT !.at = "work"]
        /\ UNCHANGED <<ring, queue, batch, accepted, consumed>>
        /\ UNCHANGED <<dropped, rows, purged, lost, pending, up>>
    BY <1>4 DEF account, Goes, store, history
  <2>2. w' \in Writers /\ w'.held = w.held /\ w'.serving = w.serving /\ w'.at = "work"
    BY <1>1, <2>1 DEF Writers, Places
  <2>3. pending.result = "due" /\ w.held # None =>
          IF w'.serving THEN consumed = pending.accepted
          ELSE w'.at # "load" => consumed < pending.accepted
    BY <2>1, <2>2 DEF FenceKept
  <2>4. QED
    BY <1>1, <2>1, <2>2, <2>3, ControlStep
<1>5. CASE purgeFails
  <2>1. /\ up /\ w.at = "work" /\ pending' = [pending EXCEPT !.result = "failed"]
        /\ w' = [w EXCEPT !.serving = FALSE, !.failed = FALSE]
        /\ UNCHANGED <<ring, queue, batch, accepted, consumed>>
        /\ UNCHANGED <<dropped, rows, purged, lost, up>>
    BY <1>5 DEF purgeFails, Ready, store
  <2>2. w' \in Writers /\ w'.held = w.held /\ w'.at = w.at /\ ~w'.serving
    BY <1>1, <2>1 DEF Writers
  <2>3. pending' \in Commands /\ pending'.result # "due"
    BY <2>1 DEF Typed, Commands
  <2>4. QED
    BY <2>1, <2>2, <2>3, CommandStep
<1>6. QED
  BY <1>2, <1>3, <1>4, <1>5

\* The administrator's side of a purge.
LEMMA ClearStep ==
  ASSUME Setting, RecordsInv, OneAdmin, (\E all \in BOOLEAN : Clear(all)) \/ ClearReturns
  PROVE  RecordsInv'
<1> USE DEF RecordsInv
<1>1. CASE \E all \in BOOLEAN : Clear(all)
  <2>1. PICK all \in BOOLEAN : Clear(all)
    BY <1>1
  <2>2. /\ up /\ admin = "free"
        /\ pending' = [all |-> all, accepted |-> accepted, boundary |-> Range(ring), result |-> "due"]
        /\ UNCHANGED <<ring, queue, batch, accepted, consumed>>
        /\ UNCHANGED <<w, dropped, rows, purged, lost, up>>
    BY <2>1 DEF Clear, store
  <2>3. pending' \in Commands
    BY <2>2 DEF Typed, Commands
  <2>4. ~w.serving
    BY <2>2 DEF OneAdmin, FenceKept
  <2>5. QED
    BY <2>2, <2>3, <2>4, CommandStep
<1>2. CASE ClearReturns
  <2>1. /\ up /\ pending' = NoCommand /\ pending.result # "due"
        /\ UNCHANGED <<ring, queue, batch, accepted, consumed>>
        /\ UNCHANGED <<w, dropped, rows, purged, lost, up>>
    BY <1>2 DEF ClearReturns, store, history
  <2>2. pending' \in Commands /\ pending'.result # "due"
    BY <2>1 DEF NoCommand, Commands, None
  <2>3. w \in Writers /\ ~w.serving
    BY <2>1 DEF Typed, FenceKept
  <2>4. QED
    BY <2>1, <2>2, <2>3, CommandStep
<1>3. QED
  BY <1>1, <1>2

\* Merges, the other process, folds and the close add rows of others only.
LEMMA OthersOnly ==
  ASSUME Setting,
         \/ MergeStarts \/ MergeStep \/ SnapshotRing \/ TotalsAndUnwritten \/ Close
         \/ \E i \in Foreign : OtherProcessCommits(i)
  PROVE  \E others \in SUBSET (Ids \ Records) : DOMAIN rows' = DOMAIN rows \cup others
<1>1. CASE rows' = rows
  <2>1. {} \in SUBSET (Ids \ Records) /\ DOMAIN rows' = DOMAIN rows \cup {}
    BY <1>1
  <2>2. QED
    BY <2>1, Zenon
<1>2. CASE MergeSnapshotFile
  <2>1. Range(SetToSeq(Incoming)) \subseteq Incoming
    <3>1. /\ Cardinality(Incoming) \in Nat
          /\ ExistsBijection(1 .. Cardinality(Incoming), Incoming)
      BY FS_CardinalityType DEF Setting
    <3>2. \E f \in [1 .. Cardinality(Incoming) -> Incoming] : IsInjective(f)
      BY <3>1 DEF ExistsBijection, Bijection, Injection, Surjection, IsInjective
    <3>3. SetToSeq(Incoming) \in [1 .. Cardinality(Incoming) -> Incoming]
      BY <3>2 DEF SetToSeq
    <3>4. QED
      BY <3>3 DEF Range
  <2>2. DOMAIN rows' = DOMAIN rows \cup (Range(SetToSeq(Incoming)) \ DOMAIN rows)
    BY <1>2 DEF MergeSnapshotFile, Appended
  <2>3. Range(SetToSeq(Incoming)) \ DOMAIN rows \in SUBSET (Ids \ Records)
    BY <2>1 DEF Ids, Setting
  <2>4. QED
    BY <2>2, <2>3, Zenon
<1>3. CASE \E i \in Foreign : OtherProcessCommits(i)
  <2>1. PICK i \in Foreign : OtherProcessCommits(i)
    BY <1>3
  <2>2. DOMAIN rows' = DOMAIN rows \cup (Range(<<i>>) \ DOMAIN rows)
    BY <2>1 DEF OtherProcessCommits, Appended
  <2>3. Range(<<i>>) \ DOMAIN rows \in SUBSET (Ids \ Records)
    BY DEF Ids, Setting, Range
  <2>4. QED
    BY <2>2, <2>3, Zenon
<1>4. QED
  BY <1>1, <1>2, <1>3 DEF MergeStarts, MergeStep, MergeAbandoned, installTotals, SnapshotRing,
    TotalsAndUnwritten, Close, store

\* Merges, the other process, folds and the close.
LEMMA AsideStep ==
  ASSUME Setting, RecordsInv,
         \/ MergeStarts \/ MergeStep \/ SnapshotRing \/ TotalsAndUnwritten \/ Close
         \/ \E i \in Foreign : OtherProcessCommits(i)
  PROVE  RecordsInv'
<1>1. /\ UNCHANGED <<ring, queue, batch, accepted, consumed, w, dropped, purged, lost>>
      /\ UNCHANGED <<pending, up>>
  BY DEF MergeStarts, MergeStep, MergeAbandoned, MergeSnapshotFile, installTotals, SnapshotRing,
    TotalsAndUnwritten, Close, OtherProcessCommits, history
<1>2. \E others \in SUBSET (Ids \ Records) : DOMAIN rows' = DOMAIN rows \cup others
  BY OthersOnly
<1>3. QED
  BY <1>1, <1>2, OthersStep

\* One administrator at a time.
LEMMA AdminStep ==
  ASSUME RecordsInv, OneAdmin, Next
  PROVE  OneAdmin'
<1> USE DEF OneAdmin, None
<1>1. CASE \E all \in BOOLEAN : Clear(all)
  BY <1>1 DEF Clear
<1>2. CASE ClearReturns \/ Ends
  <2>1. pending'.result = None
    <3>1. pending' = NoCommand
      BY <1>2 DEF ClearReturns, Ends
    <3>2. QED
      BY <3>1 DEF NoCommand
  <2>2. (conn' = conn /\ admin = "clear") \/ conn' = None
    BY <1>2 DEF ClearReturns, Ends
  <2>3. QED
    BY <2>1, <2>2
<1>3. CASE MergeStarts
  BY <1>3 DEF MergeStarts
<1>4. CASE MergeStep
  <2>1. CASE MergeAbandoned
    BY <2>1 DEF MergeAbandoned
  <2>2. CASE MergeSnapshotFile
    BY <2>2 DEF MergeSnapshotFile
  <2>3. CASE installTotals
    BY <2>3 DEF installTotals
  <2>4. QED
    BY <1>4, <2>1, <2>2, <2>3 DEF MergeStep
<1>5. CASE RemoveThrough \/ purgeFails
  <2>1. /\ pending'.result \in {"ok", "failed"}
    BY <1>5 DEF RemoveThrough, purgeFails, RecordsInv, Typed, Commands
  <2>2. QED
    BY <1>5, <2>1 DEF RemoveThrough, purgeFails
<1>6. CASE UNCHANGED <<pending, admin, conn>>
  BY <1>6
<1>7. ASSUME NEW r \in Records, record(r) PROVE UNCHANGED <<pending, admin, conn>>
  BY <1>7 DEF record
<1>8. ASSUME NEW b \in BOOLEAN, insertBatch(b) \/ Open(b) PROVE UNCHANGED <<pending, admin, conn>>
  BY <1>8 DEF insertBatch, Open
<1>9. ASSUME NEW i \in Foreign, OtherProcessCommits(i) PROVE UNCHANGED <<pending, admin, conn>>
  BY <1>9 DEF OtherProcessCommits
<1>10. ASSUME \/ Select \/ LoadPurge \/ Work \/ account \/ insertFails
             \/ purgeTransaction \/ publishTotals \/ SnapshotRing \/ TotalsAndUnwritten \/ Close
      PROVE  UNCHANGED <<pending, admin, conn>>
  BY <1>10 DEF Select, LoadPurge, Work, account, insertFails, purgeTransaction, publishTotals,
    SnapshotRing, TotalsAndUnwritten, Close
<1>11. QED
  BY <1>1, <1>2, <1>3, <1>4, <1>5, <1>6, <1>7, <1>8, <1>9, <1>10
  DEF Next, WriterStep

\* Every step keeps the invariants.
LEMMA RecordsStep ==
  ASSUME Setting, RecordsInv, OneAdmin, [Next]_vars
  PROVE  RecordsInv' /\ OneAdmin'
<1>1. CASE UNCHANGED vars
  <2>1. /\ UNCHANGED <<ring, queue, batch, accepted, consumed>>
        /\ UNCHANGED <<dropped, rows, purged, lost, pending, up, w, admin, conn>>
    BY <1>1 DEF vars, store, history
  <2>2. OneAdmin'
    BY <2>1 DEF OneAdmin
  <2>3. RecordsInv'
    BY <2>1, ControlStep DEF RecordsInv, Typed, OnceQueued, FenceKept
  <2>4. QED
    BY <2>2, <2>3
<1>2. CASE Next
  <2>1. RecordsInv'
    BY <1>2, RecordStep, SelectStep, LoadStep, WorkStep, FlushStep, PurgeCommits,
      PublishStep, RemoveStep, ClearStep, AsideStep, EndsStep, OpenStep, Zenon DEF Next, WriterStep
  <2>2. OneAdmin'
    BY <1>2, AdminStep
  <2>3. QED
    BY <2>1, <2>2
<1>3. QED
  BY <1>1, <1>2

\* The invariants hold in every reachable state.
LEMMA RecordsInvariant == ASSUME Setting PROVE Spec => [](RecordsInv /\ OneAdmin)
<1>1. Init => RecordsInv /\ OneAdmin
  <2> SUFFICES ASSUME Init PROVE RecordsInv /\ OneAdmin
    OBVIOUS
  <2>1. /\ w = IdleWriter /\ w \in Writers /\ w.held = None /\ ~w.serving
        /\ pending \in Commands /\ pending.result = None /\ None # "due" /\ conn # "merge"
    BY DEF Init, IdleWriter, Writers, Places, NoCommand, Commands, None
  <2>2. /\ Range(ring) = {} /\ Range(queue) = {} /\ Range(batch) = {} /\ Len(queue) = 0
        /\ DOMAIN rows = {} /\ queue \in Seq(Records) /\ batch \in Seq(Records)
    BY DEF Init, Range
  <2>3. Queued = {} /\ InHand = 0
    BY <2>1, <2>2 DEF Queued, InHand
  <2>4. Typed
    BY <2>1, <2>2 DEF Init, Typed
  <2>5. OnceQueued
    BY <2>1, <2>2, <2>3 DEF Init, OnceQueued
  <2>6. Apart /\ RingSeen
    BY <2>2, <2>3 DEF Init, Apart, RingSeen
  <2>7. FenceKept /\ OneAdmin
    BY <2>1 DEF Init, FenceKept, OneAdmin
  <2>8. QED
    BY <2>4, <2>5, <2>6, <2>7 DEF RecordsInv
<1>2. RecordsInv /\ OneAdmin /\ [Next]_vars => RecordsInv' /\ OneAdmin'
  BY RecordsStep
<1>3. QED
  BY <1>1, <1>2, PTL DEF Spec

\* Every request that finished is queued, stored, dropped and counted, purged, or died
\* with its process, and in one of these only; the ring shows no other; and whatever
\* was enqueued is taken or still queued, under every interleaving of producers,
\* writer, purge, merge, failures, crashes and boots.
THEOREM NoRecordDisappears == ASSUME Setting PROVE Spec => []RecordsAccounted
<1>1. RecordsInv => RecordsAccounted
  <2> SUFFICES ASSUME RecordsInv PROVE RecordsAccounted
    OBVIOUS
  <2>1. OnePlace
    BY ApartIsOnePlace DEF RecordsInv
  <2>2. w.at = "select" => accepted = consumed + Len(queue)
    <3>1. w.at = "select" => InHand = 0
      BY DEF RecordsInv, OnceQueued, InHand
    <3>2. consumed \in Nat /\ Len(queue) \in Nat
      BY DEF RecordsInv, Typed
    <3>3. accepted = consumed + InHand + Len(queue)
      BY DEF RecordsInv, OnceQueued
    <3>4. QED
      BY <3>1, <3>2, <3>3
  <2>3. QED
    BY <2>1, <2>2 DEF RecordsInv, RingSeen, RecordsAccounted
<1>2. QED
  BY <1>1, RecordsInvariant, PTL

\* What the ring shows of purged records, through every step.
LEMMA CutStep ==
  ASSUME Setting, RecordsInv, OneAdmin, CutKept, [Next]_vars
  PROVE  CutKept'
<1> USE DEF RecordsInv
<1>0. w \in Writers
  BY DEF Typed
<1>1. CASE purgeTransaction
  <2>1. /\ DOMAIN rows' = DOMAIN rows \ Selected /\ purged' = purged \cup (DOMAIN rows \cap Selected)
        /\ UNCHANGED <<ring, pending>> /\ w.serving /\ w.at = "work"
    BY <1>1 DEF purgeTransaction, Restrict, Ready
  <2>2. w'.at \in Cutting /\ w'.serving
    BY <1>0, <1>1, <2>1 DEF purgeTransaction, Goes, Writers, Cutting
  <2>3. Selected' = Selected
    BY <2>1 DEF Selected
  <2>4. \A r \in Records : r \in purged /\ r \in Range(ring) => FALSE
    BY <2>1 DEF CutKept, Cutting
  <2>5. \A r \in Records : r \in purged' \ purged /\ r \in Range(ring) => r \in pending.boundary
    BY <1>1, PurgeCommits
  <2>6. QED
    BY <2>1, <2>2, <2>3, <2>4, <2>5 DEF CutKept
<1>2. CASE publishTotals
  <2>1. UNCHANGED <<rows, purged, ring, pending>> /\ w.at = "publish" /\ w' = [w EXCEPT !.at = "remove"]
    BY <1>2 DEF publishTotals, Goes, store, history
  <2>2. w'.at \in Cutting /\ w'.serving = w.serving /\ w.at \in Cutting /\ Selected' = Selected
    BY <1>0, <2>1 DEF Writers, Cutting, Selected
  <2>3. QED
    BY <2>1, <2>2 DEF CutKept
<1>3. CASE RemoveThrough
  <2>1. UNCHANGED <<rows, purged>> /\ w' = [w EXCEPT !.at = "work", !.serving = FALSE, !.failed = FALSE]
    BY <1>3 DEF RemoveThrough, store, history
  <2>2. w'.at \notin Cutting
    BY <1>0, <2>1 DEF Writers, Cutting
  <2>3. Range(ring') = Range(ring) \ (pending.boundary \cap Selected)
    BY <1>3, RemoveStep
  <2>4. QED
    BY <2>1, <2>2, <2>3 DEF CutKept
<1>4. CASE \E r \in Records : record(r)
  <2>1. PICK r \in Records : record(r)
    BY <1>4
  <2>2. UNCHANGED <<rows, purged, pending, w>> /\ r \notin purged /\ ring' = Push(r)
    BY <2>1 DEF record, store, history, Seen
  <2>3. Range(ring') \subseteq Range(ring) \cup {r}
    BY <2>2, PushFacts
  <2>4. Selected' = Selected
    BY <2>2 DEF Selected
  <2>5. QED
    BY <2>2, <2>3, <2>4 DEF CutKept
<1>5. CASE (\E all \in BOOLEAN : Clear(all)) \/ ClearReturns
  <2>1. UNCHANGED <<rows, purged, ring, w>> /\ pending.result # "due"
    BY <1>5 DEF Clear, ClearReturns, OneAdmin, store, history
  <2>2. w.at \notin Cutting
    BY <2>1 DEF CutKept, FenceKept
  <2>3. QED
    BY <2>1, <2>2 DEF CutKept
<1>6. CASE Ends
  <2>1. ring' = <<>> /\ w' = IdleWriter
    BY <1>6 DEF Ends
  <2>2. Range(ring') = {} /\ w'.at \notin Cutting
    BY <2>1 DEF Range, IdleWriter, Cutting
  <2>3. QED
    BY <2>2 DEF CutKept
<1>7. CASE \E scanned \in BOOLEAN : Open(scanned)
  <2>1. ~up /\ ring' = Recent /\ UNCHANGED <<rows, purged, w, pending>>
    BY <1>7 DEF Open
  <2>2. Range(ring') \subseteq DOMAIN rows
    BY <2>1, RecentFacts
  <2>3. w.at \notin Cutting
    BY <2>1 DEF CutKept, FenceKept, None
  <2>4. QED
    BY <2>1, <2>2, <2>3 DEF CutKept, Apart
<1>8. CASE \/ MergeStarts \/ MergeStep \/ SnapshotRing \/ TotalsAndUnwritten \/ Close
           \/ \E i \in Foreign : OtherProcessCommits(i)
  <2>1. UNCHANGED <<ring, purged, pending, w>>
    BY <1>8 DEF MergeStarts, MergeStep, MergeAbandoned, MergeSnapshotFile, installTotals, SnapshotRing,
      TotalsAndUnwritten, Close, OtherProcessCommits, history
  <2>2. \E others \in SUBSET (Ids \ Records) : DOMAIN rows' = DOMAIN rows \cup others
    BY <1>8, OthersOnly
  <2>3. Selected' = Selected
    BY <2>1 DEF Selected
  <2>4. QED
    BY <2>1, <2>2, <2>3 DEF CutKept
<1>9. CASE \/ Select \/ LoadPurge \/ Work \/ account \/ insertFails \/ purgeFails
           \/ \E rebuilt \in BOOLEAN : insertBatch(rebuilt)
  <2>1. UNCHANGED <<ring, purged>>
    BY <1>9 DEF Select, LoadPurge, Work, account, insertFails, purgeFails, insertBatch, history
  <2>2. w.at \in {"select", "load", "work", "account"}
    BY <1>9 DEF Select, LoadPurge, Work, account, insertFails, purgeFails, insertBatch, FlushDue, Ready
  <2>3. w'.at \notin Cutting
    <3>1. CASE Select
      BY <1>0, <3>1 DEF Select, SelectRecord, Take, SelectWake, Goes, SelectFlush, SelectTick,
                        SelectDone, Writers, Cutting
    <3>2. CASE LoadPurge \/ account \/ (\E rebuilt \in BOOLEAN : insertBatch(rebuilt))
      BY <1>0, <3>2 DEF LoadPurge, account, insertBatch, Goes, Writers, Cutting
    <3>3. CASE Work
      BY <1>0, <3>3 DEF Work, DrainToFence, AppendHeld, DrainMore, LastLook, Rest, IdleWriter,
                        Writers, Cutting
    <3>4. CASE insertFails \/ purgeFails
      BY <1>0, <2>2, <3>4 DEF insertFails, purgeFails, Writers, Cutting
    <3>5. QED
      BY <1>9, <3>1, <3>2, <3>3, <3>4
  <2>4. QED
    BY <2>1, <2>2, <2>3 DEF CutKept, Cutting
<1>10. CASE UNCHANGED vars
  <2>1. UNCHANGED <<ring, purged, pending, w, rows>>
    BY <1>10 DEF vars, store, history
  <2>2. QED
    BY <2>1 DEF CutKept, Selected
<1>11. QED
  BY <1>1, <1>2, <1>3, <1>4, <1>5, <1>6, <1>7, <1>8, <1>9, <1>10, Zenon DEF Next, WriterStep

\* In every reachable state a purged record is out of the ring, but for those of a purge
\* that has committed and not reached the ring yet.
LEMMA CutInvariant == ASSUME Setting PROVE Spec => [](RecordsInv /\ OneAdmin /\ CutKept)
<1>1. Init => CutKept
  BY DEF Init, CutKept, IdleWriter, Cutting
<1>2. RecordsInv /\ OneAdmin /\ CutKept /\ [Next]_vars => CutKept'
  BY CutStep
<1>3. Spec => [](RecordsInv /\ OneAdmin)
  BY RecordsInvariant
<1>4. QED
  BY <1>1, <1>2, <1>3, PTL DEF Spec

\* A purge deletes no row of a record that reached the ring after its fence; and when it
\* answers, the ring shows nothing a purge deleted and has lost nothing whose row is kept,
\* although producers, other processes and folds run between its commit, its totals and
\* its removal from the ring (purge.go: Clear, purgeTransaction).
THEOREM PurgeCutsOnce == ASSUME Setting PROVE Spec => PurgeIsOneCut
<1> DEFINE Fenced == \A r \in Records :
                       r \in purged' \ purged /\ r \in Range(ring) => r \in pending.boundary
           Agreed == pending.result = "due" /\ pending'.result = "ok" =>
             /\ Range(ring') \intersect purged' \intersect Records = {}
             /\ (Range(ring) \ Range(ring')) \intersect DOMAIN rows' \intersect Records = {}
<1>1. ASSUME RecordsInv, OneAdmin, CutKept, [Next]_vars
      PROVE  [Fenced /\ Agreed]_vars
  <2>1. CASE purgeTransaction
    <3>1. Fenced
      BY <1>1, <2>1, PurgeCommits
    <3>2. pending' = pending
      BY <2>1 DEF purgeTransaction
    <3>3. QED
      BY <3>1, <3>2
  <2>2. CASE RemoveThrough
    <3>1. UNCHANGED <<purged, rows>> /\ w.at \in Cutting
      BY <2>2 DEF RemoveThrough, store, history, Cutting
    <3>2. Range(ring') = Range(ring) \ (pending.boundary \cap Selected)
      BY <1>1, <2>2, RemoveStep
    <3>3. DOMAIN rows \cap Selected \cap Records = {}
      BY <1>1, <3>1 DEF CutKept
    <3>4. \A r \in Records : r \in purged /\ r \in Range(ring) =>
            r \in pending.boundary /\ r \in Selected
      BY <1>1, <3>1 DEF CutKept
    <3>5. QED
      BY <3>1, <3>2, <3>3, <3>4
  <2>3. CASE ~purgeTransaction /\ ~RemoveThrough
    <3>1. purged' = purged
      BY <1>1, <2>3 DEF Next, WriterStep, MergeStep, vars, history, record, Select, LoadPurge, Work,
        account, insertFails, insertBatch, purgeFails, publishTotals, Clear, ClearReturns,
        MergeStarts, MergeAbandoned, MergeSnapshotFile, installTotals, SnapshotRing,
        TotalsAndUnwritten, Close, Ends, OtherProcessCommits, Open
    <3>2. ~(pending.result = "due" /\ pending'.result = "ok")
      <4>1. CASE purgeFails \/ (\E all \in BOOLEAN : Clear(all)) \/ ClearReturns \/ Ends
        <5>1. pending \in Commands
          BY <1>1 DEF RecordsInv, Typed
        <5>2. CASE ClearReturns \/ Ends
          <6>1. pending' = NoCommand
            BY <5>2 DEF ClearReturns, Ends
          <6>2. QED
            BY <6>1 DEF NoCommand, None
        <5>3. CASE \E all \in BOOLEAN : Clear(all)
          BY <5>3 DEF Clear
        <5>4. CASE purgeFails
          <6>1. pending' = [pending EXCEPT !.result = "failed"]
            BY <5>4 DEF purgeFails
          <6>2. QED
            BY <5>1, <6>1 DEF Commands
        <5>5. QED
          BY <4>1, <5>2, <5>3, <5>4
      <4>2. CASE ~(purgeFails \/ (\E all \in BOOLEAN : Clear(all)) \/ ClearReturns \/ Ends)
        <5>1. pending' = pending
          BY <1>1, <2>3, <4>2 DEF Next, WriterStep, MergeStep, vars, record, Select, LoadPurge, Work,
            account, insertFails, insertBatch, publishTotals, MergeStarts, MergeAbandoned,
            MergeSnapshotFile, installTotals, SnapshotRing, TotalsAndUnwritten, Close,
            OtherProcessCommits, Open
        <5>2. QED
          BY <5>1
      <4>3. QED
        BY <4>1, <4>2
    <3>3. QED
      BY <3>1, <3>2
  <2>4. QED
    BY <2>1, <2>2, <2>3
<1>2. QED
  BY <1>1, CutInvariant, PTL DEF Spec, PurgeIsOneCut

-----------------------------------------------------------------------------
(***************************************************************************)
(* Proofs about the totals of Recording for every set of records and every *)
(* bound: totals in memory and in the document are those of the rows, and a*)
(* fold of ring and totals loses no record.                                *)
(***************************************************************************)

Now == Witness(rows, epoch)
Witnesses == [epoch : Nat, high : Nat]

\* A table of rows: finitely many, with rowids below some bound.
Rowed(table) ==
  /\ IsFiniteSet(DOMAIN table)
  /\ table \in [DOMAIN table -> Nat]
  /\ \E top \in Nat : \A i \in DOMAIN table : table[i] <= top

TotalsTyped ==
  /\ Rowed(rows)
  /\ epoch \in Nat
  /\ mem \in [totals : [Ids -> Nat], built : BOOLEAN, witness : Witnesses, degraded : BOOLEAN]
  /\ doc \in [totals : [Ids -> Nat], invalid : BOOLEAN, witness : Witnesses]
  /\ committed \in [totals : [Ids -> Nat], witness : Witnesses, degraded : BOOLEAN,
                    ids : Seq(Records)]
  /\ reader \in [view : SUBSET Ids, seen : [Ids -> Nat], at : {"idle", "ring", "done"},
                 degraded : BOOLEAN]
  /\ foreign \in BOOLEAN /\ up \in BOOLEAN /\ conn \in {None, "merge"}
  /\ ~up => conn = None /\ w.at = "select" /\ ~mem.built
  /\ up => mem.built \/ mem.degraded

\* Every transaction saves the document with the witness of the rows it leaves.
DocExact ==
  /\ doc.witness = Now
  /\ ~doc.invalid => doc.totals = Counted(DOMAIN rows)
  /\ conn = "merge" => ~doc.invalid /\ ~foreign

Committing == {"account", "publish"}

\* Totals in memory never have a witness the database has not reached, and with the
\* database's own witness they are its rows.
MemExact ==
  /\ ~totalsWitnessNewer(mem.witness, Now)
  /\ mem.built /\ mem.witness = Now /\ ~mem.degraded => mem.totals = Counted(DOMAIN rows)
  /\ up /\ mem.built /\ ~foreign /\ conn = None /\ w.at \notin Committing => mem.witness = Now

Counts(totals, ids) == \A r \in ids \cap Records : r \notin purged => totals[r] >= 1

\* The written ids are rows, or were; totals that are not degraded count them.
WrittenCounted ==
  /\ Range(written) \cap Records \subseteq DOMAIN rows \cup purged
  /\ up /\ ~mem.degraded => Counts(mem.totals, Range(written))

\* Between its commit and its accounting a batch is in the rows, and either side of the
\* comparison in account counts it; a purge between the two has no ids to account.
CommitSound ==
  w.at \in Committing =>
    /\ ~totalsWitnessNewer(committed.witness, Now)
    /\ ~foreign /\ conn = None => committed.witness = Now \/ (mem.built /\ mem.witness = Now)
    /\ committed.witness = Now /\ ~committed.degraded => committed.totals = Counted(DOMAIN rows)
    /\ Range(committed.ids) \subseteq DOMAIN rows
    /\ ~committed.degraded => Counts(committed.totals, Range(written) \cup Range(committed.ids))
    /\ totalsWitnessNewer(mem.witness, committed.witness) /\ mem.built /\ ~mem.degraded
         => Counts(mem.totals, Range(committed.ids))

\* What a purge is about to install unconditionally is still the last word of this process.
PublishSound ==
  w.at = "publish" => conn = None /\ ~committed.degraded /\ (~foreign => committed.witness = Now)

TotalsInv ==
  /\ TotalsTyped /\ DocExact /\ MemExact /\ WrittenCounted /\ CommitSound
  /\ PublishSound /\ NothingVanishes

---------------------------------------------------------------------------
(* The largest rowid.                                                      *)

\* The least-number principle, from the well-foundedness of < on Nat.
LEMMA LeastNatural ==
  ASSUME NEW T \in SUBSET Nat, T # {}
  PROVE  \E m \in T : \A n \in T : m <= n
<1>1. PICK m \in T : \A n \in T : ~(<<n, m>> \in OpToRel(<, Nat))
  BY NatLessThanWellFounded, WFMin
<1>2. ASSUME NEW n \in T PROVE m <= n
  <2>1. ~(n < m)
    BY <1>1, <1>2 DEF OpToRel
  <2>2. QED
    BY <2>1
<1>3. QED
  BY <1>2

LEMMA MaxFacts ==
  ASSUME NEW S \in SUBSET Nat, S # {}, NEW top \in Nat, \A s \in S : s <= top
  PROVE  Max(S) \in S /\ \A s \in S : s <= Max(S)
<1> DEFINE bounds == {n \in Nat : \A s \in S : s <= n}
<1>1. PICK m \in bounds : \A n \in bounds : m <= n
  <2>1. bounds \in SUBSET Nat /\ bounds # {}
    OBVIOUS
  <2>2. QED
    BY <2>1, LeastNatural
<1>2. m \in S
  <2> SUFFICES ASSUME m \notin S PROVE FALSE
    OBVIOUS
  <2>1. \A s \in S : s < m
    OBVIOUS
  <2>2. m - 1 \in bounds
    <3>1. PICK s \in S : TRUE
      OBVIOUS
    <3>2. m - 1 \in Nat
      BY <2>1
    <3>3. \A t \in S : t <= m - 1
      BY <2>1
    <3>4. QED
      BY <3>2, <3>3
  <2>3. QED
    BY <1>1, <2>2
<1>3. \E n \in S : \A s \in S : n >= s
  BY <1>2
<1>4. QED
  BY <1>3 DEF Max

LEMMA HighFacts ==
  ASSUME NEW table, Rowed(table)
  PROVE  /\ HighRowID(table) \in Nat
         /\ \A i \in DOMAIN table : table[i] <= HighRowID(table)
         /\ HighRowID(table) = 0 \/ \E i \in DOMAIN table : HighRowID(table) = table[i]
<1> DEFINE S == {table[i] : i \in DOMAIN table} \union {0}
<1>1. S \in SUBSET Nat /\ S # {}
  BY DEF Rowed
<1>2. PICK top \in Nat : \A s \in S : s <= top
  BY DEF Rowed
<1>3. Max(S) \in S /\ \A s \in S : s <= Max(S)
  BY <1>1, <1>2, MaxFacts
<1>4. HighRowID(table) = Max(S)
  BY DEF HighRowID
<1> HIDE DEF S
<1>5. QED
  BY <1>1, <1>3, <1>4 DEF S

\* Appending leaves the rows that exist, and the mark grows exactly when it adds one.
LEMMA AppendedFacts ==
  ASSUME NEW table, NEW seq, DOMAIN seq \subseteq Nat, Rowed(table), IsFiniteSet(Range(seq))
  PROVE  /\ Rowed(Appended(table, seq))
         /\ DOMAIN Appended(table, seq) = DOMAIN table \union Range(seq)
         /\ Range(seq) \subseteq DOMAIN table => Appended(table, seq) = table
         /\ ~(Range(seq) \subseteq DOMAIN table)
              => HighRowID(Appended(table, seq)) > HighRowID(table)
<1> DEFINE new == Range(seq) \ DOMAIN table
           Place(i) == CHOOSE n \in DOMAIN seq : seq[n] = i
           upto(i) == {j \in new : Place(j) <= Place(i)}
           next == Appended(table, seq)
<1>1. next = [i \in DOMAIN table \union new |->
            IF i \in DOMAIN table THEN table[i]
            ELSE HighRowID(table) + Cardinality(upto(i))]
  BY DEF Appended
<1>2. IsFiniteSet(new)
  BY FS_Difference
<1>3. \A i \in new : \E n \in DOMAIN seq : seq[n] = i
  BY DEF Range
<1> HIDE DEF next
<1>4. ASSUME NEW i \in new
      PROVE  Cardinality(upto(i)) \in 1 .. Cardinality(new)
  <2>1. upto(i) \in SUBSET new
    OBVIOUS
  <2>2. /\ IsFiniteSet(upto(i)) /\ Cardinality(upto(i)) <= Cardinality(new)
        /\ Cardinality(upto(i)) \in Nat /\ Cardinality(new) \in Nat
    BY <1>2, <2>1, FS_Subset, FS_CardinalityType
  <2>3. Place(i) <= Place(i)
    BY <1>3
  <2>4. upto(i) # {}
    BY <2>3
  <2>5. Cardinality(upto(i)) # 0
    BY <2>2, <2>4, FS_EmptySet
  <2>6. QED
    BY <2>2, <2>5
<1>5. PICK top \in Nat : \A i \in DOMAIN table : table[i] <= top
  BY DEF Rowed
<1>6. /\ HighRowID(table) \in Nat /\ Cardinality(new) \in Nat
      /\ \A i \in DOMAIN table : table[i] \in Nat /\ table[i] <= HighRowID(table)
  BY <1>2, HighFacts, FS_CardinalityType DEF Rowed
<1> HIDE DEF upto
<1>7. \A i \in new : /\ next[i] \in Nat /\ next[i] > HighRowID(table)
                    /\ next[i] <= HighRowID(table) + Cardinality(new)
  BY <1>1, <1>4, <1>6
<1>8. /\ DOMAIN next = DOMAIN table \union Range(seq)
      /\ \A i \in DOMAIN table : next[i] = table[i]
  BY <1>1
<1>9. Rowed(next)
  <2>1. \A i \in DOMAIN next : next[i] \in Nat /\ next[i] <= HighRowID(table) + Cardinality(new)
    BY <1>6, <1>7, <1>8
  <2>2. next = [i \in DOMAIN next |-> next[i]]
    BY <1>1
  <2>3. HighRowID(table) + Cardinality(new) \in Nat
    BY <1>6
  <2>4. IsFiniteSet(DOMAIN next)
    BY <1>8, FS_Union DEF Rowed
  <2> HIDE DEF new
  <2>5. QED
    BY <2>1, <2>2, <2>3, <2>4 DEF Rowed
<1>10. ASSUME Range(seq) \subseteq DOMAIN table PROVE next = table
  <2>1. DOMAIN table \union new = DOMAIN table
    BY <1>10
  <2>2. next = [i \in DOMAIN table |-> table[i]]
    BY <1>1, <2>1
  <2>3. QED
    BY <2>2 DEF Rowed
<1>11. ASSUME ~(Range(seq) \subseteq DOMAIN table)
       PROVE  HighRowID(next) > HighRowID(table)
  <2>1. PICK i \in new : TRUE
    BY <1>11
  <2>2. next[i] > HighRowID(table) /\ i \in DOMAIN next /\ next[i] \in Nat
    BY <1>7, <1>8
  <2>3. HighRowID(next) \in Nat /\ next[i] <= HighRowID(next)
    BY <1>9, <2>2, HighFacts
  <2>4. QED
    BY <1>6, <2>2, <2>3
<1>12. QED
  BY <1>8, <1>9, <1>10, <1>11 DEF next

---------------------------------------------------------------------------
(* Witnesses, totals and documents.                                        *)

LEMMA WitnessFacts ==
  ASSUME NEW table, Rowed(table), NEW e \in Nat
  PROVE  Witness(table, e) \in Witnesses /\ NoWitness \in Witnesses
BY HighFacts DEF Witness, NoWitness, Witnesses

\* Of two witnesses one is newer, or they are equal.
LEMMA NewerFacts ==
  ASSUME NEW v1 \in Witnesses, NEW v2 \in Witnesses, NEW v3 \in Witnesses
  PROVE  /\ ~totalsWitnessNewer(v1, v1) /\ ~totalsWitnessNewer(NoWitness, v1)
         /\ totalsWitnessNewer(v1, v2) => ~totalsWitnessNewer(v2, v1) /\ v1 # v2
         /\ ~totalsWitnessNewer(v1, v2) /\ ~totalsWitnessNewer(v2, v1) => v1 = v2
         /\ totalsWitnessNewer(v3, v2) /\ ~totalsWitnessNewer(v1, v2)
              => totalsWitnessNewer(v3, v1)
<1>1. /\ v1.epoch \in Nat /\ v1.high \in Nat /\ v2.epoch \in Nat /\ v2.high \in Nat
      /\ v3.epoch \in Nat /\ v3.high \in Nat /\ NoWitness.epoch = 0 /\ NoWitness.high = 0
  BY DEF Witnesses, NoWitness
<1>2. v1.epoch = v2.epoch /\ v1.high = v2.high => v1 = v2
  BY DEF Witnesses
<1>3. QED
  BY <1>1, <1>2 DEF totalsWitnessNewer

LEMMA NewerByAppend ==
  ASSUME NEW table, NEW next, NEW e \in Nat, Rowed(table), Rowed(next),
         HighRowID(next) > HighRowID(table)
  PROVE  totalsWitnessNewer(Witness(next, e), Witness(table, e))
BY HighFacts DEF totalsWitnessNewer, Witness

LEMMA NewerByRewrite ==
  ASSUME NEW table, NEW next, NEW e \in Nat, NEW d \in Nat, d > e
  PROVE  totalsWitnessNewer(Witness(next, d), Witness(table, e))
BY DEF totalsWitnessNewer, Witness

LEMMA CountFacts ==
  /\ Zero \in [Ids -> Nat]
  /\ \A set : Counted(set) \in [Ids -> Nat]
  /\ \A set : \A i \in Ids \cap set : Counted(set)[i] = 1
BY DEF Zero, Counted

LEMMA PlusCounted ==
  ASSUME NEW set, NEW more, set \cap more = {}
  PROVE  Plus(Counted(set), more) = Counted(set \cup more)
BY DEF Counted, Plus

LEMMA PlusType ==
  ASSUME NEW t \in [Ids -> Nat], NEW set
  PROVE  Plus(t, set) \in [Ids -> Nat]
BY DEF Plus

LEMMA MemoryFacts ==
  ASSUME NEW t \in [Ids -> Nat], NEW b \in BOOLEAN, NEW v \in Witnesses
  PROVE  /\ Memory(t, v, b) \in [totals : [Ids -> Nat], built : BOOLEAN, witness : Witnesses,
                                 degraded : BOOLEAN]
         /\ Memory(t, v, b).totals = t /\ Memory(t, v, b).witness = v
         /\ Memory(t, v, b).built /\ (Memory(t, v, b).degraded <=> b)
BY DEF Memory

LEMMA RangeFinite ==
  ASSUME NEW S, NEW s \in Seq(S)
  PROVE  IsFiniteSet(Range(s)) /\ Range(s) \subseteq S /\ DOMAIN s \subseteq Nat
         /\ (s # <<>> => Range(s) # {})
<1>1. DOMAIN s = 1 .. Len(s) /\ Len(s) \in Nat /\ \A n \in 1 .. Len(s) : s[n] \in S
  OBVIOUS
<1>2. s \in Surjection(1 .. Len(s), Range(s))
  BY <1>1 DEF Surjection, Range
<1>3. IsFiniteSet(1 .. Len(s))
  BY <1>1, FS_Interval
<1>4. s # <<>> => 1 \in DOMAIN s
  BY <1>1
<1>5. QED
  BY <1>1, <1>2, <1>3, <1>4, FS_Surjection DEF Range

LEMMA MarkedFacts ==
  ASSUME NEW order, NEW ids
  PROVE  Range(Marked(order, ids)) \subseteq Range(order) \cup Range(ids)
<1> DEFINE top == Max(DOMAIN order \union {0})
           fresh == {n \in DOMAIN ids : ids[n] \notin Range(order)}
           Arrived(n) == ids[CHOOSE k \in fresh : top + k = n]
           all == [n \in DOMAIN order \union {top + k : k \in fresh} |->
                     IF n \in DOMAIN order THEN order[n] ELSE Arrived(n)]
<1>1. ASSUME NEW n \in {top + k : k \in fresh} PROVE Arrived(n) \in Range(ids)
  <2> HIDE DEF top
  <2>1. \E k \in fresh : top + k = n
    BY <1>1
  <2>2. (CHOOSE k \in fresh : top + k = n) \in DOMAIN ids
    BY <2>1
  <2>3. QED
    BY <2>2 DEF Range
<1>2. Marked(order, ids) = Newest(all, 2 * RingCap)
  BY DEF Marked
<1> HIDE DEF Arrived
<1>3. Range(all) \subseteq Range(order) \cup Range(ids)
  BY <1>1 DEF Range
<1> HIDE DEF all
<1>4. Range(Newest(all, 2 * RingCap)) \subseteq Range(all)
  BY DEF Newest, Restrict, Range
<1>5. QED
  BY <1>2, <1>3, <1>4

\* What every step needs of the state before it.
LEMMA NowFacts ==
  ASSUME TotalsTyped
  PROVE  Now \in Witnesses /\ mem.witness \in Witnesses /\ committed.witness \in Witnesses
BY WitnessFacts DEF TotalsTyped, Now

---------------------------------------------------------------------------
(* One lemma per step that touches rows, totals or the fold.               *)

Touched == <<rows, epoch, doc, mem, written, committed, reader, foreign, up, purged, conn>>

\* Steps that touch none of them and do not enter or leave the accounting of a batch.
LEMMA QuietStep ==
  ASSUME TotalsInv, UNCHANGED Touched,
         w'.at \in Committing \/ w.at \in Committing => w'.at = w.at,
         ~up => w'.at = w.at
  PROVE  TotalsInv'
<1>1. TotalsTyped'
  BY DEF TotalsInv, TotalsTyped, Touched
<1>2. DocExact' /\ MemExact' /\ WrittenCounted'
  BY DEF TotalsInv, DocExact, MemExact, WrittenCounted, Touched, Now, Counts
<1>3. CommitSound' /\ PublishSound' /\ NothingVanishes'
  BY DEF TotalsInv, CommitSound, PublishSound, NothingVanishes, Touched, Now, Counts, Committing
<1>4. QED
  BY <1>1, <1>2, <1>3 DEF TotalsInv

\* A fold that is not touched stays sound: what is purged stays purged.
LEMMA FoldKept ==
  ASSUME NothingVanishes, UNCHANGED reader, purged \subseteq purged'
  PROVE  NothingVanishes'
BY DEF NothingVanishes

\* Rows are added under a newer witness: nothing in memory has that witness.
LEMMA OlderThanGrown ==
  ASSUME TotalsInv, TotalsTyped', totalsWitnessNewer(Now', Now)
  PROVE  /\ ~totalsWitnessNewer(mem.witness, Now') /\ mem.witness # Now'
         /\ w.at \in Committing => /\ ~totalsWitnessNewer(committed.witness, Now')
                                 /\ committed.witness # Now'
<1>1. Now \in Witnesses /\ Now' \in Witnesses /\ mem.witness \in Witnesses
      /\ committed.witness \in Witnesses
  BY NowFacts, WitnessFacts DEF TotalsInv, TotalsTyped, Now
<1>2. ~totalsWitnessNewer(mem.witness, Now)
      /\ (w.at \in Committing => ~totalsWitnessNewer(committed.witness, Now))
  BY DEF TotalsInv, MemExact, CommitSound
<1>3. totalsWitnessNewer(Now', mem.witness)
      /\ (w.at \in Committing => totalsWitnessNewer(Now', committed.witness))
  BY <1>1, <1>2, NewerFacts
<1>4. QED
  BY <1>1, <1>3, NewerFacts

LEMMA InsertStep ==
  ASSUME RecordsInv, TotalsInv, NEW rebuilt \in BOOLEAN, insertBatch(rebuilt)
  PROVE  TotalsInv'
<1> DEFINE table == Appended(rows, batch)
           base == IF Current THEN mem.totals
                   ELSE IF rebuilt THEN Counted(DOMAIN rows)
                   ELSE IF mem.built THEN mem.totals ELSE Zero
           bad == IF Current THEN mem.degraded ELSE ~rebuilt
           next == Plus(base, DOMAIN table \ DOMAIN rows)
<1>1. /\ rows' = table /\ epoch' = epoch /\ doc' = Doc(next, bad, table, epoch)
      /\ committed' = [totals |-> next, witness |-> Witness(table, epoch),
                       degraded |-> bad, ids |-> batch]
      /\ conn = None /\ foreign' = FALSE /\ batch # <<>> /\ up
      /\ UNCHANGED <<mem, written, reader, up, conn, purged>>
  BY DEF insertBatch, FlushDue
<1>2. w'.at = "account"
  BY DEF insertBatch, Goes, RecordsInv, Typed, Writers
<1>3. /\ batch \in Seq(Records) /\ Range(batch) # {} /\ Range(batch) \cap DOMAIN rows = {}
      /\ IsFiniteSet(Range(batch)) /\ Range(batch) \subseteq Records /\ DOMAIN batch \subseteq Nat
  BY <1>1, RangeFinite DEF RecordsInv, Typed, Apart, Queued
<1>4. Rowed(rows) /\ epoch \in Nat /\ mem.totals \in [Ids -> Nat] /\ mem.degraded \in BOOLEAN
  BY DEF TotalsInv, TotalsTyped
<1>5. /\ Rowed(table) /\ DOMAIN table = DOMAIN rows \cup Range(batch)
      /\ HighRowID(table) > HighRowID(rows)
  BY <1>3, <1>4, AppendedFacts
<1> HIDE DEF table
<1>6. DOMAIN table \ DOMAIN rows = Range(batch)
  BY <1>3, <1>5
<1>7. base \in [Ids -> Nat] /\ bad \in BOOLEAN /\ (~bad => base = Counted(DOMAIN rows))
  <2>1. Current /\ ~mem.degraded => mem.totals = Counted(DOMAIN rows)
    BY DEF Current, TotalsInv, MemExact, Now
  <2>2. QED
    BY <1>4, <2>1, CountFacts
<1> HIDE DEF base, bad
<1>8. next \in [Ids -> Nat] /\ (~bad => next = Counted(DOMAIN table))
  <2>1. next = Plus(base, Range(batch))
    BY <1>6
  <2>2. next \in [Ids -> Nat]
    BY <1>7, <2>1, PlusType
  <2>3. Plus(Counted(DOMAIN rows), Range(batch)) = Counted(DOMAIN rows \cup Range(batch))
    BY <1>3, PlusCounted
  <2>4. QED
    BY <1>5, <1>7, <2>1, <2>2, <2>3
<1> HIDE DEF next
<1>9. /\ doc' \in [totals : [Ids -> Nat], invalid : BOOLEAN, witness : Witnesses]
      /\ doc'.totals = next /\ (doc'.invalid <=> bad) /\ doc'.witness = Witness(table, epoch)
      /\ Witness(table, epoch) \in Witnesses
  <2>1. Witness(table, epoch) \in Witnesses
    BY <1>4, <1>5, WitnessFacts
  <2>2. /\ Doc(next, bad, table, epoch)
              \in [totals : [Ids -> Nat], invalid : BOOLEAN, witness : Witnesses]
        /\ Doc(next, bad, table, epoch).totals = next
        /\ Doc(next, bad, table, epoch).invalid <=> bad
        /\ Doc(next, bad, table, epoch).witness = Witness(table, epoch)
    BY <1>7, <1>8, <2>1 DEF Doc
  <2>3. QED
    BY <1>1, <2>1, <2>2
<1>10. /\ committed' \in [totals : [Ids -> Nat], witness : Witnesses, degraded : BOOLEAN,
                          ids : Seq(Records)]
       /\ committed'.totals = next /\ (committed'.degraded <=> bad)
       /\ committed'.witness = Witness(table, epoch) /\ committed'.ids = batch
  BY <1>1, <1>3, <1>7, <1>8, <1>9
<1>11. Now' = Witness(table, epoch) /\ totalsWitnessNewer(Now', Now)
  BY <1>1, <1>4, <1>5, NewerByAppend DEF Now
<1>12. TotalsTyped'
  BY <1>1, <1>4, <1>5, <1>9, <1>10 DEF TotalsInv, TotalsTyped
<1>13. ~totalsWitnessNewer(mem.witness, Now') /\ mem.witness # Now'
       /\ ~totalsWitnessNewer(Now', Now')
  BY <1>9, <1>11, <1>12, OlderThanGrown, NewerFacts
<1>14. DocExact'
  BY <1>1, <1>8, <1>9, <1>11 DEF DocExact, None
<1>15. MemExact'
  BY <1>1, <1>2, <1>13 DEF MemExact, Committing
<1>16. WrittenCounted'
  BY <1>1, <1>5 DEF TotalsInv, WrittenCounted, Counts
<1>17. CommitSound'
  <2>1. Range(committed'.ids) \subseteq DOMAIN rows'
    BY <1>1, <1>5, <1>10
  <2>2. ASSUME ~bad, NEW r \in Records, r \in Range(written) \cup Range(batch), r \notin purged
        PROVE  next[r] >= 1
    <3>1. r \in DOMAIN table /\ r \in Ids
      BY <1>5, <2>2 DEF TotalsInv, WrittenCounted, Ids
    <3>2. QED
      BY <1>8, <2>2, <3>1, CountFacts
  <2>3. ~committed'.degraded =>
          Counts(committed.totals, Range(written) \cup Range(committed.ids))'
    BY <1>1, <1>10, <2>2 DEF Counts
  <2>4. QED
    BY <1>1, <1>2, <1>8, <1>10, <1>11, <1>13, <2>1, <2>3 DEF CommitSound
<1>18. NothingVanishes' /\ PublishSound'
  BY <1>1, <1>2, FoldKept DEF TotalsInv, PublishSound
<1>19. QED
  BY <1>12, <1>14, <1>15, <1>16, <1>17, <1>18 DEF TotalsInv

LEMMA AccountStep ==
  ASSUME RecordsInv, TotalsInv, account
  PROVE  TotalsInv'
<1>1. /\ up /\ w.at = "account" /\ written' = Marked(written, committed.ids)
      /\ committed' = Nothing
      /\ UNCHANGED <<rows, epoch, doc, reader, up, conn, foreign, purged>>
  BY DEF account, store, history
<1>2. w'.at = "work"
  BY DEF account, Goes, RecordsInv, Typed, Writers
<1>3. Now' = Now /\ Now \in Witnesses /\ mem.witness \in Witnesses /\ committed.witness \in Witnesses
  BY <1>1, NowFacts DEF Now, TotalsInv
<1>4. /\ mem.degraded \in BOOLEAN /\ mem.built \in BOOLEAN /\ committed.degraded \in BOOLEAN
      /\ foreign \in BOOLEAN /\ committed.totals \in [Ids -> Nat]
  BY DEF TotalsInv, TotalsTyped
<1>5. committed' \in [totals : [Ids -> Nat], witness : Witnesses, degraded : BOOLEAN, ids : Seq(Records)]
  BY <1>1, <1>3, CountFacts DEF Nothing, NoWitness, Witnesses
<1>6. Range(written') \subseteq Range(written) \cup Range(committed.ids)
  BY <1>1, MarkedFacts
<1>7. /\ ~totalsWitnessNewer(committed.witness, Now)
      /\ ~foreign /\ conn = None => committed.witness = Now \/ (mem.built /\ mem.witness = Now)
      /\ committed.witness = Now /\ ~committed.degraded => committed.totals = Counted(DOMAIN rows)
      /\ Range(committed.ids) \subseteq DOMAIN rows
      /\ ~committed.degraded => Counts(committed.totals, Range(written) \cup Range(committed.ids))
      /\ totalsWitnessNewer(mem.witness, committed.witness) /\ mem.built /\ ~mem.degraded
           => Counts(mem.totals, Range(committed.ids))
  BY <1>1 DEF TotalsInv, CommitSound, Committing
<1>8. DocExact' /\ CommitSound' /\ PublishSound' /\ NothingVanishes'
  BY <1>1, <1>2, <1>3, FoldKept DEF TotalsInv, DocExact, CommitSound, PublishSound, Committing
<1>9. Range(written') \cap Records \subseteq DOMAIN rows' \cup purged'
  BY <1>1, <1>6, <1>7 DEF TotalsInv, WrittenCounted
<1>10. CASE Installs(committed)
  <2> DEFINE bad == mem.degraded \/ committed.degraded
  <2>1. mem' = Memory(committed.totals, committed.witness, bad)
    BY <1>10 DEF account
  <2>2. bad \in BOOLEAN
    BY <1>4
  <2>3. /\ mem' \in [totals : [Ids -> Nat], built : BOOLEAN, witness : Witnesses, degraded : BOOLEAN]
        /\ mem'.totals = committed.totals /\ mem'.witness = committed.witness
        /\ mem'.built /\ (mem'.degraded <=> bad)
    <3> HIDE DEF bad
    <3>1. QED
      BY <1>3, <1>4, <2>1, <2>2, MemoryFacts
  <2>4. TotalsTyped'
    BY <1>1, <1>2, <1>5, <2>3 DEF TotalsInv, TotalsTyped
  <2>5. ~foreign /\ conn = None => committed.witness = Now
    <3>1. mem.built /\ mem.witness = Now => committed.witness = Now
      BY <1>3, <1>7, <1>10, NewerFacts DEF Installs
    <3>2. QED
      BY <1>7, <3>1
  <2>6. MemExact'
    BY <1>1, <1>3, <1>7, <2>3, <2>5 DEF MemExact
  <2>7. ~mem'.degraded => Counts(mem.totals, Range(written))'
    BY <1>1, <1>6, <1>7, <2>3 DEF Counts
  <2>8. QED
    BY <1>8, <1>9, <2>4, <2>6, <2>7 DEF TotalsInv, WrittenCounted
<1>11. CASE ~Installs(committed)
  <2>1. mem' = mem /\ mem.built /\ totalsWitnessNewer(mem.witness, committed.witness)
    BY <1>4, <1>11 DEF account, Installs
  <2>2. TotalsTyped'
    BY <1>1, <1>2, <1>5, <2>1 DEF TotalsInv, TotalsTyped
  <2>3. ~foreign /\ conn = None => mem.witness = Now
    BY <1>3, <1>7, <2>1 DEF TotalsInv, MemExact
  <2>4. MemExact'
    BY <1>1, <1>3, <2>1, <2>3 DEF TotalsInv, MemExact
  <2>5. ~mem'.degraded => Counts(mem.totals, Range(written))'
    BY <1>1, <1>6, <1>7, <2>1 DEF TotalsInv, WrittenCounted, Counts
  <2>6. QED
    BY <1>8, <1>9, <2>2, <2>4, <2>5 DEF TotalsInv, WrittenCounted
<1>12. QED
  BY <1>10, <1>11

LEMMA PurgeStep ==
  ASSUME RecordsInv, TotalsInv, purgeTransaction
  PROVE  TotalsInv'
<1> DEFINE gone == DOMAIN rows \intersect Selected
           table == Restrict(rows, DOMAIN rows \ gone)
<1>1. /\ up /\ w.at = "work" /\ conn = None /\ rows' = table
      /\ epoch' = epoch + Cardinality(gone) /\ purged' = purged \union gone
      /\ UNCHANGED <<mem, written, reader, up, conn>>
  BY DEF purgeTransaction, Ready
<1>2. w'.at = IF gone = {} THEN "remove" ELSE "publish"
  BY <1>1 DEF purgeTransaction, Goes, RecordsInv, Typed, Writers
<1>3. Rowed(rows) /\ epoch \in Nat
  BY DEF TotalsInv, TotalsTyped
<1>4. IsFiniteSet(gone) /\ Cardinality(gone) \in Nat /\ (Cardinality(gone) = 0 <=> gone = {})
  BY <1>3, FS_Intersection, FS_CardinalityType, FS_EmptySet DEF Rowed
<1>5. DOMAIN table = DOMAIN rows \ gone /\ \A i \in DOMAIN table : table[i] = rows[i]
  BY DEF Restrict
<1>6. CASE gone = {}
  <2>1. table = [i \in DOMAIN rows |-> rows[i]]
    BY <1>6 DEF Restrict
  <2>2. rows' = rows
    BY <1>1, <1>3, <2>1 DEF Rowed
  <2>3. epoch' = epoch
    BY <1>1, <1>3, <1>4, <1>6
  <2>4. UNCHANGED <<doc, committed, foreign, purged>>
    BY <1>1, <1>6 DEF purgeTransaction
  <2>5. QED
    BY <1>1, <1>2, <1>6, <2>2, <2>3, <2>4, QuietStep DEF Touched, Committing
<1>7. CASE gone # {}
  <2> DEFINE after == Counted(DOMAIN table)
  <2>1. /\ doc' = Doc(after, FALSE, table, epoch') /\ foreign' = FALSE
        /\ committed' = [Nothing EXCEPT !.totals = after, !.witness = Witness(table, epoch')]
        /\ w'.at = "publish"
    BY <1>2, <1>7 DEF purgeTransaction
  <2>2. Rowed(table) /\ epoch' \in Nat
    <3>1. IsFiniteSet(DOMAIN table)
      BY <1>3, <1>5, FS_Difference DEF Rowed
    <3>2. table = [i \in DOMAIN table |-> table[i]]
      BY DEF Restrict
    <3>3. epoch' \in Nat
      BY <1>1, <1>3, <1>4
    <3> HIDE DEF table
    <3>4. \A i \in DOMAIN table : i \in DOMAIN rows /\ table[i] \in Nat
      BY <1>3, <1>5 DEF Rowed
    <3>5. \E top \in Nat : \A i \in DOMAIN table : table[i] <= top
      BY <1>3, <1>5, <3>4 DEF Rowed
    <3>6. QED
      BY <3>1, <3>2, <3>3, <3>4, <3>5 DEF Rowed
  <2> HIDE DEF table
  <2>3. after \in [Ids -> Nat] /\ Witness(table, epoch') \in Witnesses
    BY <2>2, CountFacts, WitnessFacts
  <2> HIDE DEF after
  <2>4. /\ doc' \in [totals : [Ids -> Nat], invalid : BOOLEAN, witness : Witnesses]
        /\ doc'.totals = after /\ ~doc'.invalid /\ doc'.witness = Witness(table, epoch')
    BY <2>1, <2>3 DEF Doc
  <2>5. /\ committed' \in [totals : [Ids -> Nat], witness : Witnesses, degraded : BOOLEAN,
                           ids : Seq(Records)]
        /\ committed'.totals = after /\ ~committed'.degraded /\ committed'.ids = <<>>
        /\ committed'.witness = Witness(table, epoch')
    <3> DEFINE wit == Witness(table, epoch')
    <3>1. committed' = [totals |-> after, witness |-> wit, degraded |-> FALSE, ids |-> <<>>]
      BY <2>1 DEF Nothing
    <3>2. wit \in Witnesses
      BY <2>3
    <3> HIDE DEF wit
    <3>3. /\ committed' \in [totals : [Ids -> Nat], witness : Witnesses, degraded : BOOLEAN,
                              ids : Seq(Records)]
          /\ committed'.totals = after /\ ~committed'.degraded /\ committed'.ids = <<>>
          /\ committed'.witness = wit
      BY <2>3, <3>1, <3>2
    <3>4. QED
      BY <3>3 DEF wit
  <2>6. /\ Now' = Witness(table, epoch') /\ ~totalsWitnessNewer(Now', Now')
        /\ totalsWitnessNewer(Now', Now)
    <3>1. Now' = Witness(table, epoch') /\ ~totalsWitnessNewer(Now', Now')
      BY <1>1, <2>3, NewerFacts DEF Now
    <3>2. epoch' > epoch /\ Now.epoch = epoch /\ Now'.epoch = epoch'
      BY <1>1, <1>3, <1>4, <1>7 DEF Now, Witness
    <3>3. QED
      BY <1>3, <3>1, <3>2 DEF totalsWitnessNewer
  <2>7. TotalsTyped'
    BY <1>1, <2>1, <2>2, <2>4, <2>5 DEF TotalsInv, TotalsTyped
  <2>8. ~totalsWitnessNewer(mem.witness, Now') /\ mem.witness # Now'
    BY <2>6, <2>7, OlderThanGrown
  <2>81. DocExact' /\ MemExact' /\ PublishSound'
    BY <1>1, <2>1, <2>4, <2>5, <2>6, <2>8
    DEF DocExact, MemExact, PublishSound, after, None, Committing
  <2>9. Range(written') \cap Records \subseteq DOMAIN rows' \cup purged'
    BY <1>1, <1>5 DEF TotalsInv, WrittenCounted
  <2>10. Counts(committed.totals, Range(written) \cup Range(committed.ids))'
    <3>0. Range(committed'.ids) = {}
      BY <2>5 DEF Range
    <3> SUFFICES ASSUME NEW r \in Records, r \in Range(written'), r \notin purged'
                 PROVE  after[r] >= 1
      BY <2>5, <3>0 DEF Counts
    <3>1. r \in DOMAIN table /\ r \in Ids
      BY <1>1, <2>9 DEF Ids
    <3>2. QED
      BY <3>1, CountFacts DEF after
  <2>11. CommitSound'
    <3>1. Range(committed'.ids) = {}
      BY <2>5 DEF Range
    <3>2. QED
      BY <1>1, <2>5, <2>6, <2>10, <3>1 DEF CommitSound, Counts, after
  <2>12. WrittenCounted'
    BY <1>1, <2>9 DEF TotalsInv, WrittenCounted, Counts
  <2>13. NothingVanishes'
    BY <1>1, FoldKept DEF TotalsInv
  <2>14. QED
    BY <2>7, <2>81, <2>11, <2>12, <2>13 DEF TotalsInv
<1>8. QED
  BY <1>6, <1>7

LEMMA PublishTotalsStep ==
  ASSUME RecordsInv, TotalsInv, publishTotals
  PROVE  TotalsInv'
<1>1. /\ up /\ w.at = "publish" /\ mem' = Memory(committed.totals, committed.witness, FALSE)
      /\ committed' = Nothing
      /\ UNCHANGED <<rows, epoch, doc, written, reader, foreign, up, purged, conn>>
  BY DEF publishTotals, store, history
<1>2. w'.at = "remove"
  BY DEF publishTotals, Goes, RecordsInv, Typed, Writers
<1>3. Now' = Now /\ Now \in Witnesses /\ committed.witness \in Witnesses
      /\ committed.totals \in [Ids -> Nat]
  BY <1>1, NowFacts DEF Now, TotalsInv, TotalsTyped
<1>4. /\ ~totalsWitnessNewer(committed.witness, Now)
      /\ committed.witness = Now => committed.totals = Counted(DOMAIN rows)
      /\ Counts(committed.totals, Range(written) \cup Range(committed.ids))
      /\ ~foreign => committed.witness = Now
  BY <1>1 DEF TotalsInv, CommitSound, PublishSound, Committing
<1>5. /\ mem' \in [totals : [Ids -> Nat], built : BOOLEAN, witness : Witnesses, degraded : BOOLEAN]
      /\ mem'.totals = committed.totals /\ ~mem'.degraded /\ mem'.built
      /\ mem'.witness = committed.witness
  BY <1>1, <1>3 DEF Memory
<1>6. committed' \in [totals : [Ids -> Nat], witness : Witnesses, degraded : BOOLEAN, ids : Seq(Records)]
  BY <1>1, <1>3, CountFacts DEF Nothing, NoWitness, Witnesses
<1>7. TotalsTyped'
  BY <1>1, <1>5, <1>6 DEF TotalsInv, TotalsTyped
<1>8. DocExact' /\ CommitSound' /\ PublishSound' /\ NothingVanishes'
  BY <1>1, <1>2, <1>3, FoldKept DEF TotalsInv, DocExact, CommitSound, PublishSound, Committing
<1>9. MemExact'
  BY <1>1, <1>3, <1>4, <1>5 DEF MemExact
<1>10. WrittenCounted'
  BY <1>1, <1>4, <1>5 DEF TotalsInv, WrittenCounted, Counts
<1>11. QED
  BY <1>7, <1>8, <1>9, <1>10 DEF TotalsInv

\* A merge and the other process of a restart add rows and save an exact document.
LEMMA GrownStep ==
  ASSUME TotalsInv, NEW table, NEW seq,
         table = Appended(rows, seq), DOMAIN seq \subseteq Nat, IsFiniteSet(Range(seq)),
         rows' = table, doc' = Doc(Counted(DOMAIN table), FALSE, table, epoch),
         UNCHANGED <<epoch, mem, written, committed, reader, up, purged, w>>,
         \/ up /\ conn' = "merge" /\ foreign' = FALSE /\ w.at # "publish"
         \/ foreign' = TRUE /\ conn = None /\ conn' = None
  PROVE  TotalsInv'
<1>1. /\ Rowed(table) /\ DOMAIN rows \subseteq DOMAIN table /\ epoch \in Nat /\ Rowed(rows)
      /\ table = rows \/ HighRowID(table) > HighRowID(rows)
  <2>1. Rowed(rows) /\ epoch \in Nat
    BY DEF TotalsInv, TotalsTyped
  <2>2. /\ Rowed(Appended(rows, seq))
        /\ DOMAIN Appended(rows, seq) = DOMAIN rows \union Range(seq)
        /\ Appended(rows, seq) = rows \/ HighRowID(Appended(rows, seq)) > HighRowID(rows)
    BY <2>1, AppendedFacts
  <2>3. QED
    BY <2>1, <2>2
<1>2. Now' = Witness(table, epoch) /\ Witness(table, epoch) \in Witnesses
  BY <1>1, WitnessFacts DEF Now
<1>3. Counted(DOMAIN table) \in [Ids -> Nat]
  BY CountFacts
<1>4. /\ doc' \in [totals : [Ids -> Nat], invalid : BOOLEAN, witness : Witnesses]
      /\ doc'.totals = Counted(DOMAIN table) /\ ~doc'.invalid /\ doc'.witness = Witness(table, epoch)
  BY <1>2, <1>3 DEF Doc
<1>5. TotalsTyped'
  BY <1>1, <1>4 DEF TotalsInv, TotalsTyped
<1>6. DocExact'
  BY <1>2, <1>4 DEF DocExact, None
<1>7. WrittenCounted'
  BY <1>1 DEF TotalsInv, WrittenCounted, Counts
<1>8. NothingVanishes' /\ PublishSound'
  BY FoldKept DEF TotalsInv, PublishSound
<1>9. ~(~foreign /\ conn = None)'
  BY DEF None
<1>10. CASE table = rows
  <2>1. Now' = Now
    BY <1>2, <1>10 DEF Now
  <2>2. MemExact'
    BY <1>9, <1>10, <2>1 DEF TotalsInv, MemExact
  <2>3. CommitSound'
    BY <1>9, <1>10, <2>1 DEF TotalsInv, CommitSound, Counts
  <2>4. QED
    BY <1>5, <1>6, <1>7, <1>8, <2>2, <2>3 DEF TotalsInv
<1>11. CASE HighRowID(table) > HighRowID(rows)
  <2>1. totalsWitnessNewer(Now', Now)
    BY <1>1, <1>2, <1>11, NewerByAppend DEF Now
  <2>2. /\ ~totalsWitnessNewer(mem.witness, Now') /\ mem.witness # Now'
        /\ w.at \in Committing => /\ ~totalsWitnessNewer(committed.witness, Now')
                                /\ committed.witness # Now'
    BY <1>5, <2>1, OlderThanGrown
  <2>3. MemExact'
    BY <1>9, <2>2 DEF MemExact
  <2>4. CommitSound'
    BY <1>1, <1>9, <2>2 DEF TotalsInv, CommitSound, Counts
  <2>5. QED
    BY <1>5, <1>6, <1>7, <1>8, <2>3, <2>4 DEF TotalsInv
<1>12. QED
  BY <1>1, <1>10, <1>11

LEMMA InstallStep ==
  ASSUME TotalsInv, installTotals
  PROVE  TotalsInv'
<1>1. /\ up /\ conn = "merge" /\ conn' = None /\ mem' = Memory(doc.totals, doc.witness, FALSE)
      /\ UNCHANGED <<rows, epoch, doc, written, committed, reader, foreign, up, purged, w>>
  BY DEF installTotals, store, history
<1>2. /\ doc.totals = Counted(DOMAIN rows) /\ doc.witness = Now /\ ~foreign
      /\ doc.totals \in [Ids -> Nat] /\ Now \in Witnesses /\ Now' = Now
  BY <1>1, NowFacts DEF TotalsInv, TotalsTyped, DocExact, Now
<1>3. /\ mem' \in [totals : [Ids -> Nat], built : BOOLEAN, witness : Witnesses, degraded : BOOLEAN]
      /\ mem'.totals = Counted(DOMAIN rows) /\ ~mem'.degraded /\ mem'.built /\ mem'.witness = Now
  BY <1>1, <1>2 DEF Memory
<1>4. TotalsTyped'
  BY <1>1, <1>3 DEF TotalsInv, TotalsTyped
<1>5. DocExact' /\ NothingVanishes' /\ PublishSound'
  BY <1>1, <1>2, FoldKept DEF TotalsInv, DocExact, PublishSound, None
<1>6. ~totalsWitnessNewer(Now, Now)
  BY <1>2, NewerFacts
<1>7. MemExact'
  BY <1>1, <1>2, <1>3, <1>6 DEF MemExact
<1>8. ASSUME NEW r \in Records, r \in DOMAIN rows PROVE mem'.totals[r] >= 1
  BY <1>3, <1>8, CountFacts DEF Ids
<1>9. WrittenCounted'
  BY <1>1, <1>8 DEF TotalsInv, WrittenCounted, Counts
<1>10. CommitSound'
  BY <1>1, <1>2, <1>3, <1>8 DEF TotalsInv, CommitSound, Counts
<1>11. QED
  BY <1>4, <1>5, <1>7, <1>9, <1>10 DEF TotalsInv

LEMMA EndsTotals ==
  ASSUME TotalsInv, Ends
  PROVE  TotalsInv'
<1>1. /\ up' = FALSE /\ conn' = None /\ written' = <<>> /\ committed' = Nothing
      /\ mem' = [Memory(Zero, NoWitness, FALSE) EXCEPT !.built = FALSE]
      /\ reader' = NoReader /\ w' = IdleWriter
      /\ UNCHANGED <<rows, epoch, doc, foreign, purged>>
  BY DEF Ends, store
<1>2. Zero \in [Ids -> Nat] /\ NoWitness \in Witnesses /\ Now' = Now /\ Now \in Witnesses
  BY <1>1, CountFacts, NowFacts DEF Now, NoWitness, Witnesses, TotalsInv
<1>3. /\ mem' \in [totals : [Ids -> Nat], built : BOOLEAN, witness : Witnesses, degraded : BOOLEAN]
      /\ ~mem'.built /\ mem'.witness = NoWitness
  BY <1>1, <1>2 DEF Memory
<1>4. /\ committed' \in [totals : [Ids -> Nat], witness : Witnesses, degraded : BOOLEAN,
                         ids : Seq(Records)]
      /\ reader' \in [view : SUBSET Ids, seen : [Ids -> Nat], at : {"idle", "ring", "done"},
                      degraded : BOOLEAN]
      /\ reader'.at = "idle" /\ w'.at = "select"
  BY <1>1, <1>2 DEF Nothing, NoReader, IdleWriter
<1>5. Range(written') = {}
  BY <1>1 DEF Range
<1>6. TotalsTyped'
  BY <1>1, <1>3, <1>4 DEF TotalsInv, TotalsTyped
<1>7. ~totalsWitnessNewer(NoWitness, Now)
  BY <1>2, NewerFacts
<1>8. QED
  BY <1>1, <1>2, <1>3, <1>4, <1>5, <1>6, <1>7
  DEF TotalsInv, DocExact, MemExact, WrittenCounted, CommitSound, PublishSound, Committing,
      NothingVanishes, None

LEMMA OpenTotals ==
  ASSUME TotalsInv, NEW scanned \in BOOLEAN, Open(scanned)
  PROVE  TotalsInv'
<1>1. /\ ~up /\ up' = TRUE /\ written' = Recent /\ foreign' = FALSE
      /\ UNCHANGED <<rows, epoch, committed, reader, purged, conn, w>>
  BY DEF Open
<1>2. /\ conn = None /\ w.at = "select" /\ ~mem.built /\ epoch \in Nat /\ Rowed(rows)
      /\ Now \in Witnesses /\ Now' = Now /\ doc.totals \in [Ids -> Nat]
      /\ doc.witness = Now /\ (~doc.invalid => doc.totals = Counted(DOMAIN rows))
  BY <1>1, NowFacts DEF TotalsInv, TotalsTyped, DocExact, Now
<1>3. Range(written') \subseteq DOMAIN rows
  BY <1>1, RecentFacts
<1>4. Counted(DOMAIN rows) \in [Ids -> Nat] /\ ~totalsWitnessNewer(Now, Now)
  BY <1>2, CountFacts, NewerFacts
<1>5. ASSUME NEW r \in Records, r \in DOMAIN rows PROVE Counted(DOMAIN rows)[r] >= 1
  BY <1>5, CountFacts DEF Ids
<1>6. CommitSound' /\ PublishSound' /\ NothingVanishes'
  BY <1>1, <1>2, FoldKept DEF TotalsInv, CommitSound, PublishSound, Committing
<1>7. CASE loadTotals \/ scanned
  <2>1. mem' = Memory(Counted(DOMAIN rows), Now, FALSE)
    BY <1>2, <1>7 DEF Open, loadTotals, Now
  <2>2. /\ mem' \in [totals : [Ids -> Nat], built : BOOLEAN, witness : Witnesses, degraded : BOOLEAN]
        /\ mem'.totals = Counted(DOMAIN rows) /\ ~mem'.degraded /\ mem'.built /\ mem'.witness = Now
    BY <1>2, <1>4, <2>1 DEF Memory
  <2>3. /\ doc' \in [totals : [Ids -> Nat], invalid : BOOLEAN, witness : Witnesses]
        /\ doc'.witness = Now /\ (~doc'.invalid => doc'.totals = Counted(DOMAIN rows))
    <3>1. CASE loadTotals
      BY <1>2, <3>1 DEF Open, TotalsInv, TotalsTyped
    <3>2. CASE ~loadTotals
      <4>1. doc' = Doc(Counted(DOMAIN rows), FALSE, rows, epoch)
        BY <1>7, <3>2 DEF Open
      <4>2. QED
        BY <1>2, <1>4, <4>1 DEF Doc, Now
    <3>3. QED
      BY <3>1, <3>2
  <2>4. TotalsTyped'
    BY <1>1, <1>2, <2>2, <2>3 DEF TotalsInv, TotalsTyped
  <2>5. DocExact' /\ MemExact'
    BY <1>1, <1>2, <1>4, <2>2, <2>3 DEF DocExact, MemExact, None
  <2>6. WrittenCounted'
    BY <1>1, <1>3, <1>5, <2>2 DEF WrittenCounted, Counts
  <2>7. QED
    BY <1>6, <2>4, <2>5, <2>6 DEF TotalsInv
<1>8. CASE ~loadTotals /\ ~scanned
  <2>1. mem' = [mem EXCEPT !.degraded = TRUE] /\ doc' = doc
    BY <1>8 DEF Open
  <2>2. /\ mem' \in [totals : [Ids -> Nat], built : BOOLEAN, witness : Witnesses, degraded : BOOLEAN]
        /\ mem'.degraded /\ ~mem'.built /\ mem'.witness = mem.witness
    BY <1>2, <2>1 DEF TotalsInv, TotalsTyped
  <2>3. TotalsTyped'
    BY <1>1, <1>2, <2>1, <2>2 DEF TotalsInv, TotalsTyped
  <2>4. DocExact' /\ MemExact' /\ WrittenCounted'
    BY <1>1, <1>2, <1>3, <2>1, <2>2 DEF TotalsInv, DocExact, MemExact, WrittenCounted, None
  <2>5. QED
    BY <1>6, <2>3, <2>4 DEF TotalsInv
<1>9. QED
  BY <1>7, <1>8

LEMMA FoldStep ==
  ASSUME RecordsInv, TotalsInv, SnapshotRing \/ TotalsAndUnwritten
  PROVE  TotalsInv'
<1>1. UNCHANGED <<rows, epoch, doc, mem, written, committed, foreign, up, purged, conn, w>>
  BY DEF SnapshotRing, TotalsAndUnwritten, store, history
<1>2. DocExact' /\ MemExact' /\ WrittenCounted' /\ CommitSound' /\ PublishSound'
  BY <1>1 DEF TotalsInv, DocExact, MemExact, WrittenCounted, CommitSound, PublishSound, Now, Counts
<1>3. mem.totals \in [Ids -> Nat] /\ mem.degraded \in BOOLEAN
  BY DEF TotalsInv, TotalsTyped
<1>4. CASE SnapshotRing
  <2>1. reader' = [NoReader EXCEPT !.view = Range(ring), !.at = "ring"]
    BY <1>4 DEF SnapshotRing
  <2>2. /\ reader' \in [view : SUBSET Ids, seen : [Ids -> Nat], at : {"idle", "ring", "done"},
                        degraded : BOOLEAN]
        /\ reader'.at = "ring"
    BY <2>1, CountFacts DEF NoReader, RecordsInv, Typed
  <2>3. TotalsTyped' /\ NothingVanishes'
    BY <1>1, <2>2 DEF TotalsInv, TotalsTyped, NothingVanishes
  <2>4. QED
    BY <1>2, <2>3 DEF TotalsInv
<1>5. CASE TotalsAndUnwritten
  <2> DEFINE seen == Plus(mem.totals, reader.view \ Range(written))
  <2>1. up /\ reader' = [reader EXCEPT !.at = "done", !.degraded = mem.degraded, !.seen = seen]
    BY <1>5 DEF TotalsAndUnwritten
  <2>2. seen \in [Ids -> Nat]
    BY <1>3, PlusType
  <2>3. ASSUME NEW r \in Records, r \in reader.view, r \notin purged, ~mem.degraded
        PROVE  seen[r] >= 1
    <3>1. r \in Ids /\ mem.totals[r] \in Nat /\ seen[r] \in Nat
      BY <1>3, <2>2 DEF Ids
    <3>2. CASE r \in Range(written)
      <4>1. mem.totals[r] >= 1
        BY <2>1, <2>3, <3>2 DEF TotalsInv, WrittenCounted, Counts
      <4>2. seen[r] >= mem.totals[r]
        BY <1>3, <3>1 DEF Plus
      <4>3. QED
        BY <3>1, <4>1, <4>2
    <3>3. CASE r \notin Range(written)
      BY <1>3, <2>3, <3>1, <3>3 DEF Plus
    <3>4. QED
      BY <3>2, <3>3
  <2> HIDE DEF seen
  <2>4. /\ reader' \in [view : SUBSET Ids, seen : [Ids -> Nat], at : {"idle", "ring", "done"},
                        degraded : BOOLEAN]
        /\ reader'.view = reader.view /\ reader'.seen = seen
        /\ reader'.degraded <=> mem.degraded
    BY <1>3, <2>1, <2>2 DEF TotalsInv, TotalsTyped
  <2>5. TotalsTyped'
    BY <1>1, <2>4 DEF TotalsInv, TotalsTyped
  <2>6. NothingVanishes'
    BY <1>1, <2>3, <2>4 DEF NothingVanishes
  <2>7. QED
    BY <1>2, <2>5, <2>6 DEF TotalsInv
<1>6. QED
  BY <1>4, <1>5

\* Every other step leaves rows, totals and the fold alone.
Aside ==
  \/ \E r \in Records : record(r)
  \/ \E all \in BOOLEAN : Clear(all)
  \/ ClearReturns \/ MergeStarts \/ MergeAbandoned \/ Close

LEMMA OtherSteps ==
  ASSUME RecordsInv, TotalsInv,
         Aside \/ Select \/ LoadPurge \/ Work \/ insertFails \/ purgeFails \/ RemoveThrough
  PROVE  TotalsInv'
<1>1. w \in Writers
  BY DEF RecordsInv, Typed
<1>2. CASE Aside
  <2>1. UNCHANGED Touched /\ w' = w
    BY <1>2 DEF Aside, record, Clear, ClearReturns, MergeStarts, MergeAbandoned, Close, Touched,
                store, history
  <2>2. QED
    BY <2>1, QuietStep
<1>3. CASE Select
  <2>1. UNCHANGED Touched /\ up /\ w.at = "select"
    BY <1>3 DEF Select, Touched, store, history
  <2>2. w'.at \in {"load", "work"}
    BY <1>1, <1>3 DEF Select, SelectRecord, Take, SelectWake, Goes, SelectFlush, SelectTick,
                      SelectDone, Writers
  <2>3. QED
    BY <2>1, <2>2, QuietStep DEF Committing
<1>4. CASE LoadPurge
  <2>1. UNCHANGED Touched /\ up /\ w.at = "load"
    BY <1>4 DEF LoadPurge, Touched, store, history
  <2>2. w'.at = "work"
    BY <1>1, <1>4 DEF LoadPurge, Goes, Writers
  <2>3. QED
    BY <2>1, <2>2, QuietStep DEF Committing
<1>5. CASE Work
  <2>1. UNCHANGED Touched /\ up /\ w.at = "work"
    BY <1>5 DEF Work, Touched, store, history
  <2>2. w'.at \in {"work", "load", "done", "select"}
    BY <1>1, <1>5, <2>1 DEF Work, DrainToFence, AppendHeld, DrainMore, LastLook, Rest, IdleWriter,
                            Writers
  <2>3. QED
    BY <2>1, <2>2, QuietStep DEF Committing
<1>6. CASE insertFails \/ purgeFails
  <2>1. UNCHANGED Touched /\ up
    BY <1>6 DEF insertFails, purgeFails, FlushDue, Ready, Touched, store, history
  <2>2. w'.at = w.at
    BY <1>1, <1>6 DEF insertFails, purgeFails, Writers
  <2>3. QED
    BY <2>1, <2>2, QuietStep DEF Committing
<1>7. CASE RemoveThrough
  <2>1. UNCHANGED Touched /\ up /\ w.at = "remove"
    BY <1>7 DEF RemoveThrough, Touched, store, history
  <2>2. w'.at = "work"
    BY <1>1, <1>7 DEF RemoveThrough, Writers
  <2>3. QED
    BY <2>1, <2>2, QuietStep DEF Committing
<1>8. QED
  BY <1>2, <1>3, <1>4, <1>5, <1>6, <1>7

LEMMA TotalsStep ==
  ASSUME Setting, RecordsInv, OneAdmin, CutKept, TotalsInv, [Next]_vars
  PROVE  TotalsInv'
<1>1. CASE Next
  <2>1. CASE \E rebuilt \in BOOLEAN : insertBatch(rebuilt)
    BY <2>1, InsertStep
  <2>2. CASE account
    BY <2>2, AccountStep
  <2>3. CASE purgeTransaction
    BY <2>3, PurgeStep
  <2>4. CASE MergeSnapshotFile
    <3>1. IsFiniteSet(Range(SetToSeq(Incoming))) /\ DOMAIN SetToSeq(Incoming) \subseteq Nat
      <4>1. /\ Cardinality(Incoming) \in Nat
            /\ ExistsBijection(1 .. Cardinality(Incoming), Incoming)
        BY FS_CardinalityType DEF Setting
      <4>2. \E f \in [1 .. Cardinality(Incoming) -> Incoming] : IsInjective(f)
        BY <4>1 DEF ExistsBijection, Bijection, Injection, IsInjective
      <4>3. SetToSeq(Incoming) \in [1 .. Cardinality(Incoming) -> Incoming]
        BY <4>2 DEF SetToSeq
      <4>4. SetToSeq(Incoming) \in Seq(Incoming)
        BY <4>1, <4>3
      <4>5. QED
        BY <4>4, RangeFinite
    <3>2. w.at # "publish"
      BY <2>4 DEF MergeSnapshotFile, OneAdmin, CutKept, Cutting, RecordsInv, FenceKept
    <3>3. QED
      BY <2>4, <3>1, <3>2, GrownStep DEF MergeSnapshotFile
  <2>5. CASE installTotals
    BY <2>5, InstallStep
  <2>6. CASE \E i \in Foreign : OtherProcessCommits(i)
    <3>1. PICK i \in Foreign : OtherProcessCommits(i)
      BY <2>6
    <3>2. IsFiniteSet(Range(<<i>>)) /\ DOMAIN <<i>> \subseteq Nat
      <4>1. <<i>> \in Seq(Foreign)
        OBVIOUS
      <4>2. QED
        BY <4>1, RangeFinite
    <3>3. QED
      BY <3>1, <3>2, GrownStep DEF OtherProcessCommits
  <2>7. CASE Ends
    BY <2>7, EndsTotals
  <2>8. CASE \E scanned \in BOOLEAN : Open(scanned)
    BY <2>8, OpenTotals
  <2>9. CASE SnapshotRing \/ TotalsAndUnwritten
    BY <2>9, FoldStep
  <2>10. CASE Aside \/ Select \/ LoadPurge \/ Work \/ insertFails \/ purgeFails \/ RemoveThrough
    BY <2>10, OtherSteps
  <2>11. CASE publishTotals
    BY <2>11, PublishTotalsStep
  <2>12. QED
    BY <1>1, <2>1, <2>2, <2>3, <2>4, <2>5, <2>6, <2>7, <2>8, <2>9, <2>10, <2>11
    DEF Next, WriterStep, MergeStep, Aside
<1>2. CASE UNCHANGED vars
  <2>1. UNCHANGED Touched /\ w' = w
    BY <1>2 DEF vars, Touched, store, history
  <2>2. QED
    BY <2>1, QuietStep
<1>3. QED
  BY <1>1, <1>2

LEMMA TotalsInit == Init => TotalsInv
<1> SUFFICES ASSUME Init PROVE TotalsInv
  OBVIOUS
<1>1. /\ rows = <<>> /\ epoch = 0 /\ doc = Doc(Zero, FALSE, <<>>, 0)
      /\ mem = Memory(Zero, NoWitness, FALSE) /\ written = <<>> /\ committed = Nothing
      /\ reader = NoReader /\ up = TRUE /\ foreign = FALSE /\ conn = None /\ w = IdleWriter
  BY DEF Init
<1>2. Rowed(rows) /\ DOMAIN rows = {} /\ Range(written) = {}
  BY <1>1, FS_EmptySet DEF Rowed, Range
<1>3. Counted(DOMAIN rows) = Zero /\ Zero \in [Ids -> Nat]
  BY <1>2 DEF Counted, Zero
<1>4. Now = NoWitness /\ Now = Witness(<<>>, 0) /\ NoWitness \in Witnesses
  BY <1>1, <1>2, HighFacts DEF Now, Witness, NoWitness, Witnesses
<1>5. /\ doc \in [totals : [Ids -> Nat], invalid : BOOLEAN, witness : Witnesses]
      /\ doc.totals = Zero /\ doc.witness = Now
  BY <1>1, <1>3, <1>4 DEF Doc
<1>6. /\ mem \in [totals : [Ids -> Nat], built : BOOLEAN, witness : Witnesses, degraded : BOOLEAN]
      /\ mem.built /\ mem.totals = Zero /\ mem.witness = Now
  BY <1>1, <1>3, <1>4 DEF Memory
<1>7. /\ committed \in [totals : [Ids -> Nat], witness : Witnesses, degraded : BOOLEAN,
                        ids : Seq(Records)]
      /\ reader \in [view : SUBSET Ids, seen : [Ids -> Nat], at : {"idle", "ring", "done"},
                     degraded : BOOLEAN]
      /\ reader.at = "idle" /\ w.at = "select"
  BY <1>1, <1>3, <1>4 DEF Nothing, NoReader, IdleWriter
<1>8. TotalsTyped
  BY <1>1, <1>2, <1>5, <1>6, <1>7 DEF TotalsTyped
<1>9. ~totalsWitnessNewer(Now, Now)
  BY <1>4, NewerFacts
<1>10. QED
  BY <1>1, <1>2, <1>3, <1>5, <1>6, <1>7, <1>8, <1>9
  DEF TotalsInv, DocExact, MemExact, WrittenCounted, Counts, CommitSound, PublishSound, Committing,
      NothingVanishes, None

\* TotalsSound: outside a transaction the totals in memory are those of the rows unless
\* they say they are not, a document that is loaded is, and a fold of ring and totals
\* loses no record, whatever commits, purges, merges, fails, crashes or restarts
\* meanwhile (store_record.go, totals.go).
THEOREM TotalsAreSound == ASSUME Setting PROVE Spec => []TotalsSound
<1>1. Init => TotalsInv
  BY TotalsInit
<1>2. RecordsInv /\ OneAdmin /\ CutKept /\ TotalsInv /\ [Next]_vars => TotalsInv'
  BY TotalsStep
<1>3. TotalsInv => TotalsSound
  <2> SUFFICES ASSUME TotalsInv PROVE TotalsExact /\ NothingVanishes
    BY DEF TotalsSound
  <2>1. TotalsExact
    BY DEF TotalsInv, TotalsExact, MemExact, DocExact, loadTotals, Committing, Now
  <2>2. QED
    BY <2>1 DEF TotalsInv
<1>4. Spec => [](RecordsInv /\ OneAdmin /\ CutKept)
  BY CutInvariant
<1>5. QED
  BY <1>1, <1>2, <1>3, <1>4, PTL DEF Spec
=============================================================================
