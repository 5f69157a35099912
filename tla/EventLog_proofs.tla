--------------------------- MODULE EventLog_proofs ---------------------------
(***************************************************************************)
(* Theorems about EventLog, for any sessions, clients and bounds: the      *)
(* committed events are numbered without gaps, and no client is ever shown *)
(* an event before one with a smaller number.                              *)
(***************************************************************************)
EXTENDS EventLog, TLAPS

-----------------------------------------------------------------------------
(* Sequence numbers *)

Bounded(numbers, m) == m \in numbers \cup {0} /\ \A n \in numbers : n <= m

\* CHOOSE in Largest finds the bound if there is one.
LEMMA LargestIsTheBound ==
    ASSUME NEW numbers \in SUBSET Nat, NEW m \in Nat, Bounded(numbers, m)
    PROVE  Largest(numbers) = m
<1> numbers \cup {0} \subseteq Nat
  OBVIOUS
<1>1. \E x \in numbers \cup {0} : \A n \in numbers : n <= x
  BY DEF Bounded
<1>2. Largest(numbers) \in numbers \cup {0} /\ \A n \in numbers : n <= Largest(numbers)
  BY <1>1 DEF Largest
<1>3. Largest(numbers) \in Nat
  BY <1>2
<1>4. Largest(numbers) <= m /\ m <= Largest(numbers)
  BY <1>2, <1>3 DEF Bounded
<1> QED
  BY <1>3, <1>4

\* One more number, after all others.
LEMMA TheNextOneBounds ==
    ASSUME NEW numbers \in SUBSET Nat, NEW m \in Nat, Bounded(numbers, m)
    PROVE  /\ Bounded(numbers \cup {m + 1}, m + 1)
           /\ Largest(numbers \cup {m + 1}) = m + 1
<1>1. \A n \in numbers : n \in Nat /\ n <= m
  BY DEF Bounded
<1>2. Bounded(numbers \cup {m + 1}, m + 1)
  BY <1>1 DEF Bounded
<1>3. numbers \cup {m + 1} \in SUBSET Nat
  OBVIOUS
<1> QED
  BY <1>2, <1>3, LargestIsTheBound

\* The numbers up to k, besides.
LEMMA UnionIsBounded ==
    ASSUME NEW numbers \in SUBSET Nat, NEW m \in Nat, Bounded(numbers, m), NEW k \in Nat
    PROVE  /\ Largest(numbers \cup 1..k) \in Nat
           /\ Bounded(numbers \cup 1..k, Largest(numbers \cup 1..k))
<1> DEFINE b == IF m <= k THEN k ELSE m
<1>1. \A n \in numbers : n \in Nat /\ n <= m
  BY DEF Bounded
<1>2. b \in numbers \cup 1..k \cup {0}
  BY DEF Bounded
<1>3. Bounded(numbers \cup 1..k, b)
  BY <1>1, <1>2 DEF Bounded
<1>4. numbers \cup 1..k \in SUBSET Nat
  OBVIOUS
<1> QED
  BY <1>3, <1>4, LargestIsTheBound

\* The numbers of a set of rows.
LEMMA SequencesAreNumbers ==
    ASSUME NEW rows \in SUBSET Row
    PROVE  Sequences(rows) \in SUBSET (Nat \ {0})
BY DEF Sequences, Row

\* The last committed number, and the last one that a session sees.
Count == Largest(Sequences(events))
Top(w) == Largest(Sequences(events \cup own[w]))

\* The committed numbers are 1 to Count.
Numbered ==
    /\ Count \in Nat
    /\ Sequences(events) = 1..Count
    /\ \A r, s \in events : r.sequence = s.sequence => r = s

\* What a session has added follows what is committed, or cannot be committed
\* any more.
Follows(w) ==
    /\ Top(w) \in Nat
    /\ Bounded(Sequences(events \cup own[w]), Top(w))
    /\ \A r, s \in own[w] : r.sequence = s.sequence => r = s
    /\ Conflict(w) \/ Sequences(own[w]) = (Count + 1)..Top(w)

Upto(k) == {r \in events : r.sequence <= k}
Between(k, b) == {r \in events : k < r.sequence /\ r.sequence <= b}

\* A client has been shown events 1 to k, and holds those up to b.
Holds(c, k, b) ==
    /\ k <= b /\ b <= Count
    /\ stream[c].shown = Upto(k)
    /\ stream[c].at # "closed" => stream[c].current = k
    /\ stream[c].batch = IF stream[c].at = "listed" THEN Between(k, b) ELSE {}

LogInv ==
    /\ LogTypeOK
    /\ Numbered
    /\ \A w \in Writers : Follows(w)
    /\ \A c \in Readers : \E k, b \in Nat : Holds(c, k, b)

\* The numbers of the rows up to k are 1 to k.
LEMMA UptoIsNumbered ==
    ASSUME LogTypeOK, Numbered, NEW k \in 0..Count
    PROVE  /\ Sequences(Upto(k)) = 1..k
           /\ Largest(Sequences(Upto(k))) = k
<1>1. \A n \in 1..k : \E r \in events : r.sequence = n
  BY DEF Numbered, Sequences
<1>2. \A r \in events : r.sequence \in Nat \ {0}
  BY DEF LogTypeOK, Row
<1>3. Sequences(Upto(k)) = 1..k
  BY <1>1, <1>2 DEF Sequences, Upto, Numbered
<1>4. Bounded(1..k, k) /\ 1..k \in SUBSET Nat /\ k \in Nat
  BY DEF Bounded, Numbered
<1> QED
  BY <1>3, <1>4, LargestIsTheBound

-----------------------------------------------------------------------------
(* The invariant holds initially *)

\* Nothing is committed, added or shown.
LEMMA InitEstablishesLogInv ==
    ASSUME LogInit
    PROVE  LogInv
<1>1. Sequences({}) = {}
  BY DEF Sequences
<1>2. Bounded({}, 0)
  BY DEF Bounded
<1>3. Largest({}) = 0
  BY <1>2, LargestIsTheBound
<1>4. /\ Count = 0
      /\ \A w \in Writers : Top(w) = 0 /\ Sequences(events \cup own[w]) = {} /\ own[w] = {}
  BY <1>1, <1>3 DEF Count, Top, LogInit
<1>5. LogTypeOK
  BY DEF LogInit, LogTypeOK, Stream
<1>6. Numbered
  BY <1>1, <1>4 DEF Numbered, LogInit
<1>7. \A w \in Writers : Follows(w)
  <2>1. (0 + 1)..0 = {}
    OBVIOUS
  <2>2. ASSUME NEW w \in Writers PROVE Follows(w)
    <3>1. Sequences(own[w]) = {}
      BY <1>1, <1>4
    <3> QED
      BY <1>4, <2>1, <3>1 DEF Follows, Bounded
  <2> QED
    BY <2>2
<1>8. \A c \in Readers : Holds(c, 0, 0)
  BY <1>4 DEF Holds, Upto, Between, LogInit
<1> QED
  BY <1>5, <1>6, <1>7, <1>8 DEF LogInv

-----------------------------------------------------------------------------
(* The sessions that append *)

\* What a client holds does not change when later events are committed.
LEMMA LaterEventsAreNotHeld ==
    ASSUME LogInv, NEW c \in Readers, stream' = stream, events \subseteq events',
           events' \subseteq Row, Count' \in Nat, Count <= Count',
           \A r \in events' \ events : r.sequence > Count
    PROVE  \E k, b \in Nat : Holds(c, k, b)'
<1>1. PICK k \in Nat, b \in Nat : Holds(c, k, b)
  BY DEF LogInv
<1>2. k <= Count /\ b <= Count /\ Count \in Nat
  BY <1>1 DEF Holds, LogInv, Numbered
<1>3. Upto(k)' = Upto(k) /\ Between(k, b)' = Between(k, b)
  BY <1>2 DEF Upto, Between, LogInv, LogTypeOK, Row
<1>4. Holds(c, k, b)'
  BY <1>1, <1>2, <1>3 DEF Holds
<1> QED
  BY <1>4

\* A session that is neither appending nor committing keeps its place.
LEMMA UnchangedSessionFollows ==
    ASSUME LogInv, NEW w \in Writers, events' = events, own'[w] = own[w]
    PROVE  Follows(w)'
<1>1. Count' = Count /\ Top(w)' = Top(w) /\ (Conflict(w) => Conflict(w)')
  BY DEF Count, Top, Conflict
<1> QED
  BY <1>1 DEF LogInv, Follows

\* A session whose rows are gone has nothing to follow.
LEMMA EmptySessionFollows ==
    ASSUME LogTypeOK', Numbered', NEW w \in Writers, own'[w] = {}
    PROVE  Follows(w)'
<1>1. events' \cup own'[w] = events'
  OBVIOUS
<1>2. Sequences(events \cup own[w])' = Sequences(events)'
  BY <1>1
<1>3. Top(w)' = Count'
  BY <1>2 DEF Top, Count
<1>4. Bounded(1..Count', Count')
  BY DEF Bounded, Numbered
<1>5. Sequences(own[w])' = {}
  BY DEF Sequences
<1>6. Sequences(events)' = 1..Count' /\ Count' \in Nat
  BY DEF Numbered
<1>7. (Count' + 1)..Count' = {}
  BY <1>6
<1> QED
  BY <1>2, <1>3, <1>4, <1>5, <1>6, <1>7 DEF Follows

\* A step that commits nothing keeps the numbers and the streams.
LEMMA NothingCommitted ==
    ASSUME LogInv, events' = events
    PROVE  /\ Count' = Count
           /\ Numbered'
           /\ stream' = stream => \A c \in Readers : \E k, b \in Nat : Holds(c, k, b)'
<1>1. Count' = Count
  BY DEF Count
<1>2. Numbered'
  BY <1>1 DEF LogInv, Numbered
<1>3. ASSUME stream' = stream, NEW c \in Readers PROVE \E k, b \in Nat : Holds(c, k, b)'
  BY <1>1, <1>3, LaterEventsAreNotHeld DEF LogInv, LogTypeOK, Numbered
<1> QED
  BY <1>1, <1>2, <1>3

\* A session that begins has added nothing.
LEMMA BeginKeepsLogInv ==
    ASSUME LogInv, NEW w \in Writers, Begin(w)
    PROVE  LogInv'
<1>1. LogTypeOK'
  BY DEF LogInv, LogTypeOK, Begin
<1>2. events' = events /\ stream' = stream /\ own' = own
  BY DEF Begin
<1> QED
  BY <1>1, <1>2, NothingCommitted, UnchangedSessionFollows DEF LogInv

\* The rows of a session that is rolled back are gone.
LEMMA RollBackKeepsLogInv ==
    ASSUME LogInv, NEW w \in Writers, RollBack(w)
    PROVE  LogInv'
<1>1. LogTypeOK'
  BY DEF LogInv, LogTypeOK, RollBack, Ends
<1>2. events' = events /\ stream' = stream /\ own' = [own EXCEPT ![w] = {}]
  BY DEF RollBack, Ends
<1>3. own'[w] = {} /\ \A v \in Writers \ {w} : own'[v] = own[v]
  BY <1>2 DEF LogInv, LogTypeOK
<1>4. Follows(w)'
  BY <1>1, <1>2, <1>3, NothingCommitted, EmptySessionFollows
<1> QED
  BY <1>1, <1>2, <1>3, <1>4, NothingCommitted, UnchangedSessionFollows DEF LogInv

\* The new row gets the number after all that the session sees.
LEMMA AppendEventKeepsLogInv ==
    ASSUME LogInv, NEW w \in Writers, AppendEvent(w)
    PROVE  LogInv'
<1> DEFINE row == [sequence |-> Top(w) + 1, by |-> w]
<1>1. Follows(w) /\ Numbered /\ LogTypeOK /\ Top(w) \in Nat /\ Count \in Nat
  BY DEF LogInv, Follows, Numbered
<1>2. own' = [own EXCEPT ![w] = @ \cup {row}]
  BY DEF AppendEvent, NextSequence, Top
<1>3. /\ own'[w] = own[w] \cup {row}
      /\ \A v \in Writers \ {w} : own'[v] = own[v]
      /\ own[w] \in SUBSET Row /\ row \in Row /\ events \in SUBSET Row
      /\ events' = events /\ stream' = stream
  BY <1>1, <1>2 DEF LogTypeOK, Row, AppendEvent
<1>4. LogTypeOK'
  <2>1. own' \in [Writers -> SUBSET Row]
    BY <1>1, <1>2, <1>3 DEF LogTypeOK
  <2> QED
    BY <1>1, <2>1 DEF LogTypeOK, AppendEvent
<1>5. /\ Sequences(events \cup own[w])' = Sequences(events \cup own[w]) \cup {Top(w) + 1}
      /\ Sequences(own[w])' = Sequences(own[w]) \cup {Top(w) + 1}
  BY <1>3 DEF Sequences
<1>6. Sequences(events \cup own[w]) \in SUBSET Nat
  BY <1>3, SequencesAreNumbers
<1>7. Bounded(Sequences(events \cup own[w]), Top(w))
  BY <1>1 DEF Follows
<1>8. Bounded(Sequences(events \cup own[w])', Top(w) + 1) /\ Top(w)' = Top(w) + 1
  BY <1>1, <1>5, <1>6, <1>7, TheNextOneBounds DEF Top
<1>9. Count <= Top(w)
  <2>1. Count = 0 \/ Count \in Sequences(events)
    BY <1>1 DEF Numbered
  <2>2. Sequences(events) \subseteq Sequences(events \cup own[w])
    BY DEF Sequences
  <2>3. Count \in Sequences(events \cup own[w]) => Count <= Top(w)
    BY <1>7 DEF Bounded
  <2> QED
    BY <1>1, <2>1, <2>2, <2>3
<1>10. Follows(w)'
  <2>1. \A r \in own[w] : r.sequence < Top(w) + 1
    BY <1>1, <1>3 DEF Follows, Bounded, Sequences, Row
  <2>2. \A r, s \in own'[w] : r.sequence = s.sequence => r = s
    BY <1>1, <1>3, <2>1 DEF Follows
  <2>3. Conflict(w) => Conflict(w)'
    BY <1>3 DEF Conflict
  <2>4. Sequences(own[w]) = (Count + 1)..Top(w)
           => Sequences(own[w])' = (Count + 1)..(Top(w) + 1)
    BY <1>1, <1>5, <1>9
  <2>5. Count' = Count
    BY <1>3 DEF Count
  <2> QED
    BY <1>1, <1>8, <2>2, <2>3, <2>4, <2>5 DEF Follows
<1> QED
  BY <1>3, <1>4, <1>10, NothingCommitted, UnchangedSessionFollows DEF LogInv

\* The committed rows are those of the session, after all others; a session that
\* has added rows meanwhile has a conflict now.
LEMMA CommitEventsKeepsLogInv ==
    ASSUME LogInv, NEW w \in Writers, CommitEvents(w)
    PROVE  LogInv'
<1>1. /\ LogTypeOK /\ Numbered /\ Follows(w)
      /\ Count \in Nat /\ Top(w) \in Nat
      /\ events \in SUBSET Row /\ own[w] \in SUBSET Row
  BY DEF LogInv, Numbered, Follows, LogTypeOK
<1>2. /\ events' = events \cup own[w]
      /\ stream' = stream
      /\ own'[w] = {} /\ \A v \in Writers \ {w} : own'[v] = own[v]
      /\ own[w] # {} /\ ~Conflict(w)
  BY <1>1 DEF CommitEvents, Ends, LogTypeOK
<1>3. LogTypeOK'
  BY <1>1 DEF LogTypeOK, CommitEvents, Ends
<1>4. Sequences(own[w]) = (Count + 1)..Top(w) /\ Sequences(events) = 1..Count
  BY <1>1, <1>2 DEF Follows, Numbered
<1>5. Count + 1 <= Top(w)
  <2>1. PICK r \in own[w] : TRUE
    BY <1>2
  <2>2. r.sequence \in (Count + 1)..Top(w)
    BY <1>4 DEF Sequences
  <2> QED
    BY <1>1, <2>2
<1>6. Sequences(events)' = 1..Top(w)
  <2>1. Sequences(events)' = Sequences(events) \cup Sequences(own[w])
    BY <1>2 DEF Sequences
  <2> QED
    BY <1>1, <1>4, <1>5, <2>1
<1>7. Count' = Top(w)
  <2>1. Bounded(1..Top(w), Top(w)) /\ 1..Top(w) \in SUBSET Nat
    BY <1>1 DEF Bounded
  <2> QED
    BY <1>1, <1>6, <2>1, LargestIsTheBound DEF Count
<1>8. Numbered'
  <2>1. \A r \in events, t \in own[w] : r.sequence # t.sequence
    BY <1>2 DEF Conflict, Sequences
  <2>2. \A r, t \in events' : r.sequence = t.sequence => r = t
    BY <1>1, <1>2, <2>1 DEF Numbered, Follows
  <2> QED
    BY <1>1, <1>6, <1>7, <2>2 DEF Numbered
<1>9. Follows(w)'
  BY <1>2, <1>3, <1>8, EmptySessionFollows
<1>10. ASSUME NEW v \in Writers \ {w} PROVE Follows(v)'
  <2>1. CASE own[v] = {}
    BY <1>2, <1>3, <1>8, <2>1, EmptySessionFollows
  <2>2. CASE own[v] # {}
    <3>1. Follows(v) /\ own'[v] = own[v] /\ own[v] \in SUBSET Row /\ Top(v) \in Nat
      BY <1>1, <1>2 DEF LogInv, LogTypeOK, Follows
    <3>2. Conflict(v)'
      <4>1. CASE Conflict(v)
        BY <1>2, <3>1, <4>1 DEF Conflict, Sequences
      <4>2. CASE ~Conflict(v)
        <5>1. Sequences(own[v]) = (Count + 1)..Top(v)
          BY <3>1, <4>2 DEF Follows
        <5>2. PICK r \in own[v] : TRUE
          BY <2>2
        <5>3. r.sequence \in (Count + 1)..Top(v)
          BY <5>1 DEF Sequences
        <5>4. Count + 1 \in Sequences(own[v])
          BY <1>1, <3>1, <5>1, <5>3
        <5>5. PICK t \in own[v] : t.sequence = Count + 1
          BY <5>4 DEF Sequences
        <5>6. t.sequence \in Sequences(events)'
          BY <1>1, <1>5, <1>6, <5>5
        <5> QED
          BY <3>1, <5>6 DEF Conflict
      <4> QED
        BY <4>1, <4>2
    <3>3. Sequences(events \cup own[v])'
             = Sequences(events \cup own[v]) \cup 1..Top(w)
      <4>1. Sequences(events \cup own[v])' = Sequences(events)' \cup Sequences(own[v])
        BY <3>1 DEF Sequences
      <4>2. Sequences(events \cup own[v]) = Sequences(events) \cup Sequences(own[v])
        BY DEF Sequences
      <4>3. 1..Count \subseteq 1..Top(w)
        BY <1>1, <1>5
      <4> QED
        BY <1>4, <1>6, <4>1, <4>2, <4>3
    <3>4. Bounded(Sequences(events \cup own[v]), Top(v))
      BY <3>1 DEF Follows
    <3>5. Sequences(events \cup own[v]) \in SUBSET Nat
      BY <1>1, <3>1, SequencesAreNumbers
    <3>6. /\ Bounded(Sequences(events \cup own[v])', Top(v)')
          /\ Top(v)' \in Nat
      BY <1>1, <3>1, <3>3, <3>4, <3>5, UnionIsBounded DEF Top
    <3>7. \A r, t \in own'[v] : r.sequence = t.sequence => r = t
      BY <3>1 DEF Follows
    <3> QED
      BY <3>2, <3>6, <3>7 DEF Follows
  <2> QED
    BY <2>1, <2>2
<1>11. ASSUME NEW c \in Readers PROVE \E k, b \in Nat : Holds(c, k, b)'
  <2>1. \A r \in own[w] : r.sequence \in (Count + 1)..Top(w)
    BY <1>4 DEF Sequences
  <2>2. \A r \in events' \ events : r.sequence > Count
    BY <1>1, <1>2, <2>1
  <2> QED
    BY <1>1, <1>2, <1>5, <1>7, <2>2, LaterEventsAreNotHeld
<1> QED
  BY <1>3, <1>8, <1>9, <1>10, <1>11 DEF LogInv

-----------------------------------------------------------------------------
(* The stream *)

\* The sessions do not depend on the streams.
LEMMA StreamsDisturbNoSession ==
    ASSUME LogInv, UNCHANGED <<events, own>>
    PROVE  Count' = Count /\ Numbered' /\ \A w \in Writers : Follows(w)'
BY NothingCommitted, UnchangedSessionFollows

\* A client that is at rest keeps what it holds.
LEMMA OtherStreams ==
    ASSUME LogInv, UNCHANGED <<events, own>>, NEW d \in Readers, stream'[d] = stream[d]
    PROVE  \E k, b \in Nat : Holds(d, k, b)'
<1>1. PICK k \in Nat, b \in Nat : Holds(d, k, b)
  BY DEF LogInv
<1>2. Count' = Count /\ Upto(k)' = Upto(k) /\ Between(k, b)' = Between(k, b)
  BY StreamsDisturbNoSession DEF Upto, Between
<1>3. Holds(d, k, b)'
  BY <1>1, <1>2 DEF Holds
<1> QED
  BY <1>3

\* The last event that a client was shown.
LEMMA LastShownIs ==
    ASSUME LogInv, NEW c \in Readers, NEW k \in Nat, NEW b \in Nat, Holds(c, k, b)
    PROVE  LastShown(c) = k /\ k \in 0..Count
<1>1. k \in 0..Count
  BY DEF LogInv, Numbered, Holds
<1> QED
  BY <1>1, UptoIsNumbered DEF LogInv, LastShown, Holds

\* The numbers of the rows between k and b.
LEMMA BetweenIsNumbered ==
    ASSUME LogTypeOK, Numbered, NEW k \in Nat, NEW b \in Nat, k <= b, b <= Count
    PROVE  /\ Sequences(Between(k, b)) = (k + 1)..b
           /\ Largest(Sequences(Between(k, b)) \cup {k}) = b
<1>1. \A n \in 1..Count : \E r \in events : r.sequence = n
  BY DEF Numbered, Sequences
<1>2. \A r \in events : r.sequence \in Nat \ {0}
  BY DEF LogTypeOK, Row
<1>3. Sequences(Between(k, b)) = (k + 1)..b
  <2>1. \A n \in (k + 1)..b : n \in 1..Count
    BY DEF Numbered
  <2> QED
    BY <1>1, <1>2, <2>1 DEF Sequences, Between
<1>4. Bounded((k + 1)..b \cup {k}, b) /\ (k + 1)..b \cup {k} \in SUBSET Nat
  BY DEF Bounded
<1> QED
  BY <1>3, <1>4, LargestIsTheBound

\* Opening a stream at k, and reading none of the rows, holds events 1 to k.
LEMMA OpenStreamKeepsLogInv ==
    ASSUME LogInv, NEW c \in Readers, OpenStream(c)
    PROVE  LogInv'
<1>1. PICK k \in Nat, b \in Nat : Holds(c, k, b)
  BY DEF LogInv
<1>2. LastShown(c) = k /\ k \in 0..Count /\ Count \in Nat
  BY <1>1, LastShownIs DEF LogInv, Numbered
<1>3. PICK after \in {0, k} :
        \E shown : /\ shown = IF after = 0 THEN {} ELSE stream[c].shown
                   /\ stream' = [stream EXCEPT ![c] =
                        [stream[c] EXCEPT !.at = "listing", !.current = after, !.idle = 0,
                                  !.opened = @ + 1, !.shown = shown]]
  BY <1>2 DEF OpenStream
<1> PICK shown : /\ shown = IF after = 0 THEN {} ELSE stream[c].shown
                 /\ stream' = [stream EXCEPT ![c] =
                      [stream[c] EXCEPT !.at = "listing", !.current = after, !.idle = 0,
                                !.opened = @ + 1, !.shown = shown]]
  BY <1>3
<1>4. stream[c] \in Stream /\ stream \in [Readers -> Stream] /\ UNCHANGED <<events, own>>
  BY DEF LogInv, LogTypeOK, OpenStream
<1>5. /\ stream'[c] = [stream[c] EXCEPT !.at = "listing", !.current = after, !.idle = 0,
                          !.opened = @ + 1, !.shown = shown]
      /\ \A d \in Readers \ {c} : stream'[d] = stream[d]
  BY <1>4
<1>6. stream'[c] \in Stream
  <2>1. shown \in SUBSET Row /\ after \in Nat /\ stream[c].opened + 1 \in Nat
    BY <1>2, <1>4 DEF Stream
  <2>2. stream'[c] = [at |-> "listing", current |-> after, batch |-> stream[c].batch,
                      idle |-> 0, opened |-> stream[c].opened + 1, shown |-> shown]
    BY <1>4, <1>5 DEF Stream
  <2> QED
    BY <1>4, <2>1, <2>2 DEF Stream
<1>7. LogTypeOK'
  <2>1. stream' \in [Readers -> Stream]
    BY <1>4, <1>6
  <2> QED
    BY <2>1 DEF LogInv, LogTypeOK, OpenStream
<1>8. Upto(0) = {}
  BY DEF Upto, LogInv, LogTypeOK, Row
<1>9. stream'[c].shown = Upto(after)
  BY <1>1, <1>4, <1>5, <1>8 DEF Holds, Stream
<1>10. Count' = Count /\ Upto(after)' = Upto(after)
  BY <1>4, StreamsDisturbNoSession DEF Upto
<1>11. /\ stream'[c].at = "listing" /\ stream'[c].current = after
       /\ stream'[c].batch = {}
  <2>1. stream[c].batch = {}
    BY <1>1 DEF Holds, OpenStream
  <2> QED
    BY <1>4, <1>5, <2>1 DEF Stream
<1>12. after \in Nat /\ after <= Count
  BY <1>2
<1>13. Holds(c, after, after)'
  BY <1>9, <1>10, <1>11, <1>12 DEF Holds
<1> QED
  BY <1>4, <1>5, <1>7, <1>12, <1>13, StreamsDisturbNoSession, OtherStreams DEF LogInv

\* What is read are the events after k, up to the last one that is committed.
LEMMA ListEventsKeepsLogInv ==
    ASSUME LogInv, NEW c \in Readers, ListEvents(c)
    PROVE  LogInv'
<1>1. PICK k \in Nat, b \in Nat : Holds(c, k, b)
  BY DEF LogInv
<1>2. k \in 0..Count /\ Count \in Nat /\ stream[c].current = k
  BY <1>1, LastShownIs DEF LogInv, Numbered, Holds, ListEvents
<1>3. stream[c] \in Stream /\ stream \in [Readers -> Stream] /\ UNCHANGED <<events, own>>
  BY DEF LogInv, LogTypeOK, ListEvents
<1>4. /\ stream'[c] = [stream[c] EXCEPT !.at = "listed",
                          !.batch = {r \in events : r.sequence > stream[c].current}]
      /\ \A d \in Readers \ {c} : stream'[d] = stream[d]
  BY <1>3 DEF ListEvents
<1>5. stream'[c] \in Stream
  BY <1>3, <1>4 DEF Stream, LogInv, LogTypeOK
<1>6. LogTypeOK'
  <2>1. stream' \in [Readers -> Stream]
    BY <1>3, <1>4, <1>5 DEF ListEvents
  <2> QED
    BY <2>1 DEF LogInv, LogTypeOK, ListEvents
<1>7. {r \in events : r.sequence > stream[c].current} = Between(k, Count)
  <2>1. \A r \in events : r.sequence \in 1..Count
    BY DEF LogInv, Numbered, Sequences
  <2> QED
    BY <1>2, <2>1 DEF Between
<1>8. Count' = Count /\ Upto(k)' = Upto(k) /\ Between(k, Count)' = Between(k, Count)
  BY <1>3, StreamsDisturbNoSession DEF Upto, Between
<1>9. /\ stream'[c].at = "listed" /\ stream'[c].current = k
      /\ stream'[c].shown = Upto(k) /\ stream'[c].batch = Between(k, Count)
  BY <1>1, <1>2, <1>3, <1>4, <1>7 DEF Holds, Stream
<1>10. Holds(c, k, Count)'
  BY <1>2, <1>8, <1>9 DEF Holds
<1> QED
  BY <1>2, <1>3, <1>4, <1>6, <1>10, StreamsDisturbNoSession, OtherStreams DEF LogInv

\* Showing the batch makes b the last event that was shown.
LEMMA ShowEventsKeepsLogInv ==
    ASSUME LogInv, NEW c \in Readers, ShowEvents(c)
    PROVE  LogInv'
<1> DEFINE s == stream[c]
<1>1. PICK k \in Nat, b \in Nat : Holds(c, k, b)
  BY DEF LogInv
<1>2. /\ s.at = "listed" /\ s.current = k /\ s.batch = Between(k, b) /\ s.shown = Upto(k)
      /\ k <= b /\ b <= Count /\ Count \in Nat
  BY <1>1 DEF Holds, LogInv, Numbered, ShowEvents
<1>3. s \in Stream /\ stream \in [Readers -> Stream] /\ UNCHANGED <<events, own>>
  BY DEF LogInv, LogTypeOK, ShowEvents
<1>4. Largest(Sequences(s.batch) \cup {s.current}) = b
  BY <1>2, BetweenIsNumbered DEF LogInv
<1>5. PICK idle \in Nat, at \in {"closed", "listing"} :
        stream' = [stream EXCEPT ![c] =
            [s EXCEPT !.at = at, !.current = b,
                      !.shown = s.shown \cup s.batch, !.batch = {}, !.idle = idle]]
  <2> DEFINE idle == IF s.batch = {} THEN s.idle + 1 ELSE 0
             over == (terminal /\ s.batch = {}) \/ idle >= MaxIdle
             at == IF over THEN "closed" ELSE "listing"
  <2>1. idle \in Nat
    BY <1>3 DEF Stream
  <2>2. at \in {"closed", "listing"}
    OBVIOUS
  <2> HIDE DEF s
  <2>3. stream' = [stream EXCEPT ![c] =
            [s EXCEPT !.at = at, !.current = Largest(Sequences(s.batch) \cup {s.current}),
                      !.shown = s.shown \cup s.batch, !.batch = {}, !.idle = idle]]
    BY DEF ShowEvents, s
  <2>4. stream' = [stream EXCEPT ![c] =
            [s EXCEPT !.at = at, !.current = b,
                      !.shown = s.shown \cup s.batch, !.batch = {}, !.idle = idle]]
    BY <1>4, <2>3
  <2> HIDE DEF idle, at
  <2> QED
    BY <2>1, <2>2, <2>4
<1>6. /\ stream'[c] = [s EXCEPT !.at = at, !.current = b, !.shown = s.shown \cup s.batch,
                                !.batch = {}, !.idle = idle]
      /\ \A d \in Readers \ {c} : stream'[d] = stream[d]
  BY <1>3, <1>5
<1>7. stream'[c] \in Stream
  BY <1>3, <1>6 DEF Stream
<1>8. LogTypeOK'
  <2>1. stream' \in [Readers -> Stream]
    BY <1>3, <1>5, <1>6, <1>7
  <2> QED
    BY <2>1 DEF LogInv, LogTypeOK, ShowEvents
<1>9. Upto(k) \cup Between(k, b) = Upto(b)
  BY <1>2 DEF Upto, Between, LogInv, LogTypeOK, Row
<1>10. Count' = Count /\ Upto(b)' = Upto(b)
  BY <1>3, StreamsDisturbNoSession DEF Upto
<1>11. /\ stream'[c].at # "listed" /\ stream'[c].current = b
       /\ stream'[c].shown = Upto(b) /\ stream'[c].batch = {}
  BY <1>2, <1>3, <1>5, <1>6, <1>9 DEF Stream
<1>12. Holds(c, b, b)'
  BY <1>2, <1>10, <1>11 DEF Holds
<1> QED
  BY <1>3, <1>6, <1>8, <1>12, StreamsDisturbNoSession, OtherStreams DEF LogInv

\* Of a lost batch the events up to the last that arrived have been shown.
LEMMA DisconnectKeepsLogInv ==
    ASSUME LogInv, NEW c \in Readers, Disconnect(c)
    PROVE  LogInv'
<1> DEFINE s == stream[c]
<1>1. PICK k \in Nat, b \in Nat : Holds(c, k, b)
  BY DEF LogInv
<1>2. k <= b /\ b <= Count /\ Count \in Nat /\ s.shown = Upto(k)
  BY <1>1 DEF Holds, LogInv, Numbered
<1>3. s \in Stream /\ stream \in [Readers -> Stream] /\ UNCHANGED <<events, own>>
  BY DEF LogInv, LogTypeOK, Disconnect
<1>4. PICK last \in Sequences(stream[c].batch) \cup {0} :
        stream' = [stream EXCEPT ![c] =
            [stream[c] EXCEPT !.at = "closed", !.batch = {},
                      !.shown = @ \cup {r \in stream[c].batch : r.sequence <= last}]]
  BY DEF Disconnect
<1>5. /\ stream'[c] = [s EXCEPT !.at = "closed", !.batch = {},
                                !.shown = @ \cup {r \in s.batch : r.sequence <= last}]
      /\ \A d \in Readers \ {c} : stream'[d] = stream[d]
  BY <1>3, <1>4
<1>6. stream'[c] \in Stream
  BY <1>3, <1>5 DEF Stream
<1>7. LogTypeOK'
  <2>1. stream' \in [Readers -> Stream]
    BY <1>3, <1>4, <1>5, <1>6
  <2> QED
    BY <2>1 DEF LogInv, LogTypeOK, Disconnect
<1>8. PICK j \in Nat : /\ j <= Count
                       /\ Upto(k) \cup {r \in s.batch : r.sequence <= last} = Upto(j)
  <2>0. \A r \in events : r.sequence \in Nat \ {0}
    BY DEF LogInv, LogTypeOK, Row
  <2>1. CASE s.at # "listed"
    <3>1. s.batch = {}
      BY <1>1, <2>1 DEF Holds
    <3> QED
      BY <1>2, <3>1
  <2>2. CASE s.at = "listed"
    <3>1. s.batch = Between(k, b)
      BY <1>1, <2>2 DEF Holds
    <3>2. Sequences(s.batch) = (k + 1)..b
      BY <1>2, <3>1, BetweenIsNumbered DEF LogInv
    <3>3. CASE last = 0
      BY <1>2, <2>0, <3>1, <3>3 DEF Between
    <3>4. CASE last \in (k + 1)..b
      <4>1. Upto(k) \cup {r \in Between(k, b) : r.sequence <= last} = Upto(last)
        BY <2>0, <3>4 DEF Upto, Between
      <4> QED
        BY <1>2, <3>1, <3>4, <4>1
    <3> QED
      BY <3>2, <3>3, <3>4
  <2> QED
    BY <2>1, <2>2
<1>9. Count' = Count /\ Upto(j)' = Upto(j)
  BY <1>3, StreamsDisturbNoSession DEF Upto
<1>10. /\ stream'[c].at = "closed" /\ stream'[c].batch = {} /\ stream'[c].shown = Upto(j)
  BY <1>2, <1>3, <1>5, <1>8 DEF Stream
<1>11. Holds(c, j, j)'
  BY <1>8, <1>9, <1>10 DEF Holds
<1> QED
  BY <1>3, <1>5, <1>7, <1>11, StreamsDisturbNoSession, OtherStreams DEF LogInv

-----------------------------------------------------------------------------
(* The theorems *)

\* Every step keeps the invariant.
LEMMA LogStep ==
    ASSUME LogInv, [LogNext]_logVars
    PROVE  LogInv'
<1>1. CASE UNCHANGED logVars
  <2>1. UNCHANGED <<events, own, stream>> /\ LogTypeOK'
    BY <1>1 DEF logVars, LogInv, LogTypeOK
  <2> QED
    BY <2>1, StreamsDisturbNoSession, OtherStreams DEF LogInv
<1>2. ASSUME NEW w \in Writers, Writer(w) PROVE LogInv'
  BY <1>2, BeginKeepsLogInv, RollBackKeepsLogInv, AppendEventKeepsLogInv,
     CommitEventsKeepsLogInv DEF Writer
<1>3. ASSUME NEW c \in Readers, Reader(c) PROVE LogInv'
  BY <1>3, OpenStreamKeepsLogInv, ListEventsKeepsLogInv, ShowEventsKeepsLogInv,
     DisconnectKeepsLogInv DEF Reader
<1> QED
  BY <1>1, <1>2, <1>3 DEF LogNext

\* The invariant holds in every reachable state.
THEOREM LogInvariant == LogSpec => []LogInv
<1>1. LogInit => LogInv
  BY InitEstablishesLogInv
<1>2. LogInv /\ [LogNext]_logVars => LogInv'
  BY LogStep
<1> QED
  BY <1>1, <1>2, PTL DEF LogSpec

\* The variables keep their types.
THEOREM LogTypeCorrect == LogSpec => []LogTypeOK
<1>1. LogInv => LogTypeOK
  BY DEF LogInv
<1> QED
  BY <1>1, LogInvariant, PTL

\* The committed events of an execution are numbered 1, 2, ... without a gap and
\* without a repetition.
THEOREM EventsAreNumberedHolds == LogSpec => []EventsAreNumbered
<1>1. LogInv => EventsAreNumbered
  <2> SUFFICES ASSUME LogInv PROVE EventsAreNumbered
    OBVIOUS
  <2>1. Numbered
    BY DEF LogInv
  <2>2. \A r \in events : r.sequence \in 1..Count
    BY <2>1 DEF Numbered, Sequences
  <2> QED
    BY <2>1, <2>2 DEF EventsAreNumbered, Numbered
<1> QED
  BY <1>1, LogInvariant, PTL

\* A client that resumes after the last event it was shown has been shown all the
\* committed events up to there, each once.
THEOREM NothingIsSkippedHolds == LogSpec => []NothingIsSkipped
<1>1. LogInv => NothingIsSkipped
  <2> SUFFICES ASSUME LogInv, NEW c \in Readers
               PROVE  /\ stream[c].shown = {r \in events : r.sequence <= LastShown(c)}
                      /\ \A n \in 1..LastShown(c) :
                            \E r \in events : \A s \in events : s.sequence = n <=> s = r
    BY DEF NothingIsSkipped
  <2>1. PICK k \in Nat, b \in Nat : Holds(c, k, b)
    BY DEF LogInv
  <2>2. LastShown(c) = k /\ k \in 0..Count /\ stream[c].shown = Upto(k)
    BY <2>1, LastShownIs DEF Holds
  <2>3. \A n \in 1..k : n \in Sequences(events)
    BY <2>2 DEF LogInv, Numbered
  <2>4. \A n \in 1..k : \E r \in events : r.sequence = n
    BY <2>3 DEF Sequences
  <2>5. \A r, s \in events : r.sequence = s.sequence => r = s
    BY DEF LogInv, Numbered
  <2>6. \A n \in 1..k : \E r \in events : \A s \in events : s.sequence = n <=> s = r
    BY <2>4, <2>5
  <2> QED
    BY <2>2, <2>6 DEF Upto
<1> QED
  BY <1>1, LogInvariant, PTL
=============================================================================
