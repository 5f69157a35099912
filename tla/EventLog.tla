------------------------------ MODULE EventLog ------------------------------
(***************************************************************************)
(* The events of one execution: the sessions of the delivery service that  *)
(* append them (service.py, activities.py), next_event_sequence and        *)
(* append_event of the repository, and the server-sent stream that shows   *)
(* them to a client (execution_events of api.py).                          *)
(*                                                                         *)
(* A sequence number is one more than the largest that the session sees.   *)
(* The query for it first flushes what the session has changed, so a       *)
(* session that has changed the executions row holds the row's lock from   *)
(* its first number to its end.  A retried execute-delivery changes        *)
(* nothing in _enqueue and takes its number without the lock; the unique   *)
(* key (execution_id, sequence) decides between it and the others.         *)
(* A definition named Bug... is a variant of the one it precedes with a    *)
(* mistake in it; no specification uses it.                                *)
(***************************************************************************)
EXTENDS Naturals, FiniteSets

CONSTANTS Writers,      \* the sessions that append events
          Plain,        \* those of them that do not change the executions row
          Closing,      \* those of them that write a terminal status
          Readers,      \* the clients of the stream
          NoWriter,
          MaxOwn,       \* how many events one session appends
          MaxIdle,      \* how many empty reads in a row end a stream (300)
          MaxStreams    \* how often a client may open a stream

ASSUME EventLogAssumption ==
    /\ Plain \subseteq Writers
    /\ Closing \subseteq Writers \ Plain
    /\ NoWriter \notin Writers
    /\ MaxOwn \in Nat
    /\ MaxIdle \in Nat
    /\ MaxStreams \in Nat

VARIABLES
    events,    \* the committed rows of execution_events
    lock,      \* the session that has updated the executions row and is not over
    writer,    \* where each session is
    own,       \* the rows each session has added and not committed
    terminal,  \* has a terminal status been committed?
    stream     \* each client's stream, and what the client was shown

logVars == <<events, lock, writer, own, terminal, stream>>

Row == [sequence : Nat \ {0}, by : Writers]

Stream == [at : {"closed", "listing", "listed"}, current : Nat, batch : SUBSET Row,
           idle : Nat, opened : Nat, shown : SUBSET Row]

LogTypeOK ==
    /\ events \in SUBSET Row
    /\ lock \in Writers \cup {NoWriter}
    /\ writer \in [Writers -> {"waiting", "open", "committed", "failed"}]
    /\ own \in [Writers -> SUBSET Row]
    /\ terminal \in BOOLEAN
    /\ stream \in [Readers -> Stream]

LogInit ==
    /\ events = {}
    /\ lock = NoWriter
    /\ writer = [w \in Writers |-> "waiting"]
    /\ own = [w \in Writers |-> {}]
    /\ terminal = FALSE
    /\ stream = [c \in Readers |-> [at |-> "closed", current |-> 0, batch |-> {},
                                    idle |-> 0, opened |-> 0, shown |-> {}]]

Sequences(rows) == {r.sequence : r \in rows}

\* 0 if there are none.
Largest(numbers) == CHOOSE m \in numbers \cup {0} : \A n \in numbers : n <= m

-----------------------------------------------------------------------------
(* The sessions that append *)

\* The update of the executions row waits for its lock.
Begin(w) ==
    /\ writer[w] = "waiting"
    /\ w \in Plain \/ lock = NoWriter
    /\ writer' = [writer EXCEPT ![w] = "open"]
    /\ lock' = IF w \in Plain THEN lock ELSE w
    /\ UNCHANGED <<events, own, terminal, stream>>

\* Numbers taken from a database sequence, which sees what is not committed.
BugNextSequence(w) ==
    Largest(Sequences(events) \cup UNION {Sequences(own[v]) : v \in Writers}) + 1
NextSequence(w) == Largest(Sequences(events \cup own[w])) + 1

AppendEvent(w) ==
    /\ writer[w] = "open"
    /\ Cardinality(own[w]) < MaxOwn
    /\ own' = [own EXCEPT ![w] = @ \cup {[sequence |-> NextSequence(w), by |-> w]}]
    /\ UNCHANGED <<events, lock, writer, terminal, stream>>

Ends(w, how) ==
    /\ writer' = [writer EXCEPT ![w] = how]
    /\ own' = [own EXCEPT ![w] = {}]
    /\ lock' = IF lock = w THEN NoWriter ELSE lock

\* UNIQUE (execution_id, sequence).
Conflict(w) == \E r \in own[w] : r.sequence \in Sequences(events)

CommitEvents(w) ==
    /\ writer[w] = "open"
    /\ own[w] # {}
    /\ ~Conflict(w)
    /\ events' = events \cup own[w]
    /\ terminal' = (terminal \/ w \in Closing)
    /\ Ends(w, "committed")
    /\ UNCHANGED stream

\* The insert was refused, or the session ends for another reason.
RollBack(w) ==
    /\ writer[w] = "open"
    /\ Ends(w, "failed")
    /\ UNCHANGED <<events, terminal, stream>>

-----------------------------------------------------------------------------
(* The stream *)

LastShown(c) == Largest(Sequences(stream[c].shown))

\* A client starts over, or goes on after Last-Event-ID, the last event shown.
OpenStream(c) ==
    /\ stream[c].at = "closed"
    /\ stream[c].opened < MaxStreams
    /\ \E after \in {0, LastShown(c)} :
         stream' = [stream EXCEPT ![c] =
            [stream[c] EXCEPT !.at = "listing", !.current = after, !.idle = 0,
                              !.opened = @ + 1, !.shown = IF after = 0 THEN {} ELSE @]]
    /\ UNCHANGED <<events, lock, writer, own, terminal>>

ListEvents(c) ==
    /\ stream[c].at = "listing"
    /\ stream' = [stream EXCEPT ![c] =
         [stream[c] EXCEPT !.at = "listed",
                           !.batch = {r \in events : r.sequence > stream[c].current}]]
    /\ UNCHANGED <<events, lock, writer, own, terminal>>

\* The status is read after the events: a terminal status and an empty batch
\* end the stream, and so do MaxIdle empty batches in a row.
ShowEvents(c) ==
    /\ stream[c].at = "listed"
    /\ LET s    == stream[c]
           idle == IF s.batch = {} THEN s.idle + 1 ELSE 0
           over == (terminal /\ s.batch = {}) \/ idle >= MaxIdle
       IN  stream' = [stream EXCEPT ![c] =
             [s EXCEPT !.at = IF over THEN "closed" ELSE "listing",
                       !.current = Largest(Sequences(s.batch) \cup {s.current}),
                       !.shown = s.shown \cup s.batch, !.batch = {}, !.idle = idle]]
    /\ UNCHANGED <<events, lock, writer, own, terminal>>

\* The connection is lost; of the events being sent the first ones arrived.
Disconnect(c) ==
    /\ stream[c].at # "closed"
    /\ \E last \in Sequences(stream[c].batch) \cup {0} :
         stream' = [stream EXCEPT ![c] =
            [stream[c] EXCEPT !.at = "closed", !.batch = {},
                              !.shown = @ \cup {r \in stream[c].batch : r.sequence <= last}]]
    /\ UNCHANGED <<events, lock, writer, own, terminal>>

-----------------------------------------------------------------------------
Writer(w) == Begin(w) \/ AppendEvent(w) \/ CommitEvents(w) \/ RollBack(w)

Reader(c) == OpenStream(c) \/ ListEvents(c) \/ ShowEvents(c) \/ Disconnect(c)

LogNext == (\E w \in Writers : Writer(w)) \/ (\E c \in Readers : Reader(c))

LogSpec == LogInit /\ [][LogNext]_logVars

-----------------------------------------------------------------------------
(* Properties *)

\* The committed events of an execution are numbered 1, 2, ... without a gap
\* and without a repetition, whichever sessions overlap, collide or are rolled
\* back: the timeline that reviewers rely on has a single order.
EventsAreNumbered ==
    /\ \A r, s \in events : r.sequence = s.sequence => r = s
    /\ \A r \in events : 1..r.sequence \subseteq Sequences(events)

\* A client that resumes after the last event it was shown has been shown events
\* 1 to that one, each once, and they are all the committed events up to there:
\* no event is committed behind a reader, and none is lost with a connection.
NothingIsSkipped ==
    \A c \in Readers :
        LET last == LastShown(c)
        IN  /\ stream[c].shown = {r \in events : r.sequence <= last}
            /\ \A n \in 1..last : \E r \in events : \A s \in events : s.sequence = n <=> s = r
=============================================================================
