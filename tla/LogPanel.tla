------------------------------ MODULE LogPanel ------------------------------
(***************************************************************************)
(* The log panel of the desktop application                                *)
(* (cheshire-server-app/src/log_sink.rs).  Every event any thread logs is  *)
(* written to a writer of its own and sent as one message when the writer  *)
(* is dropped; a relay thread takes the messages out of the channel and    *)
(* posts a closure for each to the event loop, which appends the text and  *)
(* cuts the log to its last bytes, never inside a character.               *)
(*                                                                         *)
(* A text is a sequence of characters, a character its thread and width    *)
(* in bytes.                                                               *)
(***************************************************************************)
EXTENDS FiniteSets, Integers, Sequences

CONSTANTS
    Thread,         \* threads that log
    Events,         \* texts they log, as sequences of widths
    MaxEvents,      \* bound: events logged
    MAX_LOG_BYTES

ASSUME EventAssumption == \A e \in Events : e \in Seq(1..4) /\ e # <<>>
ASSUME BoundAssumption == MaxEvents \in Nat /\ MAX_LOG_BYTES \in Nat

VARIABLES
    event,      \* what each thread is logging
    rest,       \* what of it was not written yet
    buffer,     \* the ChannelWriter's buffer
    channel,    \* messages sent and not received
    relayed,    \* the message the relay thread holds
    posted,     \* closures posted to the event loop
    panel,      \* log-text of the window
    over,       \* the event loop has ended
    logged,     \* history: the events, in the order their writers were dropped
    appended    \* history: everything that was ever appended

\* LogInit, LogNext and LogSpec, so that Configuration and this module can be
\* extended together.
logVars == <<event, rest, buffer, channel, relayed, posted, panel, over, logged, appended>>

Flat(texts) ==
    LET flat[k \in 0..Len(texts)] == IF k = 0 THEN <<>> ELSE flat[k - 1] \o texts[k]
    IN  flat[Len(texts)]

Bytes(text) ==
    LET sum[k \in 0..Len(text)] == IF k = 0 THEN 0 ELSE sum[k - 1] + text[k].width
    IN  sum[Len(text)]

LogInit ==
    /\ event = [t \in Thread |-> <<>>]
    /\ rest = [t \in Thread |-> <<>>]
    /\ buffer = [t \in Thread |-> <<>>]
    /\ channel = <<>> /\ relayed = <<>> /\ posted = <<>>
    /\ panel = <<>>
    /\ over = FALSE
    /\ logged = <<>> /\ appended = <<>>

-----------------------------------------------------------------------------
(* The threads that log *)

\* make_writer, with an empty buffer.
MakeWriter(t) ==
    /\ event[t] = <<>>
    /\ Len(logged) + Cardinality({u \in Thread : event[u] # <<>>}) < MaxEvents
    /\ \E e \in Events :
          LET text == [i \in DOMAIN e |-> [by |-> t, width |-> e[i]]]
          IN  event' = [event EXCEPT ![t] = text] /\ rest' = [rest EXCEPT ![t] = text]
    /\ UNCHANGED <<buffer, channel, relayed, posted, panel, over, logged, appended>>

\* Mutant of Write: what is written is sent at once.
WriteThrough(t) ==
    /\ rest[t] # <<>>
    /\ channel' = Append(channel, <<Head(rest[t])>>)
    /\ rest' = [rest EXCEPT ![t] = Tail(@)]
    /\ UNCHANGED <<event, buffer, relayed, posted, panel, over, logged, appended>>

Write(t) ==
    /\ rest[t] # <<>>
    /\ buffer' = [buffer EXCEPT ![t] = Append(@, Head(rest[t]))]
    /\ rest' = [rest EXCEPT ![t] = Tail(@)]
    /\ UNCHANGED <<event, channel, relayed, posted, panel, over, logged, appended>>

\* ChannelWriter::drop; an empty buffer sends nothing.
Drop(t) ==
    /\ event[t] # <<>> /\ rest[t] = <<>>
    /\ channel' = IF buffer[t] = <<>> THEN channel ELSE Append(channel, buffer[t])
    /\ logged' = Append(logged, event[t])
    /\ event' = [event EXCEPT ![t] = <<>>]
    /\ buffer' = [buffer EXCEPT ![t] = <<>>]
    /\ UNCHANGED <<rest, relayed, posted, panel, over, appended>>

-----------------------------------------------------------------------------
(* The relay thread and the event loop *)

Receive ==
    /\ relayed = <<>> /\ channel # <<>>
    /\ relayed' = Head(channel)
    /\ channel' = Tail(channel)
    /\ UNCHANGED <<event, rest, buffer, posted, panel, over, logged, appended>>

\* upgrade_in_event_loop, whose error after the end of the loop is ignored.
Post ==
    /\ relayed # <<>>
    /\ posted' = IF over THEN posted ELSE Append(posted, relayed)
    /\ relayed' = <<>>
    /\ UNCHANGED <<event, rest, buffer, channel, panel, over, logged, appended>>

\* Mutant of Cut: the cut is moved back to a character boundary.
CutBack(log) ==
    LET start == Bytes(log) - MAX_LOG_BYTES
        Boundary(i) == Bytes(SubSeq(log, 1, i))
        first == CHOOSE i \in 0..Len(log) :
                    Boundary(i) <= start /\ \A j \in 0..Len(log) : Boundary(j) <= start => j <= i
    IN  IF Bytes(log) > MAX_LOG_BYTES THEN SubSeq(log, first + 1, Len(log)) ELSE log

\* The start of what is kept is moved on to a character boundary.
Cut(log) ==
    LET start == Bytes(log) - MAX_LOG_BYTES
        Boundary(i) == Bytes(SubSeq(log, 1, i))
        first == CHOOSE i \in 0..Len(log) :
                    Boundary(i) >= start /\ \A j \in 0..Len(log) : Boundary(j) >= start => i <= j
    IN  IF Bytes(log) > MAX_LOG_BYTES THEN SubSeq(log, first + 1, Len(log)) ELSE log

\* append(), in the event loop.
RunAppend ==
    /\ posted # <<>> /\ ~over
    /\ panel' = Cut(panel \o Head(posted))
    /\ appended' = appended \o Head(posted)
    /\ posted' = Tail(posted)
    /\ UNCHANGED <<event, rest, buffer, channel, relayed, over, logged>>

\* The window is closed; closures that did not run never will.
LoopEnds ==
    /\ ~over
    /\ over' = TRUE
    /\ UNCHANGED <<event, rest, buffer, channel, relayed, posted, panel, logged, appended>>

LogNext ==
    \/ \E t \in Thread : MakeWriter(t) \/ Write(t) \/ Drop(t)
    \/ Receive \/ Post \/ RunAppend \/ LoopEnds

LogSpec == LogInit /\ [][LogNext]_logVars

-----------------------------------------------------------------------------
(* Properties *)

\* The panel is exactly the end of everything ever logged: no more than
\* MAX_LOG_BYTES, whole characters, and as many of them as fit, though it was
\* cut at every append.
PanelIsTail ==
    \E first \in 1..Len(appended) + 1 :
        /\ panel = SubSeq(appended, first, Len(appended))
        /\ Bytes(panel) <= MAX_LOG_BYTES
        /\ first > 1 => Bytes(SubSeq(appended, first - 1, Len(appended))) > MAX_LOG_BYTES

\* Events of different threads are never mixed, lost or reordered on their way
\* to the panel: they arrive one after the other in the order they were logged,
\* and after the end of the event loop at most the last ones are missing.
EventsInOrder ==
    /\ Len(appended) <= Len(Flat(logged))
    /\ appended = SubSeq(Flat(logged), 1, Len(appended))
    /\ ~over => appended \o Flat(posted) \o relayed \o Flat(channel) = Flat(logged)

=============================================================================
