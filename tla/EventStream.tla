---------------------------- MODULE EventStream ----------------------------
(***************************************************************************)
(* One WatchCustomerEvents stream (internal/customer/grpc.go) over the     *)
(* SQLite event log (internal/eventlog/sqlite.go).  Requests take an       *)
(* event's time and append it a little later, in any order; the stream     *)
(* polls for the events past its cursor and moves the cursor to each event *)
(* it sends.  SQLite compares the times as text, in the form RFC3339Nano.  *)
(***************************************************************************)
EXTENDS Naturals, Sequences, FiniteSets

CONSTANTS
  Event,     \* events, one append each
  Agg,       \* aggregate ids
  All,       \* the empty filter
  None,
  Instant    \* times of the clock, in hundredths of a second

ASSUME StreamAssumption ==
  /\ Instant \subseteq Nat \ {0}
  /\ All \notin Agg
  /\ None \notin Nat

VARIABLES
  now,      \* time.Now()
  event,    \* what is known of every event: its aggregate and time
  log,      \* the rows of event_log in the order they were appended
  filter,   \* req.AggregateId
  pc,       \* the handler: wait, send, closed
  since,    \* its cursor, 0 before the first event
  batch,    \* events fetched and not yet sent
  sent      \* what the client has received

writers == <<now, event, log>>
stream  == <<filter, pc, since, batch, sent>>
vars    == <<writers, stream>>

Elems(s) == {s[i] : i \in DOMAIN s}

\* The place of a time in the order of its RFC3339Nano texts.  The format drops
\* the zeros at the end of the fraction, then its point; what follows is a Z,
\* which sorts after every digit and after the point.
Text(t) ==
  LET tenths     == (t \div 10) % 10
      hundredths == t % 10
  IN 2000 * (t \div 100)
       + IF t % 100 = 0 THEN 1000
         ELSE 12 * (tenths + 1)
                + IF hundredths = 0 THEN 11 ELSE hundredths + 1

TextOf(e) == Text(event[e].at)
Cursor == IF since = 0 THEN 0 ELSE Text(since)

Init ==
  /\ now \in Instant
  /\ event = [e \in Event |-> None]
  /\ log = <<>>
  /\ filter \in Agg \cup {All}
  /\ pc = "wait" /\ since = 0 /\ batch = {} /\ sent = <<>>

-----------------------------------------------------------------------------
(* The requests                                                            *)

Clock ==
  /\ \E t \in Instant : t > now /\ now' = t
  /\ UNCHANGED <<event, log, stream>>

Stamp(e) ==
  /\ event[e] = None
  /\ \E a \in Agg : event' = [event EXCEPT ![e] = [agg |-> a, at |-> now]]
  /\ UNCHANGED <<now, log, stream>>

Append1(e) ==
  /\ event[e] # None /\ e \notin Elems(log)
  /\ log' = Append(log, e)
  /\ UNCHANGED <<now, event, stream>>

-----------------------------------------------------------------------------
(* The stream                                                              *)

Wanted(e) == event[e] # None /\ filter \in {All, event[e].agg}

\* Mutant of Newer: the comparison is >=.
NotOlder(e) == TextOf(e) >= Cursor

\* occurred_at > since, on the texts.
Newer(e) == TextOf(e) > Cursor

\* Mutant of Fetch: the query orders by time descending and takes one row.
FetchNewestOnly ==
  /\ pc = "wait"
  /\ batch' = {e \in Elems(log) :
                  /\ Wanted(e) /\ Newer(e)
                  /\ \A f \in Elems(log) : Wanted(f) => TextOf(f) <= TextOf(e)}
  /\ pc' = IF batch' = {} THEN "wait" ELSE "send"
  /\ UNCHANGED <<writers, filter, since, sent>>

\* A tick: FetchSince.
Fetch ==
  /\ pc = "wait"
  /\ batch' = {e \in Elems(log) : Wanted(e) /\ Newer(e)}
  /\ pc' = IF batch' = {} THEN "wait" ELSE "send"
  /\ UNCHANGED <<writers, filter, since, sent>>

\* Mutant of Send: the cursor is the time of sending.
SendTakesNow(e) ==
  /\ pc = "send" /\ e \in batch
  /\ \A f \in batch : TextOf(e) <= TextOf(f)
  /\ sent' = Append(sent, e)
  /\ since' = now
  /\ batch' = batch \ {e}
  /\ pc' = IF batch' = {} THEN "wait" ELSE "send"
  /\ UNCHANGED <<writers, filter>>

\* The rows come in the order of their texts, equal ones in any order.
Send(e) ==
  /\ pc = "send" /\ e \in batch
  /\ \A f \in batch : TextOf(e) <= TextOf(f)
  /\ sent' = Append(sent, e)
  /\ since' = event[e].at
  /\ batch' = batch \ {e}
  /\ pc' = IF batch' = {} THEN "wait" ELSE "send"
  /\ UNCHANGED <<writers, filter>>

\* The client leaves, or FetchSince or Send fails: the handler returns.
Close ==
  /\ pc # "closed"
  /\ pc' = "closed"
  /\ UNCHANGED <<writers, filter, since, batch, sent>>

-----------------------------------------------------------------------------

Requests == Clock \/ \E e \in Event : Stamp(e) \/ Append1(e)
Handler  == Fetch \/ \E e \in Event : Send(e)
Next == Requests \/ Handler \/ Close

Spec == Init /\ [][Next]_vars
FairSpec == Spec /\ WF_vars(Handler)

-----------------------------------------------------------------------------
(* Properties                                                              *)

\* The handler waits exactly when it has nothing to send, and what it sends is
\* in the log.
TypeOK ==
  /\ now \in Instant /\ since \in Instant \cup {0}
  /\ pc \in {"wait", "send", "closed"}
  /\ pc # "closed" => (pc = "wait" <=> batch = {})
  /\ batch \cup Elems(sent) \subseteq Elems(log)
  /\ Elems(log) \subseteq {e \in Event : event[e] # None}

\* "each tick advances since to the latest event's OccurredAt ... no
\* duplicates" (docs/grpc.md): across polls and equal times, the client never
\* receives an event twice, and only events of its aggregate.
SentOnce ==
  /\ \A i, j \in DOMAIN sent : sent[i] = sent[j] => i = j
  /\ \A e \in Elems(sent) : e \notin batch /\ Wanted(e)

Overtaken(e) ==
  \E i, j \in DOMAIN log :
    i < j /\ log[j] = e /\ Wanted(log[i]) /\ TextOf(log[i]) >= TextOf(e)

\* An event is behind the cursor and not sent, for one reason only: another
\* one with the same or a later text was appended before it.
MissedIfOvertaken ==
  \A e \in Elems(log) \ (Elems(sent) \cup batch) :
    Wanted(e) /\ ~Newer(e) => Overtaken(e)

\* Across all polls the client receives the events in the order of their texts.
InTextOrder ==
  \A i, j \in DOMAIN sent : i < j => TextOf(sent[i]) <= TextOf(sent[j])

\* The texts sort as the times do: then the order of the texts is what
\* Chronological asks for, and nobody is overtaken but by a later event.
TextsSort == \A s, t \in Instant : s < t => Text(s) < Text(t)

MissedIfOlder ==
  \A e \in Elems(log) \ (Elems(sent) \cup batch) :
    Wanted(e) /\ event[e].at <= since =>
      \E i, j \in DOMAIN log : /\ i < j /\ log[j] = e /\ Wanted(log[i])
                               /\ event[log[i]].at >= event[e].at

\* Every event of the aggregate reaches a client who stays, except those that
\* another one overtook on the way into the log.
EventuallySent ==
  \A e \in Event :
    e \in Elems(log) ~> e \in Elems(sent) \/ ~Wanted(e) \/ Overtaken(e) \/ pc = "closed"

-----------------------------------------------------------------------------
(* What the documents say and the code does not                            *)

\* "The query uses ORDER BY occurred_at ASC so events are delivered in
\* chronological order." (docs/grpc.md:233)
Chronological ==
  \A i, j \in DOMAIN sent : i < j => event[sent[i]].at <= event[sent[j]].at

\* "It polls every 2 seconds and sends any events that occurred after the last
\* sent event." (grpc.go:127)
SendsWhatOccurredAfter ==
  \A e \in Event :
    e \in Elems(log) /\ event[e].at > since ~>
      e \in Elems(sent) \/ ~Wanted(e) \/ pc = "closed"
=============================================================================
