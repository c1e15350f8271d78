---------------------------- MODULE StreamProofs ----------------------------
(* What the stream of events promises, for any events and any times.       *)
EXTENDS EventStream, TLAPS

Known == [agg : Agg, at : Instant]

Types ==
  /\ now \in Instant /\ event \in [Event -> Known \cup {None}]
  /\ log \in Seq(Event) /\ filter \in Agg \cup {All}
  /\ pc \in {"wait", "send", "closed"} /\ since \in Instant \cup {0}
  /\ batch \subseteq Event /\ sent \in Seq(Event)
  /\ \A e \in Elems(log) : event[e] # None
  /\ batch \cup Elems(sent) \subseteq Elems(log)
  /\ pc # "closed" => (pc = "wait" <=> batch = {})

\* The cursor is the time of an event of the log: everything sent is at or
\* before it, the batch at or after it.
CursorBetween ==
  /\ since # 0 => \E f \in Elems(log) : Wanted(f) /\ event[f].at = since
  /\ \A e \in Elems(sent) : TextOf(e) <= Cursor
  /\ \A e \in batch : Wanted(e) /\ TextOf(e) >= Cursor

Precedes(f, e) == \E i, j \in DOMAIN log : i < j /\ log[i] = f /\ log[j] = e

\* What is past the cursor and not in the batch came after the whole batch, so
\* the cursor can only pass it by an event that overtook it.
FetchedFirst ==
  \A e \in Elems(log) \ (Elems(sent) \cup batch) :
    Wanted(e) /\ Newer(e) => \A f \in batch : Precedes(f, e)

SInv == Types /\ CursorBetween /\ SentOnce /\ MissedIfOvertaken /\ FetchedFirst

-----------------------------------------------------------------------------

\* No text is before that of the first possible time.
LEMMA TextPositive == \A t \in Nat \ {0} : Text(t) \in Nat \ {0}
<1> SUFFICES ASSUME NEW t \in Nat \ {0} PROVE Text(t) \in Nat \ {0}
  OBVIOUS
<1>1. t \div 100 \in Nat /\ (t \div 10) % 10 \in 0..9 /\ t % 10 \in 0..9
  OBVIOUS
<1>. QED
  BY <1>1 DEF Text

LEMMA AppendElems ==
  ASSUME NEW s \in Seq(Event), NEW e \in Event, NEW t, t = Append(s, e)
  PROVE  /\ t \in Seq(Event) /\ Len(s) \in Nat
         /\ DOMAIN s = 1..Len(s) /\ DOMAIN t = 1..(Len(s) + 1)
         /\ \A i \in DOMAIN s : t[i] = s[i] /\ i < Len(s) + 1
         /\ t[Len(s) + 1] = e
         /\ {t[i] : i \in DOMAIN t} = {s[i] : i \in DOMAIN s} \cup {e}
<1>1. /\ t \in Seq(Event) /\ Len(s) \in Nat
      /\ DOMAIN s = 1..Len(s) /\ DOMAIN t = 1..(Len(s) + 1)
      /\ \A i \in DOMAIN s : t[i] = s[i] /\ i < Len(s) + 1
      /\ t[Len(s) + 1] = e
  OBVIOUS
<1>2. DOMAIN t = DOMAIN s \cup {Len(s) + 1}
  BY <1>1
<1>3. {t[i] : i \in DOMAIN t} = {s[i] : i \in DOMAIN s} \cup {e}
  BY <1>1, <1>2
<1>. QED
  BY <1>1, <1>3

\* The texts of what is in the log, and the cursor, are numbers.
LEMMA Texts ==
  ASSUME Types
  PROVE  /\ \A e \in Elems(log) : /\ e \in Event /\ event[e] \in Known
                                  /\ TextOf(e) \in Nat \ {0}
         /\ Cursor \in Nat
<1>1. \A e \in Elems(log) : e \in Event
  BY DEF Types, Elems
<1>2. \A e \in Elems(log) : event[e] \in Known
  BY <1>1 DEF Types
<1>3. \A e \in Elems(log) : event[e].at \in Nat \ {0}
  BY <1>2, StreamAssumption DEF Known
<1>4. \A e \in Elems(log) : TextOf(e) \in Nat \ {0}
  BY <1>3, TextPositive DEF TextOf
<1>5. Cursor \in Nat
  BY TextPositive, StreamAssumption DEF Cursor, Types
<1>. QED
  BY <1>1, <1>2, <1>4, <1>5

LEMMA SInit == Init => SInv
<1> SUFFICES ASSUME Init PROVE SInv
  OBVIOUS
<1>1. Elems(<<>>) = {} /\ <<>> \in Seq(Event) /\ DOMAIN <<>> = {}
  BY DEF Elems
<1>2. Types
  BY <1>1 DEF Init, Types
<1>3. CursorBetween
  BY <1>1 DEF Init, CursorBetween
<1>4. SentOnce /\ MissedIfOvertaken /\ FetchedFirst
  BY <1>1 DEF Init, SentOnce, MissedIfOvertaken, FetchedFirst
<1>. QED
  BY <1>2, <1>3, <1>4 DEF SInv

-----------------------------------------------------------------------------
(* The requests                                                            *)

LEMMA ClockKeeps == SInv /\ Clock => SInv'
<1> SUFFICES ASSUME SInv, Clock PROVE SInv'
  OBVIOUS
<1>1. now' \in Instant /\ UNCHANGED <<event, log, filter, pc, since, batch, sent>>
  BY DEF Clock, stream
<1>2. Types' /\ CursorBetween' /\ SentOnce'
  BY <1>1 DEF SInv, Types, CursorBetween, SentOnce, Wanted, TextOf, Cursor, Elems
<1>3. MissedIfOvertaken' /\ FetchedFirst'
  BY <1>1 DEF SInv, MissedIfOvertaken, FetchedFirst, Overtaken, Precedes, Wanted,
              Newer, TextOf, Cursor, Elems
<1>. QED
  BY <1>2, <1>3 DEF SInv

\* An event is stamped before it is in the log: what is there does not change.
LEMMA StampKeeps == ASSUME SInv, NEW e \in Event, Stamp(e) PROVE SInv'
<1>1. PICK a \in Agg : event' = [event EXCEPT ![e] = [agg |-> a, at |-> now]]
  BY DEF Stamp
<1>2. event[e] = None /\ UNCHANGED <<now, log, filter, pc, since, batch, sent>>
  BY DEF Stamp, stream
<1>3. e \notin Elems(log)
  BY <1>2 DEF SInv, Types
<1>4. \A f \in Elems(log) : f \in Event /\ event'[f] = event[f]
  BY <1>1, <1>3, Texts DEF SInv, Types
<1>5. \A f \in Elems(log) : /\ TextOf(f)' = TextOf(f) /\ Wanted(f)' = Wanted(f)
                            /\ Newer(f)' = Newer(f)
  BY <1>2, <1>4 DEF TextOf, Wanted, Newer, Cursor
<1>6. Elems(log)' = Elems(log) /\ Elems(sent)' = Elems(sent) /\ Cursor' = Cursor
  BY <1>2 DEF Elems, Cursor
<1>7. event' \in [Event -> Known \cup {None}]
  BY <1>1 DEF SInv, Types, Known
<1>8. Types'
  BY <1>2, <1>4, <1>6, <1>7 DEF SInv, Types
<1>9. batch \subseteq Elems(log) /\ Elems(sent) \subseteq Elems(log)
  BY DEF SInv, Types
<1>10. CursorBetween'
  BY <1>2, <1>4, <1>5, <1>6, <1>9 DEF SInv, CursorBetween
<1>11. SentOnce'
  BY <1>2, <1>5, <1>6, <1>9 DEF SInv, SentOnce
<1>12. \A f \in Elems(log) : Overtaken(f) => Overtaken(f)'
  BY <1>2, <1>5 DEF Overtaken, Elems
<1>13. MissedIfOvertaken'
  BY <1>2, <1>5, <1>6, <1>12 DEF SInv, MissedIfOvertaken
<1>14. FetchedFirst'
  BY <1>2, <1>5, <1>6, <1>9 DEF SInv, FetchedFirst, Precedes
<1>. QED
  BY <1>8, <1>10, <1>11, <1>13, <1>14 DEF SInv

\* An event appended behind the cursor is overtaken by the event of the cursor.
LEMMA AppendKeeps == ASSUME SInv, NEW e \in Event, Append1(e) PROVE SInv'
<1>1. /\ event[e] # None /\ e \notin Elems(log) /\ log' = Append(log, e)
      /\ UNCHANGED <<now, event, filter, pc, since, batch, sent>>
  BY DEF Append1, stream
<1>2. /\ log \in Seq(Event) /\ log' \in Seq(Event) /\ Len(log) \in Nat
      /\ DOMAIN log = 1..Len(log) /\ DOMAIN log' = 1..(Len(log) + 1)
      /\ \A i \in DOMAIN log : log'[i] = log[i] /\ i < Len(log) + 1
      /\ log'[Len(log) + 1] = e
      /\ Elems(log)' = Elems(log) \cup {e}
  <2>1. log \in Seq(Event) /\ log' = Append(log, e)
    BY <1>1 DEF SInv, Types
  <2>. QED
    BY <2>1, AppendElems DEF Elems
<1>3. \A f : /\ TextOf(f)' = TextOf(f) /\ Wanted(f)' = Wanted(f)
             /\ Newer(f)' = Newer(f)
  BY <1>1 DEF TextOf, Wanted, Newer, Cursor
<1>4. Elems(sent)' = Elems(sent) /\ Cursor' = Cursor
  BY <1>1 DEF Elems, Cursor
<1>5. Types'
  BY <1>1, <1>2, <1>4 DEF SInv, Types
<1>6. CursorBetween' /\ SentOnce'
  BY <1>1, <1>2, <1>3, <1>4 DEF SInv, CursorBetween, SentOnce
<1>7. DOMAIN log \subseteq DOMAIN log'
  BY <1>2
<1>8. \A f \in Elems(log) : Overtaken(f) => Overtaken(f)'
  BY <1>2, <1>3, <1>7 DEF Overtaken
<1>9. \A f, g : Precedes(f, g) => Precedes(f, g)'
  BY <1>2, <1>7 DEF Precedes
<1>10. \A f \in Elems(log) : Precedes(f, e)'
  <2> SUFFICES ASSUME NEW f \in Elems(log) PROVE Precedes(f, e)'
    OBVIOUS
  <2>1. PICK i \in DOMAIN log : log[i] = f
    BY DEF Elems
  <2>2. Len(log) + 1 \in DOMAIN log'
    BY <1>2
  <2>. QED
    BY <1>2, <1>7, <2>1, <2>2 DEF Precedes
<1>11. ASSUME Wanted(e), ~Newer(e) PROVE Overtaken(e)'
  <2>1. TextOf(e) \in Nat \ {0} /\ Cursor \in Nat
    <3>1. event[e] \in Known
      BY <1>1 DEF SInv, Types
    <3>2. event[e].at \in Nat \ {0}
      BY <3>1, StreamAssumption DEF Known
    <3>. QED
      BY <3>2, TextPositive, Texts DEF TextOf, SInv
  <2>2. since # 0
    BY <1>11, <2>1 DEF Newer, Cursor
  <2>3. PICK f \in Elems(log) : Wanted(f) /\ event[f].at = since
    BY <2>2 DEF SInv, CursorBetween
  <2>4. TextOf(f) >= TextOf(e)
    BY <1>11, <2>1, <2>2, <2>3 DEF Newer, Cursor, TextOf
  <2>5. PICK i, j \in DOMAIN log' : i < j /\ log'[i] = f /\ log'[j] = e
    BY <1>10 DEF Precedes
  <2>. QED
    BY <1>3, <2>3, <2>4, <2>5 DEF Overtaken
<1>12. MissedIfOvertaken'
  BY <1>1, <1>2, <1>3, <1>4, <1>8, <1>11 DEF SInv, MissedIfOvertaken
<1>13. FetchedFirst'
  BY <1>1, <1>2, <1>3, <1>4, <1>9, <1>10 DEF SInv, FetchedFirst, Types
<1>. QED
  BY <1>5, <1>6, <1>12, <1>13 DEF SInv

-----------------------------------------------------------------------------
(* The stream                                                              *)

LEMMA FetchKeeps == SInv /\ Fetch => SInv'
<1> SUFFICES ASSUME SInv, Fetch PROVE SInv'
  OBVIOUS
<1>1. /\ pc = "wait" /\ batch' = {e \in Elems(log) : Wanted(e) /\ Newer(e)}
      /\ pc' = IF batch' = {} THEN "wait" ELSE "send"
      /\ UNCHANGED <<now, event, log, filter, since, sent>>
  BY DEF Fetch, writers
<1>2. \A f : /\ TextOf(f)' = TextOf(f) /\ Wanted(f)' = Wanted(f)
             /\ Newer(f)' = Newer(f) /\ Overtaken(f)' = Overtaken(f)
  BY <1>1 DEF TextOf, Wanted, Newer, Cursor, Overtaken
<1>3. /\ Elems(sent)' = Elems(sent) /\ Elems(log)' = Elems(log) /\ Cursor' = Cursor
  BY <1>1 DEF Elems, Cursor
<1>4. batch = {} /\ \A e \in Elems(log) : e \in Event
  BY <1>1, Texts DEF SInv, Types
<1>5. Types'
  BY <1>1, <1>3, <1>4 DEF SInv, Types
<1>6. Cursor \in Nat /\ \A e \in Elems(log) : TextOf(e) \in Nat
  BY Texts DEF SInv
<1>7. CursorBetween'
  BY <1>1, <1>2, <1>3, <1>6 DEF SInv, CursorBetween, Newer
<1>8. SentOnce'
  <2>1. \A e \in Elems(sent) : ~Newer(e)
    BY <1>6 DEF SInv, CursorBetween, Newer, Types
  <2>. QED
    BY <1>1, <1>2, <1>3, <2>1 DEF SInv, SentOnce
<1>9. MissedIfOvertaken'
  BY <1>1, <1>2, <1>3, <1>4 DEF SInv, MissedIfOvertaken
<1>10. FetchedFirst'
  BY <1>1, <1>2, <1>3 DEF FetchedFirst
<1>. QED
  BY <1>5, <1>7, <1>8, <1>9, <1>10 DEF SInv

\* The batch goes out in the order of the texts.
LEMMA SendKeeps == ASSUME SInv, NEW e \in Event, Send(e) PROVE SInv'
<1>1. /\ pc = "send" /\ e \in batch /\ \A f \in batch : TextOf(e) <= TextOf(f)
      /\ sent' = Append(sent, e) /\ since' = event[e].at /\ batch' = batch \ {e}
      /\ pc' = IF batch' = {} THEN "wait" ELSE "send"
      /\ UNCHANGED <<now, event, log, filter>>
  BY DEF Send, writers
<1>2. /\ sent \in Seq(Event) /\ sent' \in Seq(Event) /\ Len(sent) \in Nat
      /\ DOMAIN sent = 1..Len(sent) /\ DOMAIN sent' = 1..(Len(sent) + 1)
      /\ \A i \in DOMAIN sent : sent'[i] = sent[i] /\ i < Len(sent) + 1
      /\ sent'[Len(sent) + 1] = e
      /\ Elems(sent)' = Elems(sent) \cup {e}
  <2>1. sent \in Seq(Event) /\ sent' = Append(sent, e)
    BY <1>1 DEF SInv, Types
  <2>. QED
    BY <2>1, AppendElems DEF Elems
<1>3. \A f : /\ TextOf(f)' = TextOf(f) /\ Wanted(f)' = Wanted(f)
             /\ Overtaken(f)' = Overtaken(f) /\ \A g : Precedes(f, g)' = Precedes(f, g)
  BY <1>1 DEF TextOf, Wanted, Overtaken, Precedes
<1>4. Elems(log)' = Elems(log) /\ e \in Elems(log) /\ e \notin Elems(sent)
  BY <1>1 DEF Elems, SInv, Types, SentOnce
<1>5. /\ event[e] \in Known /\ event[e].at \in Nat \ {0} /\ event[e].at \in Instant
      /\ Wanted(e)
  BY <1>1, <1>4, Texts, StreamAssumption DEF SInv, CursorBetween, Known
<1>6. Cursor' = TextOf(e) /\ since' # 0
  BY <1>1, <1>5 DEF Cursor, TextOf
<1>7. /\ Cursor \in Nat /\ \A f \in Elems(log) : TextOf(f) \in Nat
      /\ Cursor <= TextOf(e)
  BY <1>1, Texts DEF SInv, CursorBetween
<1>8. Types'
  BY <1>1, <1>2, <1>4, <1>5 DEF SInv, Types
<1>9. CursorBetween'
  <2>1. \A f \in Elems(sent) : f \in Elems(log) /\ TextOf(f) <= Cursor
    BY DEF SInv, CursorBetween, Types
  <2>2. \A f \in Elems(sent)' : TextOf(f) <= TextOf(e)
    BY <1>2, <1>4, <1>7, <2>1
  <2>. QED
    BY <1>1, <1>3, <1>4, <1>5, <1>6, <2>2 DEF SInv, CursorBetween
<1>10. SentOnce'
  <2>1. \A i \in DOMAIN sent : sent[i] # e
    BY <1>4 DEF Elems
  <2>2. \A i, j \in DOMAIN sent' : sent'[i] = sent'[j] => i = j
    BY <1>2, <2>1 DEF SInv, SentOnce
  <2>3. \A f \in Elems(sent)' : f \notin batch' /\ Wanted(f)'
    BY <1>1, <1>2, <1>3, <1>5 DEF SInv, SentOnce
  <2>. QED
    BY <2>2, <2>3 DEF SentOnce
<1>11. MissedIfOvertaken'
  <2> SUFFICES ASSUME NEW f \in Elems(log) \ (Elems(sent) \cup batch),
                      Wanted(f), TextOf(f) <= TextOf(e)
               PROVE  Overtaken(f)
    BY <1>1, <1>2, <1>3, <1>4, <1>6, <1>7 DEF MissedIfOvertaken, Newer
  <2>1. CASE ~Newer(f)
    BY <2>1 DEF SInv, MissedIfOvertaken
  <2>2. CASE Newer(f)
    <3>1. Precedes(e, f)
      BY <1>1, <2>2 DEF SInv, FetchedFirst
    <3>2. TextOf(e) >= TextOf(f)
      BY <1>4, <1>7
    <3>. QED
      BY <1>5, <3>1, <3>2 DEF Precedes, Overtaken
  <2>. QED
    BY <2>1, <2>2
<1>12. FetchedFirst'
  <2> SUFFICES ASSUME NEW f \in Elems(log) \ (Elems(sent) \cup batch),
                      Wanted(f), TextOf(f) > TextOf(e), NEW g \in batch
               PROVE  Precedes(g, f)
    BY <1>1, <1>2, <1>3, <1>4, <1>6 DEF FetchedFirst, Newer
  <2>1. Newer(f)
    BY <1>4, <1>7 DEF Newer
  <2>. QED
    BY <2>1 DEF SInv, FetchedFirst
<1>. QED
  BY <1>8, <1>9, <1>10, <1>11, <1>12 DEF SInv

LEMMA CloseKeeps == SInv /\ Close => SInv'
<1> SUFFICES ASSUME SInv, Close PROVE SInv'
  OBVIOUS
<1>1. pc' = "closed" /\ UNCHANGED <<now, event, log, filter, since, batch, sent>>
  BY DEF Close, writers
<1>2. Types' /\ CursorBetween' /\ SentOnce'
  BY <1>1 DEF SInv, Types, CursorBetween, SentOnce, Wanted, TextOf, Cursor, Elems
<1>3. MissedIfOvertaken' /\ FetchedFirst'
  BY <1>1 DEF SInv, MissedIfOvertaken, FetchedFirst, Overtaken, Precedes, Wanted,
              Newer, TextOf, Cursor, Elems
<1>. QED
  BY <1>2, <1>3 DEF SInv

LEMMA SNext == SInv /\ [Next]_vars => SInv'
<1> SUFFICES ASSUME SInv, [Next]_vars PROVE SInv'
  OBVIOUS
<1>1. ASSUME NEW e \in Event, Stamp(e) \/ Append1(e) \/ Send(e) PROVE SInv'
  BY <1>1, StampKeeps, AppendKeeps, SendKeeps
<1>2. CASE UNCHANGED vars
  <2>1. UNCHANGED <<now, event, log, filter, pc, since, batch, sent>>
    BY <1>2 DEF vars, writers, stream
  <2>2. Types' /\ CursorBetween' /\ SentOnce'
    BY <2>1 DEF SInv, Types, CursorBetween, SentOnce, Wanted, TextOf, Cursor, Elems
  <2>3. MissedIfOvertaken' /\ FetchedFirst'
    BY <2>1 DEF SInv, MissedIfOvertaken, FetchedFirst, Overtaken, Precedes, Wanted,
                Newer, TextOf, Cursor, Elems
  <2>. QED
    BY <2>2, <2>3 DEF SInv
<1>. QED
  BY <1>1, <1>2, ClockKeeps, FetchKeeps, CloseKeeps DEF Next, Requests, Handler

LEMMA SAlways == Spec => []SInv
  BY SInit, SNext, PTL DEF Spec

-----------------------------------------------------------------------------
(* The theorems                                                            *)

\* The handler waits exactly when it has nothing to send.
THEOREM StreamTypes == Spec => []TypeOK
<1>1. SInv => TypeOK
  BY Texts DEF SInv, Types, TypeOK
<1>. QED
  BY <1>1, SAlways, PTL

\* No client receives an event twice, or one of another aggregate.
THEOREM NoDuplicates == Spec => []SentOnce
<1>1. SInv => SentOnce
  BY DEF SInv
<1>. QED
  BY <1>1, SAlways, PTL

\* Only overtaken events are missed: whatever the cursor has passed and the
\* client has not received was appended after another event with its text or a
\* later one.
THEOREM OnlyOvertakenMissed == Spec => []MissedIfOvertaken
<1>1. SInv => MissedIfOvertaken
  BY DEF SInv
<1>. QED
  BY <1>1, SAlways, PTL

-----------------------------------------------------------------------------
(* The order of the events                                                 *)

LEMMA OrderNext == SInv /\ InTextOrder /\ [Next]_vars => InTextOrder'
<1> SUFFICES ASSUME SInv, InTextOrder, [Next]_vars PROVE InTextOrder'
  OBVIOUS
<1>1. CASE UNCHANGED <<event, sent>>
  BY <1>1 DEF InTextOrder, TextOf
<1>2. ASSUME NEW e \in Event, Stamp(e) PROVE InTextOrder'
  <2>1. /\ event[e] = None /\ sent' = sent
        /\ \E a \in Agg : event' = [event EXCEPT ![e] = [agg |-> a, at |-> now]]
    BY <1>2 DEF Stamp, stream
  <2>2. \A i \in DOMAIN sent : sent[i] \in Event /\ sent[i] # e
    <3>1. \A i \in DOMAIN sent : sent[i] \in Elems(log)
      BY DEF SInv, Types, Elems
    <3>. QED
      BY <2>1, <3>1, Texts DEF SInv, Types
  <2>3. \A i \in DOMAIN sent : event'[sent[i]] = event[sent[i]]
    BY <2>1, <2>2 DEF SInv, Types
  <2>. QED
    BY <2>1, <2>3 DEF InTextOrder, TextOf
<1>3. ASSUME NEW e \in Event, Send(e) PROVE InTextOrder'
  <2>1. /\ e \in batch /\ sent' = Append(sent, e) /\ event' = event
    BY <1>3 DEF Send, writers
  <2>2. /\ Len(sent) \in Nat
        /\ DOMAIN sent = 1..Len(sent) /\ DOMAIN sent' = 1..(Len(sent) + 1)
        /\ \A i \in DOMAIN sent : sent'[i] = sent[i] /\ i < Len(sent) + 1
        /\ sent'[Len(sent) + 1] = e
    BY <2>1, AppendElems DEF SInv, Types
  <2>3. \A f : TextOf(f)' = TextOf(f)
    BY <2>1 DEF TextOf
  <2>4. \A i \in DOMAIN sent : TextOf(sent[i]) <= TextOf(e)
    <3>1. e \in Elems(log) /\ \A i \in DOMAIN sent : sent[i] \in Elems(log)
                                                    /\ TextOf(sent[i]) <= Cursor
      BY <2>1 DEF SInv, Types, CursorBetween, Elems
    <3>2. TextOf(e) \in Nat /\ Cursor \in Nat /\ Cursor <= TextOf(e)
          /\ \A i \in DOMAIN sent : TextOf(sent[i]) \in Nat
      BY <2>1, <3>1, Texts DEF SInv, CursorBetween
    <3>. QED
      BY <3>1, <3>2
  <2> SUFFICES ASSUME NEW i \in DOMAIN sent', NEW j \in DOMAIN sent', i < j
               PROVE  TextOf(sent'[i]) <= TextOf(sent'[j])
    BY <2>3 DEF InTextOrder
  <2>5. i \in DOMAIN sent
    BY <2>2
  <2>6. CASE j \in DOMAIN sent
    BY <2>2, <2>5, <2>6 DEF InTextOrder
  <2>7. CASE j = Len(sent) + 1
    BY <2>2, <2>4, <2>5, <2>7
  <2>. QED
    BY <2>2, <2>6, <2>7
<1>. QED
  BY <1>1, <1>2, <1>3
     DEF Next, Requests, Handler, Clock, Append1, Fetch, Close, vars, writers, stream

LEMMA OrderAlways == Spec => []InTextOrder
<1>1. Init => InTextOrder
  BY DEF Init, InTextOrder
<1>. QED
  BY <1>1, OrderNext, SAlways, PTL DEF Spec

\* The client receives the events in the order of their texts, however many polls
\* and however the requests race to the log.
THEOREM SentInTextOrder == Spec => []InTextOrder
  BY OrderAlways

\* With texts that sort as the times do, "delivered in chronological order"
\* holds, and an event is missed only behind one that is as late: nothing else
\* in the stream puts the times out of order.
THEOREM ChronologicalIfTextsSort ==
  ASSUME TextsSort
  PROVE  Spec => [](Chronological /\ MissedIfOlder)
<1>1. \A s, t \in Instant : Text(s) <= Text(t) <=> s <= t
  <2>1. \A s \in Instant : s \in Nat /\ Text(s) \in Nat
    BY StreamAssumption, TextPositive
  <2>. QED
    BY <2>1 DEF TextsSort
<1>2. ASSUME SInv, NEW e \in Elems(log)
      PROVE  event[e].at \in Instant /\ TextOf(e) = Text(event[e].at)
  BY <1>2, Texts DEF SInv, Known, TextOf
<1>3. ASSUME SInv, InTextOrder PROVE Chronological
  <2>1. \A i \in DOMAIN sent : sent[i] \in Elems(log)
    BY <1>3 DEF SInv, Types, Elems
  <2>. QED
    BY <1>1, <1>2, <1>3, <2>1 DEF InTextOrder, Chronological
<1>4. ASSUME SInv PROVE MissedIfOlder
  <2> SUFFICES ASSUME NEW e \in Elems(log) \ (Elems(sent) \cup batch),
                      Wanted(e), event[e].at <= since
               PROVE  \E i, j \in DOMAIN log :
                        /\ i < j /\ log[j] = e /\ Wanted(log[i])
                        /\ event[log[i]].at >= event[e].at
    BY DEF MissedIfOlder
  <2>1. event[e].at \in Instant /\ event[e].at \in Nat \ {0}
    BY <1>2, <1>4, StreamAssumption
  <2>2. since \in Instant /\ Cursor = Text(since)
    BY <1>4, <2>1 DEF SInv, Types, Cursor
  <2>3. Cursor \in Nat /\ TextOf(e) \in Nat /\ TextOf(e) <= Cursor
    BY <1>1, <1>2, <1>4, <2>1, <2>2, Texts DEF SInv
  <2>4. PICK i, j \in DOMAIN log : /\ i < j /\ log[j] = e /\ Wanted(log[i])
                                   /\ TextOf(log[i]) >= TextOf(e)
    BY <1>4, <2>3 DEF SInv, MissedIfOvertaken, Newer, Overtaken
  <2>5. log[i] \in Elems(log)
    BY <2>4 DEF Elems
  <2>6. event[log[i]].at \in Instant /\ event[log[i]].at \in Nat
        /\ Text(event[e].at) <= Text(event[log[i]].at)
    BY <1>2, <1>4, <2>3, <2>4, <2>5, Texts, StreamAssumption DEF SInv
  <2>. QED
    BY <1>1, <2>1, <2>4, <2>6
<1>. QED
  BY <1>3, <1>4, SAlways, OrderAlways, PTL

\* Only the zeros that the format drops put the texts out of order: times whose
\* fractions all have the same number of digits sort as they should.
THEOREM FullFractionsSort ==
  ASSUME \/ \A t \in Instant : t % 10 # 0
         \/ \A t \in Instant : t % 100 = 0
  PROVE  TextsSort
<1> SUFFICES ASSUME NEW s \in Instant, NEW t \in Instant, s < t
             PROVE  Text(s) < Text(t)
  BY DEF TextsSort
<1> DEFINE sec(u) == u \div 100
           tenth(u) == (u \div 10) % 10
           hundredth(u) == u % 10
<1>1. \A u \in Nat : /\ sec(u) \in Nat /\ tenth(u) \in 0..9 /\ hundredth(u) \in 0..9
                     /\ u = 100 * sec(u) + 10 * tenth(u) + hundredth(u)
                     /\ u % 100 = 10 * tenth(u) + hundredth(u)
  OBVIOUS
<1>2. s \in Nat /\ t \in Nat
  BY StreamAssumption
<1>3. \/ sec(s) < sec(t)
      \/ /\ sec(s) = sec(t)
         /\ tenth(s) < tenth(t) \/ (tenth(s) = tenth(t) /\ hundredth(s) < hundredth(t))
  <2>1. /\ sec(s) \in Nat /\ tenth(s) \in Nat /\ hundredth(s) \in Nat
        /\ sec(t) \in Nat /\ tenth(t) \in Nat /\ hundredth(t) \in Nat
        /\ tenth(s) <= 9 /\ hundredth(s) <= 9 /\ tenth(t) <= 9 /\ hundredth(t) <= 9
        /\ s = 100 * sec(s) + 10 * tenth(s) + hundredth(s)
        /\ t = 100 * sec(t) + 10 * tenth(t) + hundredth(t)
    BY <1>1, <1>2
  <2> HIDE DEF sec, tenth, hundredth
  <2>. QED
    BY <2>1
<1>4. CASE \A u \in Instant : u % 10 # 0
  <2>1. ASSUME NEW u \in Instant
        PROVE  Text(u) = 2000 * sec(u) + 12 * (tenth(u) + 1) + hundredth(u) + 1
    <3>1. u \in Nat /\ hundredth(u) # 0 /\ u % 100 # 0
      BY <1>1, <1>4, StreamAssumption
    <3>. QED
      BY <1>1, <3>1 DEF Text
  <2>2. /\ sec(s) \in Nat /\ tenth(s) \in Nat /\ hundredth(s) \in Nat
        /\ sec(t) \in Nat /\ tenth(t) \in Nat /\ hundredth(t) \in Nat
        /\ tenth(s) <= 9 /\ hundredth(s) <= 9
    BY <1>1, <1>2
  <2>3. /\ Text(s) = 2000 * sec(s) + 12 * (tenth(s) + 1) + hundredth(s) + 1
        /\ Text(t) = 2000 * sec(t) + 12 * (tenth(t) + 1) + hundredth(t) + 1
    BY <2>1
  <2> HIDE DEF sec, tenth, hundredth
  <2>4. CASE sec(s) < sec(t)
    BY <2>2, <2>3, <2>4
  <2>5. CASE sec(s) = sec(t) /\ tenth(s) < tenth(t)
    BY <2>2, <2>3, <2>5
  <2>6. CASE sec(s) = sec(t) /\ tenth(s) = tenth(t) /\ hundredth(s) < hundredth(t)
    BY <2>2, <2>3, <2>6
  <2>. QED
    BY <1>3, <2>4, <2>5, <2>6
<1>5. CASE \A u \in Instant : u % 100 = 0
  <2>1. Text(s) = 2000 * sec(s) + 1000 /\ Text(t) = 2000 * sec(t) + 1000
    BY <1>5 DEF Text
  <2>2. /\ tenth(s) = 0 /\ hundredth(s) = 0 /\ tenth(t) = 0 /\ hundredth(t) = 0
        /\ sec(s) \in Nat /\ sec(t) \in Nat
    BY <1>1, <1>2, <1>5
  <2> HIDE DEF sec, tenth, hundredth
  <2>. QED
    BY <1>3, <2>1, <2>2
<1>. QED
  BY <1>4, <1>5
=============================================================================
