-------------------------- MODULE LiveUpdatesProofs --------------------------
(***************************************************************************)
(* What the pages that watch an execution can rely on, for any number of   *)
(* sessions, nodes and pages and any bounds: that they are shown committed *)
(* versions only, in the order of each session, and miss no message        *)
(* because of another page.                                                *)
(***************************************************************************)
EXTENDS LiveUpdates, WellFoundedInduction, SequenceTheorems, TLAPS

Ascends(q) == \A i, j \in 1 .. Len(q) : i < j => q[i].version < q[j].version

(* A session's staged events are its own, in order, and later than all it  *)
(* has published.                                                          *)
StagedInOrder ==
  /\ \A s \in Session : Ascends(staged[s])
  /\ \A s \in Session : \A e \in Range(staged[s]) : e.by = s /\ e.version <= stagedAt
  /\ \A s \in Session : \A e \in Range(staged[s]), f \in Range(channel) :
       f.by = s => f.version < e.version
  /\ \A e \in Range(channel) : e.version <= stagedAt

(* A session publishes after its commit, and what it has committed.        *)
FlushesCommitted ==
  \A s \in Session : phase[s] = "flushing" =>
    staged[s] # <<>> /\ Range(staged[s]) \subseteq Range(committed)

EventsInv ==
  /\ TypeOKEvents /\ StagedInOrder /\ FlushesCommitted /\ SessionInOrder
  /\ Range(channel) \subseteq Range(committed) /\ NothingForgotten

Durable(v) ==
  \A n \in Node : v[n] = 0 \/ \E e \in Range(committed) : e.node = n /\ e.version = v[n]

(* What the connection manager knows of a socket, and what it was sent.    *)
SocketInv(c) ==
  /\ socket[c] = "watching" => c \in connections
  /\ c \in connections => socket[c] \in {"watching", "left"}
  /\ c \in sending => socket[c] \in {"watching", "left", "ended"} /\ position > 0
  /\ c \in broken => socket[c] \in {"left", "ended"}
  /\ socket[c] \in {"none", "connecting", "accepted", "left early"} => inbox[c] = <<>>

PagesInv ==
  /\ TypeOK /\ handled \in [Client -> Nat]
  /\ \A c \in Client : SocketInv(c) /\ Durable(response[c]) /\ Durable(view[c])
  /\ NoGap

IndInv == EventsInv /\ PagesInv

-----------------------------------------------------------------------------
(* Sequences and what is in them.                                          *)

(* Of two ordered places only the later can be the last one.               *)
LEMMA OrderedPair ==
  ASSUME NEW n \in Nat, NEW i \in 1 .. (n + 1), NEW j \in 1 .. (n + 1), i < j
  PROVE  i \in 1 .. n /\ (j \in 1 .. n \/ j = n + 1)
OBVIOUS

(* What is appended joins the range, at the last place.                    *)
LEMMA RangeAppend ==
  ASSUME NEW S, NEW q \in Seq(S), NEW e \in S
  PROVE  /\ Append(q, e) \in Seq(S) /\ Range(Append(q, e)) = Range(q) \cup {e}
         /\ Len(Append(q, e)) = Len(q) + 1 /\ Append(q, e)[Len(q) + 1] = e
         /\ \A i \in 1 .. Len(q) : Append(q, e)[i] = q[i]
<1>1. /\ Append(q, e) \in Seq(S) /\ Len(Append(q, e)) = Len(q) + 1
      /\ Append(q, e)[Len(q) + 1] = e /\ \A i \in 1 .. Len(q) : Append(q, e)[i] = q[i]
  OBVIOUS
<1>2. DOMAIN q = 1 .. Len(q) /\ DOMAIN Append(q, e) = 1 .. (Len(q) + 1) /\ Len(q) \in Nat
  OBVIOUS
<1>3. \A i \in 1 .. (Len(q) + 1) : i \in 1 .. Len(q) \/ i = Len(q) + 1
  BY <1>2
<1>4. \A i \in 1 .. Len(q) : i \in 1 .. (Len(q) + 1)
  BY <1>2
<1>5. Len(q) + 1 \in 1 .. (Len(q) + 1)
  BY <1>2
<1>6. ASSUME NEW x PROVE x \in Range(Append(q, e)) <=> x \in Range(q) \cup {e}
  <2>1. x \in Range(Append(q, e)) => x \in Range(q) \cup {e}
    BY <1>1, <1>2, <1>3, Zenon DEF Range
  <2>2. x \in Range(q) => x \in Range(Append(q, e))
    BY <1>1, <1>2, <1>4, Zenon DEF Range
  <2>3. e \in Range(Append(q, e))
    BY <1>1, <1>2, <1>5, Zenon DEF Range
  <2> QED
    BY <2>1, <2>2, <2>3, Zenon
<1> QED
  BY <1>1, <1>6, Zenon

LEMMA RangeTail ==
  ASSUME NEW S, NEW q \in Seq(S), q # <<>>
  PROVE  /\ Tail(q) \in Seq(S) /\ Head(q) \in S /\ Head(q) = q[1] /\ Len(q) > 0
         /\ Len(Tail(q)) = Len(q) - 1 /\ \A i \in 1 .. Len(Tail(q)) : Tail(q)[i] = q[i + 1]
         /\ Range(q) = {Head(q)} \cup Range(Tail(q))
<1>1. /\ Tail(q) \in Seq(S) /\ Head(q) \in S /\ Head(q) = q[1] /\ Len(q) \in Nat /\ Len(q) > 0
      /\ Len(Tail(q)) = Len(q) - 1 /\ \A i \in 1 .. Len(Tail(q)) : Tail(q)[i] = q[i + 1]
  OBVIOUS
<1>2. DOMAIN q = 1 .. Len(q) /\ DOMAIN Tail(q) = 1 .. Len(Tail(q))
  BY <1>1
<1>3. \A i \in 1 .. Len(q) : i = 1 \/ (i - 1 \in 1 .. Len(Tail(q)) /\ Tail(q)[i - 1] = q[i])
  BY <1>1
<1>4. \A i \in 1 .. Len(Tail(q)) : i + 1 \in 1 .. Len(q)
  BY <1>1
<1>5. 1 \in 1 .. Len(q)
  BY <1>1
<1>6. ASSUME NEW x PROVE x \in Range(q) <=> x \in {Head(q)} \cup Range(Tail(q))
  <2>1. ASSUME x \in Range(q) PROVE x \in {Head(q)} \cup Range(Tail(q))
    <3>1. PICK i \in 1 .. Len(q) : x = q[i]
      BY <1>2, <2>1, Zenon DEF Range
    <3>2. i = 1 => x = Head(q)
      BY <1>1, <3>1, Zenon
    <3>3. i # 1 => x \in Range(Tail(q))
      BY <1>2, <1>3, <3>1, Zenon DEF Range
    <3> QED
      BY <3>2, <3>3, Zenon
  <2>2. x \in Range(Tail(q)) => x \in Range(q)
    BY <1>1, <1>2, <1>4 DEF Range
  <2>3. Head(q) \in Range(q)
    BY <1>1, <1>2, <1>5, Zenon DEF Range
  <2> QED
    BY <2>1, <2>2, <2>3, Zenon
<1> QED
  BY <1>1, <1>6, Zenon

LEMMA RangeConcat ==
  ASSUME NEW S, NEW q \in Seq(S), NEW t \in Seq(S)
  PROVE  q \o t \in Seq(S) /\ Range(q \o t) = Range(q) \cup Range(t)
<1>1. /\ q \o t \in Seq(S) /\ Len(q \o t) = Len(q) + Len(t) /\ Len(q) \in Nat /\ Len(t) \in Nat
      /\ \A i \in 1 .. Len(q) : (q \o t)[i] = q[i]
      /\ \A i \in 1 .. Len(t) : (q \o t)[Len(q) + i] = t[i]
  OBVIOUS
<1>2. DOMAIN q = 1 .. Len(q) /\ DOMAIN t = 1 .. Len(t) /\ DOMAIN (q \o t) = 1 .. (Len(q) + Len(t))
  BY <1>1
<1>3. \A i \in 1 .. (Len(q) + Len(t)) :
        i \in 1 .. Len(q) \/ (i - Len(q) \in 1 .. Len(t) /\ (q \o t)[i] = t[i - Len(q)])
  BY <1>1
<1>4. /\ \A i \in 1 .. Len(q) : i \in 1 .. (Len(q) + Len(t))
      /\ \A i \in 1 .. Len(t) : Len(q) + i \in 1 .. (Len(q) + Len(t))
  BY <1>1
<1>5. ASSUME NEW x PROVE x \in Range(q \o t) <=> x \in Range(q) \cup Range(t)
  <2>1. x \in Range(q \o t) => x \in Range(q) \cup Range(t)
    BY <1>1, <1>2, <1>3 DEF Range
  <2>2. x \in Range(q) => x \in Range(q \o t)
    BY <1>1, <1>2, <1>4, Zenon DEF Range
  <2>3. ASSUME x \in Range(t) PROVE x \in Range(q \o t)
    <3>1. PICK i \in 1 .. Len(t) : x = t[i]
      BY <1>2, <2>3, Zenon DEF Range
    <3> QED
      BY <1>1, <1>2, <1>4, <3>1, Zenon DEF Range
  <2> QED
    BY <2>1, <2>2, <2>3, Zenon
<1> QED
  BY <1>1, <1>5, Zenon

LEMMA RangeEmpty == Range(<<>>) = {}
BY DEF Range

LEMMA RangeMembers ==
  ASSUME NEW S, NEW q \in Seq(S)
  PROVE  Range(q) \subseteq S /\ \A i \in 1 .. Len(q) : q[i] \in Range(q) /\ q[i] \in S
BY DEF Range

LEMMA AscendsAppend ==
  ASSUME NEW q \in Seq(Event), NEW e \in Event, Ascends(q),
         \A f \in Range(q) : f.version < e.version
  PROVE  Ascends(Append(q, e))
<1>1. /\ Len(Append(q, e)) = Len(q) + 1 /\ Append(q, e)[Len(q) + 1] = e /\ Len(q) \in Nat
      /\ \A i \in 1 .. Len(q) : Append(q, e)[i] = q[i]
  OBVIOUS
<1>2. \A i \in 1 .. Len(q) : q[i].version < e.version
  BY RangeMembers, Zenon
<1> SUFFICES ASSUME NEW i \in 1 .. (Len(q) + 1), NEW j \in 1 .. (Len(q) + 1), i < j
             PROVE  Append(q, e)[i].version < Append(q, e)[j].version
  BY <1>1, Zenon DEF Ascends
<1>3. CASE j \in 1 .. Len(q)
  BY <1>1, <1>3 DEF Ascends
<1>4. CASE j = Len(q) + 1
  BY <1>1, <1>2, <1>4
<1> QED
  BY <1>1, <1>3, <1>4

LEMMA AscendsTail ==
  ASSUME NEW q \in Seq(Event), q # <<>>, Ascends(q)
  PROVE  Ascends(Tail(q)) /\ \A e \in Range(Tail(q)) : Head(q).version < e.version
<1>1. /\ Len(Tail(q)) = Len(q) - 1 /\ \A i \in 1 .. Len(Tail(q)) : Tail(q)[i] = q[i + 1]
      /\ Tail(q) \in Seq(Event) /\ Head(q) = q[1] /\ Len(q) \in Nat /\ Len(q) > 0
  BY RangeTail
<1>2. Ascends(Tail(q))
  BY <1>1 DEF Ascends
<1>3. \A i \in 1 .. Len(Tail(q)) : Head(q).version < Tail(q)[i].version
  BY <1>1 DEF Ascends
<1> QED
  BY <1>1, <1>2, <1>3 DEF Range


-----------------------------------------------------------------------------
(* The events.                                                             *)

LEMMA InitEventsInv == InitEvents => EventsInv
<1> SUFFICES ASSUME InitEvents PROVE EventsInv
  BY Zenon
<1>1. TypeOKEvents
  BY BoundsAssumption DEF InitEvents, TypeOKEvents
<1>2. /\ Len(channel) = 0 /\ Range(channel) = {} /\ Range(committed) = {}
      /\ \A s \in Session : Len(staged[s]) = 0 /\ Range(staged[s]) = {} /\ phase[s] = "open"
  BY RangeEmpty, Zenon DEF InitEvents
<1>3. StagedInOrder
  BY <1>2 DEF StagedInOrder, Ascends
<1>4. SessionInOrder
  BY <1>2 DEF SessionInOrder
<1> QED
  BY <1>1, <1>2, <1>3, <1>4, Zenon DEF EventsInv, FlushesCommitted, NothingForgotten

(* The committed events are those on the channel and those still to be     *)
(* published, event by event.                                              *)
LEMMA EventByEvent ==
  ASSUME NEW C, NEW D, NEW st, NEW ph
  PROVE  C = D \cup UNION {Range(st[s]) : s \in {t \in Session : ph[t] = "flushing"}}
           <=> \A e : e \in C <=> \/ e \in D
                                 \/ \E s \in Session : ph[s] = "flushing" /\ e \in Range(st[s])
<1>1. \A e : e \in UNION {Range(st[s]) : s \in {t \in Session : ph[t] = "flushing"}}
           <=> \E s \in Session : ph[s] = "flushing" /\ e \in Range(st[s])
  BY Zenon
<1> QED
  BY <1>1, Zenon

(* A transition stages an event that is later than all before it.          *)
LEMMA TransitionEvents ==
  ASSUME EventsInv, NEW s \in Session, NEW n \in Node, Transition(s, n)
  PROVE  EventsInv'
<1> USE DEF EventsInv, TypeOKEvents
<1>1. PICK e \in Event : e = [node |-> n, by |-> s, version |-> stagedAt + 1]
  <2>1. stagedAt + 1 \in 1 .. MaxEvents
    BY BoundsAssumption DEF Transition
  <2>2. [node |-> n, by |-> s, version |-> stagedAt + 1] \in Event
    BY <2>1, Zenon DEF Event
  <2> QED
    BY <2>2, Zenon
<1>2. /\ staged' = [staged EXCEPT ![s] = Append(@, e)] /\ stagedAt' = stagedAt + 1 /\ stagedAt \in Nat
      /\ phase[s] = "open" /\ stagedAt < MaxEvents /\ UNCHANGED <<committed, phase, channel, faults>>
  BY <1>1 DEF Transition
<1>3. /\ staged'[s] \in Seq(Event) /\ Range(staged'[s]) = Range(staged[s]) \cup {e}
      /\ \A t \in Session \ {s} : staged'[t] = staged[t]
  BY <1>2, RangeAppend
<1>4. TypeOKEvents'
  BY <1>2, BoundsAssumption
<1>0. e.by = s /\ e.version = stagedAt + 1
  BY <1>1, Zenon
<1>5. \A t \in Session : \A f \in Range(staged[t]) : f.version \in Nat /\ f.version < e.version
  <2>1. \A t \in Session : Range(staged[t]) \subseteq Event
    BY RangeMembers, Zenon
  <2>2. \A t \in Session : \A f \in Range(staged[t]) : f.version \in Nat /\ f.version <= stagedAt
    BY <2>1 DEF StagedInOrder, Event
  <2> QED
    BY <1>2, <1>0, <2>2
<1>6. \A f \in Range(channel) : f.version \in Nat /\ f.version < e.version
  <2>1. Range(channel) \subseteq Event
    BY RangeMembers, Zenon
  <2>2. \A f \in Range(channel) : f.version \in Nat /\ f.version <= stagedAt
    BY <2>1 DEF StagedInOrder, Event
  <2> QED
    BY <1>2, <1>0, <2>2
<1>7. StagedInOrder'
  <2>1. Ascends(staged[s]) /\ staged[s] \in Seq(Event) /\ \A f \in Range(staged[s]) : f.version < e.version
    BY <1>5, Zenon DEF StagedInOrder
  <2>2. Ascends(staged'[s])
    BY <1>2, <2>1, AscendsAppend, Zenon
  <2>3. \A t \in Session : Ascends(staged'[t])
    BY <1>3, <2>2, Zenon DEF StagedInOrder
  <2>4. ASSUME NEW t \in Session, NEW f \in Range(staged'[t])
        PROVE  /\ f.by = t /\ f.version <= stagedAt'
               /\ \A g \in Range(channel) : g.by = t => g.version < f.version
    <3>1. CASE f \in Range(staged[t])
      BY <1>2, <1>5, <3>1 DEF StagedInOrder
    <3>2. CASE t = s /\ f = e
      BY <1>2, <1>6, <1>0, <3>2
    <3> QED
      BY <1>3, <2>4, <3>1, <3>2, Zenon
  <2>5. \A f \in Range(channel) : f.version <= stagedAt'
    BY <1>2, <1>6 DEF StagedInOrder
  <2> QED
    BY <1>2, <2>3, <2>4, <2>5, Zenon DEF StagedInOrder
<1>8. FlushesCommitted'
  BY <1>2, <1>3, Zenon DEF FlushesCommitted
<1>9. NothingForgotten'
  <2>1. \A t \in {u \in Session : phase[u] = "flushing"} : staged'[t] = staged[t]
    BY <1>2, <1>3, Zenon
  <2>2. {Range(staged'[t]) : t \in {u \in Session : phase[u] = "flushing"}}
          = {Range(staged[t]) : t \in {u \in Session : phase[u] = "flushing"}}
    BY <2>1, Zenon
  <2> QED
    BY <1>2, <2>2, Zenon DEF NothingForgotten
<1> QED
  BY <1>2, <1>4, <1>7, <1>8, <1>9, Zenon DEF SessionInOrder

(* A commit makes the session's staged events durable and publishable.     *)
LEMMA CommitEvents ==
  ASSUME EventsInv, NEW s \in Session, Commit(s)
  PROVE  EventsInv'
<1> USE DEF EventsInv, TypeOKEvents
<1>1. /\ committed' = committed \o staged[s] /\ phase' = [phase EXCEPT ![s] = "flushing"]
      /\ phase[s] = "open" /\ staged[s] # <<>> /\ UNCHANGED <<stagedAt, staged, channel, faults>>
  BY Zenon DEF Commit
<1>2. committed' \in Seq(Event) /\ Range(committed') = Range(committed) \cup Range(staged[s])
  BY <1>1, RangeConcat
<1>3. TypeOKEvents'
  BY <1>1, <1>2, Zenon
<1>4. StagedInOrder' /\ SessionInOrder'
  BY <1>1, Zenon DEF StagedInOrder, SessionInOrder
<1>5. FlushesCommitted'
  BY <1>1, <1>2, Zenon DEF FlushesCommitted
<1>6. NothingForgotten'
  <2> SUFFICES ASSUME faults = 0
               PROVE  \A e : e \in Range(committed') <=>
                        \/ e \in Range(channel)
                        \/ \E t \in Session : phase'[t] = "flushing" /\ e \in Range(staged[t])
    BY <1>1, EventByEvent DEF NothingForgotten
  <2>1. \A e : e \in Range(committed) <=>
          \/ e \in Range(channel)
          \/ \E t \in Session : phase[t] = "flushing" /\ e \in Range(staged[t])
    BY EventByEvent DEF NothingForgotten
  <2> QED
    BY <1>1, <1>2, <2>1, Zenon
<1>7. Range(channel') \subseteq Range(committed')
  BY <1>1, <1>2, Zenon
<1> QED
  BY <1>3, <1>4, <1>5, <1>6, <1>7, Zenon


(* flush_events takes the first event off the list, and publishes it or    *)
(* not.                                                                    *)
LEMMA TakenEvents ==
  ASSUME EventsInv, NEW s \in Session, Publish(s) \/ PublishFails(s)
  PROVE  EventsInv'
<1> USE DEF EventsInv, TypeOKEvents
<1>1. /\ phase[s] = "flushing" /\ staged' = [staged EXCEPT ![s] = Tail(@)]
      /\ phase' = [phase EXCEPT ![s] = IF Len(staged[s]) = 1 THEN "open" ELSE @]
      /\ UNCHANGED <<stagedAt, committed>>
  BY Zenon DEF Publish, PublishFails
<1>2. staged[s] \in Seq(Event) /\ staged[s] # <<>>
  BY <1>1, Zenon DEF FlushesCommitted
<1>3. PICK h \in Event : h = Head(staged[s])
  BY <1>2, RangeTail, Zenon
<1>4. \/ channel' = Append(channel, h) /\ faults' = faults
      \/ channel' = channel /\ faults' = faults + 1 /\ faults < MaxFaults
  BY <1>3, Zenon DEF Publish, PublishFails
<1>5. /\ staged'[s] \in Seq(Event) /\ Range(staged[s]) = {h} \cup Range(staged'[s])
      /\ Len(staged'[s]) = Len(staged[s]) - 1 /\ Len(staged[s]) > 0
      /\ \A t \in Session \ {s} : staged'[t] = staged[t] /\ phase'[t] = phase[t]
  BY <1>1, <1>2, <1>3, RangeTail, Zenon
<1>6. /\ Ascends(staged'[s]) /\ \A e \in Range(staged'[s]) : h.version < e.version
      /\ h.by = s /\ h.version <= stagedAt /\ h \in Range(committed)
      /\ \A f \in Range(channel) : f.by = s => f.version < h.version
  <2>1. Ascends(staged[s])
    BY Zenon DEF StagedInOrder
  <2>2. Ascends(Tail(staged[s])) /\ \A e \in Range(Tail(staged[s])) : h.version < e.version
    BY <1>2, <1>3, <2>1, AscendsTail, Zenon
  <2>3. h \in Range(staged[s])
    BY <1>5, Zenon
  <2> QED
    BY <1>1, <2>2, <2>3, Zenon DEF StagedInOrder, FlushesCommitted
<1>7. /\ channel' \in Seq(Event)
      /\ Range(channel') = Range(channel) \/ Range(channel') = Range(channel) \cup {h}
  <2>1. Append(channel, h) \in Seq(Event) /\ Range(Append(channel, h)) = Range(channel) \cup {h}
    BY RangeAppend
  <2> QED
    BY <1>4, <2>1, Zenon
<1>8. TypeOKEvents'
  BY <1>1, <1>4, <1>5, <1>7, BoundsAssumption
<1>9. StagedInOrder'
  <2>1. \A t \in Session : Ascends(staged'[t]) /\ Range(staged'[t]) \subseteq Range(staged[t])
    BY <1>5, <1>6, Zenon DEF StagedInOrder
  <2>2. \A t \in Session : \A e \in Range(staged'[t]) : e.by = t /\ e.version <= stagedAt
    BY <2>1, Zenon DEF StagedInOrder
  <2>3. ASSUME NEW t \in Session, NEW e \in Range(staged'[t]), NEW f \in Range(channel'), f.by = t
        PROVE  f.version < e.version
    <3>1. CASE f \in Range(channel)
      BY <2>1, <2>3, <3>1, Zenon DEF StagedInOrder
    <3>2. CASE f = h
      BY <1>6, <2>3, <3>2, Zenon
    <3> QED
      BY <1>7, <3>1, <3>2, Zenon
  <2>4. \A e \in Range(channel') : e.version <= stagedAt
    BY <1>6, <1>7 DEF StagedInOrder
  <2> QED
    BY <1>1, <2>1, <2>2, <2>3, <2>4, Zenon DEF StagedInOrder
<1>10. FlushesCommitted'
  <2>1. phase'[s] = "flushing" => staged'[s] # <<>>
    <3>1. phase'[s] = "flushing" => Len(staged[s]) # 1
      BY <1>1, Zenon
    <3>2. Len(staged[s]) \in Nat
      BY <1>2
    <3>3. phase'[s] = "flushing" => Len(staged'[s]) # 0
      BY <1>5, <3>1, <3>2
    <3> QED
      BY <3>3, Zenon
  <2>2. Range(staged'[s]) \subseteq Range(committed)
    BY <1>1, <1>5, Zenon DEF FlushesCommitted
  <2> QED
    BY <1>1, <1>5, <2>1, <2>2, Zenon DEF FlushesCommitted
<1>11. SessionInOrder'
  <2>1. CASE channel' = channel
    BY <2>1, Zenon DEF SessionInOrder
  <2>2. CASE channel' = Append(channel, h)
    <3>1. /\ Len(channel') = Len(channel) + 1 /\ channel'[Len(channel) + 1] = h /\ Len(channel) \in Nat
          /\ \A i \in 1 .. Len(channel) : channel'[i] = channel[i] /\ channel[i] \in Range(channel)
      BY <2>2, RangeAppend, RangeMembers
    <3> SUFFICES ASSUME NEW i \in 1 .. (Len(channel) + 1), NEW j \in 1 .. (Len(channel) + 1),
                        i < j, channel'[i].by = channel'[j].by
                 PROVE  channel'[i].version < channel'[j].version
      BY <3>1, Zenon DEF SessionInOrder
    <3>2. i \in 1 .. Len(channel) /\ (j \in 1 .. Len(channel) \/ j = Len(channel) + 1)
      <4>1. Len(channel) \in Nat
        BY <3>1, Zenon
      <4> QED
        BY <4>1, OrderedPair, Zenon
    <3>3. channel'[i] = channel[i] /\ channel[i] \in Range(channel)
      BY <3>1, <3>2, Zenon
    <3>4. CASE j \in 1 .. Len(channel)
      <4>1. channel'[j] = channel[j]
        BY <3>1, <3>4, Zenon
      <4> QED
        BY <3>2, <3>3, <3>4, <4>1, Zenon DEF SessionInOrder
    <3>5. CASE j = Len(channel) + 1
      BY <1>6, <3>1, <3>3, <3>5, Zenon
    <3> QED
      BY <3>2, <3>4, <3>5, Zenon
  <2> QED
    BY <1>4, <2>1, <2>2, Zenon
<1>12. Range(channel') \subseteq Range(committed')
  BY <1>1, <1>6, <1>7, Zenon
<1>13. NothingForgotten'
  <2> SUFFICES ASSUME faults' = 0
               PROVE  \A e : e \in Range(committed') <=>
                        \/ e \in Range(channel')
                        \/ \E t \in Session : phase'[t] = "flushing" /\ e \in Range(staged'[t])
    BY EventByEvent DEF NothingForgotten
  <2>1. faults = 0 /\ channel' = Append(channel, h)
    BY <1>4
  <2>2. Range(channel') = Range(channel) \cup {h}
    BY <2>1, RangeAppend
  <2>3. \A e : e \in Range(committed) <=>
          \/ e \in Range(channel)
          \/ \E t \in Session : phase[t] = "flushing" /\ e \in Range(staged[t])
    BY <2>1, EventByEvent DEF NothingForgotten
  <2>4. phase'[s] # "flushing" => Range(staged'[s]) = {}
    <3>1. phase'[s] # "flushing" => Len(staged'[s]) = 0
      BY <1>1, <1>5
    <3>2. Len(staged'[s]) = 0 => staged'[s] = <<>>
      BY <1>5
    <3> QED
      BY <3>1, <3>2, RangeEmpty, Zenon
  <2>5. ASSUME NEW e
        PROVE  (\E t \in Session : phase[t] = "flushing" /\ e \in Range(staged[t]))
                 <=> e = h \/ \E t \in Session : phase'[t] = "flushing" /\ e \in Range(staged'[t])
    <3>1. phase[s] = "flushing" /\ (e \in Range(staged[s]) <=> e = h \/ e \in Range(staged'[s]))
      BY <1>1, <1>5, Zenon
    <3>2. e \in Range(staged'[s]) => phase'[s] = "flushing"
      BY <2>4, Zenon
    <3> QED
      BY <1>1, <1>5, <3>1, <3>2, Zenon
  <2> QED
    BY <1>1, <2>2, <2>3, <2>5, Zenon
<1> QED
  BY <1>8, <1>9, <1>10, <1>11, <1>12, <1>13, Zenon

(* The events of a session that is lost are lost with it.                  *)
LEMMA CloseEvents ==
  ASSUME EventsInv, NEW s \in Session, Close(s)
  PROVE  EventsInv'
<1> USE DEF EventsInv, TypeOKEvents
<1>1. /\ UNCHANGED <<stagedAt, committed, channel>> /\ faults' = faults + 1 /\ faults < MaxFaults
      /\ staged'[s] = <<>> /\ phase'[s] = "open" /\ Len(staged'[s]) = 0 /\ Range(staged'[s]) = {}
      /\ \A t \in Session \ {s} : staged'[t] = staged[t] /\ phase'[t] = phase[t]
  BY RangeEmpty, Zenon DEF Close
<1>2. TypeOKEvents'
  BY BoundsAssumption DEF Close
<1>3. Ascends(staged'[s])
  BY <1>1 DEF Ascends
<1>4. StagedInOrder' /\ FlushesCommitted' /\ SessionInOrder'
  <2>1. StagedInOrder'
    BY <1>1, <1>3, Zenon DEF StagedInOrder
  <2>2. FlushesCommitted'
    BY <1>1, Zenon DEF FlushesCommitted
  <2>3. SessionInOrder'
    BY <1>1, Zenon DEF SessionInOrder
  <2> QED
    BY <2>1, <2>2, <2>3, Zenon
<1>5. NothingForgotten'
  BY <1>1 DEF NothingForgotten
<1> QED
  BY <1>1, <1>2, <1>4, <1>5, Zenon

(* Neither the listener nor a page touches them; a restart counts as a     *)
(* fault.                                                                  *)
LEMMA KeepEvents ==
  ASSUME EventsInv, UNCHANGED <<stagedAt, committed, staged, phase, channel>>,
         faults' = faults \/ (faults' = faults + 1 /\ faults < MaxFaults)
  PROVE  EventsInv'
<1>1. TypeOKEvents'
  BY BoundsAssumption DEF EventsInv, TypeOKEvents
<1>2. NothingForgotten'
  BY DEF EventsInv, TypeOKEvents, NothingForgotten
<1> QED
  BY <1>1, <1>2, Zenon DEF EventsInv, StagedInOrder, FlushesCommitted, SessionInOrder


-----------------------------------------------------------------------------
(* What a page is shown.                                                   *)

LEMMA MaxMember ==
  ASSUME NEW k \in Nat, NEW S \in SUBSET (1 .. k), S # {}
  PROVE  Max(S) \in S
<1> DEFINE T == {k - i : i \in S}
<1>1. T \subseteq Nat /\ T # {}
  <2>1. \A i \in S : k - i \in Nat
    OBVIOUS
  <2> QED
    BY <2>1, Zenon
<1>2. PICK x \in T : \A y \in T : ~(<<y, x>> \in OpToRel(<, Nat))
  <2> HIDE DEF T
  <2> QED
    BY <1>1, NatLessThanWellFounded, WFMin, Zenon
<1>3. \A y \in T : ~(y < x)
  BY <1>1, <1>2, Zenon DEF OpToRel
<1>4. PICK i \in S : x = k - i
  BY Zenon
<1>5. \A j \in S : i >= j
  <2> SUFFICES ASSUME NEW j \in S PROVE i >= j
    BY Zenon
  <2>1. k - j \in T
    BY Zenon
  <2>2. ~(k - j < k - i)
    BY <1>3, <1>4, <2>1, Zenon
  <2> QED
    BY <2>2
<1> QED
  BY <1>5, Zenon DEF Max

(* The database holds committed versions.                                  *)
LEMMA DatabaseDurable ==
  ASSUME TypeOKEvents
  PROVE  Database \in [Node -> 0 .. MaxEvents] /\ Durable(Database)
<1> SUFFICES ASSUME NEW n \in Node
             PROVE  /\ Current(n) \in 0 .. MaxEvents
                    /\ Current(n) = 0 \/ \E e \in Range(committed) : e.node = n /\ e.version = Current(n)
  BY Zenon DEF Database, Durable
<1> DEFINE S == {i \in 1 .. Len(committed) : committed[i].node = n}
<1>1. CASE S = {}
  BY <1>1, BoundsAssumption DEF Current
<1>2. CASE S # {}
  <2>1. Len(committed) \in Nat
    BY DEF TypeOKEvents
  <2>2. S \in SUBSET (1 .. Len(committed))
    BY Zenon
  <2>3. Max(S) \in S
    <3> HIDE DEF S
    <3> QED
      BY <1>2, <2>1, <2>2, MaxMember, Zenon
  <2>4. PICK m \in 1 .. Len(committed) : m = Max(S) /\ committed[m].node = n
    BY <2>3, Zenon
  <2>5. committed[m] \in Range(committed) /\ committed[m] \in Event
    BY RangeMembers, Zenon DEF TypeOKEvents
  <2>6. Current(n) = committed[m].version
    BY <1>2, <2>4, Zenon DEF Current
  <2>7. committed[m].version \in 0 .. MaxEvents
    BY <2>5, BoundsAssumption DEF Event
  <2> QED
    BY <2>4, <2>5, <2>6, <2>7, Zenon
<1> QED
  BY <1>1, <1>2, Zenon

(* What was committed stays so.                                            *)
LEMMA StaysDurable ==
  ASSUME NEW v, Durable(v), Range(committed) \subseteq Range(committed')
  PROVE  \A n \in Node : v[n] = 0 \/ \E e \in Range(committed') : e.node = n /\ e.version = v[n]
BY Zenon DEF Durable

LEMMA InitPages == Init => PagesInv
<1> SUFFICES ASSUME Init PROVE PagesInv
  BY Zenon
<1>1. TypeOKEvents
  BY InitEventsInv, Zenon DEF Init, EventsInv
<1>2. Nothing \in [Node -> 0 .. MaxEvents] /\ Durable(Nothing)
  BY BoundsAssumption DEF Nothing, Durable
<1>3. /\ Len(channel) = 0 /\ missed \subseteq 1 .. position
      /\ \A c \in Client : inbox[c] = <<>> /\ Len(inbox[c]) = 0 /\ <<>> \in Seq(1 .. position)
  BY DEF Init, InitEvents
<1>4. TypeOK
  BY <1>1, <1>2, <1>3 DEF Init, TypeOK
<1>5. \A c \in Client : SocketInv(c) /\ Durable(response[c]) /\ Durable(view[c])
  BY <1>2, Zenon DEF Init, SocketInv
<1>6. NoGap /\ handled \in [Client -> Nat]
  BY Zenon DEF Init, NoGap
<1> QED
  BY <1>4, <1>5, <1>6, Zenon DEF PagesInv

(* A session's step leaves the pages alone.                                *)
LEMMA SessionPages ==
  ASSUME EventsInv, PagesInv, EventsInv', NEW s \in Session, SessionStep(s), UNCHANGED <<server, page>>
  PROVE  PagesInv'
<1>1. /\ UNCHANGED <<position, missed, sending, broken, connections>>
      /\ UNCHANGED <<socket, inbox, handled, query, response, view>>
  BY Zenon DEF server, page
<1>2. Range(committed) \subseteq Range(committed')
  <2>1. CASE Commit(s)
    <3>1. committed \in Seq(Event) /\ staged[s] \in Seq(Event) /\ committed' = committed \o staged[s]
      BY <2>1, Zenon DEF Commit, EventsInv, TypeOKEvents
    <3> QED
      BY <3>1, RangeConcat
  <2> QED
    BY <2>1, Zenon DEF SessionStep, Transition, Publish, PublishFails, Close
<1>3. Len(channel) <= Len(channel')
  <2>1. channel \in Seq(Event) /\ Len(channel) \in Nat
    BY DEF EventsInv, TypeOKEvents
  <2>2. CASE Publish(s)
    <3>1. channel' = Append(channel, Head(staged[s]))
      BY <2>2, Zenon DEF Publish
    <3>2. Len(channel') = Len(channel) + 1
      BY <2>1, <3>1
    <3> QED
      BY <2>1, <3>2
  <2>3. CASE channel' = channel
    BY <2>1, <2>3
  <2> QED
    BY <2>2, <2>3, Zenon DEF SessionStep, Transition, Commit, PublishFails, Close
<1>4. position \in 0 .. Len(channel')
  <2>1. Len(channel) \in Nat /\ Len(channel') \in Nat
    BY DEF EventsInv, TypeOKEvents
  <2>2. position \in 0 .. Len(channel)
    BY Zenon DEF PagesInv, TypeOK
  <2> QED
    BY <1>3, <2>1, <2>2
<1>5. TypeOK'
  BY <1>1, <1>4, Zenon DEF PagesInv, TypeOK, EventsInv
<1>6. \A c \in Client : Durable(response[c])' /\ Durable(view[c])'
  BY <1>1, <1>2, StaysDurable DEF PagesInv, Durable
<1>7. NoGap' /\ \A c \in Client : SocketInv(c)'
  BY <1>1, Zenon DEF PagesInv, NoGap, NextAfter, SocketInv
<1> QED
  BY <1>1, <1>5, <1>6, <1>7, Zenon DEF PagesInv


LEMMA SeqWider ==
  ASSUME NEW m \in Nat, NEW k \in Nat, m <= k, NEW q \in Seq(1 .. m)
  PROVE  q \in Seq(1 .. k)
<1>1. 1 .. m \subseteq 1 .. k
  OBVIOUS
<1> QED
  BY <1>1, SeqMonotonic, Zenon

LEMMA PagesFacts ==
  ASSUME EventsInv, PagesInv
  PROVE  /\ channel \in Seq(Event) /\ Len(channel) \in Nat /\ Range(channel) \subseteq Range(committed)
         /\ position \in 0 .. Len(channel) /\ position \in Nat
         /\ \A c \in Client : inbox[c] \in Seq(1 .. position) /\ Len(inbox[c]) \in Nat
<1>1. channel \in Seq(Event) /\ Range(channel) \subseteq Range(committed)
  BY Zenon DEF EventsInv, TypeOKEvents
<1>2. Len(channel) \in Nat
  BY <1>1
<1>3. position \in 0 .. Len(channel) /\ \A c \in Client : inbox[c] \in Seq(1 .. position)
  BY Zenon DEF PagesInv, TypeOK
<1>4. \A c \in Client : Len(inbox[c]) \in Nat
  BY <1>3
<1> QED
  BY <1>1, <1>2, <1>3, <1>4

LEMMA KeepShown ==
  ASSUME PagesInv, UNCHANGED <<committed, response, view>>
  PROVE  \A c \in Client : Durable(response[c])' /\ Durable(view[c])'
<1>1. \A c \in Client : Durable(response[c]) /\ Durable(view[c])
  BY Zenon DEF PagesInv
<1> QED
  BY <1>1 DEF Durable

(* Opening the page, its query, and the messages it handles change what    *)
(* it shows.                                                               *)
LEMMA ShownPages ==
  ASSUME EventsInv, PagesInv, NEW c \in Client, OpenPage(c) \/ QueryRead(c) \/ QueryData(c) \/ OnMessage(c)
  PROVE  PagesInv'
<1>0. /\ handled \in [Client -> Nat] /\ inbox[c] \in Seq(1 .. position) /\ Len(inbox[c]) \in Nat
      /\ position \in 0 .. Len(channel) /\ channel \in Seq(Event) /\ Len(channel) \in Nat
      /\ Range(channel) \subseteq Range(committed)
      /\ \A d \in Client : handled[d] \in 0 .. Len(inbox[d])
      /\ view \in [Client -> [Node -> 0 .. MaxEvents]] /\ \A d \in Client : Durable(view[d])
  BY PagesFacts, Zenon DEF PagesInv, TypeOK
<1> USE DEF PagesInv, TypeOK
<1>1. /\ UNCHANGED <<stagedAt, committed, staged, phase, channel, faults>>
      /\ UNCHANGED <<position, missed, sending, broken, connections, inbox>>
  BY Zenon DEF OpenPage, QueryRead, QueryData, OnMessage, events, server
<1>2. TypeOKEvents'
  BY <1>1, Zenon DEF TypeOKEvents
<1>3. /\ response' \in [Client -> [Node -> 0 .. MaxEvents]]
      /\ \A d \in Client : Durable(response'[d])
  <2>1. CASE UNCHANGED response
    BY <2>1, Zenon
  <2>2. CASE response' = [response EXCEPT ![c] = Database]
    BY <2>2, DatabaseDurable, Zenon
  <2> QED
    BY <2>1, <2>2, Zenon DEF OpenPage, QueryRead, QueryData, OnMessage
<1>4. /\ view' \in [Client -> [Node -> 0 .. MaxEvents]]
      /\ \A d \in Client : Durable(view'[d])
  <2>1. CASE UNCHANGED view
    BY <2>1, Zenon
  <2>2. CASE view' = [view EXCEPT ![c] = response[c]]
    BY <2>2, Zenon
  <2>3. CASE OnMessage(c) /\ ~UNCHANGED view
    <3> HIDE DEF PagesInv, TypeOK
    <3>1. handled[c] < Len(inbox[c])
      BY <2>3, Zenon DEF OnMessage
    <3>2. handled[c] + 1 \in 1 .. Len(inbox[c])
      BY <1>0, <3>1
    <3>3. inbox[c][handled[c] + 1] \in 1 .. Len(channel)
      <4>1. inbox[c][handled[c] + 1] \in 1 .. position
        BY <1>0, <3>2
      <4> QED
        BY <1>0, <4>1
    <3>4. PICK e \in Event : e = channel[inbox[c][handled[c] + 1]] /\ e \in Range(committed)
      BY <1>0, <3>3, RangeMembers
    <3>5. view' = [view EXCEPT ![c][e.node] = e.version]
      BY <2>3, <3>4, Zenon DEF OnMessage
    <3>6. e.node \in Node /\ e.version \in 0 .. MaxEvents
      BY <3>4, BoundsAssumption DEF Event
    <3>7. view'[c] = [view[c] EXCEPT ![e.node] = e.version] /\ \A d \in Client \ {c} : view'[d] = view[d]
      BY <1>0, <3>5, Zenon
    <3>8. view[c] \in [Node -> 0 .. MaxEvents] /\ Durable(view[c])
      BY <1>0, Zenon
    <3>9. Durable(view'[c])
      <4>1. view'[c][e.node] = e.version /\ \A n \in Node \ {e.node} : view'[c][n] = view[c][n]
        BY <3>6, <3>7, <3>8, Zenon
      <4>2. ASSUME NEW n \in Node
            PROVE  view'[c][n] = 0 \/ \E f \in Range(committed) : f.node = n /\ f.version = view'[c][n]
        <5>1. CASE n = e.node
          BY <3>4, <4>1, <5>1, Zenon
        <5>2. CASE n # e.node
          BY <3>8, <4>1, <5>2 DEF Durable
        <5> QED
          BY <5>1, <5>2, Zenon
      <4> QED
        BY <4>2, Zenon DEF Durable
    <3>10. view' \in [Client -> [Node -> 0 .. MaxEvents]]
      BY <1>0, <3>5, <3>6, Zenon
    <3> QED
      BY <1>0, <3>7, <3>9, <3>10, Zenon
  <2> QED
    BY <2>1, <2>2, <2>3, Zenon DEF OpenPage, QueryRead, QueryData, OnMessage
<1>5. handled' \in [Client -> Nat] /\ \A d \in Client : handled'[d] \in 0 .. Len(inbox[d])
  <2>1. CASE UNCHANGED handled
    BY <2>1, Zenon
  <2>2. CASE OnMessage(c)
    <3> HIDE DEF PagesInv, TypeOK
    <3>1. handled' = [handled EXCEPT ![c] = @ + 1] /\ handled[c] < Len(inbox[c])
      BY <2>2, Zenon DEF OnMessage
    <3>2. handled'[c] = handled[c] + 1 /\ \A d \in Client \ {c} : handled'[d] = handled[d]
      BY <1>0, <3>1, Zenon
    <3>3. handled'[c] \in 0 .. Len(inbox[c])
      BY <1>0, <3>1, <3>2
    <3>4. handled' \in [Client -> Nat]
      BY <1>0, <3>1
    <3> QED
      BY <1>0, <3>2, <3>3, <3>4, Zenon
  <2> QED
    BY <2>1, <2>2, Zenon DEF OpenPage, QueryRead, QueryData
<1>6. query' \in [Client -> {"none", "asked", "answered", "loaded"}]
  BY Zenon DEF OpenPage, QueryRead, QueryData, OnMessage
<1>7. \/ UNCHANGED socket
      \/ socket[c] = "none" /\ socket' = [socket EXCEPT ![c] = "connecting"]
  BY Zenon DEF OpenPage, QueryRead, QueryData, OnMessage
<1>8. TypeOK'
  BY <1>1, <1>2, <1>3, <1>4, <1>5, <1>6, <1>7, Zenon
<1>9. \A d \in Client : SocketInv(d)'
  BY <1>1, <1>7, Zenon DEF SocketInv
<1>10. NoGap'
  BY <1>1, <1>7, Zenon DEF NoGap, NextAfter
<1>11. \A d \in Client : Durable(response[d])' /\ Durable(view[d])'
  <2> HIDE DEF PagesInv, TypeOK
  <2>1. committed' = committed
    BY <1>1, Zenon
  <2> QED
    BY <1>3, <1>4, <2>1 DEF Durable
<1> QED
  BY <1>5, <1>8, <1>9, <1>10, <1>11, Zenon

(* A step of the endpoint or of a leaving page moves one socket, between   *)
(* states in which the manager knows it or not.                            *)
LEMMA SocketPages ==
  ASSUME EventsInv, PagesInv, NEW c \in Client, ClosePage(c) \/ Accept(c) \/ Connect(c) \/ Disconnect(c)
  PROVE  PagesInv'
<1> USE DEF PagesInv, TypeOK
<1>1. /\ UNCHANGED <<stagedAt, committed, staged, phase, channel, faults>>
      /\ UNCHANGED <<position, missed, sending, broken>>
      /\ UNCHANGED <<inbox, handled, query, response, view>>
  BY Zenon DEF ClosePage, Accept, Connect, Disconnect, events, server
<1>2. TypeOKEvents'
  BY <1>1, Zenon DEF TypeOKEvents
<1>3. /\ socket' \in [Client -> {"none", "connecting", "accepted", "watching", "left early", "left", "ended"}]
      /\ \A d \in Client \ {c} : socket'[d] = socket[d] /\ (d \in connections' <=> d \in connections)
      /\ connections' \subseteq Client
  BY Zenon DEF ClosePage, Accept, Connect, Disconnect, server
<1>4. \/ /\ socket[c] = "connecting" /\ socket'[c] \in {"ended", "accepted"}
         /\ connections' = connections
      \/ socket[c] = "accepted" /\ socket'[c] = "left early" /\ connections' = connections
      \/ socket[c] = "watching" /\ socket'[c] = "left" /\ connections' = connections
      \/ socket[c] = "accepted" /\ socket'[c] = "watching" /\ c \in connections'
      \/ socket[c] = "left early" /\ socket'[c] = "left" /\ c \in connections'
      \/ socket[c] = "left" /\ socket'[c] = "ended" /\ c \notin connections'
  BY Zenon DEF ClosePage, Accept, Connect, Disconnect, server
<1>5. TypeOK'
  BY <1>1, <1>2, <1>3, Zenon
<1>6. ASSUME NEW d \in Client PROVE SocketInv(d)'
  <2>1. SocketInv(d)
    BY Zenon
  <2>2. CASE d = c
    BY <1>1, <1>4, <2>1, <2>2, Zenon DEF SocketInv
  <2>3. CASE d # c
    BY <1>1, <1>3, <2>1, <2>3, Zenon DEF SocketInv
  <2> QED
    BY <2>2, <2>3, Zenon
<1>7. NoGap'
  <2>1. SocketInv(c) /\ NoGap
    BY Zenon
  <2>2. UNCHANGED <<inbox, sending, position, missed>> /\ \A d \in Client \ {c} : socket'[d] = socket[d]
    BY <1>1, <1>3, Zenon
  <2> HIDE DEF PagesInv, TypeOK
  <2>3. socket'[c] = "watching" => inbox[c] = <<>> \/ socket[c] = "watching"
    BY <1>4, <2>1, Zenon DEF SocketInv
  <2>4. \A d \in Client : socket'[d] = "watching" => inbox[d] = <<>> \/ socket[d] = "watching"
    BY <2>2, <2>3, Zenon
  <2>5. \A i \in 1 .. Len(<<>>) - 1 : FALSE
    OBVIOUS
  <2> QED
    BY <2>1, <2>2, <2>4, <2>5, Zenon DEF NoGap, NextAfter
<1>8. \A d \in Client : Durable(response[d])' /\ Durable(view[d])'
  <2> HIDE DEF PagesInv
  <2> QED
    BY <1>1, KeepShown, Zenon
<1> QED
  BY <1>1, <1>5, <1>6, <1>7, <1>8, Zenon


(* A broadcast copies the connections, tries each socket and disconnects   *)
(* those that failed.                                                      *)
LEMMA BroadcastPages ==
  ASSUME EventsInv, PagesInv, BroadcastStep
  PROVE  PagesInv'
<1>1. /\ UNCHANGED <<stagedAt, committed, staged, phase, channel, faults>>
      /\ UNCHANGED <<socket, handled, query, response, view>>
  BY Zenon DEF BroadcastStep, Listen, Send, DropBroken, events, page
<1>2. TypeOKEvents' /\ \A c \in Client : Durable(response[c])' /\ Durable(view[c])'
  <2>1. TypeOKEvents'
    BY <1>1, Zenon DEF EventsInv, TypeOKEvents
  <2> QED
    BY <1>1, <2>1, KeepShown, Zenon
<1>3. /\ TypeOK /\ NoGap /\ \A c \in Client : SocketInv(c)
      /\ handled \in [Client -> Nat]
  BY Zenon DEF PagesInv
<1>4. /\ Len(channel) \in Nat /\ position \in 0 .. Len(channel) /\ position \in Nat
      /\ \A c \in Client : inbox[c] \in Seq(1 .. position) /\ Len(inbox[c]) \in Nat
  BY PagesFacts, Zenon
<1>5. CASE Listen
  <2>1. /\ position < Len(channel) /\ position' = position + 1 /\ sending = {} /\ broken = {}
        /\ sending' = connections /\ UNCHANGED <<missed, broken, connections, inbox>>
    BY <1>5, Zenon DEF Listen, page
  <2>2. inbox \in [Client -> Seq(1 .. position')]
    <3>1. position + 1 \in Nat /\ position <= position + 1
      BY <1>4
    <3>2. \A c \in Client : inbox[c] \in Seq(1 .. (position + 1))
      BY <1>4, <3>1, SeqWider, Zenon
    <3>3. inbox \in [Client -> Seq(1 .. position)]
      BY <1>3, Zenon DEF TypeOK
    <3> QED
      BY <2>1, <3>2, <3>3, Zenon
  <2>3. position' \in 0 .. Len(channel) /\ position' > 0 /\ missed' \subseteq 1 .. position'
    <3>1. missed \subseteq 1 .. position
      BY <1>3, Zenon DEF TypeOK
    <3> QED
      BY <1>4, <2>1, <3>1
  <2>4. TypeOK'
    BY <1>1, <1>2, <1>3, <2>1, <2>2, <2>3, Zenon DEF TypeOK
  <2>5. \A c \in Client : SocketInv(c)'
    BY <1>1, <1>3, <2>1, <2>3, Zenon DEF SocketInv
  <2>6. NoGap'
    <3>1. \A c \in Client : socket[c] = "watching" => c \notin sending /\ c \in sending'
      BY <1>3, <2>1, Zenon DEF SocketInv
    <3> QED
      BY <1>1, <1>3, <2>1, <3>1, Zenon DEF NoGap, NextAfter
  <2> QED
    BY <1>1, <1>2, <1>3, <2>4, <2>5, <2>6, Zenon DEF PagesInv
<1>6. ASSUME NEW c \in Client, Send(c) PROVE PagesInv'
  <2>1. /\ c \in sending /\ sending' = sending \ {c} /\ UNCHANGED <<position, missed, connections>>
        /\ \/ /\ socket[c] = "watching" /\ inbox' = [inbox EXCEPT ![c] = Append(@, position)]
              /\ UNCHANGED broken
           \/ socket[c] # "watching" /\ broken' = broken \cup {c} /\ UNCHANGED inbox
    BY <1>6, Zenon DEF Send
  <2>2. position \in 1 .. position /\ socket[c] \in {"watching", "left", "ended"}
    <3>1. position > 0 /\ socket[c] \in {"watching", "left", "ended"}
      BY <1>3, <2>1, Zenon DEF SocketInv
    <3> QED
      BY <1>4, <3>1
  <2>3. /\ Append(inbox[c], position) \in Seq(1 .. position)
        /\ Len(Append(inbox[c], position)) = Len(inbox[c]) + 1
        /\ Append(inbox[c], position)[Len(inbox[c]) + 1] = position
        /\ \A i \in 1 .. Len(inbox[c]) : Append(inbox[c], position)[i] = inbox[c][i]
    BY <1>4, <2>2, RangeAppend
  <2>4. /\ inbox' \in [Client -> Seq(1 .. position)]
        /\ \A d \in Client \ {c} : inbox'[d] = inbox[d]
        /\ socket[c] = "watching" => inbox'[c] = Append(inbox[c], position)
        /\ socket[c] # "watching" => inbox'[c] = inbox[c]
    <3>1. inbox \in [Client -> Seq(1 .. position)]
      BY <1>3, Zenon DEF TypeOK
    <3>2. CASE socket[c] = "watching"
      BY <2>1, <2>3, <3>1, <3>2, Zenon
    <3>3. CASE socket[c] # "watching"
      BY <2>1, <3>1, <3>3, Zenon
    <3> QED
      BY <3>2, <3>3, Zenon
  <2>5. \A d \in Client : handled[d] \in 0 .. Len(inbox'[d])
    <3>1. \A d \in Client : handled[d] \in 0 .. Len(inbox[d])
      BY <1>3, Zenon DEF TypeOK
    <3>2. handled[c] \in 0 .. Len(inbox'[c])
      BY <1>4, <2>3, <2>4, <3>1
    <3> QED
      BY <2>4, <3>1, <3>2, Zenon
  <2>6. TypeOK'
    BY <1>1, <1>2, <1>3, <2>1, <2>4, <2>5, Zenon DEF TypeOK
  <2>7. \A d \in Client : SocketInv(d)'
    BY <1>1, <1>3, <2>1, <2>2, <2>4, Zenon DEF SocketInv
  <2>8. ASSUME socket[c] = "watching"
        PROVE  /\ \A i \in 1 .. Len(inbox'[c]) - 1 : NextAfter(inbox'[c][i], inbox'[c][i + 1])
               /\ NextAfter(inbox'[c][Len(inbox'[c])], position + 1)
    <3>1. inbox[c] # <<>> => NextAfter(inbox[c][Len(inbox[c])], position)
      BY <1>3, <2>1, <2>8, Zenon DEF NoGap
    <3>2. /\ Len(inbox'[c]) = Len(inbox[c]) + 1 /\ inbox'[c][Len(inbox[c]) + 1] = position
          /\ \A i \in 1 .. Len(inbox[c]) : inbox'[c][i] = inbox[c][i]
      BY <2>3, <2>4, <2>8, Zenon
    <3>3. ASSUME NEW i \in 1 .. Len(inbox[c]) PROVE NextAfter(inbox'[c][i], inbox'[c][i + 1])
      <4>1. CASE i = Len(inbox[c])
        <5>1. inbox[c] # <<>>
          BY <1>4, <3>3
        <5> QED
          BY <3>1, <3>2, <4>1, <5>1, Zenon
      <4>2. CASE i # Len(inbox[c])
        <5>1. i \in 1 .. Len(inbox[c]) - 1 /\ i + 1 \in 1 .. Len(inbox[c])
          BY <1>4, <4>2
        <5>2. NextAfter(inbox[c][i], inbox[c][i + 1])
          BY <1>3, <2>8, <5>1, Zenon DEF NoGap
        <5> QED
          BY <3>2, <5>1, <5>2, Zenon
      <4> QED
        BY <4>1, <4>2, Zenon
    <3>4. NextAfter(position, position + 1)
      BY <1>4 DEF NextAfter
    <3>5. Len(inbox'[c]) - 1 = Len(inbox[c])
      BY <1>4, <3>2
    <3> QED
      BY <3>2, <3>3, <3>4, <3>5, Zenon
  <2>9. NoGap'
    <3>1. ASSUME NEW d \in Client, socket[d] = "watching"
          PROVE  /\ \A i \in 1 .. Len(inbox'[d]) - 1 : NextAfter(inbox'[d][i], inbox'[d][i + 1])
                 /\ inbox'[d] # <<>> =>
                      NextAfter(inbox'[d][Len(inbox'[d])], IF d \in sending' THEN position ELSE position + 1)
      <4>1. CASE d = c
        BY <2>1, <2>8, <3>1, <4>1, Zenon
      <4>2. CASE d # c
        BY <1>3, <2>1, <2>4, <3>1, <4>2, Zenon DEF NoGap
      <4> QED
        BY <4>1, <4>2, Zenon
    <3> QED
      BY <1>1, <2>1, <3>1, Zenon DEF NoGap, NextAfter
  <2> QED
    BY <1>1, <1>2, <1>3, <2>6, <2>7, <2>9, Zenon DEF PagesInv
<1>7. ASSUME NEW c \in Client, DropBroken(c) PROVE PagesInv'
  <2>1. /\ c \in broken /\ broken' = broken \ {c} /\ connections' = connections \ {c}
        /\ UNCHANGED <<position, missed, sending, inbox>>
    BY <1>7, Zenon DEF DropBroken, page
  <2>2. TypeOK'
    BY <1>1, <1>2, <1>3, <2>1, Zenon DEF TypeOK
  <2>3. NoGap' /\ \A d \in Client : SocketInv(d)'
    BY <1>1, <1>3, <2>1, Zenon DEF SocketInv, NoGap, NextAfter
  <2> QED
    BY <1>1, <1>2, <1>3, <2>2, <2>3, Zenon DEF PagesInv
<1> QED
  BY <1>5, <1>6, <1>7, Zenon DEF BroadcastStep

(* The listener takes up the channel where it ends now.                    *)
LEMMA ResubscribesFacts ==
  ASSUME EventsInv, PagesInv, Resubscribes, channel' = channel, inbox' = inbox
  PROVE  /\ position' = Len(channel) /\ position' \in 0 .. Len(channel')
         /\ missed' \subseteq 1 .. position' /\ inbox' \in [Client -> Seq(1 .. position')]
<1>1. Len(channel) \in Nat /\ position \in Nat /\ position <= Len(channel)
  BY PagesFacts
<1>2. position' = Len(channel) /\ missed' = missed \cup (position + 1 .. Len(channel))
  BY Zenon DEF Resubscribes
<1>3. missed \subseteq 1 .. position /\ inbox \in [Client -> Seq(1 .. position)]
  BY Zenon DEF PagesInv, TypeOK
<1>4. \A c \in Client : inbox[c] \in Seq(1 .. Len(channel))
  BY <1>1, PagesFacts, SeqWider, Zenon
<1>5. missed' \subseteq 1 .. position' /\ position' \in 0 .. Len(channel)
  <2>1. 1 .. position \subseteq 1 .. Len(channel) /\ position + 1 .. Len(channel) \subseteq 1 .. Len(channel)
    BY <1>1
  <2>2. Len(channel) \in 0 .. Len(channel)
    BY <1>1
  <2> QED
    BY <1>2, <1>3, <2>1, <2>2, Zenon
<1> QED
  BY <1>2, <1>3, <1>4, <1>5, Zenon

(* The API process forgets its sockets, and all of them end.               *)
LEMMA RestartPages ==
  ASSUME EventsInv, PagesInv, Restart
  PROVE  PagesInv'
<1>1. /\ UNCHANGED <<stagedAt, committed, staged, phase, channel, inbox, handled, query, response, view>>
      /\ faults' = faults + 1 /\ faults < MaxFaults /\ Resubscribes
      /\ sending' = {} /\ broken' = {} /\ connections' = {}
      /\ socket' = [c \in Client |-> IF socket[c] = "none" THEN "none" ELSE "ended"]
  BY Zenon DEF Restart
<1>2. TypeOK /\ handled \in [Client -> Nat] /\ \A c \in Client : SocketInv(c)
  BY Zenon DEF PagesInv
<1>3. TypeOKEvents'
  BY <1>1, KeepEvents, Zenon DEF EventsInv
<1>4. TypeOK'
  BY <1>1, <1>2, <1>3, ResubscribesFacts, Zenon DEF TypeOK
<1>5. NoGap' /\ \A c \in Client : SocketInv(c)'
  BY <1>1, <1>2, Zenon DEF SocketInv, NoGap
<1>6. \A c \in Client : Durable(response[c])' /\ Durable(view[c])'
  BY <1>1, KeepShown, Zenon
<1> QED
  BY <1>1, <1>2, <1>4, <1>5, <1>6, Zenon DEF PagesInv

(* Between two broadcasts a watching page has everything up to the         *)
(* listener's position; what the listener skips then is missed.            *)
LEMMA ConnectionLostPages ==
  ASSUME EventsInv, PagesInv, ConnectionLost
  PROVE  PagesInv'
<1>1. /\ UNCHANGED <<stagedAt, committed, staged, phase, channel, sending, broken, connections>>
      /\ UNCHANGED <<socket, inbox, handled, query, response, view>>
      /\ faults' = faults + 1 /\ faults < MaxFaults /\ Resubscribes /\ sending = {} /\ broken = {}
  BY Zenon DEF ConnectionLost, page
<1>2. TypeOK /\ NoGap /\ handled \in [Client -> Nat] /\ \A c \in Client : SocketInv(c)
  BY Zenon DEF PagesInv
<1>3. TypeOKEvents'
  BY <1>1, KeepEvents, Zenon DEF EventsInv
<1>4. TypeOK'
  BY <1>1, <1>2, <1>3, ResubscribesFacts, Zenon DEF TypeOK
<1>5. \A c \in Client : SocketInv(c)'
  BY <1>1, <1>2, Zenon DEF SocketInv
<1>6. NoGap'
  <2>1. position \in Nat /\ Len(channel) \in Nat /\ position <= Len(channel)
    BY PagesFacts
  <2>2. missed' = missed \cup (position + 1 .. Len(channel)) /\ position' = Len(channel)
    BY <1>1, Zenon DEF Resubscribes
  <2>3. missed \subseteq missed'
    BY <2>2, Zenon
  <2>4. ASSUME NEW i \in Nat, NextAfter(i, position + 1)
        PROVE  i < position' + 1 /\ i + 1 .. (position' + 1) - 1 \subseteq missed'
    <3>1. i < position + 1 /\ i + 1 .. position \subseteq missed
      BY <2>1, <2>4 DEF NextAfter
    <3>2. /\ i < Len(channel) + 1
          /\ i + 1 .. (Len(channel) + 1) - 1 \subseteq (i + 1 .. position) \cup (position + 1 .. Len(channel))
      BY <2>1, <3>1
    <3> QED
      BY <2>2, <3>1, <3>2, Zenon
  <2>5. \A c \in Client : inbox[c] # <<>> => inbox[c][Len(inbox[c])] \in Nat
    BY PagesFacts
  <2>6. ASSUME NEW c \in Client, socket'[c] = "watching"
        PROVE  /\ \A i \in 1 .. Len(inbox'[c]) - 1 :
                    inbox'[c][i] < inbox'[c][i + 1] /\ inbox'[c][i] + 1 .. inbox'[c][i + 1] - 1 \subseteq missed'
               /\ inbox'[c] # <<>> =>
                    /\ inbox'[c][Len(inbox'[c])] < position' + 1
                    /\ inbox'[c][Len(inbox'[c])] + 1 .. (position' + 1) - 1 \subseteq missed'
    <3>1. c \notin sending /\ inbox' = inbox /\ socket[c] = "watching"
      BY <1>1, <2>6, Zenon
    <3>2. ASSUME NEW i \in 1 .. Len(inbox[c]) - 1
          PROVE  inbox[c][i] < inbox[c][i + 1] /\ inbox[c][i] + 1 .. inbox[c][i + 1] - 1 \subseteq missed'
      BY <1>2, <2>3, <3>1, Zenon DEF NoGap, NextAfter
    <3>3. inbox[c] # <<>> => NextAfter(inbox[c][Len(inbox[c])], position + 1)
      BY <1>2, <3>1, Zenon DEF NoGap
    <3> QED
      BY <2>4, <2>5, <3>1, <3>2, <3>3, Zenon
  <2>7. ASSUME NEW c \in Client, socket'[c] = "watching", inbox'[c] # <<>>
        PROVE  NextAfter(inbox[c][Len(inbox[c])], IF c \in sending THEN position ELSE position + 1)'
    <3>1. c \notin sending'
      BY <1>1, Zenon
    <3>2. NextAfter(inbox[c][Len(inbox[c])], position + 1)'
      BY <2>6, <2>7, Zenon DEF NextAfter
    <3> QED
      BY <3>1, <3>2, Zenon
  <2>8. ASSUME NEW c \in Client, socket'[c] = "watching"
        PROVE  (\A i \in 1 .. Len(inbox[c]) - 1 : NextAfter(inbox[c][i], inbox[c][i + 1]))'
    BY <2>6, <2>8, Zenon DEF NextAfter
  <2> QED
    BY <2>7, <2>8, Zenon DEF NoGap
<1>7. \A c \in Client : Durable(response[c])' /\ Durable(view[c])'
  BY <1>1, KeepShown, Zenon
<1> QED
  BY <1>1, <1>2, <1>4, <1>5, <1>6, <1>7, Zenon DEF PagesInv


LEMMA NextInd == IndInv /\ [Next]_vars => IndInv'
<1> SUFFICES ASSUME EventsInv, PagesInv, [Next]_vars PROVE EventsInv' /\ PagesInv'
  BY Zenon DEF IndInv
<1>1. ASSUME NEW s \in Session, SessionStep(s), UNCHANGED <<server, page>>
      PROVE  EventsInv' /\ PagesInv'
  <2>1. EventsInv'
    BY <1>1, TransitionEvents, CommitEvents, TakenEvents, CloseEvents, Zenon DEF SessionStep
  <2> QED
    BY <1>1, <2>1, SessionPages, Zenon
<1>2. CASE BroadcastStep
  <2>1. UNCHANGED events
    BY <1>2, Zenon DEF BroadcastStep, Listen, Send, DropBroken
  <2> QED
    BY <1>2, <2>1, KeepEvents, BroadcastPages, Zenon DEF events
<1>3. CASE Restart \/ ConnectionLost
  BY <1>3, KeepEvents, RestartPages, ConnectionLostPages, Zenon DEF Restart, ConnectionLost
<1>4. ASSUME NEW c \in Client, OpenPage(c) \/ ClosePage(c) \/ ServerStep(c) \/ Delivery(c)
      PROVE  EventsInv' /\ PagesInv'
  <2>1. UNCHANGED events
    BY <1>4, Zenon DEF OpenPage, ClosePage, ServerStep, Accept, Connect, Disconnect, Delivery, OnMessage,
                QueryRead, QueryData
  <2>2. EventsInv'
    BY <2>1, KeepEvents, Zenon DEF events
  <2> QED
    BY <1>4, <2>2, ShownPages, SocketPages, Zenon DEF ServerStep, Delivery
<1>5. CASE UNCHANGED vars
  <2>1. /\ UNCHANGED <<stagedAt, committed, staged, phase, channel, faults>>
        /\ UNCHANGED <<position, missed, sending, broken, connections>>
        /\ UNCHANGED <<socket, inbox, handled, query, response, view>>
    BY <1>5, Zenon DEF vars, events, server, page
  <2>2. EventsInv'
    BY <2>1, KeepEvents, Zenon
  <2>3. \A c \in Client : Durable(response[c])' /\ Durable(view[c])'
    BY <2>1, KeepShown, Zenon
  <2>4. TypeOK' /\ NoGap' /\ \A c \in Client : SocketInv(c)'
    BY <2>1, <2>2, Zenon DEF PagesInv, EventsInv, TypeOK, NoGap, NextAfter, SocketInv
  <2> QED
    BY <2>1, <2>2, <2>3, <2>4, Zenon DEF PagesInv
<1> QED
  BY <1>1, <1>2, <1>3, <1>4, <1>5, Zenon DEF Next

-----------------------------------------------------------------------------
(* Types and strengthening hold in every reachable state.                  *)
THEOREM Inductive == Spec => []IndInv
<1>1. Init => IndInv
  BY InitEventsInv, InitPages, Zenon DEF Init, IndInv
<1> QED
  BY <1>1, NextInd, PTL DEF Spec

(* What a session publishes is in the order in which it was staged         *)
(* (broadcaster.py, flush_events), whatever fails and whoever publishes    *)
(* in between.                                                             *)
THEOREM SessionsInOrder == Spec => []SessionInOrder
<1>1. IndInv => SessionInOrder
  BY Zenon DEF IndInv, EventsInv
<1> QED
  BY <1>1, Inductive, PTL

(* Without a failed publish, a lost session or a restart, the channel      *)
(* lacks only the committed events that a session is about to publish.     *)
THEOREM NoEventForgotten == Spec => []NothingForgotten
<1>1. IndInv => NothingForgotten
  BY Zenon DEF IndInv, EventsInv
<1> QED
  BY <1>1, Inductive, PTL

(* A page shows committed versions only, and a message on the channel is   *)
(* the one message of a committed transition, because flush_events runs    *)
(* after the commit.                                                       *)
THEOREM ShownIsDurable == Spec => []OnlyDurableShown
<1>1. ASSUME EventsInv PROVE IsInjective(channel)
  <2>1. channel \in Seq(Event) /\ DOMAIN channel = 1 .. Len(channel) /\ SessionInOrder
    BY <1>1 DEF EventsInv, TypeOKEvents
  <2>2. ASSUME NEW i \in 1 .. Len(channel), NEW j \in 1 .. Len(channel), i < j
        PROVE  channel[i] # channel[j]
    <3>1. channel[i] \in Event /\ channel[j] \in Event
      BY <2>1
    <3>2. channel[i].version \in Nat /\ ~(channel[i].version < channel[i].version)
      BY <3>1 DEF Event
    <3> QED
      BY <2>1, <2>2, <3>2, Zenon DEF SessionInOrder
  <2>3. \A i, j \in 1 .. Len(channel) : i < j \/ j < i \/ i = j
    OBVIOUS
  <2> QED
    BY <2>1, <2>2, <2>3, Zenon DEF IsInjective
<1>2. ASSUME IndInv, NEW c \in Client, NEW n \in Node
      PROVE  view[c][n] = 0 \/ \E i \in 1 .. Len(committed) :
                                 committed[i].node = n /\ committed[i].version = view[c][n]
  <2>1. Durable(view[c]) /\ DOMAIN committed = 1 .. Len(committed)
    BY <1>2 DEF IndInv, PagesInv, EventsInv, TypeOKEvents
  <2> QED
    BY <2>1 DEF Durable, Range
<1>3. IndInv => OnlyDurableShown
  BY <1>1, <1>2, Zenon DEF IndInv, EventsInv, PagesInv, OnlyDurableShown, OnlyCommitted
<1> QED
  BY <1>3, Inductive, PTL

(* A page that watches is sent every message from its first one on that    *)
(* the listener has taken, once and in order, whatever sockets come, go or *)
(* break during a broadcast (connection_manager.py, broadcast).            *)
THEOREM NoMessageSkipped == Spec => []NoGap
<1>1. IndInv => NoGap
  BY Zenon DEF IndInv, PagesInv
<1> QED
  BY <1>1, Inductive, PTL

(* A socket whose endpoint has returned is not among the manager's         *)
(* connections (api/websocket.py, disconnect).                             *)
THEOREM EndedForgotten == Spec => []EndedIsForgotten
<1>1. IndInv => EndedIsForgotten
  BY Zenon DEF IndInv, PagesInv, SocketInv, EndedIsForgotten
<1> QED
  BY <1>1, Inductive, PTL

=============================================================================
