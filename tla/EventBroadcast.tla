---------------------------- MODULE EventBroadcast ----------------------------
(***************************************************************************)
(* How a status transition becomes a message on the eventflow:ws channel.  *)
(* A transition stages an event on its session; the session commits, and   *)
(* only then publishes what it has staged, one event at a time.            *)
(*                                                                         *)
(* An event is a node, the session that staged it and the moment it did,   *)
(* which is also the version of the node that the transition writes.       *)
(***************************************************************************)
EXTENDS Naturals, Sequences, FiniteSetsExt

CONSTANTS
  Session,     \* database sessions of requests, jobs and recovery loops
  Node,        \* node executions of one execution
  MaxEvents,   \* bound: transitions
  MaxFaults    \* bound: failed publishes, lost sessions, restarts

ASSUME BoundsAssumption == MaxEvents \in Nat /\ MaxFaults \in Nat

VARIABLES
  stagedAt,  \* number of transitions so far
  committed, \* the committed events, in the order of their commits
  staged,    \* session.info["ws_events"]
  phase,     \* is the session in a transaction or publishing?
  channel,   \* what was published
  faults

events == <<stagedAt, committed, staged, phase, channel, faults>>

Event == [node : Node, by : Session, version : 1 .. MaxEvents]

InitEvents ==
  /\ stagedAt = 0
  /\ committed = <<>>
  /\ staged = [s \in Session |-> <<>>]
  /\ phase = [s \in Session |-> "open"]
  /\ channel = <<>>
  /\ faults = 0

Mentions(q, n) == \E i \in 1 .. Len(q) : q[i].node = n

(* A transition flushes its UPDATE, which takes the row until the          *)
(* transaction ends, and stages the event.                                 *)
Transition(s, n) ==
  /\ phase[s] = "open"
  /\ stagedAt < MaxEvents
  /\ \A t \in Session \ {s} : phase[t] = "open" => ~Mentions(staged[t], n)
  /\ stagedAt' = stagedAt + 1
  /\ staged' = [staged EXCEPT ![s] = Append(@, [node |-> n, by |-> s, version |-> stagedAt + 1])]
  /\ UNCHANGED <<committed, phase, channel, faults>>

Commit(s) ==
  /\ phase[s] = "open" /\ staged[s] # <<>>
  /\ committed' = committed \o staged[s]
  /\ phase' = [phase EXCEPT ![s] = "flushing"]
  /\ UNCHANGED <<stagedAt, staged, channel, faults>>

(* Mutant: events are published as they are staged.                        *)
PublishInline(s) ==
  /\ staged[s] # <<>>
  /\ channel' = Append(channel, Head(staged[s]))
  /\ staged' = [staged EXCEPT ![s] = Tail(@)]
  /\ phase' = [phase EXCEPT ![s] = IF Len(staged[s]) = 1 THEN "open" ELSE @]
  /\ UNCHANGED <<stagedAt, committed, faults>>

(* Mutant: the list is emptied from its end.                               *)
PublishLast(s) ==
  /\ phase[s] = "flushing"
  /\ channel' = Append(channel, staged[s][Len(staged[s])])
  /\ staged' = [staged EXCEPT ![s] = SubSeq(@, 1, Len(@) - 1)]
  /\ phase' = [phase EXCEPT ![s] = IF Len(staged[s]) = 1 THEN "open" ELSE @]
  /\ UNCHANGED <<stagedAt, committed, faults>>

(* Mutant: the rest of the list is dropped after the first event.          *)
PublishFirstOnly(s) ==
  /\ phase[s] = "flushing"
  /\ channel' = Append(channel, Head(staged[s]))
  /\ staged' = [staged EXCEPT ![s] = <<>>]
  /\ phase' = [phase EXCEPT ![s] = "open"]
  /\ UNCHANGED <<stagedAt, committed, faults>>

(* flush_events publishes the next event of the session.                   *)
Publish(s) ==
  /\ phase[s] = "flushing"
  /\ channel' = Append(channel, Head(staged[s]))
  /\ staged' = [staged EXCEPT ![s] = Tail(@)]
  /\ phase' = [phase EXCEPT ![s] = IF Len(staged[s]) = 1 THEN "open" ELSE @]
  /\ UNCHANGED <<stagedAt, committed, faults>>

(* _safe_broadcast logs the exception and the next event is tried.         *)
PublishFails(s) ==
  /\ phase[s] = "flushing" /\ faults < MaxFaults
  /\ staged' = [staged EXCEPT ![s] = Tail(@)]
  /\ phase' = [phase EXCEPT ![s] = IF Len(staged[s]) = 1 THEN "open" ELSE @]
  /\ faults' = faults + 1
  /\ UNCHANGED <<stagedAt, committed, channel>>

(* The request or job raises or dies; an open transaction is rolled back,  *)
(* and the staged events go with the session.                              *)
Close(s) ==
  /\ staged[s] # <<>> /\ faults < MaxFaults
  /\ staged' = [staged EXCEPT ![s] = <<>>]
  /\ phase' = [phase EXCEPT ![s] = "open"]
  /\ faults' = faults + 1
  /\ UNCHANGED <<stagedAt, committed, channel>>

SessionStep(s) ==
  \/ \E n \in Node : Transition(s, n)
  \/ Commit(s)
  \/ Publish(s)
  \/ PublishFails(s)
  \/ Close(s)

SpecEvents == InitEvents /\ [][\E s \in Session : SessionStep(s)]_events

-----------------------------------------------------------------------------
(* Properties.                                                             *)

TypeOKEvents ==
  /\ stagedAt \in 0 .. MaxEvents
  /\ committed \in Seq(Event)
  /\ staged \in [Session -> Seq(Event)]
  /\ phase \in [Session -> {"open", "flushing"}]
  /\ channel \in Seq(Event)
  /\ faults \in 0 .. MaxFaults

(* Whatever raises or rolls back, an event on the channel is one of a      *)
(* committed transition, and is there once (broadcaster.py:27).            *)
OnlyCommitted ==
  /\ Range(channel) \subseteq Range(committed)
  /\ IsInjective(channel)

(* The version of n in the database.                                       *)
Current(n) ==
  LET ofNode == {i \in 1 .. Len(committed) : committed[i].node = n}
  IN IF ofNode = {} THEN 0 ELSE committed[Max(ofNode)].version

(* As long as no publish fails and no session is lost, the events still to *)
(* be published are exactly the committed ones that the channel lacks: the *)
(* channel never stays behind the database.                                *)
NothingForgotten ==
  faults = 0 =>
    Range(committed) = Range(channel)
      \cup UNION {Range(staged[s]) : s \in {t \in Session : phase[t] = "flushing"}}

(* What one session publishes keeps the order in which it was staged.      *)
SessionInOrder ==
  \A i, j \in 1 .. Len(channel) :
    i < j /\ channel[i].by = channel[j].by => channel[i].version < channel[j].version

=============================================================================
