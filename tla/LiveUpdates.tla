----------------------------- MODULE LiveUpdates -----------------------------
(***************************************************************************)
(* From the channel to the pages that watch an execution: the listener and *)
(* the connection manager of the API process, the WebSocket endpoint, and  *)
(* the execution page with its REST query and its socket.                  *)
(***************************************************************************)
EXTENDS EventBroadcast

CONSTANT Client  \* pages that show the execution, each opened once

VARIABLES
  position,    \* the last message of the channel that the listener has taken
  missed,      \* messages published while the listener was not subscribed
  sending,     \* sockets the current message has still to be sent to
  broken,      \* sockets whose send has failed
  connections, \* the connection manager's sockets
  socket,      \* the state of the WebSocket of each page
  inbox,       \* positions of the messages sent to a page
  handled,     \* how many of them onmessage has handled
  query,       \* the state of the page's REST query
  response,    \* the database as the query has read it
  view         \* the node versions the page shows

server == <<position, missed, sending, broken, connections>>
page == <<socket, inbox, handled, query, response, view>>
vars == <<events, server, page>>

Nothing == [n \in Node |-> 0]
Database == [n \in Node |-> Current(n)]

Init ==
  /\ InitEvents
  /\ position = 0
  /\ missed = {}
  /\ sending = {}
  /\ broken = {}
  /\ connections = {}
  /\ socket = [c \in Client |-> "none"]
  /\ inbox = [c \in Client |-> <<>>]
  /\ handled = [c \in Client |-> 0]
  /\ query = [c \in Client |-> "none"]
  /\ response = [c \in Client |-> Nothing]
  /\ view = [c \in Client |-> Nothing]

-----------------------------------------------------------------------------
(* The page: useQuery and useExecutionWebSocket.                           *)

OpenPage(c) ==
  /\ socket[c] = "none"
  /\ socket' = [socket EXCEPT ![c] = "connecting"]
  /\ query' = [query EXCEPT ![c] = "asked"]
  /\ UNCHANGED <<events, server, inbox, handled, response, view>>

(* GET /executions/{id} reads the database ...                             *)
QueryRead(c) ==
  /\ query[c] = "asked"
  /\ response' = [response EXCEPT ![c] = Database]
  /\ query' = [query EXCEPT ![c] = "answered"]
  /\ UNCHANGED <<events, server, socket, inbox, handled, view>>

(* ... and its answer becomes the query's data.                            *)
QueryData(c) ==
  /\ query[c] = "answered"
  /\ view' = [view EXCEPT ![c] = response[c]]
  /\ query' = [query EXCEPT ![c] = "loaded"]
  /\ UNCHANGED <<events, server, socket, inbox, handled, response>>

(* onmessage changes the query's data, if there are any.                   *)
OnMessage(c) ==
  LET e == channel[inbox[c][handled[c] + 1]] IN
  /\ socket[c] \in {"accepted", "watching"} /\ handled[c] < Len(inbox[c])
  /\ handled' = [handled EXCEPT ![c] = @ + 1]
  /\ view' = IF query[c] = "loaded" THEN [view EXCEPT ![c][e.node] = e.version] ELSE view
  /\ UNCHANGED <<events, server, socket, inbox, query, response>>

ClosePage(c) ==
  /\ socket[c] \in {"connecting", "accepted", "watching"}
  /\ socket' = [socket EXCEPT ![c] = IF @ = "connecting" THEN "ended"
                                     ELSE IF @ = "accepted" THEN "left early" ELSE "left"]
  /\ UNCHANGED <<events, server, inbox, handled, query, response, view>>

-----------------------------------------------------------------------------
(* The endpoint (api/websocket.py).                                        *)

Accept(c) ==
  /\ socket[c] = "connecting"
  /\ socket' = [socket EXCEPT ![c] = "accepted"]
  /\ UNCHANGED <<events, server, inbox, handled, query, response, view>>

(* manager.connect, although the page may have left by now.                *)
Connect(c) ==
  /\ socket[c] \in {"accepted", "left early"}
  /\ connections' = connections \cup {c}
  /\ socket' = [socket EXCEPT ![c] = IF @ = "accepted" THEN "watching" ELSE "left"]
  /\ UNCHANGED <<events, position, missed, sending, broken, inbox, handled, query, response, view>>

(* Mutant: the socket is left to the next failing broadcast.               *)
DisconnectLazily(c) ==
  /\ socket[c] = "left"
  /\ socket' = [socket EXCEPT ![c] = "ended"]
  /\ UNCHANGED <<events, server, inbox, handled, query, response, view>>

(* receive_text raises, and the endpoint disconnects the socket.           *)
Disconnect(c) ==
  /\ socket[c] = "left"
  /\ connections' = connections \ {c}
  /\ socket' = [socket EXCEPT ![c] = "ended"]
  /\ UNCHANGED <<events, position, missed, sending, broken, inbox, handled, query, response, view>>

-----------------------------------------------------------------------------
(* The listener (main.py) and ConnectionManager.broadcast.                 *)

(* The next message: the sockets are copied under the lock.                *)
Listen ==
  /\ position < Len(channel)
  /\ sending = {} /\ broken = {}
  /\ position' = position + 1
  /\ sending' = connections
  /\ UNCHANGED <<events, missed, broken, connections, page>>

(* The listener subscribes again; what was published in between is gone.   *)
Resubscribes ==
  /\ missed' = missed \cup (position + 1 .. Len(channel))
  /\ position' = Len(channel)

(* Its own connection to Redis fails while it waits for a message, and the *)
(* client library connects and subscribes again.  If it does not, listen() *)
(* raises and the task ends: Listen is not taken any more.                 *)
ConnectionLost ==
  /\ faults < MaxFaults
  /\ faults' = faults + 1
  /\ sending = {} /\ broken = {}
  /\ Resubscribes
  /\ UNCHANGED <<stagedAt, committed, staged, phase, channel, sending, broken, connections, page>>

(* Mutant: a failing send ends the broadcast.                              *)
SendOrGiveUp(c) ==
  /\ c \in sending
  /\ IF socket[c] = "watching"
     THEN /\ inbox' = [inbox EXCEPT ![c] = Append(@, position)]
          /\ sending' = sending \ {c}
          /\ UNCHANGED broken
     ELSE /\ broken' = broken \cup {c}
          /\ sending' = {}
          /\ UNCHANGED inbox
  /\ UNCHANGED <<events, position, missed, connections, socket, handled, query, response, view>>

(* send_json to one socket; an exception is noted and the loop goes on.    *)
Send(c) ==
  /\ c \in sending
  /\ sending' = sending \ {c}
  /\ IF socket[c] = "watching"
     THEN inbox' = [inbox EXCEPT ![c] = Append(@, position)] /\ UNCHANGED broken
     ELSE broken' = broken \cup {c} /\ UNCHANGED inbox
  /\ UNCHANGED <<events, position, missed, connections, socket, handled, query, response, view>>

(* The broken sockets are disconnected when all have been tried.           *)
DropBroken(c) ==
  /\ sending = {} /\ c \in broken
  /\ broken' = broken \ {c}
  /\ connections' = connections \ {c}
  /\ UNCHANGED <<events, position, missed, sending, page>>

(* The API process restarts: its sockets are closed.                       *)
Restart ==
  /\ faults < MaxFaults
  /\ faults' = faults + 1
  /\ Resubscribes
  /\ sending' = {} /\ broken' = {} /\ connections' = {}
  /\ socket' = [c \in Client |-> IF socket[c] = "none" THEN "none" ELSE "ended"]
  /\ UNCHANGED <<stagedAt, committed, staged, phase, channel, inbox, handled, query, response, view>>

BroadcastStep == Listen \/ \E c \in Client : Send(c) \/ DropBroken(c)

ServerStep(c) == Accept(c) \/ Connect(c) \/ Disconnect(c)

Delivery(c) == OnMessage(c) \/ QueryRead(c) \/ QueryData(c)

Next ==
  \/ \E s \in Session : SessionStep(s) /\ UNCHANGED <<server, page>>
  \/ BroadcastStep
  \/ Restart \/ ConnectionLost
  \/ \E c \in Client : OpenPage(c) \/ ClosePage(c) \/ ServerStep(c) \/ Delivery(c)

Spec == Init /\ [][Next]_vars

-----------------------------------------------------------------------------
(* Properties.                                                             *)

TypeOK ==
  /\ TypeOKEvents
  /\ position \in 0 .. Len(channel)
  /\ missed \subseteq 1 .. position
  /\ sending \subseteq Client
  /\ broken \subseteq Client
  /\ connections \subseteq Client
  /\ socket \in [Client -> {"none", "connecting", "accepted", "watching",
                            "left early", "left", "ended"}]
  /\ inbox \in [Client -> Seq(1 .. position)]
  /\ \A c \in Client : handled[c] \in 0 .. Len(inbox[c])
  /\ query \in [Client -> {"none", "asked", "answered", "loaded"}]
  /\ response \in [Client -> [Node -> 0 .. MaxEvents]]
  /\ view \in [Client -> [Node -> 0 .. MaxEvents]]

(* A page never shows a version of a node that is not committed, and every *)
(* message of the channel is the only one of a committed transition:       *)
(* events are published after the commit (broadcaster.py:7).  The sockets, *)
(* queries and views have their types.                                     *)
OnlyDurableShown ==
  /\ TypeOK
  /\ OnlyCommitted
  /\ \A c \in Client, n \in Node :
       view[c][n] = 0 \/ \E i \in 1 .. Len(committed) :
                            committed[i].node = n /\ committed[i].version = view[c][n]

(* While it watches, a page is sent every message from its first one on    *)
(* that the listener has taken, once and in order, whatever sockets come,  *)
(* go or break beside it: it lacks those only that were published while    *)
(* the listener was not subscribed.                                        *)
NextAfter(i, j) == i < j /\ i + 1 .. j - 1 \subseteq missed

NoGap ==
  \A c \in Client : socket[c] = "watching" =>
    /\ \A i \in 1 .. Len(inbox[c]) - 1 : NextAfter(inbox[c][i], inbox[c][i + 1])
    /\ inbox[c] # <<>> =>
         NextAfter(inbox[c][Len(inbox[c])], IF c \in sending THEN position ELSE position + 1)

(* When the endpoint of a page has returned, the manager has forgotten its *)
(* socket: also one that left between accept and connect, or while a       *)
(* broadcast was trying it, and although nothing may be sent any more.     *)
EndedIsForgotten == \A c \in Client : socket[c] = "ended" => c \notin connections

=============================================================================
