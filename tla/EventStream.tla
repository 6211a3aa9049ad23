----------------------------- MODULE EventStream -----------------------------
(***************************************************************************)
(* The events of one run as clients of GET /events/stream see them.  A     *)
(* request commits its events to the log and then sends them to a          *)
(* broadcast channel, two steps with nothing to hold them together: other  *)
(* requests commit and send in between, and the request or the server can  *)
(* end there.  A client subscribes, fetches the list of events, and reads  *)
(* the channel at its own pace; the channel keeps the last Capacity        *)
(* messages.                                                               *)
(*                                                                         *)
(* An event is its place in the log.  Abstracted: its content (TrustCore), *)
(* and with it that the messages of generated events carry neither that    *)
(* place nor their hashes.                                                 *)
(***************************************************************************)
EXTENDS Naturals, Sequences, FiniteSets, Functions

CONSTANTS
  Handlers,     \* requests that can be in flight at the same time
  Clients,      \* clients of the stream
  Capacity,     \* messages the channel keeps: 256
  MaxEvents,    \* bound: events of the log
  MaxFaults     \* bound: vanished requests, disconnections and restarts

ASSUME StreamAssumption ==
  /\ Capacity \in Nat \ {0}
  /\ MaxEvents \in Nat \ {0}
  /\ MaxFaults \in Nat

VARIABLES
  committed,  \* length of the log
  pending,    \* for each handler, the events it has committed and not yet sent
  open,       \* whether the run has a channel
  sent,       \* the messages sent to the channel, kept or not
  client,     \* for each client: its state, where in sent it began and is, what it
              \* received and how much of the log it listed
  lost,       \* history: events whose request ended before it sent them
  faults      \* faults so far

vars == <<committed, pending, open, sent, client, lost, faults>>

-----------------------------------------------------------------------------
Lagged == 0   \* the notice in place of messages that are gone
Away == [at |-> "away", start |-> 0, next |-> 0, got |-> <<>>, listed |-> 0]
Streaming(c) == client[c].at = "streaming"
Unread(c) == client[c].next <= Len(sent)

\* Mutant: a new receiver waits for the message after the next.
OpenLate(c) ==
  client' = [client EXCEPT ![c].at = "streaming",
                           ![c].start = Len(sent) + 2, ![c].next = Len(sent) + 2]

\* Sender::subscribe: a receiver of the messages to come.
Open(c) ==
  client' = [client EXCEPT ![c].at = "streaming",
                           ![c].start = Len(sent) + 1, ![c].next = Len(sent) + 1]

\* Append to the log: append_event and the freezes one event, submit_attestation the
\* submission and the confirmation in one transaction.
Commit(h, n) ==
  /\ pending[h] = <<>>
  /\ committed + n <= MaxEvents
  /\ committed' = committed + n
  /\ pending' = [pending EXCEPT ![h] = [i \in 1 .. n |-> committed + i]]
  /\ UNCHANGED <<open, sent, client, lost, faults>>

\* Mutant: one message for all events of a request.
BroadcastLast(h) ==
  /\ pending[h] # <<>>
  /\ pending' = [pending EXCEPT ![h] = <<>>]
  /\ sent' = IF open THEN Append(sent, pending[h][Len(pending[h])]) ELSE sent
  /\ UNCHANGED <<committed, open, client, lost, faults>>

\* EventBroadcaster::broadcast: without a channel the message is dropped.
Broadcast(h) ==
  /\ pending[h] # <<>>
  /\ pending' = [pending EXCEPT ![h] = Tail(@)]
  /\ sent' = IF open THEN Append(sent, Head(pending[h])) ELSE sent
  /\ UNCHANGED <<committed, open, client, lost, faults>>

\* The request is cancelled while it waits for the answer of its commit.
Vanish(h) ==
  /\ pending[h] # <<>>
  /\ faults < MaxFaults
  /\ faults' = faults + 1
  /\ lost' = lost \cup Range(pending[h])
  /\ pending' = [pending EXCEPT ![h] = <<>>]
  /\ UNCHANGED <<committed, open, sent, client>>

-----------------------------------------------------------------------------
\* EventBroadcaster::subscribe: under the read lock, if there is a channel.
Subscribe(c) ==
  /\ client[c].at \in {"away", "creating"}
  /\ open
  /\ Open(c)
  /\ UNCHANGED <<committed, pending, open, sent, lost, faults>>

\* There is none: the read lock is given up.
MissChannel(c) ==
  /\ client[c].at = "away"
  /\ ~open
  /\ client' = [client EXCEPT ![c].at = "creating"]
  /\ UNCHANGED <<committed, pending, open, sent, lost, faults>>

\* The channel is made under the write lock, unless another client was faster.
CreateChannel(c) ==
  /\ client[c].at = "creating"
  /\ ~open
  /\ open' = TRUE
  /\ Open(c)
  /\ UNCHANGED <<committed, pending, sent, lost, faults>>

\* Mutant: the list is fetched first, the stream is opened after it.
ListBefore(c) ==
  /\ client[c].at = "away"
  /\ client[c].listed = 0
  /\ client' = [client EXCEPT ![c].listed = committed]
  /\ UNCHANGED <<committed, pending, open, sent, lost, faults>>

\* list_events_for_run, by a client that has subscribed.
ListEvents(c) ==
  /\ Streaming(c)
  /\ client[c].listed = 0
  /\ client' = [client EXCEPT ![c].listed = committed]
  /\ UNCHANGED <<committed, pending, open, sent, lost, faults>>

\* The oldest message that is kept.
Oldest == IF Len(sent) > Capacity THEN Len(sent) - Capacity + 1 ELSE 1

\* Mutant: a client that lags goes on with what is kept, without a notice.
ReceiveKept(c) ==
  /\ Streaming(c) /\ Unread(c)
  /\ LET next == IF client[c].next < Oldest THEN Oldest ELSE client[c].next
     IN  client' = [client EXCEPT ![c].next = next + 1, ![c].got = Append(@, sent[next])]
  /\ UNCHANGED <<committed, pending, open, sent, lost, faults>>

\* The next message.
Receive(c) ==
  /\ Streaming(c) /\ Unread(c)
  /\ client[c].next >= Oldest
  /\ client' = [client EXCEPT ![c].next = @ + 1,
                              ![c].got = Append(@, sent[client[c].next])]
  /\ UNCHANGED <<committed, pending, open, sent, lost, faults>>

\* The next message is overwritten: a lagged notice, and on with the oldest.
Lag(c) ==
  /\ Streaming(c) /\ Unread(c)
  /\ client[c].next < Oldest
  /\ client' = [client EXCEPT ![c].next = Oldest, ![c].got = Append(@, Lagged)]
  /\ UNCHANGED <<committed, pending, open, sent, lost, faults>>

\* The client goes away; the channel stays.
Disconnect(c) ==
  /\ client[c].at # "away"
  /\ faults < MaxFaults
  /\ faults' = faults + 1
  /\ client' = [client EXCEPT ![c] = Away]
  /\ UNCHANGED <<committed, pending, open, sent, lost>>

\* The server restarts: channels, requests and connections are gone.
Restart ==
  /\ faults < MaxFaults
  /\ faults' = faults + 1
  /\ lost' = lost \cup UNION {Range(pending[h]) : h \in Handlers}
  /\ pending' = [h \in Handlers |-> <<>>]
  /\ open' = FALSE /\ sent' = <<>>
  /\ client' = [c \in Clients |-> Away]
  /\ UNCHANGED committed

-----------------------------------------------------------------------------
\* The run exists, with the event of its creation, which is not broadcast.
Init ==
  /\ committed = 1
  /\ pending = [h \in Handlers |-> <<>>]
  /\ open = FALSE /\ sent = <<>>
  /\ client = [c \in Clients |-> Away]
  /\ lost = {} /\ faults = 0

Next ==
  \/ \E h \in Handlers : Commit(h, 1) \/ Commit(h, 2) \/ Broadcast(h) \/ Vanish(h)
  \/ \E c \in Clients :
       \/ Subscribe(c) \/ MissChannel(c) \/ CreateChannel(c) \/ ListEvents(c)
       \/ Receive(c) \/ Lag(c) \/ Disconnect(c)
  \/ Restart

Spec == Init /\ [][Next]_vars

\* The runtime goes on with a request that has committed, and with a response
\* whose client takes what is sent.
Fairness ==
  /\ \A h \in Handlers : WF_vars(Broadcast(h))
  /\ \A c \in Clients : WF_vars(Receive(c) \/ Lag(c))

FairSpec == Spec /\ Fairness

-----------------------------------------------------------------------------
(* Correctness.                                                            *)

Events == 1 .. MaxEvents
Got(c) == Range(client[c].got)
Places(list) == {i \in DOMAIN list : list[i] # Lagged}   \* of messages
Pending == UNION {Range(pending[h]) : h \in Handlers}

\* Every variable has its type.
TypeOK ==
  /\ committed \in Events
  /\ \A h \in Handlers : pending[h] \in {<<>>} \cup [1 .. 1 -> Events] \cup [1 .. 2 -> Events]
  /\ open \in BOOLEAN
  /\ Range(sent) \subseteq Events
  /\ \A c \in Clients :
       /\ client[c].at \in {"away", "creating", "streaming"}
       /\ client[c].next \in client[c].start .. Len(sent) + 1
       /\ Got(c) \subseteq Events \cup {Lagged}
       /\ client[c].listed \in 0 .. committed
  /\ lost \subseteq Events
  /\ faults \in 0 .. MaxFaults

\* A client that subscribes, then lists, then reads all there is knows the whole
\* log, but for events whose request has still to send them or ended before it
\* could: without a lagged notice, nothing is missing silently, however commits,
\* messages, other clients and restarts fall between its steps.
ListAndStreamAreComplete ==
  \A c \in Clients :
    Streaming(c) /\ client[c].listed > 0 /\ ~Unread(c) /\ Lagged \notin Got(c)
      => 1 .. committed \subseteq 1 .. client[c].listed \cup Got(c) \cup Pending \cup lost

\* A notice is neither forgotten nor given for nothing: a client was told that it
\* lags if and only if it has received fewer messages than were sent since it
\* subscribed, up to its cursor; and no event comes twice.
GapsAreTold ==
  \A c \in Clients : Streaming(c) =>
    LET l == client[c]
    IN  /\ Lagged \in Got(c) <=> Cardinality(Places(l.got)) < l.next - l.start
        /\ \A i, j \in Places(l.got) : l.got[i] = l.got[j] => i = j

\* An event whose message is due while a client streams is received in the end,
\* or the client is told that it lags, unless the client goes away or the request
\* ends before it sends the message.
EventuallyTold ==
  \A c \in Clients, e \in Events :
    e \in Pending /\ Streaming(c)
      ~> e \in Got(c) \/ Lagged \in Got(c) \/ ~Streaming(c) \/ e \in lost

=============================================================================
