------------------------- MODULE EventStream_proofs --------------------------
(***************************************************************************)
(* Proofs about EventStream, for any number of requests and clients, any   *)
(* capacity of the channel and any number of events and faults.            *)
(***************************************************************************)
EXTENDS EventStream, FiniteSetTheorems, TLAPS

-----------------------------------------------------------------------------
(* The inductive invariant.                                                *)

Batch == {s \in Seq(Events) : Len(s) <= 2}
Client == [at: {"away", "creating", "streaming"}, start: Nat, next: Nat,
           got: Seq(Nat), listed: Nat]

TypeInv ==
  /\ committed \in Events
  /\ pending \in [Handlers -> Batch]
  /\ open \in BOOLEAN
  /\ sent \in Seq(Events)
  /\ client \in [Clients -> Client]
  /\ lost \subseteq Events
  /\ faults \in 0 .. MaxFaults

Distinct(list) == \A i, j \in DOMAIN list : list[i] = list[j] => i = j
Apart(one, other) == \A i \in DOMAIN one, j \in DOMAIN other : one[i] # other[j]
UpTo(list, n) == \A i \in DOMAIN list : list[i] <= n

\* An event of the log is to be sent once: it is pending at one place at most, and
\* not once it is sent.
OnceInv ==
  /\ Distinct(sent) /\ UpTo(sent, committed)
  /\ \A h \in Handlers : /\ Distinct(pending[h]) /\ UpTo(pending[h], committed)
                         /\ Apart(sent, pending[h])
  /\ \A g, h \in Handlers : g # h => Apart(pending[g], pending[h])

\* What a client received are the messages between its start and its cursor, each
\* once, and all of them if it has no notice; their number says whether it has one.
Reading(l) ==
  /\ 1 <= l.start /\ l.start <= l.next /\ l.next <= Len(sent) + 1
  /\ \A j \in DOMAIN l.got :
       l.got[j] # Lagged => \E i \in l.start .. l.next - 1 : sent[i] = l.got[j]
  /\ Lagged \notin Range(l.got) =>
       \A i \in l.start .. l.next - 1 : sent[i] \in Range(l.got)
  /\ \A i, j \in Places(l.got) : l.got[i] = l.got[j] => i = j
  /\ IF Lagged \in Range(l.got)
     THEN Cardinality(Places(l.got)) < l.next - l.start
     ELSE Cardinality(Places(l.got)) = l.next - l.start

\* Where an event committed since the client subscribed is.
Underway(e, start) ==
  \/ e \in Pending
  \/ e \in lost
  \/ \E i \in start .. Len(sent) : sent[i] = e

Covered(l) ==
  l.listed > 0 => \A e \in l.listed + 1 .. committed : Underway(e, l.start)

ClientInv(l) ==
  IF l.at = "streaming"
  THEN open /\ l.listed <= committed /\ Reading(l) /\ Covered(l)
  ELSE l.start = 0 /\ l.next = 0 /\ l.got = <<>> /\ l.listed = 0

IInv == TypeInv /\ OnceInv /\ \A c \in Clients : ClientInv(client[c])

-----------------------------------------------------------------------------
(* Sequences.                                                              *)

\* What a sequence holds.
LEMMA SequenceType ==
  ASSUME NEW S, NEW s \in Seq(S)
  PROVE  /\ Len(s) \in Nat
         /\ DOMAIN s = 1 .. Len(s)
         /\ \A i \in 1 .. Len(s) : s[i] \in S
         /\ Range(s) = {s[i] : i \in 1 .. Len(s)}
         /\ Range(s) \subseteq S
BY DEF Range

\* A sequence with one more element.
LEMMA AppendType ==
  ASSUME NEW S, NEW s \in Seq(S), NEW e \in S
  PROVE  /\ Append(s, e) \in Seq(S)
         /\ Len(Append(s, e)) = Len(s) + 1
         /\ DOMAIN Append(s, e) = 1 .. Len(s) + 1
         /\ \A i \in 1 .. Len(s) : Append(s, e)[i] = s[i]
         /\ Append(s, e)[Len(s) + 1] = e
         /\ \A i \in 1 .. Len(s) + 1 : i \in 1 .. Len(s) \/ i = Len(s) + 1
OBVIOUS

\* The elements of a sequence with one more.
LEMMA AppendRange ==
  ASSUME NEW S, NEW s \in Seq(S), NEW e \in S
  PROVE  Range(Append(s, e)) = Range(s) \cup {e}
<1>. DEFINE t == Append(s, e)
            n == Len(s)
<1>1. /\ n \in Nat
      /\ DOMAIN s = 1 .. n
      /\ DOMAIN t = 1 .. n + 1
      /\ \A i \in 1 .. n : t[i] = s[i]
      /\ t[n + 1] = e
      /\ \A i \in 1 .. n + 1 : i \in 1 .. n \/ i = n + 1
      /\ n + 1 \in 1 .. n + 1
      /\ \A i \in 1 .. n : i \in 1 .. n + 1
  BY AppendType, SequenceType
<1>. HIDE DEF t, n
<1>. QED  BY <1>1 DEF Range, t

\* A sequence without its first element.
LEMMA TailType ==
  ASSUME NEW S, NEW s \in Seq(S), s # <<>>
  PROVE  /\ Tail(s) \in Seq(S)
         /\ Len(s) >= 1
         /\ Len(Tail(s)) = Len(s) - 1
         /\ \A i \in 1 .. Len(s) - 1 : Tail(s)[i] = s[i + 1]
         /\ Head(s) = s[1]
         /\ Head(s) \in S
OBVIOUS

\* The places of messages are finitely many, one more with each message and none
\* with a notice.
LEMMA PlacesAppend ==
  ASSUME NEW s \in Seq(Nat), NEW e \in Nat
  PROVE  /\ Cardinality(Places(s)) \in Nat
         /\ Cardinality(Places(Append(s, e))) =
              IF e = Lagged THEN Cardinality(Places(s)) ELSE Cardinality(Places(s)) + 1
<1>. DEFINE t == Append(s, e)
            n == Len(s)
<1>1. /\ n \in Nat
      /\ DOMAIN s = 1 .. n
      /\ DOMAIN t = 1 .. n + 1
      /\ \A i \in 1 .. n : t[i] = s[i]
      /\ t[n + 1] = e
      /\ \A i \in 1 .. n + 1 : i \in 1 .. n \/ i = n + 1
      /\ n + 1 \in 1 .. n + 1
      /\ \A i \in 1 .. n : i \in 1 .. n + 1
      /\ n + 1 \notin 1 .. n
  BY AppendType, SequenceType
<1>2. IsFiniteSet(1 .. n)
  BY <1>1, FS_Interval
<1>. HIDE DEF t, n
<1>3. IsFiniteSet(Places(s))
  BY <1>1, <1>2, FS_Subset DEF Places
<1>4. Cardinality(Places(s)) \in Nat
  BY <1>3, FS_CardinalityType
<1>5. CASE e = Lagged
  <2>1. Places(t) = Places(s)
    BY <1>1, <1>5 DEF Places
  <2>. QED  BY <1>4, <1>5, <2>1 DEF t
<1>6. CASE e # Lagged
  <2>1. Places(t) = Places(s) \cup {n + 1}
    BY <1>1, <1>6 DEF Places
  <2>2. n + 1 \notin Places(s)
    BY <1>1 DEF Places
  <2>3. Cardinality(Places(t)) = Cardinality(Places(s)) + 1
    BY <1>3, <2>1, <2>2, FS_AddElement
  <2>. QED  BY <1>4, <1>6, <2>3 DEF t
<1>. QED  BY <1>5, <1>6

-----------------------------------------------------------------------------
(* What a step leaves to the clients that do not move.                     *)

SentGrows ==
  /\ Len(sent) <= Len(sent')
  /\ \A i \in 1 .. Len(sent) : sent'[i] = sent[i]

\* An event that is under way stays so, and a new one is.
EventsKept ==
  \A e \in Nat, start \in 1 .. Len(sent) + 1 :
    Underway(e, start) \/ e \in committed + 1 .. committed' => Underway(e, start)'

\* The types of the channel, the log and what is pending.
LEMMA Types ==
  ASSUME TypeInv
  PROVE  /\ committed \in Nat /\ committed >= 1 /\ committed <= MaxEvents
         /\ Len(sent) \in Nat
         /\ DOMAIN sent = 1 .. Len(sent)
         /\ \A i \in 1 .. Len(sent) : sent[i] \in Nat \ {Lagged}
         /\ \A h \in Handlers : /\ pending[h] \in Seq(Events)
                                /\ Len(pending[h]) \in Nat
                                /\ Len(pending[h]) <= 2
                                /\ DOMAIN pending[h] = 1 .. Len(pending[h])
BY StreamAssumption DEF TypeInv, Events, Batch, Lagged

\* Pending events are numbers.
LEMMA PendingType ==
  ASSUME TypeInv, NEW h \in Handlers
  PROVE  \A i \in DOMAIN pending[h] : pending[h][i] \in Nat \ {Lagged}
<1>1. PICK batch \in Seq(Events) : batch = pending[h]
  BY DEF TypeInv, Batch
<1>2. \A i \in DOMAIN batch : batch[i] \in Events
  BY SequenceType
<1>. QED  BY <1>1, <1>2 DEF Events, Lagged

\* What is pending is so somewhere.
LEMMA PendingAt ==
  ASSUME NEW e
  PROVE  e \in Pending <=> \E h \in Handlers : \E i \in DOMAIN pending[h] : pending[h][i] = e
BY DEF Pending, Range

\* A client that does not move keeps what it has, when the channel is only added to
\* and no event gets out of the way.
LEMMA ClientKeeps ==
  ASSUME TypeInv, TypeInv', NEW l \in Client, ClientInv(l), SentGrows, open => open',
         committed <= committed', open => EventsKept
  PROVE  ClientInv(l)'
<1>1. CASE l.at # "streaming"
  BY <1>1 DEF ClientInv
<1>2. CASE l.at = "streaming"
  <2>1. open /\ l.listed <= committed /\ Reading(l) /\ Covered(l)
    BY <1>2 DEF ClientInv
  <2>2. /\ l.start \in Nat /\ l.next \in Nat /\ l.listed \in Nat
        /\ 1 <= l.start /\ l.start <= l.next /\ l.next <= Len(sent) + 1
    BY <2>1 DEF Client, Reading
  <2>3. /\ committed \in Nat /\ committed' \in Nat
        /\ Len(sent) \in Nat /\ Len(sent') \in Nat
    BY Types DEF TypeInv, Events
  <2>4. \A i \in l.start .. l.next - 1 : sent'[i] = sent[i]
    BY <2>2, <2>3 DEF SentGrows
  <2>5. l.next <= Len(sent') + 1
    BY <2>2, <2>3 DEF SentGrows
  <2>6. Reading(l)'
    BY <2>1, <2>2, <2>4, <2>5 DEF Reading
  <2>7. Covered(l)'
    <3>1. SUFFICES ASSUME l.listed > 0, NEW e \in l.listed + 1 .. committed'
                   PROVE  Underway(e, l.start)'
      BY DEF Covered
    <3>2. e \in Nat /\ l.start \in 1 .. Len(sent) + 1
      BY <2>2, <2>3
    <3>3. e \in l.listed + 1 .. committed \/ e \in committed + 1 .. committed'
      BY <2>2, <2>3
    <3>4. Underway(e, l.start) \/ e \in committed + 1 .. committed'
      BY <2>1, <3>1, <3>3 DEF Covered
    <3>. QED  BY <2>1, <3>2, <3>4 DEF EventsKept
  <2>8. open' /\ l.listed <= committed'
    BY <2>1, <2>2, <2>3
  <2>. QED  BY <1>2, <2>6, <2>7, <2>8 DEF ClientInv
<1>. QED  BY <1>1, <1>2

\* So a step that moves no client keeps the invariant.
LEMMA ServerStep ==
  ASSUME IInv, TypeInv', OnceInv', SentGrows, open => open', committed <= committed',
         open => EventsKept, client' = client
  PROVE  IInv'
<1>1. ASSUME NEW c \in Clients
      PROVE  ClientInv(client[c])'
  <2>1. PICK l \in Client : l = client[c]
    BY DEF IInv, TypeInv
  <2>2. ClientInv(l)
    BY <2>1 DEF IInv
  <2>3. ClientInv(l)'
    BY <2>2, ClientKeeps DEF IInv
  <2>4. client'[c] = l
    BY <2>1
  <2>. QED  BY <2>3, <2>4 DEF ClientInv, Reading, Covered
<1>. QED  BY <1>1 DEF IInv

\* A step of a client that reads leaves all else alone.
LEMMA ClientStep ==
  ASSUME IInv, UNCHANGED <<committed, pending, sent, lost>>, open' \in BOOLEAN,
         open => open', faults' \in 0 .. MaxFaults,
         NEW c \in Clients, NEW l \in Client, client' = [client EXCEPT ![c] = l],
         ClientInv(l)'
  PROVE  IInv'
<1>1. TypeInv'
  BY DEF IInv, TypeInv
<1>2. OnceInv'
  BY DEF IInv, OnceInv
<1>3. SentGrows
  BY Types DEF IInv, SentGrows
<1>4. committed <= committed'
  BY Types DEF IInv
<1>5. EventsKept
  BY Types DEF IInv, EventsKept, Underway, Pending
<1>6. ASSUME NEW d \in Clients
      PROVE  ClientInv(client[d])'
  <2>1. CASE d = c
    <3>1. client'[d] = l
      BY <2>1 DEF IInv, TypeInv
    <3>. QED  BY <3>1 DEF ClientInv, Reading, Covered
  <2>2. CASE d # c
    <3>1. PICK k \in Client : k = client[d]
      BY DEF IInv, TypeInv
    <3>2. ClientInv(k)
      BY <3>1 DEF IInv
    <3>3. ClientInv(k)'
      BY <1>1, <1>3, <1>4, <1>5, <3>2, ClientKeeps DEF IInv
    <3>4. client'[d] = k
      BY <2>2, <3>1
    <3>. QED  BY <3>3, <3>4 DEF ClientInv, Reading, Covered
  <2>. QED  BY <2>1, <2>2
<1>. QED  BY <1>1, <1>2, <1>6 DEF IInv

-----------------------------------------------------------------------------
(* Requests.                                                               *)

\* When one request's events become fewer, none comes out of nothing.
LEMMA OthersApart ==
  ASSUME TypeInv, OnceInv, NEW h \in Handlers, NEW batch \in Batch,
         committed <= committed', committed' \in Nat,
         pending' = [pending EXCEPT ![h] = batch],
         Distinct(batch), UpTo(batch, committed'),
         Distinct(sent'), UpTo(sent', committed'), Apart(sent', batch),
         \A g \in Handlers \ {h} : Apart(sent', pending[g]) /\ Apart(pending[g], batch)
  PROVE  OnceInv'
<1>1. /\ pending'[h] = batch
      /\ \A g \in Handlers \ {h} : pending'[g] = pending[g]
  BY DEF TypeInv
<1>2. \A g \in Handlers \ {h} : UpTo(pending[g], committed')
  <2>1. SUFFICES ASSUME NEW g \in Handlers \ {h}, NEW i \in DOMAIN pending[g]
                 PROVE  pending[g][i] <= committed'
    BY DEF UpTo
  <2>2. pending[g][i] <= committed
    BY DEF OnceInv, UpTo
  <2>3. pending[g][i] \in Nat /\ committed \in Nat
    BY PendingType, Types
  <2>. QED  BY <2>2, <2>3
<1>3. \A g \in Handlers \ {h} : Apart(batch, pending[g])
  BY DEF Apart
<1>. QED  BY <1>1, <1>2, <1>3 DEF OnceInv

\* The events of a commit are new.
LEMMA CommitStep ==
  ASSUME IInv, NEW h \in Handlers, NEW n \in 1 .. 2, Commit(h, n)
  PROVE  IInv'
<1>. PICK old \in Nat : old = committed
  BY Types DEF IInv
<1>. DEFINE batch == [i \in 1 .. n |-> old + i]
<1>1. /\ pending[h] = <<>>
      /\ old + n <= MaxEvents
      /\ committed' = old + n
      /\ pending' = [pending EXCEPT ![h] = batch]
      /\ UNCHANGED <<open, sent, client, lost, faults>>
  BY DEF Commit
<1>2. batch \in Batch /\ DOMAIN batch = 1 .. n /\ \A i \in 1 .. n : batch[i] = old + i
  <2>1. \A i \in 1 .. n : old + i \in Events
    BY <1>1, StreamAssumption DEF Events
  <2>2. batch \in [1 .. n -> Events]
    BY <2>1
  <2>3. batch \in Seq(Events) /\ Len(batch) = n
    BY <2>2
  <2>. QED  BY <2>3 DEF Batch
<1>. HIDE DEF batch
<1>3. TypeInv'
  BY <1>1, <1>2, StreamAssumption DEF IInv, TypeInv, Events
<1>4. OnceInv'
  <2>1. Distinct(batch) /\ UpTo(batch, committed')
    BY <1>1, <1>2 DEF Distinct, UpTo
  <2>2. Distinct(sent') /\ UpTo(sent', committed')
    BY <1>1, Types DEF IInv, OnceInv, UpTo
  <2>3. Apart(sent', batch)
    BY <1>1, <1>2, Types DEF IInv, OnceInv, UpTo, Apart
  <2>4. ASSUME NEW g \in Handlers \ {h}
        PROVE  Apart(sent', pending[g]) /\ Apart(pending[g], batch)
    <3>1. Apart(sent', pending[g]) /\ UpTo(pending[g], old)
      BY <1>1 DEF IInv, OnceInv
    <3>2. \A i \in DOMAIN pending[g] : pending[g][i] \in Nat
      BY PendingType DEF IInv
    <3>. QED  BY <1>2, <3>1, <3>2 DEF Apart, UpTo
  <2>5. committed <= committed' /\ committed' \in Nat
    BY <1>1
  <2>6. TypeInv /\ OnceInv
    BY DEF IInv
  <2>. QED  BY <1>1, <1>2, <2>1, <2>2, <2>3, <2>4, <2>5, <2>6, OthersApart
<1>5. SentGrows
  BY <1>1, Types DEF IInv, SentGrows
<1>6. EventsKept
  <2>1. \A e \in Pending : e \in Pending'
    <3>1. SUFFICES ASSUME NEW e, NEW g \in Handlers, NEW i \in DOMAIN pending[g],
                          pending[g][i] = e
                   PROVE  e \in Pending'
      BY PendingAt
    <3>2. g # h
      BY <1>1
    <3>3. pending'[g] = pending[g]
      BY <1>1, <3>2 DEF IInv, TypeInv
    <3>. QED  BY <3>1, <3>3 DEF Pending, Range
  <2>2. \A e \in old + 1 .. committed' : e \in Pending'
    <3>1. SUFFICES ASSUME NEW e \in old + 1 .. committed'
                   PROVE  e \in Pending'
      OBVIOUS
    <3>2. pending'[h] = batch
      BY <1>1 DEF IInv, TypeInv
    <3>3. e - old \in 1 .. n /\ batch[e - old] = e
      BY <1>1, <1>2
    <3>. QED  BY <1>2, <3>2, <3>3 DEF Pending, Range
  <2>. QED  BY <1>1, <2>1, <2>2 DEF EventsKept, Underway
<1>. QED  BY <1>1, <1>3, <1>4, <1>5, <1>6, ServerStep

\* A message is sent once, and to a channel there is.
LEMMA BroadcastStep ==
  ASSUME IInv, NEW h \in Handlers, Broadcast(h)
  PROVE  IInv'
<1>. PICK batch \in Batch : batch = pending[h]
  BY DEF IInv, TypeInv
<1>1. /\ batch # <<>>
      /\ pending' = [pending EXCEPT ![h] = Tail(batch)]
      /\ sent' = IF open THEN Append(sent, Head(batch)) ELSE sent
      /\ UNCHANGED <<committed, open, client, lost, faults>>
  BY DEF Broadcast
<1>2. batch \in Seq(Events) /\ Len(batch) \in Nat /\ DOMAIN batch = 1 .. Len(batch)
  BY SequenceType DEF Batch
<1>. PICK rest \in Batch : rest = Tail(batch)
  <2>1. Tail(batch) \in Seq(Events) /\ Len(batch) >= 1 /\ Len(Tail(batch)) = Len(batch) - 1
    BY <1>1, <1>2, TailType
  <2>2. Tail(batch) \in Batch
    BY <1>2, <2>1 DEF Batch
  <2>. QED  BY <2>2
<1>. PICK e \in Events : e = Head(batch)
  BY <1>1, <1>2, TailType
<1>3. /\ DOMAIN batch = 1 .. Len(rest) + 1
      /\ DOMAIN rest = 1 .. Len(rest)
      /\ Len(rest) \in Nat
      /\ \A i \in 1 .. Len(rest) : rest[i] = batch[i + 1]
      /\ e = batch[1]
  <2>1. rest \in Seq(Events)
    BY DEF Batch
  <2>2. DOMAIN rest = 1 .. Len(rest) /\ Len(rest) \in Nat
    BY <2>1, SequenceType
  <2>3. /\ Len(rest) = Len(batch) - 1
        /\ \A i \in 1 .. Len(batch) - 1 : rest[i] = batch[i + 1]
        /\ e = batch[1]
    BY <1>1, <1>2, TailType
  <2>. QED  BY <1>2, <2>2, <2>3
<1>4. /\ Distinct(batch) /\ UpTo(batch, committed) /\ Apart(sent, batch)
      /\ Distinct(sent) /\ UpTo(sent, committed)
      /\ \A g \in Handlers \ {h} : Apart(pending[g], batch) /\ Apart(sent, pending[g])
  BY DEF IInv, OnceInv
<1>5. /\ \A i \in 1 .. Len(rest) : i + 1 \in DOMAIN batch
      /\ 1 \in DOMAIN batch
      /\ \A i \in 1 .. Len(rest) : i + 1 # 1
      /\ \A i, j \in 1 .. Len(rest) : i + 1 = j + 1 => i = j
  BY <1>3
<1>6. /\ Distinct(rest) /\ UpTo(rest, committed) /\ Apart(sent, rest)
      /\ \A g \in Handlers \ {h} : Apart(pending[g], rest)
      /\ \A i \in DOMAIN rest : rest[i] # e
      /\ e <= committed
      /\ \A i \in DOMAIN sent : sent[i] # e
      /\ \A g \in Handlers \ {h} : \A i \in DOMAIN pending[g] : pending[g][i] # e
  <2>1. \A i \in DOMAIN rest : i + 1 \in DOMAIN batch /\ rest[i] = batch[i + 1]
    BY <1>3, <1>5
  <2>2. Distinct(rest)
    BY SMTT(30), <1>3, <1>4, <1>5, <2>1 DEF Distinct
  <2>3. UpTo(rest, committed) /\ e <= committed
    BY <1>3, <1>4, <1>5, <2>1 DEF UpTo
  <2>4. Apart(sent, rest) /\ \A i \in DOMAIN sent : sent[i] # e
    BY <1>3, <1>4, <1>5, <2>1 DEF Apart
  <2>5. \A i \in DOMAIN rest : rest[i] # e
    <3>1. SUFFICES ASSUME NEW i \in DOMAIN rest, rest[i] = e PROVE FALSE
      OBVIOUS
    <3>2. i + 1 = 1
      BY <1>3, <1>4, <1>5, <2>1, <3>1 DEF Distinct
    <3>. QED  BY <1>3, <1>5, <3>2
  <2>6. \A g \in Handlers \ {h} :
          Apart(pending[g], rest) /\ \A i \in DOMAIN pending[g] : pending[g][i] # e
    BY <1>3, <1>4, <1>5, <2>1 DEF Apart
  <2>. QED  BY <2>2, <2>3, <2>4, <2>5, <2>6
<1>7. PICK n \in Nat : n = Len(sent)
  BY Types DEF IInv
<1>8. /\ sent' \in Seq(Events)
      /\ open => /\ Len(sent') = n + 1
                 /\ DOMAIN sent' = 1 .. n + 1
                 /\ \A i \in 1 .. n : sent'[i] = sent[i]
                 /\ sent'[n + 1] = e
                 /\ \A i \in 1 .. n + 1 : i \in 1 .. n \/ i = n + 1
      /\ ~open => sent' = sent
      /\ DOMAIN sent = 1 .. n
  <2>1. sent \in Seq(Events)
    BY DEF IInv, TypeInv
  <2>2. DOMAIN sent = 1 .. n
    BY <1>7, <2>1, SequenceType
  <2>3. CASE open
    <3>1. sent' = Append(sent, e)
      BY <1>1, <1>3, <2>3
    <3>2. /\ Append(sent, e) \in Seq(Events)
          /\ Len(Append(sent, e)) = n + 1
          /\ DOMAIN Append(sent, e) = 1 .. n + 1
          /\ \A i \in 1 .. n : Append(sent, e)[i] = sent[i]
          /\ Append(sent, e)[n + 1] = e
          /\ \A i \in 1 .. n + 1 : i \in 1 .. n \/ i = n + 1
      BY <1>7, <2>1, AppendType
    <3>. QED  BY <2>2, <2>3, <3>1, <3>2
  <2>4. CASE ~open
    BY <1>1, <2>1, <2>2, <2>4
  <2>. QED  BY <2>3, <2>4
<1>9. TypeInv'
  BY <1>1, <1>3, <1>8 DEF IInv, TypeInv
<1>10. OnceInv'
  <2>1. \A i \in DOMAIN sent' : (i \in DOMAIN sent /\ sent'[i] = sent[i]) \/ (i = n + 1 /\ sent'[i] = e)
    BY <1>8
  <2>2. Distinct(sent')
    BY <1>4, <1>6, <2>1 DEF Distinct
  <2>3. UpTo(sent', committed')
    BY <1>1, <1>4, <1>6, <2>1 DEF UpTo
  <2>4. Apart(sent', rest)
    BY <1>6, <2>1 DEF Apart
  <2>5. \A g \in Handlers \ {h} : Apart(sent', pending[g]) /\ Apart(pending[g], rest)
    BY <1>4, <1>6, <2>1 DEF Apart
  <2>6. committed <= committed' /\ committed' \in Nat
    BY <1>1, Types DEF IInv
  <2>7. TypeInv /\ OnceInv /\ Distinct(rest) /\ UpTo(rest, committed')
    BY <1>1, <1>6 DEF IInv
  <2>8. pending' = [pending EXCEPT ![h] = rest]
    BY <1>1, <1>3
  <2>. QED  BY <2>2, <2>3, <2>4, <2>5, <2>6, <2>7, <2>8, OthersApart
<1>11. SentGrows
  BY <1>7, <1>8 DEF SentGrows
<1>12. open => EventsKept
  <2>1. SUFFICES ASSUME open, NEW x \in Nat, NEW start \in 1 .. n + 1, Underway(x, start)
                 PROVE  Underway(x, start)'
    BY <1>1, <1>7, Types DEF IInv, EventsKept
  <2>2. CASE x \in lost
    BY <1>1, <2>2 DEF Underway
  <2>3. CASE \E i \in start .. Len(sent) : sent[i] = x
    <3>1. PICK i \in start .. n : sent[i] = x
      BY <1>7, <2>3
    <3>2. i \in start .. n + 1 /\ sent'[i] = x
      BY <1>8, <2>1, <3>1
    <3>. QED  BY <1>8, <2>1, <3>2 DEF Underway
  <2>4. CASE x \in Pending
    <3>. PICK g \in Handlers : \E i \in DOMAIN pending[g] : pending[g][i] = x
      BY <2>4, PendingAt
    <3>1. PICK i \in DOMAIN pending[g] : pending[g][i] = x
      OBVIOUS
    <3>2. CASE g # h
      <4>1. pending'[g] = pending[g]
        BY <1>1, <3>2 DEF IInv, TypeInv
      <4>. QED  BY <3>1, <4>1 DEF Underway, Pending, Range
    <3>3. CASE g = h /\ i = 1
      <4>1. x = e /\ n + 1 \in start .. n + 1
        BY <1>3, <3>1, <3>3
      <4>. QED  BY <1>8, <2>1, <4>1 DEF Underway
    <3>4. CASE g = h /\ i # 1
      <4>1. pending'[h] = rest
        BY <1>1, <1>3 DEF IInv, TypeInv
      <4>2. i - 1 \in DOMAIN rest /\ rest[i - 1] = x
        BY SMTT(30), <1>3, <3>1, <3>4
      <4>3. x \in Range(pending'[h])
        BY <4>1, <4>2 DEF Range
      <4>. QED  BY <4>3 DEF Underway, Pending
    <3>. QED  BY <3>2, <3>3, <3>4
  <2>. QED  BY <2>1, <2>2, <2>3, <2>4 DEF Underway
<1>. QED  BY <1>1, <1>9, <1>10, <1>11, <1>12, ServerStep, Types DEF IInv

\* The events of a request that vanishes are lost.
LEMMA VanishStep ==
  ASSUME IInv, NEW h \in Handlers, Vanish(h)
  PROVE  IInv'
<1>1. /\ faults < MaxFaults
      /\ faults' = faults + 1
      /\ lost' = lost \cup Range(pending[h])
      /\ pending' = [pending EXCEPT ![h] = <<>>]
      /\ UNCHANGED <<committed, open, sent, client>>
  BY DEF Vanish
<1>2. PICK batch \in Batch : batch = <<>> /\ DOMAIN batch = {}
  <2>1. <<>> \in Batch /\ DOMAIN <<>> = {}
    BY DEF Batch
  <2>. QED  BY <2>1
<1>3. Range(pending[h]) \subseteq Events
  BY Types, SequenceType DEF IInv
<1>4. TypeInv'
  BY <1>1, <1>2, <1>3, StreamAssumption DEF IInv, TypeInv
<1>5. OnceInv'
  <2>1. Distinct(batch) /\ UpTo(batch, committed') /\ \A list : Apart(list, batch)
    BY <1>2 DEF Distinct, UpTo, Apart
  <2>2. Distinct(sent') /\ UpTo(sent', committed') /\ Apart(sent', batch)
    BY <1>1, <2>1 DEF IInv, OnceInv
  <2>3. \A g \in Handlers \ {h} : Apart(sent', pending[g]) /\ Apart(pending[g], batch)
    BY <1>1, <2>1 DEF IInv, OnceInv
  <2>4. committed <= committed' /\ committed' \in Nat
    BY <1>1, Types DEF IInv
  <2>5. TypeInv /\ OnceInv /\ pending' = [pending EXCEPT ![h] = batch]
    BY <1>1, <1>2 DEF IInv
  <2>. QED  BY <2>1, <2>2, <2>3, <2>4, <2>5, OthersApart
<1>6. SentGrows
  BY <1>1, Types DEF IInv, SentGrows
<1>7. EventsKept
  <2>1. \A e \in Pending : e \in Pending' \/ e \in lost'
    <3>1. SUFFICES ASSUME NEW e, NEW g \in Handlers, NEW i \in DOMAIN pending[g],
                          pending[g][i] = e
                   PROVE  e \in Pending' \/ e \in lost'
      BY PendingAt
    <3>2. CASE g = h
      BY <1>1, <3>1, <3>2 DEF Range
    <3>3. CASE g # h
      <4>1. pending'[g] = pending[g]
        BY <1>1, <3>3 DEF IInv, TypeInv
      <4>. QED  BY <3>1, <4>1 DEF Pending, Range
    <3>. QED  BY <3>2, <3>3
  <2>. QED  BY <1>1, <2>1, Types DEF IInv, EventsKept, Underway
<1>. QED  BY <1>1, <1>4, <1>5, <1>6, <1>7, ServerStep, Types DEF IInv

\* After a restart there are no clients to keep anything for.
LEMMA RestartStep ==
  ASSUME IInv, Restart
  PROVE  IInv'
<1>1. /\ faults < MaxFaults
      /\ faults' = faults + 1
      /\ lost' = lost \cup Pending
      /\ pending' = [h \in Handlers |-> <<>>]
      /\ open' = FALSE /\ sent' = <<>>
      /\ client' = [c \in Clients |-> Away]
      /\ UNCHANGED committed
  BY DEF Restart, Pending
<1>2. Pending \subseteq Events
  BY Types, SequenceType DEF IInv, Pending
<1>3. <<>> \in Batch /\ <<>> \in Seq(Events) /\ <<>> \in Seq(Nat) /\ Away \in Client
  BY DEF Batch, Away, Client
<1>4. TypeInv'
  <2>1. pending' \in [Handlers -> Batch] /\ client' \in [Clients -> Client]
    BY <1>1, <1>3
  <2>2. sent' \in Seq(Events) /\ open' \in BOOLEAN
    BY <1>1, <1>3
  <2>3. lost' \subseteq Events /\ faults' \in 0 .. MaxFaults /\ committed' \in Events
    BY <1>1, <1>2, StreamAssumption DEF IInv, TypeInv
  <2>. QED  BY <2>1, <2>2, <2>3 DEF TypeInv
<1>5. OnceInv'
  BY <1>1 DEF OnceInv, Distinct, UpTo, Apart
<1>6. \A c \in Clients : ClientInv(client[c])'
  BY <1>1 DEF ClientInv, Away
<1>. QED  BY <1>4, <1>5, <1>6 DEF IInv

-----------------------------------------------------------------------------
(* Clients.                                                                *)

\* A client that has just subscribed has received all of nothing.
LEMMA OpenStep ==
  ASSUME IInv, NEW c \in Clients, client[c].at # "streaming", Open(c), open',
         UNCHANGED <<committed, pending, sent, lost, faults>>
  PROVE  IInv'
<1>1. PICK n \in Nat : n = Len(sent)
  BY Types DEF IInv
<1>2. PICK k \in Client : k = client[c]
  BY DEF IInv, TypeInv
<1>3. k.got = <<>> /\ k.listed = 0
  BY <1>2 DEF IInv, ClientInv
<1>. PICK m \in Nat : m = n + 1
  OBVIOUS
<1>4. PICK l : l = [k EXCEPT !.at = "streaming", !.start = m, !.next = m]
  OBVIOUS
<1>5. l \in Client
  BY <1>2, <1>4 DEF Client
<1>6. /\ l.at = "streaming" /\ l.start = m /\ l.next = m
      /\ l.got = <<>> /\ l.listed = 0
  BY <1>2, <1>3, <1>4 DEF Client
<1>7. client' = [client EXCEPT ![c] = l]
  BY <1>1, <1>2, <1>4 DEF Open, IInv, TypeInv
<1>8. Reading(l)'
  <2>1. Places(l.got) = {} /\ Range(l.got) = {} /\ DOMAIN l.got = {}
    BY <1>6 DEF Places, Range
  <2>2. Cardinality(Places(l.got)) = 0
    BY <2>1, FS_EmptySet
  <2>3. l.start .. l.next - 1 = {}
    BY <1>1, <1>6
  <2>. QED  BY <1>1, <1>6, <2>1, <2>2, <2>3 DEF Reading
<1>9. Covered(l)'
  BY <1>6 DEF Covered
<1>10. l.listed <= committed'
  BY <1>6, Types DEF IInv
<1>11. ClientInv(l)'
  BY <1>6, <1>8, <1>9, <1>10 DEF ClientInv
<1>12. faults' \in 0 .. MaxFaults
  BY DEF IInv, TypeInv
<1>. QED  BY <1>5, <1>7, <1>11, <1>12, ClientStep

\* A client that found no channel has still nothing.
LEMMA MissChannelStep ==
  ASSUME IInv, NEW c \in Clients, MissChannel(c)
  PROVE  IInv'
<1>1. PICK k \in Client : k = client[c]
  BY DEF IInv, TypeInv
<1>2. PICK l : l = [k EXCEPT !.at = "creating"]
  OBVIOUS
<1>3. l \in Client /\ l.at = "creating" /\ \A f \in {"start", "next", "got", "listed"} : l[f] = k[f]
  BY <1>1, <1>2 DEF Client
<1>4. k.start = 0 /\ k.next = 0 /\ k.got = <<>> /\ k.listed = 0
  BY <1>1 DEF MissChannel, IInv, ClientInv
<1>5. l.start = 0 /\ l.next = 0 /\ l.got = <<>> /\ l.listed = 0
  BY <1>3, <1>4
<1>6. ClientInv(l)'
  BY <1>3, <1>5 DEF ClientInv
<1>7. client' = [client EXCEPT ![c] = l] /\ UNCHANGED <<committed, pending, open, sent, lost, faults>>
  BY <1>1, <1>2 DEF MissChannel
<1>. QED  BY <1>3, <1>6, <1>7, ClientStep DEF IInv, TypeInv

\* A client that goes away has nothing.
LEMMA DisconnectStep ==
  ASSUME IInv, NEW c \in Clients, Disconnect(c)
  PROVE  IInv'
<1>1. Away \in Client /\ ClientInv(Away)'
  BY DEF Away, Client, ClientInv
<1>2. faults' \in 0 .. MaxFaults
  BY StreamAssumption DEF Disconnect, IInv, TypeInv
<1>3. /\ client' = [client EXCEPT ![c] = Away]
      /\ UNCHANGED <<committed, pending, open, sent, lost>>
  BY DEF Disconnect
<1>. QED  BY <1>1, <1>2, <1>3, ClientStep DEF IInv, TypeInv

\* Nothing is committed after the list, at the moment it is made.
LEMMA ListEventsStep ==
  ASSUME IInv, NEW c \in Clients, ListEvents(c)
  PROVE  IInv'
<1>1. PICK n \in Nat : n = committed
  BY Types DEF IInv
<1>2. PICK k \in Client : k = client[c]
  BY DEF IInv, TypeInv
<1>3. k.at = "streaming" /\ open /\ Reading(k)
  BY <1>2 DEF ListEvents, Streaming, IInv, ClientInv
<1>4. PICK l : l = [k EXCEPT !.listed = n]
  OBVIOUS
<1>5. /\ l \in Client /\ l.at = k.at /\ l.start = k.start /\ l.next = k.next
      /\ l.got = k.got /\ l.listed = n
  BY <1>1, <1>2, <1>4 DEF Client
<1>6. /\ client' = [client EXCEPT ![c] = l]
      /\ UNCHANGED <<committed, pending, open, sent, lost, faults>>
  BY <1>1, <1>2, <1>4 DEF ListEvents
<1>7. Reading(l)'
  BY <1>3, <1>5, <1>6 DEF Reading
<1>8. Covered(l)'
  BY <1>1, <1>5, <1>6 DEF Covered
<1>9. ClientInv(l)'
  BY <1>1, <1>3, <1>5, <1>6, <1>7, <1>8 DEF ClientInv
<1>. QED  BY <1>5, <1>6, <1>9, ClientStep DEF IInv, TypeInv

\* The next message is new to the client, and it has all up to it as before.
LEMMA ReceiveStep ==
  ASSUME IInv, NEW c \in Clients, Receive(c)
  PROVE  IInv'
<1>1. PICK k \in Client : k = client[c]
  BY DEF IInv, TypeInv
<1>2. k.at = "streaming" /\ open /\ k.listed <= committed /\ Reading(k) /\ Covered(k)
  BY <1>1 DEF Receive, Streaming, IInv, ClientInv
<1>3. PICK n \in Nat : n = Len(sent)
  BY Types DEF IInv
<1>4. /\ k.start \in Nat /\ k.next \in Nat /\ k.got \in Seq(Nat)
      /\ 1 <= k.start /\ k.start <= k.next /\ k.next <= n
      /\ k.next \in DOMAIN sent
  BY <1>1, <1>2, <1>3, Types DEF Client, Receive, Unread, Reading, IInv
<1>5. PICK e \in Nat : e = sent[k.next] /\ e # Lagged
  BY <1>3, <1>4, Types DEF IInv
<1>6. PICK got \in Seq(Nat) : got = Append(k.got, e)
  BY <1>4, AppendType
<1>. PICK next \in Nat : next = k.next + 1
  BY <1>4
<1>7. PICK l : l = [k EXCEPT !.next = next, !.got = got]
  OBVIOUS
<1>8. /\ l \in Client /\ l.at = k.at /\ l.start = k.start /\ l.next = next
      /\ l.got = got /\ l.listed = k.listed
  BY <1>1, <1>4, <1>7 DEF Client
<1>9. /\ client' = [client EXCEPT ![c] = l]
      /\ UNCHANGED <<committed, pending, open, sent, lost, faults>>
  BY <1>1, <1>5, <1>6, <1>7 DEF Receive
<1>. PICK old \in Seq(Nat) : old = k.got
  BY <1>4
<1>. PICK m \in Nat : m = Len(old)
  BY SequenceType
<1>10. /\ DOMAIN k.got = 1 .. m
       /\ DOMAIN got = 1 .. m + 1
       /\ \A i \in 1 .. m : got[i] = k.got[i]
       /\ got[m + 1] = e
       /\ \A i \in 1 .. m + 1 : i \in 1 .. m \/ i = m + 1
  BY <1>6, AppendType, SequenceType
<1>11. Range(got) = Range(k.got) \cup {e}
  <2>1. got = Append(old, e)
    BY <1>6
  <2>2. Range(Append(old, e)) = Range(old) \cup {e}
    BY SMTT(30), AppendRange
  <2>. QED  BY <2>1, <2>2
<1>12. /\ \A i \in k.start .. k.next : i \in k.start .. k.next - 1 \/ i = k.next
       /\ \A i \in k.start .. k.next - 1 :
            i \in k.start .. k.next /\ i # k.next /\ i \in DOMAIN sent
       /\ k.next \in k.start .. k.next
       /\ l.next - 1 = k.next
  <2>1. DOMAIN sent = 1 .. n
    BY <1>3, Types DEF IInv
  <2>2. l.next - 1 = k.next
    BY <1>4, <1>8
  <2>3. \A i \in k.start .. k.next - 1 : i \in k.start .. k.next /\ i # k.next /\ i \in 1 .. n
    BY <1>4
  <2>4. \A i \in k.start .. k.next : i \in k.start .. k.next - 1 \/ i = k.next
    BY <1>4
  <2>. QED  BY <1>4, <2>1, <2>2, <2>3, <2>4
<1>13. \A j \in DOMAIN got : got[j] # Lagged => \E i \in k.start .. k.next : sent[i] = got[j]
  BY ZenonT(30), <1>2, <1>5, <1>10, <1>12 DEF Reading
<1>14. Lagged \notin Range(got) => \A i \in k.start .. k.next : sent[i] \in Range(got)
  BY <1>2, <1>5, <1>11, <1>12 DEF Reading
<1>15. \A j \in Places(k.got) : k.got[j] # e
  <2>1. SUFFICES ASSUME NEW j \in DOMAIN k.got, k.got[j] # Lagged, k.got[j] = e
                 PROVE  FALSE
    BY DEF Places
  <2>2. PICK i \in k.start .. k.next - 1 : sent[i] = e
    BY <1>2, <2>1 DEF Reading
  <2>. QED  BY <1>4, <1>5, <1>12, <2>2 DEF IInv, OnceInv, Distinct
<1>16. \A i, j \in Places(got) : got[i] = got[j] => i = j
  <2>1. \A i \in Places(got) :
          \/ i \in Places(k.got) /\ got[i] = k.got[i]
          \/ i = m + 1 /\ got[i] = e
    BY <1>10 DEF Places
  <2>2. \A i, j \in Places(k.got) : k.got[i] = k.got[j] => i = j
    BY <1>2 DEF Reading
  <2>. QED  BY <1>15, <2>1, <2>2
<1>17. Cardinality(Places(got)) = Cardinality(Places(k.got)) + 1
       /\ Cardinality(Places(k.got)) \in Nat
  BY <1>4, <1>5, <1>6, PlacesAppend
<1>18. IF Lagged \in Range(got)
       THEN Cardinality(Places(got)) < l.next - l.start
       ELSE Cardinality(Places(got)) = l.next - l.start
  <2>1. Lagged \in Range(got) <=> Lagged \in Range(k.got)
    BY <1>5, <1>11
  <2>2. IF Lagged \in Range(k.got)
        THEN Cardinality(Places(k.got)) < k.next - k.start
        ELSE Cardinality(Places(k.got)) = k.next - k.start
    BY <1>2 DEF Reading
  <2>. QED  BY SMTT(30), <1>4, <1>8, <1>17, <2>1, <2>2
<1>19. Reading(l)'
  BY <1>3, <1>4, <1>8, <1>9, <1>12, <1>13, <1>14, <1>16, <1>18 DEF Reading
<1>20. Covered(l)'
  BY <1>2, <1>8, <1>9 DEF Covered, Underway, Pending
<1>21. ClientInv(l)'
  BY <1>2, <1>8, <1>9, <1>19, <1>20 DEF ClientInv
<1>. QED  BY <1>8, <1>9, <1>21, ClientStep DEF IInv, TypeInv

\* A notice takes the place of the messages that are gone, of one at least.
LEMMA LagStep ==
  ASSUME IInv, NEW c \in Clients, Lag(c)
  PROVE  IInv'
<1>1. PICK k \in Client : k = client[c]
  BY DEF IInv, TypeInv
<1>2. k.at = "streaming" /\ open /\ k.listed <= committed /\ Reading(k) /\ Covered(k)
  BY <1>1 DEF Lag, Streaming, IInv, ClientInv
<1>3. PICK n \in Nat : n = Len(sent)
  BY Types DEF IInv
<1>4. PICK oldest \in Nat : oldest = Oldest /\ oldest <= n + 1
  BY SMTT(30), <1>3, StreamAssumption DEF Oldest
<1>5. /\ k.start \in Nat /\ k.next \in Nat /\ k.got \in Seq(Nat)
      /\ 1 <= k.start /\ k.start <= k.next /\ k.next < oldest
  BY <1>1, <1>2, <1>4 DEF Client, Lag, Reading
<1>6. PICK got \in Seq(Nat) : got = Append(k.got, Lagged)
  BY <1>5, AppendType DEF Lagged
<1>7. PICK l : l = [k EXCEPT !.next = oldest, !.got = got]
  OBVIOUS
<1>8. /\ l \in Client /\ l.at = k.at /\ l.start = k.start /\ l.next = oldest
      /\ l.got = got /\ l.listed = k.listed
  BY <1>1, <1>4, <1>7 DEF Client
<1>9. /\ client' = [client EXCEPT ![c] = l]
      /\ UNCHANGED <<committed, pending, open, sent, lost, faults>>
  BY <1>1, <1>4, <1>6, <1>7 DEF Lag
<1>10. PICK m \in Nat :
         /\ DOMAIN k.got = 1 .. m
         /\ DOMAIN got = 1 .. m + 1
         /\ \A i \in 1 .. m : got[i] = k.got[i]
         /\ got[m + 1] = Lagged
         /\ \A i \in 1 .. m + 1 : i \in 1 .. m \/ i = m + 1
  BY SMTT(30), <1>5, <1>6, AppendType, SequenceType DEF Lagged
<1>11. Lagged \in Range(got)
  BY <1>5, <1>6, AppendRange DEF Lagged
<1>12. \A i \in k.start .. k.next - 1 : i \in k.start .. oldest - 1
  BY <1>4, <1>5
<1>13. \A j \in DOMAIN got :
         got[j] # Lagged => \E i \in k.start .. oldest - 1 : sent[i] = got[j]
  <2>1. SUFFICES ASSUME NEW j \in 1 .. m, k.got[j] # Lagged
                 PROVE  \E i \in k.start .. oldest - 1 : sent[i] = k.got[j]
    BY <1>10
  <2>2. PICK i \in k.start .. k.next - 1 : sent[i] = k.got[j]
    BY <1>2, <1>10, <2>1 DEF Reading
  <2>. QED  BY <1>12, <2>2
<1>14. \A i, j \in Places(got) : got[i] = got[j] => i = j
  BY <1>2, <1>10 DEF Reading, Places
<1>15. Cardinality(Places(got)) = Cardinality(Places(k.got))
       /\ Cardinality(Places(k.got)) \in Nat
  BY <1>5, <1>6, PlacesAppend DEF Lagged
<1>16. Cardinality(Places(k.got)) <= k.next - k.start
  BY <1>2, <1>5, <1>15 DEF Reading
<1>17. Cardinality(Places(got)) < oldest - k.start
  BY <1>4, <1>5, <1>15, <1>16
<1>18. Reading(l)'
  BY <1>3, <1>4, <1>5, <1>8, <1>9, <1>11, <1>13, <1>14, <1>17 DEF Reading
<1>19. Covered(l)'
  BY <1>2, <1>8, <1>9 DEF Covered, Underway, Pending
<1>20. ClientInv(l)'
  BY <1>2, <1>8, <1>9, <1>18, <1>19 DEF ClientInv
<1>. QED  BY <1>8, <1>9, <1>20, ClientStep DEF IInv, TypeInv

-----------------------------------------------------------------------------
(* The theorems.                                                           *)

\* At first nobody has anything.
LEMMA InitEstablishes ==
  Init => IInv
<1>. SUFFICES ASSUME Init PROVE IInv
  OBVIOUS
<1>1. <<>> \in Batch /\ <<>> \in Seq(Events) /\ <<>> \in Seq(Nat) /\ Away \in Client
  BY DEF Batch, Away, Client
<1>2. TypeInv
  <2>1. pending \in [Handlers -> Batch] /\ client \in [Clients -> Client]
    BY <1>1 DEF Init
  <2>2. sent \in Seq(Events) /\ open \in BOOLEAN /\ lost \subseteq Events
    BY <1>1 DEF Init
  <2>3. committed \in Events /\ faults \in 0 .. MaxFaults
    BY StreamAssumption DEF Init, Events
  <2>. QED  BY <2>1, <2>2, <2>3 DEF TypeInv
<1>3. OnceInv
  BY DEF Init, OnceInv, Distinct, UpTo, Apart
<1>4. \A c \in Clients : ClientInv(client[c])
  BY DEF Init, ClientInv, Away
<1>. QED  BY <1>2, <1>3, <1>4 DEF IInv

\* Log, messages and clients stay in step, whatever the order in which requests
\* commit and send, clients come, read and go, and the server restarts.
THEOREM InductiveInvariant ==
  Spec => []IInv
<1>1. ASSUME IInv, Next
      PROVE  IInv'
  <2>1. ASSUME NEW h \in Handlers, Commit(h, 1) \/ Commit(h, 2) \/ Broadcast(h) \/ Vanish(h)
        PROVE  IInv'
    <3>1. 1 \in 1 .. 2 /\ 2 \in 1 .. 2
      OBVIOUS
    <3>. QED  BY <1>1, <2>1, <3>1, CommitStep, BroadcastStep, VanishStep
  <2>2. ASSUME NEW c \in Clients, Subscribe(c) \/ CreateChannel(c)
        PROVE  IInv'
    <3>1. /\ client[c].at # "streaming" /\ Open(c) /\ open'
          /\ UNCHANGED <<committed, pending, sent, lost, faults>>
      BY <2>2 DEF Subscribe, CreateChannel
    <3>. QED  BY <1>1, <3>1, OpenStep
  <2>3. ASSUME NEW c \in Clients,
               \/ MissChannel(c) \/ ListEvents(c) \/ Receive(c) \/ Lag(c) \/ Disconnect(c)
        PROVE  IInv'
    BY <1>1, <2>3, MissChannelStep, ListEventsStep, ReceiveStep, LagStep, DisconnectStep
  <2>4. CASE Restart
    BY <1>1, <2>4, RestartStep
  <2>. QED  BY <1>1, <2>1, <2>2, <2>3, <2>4 DEF Next
<1>2. ASSUME IInv, UNCHANGED vars
      PROVE  IInv'
  <2>1. TypeInv' /\ OnceInv' /\ SentGrows /\ EventsKept
    BY <1>2, Types DEF vars, IInv, TypeInv, OnceInv, SentGrows, EventsKept, Underway,
       Pending
  <2>. QED  BY <1>2, <2>1, ServerStep, Types DEF vars, IInv
<1>. QED  BY <1>1, <1>2, InitEstablishes, PTL DEF Spec

\* Every variable keeps its type.
THEOREM TypeCorrect ==
  Spec => []TypeOK
<1>1. IInv => TypeOK
  <2>. SUFFICES ASSUME IInv PROVE TypeOK
    OBVIOUS
  <2>1. ASSUME NEW h \in Handlers
        PROVE  pending[h] \in {<<>>} \cup [1 .. 1 -> Events] \cup [1 .. 2 -> Events]
    <3>1. PICK s \in Seq(Events) : s = pending[h] /\ Len(s) <= 2
      BY DEF IInv, TypeInv, Batch
    <3>2. Len(s) \in {0, 1, 2}
      <4>1. Len(s) \in Nat
        BY SequenceType
      <4>2. \A n \in Nat : n <= 2 => n = 0 \/ n = 1 \/ n = 2
        OBVIOUS
      <4>. QED  BY <3>1, <4>1, <4>2
    <3>3. s \in [1 .. Len(s) -> Events]
      BY SequenceType
    <3>4. Len(s) = 0 => s = <<>>
      OBVIOUS
    <3>. QED  BY <3>1, <3>2, <3>3, <3>4
  <2>2. Range(sent) \subseteq Events
    BY SequenceType DEF IInv, TypeInv
  <2>3. ASSUME NEW c \in Clients
        PROVE  /\ client[c].at \in {"away", "creating", "streaming"}
               /\ client[c].next \in client[c].start .. Len(sent) + 1
               /\ Got(c) \subseteq Events \cup {Lagged}
               /\ client[c].listed \in 0 .. committed
    <3>1. PICK l \in Client : l = client[c]
      BY DEF IInv, TypeInv
    <3>2. ClientInv(l)
      BY <3>1 DEF IInv
    <3>3. CASE l.at # "streaming"
      <4>1. l.start = 0 /\ l.next = 0 /\ l.listed = 0 /\ l.got = <<>>
        BY <3>2, <3>3 DEF ClientInv
      <4>2. Got(c) = {}
        BY <3>1, <4>1 DEF Got, Range
      <4>. QED  BY <3>1, <4>1, <4>2, Types DEF Client, IInv
    <3>4. CASE l.at = "streaming"
      <4>1. l.listed <= committed /\ Reading(l)
        BY <3>2, <3>4 DEF ClientInv
      <4>2. l.next \in l.start .. Len(sent) + 1 /\ l.listed \in 0 .. committed
        BY <4>1, Types DEF Reading, Client, IInv
      <4>3. \A i \in l.start .. l.next - 1 : sent[i] \in Events
        <5>1. l.start .. l.next - 1 \subseteq 1 .. Len(sent)
          BY <4>1, Types DEF Reading, Client, IInv
        <5>. QED  BY <5>1, SequenceType DEF IInv, TypeInv
      <4>4. \A e \in Range(l.got) : e \in Events \cup {Lagged}
        BY <4>1, <4>3 DEF Reading, Range
      <4>. QED  BY <3>1, <3>4, <4>2, <4>4 DEF Got
    <3>. QED  BY <3>3, <3>4
  <2>. QED  BY <2>1, <2>2, <2>3 DEF IInv, TypeInv, TypeOK
<1>. QED  BY <1>1, InductiveInvariant, PTL

\* A client that subscribed, listed and read all there is without a notice knows the
\* whole log but for what is still to be sent or was lost with its request.
THEOREM NothingMissesSilently ==
  Spec => []ListAndStreamAreComplete
<1>1. IInv => ListAndStreamAreComplete
  <2>1. SUFFICES ASSUME IInv, NEW c \in Clients, Streaming(c), client[c].listed > 0,
                        ~Unread(c), Lagged \notin Got(c), NEW e \in 1 .. committed,
                        e \notin 1 .. client[c].listed, e \notin Pending, e \notin lost
                 PROVE  e \in Got(c)
    BY DEF ListAndStreamAreComplete
  <2>2. PICK l \in Client : l = client[c]
    BY <2>1 DEF IInv, TypeInv
  <2>3. Reading(l) /\ Covered(l)
    BY <2>1, <2>2 DEF IInv, ClientInv, Streaming
  <2>4. e \in l.listed + 1 .. committed
    BY <2>1, <2>2, Types DEF Client, IInv
  <2>5. PICK i \in l.start .. Len(sent) : sent[i] = e
    BY <2>1, <2>2, <2>3, <2>4 DEF Covered, Underway
  <2>6. i \in l.start .. l.next - 1
    BY <2>1, <2>2, <2>3, Types DEF Unread, Reading, Client, IInv
  <2>. QED  BY <2>1, <2>2, <2>3, <2>5, <2>6 DEF Reading, Got
<1>. QED  BY <1>1, InductiveInvariant, PTL

\* A client is told that it lags if and only if it has received fewer messages than
\* were sent to it, and no event comes twice.
THEOREM NoticesAreTrue ==
  Spec => []GapsAreTold
<1>1. IInv => GapsAreTold
  <2>1. SUFFICES ASSUME IInv, NEW c \in Clients, Streaming(c)
                 PROVE  LET l == client[c]
                        IN  /\ Lagged \in Got(c) <=> Cardinality(Places(l.got)) < l.next - l.start
                            /\ \A i, j \in Places(l.got) : l.got[i] = l.got[j] => i = j
    BY DEF GapsAreTold
  <2>2. PICK l \in Client : l = client[c]
    BY <2>1 DEF IInv, TypeInv
  <2>3. Reading(l)
    BY <2>1, <2>2 DEF IInv, ClientInv, Streaming
  <2>4. Lagged \in Range(l.got) <=> Cardinality(Places(l.got)) < l.next - l.start
    <3>1. l.next \in Nat /\ l.start \in Nat
      BY DEF Client
    <3>. QED  BY <2>3, <3>1 DEF Reading
  <2>5. \A i, j \in Places(l.got) : l.got[i] = l.got[j] => i = j
    BY <2>3 DEF Reading
  <2>. QED  BY <2>2, <2>4, <2>5 DEF Got
<1>. QED  BY <1>1, InductiveInvariant, PTL

=============================================================================
