-------------------------- MODULE Services_proofs ---------------------------
(***************************************************************************)
(* Proofs about Submission, for any number of runs, chains and registries, *)
(* and about MigratedRun and FrozenRecords, for any number of runs,        *)
(* events, versions and bodies; and that Services is correct in all of its *)
(* parts.                                                                  *)
(***************************************************************************)
EXTENDS Services, Scoring_proofs, UrlIdentity_proofs

-----------------------------------------------------------------------------
(* The inductive invariant.                                                *)

MinedRuns == {mined[Sepolia][i].tx.run : i \in DOMAIN mined[Sepolia]}
SentRuns == {t.run : t \in mempool} \cup MinedRuns

\* A transaction that goes where the human of its run said.
AsApproved(t) == t.chain = Sepolia /\ t.to = approval[t.run]

\* What an attempt of run r that is at l knows: once past the check its configuration
\* is the approved one, and until it sends the run has no transaction.
Knows(r, l) ==
  /\ l.at # "idle" => approval[r] # None
  /\ l.at = "fill" => l.env = [chain |-> Sepolia, registry |-> approval[r]]
  /\ l.at \in {"send", "wait"} => l.tx.run = r /\ AsApproved(l.tx)
  /\ l.at \in {"idle", "check", "fill", "send"} => r \notin SentRuns

CallInv == \A r \in Runs : Knows(r, call[r])

\* A run has one transaction, which waits or is mined, on Sepolia.
SentInv ==
  /\ \A t \in mempool : AsApproved(t) /\ t.run \notin MinedRuns
  /\ \A t, u \in mempool : t.run = u.run => t = u
  /\ \A c \in Chains \ {Sepolia} : mined[c] = <<>>
  /\ \A i \in DOMAIN mined[Sepolia] : AsApproved(mined[Sepolia][i].tx)
  /\ \A i, j \in DOMAIN mined[Sepolia] :
       mined[Sepolia][i].tx.run = mined[Sepolia][j].tx.run => i = j

\* Preflight was ready for code that is there to stay.
ToldInv == \A r \in told : approval[r] # None /\ approval[r] \in code

\* A run that is on record was mined, and is on record once, in its registry; where
\* preflight was ready, a transaction that succeeded put it there.
RecordInv ==
  /\ \A k \in DOMAIN records :
       records[k].run \in MinedRuns /\ records[k].registry = approval[records[k].run]
  /\ \A k, l \in DOMAIN records : records[k].run = records[l].run => k = l
  /\ \A i \in DOMAIN mined[Sepolia] :
       mined[Sepolia][i].status /\ mined[Sepolia][i].tx.run \in told =>
         \E k \in DOMAIN records : records[k].run = mined[Sepolia][i].tx.run

\* A receipt is of a transaction of its run that succeeded.
ReceiptInv ==
  \A r \in Runs : receipts[r] # None =>
    /\ receipts[r].run = r
    /\ \E i \in DOMAIN mined[Sepolia] : mined[Sepolia][i] = [tx |-> receipts[r], status |-> TRUE]

IInv ==
  /\ TypeOK /\ IsFiniteSet(mempool)
  /\ CallInv /\ SentInv /\ ToldInv /\ RecordInv /\ ReceiptInv

-----------------------------------------------------------------------------
(* Attempts.                                                               *)

\* What an attempt holds at each of its steps.
LEMMA CallType ==
  ASSUME NEW l \in Call
  PROVE  /\ l.at \in {"idle", "over", "check", "fill", "send", "wait"}
         /\ l.at \in {"check", "fill"} =>
              l.env \in [chain: Chains, registry: Addresses]
         /\ l.at \in {"send", "wait"} => l.tx \in Tx
BY DEF Call

\* Chains and registries that an approved transaction names.
LEMMA TxType ==
  ASSUME NEW t \in Tx
  PROVE  t.run \in Runs /\ t.chain \in Chains /\ t.to \in Addresses /\ t.nonce \in Nat
BY DEF Tx

\* The step of one attempt leaves the others where they are.
LEMMA GotoType ==
  ASSUME call \in [Runs -> Call], NEW r \in Runs, NEW l \in Call, Goto(r, l)
  PROVE  /\ call' \in [Runs -> Call]
         /\ call'[r] = l
         /\ \A q \in Runs \ {r} : call'[q] = call[q]
BY DEF Goto

\* The elements of a sequence.
LEMMA SequenceType ==
  ASSUME NEW S, NEW s \in Seq(S)
  PROVE  /\ Len(s) \in Nat /\ DOMAIN s = 1 .. Len(s)
         /\ \A i \in DOMAIN s : s[i] \in S
OBVIOUS

\* The mined transactions of a chain.
LEMMA MinedType ==
  ASSUME TypeOK, NEW c \in Chains
  PROVE  /\ mined[c] \in Seq([tx: Tx, status: BOOLEAN])
         /\ Len(mined[c]) \in Nat /\ DOMAIN mined[c] = 1 .. Len(mined[c])
         /\ \A i \in DOMAIN mined[c] : mined[c][i] \in [tx: Tx, status: BOOLEAN]
<1>1. mined[c] \in Seq([tx: Tx, status: BOOLEAN])
  BY DEF TypeOK
<1>. QED  BY <1>1, SequenceType

-----------------------------------------------------------------------------
(* Steps that change neither the network nor the approvals.                *)

\* An attempt that moves on and knows what it has to know by then.
LEMMA MovePreserves ==
  ASSUME IInv, NEW r \in Runs, NEW l \in Call, Goto(r, l), Knows(r, l),
         UNCHANGED <<env, code, approval, receipts, network, told, restarts>>
  PROVE  IInv'
<1>1. /\ call' \in [Runs -> Call]
      /\ call'[r] = l
      /\ \A q \in Runs \ {r} : call'[q] = call[q]
  BY GotoType DEF IInv, TypeOK
<1>2. TypeOK' /\ IsFiniteSet(mempool')
  BY <1>1 DEF IInv, TypeOK, network
<1>3. CallInv'
  <2>1. ASSUME NEW q \in Runs  PROVE  Knows(q, call'[q])
    BY <1>1 DEF IInv, CallInv
  <2>. QED  BY <2>1 DEF CallInv, Knows, AsApproved, SentRuns, MinedRuns, network
<1>4. SentInv' /\ ToldInv' /\ RecordInv' /\ ReceiptInv'
  BY SMTT(30) DEF IInv, SentInv, ToldInv, RecordInv, ReceiptInv, AsApproved, MinedRuns,
     network
<1>. QED  BY <1>2, <1>3, <1>4 DEF IInv

\* submit() reads the configuration.
LEMMA BeginPreserves ==
  ASSUME IInv, NEW r \in Runs, Begin(r)
  PROVE  IInv'
<1>. DEFINE l == [at |-> "check", env |-> env]
<1>1. l \in Call
  BY DEF IInv, TypeOK, Call
<1>2. Knows(r, l)
  BY DEF Begin, IInv, CallInv, Knows, At
<1>. QED  BY <1>1, <1>2, MovePreserves DEF Begin

\* submit() gives up with an error.
LEMMA FailPreserves ==
  ASSUME IInv, NEW r \in Runs, Fail(r)
  PROVE  IInv'
<1>. DEFINE l == [at |-> "over"]
<1>1. l \in Call
  BY DEF Call
<1>2. Knows(r, l)
  BY DEF Fail, IInv, CallInv, Knows, At
<1>. QED  BY <1>1, <1>2, MovePreserves DEF Fail, End

\* The configuration is compared with the approval.
LEMMA CheckPreserves ==
  ASSUME IInv, NEW r \in Runs, Check(r)
  PROVE  IInv'
<1>1. call[r] \in Call /\ Knows(r, call[r]) /\ call[r].at = "check"
  BY DEF IInv, TypeOK, CallInv, Check, At
<1>2. call[r].env \in [chain: Chains, registry: Addresses]
  BY <1>1, CallType
<1>3. CASE ConfigurationMatches(r)
  <2>. DEFINE l == [at |-> "fill", env |-> call[r].env]
  <2>1. l \in Call
    BY <1>2 DEF Call
  <2>2. call[r].env = [chain |-> Sepolia, registry |-> approval[r]]
    BY <1>2, <1>3 DEF ConfigurationMatches
  <2>3. Knows(r, l)
    BY <1>1, <2>2 DEF Knows
  <2>. QED  BY <1>3, <2>1, <2>3, MovePreserves DEF Check
<1>4. CASE ~ConfigurationMatches(r)
  <2>. DEFINE l == [at |-> "over"]
  <2>1. l \in Call
    BY DEF Call
  <2>2. Knows(r, l)
    BY <1>1 DEF Knows
  <2>. QED  BY <1>4, <2>1, <2>2, MovePreserves DEF Check, End
<1>. QED  BY <1>3, <1>4

\* The transaction is filled in for the approved chain and registry.
LEMMA FillPreserves ==
  ASSUME IInv, NEW r \in Runs, Fill(r)
  PROVE  IInv'
<1>1. call[r] \in Call /\ Knows(r, call[r]) /\ call[r].at = "fill"
  BY DEF IInv, TypeOK, CallInv, Fill, At
<1>2. call[r].env \in [chain: Chains, registry: Addresses]
  BY <1>1, CallType
<1>. DEFINE c == call[r].env.chain
<1>3. c \in Chains /\ c = Sepolia /\ approval[r] \in Addresses
  BY <1>1, <1>2 DEF Knows
<1>4. PICK n \in 0 .. Len(mined[c]) + Cardinality(mempool) :
        Goto(r, [at |-> "send", tx |-> [run |-> r, chain |-> c,
                                        to |-> approval[r], nonce |-> n]])
  BY DEF Fill
<1>5. n \in Nat
  <2>1. Len(mined[c]) \in Nat /\ Cardinality(mempool) \in Nat
    BY <1>3, MinedType, FS_CardinalityType DEF IInv
  <2>. QED  BY <2>1
<1>. DEFINE l == [at |-> "send", tx |-> [run |-> r, chain |-> c,
                                         to |-> approval[r], nonce |-> n]]
<1>6. l \in Call
  BY <1>3, <1>5 DEF Call, Tx
<1>7. Knows(r, l)
  BY <1>1, <1>3 DEF Knows, AsApproved
<1>8. UNCHANGED <<env, code, approval, receipts, network, told, restarts>>
  BY DEF Fill
<1>. HIDE DEF l
<1>. QED  BY <1>4, <1>6, <1>7, <1>8, MovePreserves DEF l

-----------------------------------------------------------------------------
(* Approvals, receipts and restarts.                                       *)

\* A run without an approval has no attempt and no transaction.
LEMMA UnapprovedIsIdle ==
  ASSUME IInv, NEW r \in Runs, approval[r] = None
  PROVE  call[r].at = "idle" /\ r \notin SentRuns /\ r \notin told
<1>1. call[r].at = "idle"
  BY DEF IInv, CallInv, Knows
<1>. QED  BY <1>1 DEF IInv, CallInv, Knows, ToldInv

\* A human approves an address for a run that nobody has yet attempted.
LEMMA ApprovePreserves ==
  ASSUME IInv, NEW r \in Runs, NEW a \in Addresses, Approve(r, a)
  PROVE  IInv'
<1>1. call[r].at = "idle" /\ r \notin SentRuns /\ r \notin told
  BY UnapprovedIsIdle DEF Approve
<1>2. /\ approval' \in [Runs -> Addresses \cup {None}] /\ approval'[r] = a /\ a # None
      /\ \A q \in Runs \ {r} : approval'[q] = approval[q]
  BY SubmissionAssumption DEF Approve, IInv, TypeOK
<1>3. told \subseteq told' /\ told' \subseteq told \cup {r} /\ (r \in told' => a \in code)
  BY <1>1 DEF Approve, Ready
<1>4. UNCHANGED <<env, code, call, receipts, mempool, mined, records, restarts>>
  BY DEF Approve, network
<1>5. SentRuns' = SentRuns /\ MinedRuns' = MinedRuns
  BY <1>4 DEF SentRuns, MinedRuns
<1>6. TypeOK' /\ IsFiniteSet(mempool')
  BY <1>2, <1>3, <1>4 DEF IInv, TypeOK
<1>7. CallInv'
  <2>1. ASSUME NEW q \in Runs  PROVE  Knows(q, call[q])'
    <3>1. CASE q = r
      BY <1>1, <1>4, <1>5, <3>1 DEF Knows
    <3>2. CASE q # r
      BY <1>2, <1>4, <1>5, <3>2 DEF Knows, IInv, CallInv, AsApproved
    <3>. QED  BY <3>1, <3>2
  <2>. QED  BY <2>1 DEF CallInv
<1>8. SentInv'
  <2>1. \A t \in mempool : t.run \in Runs /\ t.run # r
    BY <1>1, TxType DEF SentRuns, IInv, TypeOK
  <2>2. \A i \in DOMAIN mined[Sepolia] :
          mined[Sepolia][i].tx.run \in Runs /\ mined[Sepolia][i].tx.run # r
    BY <1>1, MinedType, TxType, SubmissionAssumption DEF SentRuns, MinedRuns, IInv
  <2>. QED  BY <1>2, <1>4, <1>5, <2>1, <2>2 DEF IInv, SentInv, AsApproved
<1>9. ToldInv'
  BY <1>2, <1>3, <1>4 DEF IInv, ToldInv, TypeOK
<1>10. RecordInv'
  <2>1. r \notin MinedRuns
    BY <1>1 DEF SentRuns
  <2>2. \A k \in DOMAIN records : records[k].run \in Runs
    <3>1. \A k \in DOMAIN records : records[k] \in Record
      BY SequenceType DEF IInv, TypeOK
    <3>. QED  BY <3>1 DEF Record
  <2>3. \A i \in DOMAIN mined[Sepolia] : mined[Sepolia][i].tx.run # r
    BY <2>1 DEF MinedRuns
  <2>. QED  BY <1>2, <1>3, <1>4, <1>5, <2>1, <2>2, <2>3 DEF IInv, RecordInv
<1>11. ReceiptInv'
  BY <1>4 DEF IInv, ReceiptInv
<1>. QED  BY <1>6, <1>7, <1>8, <1>9, <1>10, <1>11 DEF IInv

\* The receipt of the run's own transaction is stored if it succeeded.
LEMMA ConfirmPreserves ==
  ASSUME IInv, NEW r \in Runs, Confirm(r)
  PROVE  IInv'
<1>1. call[r] \in Call /\ Knows(r, call[r]) /\ call[r].at = "wait"
  BY DEF IInv, TypeOK, CallInv, Confirm, At
<1>2. call[r].tx.run = r /\ call[r].tx.chain = Sepolia /\ call[r].tx \in Tx
  BY <1>1, CallType DEF Knows, AsApproved
<1>3. PICK i \in DOMAIN mined[Sepolia] :
        /\ mined[Sepolia][i].tx = call[r].tx
        /\ receipts' = IF mined[Sepolia][i].status
                       THEN [receipts EXCEPT ![r] = mined[Sepolia][i].tx] ELSE receipts
  BY <1>2 DEF Confirm, MinedFor, ReceiptOf
<1>4. mined[Sepolia][i] \in [tx: Tx, status: BOOLEAN]
  BY MinedType, SubmissionAssumption DEF IInv
<1>. DEFINE l == [at |-> "over"]
<1>5. l \in Call /\ Knows(r, l)
  BY <1>1 DEF Call, Knows
<1>6. /\ call' \in [Runs -> Call] /\ call'[r] = l
      /\ \A q \in Runs \ {r} : call'[q] = call[q]
  BY <1>5, GotoType DEF IInv, TypeOK, Confirm, End
<1>7. UNCHANGED <<env, code, approval, mempool, mined, records, told, restarts>>
  BY DEF Confirm, network
<1>8. TypeOK' /\ IsFiniteSet(mempool')
  <2>1. receipts' \in [Runs -> Tx \cup {None}]
    BY <1>2, <1>3 DEF IInv, TypeOK
  <2>. QED  BY <1>6, <1>7, <2>1 DEF IInv, TypeOK
<1>9. CallInv'
  <2>1. ASSUME NEW q \in Runs  PROVE  Knows(q, call'[q])
    BY <1>5, <1>6 DEF IInv, CallInv
  <2>. QED  BY <1>7, <2>1 DEF CallInv, Knows, AsApproved, SentRuns, MinedRuns
<1>10. SentInv' /\ ToldInv' /\ RecordInv'
  BY <1>7 DEF IInv, SentInv, ToldInv, RecordInv, AsApproved, MinedRuns
<1>11. ReceiptInv'
  <2>1. CASE mined[Sepolia][i].status
    <3>1. mined[Sepolia][i] = [tx |-> call[r].tx, status |-> TRUE]
      BY <1>3, <1>4, <2>1
    <3>2. receipts'[r] = call[r].tx /\ \A q \in Runs \ {r} : receipts'[q] = receipts[q]
      BY <1>3, <2>1 DEF IInv, TypeOK
    <3>. QED  BY ZenonT(30), <1>2, <1>7, <3>1, <3>2 DEF IInv, ReceiptInv
  <2>2. CASE ~mined[Sepolia][i].status
    BY <1>3, <1>7, <2>2 DEF IInv, ReceiptInv
  <2>. QED  BY <2>1, <2>2
<1>. QED  BY <1>8, <1>9, <1>10, <1>11 DEF IInv

\* The server comes back with another configuration; its calls are lost.
LEMMA RestartPreserves ==
  ASSUME IInv, NEW c \in Chains, NEW a \in Addresses, Restart(c, a)
  PROVE  IInv'
<1>1. UNCHANGED <<code, approval, receipts, mempool, mined, records, told>>
  BY DEF Restart, network
<1>2. \A r \in Runs : \/ call'[r] = call[r]
                      \/ call'[r] = [at |-> "over"] /\ call[r].at # "idle"
  BY DEF Restart, At
<1>3. TypeOK' /\ IsFiniteSet(mempool')
  <2>1. call' \in [Runs -> Call]
    BY DEF Restart, IInv, TypeOK, Call
  <2>2. restarts' \in 0 .. MaxRestarts
    BY SubmissionAssumption DEF Restart, IInv, TypeOK
  <2>3. env' \in [chain: Chains, registry: Addresses]
    BY DEF Restart
  <2>. QED  BY <1>1, <2>1, <2>2, <2>3 DEF IInv, TypeOK
<1>4. CallInv'
  <2>1. ASSUME NEW r \in Runs  PROVE  Knows(r, call'[r])
    BY <1>2 DEF IInv, CallInv, Knows
  <2>. QED  BY <1>1, <2>1 DEF CallInv, Knows, AsApproved, SentRuns, MinedRuns
<1>5. SentInv' /\ ToldInv' /\ RecordInv' /\ ReceiptInv'
  BY <1>1 DEF IInv, SentInv, ToldInv, RecordInv, ReceiptInv, AsApproved, MinedRuns
<1>. QED  BY <1>3, <1>4, <1>5 DEF IInv

-----------------------------------------------------------------------------
(* The network.                                                            *)

\* The node takes the one transaction of the run, in place of any with its nonce.
LEMMA SendPreserves ==
  ASSUME IInv, NEW r \in Runs, Send(r)
  PROVE  IInv'
<1>1. call[r] \in Call /\ Knows(r, call[r]) /\ call[r].at = "send"
  BY DEF IInv, TypeOK, CallInv, Send, At
<1>2. PICK t \in Tx : t = call[r].tx
  BY <1>1, CallType
<1>3. t.run = r /\ AsApproved(t) /\ r \notin SentRuns
  BY <1>1, <1>2 DEF Knows
<1>4. mempool' \subseteq mempool \cup {t} /\ Goto(r, [at |-> "wait", tx |-> t])
  BY <1>2 DEF Send
<1>5. UNCHANGED <<env, code, approval, receipts, mined, records, told, restarts>>
  BY DEF Send
<1>. DEFINE l == [at |-> "wait", tx |-> t]
<1>6. l \in Call /\ Knows(r, l)
  BY <1>1, <1>3 DEF Call, Knows
<1>7. /\ call' \in [Runs -> Call] /\ call'[r] = l
      /\ \A q \in Runs \ {r} : call'[q] = call[q]
  BY <1>4, <1>6, GotoType DEF IInv, TypeOK
<1>8. TypeOK' /\ IsFiniteSet(mempool')
  <2>1. IsFiniteSet(mempool \cup {t})
    BY FS_AddElement DEF IInv
  <2>2. IsFiniteSet(mempool')
    BY <1>4, <2>1, FS_Subset
  <2>. QED  BY <1>4, <1>5, <1>7, <2>2 DEF IInv, TypeOK
<1>9. SentRuns' \subseteq SentRuns \cup {r} /\ MinedRuns' = MinedRuns
  BY <1>3, <1>4, <1>5 DEF SentRuns, MinedRuns
<1>10. CallInv'
  <2>1. ASSUME NEW q \in Runs  PROVE  Knows(q, call[q])'
    <3>1. CASE q = r
      BY <1>5, <1>6, <1>7, <3>1 DEF Knows, AsApproved
    <3>2. CASE q # r
      BY <1>5, <1>7, <1>9, <3>2 DEF Knows, IInv, CallInv, AsApproved
    <3>. QED  BY <3>1, <3>2
  <2>. QED  BY <2>1 DEF CallInv
<1>11. SentInv'
  <2>1. t.run \notin MinedRuns /\ \A u \in mempool : u.run # t.run
    BY <1>3 DEF SentRuns
  <2>. QED  BY <1>3, <1>4, <1>5, <1>9, <2>1 DEF IInv, SentInv, AsApproved
<1>12. ToldInv' /\ RecordInv' /\ ReceiptInv'
  BY <1>5, <1>9 DEF IInv, ToldInv, RecordInv, ReceiptInv
<1>. QED  BY <1>8, <1>10, <1>11, <1>12 DEF IInv

\* The node forgets a transaction that waits.
LEMMA DropPreserves ==
  ASSUME IInv, NEW t \in mempool, Drop(t)
  PROVE  IInv'
<1>1. /\ mempool' \subseteq mempool
      /\ UNCHANGED <<env, code, approval, call, receipts, mined, records, told, restarts>>
  BY DEF Drop
<1>2. SentRuns' \subseteq SentRuns /\ MinedRuns' = MinedRuns
  BY <1>1 DEF SentRuns, MinedRuns
<1>3. TypeOK' /\ IsFiniteSet(mempool')
  BY <1>1, FS_Subset DEF IInv, TypeOK
<1>4. CallInv'
  BY <1>1, <1>2 DEF IInv, CallInv, Knows, AsApproved
<1>5. SentInv'
  BY <1>1, <1>2 DEF IInv, SentInv, AsApproved
<1>6. ToldInv' /\ RecordInv' /\ ReceiptInv'
  BY <1>1, <1>2 DEF IInv, ToldInv, RecordInv, ReceiptInv
<1>. QED  BY <1>3, <1>4, <1>5, <1>6 DEF IInv

\* Code is deployed at an address, to stay.
LEMMA DeployPreserves ==
  ASSUME IInv, NEW a \in Addresses, Deploy(a)
  PROVE  IInv'
<1>1. UNCHANGED <<env, approval, call, receipts, mempool, mined, records, told, restarts>>
  BY DEF Deploy, network
<1>2. TypeOK' /\ IsFiniteSet(mempool')
  BY <1>1 DEF Deploy, IInv, TypeOK
<1>3. CallInv' /\ SentInv'
  BY <1>1 DEF IInv, CallInv, SentInv, Knows, AsApproved, SentRuns, MinedRuns
<1>4. ToldInv'
  BY <1>1 DEF IInv, ToldInv, Deploy
<1>5. RecordInv' /\ ReceiptInv'
  BY <1>1 DEF IInv, RecordInv, ReceiptInv, MinedRuns
<1>. QED  BY <1>2, <1>3, <1>4, <1>5 DEF IInv

\* A mined transaction is executed once, and on record if it was executed by a
\* registry; its run is no more and no less sent than before.
LEMMA MinePreserves ==
  ASSUME IInv, NEW t \in mempool, NEW ok \in BOOLEAN, Mine(t, ok)
  PROVE  IInv'
<1>1. t \in Tx /\ t.run \in Runs /\ AsApproved(t) /\ t.run \notin MinedRuns
  BY TxType DEF IInv, TypeOK, SentInv
<1>. DEFINE m == [tx |-> t, status |-> ok]
<1>n. PICK n \in Nat : n = Len(mined[Sepolia])
  BY MinedType, SubmissionAssumption DEF IInv
<1>2. /\ mined[Sepolia] \in Seq([tx: Tx, status: BOOLEAN])
      /\ n \in Nat /\ DOMAIN mined[Sepolia] = 1 .. n
  BY <1>n, MinedType, SubmissionAssumption DEF IInv
<1>3. mined' = [mined EXCEPT ![Sepolia] = Append(@, m)]
  BY <1>1 DEF Mine, AsApproved
<1>m. /\ m \in [tx: Tx, status: BOOLEAN]
       /\ Append(mined[Sepolia], m) \in Seq([tx: Tx, status: BOOLEAN])
  BY <1>1, <1>2
<1>4. /\ mined' \in [Chains -> Seq([tx: Tx, status: BOOLEAN])]
      /\ mined'[Sepolia] = Append(mined[Sepolia], m)
      /\ \A c \in Chains \ {Sepolia} : mined'[c] = mined[c]
  BY <1>3, <1>m, SubmissionAssumption DEF IInv, TypeOK
<1>5. /\ DOMAIN mined'[Sepolia] = 1 .. n + 1
      /\ mined'[Sepolia][n + 1] = m
      /\ \A i \in 1 .. n : mined'[Sepolia][i] = mined[Sepolia][i]
  BY <1>n, <1>2, <1>4
<1>6. MinedRuns' = MinedRuns \cup {t.run}
  <2>1. MinedRuns' = {mined'[Sepolia][i].tx.run : i \in 1 .. n + 1}
    BY <1>5 DEF MinedRuns
  <2>2. MinedRuns = {mined[Sepolia][i].tx.run : i \in 1 .. n}
    BY <1>2 DEF MinedRuns
  <2>3. 1 .. n + 1 = (1 .. n) \cup {n + 1}
    BY <1>2
  <2>. QED  BY <1>5, <2>1, <2>2, <2>3
<1>7. mempool' = mempool \ {t}
  BY DEF Mine
<1>8. SentRuns' = SentRuns
  BY <1>6, <1>7 DEF SentRuns
<1>9. UNCHANGED <<env, code, approval, call, receipts, told, restarts>>
  BY DEF Mine
<1>10. /\ records' = IF ok /\ t.to \in code
                     THEN Append(records, [run |-> t.run, registry |-> t.to]) ELSE records
       /\ records \in Seq(Record) /\ [run |-> t.run, registry |-> t.to] \in Record
  BY <1>1, TxType DEF Mine, Recorded, AsApproved, Record, IInv, TypeOK
<1>11. records' \in Seq(Record)
  BY <1>10
<1>12. TypeOK' /\ IsFiniteSet(mempool')
  BY <1>4, <1>7, <1>9, <1>11, FS_Subset DEF IInv, TypeOK
<1>13. CallInv'
  BY <1>8, <1>9 DEF IInv, CallInv, Knows, AsApproved
<1>14. SentInv'
  <2>1. \A u \in mempool' : AsApproved(u)' /\ u.run \notin MinedRuns'
    BY <1>6, <1>7, <1>9 DEF IInv, SentInv, AsApproved
  <2>2. \A i \in DOMAIN mined'[Sepolia] : AsApproved(mined[Sepolia][i].tx)'
    <3>1. ASSUME NEW i \in 1 .. n  PROVE  AsApproved(mined[Sepolia][i].tx)'
      BY SMTT(30), <1>2, <1>5, <1>9 DEF IInv, SentInv, AsApproved
    <3>2. AsApproved(mined[Sepolia][n + 1].tx)'
      BY <1>1, <1>5, <1>9 DEF AsApproved
    <3>3. \A i \in 1 .. n + 1 : i \in 1 .. n \/ i = n + 1
      OBVIOUS
    <3>. QED  BY <1>5, <3>1, <3>2, <3>3
  <2>3. \A i, j \in DOMAIN mined'[Sepolia] :
          mined'[Sepolia][i].tx.run = mined'[Sepolia][j].tx.run => i = j
    <3>1. \A i \in 1 .. n : mined'[Sepolia][i].tx.run # t.run
      BY <1>1, <1>2, <1>5 DEF MinedRuns
    <3>2. \A i, j \in 1 .. n : mined'[Sepolia][i].tx.run = mined'[Sepolia][j].tx.run => i = j
      BY <1>2, <1>5 DEF IInv, SentInv
    <3>3. mined'[Sepolia][n + 1].tx.run = t.run
      BY <1>5
    <3>4. \A i \in 1 .. n + 1 : i \in 1 .. n \/ i = n + 1
      OBVIOUS
    <3>. QED  BY <1>5, <3>1, <3>2, <3>3, <3>4
  <2>. QED  BY <1>4, <1>7, <2>1, <2>2, <2>3 DEF IInv, SentInv
<1>15. ToldInv'
  BY <1>9 DEF IInv, ToldInv
<1>16. ReceiptInv'
  <2>1. \A i \in DOMAIN mined[Sepolia] :
          i \in DOMAIN mined'[Sepolia] /\ mined'[Sepolia][i] = mined[Sepolia][i]
    BY <1>2, <1>5
  <2>. QED  BY <1>9, <2>1 DEF IInv, ReceiptInv
<1>17. RecordInv'
  <2>1. /\ \A k \in DOMAIN records : records[k].run \in MinedRuns
        /\ \A k \in DOMAIN records : records[k].run # t.run
    BY <1>1 DEF IInv, RecordInv
  <2>2. CASE ok /\ t.to \in code
    <3>0. PICK k0 \in Nat : k0 = Len(records) + 1
      BY <1>10, SequenceType
    <3>1. /\ DOMAIN records = 1 .. k0 - 1 /\ DOMAIN records' = 1 .. k0
          /\ records'[k0] = [run |-> t.run, registry |-> t.to]
          /\ \A k \in 1 .. k0 - 1 : records'[k] = records[k]
      BY <1>10, <2>2, <3>0
    <3>2. \A k \in 1 .. k0 : k \in 1 .. k0 - 1 \/ k = k0
      BY <3>1
    <3>3. \A k \in 1 .. k0 - 1 :
            k \in DOMAIN records /\ k \in DOMAIN records' /\ records'[k] = records[k]
      BY <3>1
    <3>4. k0 \in DOMAIN records' /\ records'[k0].run = t.run /\ records'[k0].registry = t.to
      <4>1. k0 \in 1 .. k0
        BY <3>0, <1>10, SequenceType
      <4>. QED  BY <3>1, <4>1
    <3>5. \A k \in DOMAIN records' :
            records'[k].run \in MinedRuns' /\ records'[k].registry = approval'[records'[k].run]
      BY <1>1, <1>6, <1>9, <3>1, <3>2, <3>3, <3>4 DEF IInv, RecordInv, AsApproved
    <3>6. \A k, l \in DOMAIN records' : records'[k].run = records'[l].run => k = l
      BY <2>1, <3>1, <3>2, <3>3, <3>4 DEF IInv, RecordInv
    <3>7. ASSUME NEW i \in DOMAIN mined'[Sepolia], mined'[Sepolia][i].status,
                 mined'[Sepolia][i].tx.run \in told'
          PROVE  \E k \in DOMAIN records' : records'[k].run = mined'[Sepolia][i].tx.run
      <4>1. CASE i = n + 1
        BY <1>5, <3>4, <4>1
      <4>2. CASE i # n + 1
        <5>1. i \in DOMAIN mined[Sepolia] /\ mined'[Sepolia][i] = mined[Sepolia][i]
          BY <1>2, <1>5, <3>7, <4>2
        <5>2. PICK k \in DOMAIN records : records[k].run = mined[Sepolia][i].tx.run
          BY <1>9, <3>7, <5>1 DEF IInv, RecordInv
        <5>. QED  BY <3>1, <3>3, <5>1, <5>2
      <4>. QED  BY <4>1, <4>2
    <3>. QED  BY <3>5, <3>6, <3>7 DEF RecordInv
  <2>3. CASE ~(ok /\ t.to \in code)
    <3>1. records' = records
      BY <1>10, <2>3
    <3>2. ASSUME NEW i \in DOMAIN mined'[Sepolia], mined'[Sepolia][i].status,
                 mined'[Sepolia][i].tx.run \in told'
          PROVE  \E k \in DOMAIN records : records[k].run = mined'[Sepolia][i].tx.run
      <4>1. CASE i = n + 1
        <5>1. ok /\ t.run \in told
          BY <1>5, <1>9, <3>2, <4>1
        <5>. QED  BY <1>1, <2>3, <5>1 DEF IInv, ToldInv, AsApproved
      <4>2. CASE i # n + 1
        <5>1. i \in DOMAIN mined[Sepolia] /\ mined'[Sepolia][i] = mined[Sepolia][i]
          BY <1>2, <1>5, <3>2, <4>2
        <5>. QED  BY <1>9, <3>2, <5>1 DEF IInv, RecordInv
      <4>. QED  BY <4>1, <4>2
    <3>. QED  BY <1>6, <1>9, <3>1, <3>2 DEF IInv, RecordInv
  <2>. QED  BY <2>2, <2>3
<1>. QED  BY <1>12, <1>13, <1>14, <1>15, <1>16, <1>17 DEF IInv

-----------------------------------------------------------------------------
(* The theorems.                                                           *)

\* Before any approval the invariant holds.
LEMMA InitInv == Init => IInv
<1>. SUFFICES ASSUME Init  PROVE  IInv
  OBVIOUS
<1>1. TypeOK /\ IsFiniteSet(mempool)
  <2>1. [at |-> "idle"] \in Call
    BY DEF Call
  <2>. QED  BY <2>1, FS_EmptySet, SubmissionAssumption DEF Init, TypeOK
<1>2. mined[Sepolia] = <<>> /\ MinedRuns = {} /\ SentRuns = {}
  BY SubmissionAssumption DEF Init, MinedRuns, SentRuns
<1>3. CallInv /\ ToldInv /\ ReceiptInv
  BY <1>2 DEF Init, CallInv, Knows, ToldInv, ReceiptInv
<1>4. SentInv /\ RecordInv
  BY <1>2 DEF Init, SentInv, RecordInv
<1>. QED  BY <1>1, <1>3, <1>4 DEF IInv

\* Every step, and a stutter, keeps the invariant of Submission.
LEMMA NextInv == IInv /\ [Next]_vars => IInv'
<1>. SUFFICES ASSUME IInv, [Next]_vars  PROVE  IInv'
  OBVIOUS
<1>1. ASSUME NEW r \in Runs, NEW a \in Addresses, Approve(r, a)  PROVE  IInv'
  BY <1>1, ApprovePreserves
<1>2. ASSUME NEW r \in Runs, Begin(r) \/ Check(r) \/ Fill(r) \/ Fail(r)  PROVE  IInv'
  BY <1>2, BeginPreserves, CheckPreserves, FillPreserves, FailPreserves
<1>3. ASSUME NEW r \in Runs, Send(r) \/ Confirm(r)  PROVE  IInv'
  BY <1>3, SendPreserves, ConfirmPreserves
<1>4. ASSUME NEW a \in Addresses, Deploy(a)  PROVE  IInv'
  BY <1>4, DeployPreserves
<1>5. ASSUME NEW c \in Chains, NEW a \in Addresses, Restart(c, a)  PROVE  IInv'
  BY <1>5, RestartPreserves
<1>6. ASSUME NEW t \in mempool, Drop(t) \/ \E ok \in BOOLEAN : Mine(t, ok)  PROVE  IInv'
  BY <1>6, DropPreserves, MinePreserves
<1>7. CASE UNCHANGED vars
  <2>1. UNCHANGED <<env, code, approval, call, receipts, mempool, mined, records, told,
                    restarts>>
    BY <1>7 DEF vars, network
  <2>2. TypeOK' /\ IsFiniteSet(mempool') /\ ToldInv' /\ ReceiptInv'
    BY <2>1 DEF IInv, TypeOK, ToldInv, ReceiptInv
  <2>3. CallInv' /\ SentInv' /\ RecordInv'
    BY <2>1 DEF IInv, CallInv, SentInv, RecordInv, Knows, AsApproved, SentRuns, MinedRuns
  <2>. QED  BY <2>2, <2>3 DEF IInv
<1>. QED  BY <1>1, <1>2, <1>3, <1>4, <1>5, <1>6, <1>7 DEF Next

\* The invariant that the theorems below follow from.
THEOREM InductiveInvariant == Spec => []IInv
BY InitInv, NextInv, PTL DEF Spec

\* Every variable has its type.
THEOREM TypeCorrect == Spec => []TypeOK
<1>1. IInv => TypeOK
  BY DEF IInv
<1>. QED  BY <1>1, InductiveInvariant, PTL

\* Whatever the process is configured with between two calls, a transaction goes to
\* the chain and the registry of the approval of its run.
THEOREM GoesAsApproved == Spec => []SentAsApproved
<1>1. IInv => SentAsApproved
  <2>. SUFFICES ASSUME IInv, NEW t \in Sent  PROVE  AsApproved(t)
    BY DEF SentAsApproved, AsApproved
  <2>1. CASE t \in mempool
    BY <2>1 DEF IInv, SentInv
  <2>2. CASE t \notin mempool
    <3>1. PICK c \in Chains : t \in {mined[c][i].tx : i \in DOMAIN mined[c]}
      BY <2>2 DEF Sent
    <3>2. c = Sepolia
      BY <3>1 DEF IInv, SentInv
    <3>. QED  BY <3>1, <3>2 DEF IInv, SentInv
  <2>. QED  BY <2>1, <2>2
<1>. QED  BY <1>1, InductiveInvariant, PTL

\* A set of indices of which no two differ has at most one element.
LEMMA AtMostOne ==
  ASSUME NEW S, \A x, y \in S : x = y
  PROVE  IsFiniteSet(S) /\ Cardinality(S) <= 1 /\ (S # {} => Cardinality(S) = 1)
<1>1. CASE S = {}
  BY <1>1, FS_EmptySet
<1>2. CASE S # {}
  <2>1. PICK x : S = {x}
    BY <1>2
  <2>2. IsFiniteSet(S) /\ Cardinality(S) = 1
    BY <2>1, FS_Singleton
  <2>. QED  BY <2>2
<1>. QED  BY <1>1, <1>2

\* One approval, one record, however many attempts fail, transactions are replaced and
\* servers restart.
THEOREM OneRecord == Spec => []RecordedOnce
<1>1. IInv => RecordedOnce
  <2>. SUFFICES ASSUME IInv, NEW r \in Runs
                PROVE  Cardinality({i \in DOMAIN records : records[i].run = r}) <= 1
    BY DEF RecordedOnce
  <2>. DEFINE S == {i \in DOMAIN records : records[i].run = r}
  <2>1. \A x, y \in S : x = y
    BY DEF IInv, RecordInv
  <2>. HIDE DEF S
  <2>2. Cardinality(S) <= 1
    BY <2>1, AtMostOne
  <2>. QED  BY <2>2 DEF S
<1>. QED  BY <1>1, InductiveInvariant, PTL

\* A receipt names a transaction of its run that succeeded on Sepolia, and where
\* preflight was ready the registry has the one record of the run.
THEOREM ReceiptsAreTrue == Spec => []ReceiptsHold
<1>1. IInv => ReceiptsHold
  <2>. SUFFICES ASSUME IInv, NEW r \in Runs, receipts[r] # None
                PROVE  /\ receipts[r].run = r
                       /\ \E i \in DOMAIN mined[Sepolia] :
                            mined[Sepolia][i] = [tx |-> receipts[r], status |-> TRUE]
                       /\ r \in told => RecordCount(approval[r], r) = 1
    BY DEF ReceiptsHold
  <2>1. PICK i \in DOMAIN mined[Sepolia] :
          /\ receipts[r].run = r
          /\ mined[Sepolia][i] = [tx |-> receipts[r], status |-> TRUE]
    BY DEF IInv, ReceiptInv
  <2>2. ASSUME r \in told  PROVE  RecordCount(approval[r], r) = 1
    <3>. DEFINE S == {k \in DOMAIN records :
                        records[k] = [run |-> r, registry |-> approval[r]]}
    <3>1. \A x, y \in S : x = y
      BY DEF IInv, RecordInv
    <3>2. PICK k \in DOMAIN records : records[k].run = r
      BY <2>1, <2>2 DEF IInv, RecordInv
    <3>3. records[k] \in Record
      BY SequenceType DEF IInv, TypeOK
    <3>4. k \in S
      BY <3>2, <3>3 DEF IInv, RecordInv, Record
    <3>. HIDE DEF S
    <3>5. Cardinality(S) = 1
      BY <3>1, <3>4, AtMostOne
    <3>. QED  BY <3>5 DEF S, RecordCount
  <2>. QED  BY <2>1, <2>2
<1>. QED  BY <1>1, InductiveInvariant, PTL

-----------------------------------------------------------------------------
(* The inductive invariant of MigratedRun.                                 *)

\* What is assumed of catalog versions and of the bodies of requests.
LEMMA FormsOfBodies ==
  /\ None \notin {"0.2.0", "0.3.0"}
  /\ ProfileChecks \in Seq(STRING)
  /\ EvidenceLists \subseteq Seq(Nat)
  /\ ClaimLists \subseteq Seq([id: Nat, check: STRING, cites: Seq(Nat)])
  /\ FindingLists \subseteq Seq([check: STRING, verdict: STRING, cites: Seq(Nat)])
  /\ PassportRequests \subseteq
       [statements: Seq([id: Nat, cites: Seq(Nat)]), gaps: Seq(STRING), conditions: Seq(STRING)]
BY ServicesAssumption

EventRow ==
  [sequence: Nat, kind: Kinds, prev: Migrated!Hashes \cup {None},
   hash: Migrated!Hashes \cup {None}]

\* Rows from before the hash chain.
Unhashed(rows) ==
  \A i \in DOMAIN rows :
    rows[i].sequence = i /\ rows[i].prev = None /\ rows[i].hash = None

\* Rows since migration 0005: a row with a hash has that of its content, and is
\* linked to the row before it.
Chained(rows) ==
  \A i \in DOMAIN rows :
    /\ rows[i].sequence = i
    /\ rows[i].prev \in Migrated!Hashes /\ rows[i].hash \in Migrated!Hashes
    /\ rows[i].hash # Migrated!ZeroHash =>
         /\ rows[i].hash = Migrated!EventHash(rows[i])
         /\ i > 1 => rows[i].prev = rows[i - 1].hash

\* A hash commits to as many events as there are up to its own.
Counted(rows) == \A i \in DOMAIN rows : Len(rows[i].hash) = i

\* Only a run that began after migration 0006 is bound to the present catalog, so
\* that no placeholder is among its rows; only such a run gets a board, and only a
\* run with a board gets a passport.
RunInv(r) ==
  /\ IF Migrated!Hashed THEN Chained(log[r]) ELSE Unhashed(log[r])
  /\ binding[r] = "0.3.0" =>
       schema = "bound" /\ Migrated!Linked(log[r]) /\ Counted(log[r])
  /\ board[r] => binding[r] = "0.3.0"
  /\ seal[r] # None =>
       /\ board[r]
       /\ seal[r].at \in 1 .. Len(log[r])
       /\ Len(seal[r].hash) = seal[r].at

MigratedInv ==
  /\ schema \in {"plain", "hashed", "bound"}
  /\ log \in [Runs -> Seq(EventRow)]
  /\ binding \in [Runs -> {None, "0.2.0", "0.3.0"}]
  /\ board \in [Runs -> BOOLEAN]
  /\ DOMAIN seal = Runs
  /\ \A r \in Runs : RunInv(r)

-----------------------------------------------------------------------------
(* Rows.                                                                   *)

\* A sequence with one more element.
LEMMA AppendType ==
  ASSUME NEW S, NEW s \in Seq(S), NEW e \in S
  PROVE  /\ Append(s, e) \in Seq(S)
         /\ Len(s) \in Nat
         /\ DOMAIN s = 1 .. Len(s)
         /\ DOMAIN Append(s, e) = 1 .. Len(s) + 1
         /\ Len(Append(s, e)) = Len(s) + 1
         /\ \A i \in 1 .. Len(s) : Append(s, e)[i] = s[i] /\ s[i] \in S
         /\ Append(s, e)[Len(s) + 1] = e
         /\ \A i \in 1 .. Len(s) + 1 : i \in 1 .. Len(s) \/ i = Len(s) + 1
OBVIOUS

\* The row that is appended since migration 0005.
NextRow(rows, kind) ==
  LET prev == IF rows = <<>> THEN Migrated!ZeroHash ELSE rows[Len(rows)].hash
      n    == Len(rows) + 1
  IN  [sequence |-> n, kind |-> kind, prev |-> prev,
       hash |-> Append(prev, <<n, kind>>)]

\* It is a row, linked to the one before it.
LEMMA NextRowType ==
  ASSUME NEW rows \in Seq(EventRow), Chained(rows), NEW kind \in Kinds
  PROVE  LET row == NextRow(rows, kind)
         IN  /\ row \in EventRow
             /\ row.sequence = Len(rows) + 1
             /\ row.prev \in Migrated!Hashes /\ row.hash \in Migrated!Hashes
             /\ row.prev = IF rows = <<>> THEN Migrated!ZeroHash ELSE rows[Len(rows)].hash
             /\ row.hash = Migrated!EventHash(row)
             /\ Len(row.hash) = Len(row.prev) + 1
<1>. DEFINE prev == IF rows = <<>> THEN Migrated!ZeroHash ELSE rows[Len(rows)].hash
<1>1. PICK n \in Nat : n = Len(rows) + 1
  OBVIOUS
<1>2. prev \in Migrated!Hashes
  <2>1. CASE rows = <<>>
    BY <2>1 DEF Migrated!Hashes, Migrated!ZeroHash
  <2>2. CASE rows # <<>>
    <3>1. Len(rows) \in DOMAIN rows
      BY <2>2
    <3>. QED  BY <2>2, <3>1 DEF Chained
  <2>. QED  BY <2>1, <2>2
<1>3. PICK p \in Migrated!Hashes : p = prev
  BY <1>2
<1>4. Append(p, <<n, kind>>) \in Migrated!Hashes /\ Len(Append(p, <<n, kind>>)) = Len(p) + 1
  <2>1. <<n, kind>> \in Nat \X Kinds
    OBVIOUS
  <2>. QED  BY <2>1 DEF Migrated!Hashes
<1>5. NextRow(rows, kind) = [sequence |-> n, kind |-> kind, prev |-> p,
                             hash |-> Append(p, <<n, kind>>)]
  BY <1>1, <1>3 DEF NextRow
<1>. HIDE DEF prev
<1>6. NextRow(rows, kind) \in EventRow
  BY <1>1, <1>4, <1>5 DEF EventRow
<1>. QED  BY <1>1, <1>3, <1>4, <1>5, <1>6 DEF Migrated!EventHash, prev

\* With it the rows stay chained, linked and counted.
LEMMA NextRowChained ==
  ASSUME NEW rows \in Seq(EventRow), Chained(rows), NEW kind \in Kinds
  PROVE  LET longer == Append(rows, NextRow(rows, kind))
         IN  /\ longer \in Seq(EventRow)
             /\ Chained(longer)
             /\ Migrated!Linked(rows) => Migrated!Linked(longer)
             /\ Migrated!Linked(rows) /\ Counted(rows) => Counted(longer)
<1>. PICK row \in EventRow : row = NextRow(rows, kind)
  BY NextRowType
<1>. PICK n \in Nat : n = Len(rows)
  OBVIOUS
<1>. PICK longer \in Seq(EventRow) : longer = Append(rows, row)
  BY AppendType
<1>1. /\ row.sequence = n + 1
      /\ row.prev \in Migrated!Hashes /\ row.hash \in Migrated!Hashes
      /\ row.prev = IF rows = <<>> THEN Migrated!ZeroHash ELSE rows[n].hash
      /\ row.hash = Migrated!EventHash(row)
      /\ Len(row.hash) = Len(row.prev) + 1
  BY NextRowType
<1>2. /\ DOMAIN rows = 1 .. n
      /\ DOMAIN longer = 1 .. n + 1
      /\ \A i \in 1 .. n : longer[i] = rows[i]
      /\ longer[n + 1] = row
      /\ \A i \in 1 .. n + 1 : i \in 1 .. n \/ i = n + 1
  BY AppendType
<1>3. /\ rows = <<>> <=> n = 0
      /\ \A i \in 1 .. n : i > 1 => i - 1 \in 1 .. n
      /\ n > 0 => n \in 1 .. n
      /\ n + 1 - 1 = n
      /\ n + 1 = 1 <=> n = 0
      /\ n + 1 > 1 <=> n > 0
      /\ n # 0 <=> n > 0
  OBVIOUS
<1>4. Chained(longer)
  <2>1. ASSUME NEW i \in 1 .. n
        PROVE  /\ longer[i].sequence = i
               /\ longer[i].prev \in Migrated!Hashes /\ longer[i].hash \in Migrated!Hashes
               /\ longer[i].hash # Migrated!ZeroHash =>
                    /\ longer[i].hash = Migrated!EventHash(longer[i])
                    /\ i > 1 => longer[i].prev = longer[i - 1].hash
    BY <1>2, <1>3 DEF Chained
  <2>2. n + 1 > 1 => longer[n + 1].prev = longer[n + 1 - 1].hash
    BY <1>1, <1>2, <1>3
  <2>. QED  BY <1>1, <1>2, <2>1, <2>2 DEF Chained
<1>5. ASSUME Migrated!Linked(rows)
      PROVE  Migrated!Linked(longer)
  <2>1. ASSUME NEW i \in 1 .. n
        PROVE  /\ longer[i].prev = IF i = 1 THEN Migrated!ZeroHash ELSE longer[i - 1].hash
               /\ longer[i].hash = Migrated!EventHash(longer[i])
    <3>1. i # 1 => i - 1 \in 1 .. n
      OBVIOUS
    <3>. QED  BY <1>2, <1>5, <3>1 DEF Migrated!Linked
  <2>2. longer[n + 1].prev = IF n + 1 = 1 THEN Migrated!ZeroHash ELSE longer[n + 1 - 1].hash
    BY <1>1, <1>2, <1>3
  <2>. QED  BY <1>1, <1>2, <2>1, <2>2 DEF Migrated!Linked
<1>6. ASSUME Counted(rows)
      PROVE  Counted(longer)
  <2>1. Len(row.prev) = n
    <3>1. CASE n = 0
      BY <1>1, <1>3, <3>1 DEF Migrated!ZeroHash
    <3>2. CASE n # 0
      BY <1>1, <1>2, <1>3, <1>6, <3>2 DEF Counted
    <3>. QED  BY <3>1, <3>2
  <2>. QED  BY <1>1, <1>2, <1>6, <2>1 DEF Counted
<1>. QED  BY <1>4, <1>5, <1>6

\* A row from before the hash chain, and the rows with it.
LEMMA UnhashedRow ==
  ASSUME NEW rows \in Seq(EventRow), Unhashed(rows), NEW kind \in Kinds
  PROVE  LET row    == [sequence |-> Len(rows) + 1, kind |-> kind, prev |-> None,
                        hash |-> None]
             longer == Append(rows, row)
         IN  longer \in Seq(EventRow) /\ Unhashed(longer)
<1>. PICK n \in Nat : n = Len(rows)
  OBVIOUS
<1>. PICK m \in Nat : m = n + 1
  OBVIOUS
<1>1. PICK row \in EventRow : row = [sequence |-> m, kind |-> kind, prev |-> None,
                                     hash |-> None]
  BY DEF EventRow
<1>2. PICK longer \in Seq(EventRow) : longer = Append(rows, row)
  BY AppendType
<1>3. /\ DOMAIN rows = 1 .. n
      /\ DOMAIN longer = 1 .. n + 1
      /\ \A i \in 1 .. n : longer[i] = rows[i]
      /\ longer[n + 1] = row
      /\ \A i \in 1 .. n + 1 : i \in 1 .. n \/ i = n + 1
  BY <1>2, AppendType
<1>4. Unhashed(longer)
  BY <1>1, <1>3 DEF Unhashed
<1>. QED  BY <1>1, <1>2, <1>4

-----------------------------------------------------------------------------
(* Steps of MigratedRun.                                                   *)

\* Rows of run r with one more, as the present code or the code before migration
\* 0005 appends it.
Longer(r, kind) == Append(log[r], Migrated!NewRow(r, kind))

\* They are as chained, linked and counted as the rows before.
LEMMA LongerIs ==
  ASSUME MigratedInv, NEW r \in Runs, NEW kind \in Kinds
  PROVE  /\ Longer(r, kind) \in Seq(EventRow)
         /\ Len(Longer(r, kind)) = Len(log[r]) + 1
         /\ Len(log[r]) \in Nat
         /\ IF Migrated!Hashed THEN Chained(Longer(r, kind)) ELSE Unhashed(Longer(r, kind))
         /\ Migrated!Hashed /\ Migrated!Linked(log[r]) /\ Counted(log[r]) =>
              /\ Migrated!Linked(Longer(r, kind))
              /\ Counted(Longer(r, kind))
              /\ Len(Migrated!NewRow(r, kind).hash) = Len(log[r]) + 1
<1>. PICK rows \in Seq(EventRow) : rows = log[r]
  BY DEF MigratedInv
<1>. PICK row : row = Migrated!NewRow(r, kind)
  OBVIOUS
<1>1. CASE Migrated!Hashed
  <2>1. row = NextRow(rows, kind)
    BY <1>1 DEF Migrated!NewRow, Migrated!PrevHash, Migrated!EventHash, NextRow
  <2>2. Chained(rows)
    BY <1>1 DEF MigratedInv, RunInv
  <2>3. row \in EventRow
    BY <2>1, <2>2, NextRowType
  <2>4. /\ Chained(Append(rows, row))
        /\ Migrated!Linked(rows) => Migrated!Linked(Append(rows, row))
        /\ Migrated!Linked(rows) /\ Counted(rows) => Counted(Append(rows, row))
    BY <2>1, <2>2, NextRowChained
  <2>5. /\ Append(rows, row) \in Seq(EventRow)
        /\ Len(Append(rows, row)) = Len(rows) + 1
        /\ Append(rows, row)[Len(rows) + 1] = row
        /\ Len(rows) + 1 \in DOMAIN Append(rows, row)
        /\ Len(rows) \in Nat
    <3>1. Len(rows) \in Nat /\ Len(rows) + 1 \in 1 .. Len(rows) + 1
      OBVIOUS
    <3>. QED  BY <2>3, <3>1, AppendType
  <2>6. Counted(Append(rows, row)) => Len(row.hash) = Len(rows) + 1
    BY <2>5 DEF Counted
  <2>. QED  BY <1>1, <2>4, <2>5, <2>6 DEF Longer
<1>2. CASE ~Migrated!Hashed
  <2>1. row = [sequence |-> Len(rows) + 1, kind |-> kind, prev |-> None, hash |-> None]
    BY <1>2 DEF Migrated!NewRow
  <2>2. Unhashed(rows)
    BY <1>2 DEF MigratedInv, RunInv
  <2>3. Append(rows, row) \in Seq(EventRow) /\ Unhashed(Append(rows, row))
    BY <2>1, <2>2, UnhashedRow
  <2>4. Len(rows) \in Nat /\ Len(Append(rows, row)) = Len(rows) + 1
    OBVIOUS
  <2>. QED  BY <1>2, <2>3, <2>4 DEF Longer
<1>. QED  BY <1>1, <1>2

\* A step that appends to the log of run r, and may change its binding, board and
\* seal as well, is a matter of run r.
LEMMA RunStep ==
  ASSUME MigratedInv, NEW r \in Runs, NEW kind \in Kinds, Migrated!Insert(r, kind),
         schema' = schema,
         binding' \in [Runs -> {None, "0.2.0", "0.3.0"}], board' \in [Runs -> BOOLEAN],
         DOMAIN seal' = Runs,
         \A q \in Runs \ {r} :
           binding'[q] = binding[q] /\ board'[q] = board[q] /\ seal'[q] = seal[q],
         binding'[r] = "0.3.0" =>
           schema = "bound" /\ Migrated!Linked(log[r]) /\ Counted(log[r]),
         board'[r] => binding'[r] = "0.3.0",
         seal'[r] # None =>
           /\ board'[r]
           /\ seal'[r].at \in 1 .. Len(log[r]) + 1
           /\ Len(seal'[r].hash) = seal'[r].at
  PROVE  MigratedInv'
<1>. PICK longer \in Seq(EventRow) : longer = Longer(r, kind)
  BY LongerIs
<1>1. log' = [log EXCEPT ![r] = longer]
  BY DEF Migrated!Insert, Longer
<1>2. /\ log' \in [Runs -> Seq(EventRow)]
      /\ log'[r] = longer
      /\ \A q \in Runs \ {r} : log'[q] = log[q]
  BY <1>1 DEF MigratedInv
<1>3. Migrated!Hashed' <=> Migrated!Hashed
  BY DEF Migrated!Hashed
<1>4. ASSUME NEW q \in Runs \ {r}
      PROVE  RunInv(q)'
  <2>1. RunInv(q)
    BY DEF MigratedInv
  <2>. QED  BY <1>2, <1>3, <2>1 DEF RunInv
<1>5. RunInv(r)'
  <2>1. IF Migrated!Hashed THEN Chained(longer) ELSE Unhashed(longer)
    BY LongerIs
  <2>2. binding'[r] = "0.3.0" =>
          schema = "bound" /\ Migrated!Linked(longer) /\ Counted(longer)
    BY LongerIs DEF Migrated!Hashed
  <2>3. Len(longer) = Len(log[r]) + 1
    BY LongerIs
  <2>. QED  BY <1>2, <1>3, <2>1, <2>2, <2>3 DEF RunInv
<1>. QED  BY <1>2, <1>4, <1>5 DEF MigratedInv

\* A new run has no rows yet, and so none with placeholders.
LEMMA CreateRunStep ==
  ASSUME MigratedInv, NEW r \in Runs, NEW kind \in Kinds, Migrated!CreateRun(r, kind)
  PROVE  MigratedInv'
<1>1. /\ log[r] = <<>>
      /\ Migrated!Insert(r, kind)
      /\ binding' = [binding EXCEPT ![r] = IF schema = "bound" THEN "0.3.0" ELSE None]
      /\ UNCHANGED <<schema, board, seal>>
  BY DEF Migrated!CreateRun, Migrated!Exists
<1>2. Migrated!Linked(log[r]) /\ Counted(log[r])
  BY <1>1 DEF Migrated!Linked, Counted
<1>3. seal[r] = None
  BY <1>1 DEF MigratedInv, RunInv
<1>4. board[r] => schema = "bound"
  BY DEF MigratedInv, RunInv
<1>5. /\ binding' \in [Runs -> {None, "0.2.0", "0.3.0"}]
      /\ binding'[r] = IF schema = "bound" THEN "0.3.0" ELSE None
      /\ \A q \in Runs \ {r} : binding'[q] = binding[q]
  BY <1>1 DEF MigratedInv
<1>6. binding'[r] = "0.3.0" => schema = "bound"
  BY <1>5, FormsOfBodies
<1>7. board' \in [Runs -> BOOLEAN] /\ DOMAIN seal' = Runs
  BY <1>1 DEF MigratedInv
<1>. QED  BY <1>1, <1>2, <1>3, <1>4, <1>5, <1>6, <1>7, RunStep

\* A run that is bound to the present catalog goes on as it began.
LEMMA AppendEventStep ==
  ASSUME MigratedInv, NEW r \in Runs, NEW kind \in Kinds, Migrated!AppendEvent(r, kind)
  PROVE  MigratedInv'
<1>1. Migrated!Insert(r, kind) /\ UNCHANGED <<schema, binding, board, seal>>
  BY DEF Migrated!AppendEvent
<1>2. /\ binding[r] = "0.3.0" =>
           schema = "bound" /\ Migrated!Linked(log[r]) /\ Counted(log[r])
      /\ board[r] => binding[r] = "0.3.0"
      /\ seal[r] # None =>
           /\ board[r]
           /\ seal[r].at \in 1 .. Len(log[r]) + 1
           /\ Len(seal[r].hash) = seal[r].at
  <2>1. Len(log[r]) \in Nat
    BY LongerIs
  <2>2. \A n \in 1 .. Len(log[r]) : n \in 1 .. Len(log[r]) + 1
    BY <2>1
  <2>. QED  BY <2>2 DEF MigratedInv, RunInv
<1>3. /\ binding' \in [Runs -> {None, "0.2.0", "0.3.0"}] /\ board' \in [Runs -> BOOLEAN]
      /\ DOMAIN seal' = Runs
  BY <1>1 DEF MigratedInv
<1>. QED  BY <1>1, <1>2, <1>3, RunStep

\* A board is frozen under the present catalog only.
LEMMA FreezeBoardStep ==
  ASSUME MigratedInv, NEW r \in Runs, NEW kind \in Kinds, Migrated!FreezeBoard(r, kind)
  PROVE  MigratedInv'
<1>1. /\ ~board[r]
      /\ binding[r] = "0.3.0"
      /\ board' = [board EXCEPT ![r] = TRUE]
      /\ Migrated!Insert(r, kind)
      /\ UNCHANGED <<schema, binding, seal>>
  BY DEF Migrated!FreezeBoard, Migrated!Supported
<1>2. schema = "bound" /\ Migrated!Linked(log[r]) /\ Counted(log[r]) /\ seal[r] = None
  BY <1>1 DEF MigratedInv, RunInv
<1>3. /\ binding' \in [Runs -> {None, "0.2.0", "0.3.0"}] /\ board' \in [Runs -> BOOLEAN]
      /\ DOMAIN seal' = Runs
      /\ \A q \in Runs \ {r} : board'[q] = board[q]
  BY <1>1 DEF MigratedInv
<1>. QED  BY <1>1, <1>2, <1>3, RunStep

\* The seal is the hash of its own event, which counts as many as there are.
LEMMA SealPassportStep ==
  ASSUME MigratedInv, NEW r \in Runs, NEW kind \in Kinds, Migrated!SealPassport(r, kind)
  PROVE  MigratedInv'
<1>1. /\ board[r] = TRUE
      /\ Migrated!Insert(r, kind)
      /\ seal' = [seal EXCEPT ![r] = [hash |-> Migrated!NewRow(r, kind).hash,
                                      at |-> Len(log[r]) + 1]]
      /\ UNCHANGED <<schema, binding, board>>
  BY DEF Migrated!SealPassport, MigratedInv
<1>2. binding[r] = "0.3.0" /\ schema = "bound" /\ Migrated!Linked(log[r]) /\ Counted(log[r])
  BY <1>1 DEF MigratedInv, RunInv
<1>3. Len(Migrated!NewRow(r, kind).hash) = Len(log[r]) + 1 /\ Len(log[r]) \in Nat
  BY <1>2, LongerIs DEF Migrated!Hashed
<1>4. /\ DOMAIN seal' = Runs
      /\ \A q \in Runs \ {r} : seal'[q] = seal[q]
      /\ seal'[r] = [hash |-> Migrated!NewRow(r, kind).hash, at |-> Len(log[r]) + 1]
  BY <1>1 DEF MigratedInv
<1>5. seal'[r].at \in 1 .. Len(log[r]) + 1 /\ Len(seal'[r].hash) = seal'[r].at
  BY <1>3, <1>4
<1>6. /\ binding' \in [Runs -> {None, "0.2.0", "0.3.0"}] /\ board' \in [Runs -> BOOLEAN]
      /\ \A q \in Runs \ {r} : binding'[q] = binding[q] /\ board'[q] = board[q]
  BY <1>1 DEF MigratedInv
<1>. QED  BY <1>1, <1>2, <1>4, <1>5, <1>6, RunStep

\* Before 0005 no run is bound to a catalog; after it every row is a placeholder.
LEMMA AddHashesStep ==
  ASSUME MigratedInv, Migrated!AddHashes
  PROVE  MigratedInv'
<1>1. /\ schema = "plain" /\ schema' = "hashed"
      /\ log' = [r \in Runs |-> [i \in DOMAIN log[r] |-> Migrated!Copied(log[r][i])]]
      /\ UNCHANGED <<binding, board, seal>>
  BY DEF Migrated!AddHashes
<1>2. ASSUME NEW r \in Runs
      PROVE  log'[r] \in Seq(EventRow) /\ Chained(log'[r]) /\ RunInv(r)'
  <2>. PICK rows \in Seq(EventRow) : rows = log[r]
    BY DEF MigratedInv
  <2>. PICK n \in Nat : n = Len(rows)
    OBVIOUS
  <2>1. log'[r] = [i \in 1 .. n |-> Migrated!Copied(rows[i])]
    BY <1>1
  <2>2. ASSUME NEW i \in 1 .. n
        PROVE  LET row == Migrated!Copied(rows[i])
               IN  /\ row \in EventRow /\ row.sequence = i
                   /\ row.prev = Migrated!ZeroHash /\ row.hash = Migrated!ZeroHash
    <3>1. PICK row \in EventRow : row = rows[i]
      OBVIOUS
    <3>2. row.sequence = i
      BY <1>1, <3>1 DEF MigratedInv, RunInv, Migrated!Hashed, Unhashed
    <3>3. Migrated!ZeroHash \in Migrated!Hashes
      BY DEF Migrated!ZeroHash, Migrated!Hashes
    <3>. QED  BY <3>1, <3>2, <3>3 DEF Migrated!Copied, EventRow
  <2>3. log'[r] \in [1 .. n -> EventRow] /\ DOMAIN log'[r] = 1 .. n
    BY <2>1, <2>2
  <2>4. log'[r] \in Seq(EventRow)
    BY <2>3
  <2>5. Chained(log'[r])
    <3>1. Migrated!ZeroHash \in Migrated!Hashes
      BY DEF Migrated!ZeroHash, Migrated!Hashes
    <3>. QED  BY <2>1, <2>2, <2>3, <3>1 DEF Chained
  <2>6. binding[r] # "0.3.0" /\ ~board[r] /\ seal[r] = None
    BY <1>1 DEF MigratedInv, RunInv
  <2>7. RunInv(r)'
    BY <1>1, <2>5, <2>6 DEF RunInv, Migrated!Hashed
  <2>. QED  BY <2>4, <2>5, <2>7
<1>3. log' \in [Runs -> Seq(EventRow)]
  BY <1>1, <1>2
<1>. QED  BY <1>1, <1>2, <1>3 DEF MigratedInv

\* 0006 binds the runs it finds to the historical catalog, so that none of them gets
\* further.
LEMMA BindRunsStep ==
  ASSUME MigratedInv, Migrated!BindRuns
  PROVE  MigratedInv'
<1>1. /\ schema = "hashed" /\ schema' = "bound"
      /\ binding' = [r \in Runs |-> IF Migrated!Exists(r) THEN "0.2.0" ELSE None]
      /\ UNCHANGED <<log, board, seal>>
  BY DEF Migrated!BindRuns
<1>2. ASSUME NEW r \in Runs
      PROVE  RunInv(r)'
  <2>1. RunInv(r)
    BY DEF MigratedInv
  <2>2. ~board[r] /\ seal[r] = None
    BY <1>1, <2>1 DEF RunInv
  <2>3. binding'[r] # "0.3.0"
    BY <1>1, FormsOfBodies
  <2>4. Chained(log[r])
    BY <1>1, <2>1 DEF RunInv, Migrated!Hashed
  <2>. QED  BY <1>1, <2>2, <2>3, <2>4 DEF RunInv, Migrated!Hashed
<1>. QED  BY <1>1, <1>2 DEF MigratedInv

-----------------------------------------------------------------------------
(* The theorems.                                                           *)

\* At first there are no runs.
LEMMA InitEstablishes ==
  Migrated!Init => MigratedInv
<1>. SUFFICES ASSUME Migrated!Init PROVE MigratedInv
  OBVIOUS
<1>1. /\ schema = "plain"
      /\ log = [r \in Runs |-> <<>>]
      /\ binding = [r \in Runs |-> None]
      /\ board = [r \in Runs |-> FALSE]
      /\ seal = [r \in Runs |-> None]
  BY DEF Migrated!Init
<1>2. \A r \in Runs : RunInv(r)
  BY <1>1, FormsOfBodies DEF RunInv, Migrated!Hashed, Unhashed
<1>3. log \in [Runs -> Seq(EventRow)]
  <2>1. <<>> \in Seq(EventRow)
    OBVIOUS
  <2>. QED  BY <1>1, <2>1
<1>. QED  BY <1>1, <1>2, <1>3 DEF MigratedInv

\* Every step of MigratedRun keeps the invariant.
LEMMA NextKeeps ==
  MigratedInv /\ Migrated!Next => MigratedInv'
BY CreateRunStep, AppendEventStep, FreezeBoardStep, SealPassportStep, AddHashesStep,
   BindRunsStep DEF Migrated!Next

\* Steps of the other parts as well.
LEMMA StutterKeeps ==
  MigratedInv /\ UNCHANGED <<schema, log, binding, board, seal>> => MigratedInv'
BY DEF MigratedInv, RunInv, Migrated!Hashed

\* What the invariant says of the chains.
LEMMA ChainsHold ==
  MigratedInv => Migrated!NewEventsLink /\ Migrated!SealsCommit
<1>. SUFFICES ASSUME MigratedInv PROVE Migrated!NewEventsLink /\ Migrated!SealsCommit
  OBVIOUS
<1>1. Migrated!NewEventsLink
  BY DEF MigratedInv, RunInv, Chained, Migrated!NewEventsLink
<1>2. ASSUME NEW r \in Runs, seal[r] # None
      PROVE  /\ Migrated!Linked(SubSeq(log[r], 1, seal[r].at))
             /\ Len(seal[r].hash) = seal[r].at
  <2>1. /\ Migrated!Linked(log[r])
        /\ seal[r].at \in 1 .. Len(log[r])
        /\ Len(seal[r].hash) = seal[r].at
    BY <1>2 DEF MigratedInv, RunInv
  <2>. PICK rows \in Seq(EventRow) : rows = log[r]
    BY DEF MigratedInv
  <2>. PICK n \in 1 .. Len(rows) : n = seal[r].at
    BY <2>1
  <2>. PICK prefix : prefix = SubSeq(rows, 1, n)
    OBVIOUS
  <2>2. DOMAIN prefix = 1 .. n /\ \A i \in 1 .. n : prefix[i] = rows[i] /\ i \in DOMAIN rows
    OBVIOUS
  <2>3. \A i \in 1 .. n : i # 1 => i - 1 \in 1 .. n
    OBVIOUS
  <2>4. Migrated!Linked(prefix)
    <3>. SUFFICES ASSUME NEW i \in 1 .. n
         PROVE  /\ prefix[i].prev = IF i = 1 THEN Migrated!ZeroHash ELSE prefix[i - 1].hash
                /\ prefix[i].hash = Migrated!EventHash(prefix[i])
      BY <2>2 DEF Migrated!Linked
    <3>1. prefix[i] = rows[i] /\ i \in DOMAIN rows
      BY <2>2
    <3>2. i # 1 => prefix[i - 1] = rows[i - 1]
      BY <2>2, <2>3
    <3>3. /\ rows[i].prev = IF i = 1 THEN Migrated!ZeroHash ELSE rows[i - 1].hash
          /\ rows[i].hash = Migrated!EventHash(rows[i])
      BY <2>1, <3>1 DEF Migrated!Linked
    <3>. QED  BY <3>1, <3>2, <3>3
  <2>. QED  BY <2>1, <2>4
<1>. QED  BY <1>1, <1>2 DEF Migrated!SealsCommit

\* The chain of an old database goes on from its placeholders, and none of them is
\* under the seal of a passport.
THEOREM MigratedRunIsSafe ==
  Migrated!Spec => [](Migrated!NewEventsLink /\ Migrated!SealsCommit)
<1>1. MigratedInv /\ UNCHANGED Migrated!vars => MigratedInv'
  BY StutterKeeps DEF Migrated!vars
<1>. QED  BY <1>1, InitEstablishes, NextKeeps, ChainsHold, PTL DEF Migrated!Spec

\* The invariant of MigratedRun as a part of Services.
LEMMA MigratedPart ==
  SpecPart => []MigratedInv
<1>1. InitPart => MigratedInv
  BY InitEstablishes DEF InitPart
<1>2. MigratedInv /\ NextPart => MigratedInv'
  BY NextKeeps, StutterKeeps DEF NextPart, migratedVars
<1>3. MigratedInv /\ UNCHANGED <<part, vars, frozenVars, migratedVars, scoresVars, urlsVars>>
        => MigratedInv'
  BY StutterKeeps DEF migratedVars
<1>. QED  BY <1>1, <1>2, <1>3, PTL DEF SpecPart

\* The same of MigratedRun as the part of Services that the run checks.
THEOREM ChainsOfServices ==
  SpecPart => []MigratedChainsHold
<1>1. MigratedInv => MigratedChainsHold
  BY ChainsHold DEF MigratedChainsHold
<1>. QED  BY <1>1, MigratedPart, PTL

-----------------------------------------------------------------------------
(* FrozenRecords: the order of a list.                                     *)

\* FrozenRecords counts as this module does.
LEMMA SameCardinality ==
  ASSUME NEW S
  PROVE  Frozen!Cardinality(S) = Cardinality(S)
BY DEF Frozen!Cardinality, Cardinality

\* The positions of a list whose keys are not greater than that of j.
UpTo(keys, j) == {k \in DOMAIN keys : keys[k] <= keys[j]}

\* The keys of a list of n elements, each there once.
Keys(n) == {keys \in [1 .. n -> Nat] : \A a, b \in 1 .. n : keys[a] = keys[b] => a = b}

\* Of a list of n elements as many are up to one of them as is its place among them.
LEMMA UpToType ==
  ASSUME NEW n \in Nat, NEW keys \in Keys(n), NEW j \in 1 .. n
  PROVE  IsFiniteSet(UpTo(keys, j)) /\ Cardinality(UpTo(keys, j)) \in 1 .. n
<1>1. UpTo(keys, j) \subseteq 1 .. n /\ j \in UpTo(keys, j)
  BY DEF UpTo, Keys
<1>2. IsFiniteSet(1 .. n) /\ Cardinality(1 .. n) = n
  BY FS_Interval
<1>3. /\ IsFiniteSet(UpTo(keys, j))
      /\ Cardinality(UpTo(keys, j)) <= n
      /\ Cardinality(UpTo(keys, j)) \in Nat
  BY <1>1, <1>2, FS_Subset, FS_CardinalityType
<1>4. Cardinality(UpTo(keys, j)) # 0
  BY <1>1, <1>3, FS_EmptySet
<1>. QED  BY <1>3, <1>4

\* Different places for different elements.
LEMMA PlacesDiffer ==
  ASSUME NEW n \in Nat, NEW keys \in Keys(n), NEW a \in 1 .. n, NEW b \in 1 .. n,
         keys[a] < keys[b]
  PROVE  Cardinality(UpTo(keys, a)) < Cardinality(UpTo(keys, b))
<1>1. UpTo(keys, a) \subseteq UpTo(keys, b) /\ b \in UpTo(keys, b) /\ b \notin UpTo(keys, a)
  BY DEF UpTo, Keys
<1>2. UpTo(keys, a) # UpTo(keys, b)
  BY <1>1
<1>. QED  BY <1>1, <1>2, UpToType, FS_Subset

\* Every place of the order is one of the list.
LEMMA PlaceIsOne ==
  ASSUME NEW n \in Nat, NEW keys \in Keys(n)
  PROVE  /\ \A i \in 1 .. n : /\ Frozen!Place(keys, i) \in 1 .. n
                             /\ Cardinality(UpTo(keys, Frozen!Place(keys, i))) = i
         /\ \A j \in 1 .. n : Frozen!Place(keys, Cardinality(UpTo(keys, j))) = j
<1>. DEFINE rank == [j \in 1 .. n |-> Cardinality(UpTo(keys, j))]
<1>1. rank \in [1 .. n -> 1 .. n]
  BY UpToType
<1>2. ASSUME NEW a \in 1 .. n, NEW b \in 1 .. n, rank[a] = rank[b]
      PROVE  a = b
  <2>1. keys[a] \in Nat /\ keys[b] \in Nat /\ (keys[a] = keys[b] => a = b)
    BY DEF Keys
  <2>2. ~ (keys[a] < keys[b]) /\ ~ (keys[b] < keys[a])
    BY <1>1, <1>2, PlacesDiffer
  <2>. QED  BY <2>1, <2>2
<1>3. rank \in Surjection(1 .. n, 1 .. n)
  <2>1. rank \in Injection(1 .. n, 1 .. n)
    BY <1>1, <1>2 DEF Injection, IsInjective
  <2>2. IsFiniteSet(1 .. n)
    BY FS_Interval
  <2>. QED  BY <2>1, <2>2, FS_Injection
<1>4. \A i \in 1 .. n : \E j \in 1 .. n : rank[j] = i
  BY <1>3 DEF Surjection
<1>5. DOMAIN keys = 1 .. n
  BY DEF Keys
<1>6. ASSUME NEW i \in 1 .. n
      PROVE  Frozen!Place(keys, i) \in 1 .. n /\ rank[Frozen!Place(keys, i)] = i
  <2>. DEFINE Ranked(j) == i = Frozen!Cardinality({k \in DOMAIN keys : keys[k] <= keys[j]})
  <2>1. ASSUME NEW j \in DOMAIN keys
        PROVE  Ranked(j) <=> i = rank[j]
    BY <1>5, SameCardinality DEF UpTo
  <2>2. Frozen!Place(keys, i) = CHOOSE j \in DOMAIN keys : Ranked(j)
    BY DEF Frozen!Place
  <2>. HIDE DEF Ranked
  <2>3. \E j \in DOMAIN keys : Ranked(j)
    BY <1>4, <1>5, <2>1
  <2>4. Frozen!Place(keys, i) \in DOMAIN keys /\ Ranked(Frozen!Place(keys, i))
    BY <2>2, <2>3, Zenon
  <2>. QED  BY <1>5, <2>1, <2>4
<1>7. ASSUME NEW j \in 1 .. n
      PROVE  Frozen!Place(keys, rank[j]) = j
  BY <1>1, <1>2, <1>6
<1>. QED  BY <1>6, <1>7

\* A function on the places of a list is a list.
LEMMA FunctionIsList ==
  ASSUME NEW n \in Nat, NEW S, NEW f, f \in [1 .. n -> S]
  PROVE  f \in Seq(S) /\ Len(f) = n
OBVIOUS

\* A list the other way round.
Turned(n, keys) == [i \in 1 .. n |-> keys[n - i + 1]]

\* The places of the order are the same elements of a list turned round.
LEMMA PlaceOfTurned ==
  ASSUME NEW n \in Nat, NEW keys \in Keys(n)
  PROVE  /\ Turned(n, keys) \in Keys(n)
         /\ \A i \in 1 .. n : Frozen!Place(Turned(n, keys), i) = n - Frozen!Place(keys, i) + 1
<1>. PICK turned : turned = Turned(n, keys)
  OBVIOUS
<1>0. \A i \in 1 .. n : n - i + 1 \in 1 .. n /\ n - (n - i + 1) + 1 = i
  OBVIOUS
<1>1. /\ DOMAIN turned = 1 .. n
      /\ \A i \in 1 .. n : turned[i] = keys[n - i + 1]
      /\ DOMAIN keys = 1 .. n
      /\ \A i \in 1 .. n : keys[i] \in Nat
      /\ \A a, b \in 1 .. n : keys[a] = keys[b] => a = b
  BY DEF Turned, Keys
<1>2. turned \in Keys(n)
  <2>1. turned \in [1 .. n -> Nat]
    BY <1>0, <1>1 DEF Turned
  <2>2. ASSUME NEW a \in 1 .. n, NEW b \in 1 .. n, turned[a] = turned[b]
        PROVE  a = b
    <3>1. n - a + 1 = n - b + 1
      BY <1>0, <1>1, <2>2
    <3>. QED  BY <3>1
  <2>. QED  BY <2>1, <2>2 DEF Keys
<1>3. ASSUME NEW i \in 1 .. n
      PROVE  Frozen!Place(turned, i) = n - Frozen!Place(keys, i) + 1
  <2>. PICK p \in 1 .. n : p = Frozen!Place(keys, i)
    BY PlaceIsOne
  <2>. PICK j \in 1 .. n : j = n - p + 1
    BY <1>0
  <2>1. Cardinality(UpTo(keys, p)) = i
    BY PlaceIsOne
  <2>2. Cardinality(UpTo(turned, j)) = Cardinality(UpTo(keys, p))
    <3>. DEFINE f == [k \in UpTo(turned, j) |-> n - k + 1]
    <3>1. keys[p] = turned[j]
      BY <1>0, <1>1
    <3>2. ASSUME NEW k \in 1 .. n
          PROVE  k \in UpTo(turned, j) <=> n - k + 1 \in UpTo(keys, p)
      BY <1>0, <1>1, <3>1 DEF UpTo
    <3>3. UpTo(turned, j) \subseteq 1 .. n /\ UpTo(keys, p) \subseteq 1 .. n
      BY <1>1 DEF UpTo
    <3>4. f \in [UpTo(turned, j) -> UpTo(keys, p)]
      BY <3>2, <3>3
    <3>5. \A a, b \in UpTo(turned, j) : f[a] = f[b] => a = b
      <4>. SUFFICES ASSUME NEW a \in UpTo(turned, j), NEW b \in UpTo(turned, j),
                           f[a] = f[b]
                    PROVE  a = b
        OBVIOUS
      <4>1. a \in 1 .. n /\ b \in 1 .. n
        BY <3>3
      <4>2. n - a + 1 = n - b + 1
        OBVIOUS
      <4>. QED  BY <4>1, <4>2
    <3>6. ASSUME NEW t \in UpTo(keys, p)
          PROVE  \E k \in UpTo(turned, j) : f[k] = t
      <4>1. n - t + 1 \in 1 .. n /\ n - (n - t + 1) + 1 = t
        BY <1>0, <3>3
      <4>2. n - t + 1 \in UpTo(turned, j)
        BY <3>2, <4>1
      <4>. QED  BY <4>1, <4>2
    <3>7. f \in Bijection(UpTo(turned, j), UpTo(keys, p))
      BY <3>4, <3>5, <3>6 DEF Bijection, Injection, Surjection, IsInjective
    <3>8. IsFiniteSet(UpTo(turned, j))
      BY <1>2, UpToType
    <3>. QED  BY <3>7, <3>8, FS_Bijection DEF ExistsBijection
  <2>3. Frozen!Place(turned, Cardinality(UpTo(turned, j))) = j
    BY <1>2, PlaceIsOne
  <2>. QED  BY <2>1, <2>2, <2>3
<1>. QED  BY <1>2, <1>3

\* What is in one list is in the other.
Within(n, f, g) == \A i \in 1 .. n : \E j \in 1 .. n : f[i] = g[j]

\* Lists of the same elements.
LEMMA SameRange ==
  ASSUME NEW n \in Nat, NEW f, NEW g, DOMAIN f = 1 .. n, DOMAIN g = 1 .. n,
         Within(n, f, g), Within(n, g, f)
  PROVE  Frozen!Range(f) = Frozen!Range(g)
<1>1. ASSUME NEW x
      PROVE  x \in Frozen!Range(f) <=> x \in Frozen!Range(g)
  <2>1. x \in Frozen!Range(f) <=> \E i \in 1 .. n : x = f[i]
    BY Zenon DEF Frozen!Range
  <2>2. x \in Frozen!Range(g) <=> \E i \in 1 .. n : x = g[i]
    BY Zenon DEF Frozen!Range
  <2>. QED  BY <2>1, <2>2 DEF Within
<1>. QED  BY <1>1

\* FrozenRecords puts a list of references in order: the same references, each once,
\* and the same list if they came in the other order.
LEMMA OrderedList ==
  ASSUME NEW list \in Seq(Nat), Frozen!NoDuplicates(list)
  PROVE  /\ Frozen!Ordered(list) \in Seq(Nat)
         /\ Frozen!NoDuplicates(Frozen!Ordered(list))
         /\ Frozen!Range(Frozen!Ordered(list)) = Frozen!Range(list)
         /\ Frozen!Reverse(list) \in Seq(Nat)
         /\ Frozen!NoDuplicates(Frozen!Reverse(list))
         /\ Frozen!Range(Frozen!Reverse(list)) = Frozen!Range(list)
         /\ Frozen!Ordered(Frozen!Reverse(list)) = Frozen!Ordered(list)
<1>. PICK n \in Nat : n = Len(list)
  OBVIOUS
<1>. PICK back : back = Frozen!Reverse(list)
  OBVIOUS
<1>. PICK sorted : sorted = Frozen!Ordered(list)
  OBVIOUS
<1>1. DOMAIN list = 1 .. n /\ (\A i \in 1 .. n : list[i] \in Nat) /\ list \in Keys(n)
  BY DEF Keys, Frozen!NoDuplicates, Frozen!IsInjective
<1>2. back = Turned(n, list)
  BY <1>1 DEF Frozen!Reverse, Turned
<1>3. /\ back \in Keys(n)
      /\ \A i \in 1 .. n : Frozen!Place(back, i) = n - Frozen!Place(list, i) + 1
  BY <1>1, <1>2, PlaceOfTurned
<1>4. /\ \A i \in 1 .. n : /\ Frozen!Place(list, i) \in 1 .. n
                          /\ Cardinality(UpTo(list, Frozen!Place(list, i))) = i
      /\ \A j \in 1 .. n : Frozen!Place(list, Cardinality(UpTo(list, j))) = j
  BY <1>1, PlaceIsOne
<1>5. /\ DOMAIN sorted = 1 .. n
      /\ \A i \in 1 .. n : sorted[i] = list[Frozen!Place(list, i)]
  BY <1>1 DEF Frozen!Ordered
<1>6. sorted \in Seq(Nat) /\ back \in Seq(Nat) /\ DOMAIN back = 1 .. n
  <2>1. sorted = [i \in 1 .. n |-> list[Frozen!Place(list, i)]]
    BY <1>1 DEF Frozen!Ordered
  <2>2. \A i \in 1 .. n : list[Frozen!Place(list, i)] \in Nat
    BY <1>1, <1>4
  <2>3. sorted \in [1 .. n -> Nat] /\ back \in [1 .. n -> Nat]
    BY <1>3, <2>1, <2>2 DEF Keys
  <2>. QED  BY <2>3, FunctionIsList
<1>7. Frozen!NoDuplicates(sorted)
  <2>1. ASSUME NEW a \in 1 .. n, NEW b \in 1 .. n, sorted[a] = sorted[b]
        PROVE  a = b
    <3>1. Frozen!Place(list, a) = Frozen!Place(list, b)
      <4>1. Frozen!Place(list, a) \in 1 .. n /\ Frozen!Place(list, b) \in 1 .. n
        BY <1>4
      <4>2. list[Frozen!Place(list, a)] = list[Frozen!Place(list, b)]
        BY <1>5, <2>1
      <4>. QED  BY <1>1, <4>1, <4>2 DEF Keys
    <3>. QED  BY <1>4, <3>1
  <2>. QED  BY <1>5, <2>1 DEF Frozen!NoDuplicates, Frozen!IsInjective
<1>8. Frozen!Range(sorted) = Frozen!Range(list)
  <2>1. ASSUME NEW j \in 1 .. n
        PROVE  \E i \in 1 .. n : list[j] = sorted[i]
    <3>1. Cardinality(UpTo(list, j)) \in 1 .. n
      BY <1>1, UpToType
    <3>. QED  BY <1>4, <1>5, <3>1
  <2>2. Within(n, sorted, list) /\ Within(n, list, sorted)
    BY <1>4, <1>5, <2>1 DEF Within
  <2>. QED  BY <1>1, <1>5, <2>2, SameRange
<1>9. Frozen!NoDuplicates(back) /\ Frozen!Range(back) = Frozen!Range(list)
  <2>1. Frozen!NoDuplicates(back)
    BY <1>3, <1>6 DEF Keys, Frozen!NoDuplicates, Frozen!IsInjective
  <2>2. \A i \in 1 .. n : n - i + 1 \in 1 .. n /\ back[i] = list[n - i + 1]
                         /\ back[n - i + 1] = list[i]
    BY <1>2 DEF Turned
  <2>3. Frozen!Range(back) = Frozen!Range(list)
    <3>1. Within(n, back, list) /\ Within(n, list, back)
      BY <2>2 DEF Within
    <3>. QED  BY <1>1, <1>6, <3>1, SameRange
  <2>. QED  BY <2>1, <2>3
<1>10. Frozen!Ordered(back) = sorted
  <2>1. ASSUME NEW i \in 1 .. n
        PROVE  back[Frozen!Place(back, i)] = list[Frozen!Place(list, i)]
    <3>. PICK p \in 1 .. n : p = Frozen!Place(list, i)
      BY <1>4
    <3>. PICK q \in 1 .. n : q = n - p + 1 /\ n - q + 1 = p
      OBVIOUS
    <3>1. back[q] = list[n - q + 1]
      BY <1>2 DEF Turned
    <3>2. Frozen!Place(back, i) = q
      BY <1>3
    <3>. QED  BY <3>1, <3>2
  <2>2. /\ Frozen!Ordered(back) = [i \in 1 .. n |-> back[Frozen!Place(back, i)]]
        /\ sorted = [i \in 1 .. n |-> list[Frozen!Place(list, i)]]
    BY <1>1, <1>6 DEF Frozen!Ordered
  <2>. QED  BY <2>1, <2>2
<1>. QED  BY <1>6, <1>7, <1>8, <1>9, <1>10

-----------------------------------------------------------------------------
(* FrozenRecords: claims and statements.                                   *)

ClaimRow == [id: Nat, check: STRING, cites: Seq(Nat)]
StatementRow == [id: Nat, cites: Seq(Nat)]
Forms == {ClaimRow, StatementRow}

InOrder(c) == [c EXCEPT !.cites = Frozen!Ordered(@)]
Backwards(c) == [c EXCEPT !.cites = Frozen!Reverse(@)]

\* A claim or a statement with its references in order, or the other way round.
LEMMA CitesOnly ==
  ASSUME NEW Form \in Forms, NEW c \in Form, Frozen!NoDuplicates(c.cites)
  PROVE  /\ c.id \in Nat /\ c.cites \in Seq(Nat)
         /\ InOrder(c) \in Form
         /\ InOrder(c).id = c.id
         /\ Frozen!Range(InOrder(c).cites) = Frozen!Range(c.cites)
         /\ Backwards(c) \in Form
         /\ Backwards(c).id = c.id
         /\ c \in ClaimRow => Backwards(c).check = c.check
         /\ Backwards(c).cites = Frozen!Reverse(c.cites)
         /\ InOrder(Backwards(c)) = InOrder(c)
<1>0. c.id \in Nat /\ c.cites \in Seq(Nat)
  <2>1. CASE Form = ClaimRow
    BY <2>1 DEF ClaimRow
  <2>2. CASE Form = StatementRow
    BY <2>2 DEF StatementRow
  <2>. QED  BY <2>1, <2>2 DEF Forms
<1>. PICK cites \in Seq(Nat) : cites = c.cites
  BY <1>0
<1>1. Frozen!NoDuplicates(cites)
  OBVIOUS
<1>. PICK sorted \in Seq(Nat) : sorted = Frozen!Ordered(cites)
  BY <1>1, OrderedList
<1>. PICK back \in Seq(Nat) : back = Frozen!Reverse(cites)
  BY <1>1, OrderedList
<1>2. Frozen!Range(sorted) = Frozen!Range(cites) /\ Frozen!Ordered(back) = sorted
  BY <1>1, OrderedList
<1>3. InOrder(c) = [c EXCEPT !.cites = sorted] /\ Backwards(c) = [c EXCEPT !.cites = back]
  BY DEF InOrder, Backwards
<1>. DEFINE Goal ==
      /\ InOrder(c) \in Form
      /\ InOrder(c).id = c.id
      /\ Frozen!Range(InOrder(c).cites) = Frozen!Range(c.cites)
      /\ Backwards(c) \in Form
      /\ Backwards(c).id = c.id
      /\ Backwards(c).cites = Frozen!Reverse(c.cites)
      /\ InOrder(Backwards(c)) = InOrder(c)
<1>4. ASSUME Form = ClaimRow  PROVE Goal
  <2>1. c \in [id: Nat, check: STRING, cites: Seq(Nat)]
    BY <1>4 DEF ClaimRow
  <2>2. /\ [c EXCEPT !.cites = sorted] \in [id: Nat, check: STRING, cites: Seq(Nat)]
        /\ [c EXCEPT !.cites = back] \in [id: Nat, check: STRING, cites: Seq(Nat)]
    BY <2>1
  <2>3. InOrder([c EXCEPT !.cites = back]) = [c EXCEPT !.cites = sorted]
    BY <1>2, <2>1 DEF InOrder
  <2>. QED  BY <1>2, <1>3, <1>4, <2>1, <2>2, <2>3 DEF ClaimRow
<1>5. ASSUME Form = StatementRow  PROVE Goal
  <2>1. c \in [id: Nat, cites: Seq(Nat)]
    BY <1>5 DEF StatementRow
  <2>2. /\ [c EXCEPT !.cites = sorted] \in [id: Nat, cites: Seq(Nat)]
        /\ [c EXCEPT !.cites = back] \in [id: Nat, cites: Seq(Nat)]
    BY <2>1
  <2>3. InOrder([c EXCEPT !.cites = back]) = [c EXCEPT !.cites = sorted]
    BY <1>2, <2>1 DEF InOrder
  <2>. QED  BY <1>2, <1>3, <1>5, <2>1, <2>2, <2>3 DEF StatementRow
<1>6. c \in ClaimRow => Backwards(c).check = c.check
  BY <1>3 DEF ClaimRow
<1>. QED  BY <1>0, <1>4, <1>5, <1>6 DEF Forms

\* What the handlers let through: each id once, and in each claim or statement each
\* reference once.
Sound(Form, list) ==
  /\ list \in Seq(Form)
  /\ Frozen!NoDuplicates(Frozen!Ids(list))
  /\ \A i \in DOMAIN list : Frozen!NoDuplicates(list[i].cites)

\* The ids of such a list.
LEMMA IdsAreKeys ==
  ASSUME NEW Form \in Forms, NEW list, Sound(Form, list), NEW n \in Nat, n = Len(list)
  PROVE  /\ DOMAIN list = 1 .. n
         /\ \A i \in 1 .. n : list[i] \in Form /\ Frozen!NoDuplicates(list[i].cites)
         /\ Frozen!Ids(list) \in Keys(n)
         /\ \A i \in 1 .. n : Frozen!Ids(list)[i] = list[i].id
<1>1. /\ DOMAIN list = 1 .. n
      /\ \A i \in 1 .. n : list[i] \in Form /\ Frozen!NoDuplicates(list[i].cites)
  BY DEF Sound
<1>2. Frozen!Ids(list) = [i \in 1 .. n |-> list[i].id]
  BY <1>1 DEF Frozen!Ids
<1>3. \A i \in 1 .. n : list[i].id \in Nat
  BY <1>1, CitesOnly
<1>4. \A a, b \in DOMAIN Frozen!Ids(list) :
        Frozen!Ids(list)[a] = Frozen!Ids(list)[b] => a = b
  BY DEF Sound, Frozen!NoDuplicates, Frozen!IsInjective
<1>. QED  BY <1>1, <1>2, <1>3, <1>4 DEF Keys

\* Everything that a list cites.
LEMMA CitedBy ==
  ASSUME NEW list, NEW x
  PROVE  x \in Frozen!Cited(list)
           <=> \E i \in DOMAIN list : x \in Frozen!Range(list[i].cites)
BY DEF Frozen!Cited

\* The normal form: the same claims or statements, which cite the same.
LEMMA NormalList ==
  ASSUME NEW Form \in Forms, NEW list, Sound(Form, list)
  PROVE  /\ Frozen!Normal(list) \in Seq(Form)
         /\ Frozen!Cited(Frozen!Normal(list)) = Frozen!Cited(list)
<1>. PICK n \in Nat : n = Len(list)
  BY DEF Sound
<1>. PICK keys : keys = Frozen!Ids(list)
  OBVIOUS
<1>1. /\ DOMAIN list = 1 .. n
      /\ \A i \in 1 .. n : list[i] \in Form /\ Frozen!NoDuplicates(list[i].cites)
      /\ keys \in Keys(n)
  BY IdsAreKeys
<1>2. /\ \A i \in 1 .. n : Frozen!Place(keys, i) \in 1 .. n
      /\ \A j \in 1 .. n : Frozen!Place(keys, Cardinality(UpTo(keys, j))) = j
      /\ \A j \in 1 .. n : Cardinality(UpTo(keys, j)) \in 1 .. n
  BY <1>1, PlaceIsOne, UpToType
<1>3. Frozen!Normal(list) = [i \in 1 .. n |-> InOrder(list[Frozen!Place(keys, i)])]
  BY <1>1 DEF Frozen!Normal, InOrder
<1>. PICK normal : normal = Frozen!Normal(list)
  OBVIOUS
<1>4. ASSUME NEW i \in 1 .. n
      PROVE  /\ InOrder(list[i]) \in Form
             /\ Frozen!Range(InOrder(list[i]).cites) = Frozen!Range(list[i].cites)
  BY <1>1, CitesOnly
<1>5. normal \in [1 .. n -> Form]
  BY <1>2, <1>3, <1>4
<1>6. ASSUME NEW x
      PROVE  x \in Frozen!Cited(normal) <=> x \in Frozen!Cited(list)
  <2>1. ASSUME NEW i \in 1 .. n, x \in Frozen!Range(normal[i].cites)
        PROVE  \E j \in 1 .. n : x \in Frozen!Range(list[j].cites)
    BY SMTT(30), <1>2, <1>3, <1>4, <2>1
  <2>2. ASSUME NEW j \in 1 .. n, x \in Frozen!Range(list[j].cites)
        PROVE  \E i \in 1 .. n : x \in Frozen!Range(normal[i].cites)
    <3>1. normal[Cardinality(UpTo(keys, j))] = InOrder(list[j])
      BY <1>2, <1>3
    <3>. QED  BY <1>2, <1>4, <2>2, <3>1
  <2>3. DOMAIN normal = 1 .. n
    BY <1>5
  <2>. QED  BY <1>1, <2>1, <2>2, <2>3, CitedBy
<1>. QED  BY <1>5, <1>6, FunctionIsList

\* A list of claims or statements the other way round comes to the same.
LEMMA NormalReversed ==
  ASSUME NEW Form \in Forms, NEW list, Sound(Form, list)
  PROVE  /\ Sound(Form, Frozen!Reverse(list))
         /\ DOMAIN Frozen!Reverse(list) = DOMAIN list
         /\ \A i \in DOMAIN list : \E j \in DOMAIN list : Frozen!Reverse(list)[i] = list[j]
         /\ Frozen!Normal(Frozen!Reverse(list)) = Frozen!Normal(list)
<1>. PICK n \in Nat : n = Len(list)
  BY DEF Sound
<1>. PICK keys : keys = Frozen!Ids(list)
  OBVIOUS
<1>. PICK back : back = Frozen!Reverse(list)
  OBVIOUS
<1>1. /\ DOMAIN list = 1 .. n
      /\ \A i \in 1 .. n : list[i] \in Form /\ Frozen!NoDuplicates(list[i].cites)
      /\ keys \in Keys(n)
      /\ \A i \in 1 .. n : keys[i] = list[i].id
  BY IdsAreKeys
<1>2. back = [i \in 1 .. n |-> list[n - i + 1]]
  BY <1>1 DEF Frozen!Reverse
<1>3. \A i \in 1 .. n : n - i + 1 \in 1 .. n
  OBVIOUS
<1>4. DOMAIN back = 1 .. n /\ \A i \in 1 .. n : \E j \in 1 .. n : back[i] = list[j]
  BY <1>2, <1>3
<1>5. back \in Seq(Form)
  <2>1. back \in [1 .. n -> Form]
    BY <1>1, <1>2, <1>3
  <2>. QED  BY <2>1, FunctionIsList
<1>6. Frozen!Ids(back) = Turned(n, keys)
  <2>1. Frozen!Ids(back) = [i \in 1 .. n |-> back[i].id]
    BY <1>4 DEF Frozen!Ids
  <2>2. \A i \in 1 .. n : back[i].id = keys[n - i + 1]
    BY <1>1, <1>2, <1>3
  <2>. QED  BY <2>1, <2>2 DEF Turned
<1>7. /\ Turned(n, keys) \in Keys(n)
      /\ \A i \in 1 .. n : Frozen!Place(Turned(n, keys), i) = n - Frozen!Place(keys, i) + 1
  BY <1>1, PlaceOfTurned
<1>8. Sound(Form, back)
  <2>1. Frozen!NoDuplicates(Frozen!Ids(back))
    BY <1>6, <1>7 DEF Keys, Frozen!NoDuplicates, Frozen!IsInjective
  <2>2. \A i \in 1 .. n : Frozen!NoDuplicates(back[i].cites)
    BY <1>1, <1>4
  <2>. QED  BY <1>4, <1>5, <2>1, <2>2 DEF Sound
<1>9. Frozen!Normal(back) = Frozen!Normal(list)
  <2>1. ASSUME NEW i \in 1 .. n
        PROVE  back[Frozen!Place(Frozen!Ids(back), i)] = list[Frozen!Place(keys, i)]
    <3>. PICK p \in 1 .. n : p = Frozen!Place(keys, i)
      BY <1>1, PlaceIsOne
    <3>. PICK q \in 1 .. n : q = n - p + 1 /\ n - q + 1 = p
      OBVIOUS
    <3>1. back[q] = list[n - q + 1]
      BY <1>2
    <3>2. Frozen!Place(Frozen!Ids(back), i) = q
      BY <1>6, <1>7
    <3>. QED  BY <3>1, <3>2
  <2>2. /\ Frozen!Normal(back) =
             [i \in 1 .. n |-> InOrder(back[Frozen!Place(Frozen!Ids(back), i)])]
        /\ Frozen!Normal(list) = [i \in 1 .. n |-> InOrder(list[Frozen!Place(keys, i)])]
    BY <1>1, <1>4 DEF Frozen!Normal, InOrder
  <2>. QED  BY <2>1, <2>2
<1>. QED  BY <1>1, <1>4, <1>8, <1>9

\* Each claim with its references the other way round.
CitesTurned(list) == [i \in DOMAIN list |-> Backwards(list[i])]

\* It is the list of the property.
LEMMA TurnedIs ==
  \A list : Frozen!Turned(list) = CitesTurned(list)
BY DEF Frozen!Turned, CitesTurned, Backwards

\* Such a list comes to the same.
LEMMA NormalCitesTurned ==
  ASSUME NEW Form \in Forms, NEW list, Sound(Form, list)
  PROVE  /\ Sound(Form, CitesTurned(list))
         /\ Frozen!Normal(CitesTurned(list)) = Frozen!Normal(list)
<1>. PICK n \in Nat : n = Len(list)
  BY DEF Sound
<1>. PICK turned : turned = CitesTurned(list)
  OBVIOUS
<1>1. /\ DOMAIN list = 1 .. n
      /\ \A i \in 1 .. n : list[i] \in Form /\ Frozen!NoDuplicates(list[i].cites)
      /\ Frozen!Ids(list) \in Keys(n)
  BY IdsAreKeys
<1>2. turned = [i \in 1 .. n |-> Backwards(list[i])]
  BY <1>1 DEF CitesTurned
<1>3. ASSUME NEW i \in 1 .. n
      PROVE  /\ turned[i] \in Form
             /\ turned[i].id = list[i].id
             /\ Frozen!NoDuplicates(turned[i].cites)
             /\ InOrder(turned[i]) = InOrder(list[i])
  <2>1. list[i] \in Form /\ Frozen!NoDuplicates(list[i].cites) /\ turned[i] = Backwards(list[i])
    BY <1>1, <1>2
  <2>. PICK c \in Form : c = list[i]
    BY <2>1
  <2>2. Frozen!NoDuplicates(c.cites) /\ c.cites \in Seq(Nat)
    BY <2>1, CitesOnly
  <2>. QED  BY <2>1, <2>2, CitesOnly, OrderedList
<1>4. turned \in Seq(Form)
  BY <1>2, <1>3, FunctionIsList
<1>5. Frozen!Ids(turned) = Frozen!Ids(list)
  <2>1. DOMAIN turned = 1 .. n
    BY <1>2
  <2>2. /\ Frozen!Ids(turned) = [i \in 1 .. n |-> turned[i].id]
        /\ Frozen!Ids(list) = [i \in 1 .. n |-> list[i].id]
    BY <1>1, <2>1 DEF Frozen!Ids
  <2>. QED  BY <1>3, <2>2
<1>6. Sound(Form, turned)
  BY <1>2, <1>3, <1>4, <1>5 DEF Sound
<1>7. Frozen!Normal(turned) = Frozen!Normal(list)
  <2>1. /\ Frozen!Normal(turned) =
             [i \in 1 .. n |-> InOrder(turned[Frozen!Place(Frozen!Ids(list), i)])]
        /\ Frozen!Normal(list) =
             [i \in 1 .. n |-> InOrder(list[Frozen!Place(Frozen!Ids(list), i)])]
    BY <1>1, <1>2, <1>5 DEF Frozen!Normal, InOrder
  <2>2. \A i \in 1 .. n : Frozen!Place(Frozen!Ids(list), i) \in 1 .. n
    BY <1>1, PlaceIsOne
  <2>. QED  BY <1>3, <2>1, <2>2
<1>. QED  BY <1>6, <1>7

\* A request for a board, put the other way round in any of its lists.
LEMMA BoardEitherWay ==
  ASSUME NEW request \in Frozen!BoardRequests, Frozen!BoardAccepted(request),
         NEW other \in Frozen!BoardReversals(request)
  PROVE  /\ Frozen!BoardAccepted(other)
         /\ Frozen!BoardContent(other) = Frozen!BoardContent(request)
<1>. PICK list \in Seq(Nat) : list = request.evidence
  BY FormsOfBodies DEF Frozen!BoardRequests
<1>. PICK claims \in Seq(ClaimRow) : claims = request.claims
  BY FormsOfBodies DEF Frozen!BoardRequests, ClaimRow
<1>0. ClaimRow \in Forms
  BY DEF Forms
<1>1. /\ Frozen!NoDuplicates(list)
      /\ Frozen!Range(list) \subseteq evidence
      /\ Frozen!NoDuplicates(Frozen!Ids(claims))
      /\ \A i \in DOMAIN claims :
           /\ claims[i].check \in Frozen!Range(ProfileChecks)
           /\ Frozen!NoDuplicates(claims[i].cites)
           /\ Frozen!Range(claims[i].cites) \subseteq Frozen!Range(list)
  BY DEF Frozen!BoardAccepted, Frozen!RefersTo
<1>2. Sound(ClaimRow, claims)
  BY <1>1 DEF Sound
<1>. PICK e, c : /\ e \in {list, Frozen!Reverse(list)}
                 /\ c \in {claims, Frozen!Reverse(claims)}
                 /\ other = [evidence |-> e, claims |-> CitesTurned(c)]
  BY TurnedIs DEF Frozen!BoardReversals, Frozen!EitherWay
<1>3. /\ Frozen!NoDuplicates(e)
      /\ Frozen!Range(e) = Frozen!Range(list)
      /\ Frozen!Ordered(e) = Frozen!Ordered(list)
  BY <1>1, OrderedList
<1>4. /\ Sound(ClaimRow, c)
      /\ \A i \in DOMAIN c : \E j \in DOMAIN claims : c[i] = claims[j]
      /\ Frozen!Normal(c) = Frozen!Normal(claims)
  <2>1. CASE c = claims
    BY <1>2, <2>1
  <2>2. CASE c = Frozen!Reverse(claims)
    BY <1>0, <1>2, <2>2, NormalReversed
  <2>. QED  BY <2>1, <2>2
<1>5. /\ Sound(ClaimRow, CitesTurned(c))
      /\ Frozen!Normal(CitesTurned(c)) = Frozen!Normal(claims)
  BY <1>0, <1>4, NormalCitesTurned
<1>6. ASSUME NEW i \in DOMAIN CitesTurned(c)
      PROVE  /\ CitesTurned(c)[i].check \in Frozen!Range(ProfileChecks)
             /\ Frozen!NoDuplicates(CitesTurned(c)[i].cites)
             /\ Frozen!Range(CitesTurned(c)[i].cites) \subseteq Frozen!Range(list)
  <2>1. i \in DOMAIN c /\ CitesTurned(c)[i] = Backwards(c[i])
    BY DEF CitesTurned
  <2>. PICK j \in DOMAIN claims : c[i] = claims[j]
    BY <1>4, <2>1
  <2>. PICK claim \in ClaimRow : claim = claims[j]
    OBVIOUS
  <2>2. Frozen!NoDuplicates(claim.cites)
    BY <1>1
  <2>3. /\ Backwards(claim).check = claim.check
        /\ Backwards(claim).cites = Frozen!Reverse(claim.cites)
        /\ claim.cites \in Seq(Nat)
    BY <1>0, <2>2, CitesOnly
  <2>4. Frozen!Range(Frozen!Reverse(claim.cites)) = Frozen!Range(claim.cites)
    BY <2>2, <2>3, OrderedList
  <2>5. Frozen!NoDuplicates(CitesTurned(c)[i].cites)
    BY <1>5 DEF Sound
  <2>. QED  BY <1>1, <2>1, <2>3, <2>4, <2>5
<1>7. Frozen!NoDuplicates(Frozen!Ids(CitesTurned(c)))
  BY <1>5 DEF Sound
<1>8. Frozen!BoardAccepted(other)
  BY <1>1, <1>3, <1>6, <1>7 DEF Frozen!BoardAccepted, Frozen!RefersTo
<1>9. Frozen!BoardContent(other) = Frozen!BoardContent(request)
  BY <1>3, <1>5 DEF Frozen!BoardContent
<1>. QED  BY <1>8, <1>9

FindingRow == [check: STRING, verdict: STRING, cites: Seq(Nat)]

\* What FindingsAccepted says, finding by finding.
LEMMA AcceptedFindings ==
  ASSUME NEW v \in Versions, NEW list \in Seq(FindingRow), NEW n \in Nat, n = Len(list)
  PROVE  Frozen!FindingsAccepted(v, list)
           <=> /\ \A a, b \in 1 .. n : list[a].check = list[b].check => a = b
               /\ \A i \in 1 .. n : list[i].check \in Frozen!Range(ProfileChecks)
               /\ \A check \in Frozen!Range(ProfileChecks) :
                    \E i \in 1 .. n : list[i].check = check
               /\ \A i \in 1 .. n :
                    /\ Frozen!RefersTo(list[i].cites, Frozen!Range(boards[v].evidence))
                    /\ list[i].verdict # "not_applicable"
<1>. DEFINE checks == [i \in DOMAIN list |-> list[i].check]
<1>1. DOMAIN list = 1 .. n
  OBVIOUS
<1>2. Frozen!NoDuplicates(checks) <=> \A a, b \in 1 .. n : list[a].check = list[b].check => a = b
  BY <1>1 DEF Frozen!NoDuplicates, Frozen!IsInjective
<1>3. Frozen!Range(checks) = {list[i].check : i \in 1 .. n}
  BY <1>1 DEF Frozen!Range
<1>4. Frozen!Range(checks) = Frozen!Range(ProfileChecks)
        <=> /\ \A i \in 1 .. n : list[i].check \in Frozen!Range(ProfileChecks)
            /\ \A check \in Frozen!Range(ProfileChecks) :
                 \E i \in 1 .. n : list[i].check = check
  <2>. PICK in, of : in = Frozen!Range(checks) /\ of = Frozen!Range(ProfileChecks)
    OBVIOUS
  <2>1. \A x : x \in in <=> \E i \in 1 .. n : list[i].check = x
    BY <1>3
  <2>2. in = of <=> (\A x \in in : x \in of) /\ (\A x \in of : x \in in)
    OBVIOUS
  <2>3. (\A x \in in : x \in of) <=> \A i \in 1 .. n : list[i].check \in of
    BY <2>1
  <2>4. (\A x \in of : x \in in) <=> \A x \in of : \E i \in 1 .. n : list[i].check = x
    BY <2>1
  <2>. QED  BY <2>2, <2>3, <2>4
<1>. HIDE DEF checks
<1>5. Frozen!FindingsAccepted(v, list)
        <=> /\ Frozen!NoDuplicates(checks)
            /\ Frozen!Range(checks) = Frozen!Range(ProfileChecks)
            /\ \A i \in 1 .. n :
                 /\ Frozen!RefersTo(list[i].cites, Frozen!Range(boards[v].evidence))
                 /\ list[i].verdict # "not_applicable"
  BY <1>1 DEF Frozen!FindingsAccepted, checks
<1>. QED  BY <1>2, <1>4, <1>5

\* The finding of a check is the one there is.
LEMMA FindingOf ==
  ASSUME NEW list \in Seq(FindingRow), NEW n \in Nat, n = Len(list), NEW i \in 1 .. n,
         \A a, b \in 1 .. n : list[a].check = list[b].check => a = b
  PROVE  Frozen!Finding(list, list[i].check) = list[i]
<1>1. DOMAIN list = 1 .. n
  OBVIOUS
<1>. DEFINE Names(j) == list[j].check = list[i].check
<1>2. \A j \in 1 .. n : Names(j) <=> j = i
  OBVIOUS
<1>3. Frozen!Finding(list, list[i].check) = list[CHOOSE j \in 1 .. n : Names(j)]
  BY <1>1 DEF Frozen!Finding
<1>. HIDE DEF Names
<1>4. (CHOOSE j \in 1 .. n : Names(j)) = i
  BY <1>2
<1>. QED  BY <1>3, <1>4

\* Findings the other way round come to the same results.
LEMMA ResultsEitherWay ==
  ASSUME NEW v \in Versions, NEW list \in FindingLists, Frozen!FindingsAccepted(v, list)
  PROVE  /\ Frozen!FindingsAccepted(v, Frozen!Reverse(list))
         /\ Frozen!ResultsContent(Frozen!Reverse(list)) = Frozen!ResultsContent(list)
<1>. PICK n \in Nat : n = Len(list)
  BY FormsOfBodies
<1>0. list \in Seq(FindingRow)
  BY FormsOfBodies DEF FindingRow
<1>. PICK back : back = Frozen!Reverse(list)
  OBVIOUS
<1>1. DOMAIN list = 1 .. n /\ \A i \in 1 .. n : list[i] \in FindingRow
  BY <1>0
<1>2. back = [i \in 1 .. n |-> list[n - i + 1]]
  BY DEF Frozen!Reverse
<1>3. \A i \in 1 .. n : /\ n - i + 1 \in 1 .. n
                       /\ n - (n - i + 1) + 1 = i
                       /\ \A j \in 1 .. n : n - i + 1 = n - j + 1 => i = j
  OBVIOUS
<1>4. back \in [1 .. n -> FindingRow]
  BY <1>1, <1>2, <1>3
<1>5. back \in Seq(FindingRow) /\ Len(back) = n
  BY <1>4, FunctionIsList
<1>6. \A a, b \in 1 .. n : list[a].check = list[b].check => a = b
  BY <1>0, AcceptedFindings
<1>7. \A check \in Frozen!Range(ProfileChecks) : \E i \in 1 .. n : list[i].check = check
  BY <1>0, AcceptedFindings
<1>8. ASSUME NEW a \in 1 .. n, NEW b \in 1 .. n, back[a].check = back[b].check
      PROVE  a = b
  <2>. PICK c \in 1 .. n : c = n - a + 1 /\ back[a] = list[c]
    BY <1>2, <1>3
  <2>. PICK d \in 1 .. n : d = n - b + 1 /\ back[b] = list[d]
    BY SMTT(30), <1>2, <1>3
  <2>1. c = d
    BY <1>6, <1>8
  <2>. QED  BY <2>1
<1>9. Frozen!FindingsAccepted(v, back)
  <2>1. \A i \in 1 .. n : back[i].check \in Frozen!Range(ProfileChecks)
    BY <1>0, <1>2, <1>3, AcceptedFindings
  <2>2. ASSUME NEW check \in Frozen!Range(ProfileChecks)
        PROVE  \E i \in 1 .. n : back[i].check = check
    <3>. PICK j \in 1 .. n : list[j].check = check
      BY <1>7
    <3>1. back[n - j + 1] = list[j] /\ n - j + 1 \in 1 .. n
      BY <1>2, <1>3
    <3>. QED  BY <3>1
  <2>3. \A i \in 1 .. n :
          /\ Frozen!RefersTo(back[i].cites, Frozen!Range(boards[v].evidence))
          /\ back[i].verdict # "not_applicable"
    BY <1>0, <1>2, <1>3, AcceptedFindings
  <2>. QED  BY <1>5, <1>8, <2>1, <2>2, <2>3, AcceptedFindings
<1>10. ASSUME NEW check \in Frozen!Range(ProfileChecks)
       PROVE  Frozen!Finding(back, check) = Frozen!Finding(list, check)
  <2>. PICK j \in 1 .. n : list[j].check = check
    BY <1>7
  <2>. PICK i \in 1 .. n : i = n - j + 1 /\ n - i + 1 = j
    BY <1>3
  <2>1. back[i] = list[j]
    BY <1>2
  <2>2. Frozen!Finding(list, list[j].check) = list[j]
    BY <1>0, <1>6, FindingOf
  <2>3. Frozen!Finding(back, back[i].check) = back[i]
    BY <1>5, <1>8, FindingOf
  <2>. QED  BY <2>1, <2>2, <2>3
<1>11. \A i \in DOMAIN ProfileChecks :
         Frozen!Finding(back, ProfileChecks[i]) = Frozen!Finding(list, ProfileChecks[i])
  BY <1>10 DEF Frozen!Range
<1>12. Frozen!ResultsContent(back) = Frozen!ResultsContent(list)
  BY <1>11 DEF Frozen!ResultsContent
<1>. QED  BY <1>9, <1>12

\* A finding with its references the other way round.
LEMMA FindingTurned ==
  ASSUME NEW c \in FindingRow, Frozen!NoDuplicates(c.cites)
  PROVE  /\ Backwards(c) \in FindingRow
         /\ Backwards(c).check = c.check /\ Backwards(c).verdict = c.verdict
         /\ Frozen!NoDuplicates(Backwards(c).cites)
         /\ Frozen!Range(Backwards(c).cites) = Frozen!Range(c.cites)
<1>. PICK back : back = Frozen!Reverse(c.cites)
  OBVIOUS
<1>1. c.cites \in Seq(Nat)
  BY DEF FindingRow
<1>2. /\ back \in Seq(Nat) /\ Frozen!NoDuplicates(back)
      /\ Frozen!Range(back) = Frozen!Range(c.cites)
  BY <1>1, OrderedList
<1>3. Backwards(c) = [c EXCEPT !.cites = back]
  BY DEF Backwards
<1>. QED  BY <1>2, <1>3 DEF FindingRow

\* Other findings, and the same score.
LEMMA FindingsReplaced ==
  ASSUME NEW f, NEW g, NEW h, NEW r, r = [findings |-> f, score |-> h]
  PROVE  [r EXCEPT !.findings = g] = [findings |-> g, score |-> h]
OBVIOUS

\* Findings with what each cites the other way round are accepted as well, and only the
\* order of the citations in the stored findings shows it.
LEMMA ResultsTurned ==
  ASSUME NEW v \in Versions, NEW list \in FindingLists, Frozen!FindingsAccepted(v, list)
  PROVE  /\ Frozen!FindingsAccepted(v, Frozen!Turned(list))
         /\ Frozen!ResultsContent(Frozen!Turned(list))
              = [Frozen!ResultsContent(list) EXCEPT !.findings = Frozen!Turned(@)]
<1>. PICK n \in Nat : n = Len(list)
  BY FormsOfBodies
<1>. PICK m \in Nat : m = Len(ProfileChecks)
  BY FormsOfBodies
<1>0. list \in Seq(FindingRow)
  BY FormsOfBodies DEF FindingRow
<1>. PICK back : back = CitesTurned(list)
  OBVIOUS
<1>1. /\ DOMAIN list = 1 .. n /\ (\A i \in 1 .. n : list[i] \in FindingRow)
      /\ DOMAIN ProfileChecks = 1 .. m
  BY <1>0, FormsOfBodies
<1>2. back = [i \in 1 .. n |-> Backwards(list[i])]
  BY <1>1 DEF CitesTurned
<1>3. ASSUME NEW i \in 1 .. n
      PROVE  /\ back[i] \in FindingRow
             /\ back[i].check = list[i].check /\ back[i].verdict = list[i].verdict
             /\ Frozen!RefersTo(back[i].cites, Frozen!Range(boards[v].evidence))
  <2>1. Frozen!RefersTo(list[i].cites, Frozen!Range(boards[v].evidence))
    BY <1>0, AcceptedFindings
  <2>. PICK c \in FindingRow : c = list[i]
    BY <1>1
  <2>. QED  BY <1>2, <2>1, FindingTurned DEF Frozen!RefersTo
<1>4. back \in Seq(FindingRow) /\ Len(back) = n
  <2>1. back \in [1 .. n -> FindingRow]
    BY <1>2, <1>3
  <2>. QED  BY <2>1, FunctionIsList
<1>5. Frozen!FindingsAccepted(v, back)
  <2>1. \A a, b \in 1 .. n : back[a].check = back[b].check => a = b
    <3>1. \A a, b \in 1 .. n : list[a].check = list[b].check => a = b
      BY <1>0, AcceptedFindings
    <3>. QED  BY <1>3, <3>1
  <2>2. \A i \in 1 .. n : back[i].check \in Frozen!Range(ProfileChecks)
    <3>1. \A i \in 1 .. n : list[i].check \in Frozen!Range(ProfileChecks)
      BY <1>0, AcceptedFindings
    <3>. QED  BY <1>3, <3>1
  <2>3. \A check \in Frozen!Range(ProfileChecks) : \E i \in 1 .. n : back[i].check = check
    <3>1. \A check \in Frozen!Range(ProfileChecks) : \E i \in 1 .. n : list[i].check = check
      BY <1>0, AcceptedFindings
    <3>. QED  BY <1>3, <3>1
  <2>4. \A i \in 1 .. n :
          /\ Frozen!RefersTo(back[i].cites, Frozen!Range(boards[v].evidence))
          /\ back[i].verdict # "not_applicable"
    <3>1. \A i \in 1 .. n : list[i].verdict # "not_applicable"
      BY <1>0, AcceptedFindings
    <3>. QED  BY <1>3, <3>1
  <2>. QED  BY <1>4, <2>1, <2>2, <2>3, <2>4, AcceptedFindings
<1>6. ASSUME NEW i \in 1 .. m
      PROVE  /\ Frozen!Finding(back, ProfileChecks[i])
                  = Backwards(Frozen!Finding(list, ProfileChecks[i]))
             /\ Frozen!Finding(back, ProfileChecks[i]).verdict
                  = Frozen!Finding(list, ProfileChecks[i]).verdict
  <2>1. ProfileChecks[i] \in Frozen!Range(ProfileChecks)
    BY <1>1 DEF Frozen!Range
  <2>. PICK j \in 1 .. n : list[j].check = ProfileChecks[i]
    BY <1>0, <2>1, AcceptedFindings
  <2>2. \A a, b \in 1 .. n : list[a].check = list[b].check => a = b
    BY <1>0, AcceptedFindings
  <2>3. Frozen!Finding(list, list[j].check) = list[j]
    BY <1>0, <2>2, FindingOf
  <2>4. \A a, b \in 1 .. n : back[a].check = back[b].check => a = b
    BY <1>3, <2>2
  <2>5. Frozen!Finding(back, back[j].check) = back[j]
    BY <1>4, <2>4, FindingOf
  <2>. QED  BY <1>2, <1>3, <2>3, <2>5
<1>. DEFINE of(i) == Frozen!Finding(list, ProfileChecks[i])
            turned(i) == Frozen!Finding(back, ProfileChecks[i])
<1>7. /\ Frozen!ResultsContent(list) =
           [findings |-> [i \in 1 .. m |-> of(i)], score |-> [i \in 1 .. m |-> of(i).verdict]]
      /\ Frozen!ResultsContent(back) =
           [findings |-> [i \in 1 .. m |-> turned(i)],
            score    |-> [i \in 1 .. m |-> turned(i).verdict]]
  BY <1>1 DEF Frozen!ResultsContent
<1>8. \A i \in 1 .. m : turned(i) = Backwards(of(i)) /\ turned(i).verdict = of(i).verdict
  BY <1>6
<1>. HIDE DEF of, turned
<1>9. Frozen!Turned([i \in 1 .. m |-> of(i)]) = [i \in 1 .. m |-> turned(i)]
  <2>1. CitesTurned([i \in 1 .. m |-> of(i)]) = [i \in 1 .. m |-> Backwards(of(i))]
    BY DEF CitesTurned
  <2>2. [i \in 1 .. m |-> Backwards(of(i))] = [i \in 1 .. m |-> turned(i)]
    BY <1>8
  <2>. QED  BY <2>1, <2>2, TurnedIs
<1>10. [i \in 1 .. m |-> of(i).verdict] = [i \in 1 .. m |-> turned(i).verdict]
  BY <1>8
<1>11. [Frozen!ResultsContent(list) EXCEPT !.findings = Frozen!Turned(@)]
         = Frozen!ResultsContent(back)
  <2>0. PICK f, g, h, r : /\ f = [i \in 1 .. m |-> of(i)] /\ g = [i \in 1 .. m |-> turned(i)]
                          /\ h = [i \in 1 .. m |-> of(i).verdict]
                          /\ r = Frozen!ResultsContent(list)
    OBVIOUS
  <2>1. r = [findings |-> f, score |-> h]
    BY <1>7, <2>0
  <2>2. Frozen!ResultsContent(back) = [findings |-> g, score |-> h]
    BY <1>7, <1>10, <2>0
  <2>3. g = Frozen!Turned(r.findings)
    BY <1>9, <2>0, <2>1
  <2>4. [r EXCEPT !.findings = g] = [findings |-> g, score |-> h]
    BY <2>1, FindingsReplaced
  <2>5. [r EXCEPT !.findings = Frozen!Turned(@)] = [r EXCEPT !.findings = g]
    BY <2>3
  <2>. QED  BY <2>0, <2>2, <2>4, <2>5
<1>12. Frozen!Turned(list) = back
  BY TurnedIs
<1>. QED  BY <1>5, <1>11, <1>12

\* What accepted findings come to: as many verdicts as checks, and no citation that
\* is not of the board.
LEMMA ResultsOf ==
  ASSUME NEW v \in Versions, NEW list \in FindingLists, Frozen!FindingsAccepted(v, list)
  PROVE  LET content == Frozen!ResultsContent(list)
         IN  /\ content.score \in Seq(STRING)
             /\ Len(content.score) = Len(ProfileChecks)
             /\ Frozen!Cited(content.findings) \subseteq Frozen!Range(boards[v].evidence)
<1>. PICK n \in Nat : n = Len(list)
  BY FormsOfBodies
<1>. PICK m \in Nat : m = Len(ProfileChecks)
  BY FormsOfBodies
<1>0. list \in Seq(FindingRow)
  BY FormsOfBodies DEF FindingRow
<1>1. DOMAIN list = 1 .. n /\ (\A i \in 1 .. n : list[i] \in FindingRow)
      /\ DOMAIN ProfileChecks = 1 .. m
  BY <1>0, FormsOfBodies
<1>. DEFINE of(i) == Frozen!Finding(list, ProfileChecks[i])
<1>2. ASSUME NEW i \in 1 .. m
      PROVE  \E j \in 1 .. n : of(i) = list[j]
  <2>1. ProfileChecks[i] \in Frozen!Range(ProfileChecks)
    BY <1>1 DEF Frozen!Range
  <2>. PICK j \in 1 .. n : list[j].check = ProfileChecks[i]
    BY <1>0, <2>1, AcceptedFindings
  <2>2. \A a, b \in 1 .. n : list[a].check = list[b].check => a = b
    BY <1>0, AcceptedFindings
  <2>3. Frozen!Finding(list, list[j].check) = list[j]
    BY <1>0, <2>2, FindingOf
  <2>. QED  BY <2>3
<1>3. Frozen!ResultsContent(list) =
        [findings |-> [i \in 1 .. m |-> of(i)], score |-> [i \in 1 .. m |-> of(i).verdict]]
  BY <1>1 DEF Frozen!ResultsContent
<1>4. ASSUME NEW i \in 1 .. m
      PROVE  of(i).verdict \in STRING
             /\ Frozen!Range(of(i).cites) \subseteq Frozen!Range(boards[v].evidence)
  <2>. PICK j \in 1 .. n : of(i) = list[j]
    BY <1>2
  <2>1. list[j].verdict \in STRING
    BY <1>1 DEF FindingRow
  <2>2. Frozen!RefersTo(list[j].cites, Frozen!Range(boards[v].evidence))
    BY <1>0, AcceptedFindings
  <2>. QED  BY <2>1, <2>2 DEF Frozen!RefersTo
<1>. HIDE DEF of
<1>5. [i \in 1 .. m |-> of(i).verdict] \in [1 .. m -> STRING]
  BY <1>4
<1>. DEFINE found == [i \in 1 .. m |-> of(i)]
<1>6. Frozen!Cited(found) \subseteq Frozen!Range(boards[v].evidence)
  <2>1. DOMAIN found = 1 .. m /\ \A i \in 1 .. m : found[i] = of(i)
    OBVIOUS
  <2>. HIDE DEF found
  <2>. QED  BY <1>4, <2>1, CitedBy
<1>. QED  BY <1>3, <1>5, <1>6, FunctionIsList

\* What an accepted request for a board comes to: evidence of the run, each piece once,
\* and claims that cite nothing else.
LEMMA BoardOf ==
  ASSUME NEW request \in Frozen!BoardRequests, Frozen!BoardAccepted(request)
  PROVE  LET content == Frozen!BoardContent(request)
         IN  /\ content.evidence \in Seq(Nat)
             /\ Frozen!NoDuplicates(content.evidence)
             /\ Frozen!Range(content.evidence) \subseteq evidence
             /\ content.claims \in Seq(ClaimRow)
             /\ Frozen!Cited(content.claims) \subseteq Frozen!Range(content.evidence)
<1>. PICK list \in Seq(Nat) : list = request.evidence
  BY FormsOfBodies DEF Frozen!BoardRequests
<1>. PICK claims \in Seq(ClaimRow) : claims = request.claims
  BY FormsOfBodies DEF Frozen!BoardRequests, ClaimRow
<1>1. /\ Frozen!NoDuplicates(list)
      /\ Frozen!Range(list) \subseteq evidence
      /\ Frozen!NoDuplicates(Frozen!Ids(claims))
      /\ \A i \in DOMAIN claims :
           /\ Frozen!NoDuplicates(claims[i].cites)
           /\ Frozen!Range(claims[i].cites) \subseteq Frozen!Range(list)
  BY DEF Frozen!BoardAccepted, Frozen!RefersTo
<1>2. Sound(ClaimRow, claims) /\ ClaimRow \in Forms
  BY <1>1 DEF Sound, Forms
<1>3. /\ Frozen!Normal(claims) \in Seq(ClaimRow)
      /\ Frozen!Cited(Frozen!Normal(claims)) = Frozen!Cited(claims)
  BY <1>2, NormalList
<1>4. Frozen!Cited(claims) \subseteq Frozen!Range(list)
  BY <1>1, CitedBy
<1>5. /\ Frozen!Ordered(list) \in Seq(Nat)
      /\ Frozen!NoDuplicates(Frozen!Ordered(list))
      /\ Frozen!Range(Frozen!Ordered(list)) = Frozen!Range(list)
  BY <1>1, OrderedList
<1>. QED  BY <1>1, <1>3, <1>4, <1>5 DEF Frozen!BoardContent

\* What accepted statements come to, whichever way round.
LEMMA StatementsOf ==
  ASSUME NEW v \in Versions, NEW list \in Seq(StatementRow), Frozen!StatementsAccepted(v, list)
  PROVE  /\ Frozen!Normal(list) \in Seq(StatementRow)
         /\ Frozen!Cited(Frozen!Normal(list)) \subseteq Frozen!Range(boards[v].evidence)
         /\ \A s \in Frozen!EitherWay(list) :
              /\ Frozen!StatementsAccepted(v, Frozen!Turned(s))
              /\ Frozen!Normal(Frozen!Turned(s)) = Frozen!Normal(list)
<1>0. StatementRow \in Forms
  BY DEF Forms
<1>1. /\ Frozen!NoDuplicates(Frozen!Ids(list))
      /\ \A i \in DOMAIN list :
           /\ Frozen!NoDuplicates(list[i].cites)
           /\ Frozen!Range(list[i].cites) \subseteq Frozen!Range(boards[v].evidence)
  BY DEF Frozen!StatementsAccepted, Frozen!RefersTo
<1>2. Sound(StatementRow, list)
  BY <1>1 DEF Sound
<1>3. /\ Frozen!Normal(list) \in Seq(StatementRow)
      /\ Frozen!Cited(Frozen!Normal(list)) = Frozen!Cited(list)
  BY <1>0, <1>2, NormalList
<1>4. Frozen!Cited(list) \subseteq Frozen!Range(boards[v].evidence)
  BY <1>1, CitedBy
<1>5. ASSUME NEW s \in Frozen!EitherWay(list)
      PROVE  /\ Frozen!StatementsAccepted(v, CitesTurned(s))
             /\ Frozen!Normal(CitesTurned(s)) = Frozen!Normal(list)
  <2>1. /\ Sound(StatementRow, s)
        /\ \A i \in DOMAIN s : \E j \in DOMAIN list : s[i] = list[j]
        /\ Frozen!Normal(s) = Frozen!Normal(list)
    <3>1. CASE s = list
      BY <1>2, <3>1
    <3>2. CASE s = Frozen!Reverse(list)
      BY <1>0, <1>2, <3>2, NormalReversed
    <3>. QED  BY <3>1, <3>2 DEF Frozen!EitherWay
  <2>2. /\ Sound(StatementRow, CitesTurned(s))
        /\ Frozen!Normal(CitesTurned(s)) = Frozen!Normal(list)
    BY <1>0, <2>1, NormalCitesTurned
  <2>3. ASSUME NEW i \in DOMAIN CitesTurned(s)
        PROVE  Frozen!RefersTo(CitesTurned(s)[i].cites, Frozen!Range(boards[v].evidence))
    <3>1. i \in DOMAIN s /\ CitesTurned(s)[i] = Backwards(s[i])
      BY DEF CitesTurned
    <3>. PICK j \in DOMAIN list : s[i] = list[j]
      BY <2>1, <3>1
    <3>. PICK c \in StatementRow : c = list[j]
      OBVIOUS
    <3>2. Frozen!NoDuplicates(c.cites)
      BY <1>1
    <3>3. Backwards(c).cites = Frozen!Reverse(c.cites) /\ c.cites \in Seq(Nat)
      BY <1>0, <3>2, CitesOnly
    <3>4. Frozen!Range(Frozen!Reverse(c.cites)) = Frozen!Range(c.cites)
      BY <3>2, <3>3, OrderedList
    <3>5. Frozen!NoDuplicates(CitesTurned(s)[i].cites)
      BY <2>2 DEF Sound
    <3>. QED  BY <1>1, <3>1, <3>3, <3>4, <3>5 DEF Frozen!RefersTo
  <2>. QED  BY <2>2, <2>3 DEF Sound, Frozen!StatementsAccepted
<1>. QED  BY <1>3, <1>4, <1>5, TurnedIs

\* A list that holds something holds it the other way round.
LEMMA ReverseHolds ==
  ASSUME NEW S, NEW list \in Seq(S), NEW g \in Frozen!EitherWay(list)
  PROVE  Frozen!Range(g) \subseteq Frozen!Range(list)
<1>. PICK n \in Nat : n = Len(list)
  OBVIOUS
<1>1. CASE g = Frozen!Reverse(list)
  <2>1. DOMAIN list = 1 .. n /\ g = [i \in 1 .. n |-> list[(n - i) + 1]]
    BY <1>1 DEF Frozen!Reverse
  <2>2. \A i \in 1 .. n : (n - i) + 1 \in 1 .. n
    OBVIOUS
  <2>3. DOMAIN g = 1 .. n /\ \A i \in 1 .. n : g[i] = list[(n - i) + 1]
    BY <2>1
  <2>. QED  BY <2>1, <2>2, <2>3 DEF Frozen!Range
<1>. QED  BY <1>1 DEF Frozen!EitherWay

\* The fields of a passport, each by itself.
PassportOf(v, manifest, score, statements, gaps, conditions) ==
  [board |-> v, manifest |-> manifest, score |-> score, statements |-> statements,
   known_gaps |-> gaps, conditions |-> conditions]

\* What PassportOf makes of its arguments, and with other known gaps or conditions.
LEMMA PassportFields ==
  ASSUME NEW v, NEW m, NEW s, NEW n, NEW g, NEW c, NEW p, p = PassportOf(v, m, s, n, g, c),
         NEW h, NEW d
  PROVE  /\ p.board = v /\ p.manifest = m /\ p.score = s /\ p.statements = n
         /\ [p EXCEPT !.known_gaps = h] = PassportOf(v, m, s, n, h, c)
         /\ [p EXCEPT !.conditions = d] = PassportOf(v, m, s, n, g, d)
         /\ [p EXCEPT !.known_gaps = h, !.conditions = d]
              = [[p EXCEPT !.known_gaps = h] EXCEPT !.conditions = d]
<1>1. p = [board |-> v, manifest |-> m, score |-> s, statements |-> n,
           known_gaps |-> g, conditions |-> c]
  BY DEF PassportOf
<1>2. p.board = v /\ p.manifest = m /\ p.score = s /\ p.statements = n
  BY <1>1
<1>3. [p EXCEPT !.known_gaps = h] = PassportOf(v, m, s, n, h, c)
  BY <1>1 DEF PassportOf
<1>4. [p EXCEPT !.conditions = d] = PassportOf(v, m, s, n, g, d)
  BY <1>1 DEF PassportOf
<1>5. [p EXCEPT !.known_gaps = h, !.conditions = d]
        = [[p EXCEPT !.known_gaps = h] EXCEPT !.conditions = d]
  BY <1>1
<1>. QED  BY <1>2, <1>3, <1>4, <1>5

\* A passport from a request with its lists the other way round: the known gaps and
\* the conditions show it, and nothing else.
LEMMA PassportEitherWay ==
  ASSUME NEW v \in Versions, NEW request \in PassportRequests,
         Frozen!PassportAccepted(v, request),
         NEW other \in Frozen!PassportReversals(request)
  PROVE  /\ Frozen!PassportAccepted(v, other)
         /\ Frozen!PassportContent(v, other)
              = [Frozen!PassportContent(v, request) EXCEPT
                   !.known_gaps = other.gaps,
                   !.conditions = Frozen!Remove(other.conditions, "")]
<1>. PICK list \in Seq(StatementRow) : list = request.statements
  BY FormsOfBodies DEF StatementRow
<1>. PICK gaps \in Seq(STRING) : gaps = request.gaps
  BY FormsOfBodies
<1>. PICK s, g, c : /\ s \in Frozen!EitherWay(list) /\ g \in Frozen!EitherWay(gaps)
                    /\ other = [statements |-> Frozen!Turned(s), gaps |-> g, conditions |-> c]
  BY DEF Frozen!PassportReversals
<1>1. other.statements = Frozen!Turned(s) /\ other.gaps = g
  OBVIOUS
<1>2. Frozen!StatementsAccepted(v, list) /\ "" \notin Frozen!Range(gaps)
  BY DEF Frozen!PassportAccepted
<1>3. /\ Frozen!StatementsAccepted(v, other.statements)
      /\ Frozen!Normal(other.statements) = Frozen!Normal(list)
  BY <1>1, <1>2, StatementsOf
<1>4. "" \notin Frozen!Range(other.gaps)
  BY <1>1, <1>2, ReverseHolds
<1>5. Frozen!PassportContent(v, other)
        = [Frozen!PassportContent(v, request) EXCEPT
             !.known_gaps = other.gaps, !.conditions = Frozen!Remove(other.conditions, "")]
  <2>1. PICK kept, dropped, content, m, r, n :
          /\ kept = Frozen!Remove(request.conditions, "")
          /\ dropped = Frozen!Remove(other.conditions, "")
          /\ content = Frozen!PassportContent(v, request)
          /\ m = boards[v].evidence /\ r = Frozen!ResultsFor(v).score
          /\ n = Frozen!Normal(list)
    OBVIOUS
  <2>2. content = PassportOf(v, m, r, n, gaps, kept)
    BY <2>1 DEF Frozen!PassportContent, PassportOf
  <2>3. Frozen!PassportContent(v, other) = PassportOf(v, m, r, n, g, dropped)
    BY <1>1, <1>3, <2>1 DEF Frozen!PassportContent, PassportOf
  <2>4. PICK between : between = [content EXCEPT !.known_gaps = g]
    OBVIOUS
  <2>5. between = PassportOf(v, m, r, n, g, kept)
    BY <2>2, <2>4, PassportFields
  <2>6. [between EXCEPT !.conditions = dropped] = PassportOf(v, m, r, n, g, dropped)
    BY <2>5, PassportFields
  <2>7. [content EXCEPT !.known_gaps = g, !.conditions = dropped]
          = [between EXCEPT !.conditions = dropped]
    BY <2>2, <2>4, PassportFields
  <2>. QED  BY <1>1, <2>1, <2>3, <2>6, <2>7
<1>. QED  BY <1>2, <1>3, <1>4, <1>5 DEF Frozen!PassportAccepted

-----------------------------------------------------------------------------
(* FrozenRecords: the inductive invariant.                                 *)

\* Each record is what its request came to, and still would.
BoardInv(v) ==
  Frozen!Frozen(v) =>
    /\ asked.boards[v] \in Frozen!BoardRequests
    /\ Frozen!BoardAccepted(asked.boards[v])
    /\ boards[v] = Frozen!BoardContent(asked.boards[v])

ResultsInv(v) ==
  Frozen!Scored(v) =>
    /\ Frozen!Frozen(v)
    /\ asked.results[v] \in FindingLists
    /\ Frozen!FindingsAccepted(v, asked.results[v])
    /\ results[v] = Frozen!ResultsContent(asked.results[v])

PassportInv(p, request) ==
  /\ p.board \in Versions
  /\ Frozen!Frozen(p.board) /\ Frozen!Scored(p.board)
  /\ request \in PassportRequests
  /\ Frozen!PassportAccepted(p.board, request)
  /\ p = Frozen!PassportContent(p.board, request)

\* Known gaps and conditions of a passport are those of a request.
GapLists == {request.gaps : request \in PassportRequests}
Kept(request) == Frozen!Remove(request.conditions, "")
ConditionLists == {Kept(request) : request \in PassportRequests}

PassportRow ==
  [board: Versions, manifest: Seq(Nat), score: Seq(STRING), statements: Seq(StatementRow),
   known_gaps: GapLists, conditions: ConditionLists]

FrozenTypes ==
  /\ evidence \subseteq Evidence
  /\ DOMAIN boards = Versions /\ DOMAIN results = Versions
  /\ asked \in [boards: [Versions -> Frozen!BoardRequests \cup {None}],
                results: [Versions -> FindingLists \cup {None}],
                passports: Seq(PassportRequests)]
  /\ passports \in Seq(PassportRow)
  /\ Len(asked.passports) = Len(passports)

FrozenInv ==
  /\ FrozenTypes
  /\ \A v \in Versions : BoardInv(v) /\ ResultsInv(v)
  /\ \A s \in DOMAIN passports : PassportInv(passports[s], asked.passports[s])

\* At first nothing is frozen.
LEMMA FrozenInit ==
  Frozen!Init => FrozenInv
<1>. SUFFICES ASSUME Frozen!Init PROVE FrozenInv
  OBVIOUS
<1>1. /\ evidence = {}
      /\ boards = [v \in Versions |-> None]
      /\ results = [v \in Versions |-> None]
      /\ passports = <<>>
      /\ asked = [boards |-> [v \in Versions |-> None], results |-> [v \in Versions |-> None],
                  passports |-> <<>>]
  BY DEF Frozen!Init
<1>2. FrozenTypes
  BY <1>1 DEF FrozenTypes
<1>3. \A v \in Versions : BoardInv(v) /\ ResultsInv(v)
  BY <1>1 DEF BoardInv, ResultsInv, Frozen!Frozen, Frozen!Scored
<1>. QED  BY <1>1, <1>2, <1>3 DEF FrozenInv

\* More evidence.
LEMMA AddEvidenceKeeps ==
  ASSUME FrozenInv, NEW e \in Evidence, Frozen!AddEvidence(e)
  PROVE  FrozenInv'
<1>1. evidence' = evidence \cup {e} /\ UNCHANGED <<boards, results, passports, asked>>
  BY DEF Frozen!AddEvidence
<1>2. FrozenTypes'
  BY <1>1 DEF FrozenInv, FrozenTypes
<1>3. ASSUME NEW v \in Versions
      PROVE  BoardInv(v)' /\ ResultsInv(v)'
  <2>1. BoardInv(v) /\ ResultsInv(v)
    BY DEF FrozenInv
  <2>2. BoardInv(v)'
    BY <1>1, <2>1 DEF BoardInv, Frozen!Frozen, Frozen!BoardAccepted
  <2>3. ResultsInv(v)'
    BY <1>1, <2>1 DEF ResultsInv, Frozen!Frozen, Frozen!Scored, Frozen!FindingsAccepted
  <2>. QED  BY <2>2, <2>3
<1>4. ASSUME NEW s \in DOMAIN passports
      PROVE  PassportInv(passports[s], asked.passports[s])'
  BY <1>1 DEF FrozenInv, PassportInv, Frozen!Frozen, Frozen!Scored,
     Frozen!PassportAccepted, Frozen!StatementsAccepted, Frozen!PassportContent,
     Frozen!ResultsFor
<1>. QED  BY <1>1, <1>2, <1>3, <1>4 DEF FrozenInv

\* What a record stands for does not change while its board and results do not.
LEMMA RecordsStand ==
  ASSUME NEW v \in Versions, boards'[v] = boards[v]
  PROVE  /\ Frozen!Frozen(v)' = Frozen!Frozen(v)
         /\ \A list : Frozen!FindingsAccepted(v, list)' = Frozen!FindingsAccepted(v, list)
         /\ \A r : Frozen!PassportAccepted(v, r)' = Frozen!PassportAccepted(v, r)
BY DEF Frozen!Frozen, Frozen!FindingsAccepted, Frozen!PassportAccepted,
       Frozen!StatementsAccepted

\* A passport stands as long as its board and its results do.
LEMMA PassportStands ==
  ASSUME NEW p, NEW request, PassportInv(p, request),
         boards'[p.board] = boards[p.board], results'[p.board] = results[p.board]
  PROVE  PassportInv(p, request)'
<1>1. /\ Frozen!PassportAccepted(p.board, request)'
      /\ Frozen!Frozen(p.board)'
      /\ Frozen!Scored(p.board)'
  BY RecordsStand DEF PassportInv, Frozen!Scored
<1>2. Frozen!PassportContent(p.board, request)' = Frozen!PassportContent(p.board, request)
  BY DEF Frozen!PassportContent, Frozen!ResultsFor
<1>. QED  BY <1>1, <1>2 DEF PassportInv

\* A board is frozen once, before it has results or passports.
LEMMA FreezeBoardKeeps ==
  ASSUME FrozenInv, NEW v \in Versions, NEW request \in Frozen!BoardRequests,
         Frozen!FreezeBoard(v, request)
  PROVE  FrozenInv'
<1>1. /\ ~Frozen!Frozen(v)
      /\ Frozen!BoardAccepted(request)
      /\ boards' = [boards EXCEPT ![v] = Frozen!BoardContent(request)]
      /\ asked' = [asked EXCEPT !.boards[v] = request]
      /\ UNCHANGED <<evidence, results, passports>>
  BY DEF Frozen!FreezeBoard
<1>2. /\ DOMAIN boards = Versions
      /\ asked \in [boards: [Versions -> Frozen!BoardRequests \cup {None}],
                    results: [Versions -> FindingLists \cup {None}],
                    passports: Seq(PassportRequests)]
  BY DEF FrozenInv, FrozenTypes
<1>3. /\ asked' \in [boards: [Versions -> Frozen!BoardRequests \cup {None}],
                     results: [Versions -> FindingLists \cup {None}],
                     passports: Seq(PassportRequests)]
      /\ asked'.boards[v] = request
      /\ \A w \in Versions : w # v => asked'.boards[w] = asked.boards[w]
      /\ asked'.results = asked.results /\ asked'.passports = asked.passports
  BY <1>1, <1>2
<1>4. FrozenTypes'
  BY <1>1, <1>3 DEF FrozenInv, FrozenTypes
<1>5. ASSUME NEW w \in Versions
      PROVE  BoardInv(w)' /\ ResultsInv(w)'
  <2>1. BoardInv(w) /\ ResultsInv(w)
    BY DEF FrozenInv
  <2>2. CASE w = v
    <3>1. BoardInv(w)'
      BY <1>1, <1>2, <1>3, <2>2 DEF BoardInv, Frozen!BoardAccepted
    <3>2. ResultsInv(w)'
      BY <1>1, <2>1, <2>2 DEF ResultsInv, Frozen!Scored
    <3>. QED  BY <3>1, <3>2
  <2>3. CASE w # v
    <3>1. boards'[w] = boards[w]
      BY <1>1, <1>2, <2>3
    <3>2. BoardInv(w)'
      BY <1>1, <1>3, <2>1, <2>3, <3>1 DEF BoardInv, Frozen!Frozen, Frozen!BoardAccepted
    <3>3. ResultsInv(w)'
      BY <1>1, <1>3, <2>1, <2>3, <3>1, RecordsStand DEF ResultsInv, Frozen!Scored
    <3>. QED  BY <3>2, <3>3
  <2>. QED  BY <2>2, <2>3
<1>6. ASSUME NEW s \in DOMAIN passports
      PROVE  PassportInv(passports[s], asked.passports[s])'
  <2>1. PassportInv(passports[s], asked.passports[s])
    BY DEF FrozenInv
  <2>. PICK p, r : p = passports[s] /\ r = asked.passports[s]
    OBVIOUS
  <2>2. boards'[p.board] = boards[p.board] /\ results'[p.board] = results[p.board]
    BY <1>1, <1>2, <2>1 DEF PassportInv
  <2>3. PassportInv(p, r)'
    BY <2>1, <2>2, PassportStands
  <2>. QED  BY <1>1, <1>3, <2>3
<1>. QED  BY <1>1, <1>4, <1>5, <1>6 DEF FrozenInv

\* Results are stored once, for a board that is frozen.
LEMMA CreateCheckResultsKeeps ==
  ASSUME FrozenInv, NEW v \in Versions, NEW list \in FindingLists,
         Frozen!CreateCheckResults(v, list)
  PROVE  FrozenInv'
<1>1. /\ Frozen!Frozen(v) /\ ~Frozen!Scored(v)
      /\ Frozen!FindingsAccepted(v, list)
      /\ results' = [results EXCEPT ![v] = Frozen!ResultsContent(list)]
      /\ asked' = [asked EXCEPT !.results[v] = list]
      /\ UNCHANGED <<evidence, boards, passports>>
  BY DEF Frozen!CreateCheckResults
<1>2. /\ DOMAIN results = Versions
      /\ asked \in [boards: [Versions -> Frozen!BoardRequests \cup {None}],
                    results: [Versions -> FindingLists \cup {None}],
                    passports: Seq(PassportRequests)]
  BY DEF FrozenInv, FrozenTypes
<1>3. /\ asked' \in [boards: [Versions -> Frozen!BoardRequests \cup {None}],
                     results: [Versions -> FindingLists \cup {None}],
                     passports: Seq(PassportRequests)]
      /\ asked'.results[v] = list
      /\ \A w \in Versions : w # v => asked'.results[w] = asked.results[w]
      /\ asked'.boards = asked.boards /\ asked'.passports = asked.passports
  BY <1>1, <1>2
<1>4. FrozenTypes'
  BY <1>1, <1>3 DEF FrozenInv, FrozenTypes
<1>5. ASSUME NEW w \in Versions
      PROVE  BoardInv(w)' /\ ResultsInv(w)'
  <2>1. BoardInv(w) /\ ResultsInv(w)
    BY DEF FrozenInv
  <2>2. BoardInv(w)'
    BY <1>1, <1>3, <2>1 DEF BoardInv, Frozen!Frozen, Frozen!BoardAccepted
  <2>3. CASE w = v
    <3>1. ResultsInv(w)'
      BY <1>1, <1>2, <1>3, <2>3, RecordsStand DEF ResultsInv
    <3>. QED  BY <2>2, <3>1
  <2>4. CASE w # v
    <3>1. results'[w] = results[w]
      BY <1>1, <1>2, <2>4
    <3>2. ResultsInv(w)'
      BY <1>1, <1>3, <2>1, <2>4, <3>1, RecordsStand DEF ResultsInv, Frozen!Scored
    <3>. QED  BY <2>2, <3>2
  <2>. QED  BY <2>3, <2>4
<1>6. ASSUME NEW s \in DOMAIN passports
      PROVE  PassportInv(passports[s], asked.passports[s])'
  <2>1. PassportInv(passports[s], asked.passports[s])
    BY DEF FrozenInv
  <2>. PICK p, r : p = passports[s] /\ r = asked.passports[s]
    OBVIOUS
  <2>2. boards'[p.board] = boards[p.board] /\ results'[p.board] = results[p.board]
    BY <1>1, <1>2, <2>1 DEF PassportInv
  <2>3. PassportInv(p, r)'
    BY <2>1, <2>2, PassportStands
  <2>. QED  BY <1>1, <1>3, <2>3
<1>. QED  BY <1>1, <1>4, <1>5, <1>6 DEF FrozenInv

\* A passport takes manifest and score from the board it names.
LEMMA FreezePassportKeeps ==
  ASSUME FrozenInv, NEW v \in Versions, NEW request \in PassportRequests,
         Frozen!FreezePassport(v, request)
  PROVE  FrozenInv'
<1>. PICK p : p = Frozen!PassportContent(v, request)
  OBVIOUS
<1>1. /\ Frozen!Frozen(v) /\ Frozen!Scored(v)
      /\ Frozen!PassportAccepted(v, request)
      /\ passports' = Append(passports, p)
      /\ asked' = [asked EXCEPT !.passports = Append(@, request)]
      /\ UNCHANGED <<evidence, boards, results>>
  BY DEF Frozen!FreezePassport
<1>2. BoardInv(v) /\ ResultsInv(v) /\ FrozenTypes
  BY DEF FrozenInv
<1>3. p \in PassportRow /\ p.board = v
  <2>1. p = [board |-> v, manifest |-> boards[v].evidence, score |-> results[v].score,
             statements |-> Frozen!Normal(request.statements),
             known_gaps |-> request.gaps, conditions |-> Kept(request)]
    BY DEF Frozen!PassportContent, Frozen!ResultsFor, Kept
  <2>2. boards[v].evidence \in Seq(Nat)
    BY <1>1, <1>2, BoardOf DEF BoardInv
  <2>3. results[v].score \in Seq(STRING)
    BY <1>1, <1>2, ResultsOf DEF ResultsInv
  <2>4. Frozen!Normal(request.statements) \in Seq(StatementRow)
    <3>. PICK list \in Seq(StatementRow) : list = request.statements
      BY FormsOfBodies DEF StatementRow
    <3>. QED  BY <1>1, StatementsOf DEF Frozen!PassportAccepted
  <2>5. request.gaps \in GapLists /\ Kept(request) \in ConditionLists
    BY DEF GapLists, ConditionLists
  <2>. QED  BY <2>1, <2>2, <2>3, <2>4, <2>5 DEF PassportRow
<1>4. asked \in [boards: [Versions -> Frozen!BoardRequests \cup {None}],
                results: [Versions -> FindingLists \cup {None}],
                passports: Seq(PassportRequests)]
      /\ passports \in Seq(PassportRow) /\ Len(asked.passports) = Len(passports)
  BY <1>2 DEF FrozenTypes
<1>. PICK rows \in Seq(PassportRow) : rows = passports
  BY <1>4
<1>. PICK lists \in Seq(PassportRequests) : lists = asked.passports
  BY <1>4
<1>. PICK n \in Nat : n = Len(rows)
  OBVIOUS
<1>5. /\ passports' = Append(rows, p)
      /\ asked' \in [boards: [Versions -> Frozen!BoardRequests \cup {None}],
                     results: [Versions -> FindingLists \cup {None}],
                     passports: Seq(PassportRequests)]
      /\ asked'.boards = asked.boards /\ asked'.results = asked.results
      /\ asked'.passports = Append(lists, request)
  BY <1>1, <1>4, AppendType
<1>6. /\ passports' \in Seq(PassportRow)
      /\ Len(passports') = n + 1
      /\ Len(asked'.passports) = n + 1
      /\ DOMAIN passports' = 1 .. n + 1
      /\ \A s \in 1 .. n : passports'[s] = rows[s] /\ asked'.passports[s] = lists[s]
      /\ passports'[n + 1] = p /\ asked'.passports[n + 1] = request
  <2>1. Len(lists) = n
    BY <1>4
  <2>2. /\ Append(rows, p) \in Seq(PassportRow)
        /\ Len(Append(rows, p)) = n + 1
        /\ DOMAIN Append(rows, p) = 1 .. n + 1
        /\ \A s \in 1 .. n : Append(rows, p)[s] = rows[s]
        /\ Append(rows, p)[n + 1] = p
    BY <1>3, AppendType
  <2>3. /\ Len(Append(lists, request)) = n + 1
        /\ \A s \in 1 .. n : Append(lists, request)[s] = lists[s]
        /\ Append(lists, request)[n + 1] = request
    BY <2>1, AppendType
  <2>. QED  BY <1>5, <2>2, <2>3
<1>7. FrozenTypes'
  BY <1>1, <1>2, <1>5, <1>6 DEF FrozenTypes
<1>8. ASSUME NEW w \in Versions
      PROVE  BoardInv(w)' /\ ResultsInv(w)'
  <2>1. BoardInv(w) /\ ResultsInv(w)
    BY DEF FrozenInv
  <2>2. BoardInv(w)'
    BY <1>1, <1>5, <2>1 DEF BoardInv, Frozen!Frozen, Frozen!BoardAccepted
  <2>3. ResultsInv(w)'
    BY <1>1, <1>5, <2>1, RecordsStand DEF ResultsInv, Frozen!Scored
  <2>. QED  BY <2>2, <2>3
<1>9. ASSUME NEW s \in DOMAIN passports'
      PROVE  PassportInv(passports[s], asked.passports[s])'
  <2>1. CASE s \in 1 .. n
    <3>1. PassportInv(rows[s], lists[s])
      BY <2>1 DEF FrozenInv
    <3>. PICK old, list : old = rows[s] /\ list = lists[s]
      OBVIOUS
    <3>2. PassportInv(old, list)'
      BY <1>1, <3>1, PassportStands DEF PassportInv
    <3>. QED  BY <1>6, <2>1, <3>2
  <2>2. CASE s = n + 1
    <3>1. PassportInv(p, request)
      BY <1>1, <1>3 DEF PassportInv
    <3>2. PassportInv(p, request)'
      BY <1>1, <3>1, PassportStands DEF PassportInv
    <3>. QED  BY <1>6, <2>2, <3>2
  <2>. QED  BY <1>6, <2>1, <2>2
<1>. QED  BY <1>7, <1>8, <1>9 DEF FrozenInv

\* Every step of FrozenRecords keeps the invariant.
LEMMA FrozenNext ==
  FrozenInv /\ Frozen!Next => FrozenInv'
<1>. SUFFICES ASSUME FrozenInv, Frozen!Next  PROVE FrozenInv'
  OBVIOUS
<1>1. CASE \E e \in Evidence \ evidence : Frozen!AddEvidence(e)
  BY <1>1, AddEvidenceKeeps
<1>2. CASE \E v \in Versions, request \in Frozen!BoardRequests : Frozen!FreezeBoard(v, request)
  BY <1>2, FreezeBoardKeeps
<1>3. CASE \E v \in Versions, list \in FindingLists : Frozen!CreateCheckResults(v, list)
  BY <1>3, CreateCheckResultsKeeps
<1>4. CASE \E v \in Versions, request \in PassportRequests : Frozen!FreezePassport(v, request)
  BY <1>4, FreezePassportKeeps
<1>. QED  BY <1>1, <1>2, <1>3, <1>4 DEF Frozen!Next

\* Steps of the other parts as well.
LEMMA FrozenStutter ==
  FrozenInv /\ UNCHANGED <<evidence, boards, results, passports, asked>> => FrozenInv'
<1>. SUFFICES ASSUME FrozenInv, UNCHANGED <<evidence, boards, results, passports, asked>>
              PROVE  FrozenInv'
  OBVIOUS
<1>1. FrozenTypes'
  BY DEF FrozenInv, FrozenTypes
<1>2. \A v \in Versions : (BoardInv(v) /\ ResultsInv(v))'
  BY DEF FrozenInv, BoardInv, ResultsInv, Frozen!Frozen, Frozen!Scored, Frozen!BoardAccepted,
         Frozen!FindingsAccepted
<1>3. ASSUME NEW s \in DOMAIN passports
      PROVE  PassportInv(passports[s], asked.passports[s])'
  <2>. PICK p, r : p = passports[s] /\ r = asked.passports[s]
    OBVIOUS
  <2>1. PassportInv(p, r)
    BY DEF FrozenInv
  <2>2. PassportInv(p, r)'
    BY <2>1, PassportStands
  <2>. QED  BY <2>2
<1>. QED  BY <1>1, <1>2, <1>3 DEF FrozenInv

-----------------------------------------------------------------------------
(* FrozenRecords: the theorems.                                            *)

\* What is stored is what a request can come to.
LEMMA RecordTypes ==
  FrozenInv => Frozen!TypeOK
<1>. SUFFICES ASSUME FrozenInv  PROVE Frozen!TypeOK
  OBVIOUS
<1>1. evidence \subseteq Evidence
  BY DEF FrozenInv, FrozenTypes
<1>2. ASSUME NEW v \in Versions, Frozen!Frozen(v)
      PROVE  /\ boards[v].evidence \in Seq(Evidence)
             /\ Frozen!Range(Frozen!Ids(boards[v].claims)) \subseteq Nat
  <2>1. BoardInv(v)
    BY DEF FrozenInv
  <2>. PICK list \in Seq(Nat) : list = boards[v].evidence
    BY <1>2, <2>1, BoardOf DEF BoardInv
  <2>. PICK claims \in Seq(ClaimRow) : claims = boards[v].claims
    BY <1>2, <2>1, BoardOf DEF BoardInv
  <2>2. Frozen!Range(list) \subseteq Evidence
    BY <1>1, <1>2, <2>1, BoardOf DEF BoardInv
  <2>3. list \in Seq(Evidence)
    BY <2>2 DEF Frozen!Range
  <2>4. ASSUME NEW i \in DOMAIN claims
        PROVE  claims[i].id \in Nat
    <3>. PICK c \in ClaimRow : c = claims[i]
      OBVIOUS
    <3>. QED  BY DEF ClaimRow
  <2>. QED  BY <2>3, <2>4 DEF Frozen!Range, Frozen!Ids
<1>3. ASSUME NEW v \in Versions, Frozen!Scored(v)
      PROVE  Len(results[v].score) = Len(ProfileChecks)
  BY <1>3, ResultsOf DEF FrozenInv, ResultsInv
<1>4. \A s \in DOMAIN passports : passports[s].board \in Versions
  BY DEF FrozenInv, PassportInv
<1>. QED  BY <1>1, <1>2, <1>3, <1>4 DEF Frozen!TypeOK

\* What belongs together.
LEMMA RecordsBelong ==
  FrozenInv => Frozen!PassportIsOfOneBoard /\ Frozen!CitationsAreBacked
<1>. SUFFICES ASSUME FrozenInv  PROVE Frozen!PassportIsOfOneBoard /\ Frozen!CitationsAreBacked
  OBVIOUS
<1>1. ASSUME NEW v \in Versions, Frozen!Frozen(v)
      PROVE  /\ Frozen!Range(boards[v].evidence) \subseteq evidence
             /\ Frozen!NoDuplicates(boards[v].evidence)
             /\ Frozen!Cited(boards[v].claims) \subseteq Frozen!Range(boards[v].evidence)
  BY <1>1, BoardOf DEF FrozenInv, BoardInv
<1>2. ASSUME NEW v \in Versions, Frozen!Scored(v)
      PROVE  Frozen!Cited(results[v].findings) \subseteq Frozen!Range(boards[v].evidence)
  BY <1>2, ResultsOf DEF FrozenInv, ResultsInv
<1>3. ASSUME NEW s \in DOMAIN passports
      PROVE  LET p == passports[s]
             IN  /\ Frozen!Frozen(p.board) /\ p.manifest = boards[p.board].evidence
                 /\ Frozen!Scored(p.board) /\ p.score = results[p.board].score
                 /\ Frozen!Cited(p.statements) \subseteq Frozen!Range(p.manifest)
  <2>. PICK p, r : p = passports[s] /\ r = asked.passports[s]
    OBVIOUS
  <2>1. PassportInv(p, r)
    BY DEF FrozenInv
  <2>. PICK list \in Seq(StatementRow) : list = r.statements
    BY <2>1, FormsOfBodies DEF PassportInv, StatementRow
  <2>0. PICK w, kept : w = p.board /\ kept = Frozen!Remove(r.conditions, "")
    OBVIOUS
  <2>2. /\ p.manifest = boards[p.board].evidence
        /\ p.score = results[p.board].score
        /\ p.statements = Frozen!Normal(list)
    <3>1. p = Frozen!PassportContent(w, r)
      BY <2>0, <2>1 DEF PassportInv
    <3>2. PICK m, c, n, g : /\ m = boards[w].evidence /\ c = results[w].score
                            /\ n = Frozen!Normal(list) /\ g = r.gaps
      OBVIOUS
    <3>3. p = PassportOf(w, m, c, n, g, kept)
      BY <2>0, <3>1, <3>2 DEF Frozen!PassportContent, Frozen!ResultsFor, PassportOf
    <3>4. p.manifest = m /\ p.score = c /\ p.statements = n
      BY <3>3, PassportFields
    <3>. QED  BY <2>0, <3>2, <3>4
  <2>3. p.board \in Versions /\ Frozen!StatementsAccepted(p.board, list)
    BY <2>1 DEF PassportInv, Frozen!PassportAccepted
  <2>4. Frozen!Cited(Frozen!Normal(list)) \subseteq Frozen!Range(boards[p.board].evidence)
    BY <2>3, StatementsOf
  <2>5. Frozen!Cited(p.statements) \subseteq Frozen!Range(p.manifest)
    BY <2>2, <2>4
  <2>. QED  BY <2>1, <2>2, <2>5 DEF PassportInv
<1>4. Frozen!PassportIsOfOneBoard
  BY <1>3 DEF Frozen!PassportIsOfOneBoard
<1>5. Frozen!CitationsAreBacked
  BY <1>1, <1>2, <1>3 DEF Frozen!CitationsAreBacked
<1>. QED  BY <1>4, <1>5

\* What the same requests would have come to in another order.
LEMMA RecordsEitherWay ==
  FrozenInv => Frozen!OnlyKeptOrderMatters
<1>. SUFFICES ASSUME FrozenInv  PROVE Frozen!OnlyKeptOrderMatters
  OBVIOUS
<1>1. ASSUME NEW v \in Versions, Frozen!Frozen(v),
             NEW other \in Frozen!BoardReversals(asked.boards[v])
      PROVE  Frozen!BoardAccepted(other) /\ Frozen!BoardContent(other) = boards[v]
  BY <1>1, BoardEitherWay DEF FrozenInv, BoardInv
<1>2. ASSUME NEW v \in Versions, Frozen!Scored(v)
      PROVE  /\ Frozen!FindingsAccepted(v, Frozen!Reverse(asked.results[v]))
             /\ Frozen!ResultsContent(Frozen!Reverse(asked.results[v])) = results[v]
  BY <1>2, ResultsEitherWay DEF FrozenInv, ResultsInv
<1>3. ASSUME NEW v \in Versions, Frozen!Scored(v)
      PROVE  /\ Frozen!FindingsAccepted(v, Frozen!Turned(asked.results[v]))
             /\ Frozen!ResultsContent(Frozen!Turned(asked.results[v]))
                  = [results[v] EXCEPT !.findings = Frozen!Turned(@)]
  BY <1>3, ResultsTurned DEF FrozenInv, ResultsInv
<1>4. ASSUME NEW s \in DOMAIN passports,
             NEW other \in Frozen!PassportReversals(asked.passports[s])
      PROVE  /\ Frozen!PassportAccepted(passports[s].board, other)
             /\ Frozen!PassportContent(passports[s].board, other)
                  = [passports[s] EXCEPT !.known_gaps = other.gaps,
                       !.conditions = Frozen!Remove(other.conditions, "")]
  <2>. PICK p, request : p = passports[s] /\ request = asked.passports[s]
    OBVIOUS
  <2>1. PassportInv(p, request)
    BY DEF FrozenInv
  <2>2. /\ p.board \in Versions /\ request \in PassportRequests
        /\ Frozen!PassportAccepted(p.board, request)
        /\ p = Frozen!PassportContent(p.board, request)
    BY <2>1 DEF PassportInv
  <2>3. other \in Frozen!PassportReversals(request)
    OBVIOUS
  <2>. PICK w, content : w = p.board /\ content = Frozen!PassportContent(w, request)
    OBVIOUS
  <2>4. /\ Frozen!PassportAccepted(w, other)
        /\ Frozen!PassportContent(w, other)
             = [content EXCEPT !.known_gaps = other.gaps,
                               !.conditions = Frozen!Remove(other.conditions, "")]
    BY <2>2, <2>3, PassportEitherWay
  <2>. QED  BY <2>2, <2>4
<1>. QED  BY <1>1, <1>2, <1>3, <1>4 DEF Frozen!OnlyKeptOrderMatters

\* Whatever is frozen when, and in whatever order bodies list things: records have
\* their types, a passport takes manifest and score from its own board, citations
\* lead to evidence of that board, and the order of lists shows where it is kept and
\* nowhere else.
THEOREM FrozenRecordsAreSound ==
  Frozen!Spec => [](/\ Frozen!TypeOK
                    /\ Frozen!PassportIsOfOneBoard
                    /\ Frozen!CitationsAreBacked
                    /\ Frozen!OnlyKeptOrderMatters)
<1>1. FrozenInv /\ UNCHANGED Frozen!vars => FrozenInv'
  BY FrozenStutter DEF Frozen!vars
<1>. QED  BY <1>1, FrozenInit, FrozenNext, RecordTypes, RecordsBelong, RecordsEitherWay, PTL
          DEF Frozen!Spec

\* The invariant of FrozenRecords as a part of Services.
LEMMA FrozenPart ==
  SpecPart => []FrozenInv
<1>1. InitPart => FrozenInv
  BY FrozenInit DEF InitPart
<1>2. FrozenInv /\ NextPart => FrozenInv'
  BY FrozenNext, FrozenStutter DEF NextPart, frozenVars
<1>3. FrozenInv /\ UNCHANGED <<part, vars, frozenVars, migratedVars, scoresVars, urlsVars>>
        => FrozenInv'
  BY FrozenStutter DEF frozenVars
<1>. QED  BY <1>1, <1>2, <1>3, PTL DEF SpecPart

\* What is frozen belongs together, in the part of Services that the run checks.
THEOREM RecordsOfServices ==
  SpecPart => []RecordsAreOfOneBoard
<1>1. FrozenInv => RecordsAreOfOneBoard
  BY RecordsBelong DEF RecordsAreOfOneBoard
<1>. QED  BY <1>1, FrozenPart, PTL

\* The order in which a caller lists things reaches a commitment only by what a finding
\* cites, known gaps and conditions: for lists of any length, whichever are turned round.
THEOREM OrderOfServices ==
  SpecPart => []OnlyKeptOrderMatters
<1>1. FrozenInv => OnlyKeptOrderMatters
  BY RecordsEitherWay DEF OnlyKeptOrderMatters
<1>. QED  BY <1>1, FrozenPart, PTL

-----------------------------------------------------------------------------
(* Submission as a part of Services.                                       *)

\* The parts beside it take no step of a submission: Services implements Submission.
THEOREM ServicesImplementSubmission ==
  SpecPart => Spec
<1>1. InitPart => Init
  BY DEF InitPart
<1>2. [NextPart]_<<part, vars, frozenVars, migratedVars, scoresVars, urlsVars>> => [Next]_vars
  BY DEF NextPart
<1>. QED  BY <1>1, <1>2, PTL DEF SpecPart, Spec

\* What is proved of Submission holds of it in Services: a transaction goes where
\* the human approved, a run is recorded once, and receipts are true.
THEOREM SubmissionsOfServices ==
  SpecPart => [](SentAsApproved /\ RecordedOnce /\ ReceiptsHold)
BY ServicesImplementSubmission, GoesAsApproved, OneRecord, ReceiptsAreTrue, PTL

-----------------------------------------------------------------------------
(* The types of all parts.                                                 *)

\* The columns of an old database.
LEMMA MigratedTypes ==
  MigratedInv => Migrated!TypeOK
<1>. SUFFICES ASSUME MigratedInv  PROVE Migrated!TypeOK
  OBVIOUS
<1>1. ASSUME NEW r \in Runs, NEW i \in DOMAIN log[r]
      PROVE  /\ log[r][i].sequence = i
             /\ log[r][i].kind \in Kinds
             /\ IF Migrated!Hashed
                THEN {log[r][i].prev, log[r][i].hash} \subseteq Migrated!Hashes
                ELSE log[r][i].prev = None /\ log[r][i].hash = None
  <2>1. log[r] \in Seq(EventRow) /\ RunInv(r)
    BY DEF MigratedInv
  <2>2. log[r][i] \in EventRow
    BY <2>1
  <2>3. log[r][i].kind \in Kinds
    BY <2>2 DEF EventRow
  <2>4. CASE Migrated!Hashed
    BY <2>1, <2>3, <2>4 DEF RunInv, Chained
  <2>5. CASE ~Migrated!Hashed
    BY <2>1, <2>3, <2>5 DEF RunInv, Unhashed
  <2>. QED  BY <2>4, <2>5
<1>2. /\ schema \in {"plain", "hashed", "bound"}
      /\ binding \in [Runs -> {None, "0.2.0", "0.3.0"}]
      /\ board \in [Runs -> BOOLEAN]
  BY DEF MigratedInv
<1>. QED  BY <1>1, <1>2 DEF Migrated!TypeOK

\* There are five parts, and the one that runs stays the one that runs.
LEMMA PartStays ==
  SpecPart => [](part \in {"submission", "frozen", "migrated", "scores", "urls"})
<1>. DEFINE Known == part \in {"submission", "frozen", "migrated", "scores", "urls"}
<1>1. InitPart => Known
  BY DEF InitPart
<1>2. Known /\ [NextPart]_<<part, vars, frozenVars, migratedVars, scoresVars, urlsVars>>
        => Known'
  BY DEF NextPart
<1>. QED  BY <1>1, <1>2, PTL DEF SpecPart

\* Every variable of the part that runs has its type: rows, bodies, marks and URLs of
\* any number and length are what the columns and the parsers allow.
THEOREM TypesOfServices ==
  SpecPart => []EveryTypeOK
<1>1. ASSUME part \in {"submission", "frozen", "migrated", "scores", "urls"},
             TypeOK, FrozenInv, MigratedInv, ScoresInv, UrlsInv
      PROVE  EveryTypeOK
  <2>1. CASE part = "submission"
    BY <1>1, <2>1 DEF EveryTypeOK
  <2>2. CASE part = "frozen"
    BY <1>1, <2>2, RecordTypes DEF EveryTypeOK
  <2>3. CASE part = "migrated"
    BY <1>1, <2>3, MigratedTypes DEF EveryTypeOK
  <2>4. CASE part = "scores"
    BY <1>1, <2>4 DEF EveryTypeOK, ScoresInv
  <2>5. CASE part = "urls"
    <3>1. Urls!TypeOK
      BY <1>1, <2>5, UrlTypes DEF UrlsInv
    <3>. QED  BY <2>5, <3>1 DEF EveryTypeOK
  <2>. QED  BY <1>1, <2>1, <2>2, <2>3, <2>4, <2>5
<1>. QED  BY <1>1, ServicesImplementSubmission, TypeCorrect, FrozenPart, MigratedPart,
             ScoresPart, UrlsPart, PartStays, PTL

=============================================================================
