------------------------------ MODULE Submission ------------------------------
(***************************************************************************)
(* From the human's approval to the registry: preflight, submit() and the  *)
(* network it talks to, for several runs at once.  The runs share what     *)
(* TrustCore, a model of one run, cannot show: one signer, whose           *)
(* transactions are numbered by nonces, and one configuration of the       *)
(* process, which names the network and the registry.                      *)
(*                                                                         *)
(* A provider is built for each call, so that the nonce is what the node   *)
(* counts as pending when the transaction is filled in, and another call   *)
(* can take the same one.  Checks of the run's status and of the frozen    *)
(* passport, and the insert of the receipt, are in TrustCore.              *)
(***************************************************************************)
EXTENDS Naturals, Sequences, FiniteSets

CONSTANTS
  Runs,        \* runs that wait for a decision
  Sepolia,     \* the chain that every approval names
  Chains,      \* chains that RPC_URL may lead to
  Addresses,   \* addresses that REGISTRY_CONTRACT may hold
  None,
  MaxRestarts  \* bound: restarts of the server with another configuration

ASSUME SubmissionAssumption ==
  /\ Sepolia \in Chains /\ None \notin Addresses
  /\ MaxRestarts \in Nat

VARIABLES
  env,       \* RPC_URL (its chain) and REGISTRY_CONTRACT
  code,      \* addresses on Sepolia where the registry is deployed
  approval,  \* for each run, the registry of its approval, or None
  call,      \* for each run, the one attempt to submit it
  receipts,  \* for each run, the transaction of its receipt, or None
  mempool,   \* transactions that are not mined
  mined,     \* for each chain, the signer's transactions in order
  records,   \* records of the registries, in order
  told,      \* history: runs approved while preflight was ready for that registry
  restarts

network == <<mempool, mined, records>>
vars == <<env, code, approval, call, receipts, network, told, restarts>>

-----------------------------------------------------------------------------
Tx == [run: Runs, chain: Chains, to: Addresses, nonce: Nat]
Record == [run: Runs, registry: Addresses]

Call ==
  [at: {"idle", "over"}]
    \cup [at: {"check", "fill"}, env: [chain: Chains, registry: Addresses]]
    \cup [at: {"send", "wait"}, tx: Tx]

At(r, step) == call[r].at = step
Goto(r, local) == call' = [call EXCEPT ![r] = local]
End(r) == Goto(r, [at |-> "over"])

\* recordCount of the registry, for the records this signer wrote.
RecordCount(a, r) ==
  Cardinality({i \in DOMAIN records : records[i] = [run |-> r, registry |-> a]})

-----------------------------------------------------------------------------
(* Before the submission.                                                  *)

\* preflight: the connected chain is Sepolia and the address has code.
Ready == env.chain = Sepolia /\ env.registry \in code

\* create_approval for a testnet attestation: the chain is Sepolia, the registry
\* any address; the dashboard shows preflight beside it and does not insist.
Approve(r, a) ==
  /\ approval[r] = None
  /\ approval' = [approval EXCEPT ![r] = a]
  /\ told' = IF Ready /\ a = env.registry THEN told \cup {r} ELSE told
  /\ UNCHANGED <<env, code, call, receipts, network, restarts>>

-----------------------------------------------------------------------------
(* submit().                                                               *)

\* Mutant: an attempt that is over can be claimed again.
BeginAgain(r) ==
  /\ At(r, "idle") \/ At(r, "over")
  /\ approval[r] # None /\ receipts[r] = None
  /\ Goto(r, [at |-> "check", env |-> env])
  /\ UNCHANGED <<env, code, approval, receipts, network, told, restarts>>

\* claim_attestation_attempt, which can succeed once, and configured_provider.
Begin(r) ==
  /\ At(r, "idle")
  /\ approval[r] # None /\ receipts[r] = None
  /\ Goto(r, [at |-> "check", env |-> env])
  /\ UNCHANGED <<env, code, approval, receipts, network, told, restarts>>

\* Mutant: the chain is taken for granted.
RegistryMatches(r) == call[r].env.registry = approval[r]

\* ensure_registry_matches and the comparison of chain ids.
ConfigurationMatches(r) ==
  call[r].env.registry = approval[r] /\ call[r].env.chain = Sepolia

Check(r) ==
  /\ At(r, "check")
  /\ IF ConfigurationMatches(r)
     THEN Goto(r, [at |-> "fill", env |-> call[r].env])
     ELSE End(r)
  /\ UNCHANGED <<env, code, approval, receipts, network, told, restarts>>

\* n is what eth_getTransactionCount answers for the signer, pending: the first nonce
\* that no transaction on the chain has.
PendingCount(c, n) ==
  /\ n >= Len(mined[c])
  /\ ~\E t \in mempool : t.chain = c /\ t.nonce = n
  /\ \A m \in Len(mined[c]) .. n - 1 : \E t \in mempool : t.chain = c /\ t.nonce = m

\* send(), first half: the fillers complete the transaction.
Fill(r) ==
  /\ At(r, "fill")
  /\ LET c == call[r].env.chain
     IN  \E n \in 0 .. Len(mined[c]) + Cardinality(mempool) :
           /\ PendingCount(c, n)
           /\ Goto(r, [at |-> "send", tx |-> [run |-> r, chain |-> c,
                                             to |-> approval[r], nonce |-> n]])
  /\ UNCHANGED <<env, code, approval, receipts, network, told, restarts>>

\* send(), second half: the node takes the transaction, in place of one with the
\* same nonce if it pays enough more; a nonce that is used up is refused (Fail).
Send(r) ==
  /\ At(r, "send")
  /\ LET t == call[r].tx
     IN  /\ t.nonce >= Len(mined[t.chain])
         /\ mempool' = {u \in mempool : <<u.chain, u.nonce>> # <<t.chain, t.nonce>>} \cup {t}
         /\ Goto(r, [at |-> "wait", tx |-> t])
  /\ UNCHANGED <<env, code, approval, receipts, mined, records, told, restarts>>

\* Mutant: the receipt is looked up by the nonce.
MinedAtNonce(r, m) == m.tx.nonce = call[r].tx.nonce /\ m.tx.chain = call[r].tx.chain

\* get_receipt: by the hash of the transaction.
MinedFor(r, m) == m.tx = call[r].tx

ReceiptOf(r, m) == [receipts EXCEPT ![r] = m.tx]

\* get_receipt answers; a transaction that was mined and reverted is an error.
Confirm(r) ==
  /\ At(r, "wait")
  /\ \E i \in DOMAIN mined[call[r].tx.chain] :
       LET m == mined[call[r].tx.chain][i]
       IN  /\ MinedFor(r, m)
           /\ receipts' = IF m.status THEN ReceiptOf(r, m) ELSE receipts
  /\ End(r)
  /\ UNCHANGED <<env, code, approval, network, told, restarts>>

\* An error of the node, a refusal, a client that disconnects: the attempt ends
\* without a receipt and the transaction, if it was sent, goes its way.
Fail(r) ==
  /\ call[r].at \in {"check", "fill", "send", "wait"}
  /\ End(r)
  /\ UNCHANGED <<env, code, approval, receipts, network, told, restarts>>

\* The server restarts, with any configuration; its calls are gone.
Restart(c, a) ==
  /\ restarts < MaxRestarts
  /\ restarts' = restarts + 1
  /\ env' = [chain |-> c, registry |-> a]
  /\ call' = [r \in Runs |-> IF At(r, "idle") THEN call[r] ELSE [at |-> "over"]]
  /\ UNCHANGED <<code, approval, receipts, network, told>>

-----------------------------------------------------------------------------
(* The network.                                                            *)

Deploy(a) ==
  /\ code' = code \cup {a}
  /\ UNCHANGED <<env, approval, call, receipts, network, told, restarts>>

Recorded(t, ok) ==
  IF ok /\ t.chain = Sepolia /\ t.to \in code
  THEN Append(records, [run |-> t.run, registry |-> t.to])
  ELSE records

\* The next transaction of the signer is mined.  recordPassport appends, or runs
\* out of gas; a call of an address without code succeeds and does nothing.
Mine(t, ok) ==
  /\ t.nonce = Len(mined[t.chain])
  /\ ok \/ t.to \in code
  /\ mempool' = mempool \ {t}
  /\ mined' = [mined EXCEPT ![t.chain] = Append(@, [tx |-> t, status |-> ok])]
  /\ records' = Recorded(t, ok)
  /\ UNCHANGED <<env, code, approval, call, receipts, told, restarts>>

\* The node forgets a transaction.
Drop(t) ==
  /\ mempool' = mempool \ {t}
  /\ UNCHANGED <<env, code, approval, call, receipts, mined, records, told, restarts>>

-----------------------------------------------------------------------------
Init ==
  /\ env \in [chain: Chains, registry: Addresses]
  /\ code = {}
  /\ approval = [r \in Runs |-> None]
  /\ call = [r \in Runs |-> [at |-> "idle"]]
  /\ receipts = [r \in Runs |-> None]
  /\ mempool = {} /\ mined = [c \in Chains |-> <<>>] /\ records = <<>>
  /\ told = {} /\ restarts = 0

Next ==
  \/ \E r \in Runs :
       \/ \E a \in Addresses : Approve(r, a)
       \/ Begin(r) \/ Check(r) \/ Fill(r) \/ Send(r) \/ Confirm(r) \/ Fail(r)
  \/ \E a \in Addresses : \/ a \notin code /\ Deploy(a)
                          \/ \E c \in Chains : Restart(c, a)
  \/ \E t \in mempool : Drop(t) \/ \E ok \in BOOLEAN : Mine(t, ok)

Spec == Init /\ [][Next]_vars

-----------------------------------------------------------------------------
(* Correctness.                                                            *)

Sent == mempool \cup UNION {{mined[c][i].tx : i \in DOMAIN mined[c]} : c \in Chains}

\* Every variable has its type.
TypeOK ==
  /\ env \in [chain: Chains, registry: Addresses]
  /\ code \subseteq Addresses
  /\ approval \in [Runs -> Addresses \cup {None}]
  /\ call \in [Runs -> Call]
  /\ receipts \in [Runs -> Tx \cup {None}]
  /\ mempool \subseteq Tx
  /\ mined \in [Chains -> Seq([tx: Tx, status: BOOLEAN])]
  /\ records \in Seq(Record)
  /\ told \subseteq Runs
  /\ restarts \in 0 .. MaxRestarts

\* What is broadcast goes where the human said: to the approved registry on the
\* approved chain, whatever the process has been configured with since.
SentAsApproved == \A t \in Sent : t.chain = Sepolia /\ t.to = approval[t.run]

\* A receipt is of its own run: it names a transaction of the run that was executed,
\* although another run may have taken the same nonce and replaced it.  And preflight
\* is worth something: with a receipt, a run that was approved for the registry that
\* preflight found ready is on record there, once.
ReceiptsHold ==
  \A r \in Runs : receipts[r] # None =>
    /\ receipts[r].run = r
    /\ \E i \in DOMAIN mined[Sepolia] : mined[Sepolia][i] = [tx |-> receipts[r], status |-> TRUE]
    /\ r \in told => RecordCount(approval[r], r) = 1

\* An approval authorises one submission: no run is on record twice.
RecordedOnce ==
  \A r \in Runs : Cardinality({i \in DOMAIN records : records[i].run = r}) <= 1

=============================================================================
