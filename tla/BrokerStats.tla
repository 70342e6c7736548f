---------------------------- MODULE BrokerStats -----------------------------
(***************************************************************************)
(* The measurement of broker sharding (measure/brokerstats/brokerstats.go) *)
(* beside the system it measures.  As in RelayStats a message is measured  *)
(* in the step that handles it, and latencies are left out.  The shards    *)
(* are static, so there is one epoch.                                      *)
(***************************************************************************)
EXTENDS BrokerShards, Functions

VARIABLES
  txLifecycles, \* the halves on file for a payment; {} when none is
  written,      \* written[i][mechanism]: lines of a payment in the detail file
  txNum         \* innerShardTxNum, broker1TxNum, broker2TxNum, relayFallbackTxNum

statVars == <<txLifecycles, written, txNum>>
measuredVars == <<vars, statVars>>

Mechanism == {"InnerShard", "Broker", "FallbackToRelay"}
Counted   == {"inner", "sigma1", "sigma2", "relay2"}

\* NewBrokerStats
StatsInit ==
  /\ Init
  /\ txLifecycles = [i \in TxId |-> {}]
  /\ written = [i \in TxId |-> [x \in Mechanism |-> 0]]
  /\ txNum = [k \in Counted |-> 0]

-----------------------------------------------------------------------------

\* The payments with a transaction of this kind in a block info.
InfoTxs(m, k) == {t.id : t \in {x \in m.txs : x.kind = k}}

\* The halves of payment i a block info brings.
Halves(m, i) == {k \in {"sigma1", "sigma2"} : i \in InfoTxs(m, k)}

\* A mutated Filled: broker1 already ends a payment.
Filled_broker1(m) == InfoTxs(m, "sigma1")

\* The payments of which a half comes when one is on file.
Filled(m) ==
  {i \in TxId : /\ Halves(m, i) # {}
                /\ txLifecycles[i] # {} \/ Halves(m, i) = {"sigma1", "sigma2"}}

\* The payments that get a line: inner-shard ones and relayed ones at once,
\* those of a broker with their second half.
Lines(m, x) ==
  CASE x = "InnerShard"      -> InfoTxs(m, "inner")
    [] x = "FallbackToRelay" -> InfoTxs(m, "relay2")
    [] x = "Broker"          -> Filled(m)

UpdateMeasureRecord(m) ==
  /\ txNum' = [k \in Counted |-> txNum[k] + Cardinality(InfoTxs(m, k))]
  /\ txLifecycles' = [i \in TxId |->
       IF i \in Filled(m) THEN {} ELSE txLifecycles[i] \cup Halves(m, i)]
  /\ written' = [i \in TxId |-> [x \in Mechanism |->
       written[i][x] + IF i \in Lines(m, x) THEN 1 ELSE 0]]

\* Start: a message is measured and handled.
MeasureAndHandle(m) == UpdateMeasureRecord(m) /\ HandleBlockInfo(m)

\* What adds nothing to the records: an empty block only moves the end of the
\* epoch.
Unmeasured ==
  \/ SupTick \/ HandleEmptyInfo
  \/ \E m \in infos : LoseInfo(m)
  \/ \E s \in Shard : CommitBlock(s) \/ \E m \in txMsgs : HandleReceiveTxs(s, m)
  \/ \E m \in txMsgs : LoseTxs(m)

StatsNext ==
  \/ \E m \in infos : MeasureAndHandle(m)
  \/ Unmeasured /\ UNCHANGED statVars

\* The fairness of BrokerShards.
StatsFairness ==
  /\ WF_measuredVars(SupTick /\ UNCHANGED statVars)
  /\ SF_measuredVars(HandleEmptyInfo /\ UNCHANGED statVars)
  /\ WF_measuredVars(\E m \in infos : MeasureAndHandle(m))
  /\ \A s \in Shard :
       /\ WF_measuredVars((\E m \in txMsgs : HandleReceiveTxs(s, m)) /\ UNCHANGED statVars)
       /\ SF_measuredVars(CommitBlock(s) /\ UNCHANGED statVars)

StatsSpec == StatsInit /\ [][StatsNext]_measuredVars /\ StatsFairness

-----------------------------------------------------------------------------
(* Properties. *)

\* Twice the total of outputBriefEpochInfo, which counts a payment of a broker
\* as the half of its two transactions.
TwiceTotal == 2 * (txNum["inner"] + txNum["relay2"]) + txNum["sigma1"] + txNum["sigma2"]

LinesOf(i) == SumFunction(written[i])

\* The results are written when the supervisor has stopped and the measure
\* routine is through. The stop logic sees to it that they are complete: every
\* payment of a broker has its one line, no life cycle is left open, no payment
\* has two lines, and the total counts every line once, also when a message was
\* lost and some payments were relayed.
ResultsComplete ==
  stopped =>
    /\ \A i \in TxId :
         /\ txLifecycles[i] = {}
         /\ via[i] # {} => written[i]["Broker"] = 1
         /\ LinesOf(i) <= 1
    /\ TwiceTotal = 2 * SumFunction([i \in TxId |-> LinesOf(i)])
=============================================================================
