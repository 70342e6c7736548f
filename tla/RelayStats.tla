----------------------------- MODULE RelayStats -----------------------------
(***************************************************************************)
(* The measurement of relay sharding (measure/relaystats/relaystats.go)    *)
(* beside the system it measures.  The supervisor hands every message to   *)
(* the measure routine through a channel before the committee gets it, and *)
(* waits for that routine before it writes the results: the records follow *)
(* the order of the messages, so a message is measured in the step that    *)
(* handles it.  A latency is not a number here: the sums record how many   *)
(* latencies went into them.                                               *)
(***************************************************************************)
EXTENDS CLPARelay

VARIABLES
  txLifecycles, \* the halves on file for a transaction; {} when none is
  written,      \* lines of a transaction in the detail file
  txNum,        \* innerShardTxNum, relay1TxNum, relay2TxNum of every epoch
  tclSum        \* number of latencies in relay1TCLSum and relay2TCLSum

statVars == <<txLifecycles, written, txNum, tclSum>>
measuredVars == <<vars, statVars>>

Epoch == 0 .. MaxEpoch
Kind  == {"normal", "relay1", "relay2"}

\* NewRelayStats
StatsInit ==
  /\ Init
  /\ txLifecycles = [i \in TxId |-> {}]
  /\ written = [i \in TxId |-> 0]
  /\ txNum = [k \in Kind |-> [e \in Epoch |-> 0]]
  /\ tclSum = [e \in Epoch |-> 0]

-----------------------------------------------------------------------------

\* The transactions of this kind in a block info.
InfoTxs(m, k) == {t.id : t \in {x \in m.txs : x.stage = k}}

\* The halves of transaction i a block info brings.
Halves(m, i) == {k \in {"relay1", "relay2"} : i \in InfoTxs(m, k)}

\* A mutated Filled: the info of the relay1 is always taken for the first one.
Filled_inOrder(m) == {i \in InfoTxs(m, "relay2") : txLifecycles[i] # {}}

\* The transactions whose life cycle this info completes: a half comes and one is
\* on file.
Filled(m) ==
  {i \in TxId : /\ Halves(m, i) # {}
                /\ txLifecycles[i] # {} \/ Halves(m, i) = {"relay1", "relay2"}}

\* The life cycle of i after an info: a new half goes on file, and a completed
\* life cycle is deleted.
Kept(m, i) == IF i \in Filled(m) THEN {} ELSE txLifecycles[i] \cup Halves(m, i)

\* UpdateMeasureRecord: an inner-shard transaction has a line at once, a relayed
\* one when its second info has come. updateRelayTxTCLByTxLifecycle adds both
\* latencies to the epoch of that info.
UpdateMeasureRecord(m) ==
  /\ txNum' = [k \in Kind |-> [txNum[k] EXCEPT ![m.epoch] = @ + Cardinality(InfoTxs(m, k))]]
  /\ txLifecycles' = [i \in TxId |-> Kept(m, i)]
  /\ written' = [i \in TxId |->
       IF i \in InfoTxs(m, "normal") \cup Filled(m) THEN written[i] + 1 ELSE written[i]]
  /\ tclSum' = [tclSum EXCEPT ![m.epoch] = @ + Cardinality(Filled(m))]

\* Start: a message is measured and handled.
MeasureAndHandle(m) == UpdateMeasureRecord(m) /\ HandleBlockInfo(m)

\* What the measurement does not see.
Unmeasured ==
  \/ SupRepartition \/ SupSendTxs
  \/ \E s \in Shard : Receive(s) \/ Build(s) \/ Commit(s)
  \/ \E m \in stateMsgs : LoseStates(m)

StatsNext ==
  \/ \E m \in infoMsgs : MeasureAndHandle(m)
  \/ Unmeasured /\ UNCHANGED statVars

StatsSpec == StatsInit /\ [][StatsNext]_measuredVars

-----------------------------------------------------------------------------
(* Properties. *)

\* The transactions whose infos are still under way.
Reported(i) == \A m \in infoMsgs : \A t \in m.txs : t.id # i

\* A transaction has its one line exactly when it is credited, and a life cycle
\* is open exactly between debit and credit, so none is left over.
RecordsMatch ==
  \A i \in TxId : Reported(i) =>
    /\ written[i] = done[i].credit
    /\ txLifecycles[i] # {} <=> done[i].debit > done[i].credit

\* Over all epochs every debit and every credit is counted once, and so are the
\* latencies of every line.
TotalsMatch ==
  (\A i \in TxId : Reported(i)) =>
    LET normal == SumFunction(txNum["normal"])
    IN  /\ normal + SumFunction(txNum["relay1"]) = SumFunction([i \in TxId |-> done[i].debit])
        /\ normal + SumFunction(txNum["relay2"]) = SumFunction([i \in TxId |-> done[i].credit])
        /\ normal + SumFunction(tclSum) = SumFunction(written)

\* The infos of the two shards of a relay come in either order, and from
\* different epochs. When none is under way the records agree with the chains.
StatsMatchChains == RecordsMatch /\ TotalsMatch
=============================================================================
