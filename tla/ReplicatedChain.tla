--------------------------- MODULE ReplicatedChain ---------------------------
(***************************************************************************)
(* What the consensus of a shard promises, without messages, rounds and    *)
(* votes: the nodes decide one block per height, a decision is never taken *)
(* back, and the head of every node is a decided block.  The head of the   *)
(* leader grows by one block at a time; another node may also be carried   *)
(* to any decided block, which is what a catch-up does.                    *)
(***************************************************************************)
EXTENDS Integers

CONSTANTS Node, Leader, Payload, Genesis

VARIABLES
  decided,  \* every block some node has stored
  head      \* the current header of a node

Init ==
  /\ decided = {Genesis}
  /\ head = [n \in Node |-> Genesis]

\* Node n is the first to store a block on top of its head.
Decide(n) ==
  \E p \in Payload :
    LET b == [number |-> head[n].number + 1, payload |-> p]
    IN  /\ \A c \in decided : c.number # b.number
        /\ decided' = decided \cup {b}
        /\ head' = [head EXCEPT ![n] = b]

\* Node n stores a block that is decided already.
Learn(n) ==
  /\ \E b \in decided : /\ b.number = head[n].number + 1
                        /\ head' = [head EXCEPT ![n] = b]
  /\ UNCHANGED decided

\* A catch-up makes some decided block the head of a follower.
Transfer(n) ==
  /\ n # Leader
  /\ \E b \in decided : head' = [head EXCEPT ![n] = b]
  /\ UNCHANGED decided

Next == \E n \in Node : Decide(n) \/ Learn(n) \/ Transfer(n)

Spec == Init /\ [][Next]_<<decided, head>>
=============================================================================
