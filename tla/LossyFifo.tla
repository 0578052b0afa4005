------------------------------ MODULE LossyFifo ------------------------------
(***************************************************************************)
(* What the WAN bridge promises about each of its topics: a queue from the *)
(* local publishers to the remote ones.  A sample is lost only on its way  *)
(* in, while at least Capacity others wait; none is overtaken, left out or *)
(* repeated.  The other end may stop, and what waits then stays; but with  *)
(* a token that both sides share it does so only for a publisher of its    *)
(* own that fails.  Module WanLink shows that the bridge's threads, its    *)
(* frames and its connection implement this.                               *)
(***************************************************************************)
EXTENDS Naturals, Sequences

CONSTANTS Topics, Capacity

VARIABLES
  shared,   \* both sides have the same token
  written,  \* written[t]: how many samples local publishers wrote; their names
  queue,    \* queue[t]: samples that wait
  arrived,  \* arrived[t]: samples published at the other end
  fault     \* why the other end stopped, or "none"

fifoVars == <<shared, written, queue, arrived, fault>>

Init ==
  /\ shared \in BOOLEAN
  /\ written = [t \in Topics |-> 0]
  /\ queue = [t \in Topics |-> <<>>] /\ arrived = [t \in Topics |-> <<>>]
  /\ fault = "none"

Write(t) ==
  /\ written' = [written EXCEPT ![t] = @ + 1]
  /\ \/ queue' = [queue EXCEPT ![t] = Append(@, written'[t])]
     \/ Len(queue[t]) >= Capacity /\ queue' = queue
  /\ UNCHANGED <<shared, arrived, fault>>

Arrive(t) ==
  /\ fault = "none" /\ queue[t] # <<>>
  /\ arrived' = [arrived EXCEPT ![t] = Append(@, Head(queue[t]))]
  /\ queue' = [queue EXCEPT ![t] = Tail(@)]
  /\ UNCHANGED <<shared, written, fault>>

Stop ==
  /\ fault = "none"
  /\ fault' \in IF shared THEN {"publisher"} ELSE {"publisher", "token", "frame"}
  /\ UNCHANGED <<shared, written, queue, arrived>>

Next == Stop \/ \E t \in Topics : Write(t) \/ Arrive(t)
Spec == Init /\ [][Next]_fifoVars
=============================================================================
