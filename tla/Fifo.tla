-------------------------------- MODULE Fifo --------------------------------
(***************************************************************************)
(* What a queue between two parts of the program promises: the items that  *)
(* leave are those handed over, in that order, each once.  The sender's    *)
(* queue and the asynchronous log are two implementations.  An item may    *)
(* pass directly only when nothing waits.  Closing throws away what still  *)
(* waits.                                                                  *)
(***************************************************************************)
EXTENDS Naturals, Sequences

CONSTANT Items

VARIABLES
  accepted,    \* history: the items handed over, in order
  pending, delivered, open

fifoVars == <<accepted, pending, delivered, open>>

Init ==
  /\ accepted = <<>> /\ pending = <<>> /\ delivered = <<>>
  /\ open \in BOOLEAN

Accept ==
  /\ open
  /\ \E item \in Items :
       /\ accepted' = Append(accepted, item)
       /\ pending' = Append(pending, item)
  /\ UNCHANGED <<delivered, open>>

Forward ==
  /\ open /\ pending = <<>>
  /\ \E item \in Items :
       /\ accepted' = Append(accepted, item)
       /\ delivered' = Append(delivered, item)
  /\ UNCHANGED <<pending, open>>

Deliver ==
  /\ open
  /\ \E n \in 1..Len(pending) :
       /\ delivered' = delivered \o SubSeq(pending, 1, n)
       /\ pending' = SubSeq(pending, n + 1, Len(pending))
  /\ UNCHANGED <<accepted, open>>

Open  == ~open /\ open' = TRUE /\ UNCHANGED <<accepted, pending, delivered>>
Close ==
  /\ open /\ open' = FALSE
  /\ pending' = <<>>
  /\ UNCHANGED <<accepted, delivered>>

Next == Accept \/ Forward \/ Deliver \/ Open \/ Close

Spec == Init /\ [][Next]_fifoVars

(* Weak fairness of Deliver, whose guard is that something waits.          *)
Delivering == []<>(pending = <<>>) \/ []<><<Deliver>>_fifoVars

FairSpec == Spec /\ Delivering
=============================================================================
