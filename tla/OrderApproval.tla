--------------------------- MODULE OrderApproval ---------------------------
(***************************************************************************)
(* What the approval gate of src/src/orders.py promises, without threads,  *)
(* locks or log records: an order waits until a person decides it, an      *)
(* approval sends it to StoreLink once, a rejection ends it, and a process *)
(* restart (the ledger is in memory, orders.py:9) forgets what was waiting *)
(* but never what was sent.  An order is a pair: the era of the process    *)
(* that raised it and its number in that era.                              *)
(***************************************************************************)
EXTENDS Integers

VARIABLES era,       \* which life of the server process this is
          waiting,   \* orders a person has still to decide
          sent,      \* orders StoreLink holds
          declined   \* orders of this era a person rejected

vars == <<era, waiting, sent, declined>>

Init == era = 1 /\ waiting = {} /\ sent = {} /\ declined = {}

\* The agent raises an order that nobody has seen before.
Propose(o) ==
    /\ o[1] = era
    /\ o \notin waiting \cup sent \cup declined
    /\ waiting' = waiting \cup {o}
    /\ UNCHANGED <<era, sent, declined>>

\* An approval sends a waiting order, and ends its wait in the same step.
Send(o) ==
    /\ o \in waiting
    /\ waiting' = waiting \ {o}
    /\ sent' = sent \cup {o}
    /\ UNCHANGED <<era, declined>>

Decline(o) ==
    /\ o \in waiting
    /\ waiting' = waiting \ {o}
    /\ declined' = declined \cup {o}
    /\ UNCHANGED <<era, sent>>

\* A restart empties the ledger.
Forget ==
    /\ era' = era + 1
    /\ waiting' = {} /\ declined' = {}
    /\ UNCHANGED sent

\* Any number not yet used will do for a new order.
Next ==
    \/ \E o \in waiting' \ waiting : Propose(o)
    \/ \E o \in waiting : Send(o) \/ Decline(o)
    \/ Forget

Spec == Init /\ [][Next]_vars
=============================================================================
