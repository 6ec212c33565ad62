----------------------------- MODULE OrderTxDocs -----------------------------
(***************************************************************************)
(* What the repository's comments, messages and pages say of the handlers  *)
(* of OrderTx, and the handlers do not do.  Each property is refuted by a  *)
(* run of its own.                                                         *)
(***************************************************************************)
EXTENDS OrderTx

Committing(h) == pc[h] = "locked" /\ pc'[h] = "committed"

\* order_status.py:102 refuses to cancel a completed order.  The check reads an
\* unlocked row, and the order may be completed before the cancel's UPDATE.
CompletedNotCancelled ==
    [][\A h \in Handlers :
         Committing(h) /\ req[h].kind = "cancel"
             /\ row[req[h].order].status = "completed"
           => row'[req[h].order].status = "completed"]_vars

\* orders.py:206 refuses a second open order for a property and checkout time.
\* Two creates that run together both pass the check.
OneOpenOrderPerSlot ==
    \A o, p \in Orders :
        /\ row[o] # NULL /\ row[o].status = "open" /\ row[o].slot # NULL
        /\ row[p] # NULL /\ row[p].status = "open" /\ row[p].slot = row[o].slot
        => o = p

\* cleaner.html:1536 tells the slower cleaner that the order is taken already.
\* The page grabs with PUT, which marks an order accepted a second time.
GrabIsExclusive ==
    \A h \in Handlers :
        (pc[h] = "locked" /\ chg[h].status = "accepted")
          => row[req[h].order].status # "accepted"
==============================================================================
