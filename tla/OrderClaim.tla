----------------------------- MODULE OrderClaim ------------------------------
(***************************************************************************)
(* What the order table promises to the people who read it, with no        *)
(* handlers, locks or transactions: every change of an order is one step.  *)
(*                                                                         *)
(* An order appears once, open and at version 0.  It is claimed for a      *)
(* cleaner only while it is open, and the claim is what moves the version. *)
(* The other endpoints overwrite the columns they name, whatever they hold *)
(* (the last writer wins), clear the slot at most, and leave the version.  *)
(***************************************************************************)
EXTENDS Naturals

CONSTANTS Orders, Cleaners, Slots, Photos, NULL

Status == {"open", "accepted", "arrived", "completed", "cancelled"}

VARIABLES
    row,      \* the committed orders
    ever      \* ids of the orders that have existed

vars == <<row, ever>>

Init ==
    /\ row = [o \in Orders |-> NULL]
    /\ ever = {}

Create(o) ==
    /\ o \notin ever
    /\ ever' = ever \cup {o}
    /\ \E s \in Slots \cup {NULL} :
         row' = [row EXCEPT ![o] = [status |-> "open", cleaner |-> NULL, version |-> 0,
                                    slot |-> s, photos |-> {}]]

\* A claim wins an open order, once per opening.
Claim(o, c) ==
    /\ row[o] # NULL /\ row[o].status = "open"
    /\ row' = [row EXCEPT ![o].status = "accepted", ![o].cleaner = c,
                          ![o].version = @ + 1]
    /\ UNCHANGED ever

Overwrite(o) ==
    /\ row[o] # NULL
    /\ \E s \in Status, c \in Cleaners \cup {NULL}, t \in {row[o].slot, NULL},
          p \in SUBSET Photos :
         row' = [row EXCEPT ![o].status = s, ![o].cleaner = c, ![o].slot = t,
                            ![o].photos = p]
    /\ UNCHANGED ever

Drop(o) ==
    /\ row[o] # NULL
    /\ row' = [row EXCEPT ![o] = NULL]
    /\ UNCHANGED ever

\* All orders of a cleaner lose it together, when the cleaner is deleted.
Unassign(c) ==
    /\ row' = [o \in Orders |-> IF row[o] # NULL /\ row[o].cleaner = c
                                THEN [row[o] EXCEPT !.cleaner = NULL] ELSE row[o]]
    /\ UNCHANGED ever

Next ==
    \/ \E o \in Orders : Create(o) \/ Overwrite(o) \/ Drop(o)
    \/ \E o \in Orders, c \in Cleaners : Claim(o, c)
    \/ \E c \in Cleaners : Unassign(c)

Spec == Init /\ [][Next]_vars
==============================================================================
