------------------------------ MODULE HostTable ------------------------------
(***************************************************************************)
(* What the tables of hosts, cleaners, properties and orders promise about *)
(* each other, with no handlers, locks or transactions: an account leaves  *)
(* all rows that name it in the step in which it is deleted, and in no     *)
(* other step does a row lose its host.                                    *)
(***************************************************************************)
CONSTANTS Hosts, Cleaners, Properties, Orders, Codes, NULL, Unborn, Deleted

VARIABLES
    code,      \* the accounts: the code of each, Unborn or Deleted
    host,      \* the host column of the properties and orders
    cleaner    \* the cleaner column of the orders

vars == <<code, host, cleaner>>

Accounts == Hosts \cup Cleaners
Rows == Properties \cup Orders

Init ==
    /\ code = [a \in Accounts |-> Unborn]
    /\ host = [r \in Rows |-> Unborn]
    /\ cleaner = [o \in Orders |-> NULL]

Existing == {a \in Accounts : code[a] \in Codes}

Open(a) ==
    /\ code[a] = Unborn
    /\ \E c \in Codes : code' = [code EXCEPT ![a] = c]
    /\ UNCHANGED <<host, cleaner>>

Enter(r) ==
    /\ host[r] = Unborn
    /\ \E u \in (Hosts \cap Existing) \cup {NULL} : host' = [host EXCEPT ![r] = u]
    /\ UNCHANGED <<code, cleaner>>

Assign(o) ==
    /\ host[o] \in Hosts \cup {NULL}
    /\ \E c \in (Cleaners \cap Existing) \cup {NULL} : cleaner' = [cleaner EXCEPT ![o] = c]
    /\ UNCHANGED <<code, host>>

Drop(o) ==
    /\ host[o] \in Hosts \cup {NULL}
    /\ host' = [host EXCEPT ![o] = Deleted]
    /\ cleaner' = [cleaner EXCEPT ![o] = NULL]
    /\ UNCHANGED code

\* All rows that name the account lose it, and it is gone.
Close(a) ==
    /\ a \in Existing
    /\ code' = [code EXCEPT ![a] = Deleted]
    /\ host' = [r \in Rows |-> IF host[r] = a THEN NULL ELSE host[r]]
    /\ cleaner' = [o \in Orders |-> IF cleaner[o] = a THEN NULL ELSE cleaner[o]]

Next ==
    \/ \E a \in Accounts : Open(a) \/ Close(a)
    \/ \E r \in Rows : Enter(r)
    \/ \E o \in Orders : Assign(o) \/ Drop(o)

Spec == Init /\ [][Next]_vars
==============================================================================
