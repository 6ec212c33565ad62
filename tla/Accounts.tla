------------------------------- MODULE Accounts -------------------------------
(***************************************************************************)
(* The accounts of hosts and cleaners, and the rows that name them: the    *)
(* handlers of app/api/auth.py, hosts.py and properties.py, and those of   *)
(* cleaners.py that create and delete.                                     *)
(*                                                                         *)
(* A handler that the database can interrupt is cut at its statements, as  *)
(* in OrderTx: an UPDATE of many rows locks them one after the other, and  *)
(* the locks last until the transaction ends.  One that sends a single     *)
(* statement and commits is one step, and no step when it is refused: for  *)
(* a body that is incomplete, a phone that is taken, a row that does not   *)
(* exist.  Accounts are known by their id and the code they were given;    *)
(* their other columns, which no statement below reads, are left out.      *)
(***************************************************************************)
EXTENDS Naturals, FiniteSets

CONSTANTS
    Hosts,         \* ids the users table can hand out
    Cleaners,      \* ids the cleaners table can hand out
    Properties,    \* ids of the properties table
    Orders,        \* ids of the orders table
    Handlers,      \* requests that can be in progress at once
    ShortCodes,    \* six characters: what create_host and create_cleaner draw
    LongCodes,     \* eight characters: what register draws
    NULL,          \* SQL NULL, and no handler
    Unborn,        \* an id that is not handed out yet
    Deleted        \* the row is gone

Accts == Hosts \cup Cleaners
Rows == Properties \cup Orders
Codes == ShortCodes \cup LongCodes

ASSUME TablesAssumption ==
    /\ Hosts \cap Cleaners = {} /\ Properties \cap Orders = {}
    /\ ShortCodes \cap LongCodes = {}
ASSUME MarksAssumption ==
    /\ Unborn # Deleted /\ Unborn # NULL /\ Deleted # NULL
    /\ \A m \in {NULL, Unborn, Deleted} :
         m \notin Accts /\ m \notin Codes /\ m \notin Handlers

VARIABLES
    code,      \* the committed accounts: the code of each, Unborn or Deleted
    host,      \* host_id of each committed property and order, Unborn or Deleted
    cleaner,   \* cleaner_id of each order
    lock,      \* holder of the row lock of each property and order
    pc,        \* where each handler stands
    subject,   \* the account that its request deletes
    draw,      \* the code that register drew and found free
    todo,      \* the rows that the UPDATE in progress has yet to lock
    raced      \* history: codes that two registrations found free for one table

tables == <<code, host, cleaner>>
handlers == <<pc, subject, draw, todo>>
vars == <<tables, lock, handlers, raced>>

\* register stands at "drawn" with a code; a delete goes through its UPDATEs of
\* properties and of orders, and is at "cleared" when it is to delete the account.
Places == {"idle", "host drawn", "cleaner drawn", "properties", "orders",
           "cleared", "aborting"}

TypeOK ==
    /\ code \in [Accts -> Codes \cup {Unborn, Deleted}]
    /\ host \in [Rows -> Hosts \cup {NULL, Unborn, Deleted}]
    /\ cleaner \in [Orders -> Cleaners \cup {NULL}]
    /\ lock \in [Rows -> Handlers \cup {NULL}]
    /\ pc \in [Handlers -> Places]
    /\ subject \in [Handlers -> Accts \cup {NULL}]
    /\ draw \in [Handlers -> LongCodes \cup {NULL}]
    /\ todo \in [Handlers -> SUBSET Rows]
    /\ raced \in SUBSET (LongCodes \X {"host drawn", "cleaner drawn"})

Init ==
    /\ code = [a \in Accts |-> Unborn]
    /\ host = [r \in Rows |-> Unborn]
    /\ cleaner = [o \in Orders |-> NULL]
    /\ lock = [r \in Rows |-> NULL]
    /\ pc = [h \in Handlers |-> "idle"]
    /\ subject = [h \in Handlers |-> NULL]
    /\ draw = [h \in Handlers |-> NULL]
    /\ todo = [h \in Handlers |-> {}]
    /\ raced = {}

Existing == {a \in Accts : code[a] \in Codes}
Present == {r \in Rows : host[r] \in Hosts \cup {NULL}}

------------------------------------------------------------------------------
(* Accounts come into being                                                *)

\* The table that a registration is for.
TableOf(place) == IF place = "host drawn" THEN Hosts ELSE Cleaners

\* Mutant: generate_unique_code takes the first code it draws.
DrawUnchecked(h) ==
    /\ pc[h] = "idle"
    /\ \E place \in {"host drawn", "cleaner drawn"}, c \in LongCodes :
         /\ pc' = [pc EXCEPT ![h] = place]
         /\ draw' = [draw EXCEPT ![h] = c]
         /\ raced' = IF \E k \in Handlers : pc[k] = place /\ draw[k] = c
                     THEN raced \cup {<<c, place>>} ELSE raced
    /\ UNCHANGED <<tables, lock, subject, todo>>

\* register: the phone is new among the cleaners, and generate_unique_code draws
\* until it has a code that no account of the table has.
Draw(h) ==
    /\ pc[h] = "idle"
    /\ \E place \in {"host drawn", "cleaner drawn"}, c \in LongCodes :
         /\ \A a \in TableOf(place) : code[a] # c
         /\ pc' = [pc EXCEPT ![h] = place]
         /\ draw' = [draw EXCEPT ![h] = c]
         /\ raced' = IF \E k \in Handlers : pc[k] = place /\ draw[k] = c
                     THEN raced \cup {<<c, place>>} ELSE raced
    /\ UNCHANGED <<tables, lock, subject, todo>>

\* The handler is through.
Leave(h) ==
    /\ pc' = [pc EXCEPT ![h] = "idle"]
    /\ subject' = [subject EXCEPT ![h] = NULL]
    /\ draw' = [draw EXCEPT ![h] = NULL]
    /\ todo' = [todo EXCEPT ![h] = {}]

\* register: INSERT, which takes the next id, and COMMIT.
Register(h) ==
    /\ pc[h] \in {"host drawn", "cleaner drawn"}
    /\ \E a \in TableOf(pc[h]) :
         /\ code[a] = Unborn
         /\ code' = [code EXCEPT ![a] = draw[h]]
    /\ Leave(h)
    /\ UNCHANGED <<host, cleaner, lock, raced>>

\* register: the phone is taken by now, or by an account of the other kind.
RegisterRefused(h) ==
    /\ pc[h] \in {"host drawn", "cleaner drawn"}
    /\ Leave(h)
    /\ UNCHANGED <<tables, lock, raced>>

\* create_host and create_cleaner: a code is drawn and not looked for.
CreateAccount(a) ==
    /\ code[a] = Unborn
    /\ \E c \in ShortCodes : code' = [code EXCEPT ![a] = c]
    /\ UNCHANGED <<host, cleaner, lock, handlers, raced>>

------------------------------------------------------------------------------
(* Properties and orders, as far as they name accounts                     *)

\* Mutant: the foreign key is not declared.
EnterUnchecked(r) ==
    /\ host[r] = Unborn
    /\ r \in Orders => Properties \cap Present # {}
    /\ \E u \in Hosts \cup {NULL} : host' = [host EXCEPT ![r] = u]
    /\ UNCHANGED <<code, cleaner, lock, handlers, raced>>

\* create_property and create_order: the foreign keys want a host and a property
\* that exist.
EnterRow(r) ==
    /\ host[r] = Unborn
    /\ r \in Orders => Properties \cap Present # {}
    /\ \E u \in (Hosts \cap Existing) \cup {NULL} : host' = [host EXCEPT ![r] = u]
    /\ UNCHANGED <<code, cleaner, lock, handlers, raced>>

\* The endpoints of OrderTx that set the cleaner of an order; they wait for its
\* lock, or answer 404.
AssignOrder(o) ==
    /\ o \in Present /\ lock[o] = NULL
    /\ \E c \in (Cleaners \cap Existing) \cup {NULL} : cleaner' = [cleaner EXCEPT ![o] = c]
    /\ UNCHANGED <<code, host, lock, handlers, raced>>

\* delete_order.
DropOrder(o) ==
    /\ o \in Present /\ lock[o] = NULL
    /\ host' = [host EXCEPT ![o] = Deleted]
    /\ cleaner' = [cleaner EXCEPT ![o] = NULL]
    /\ UNCHANGED <<code, lock, handlers, raced>>

------------------------------------------------------------------------------
(* delete_host and delete_cleaner                                          *)

\* A row names an account, as its host or as its cleaner.
Names(r, a) == host[r] = a \/ (r \in Orders /\ cleaner[r] = a)

\* Mutant: the UPDATE has no WHERE.
MatchingAll(S, a) == S

\* UPDATE ... SET ... = NULL: the rows of a table that its snapshot matches.
Matching(S, a) == {r \in S : Names(r, a)}

\* An UPDATE begins; delete_cleaner has no properties to clear.
DeleteBegin(h) ==
    /\ pc[h] = "idle"
    /\ \E a \in Accts :
         /\ subject' = [subject EXCEPT ![h] = a]
         /\ \/ /\ a \in Hosts
               /\ pc' = [pc EXCEPT ![h] = "properties"]
               /\ todo' = [todo EXCEPT ![h] = Matching(Properties, a)]
            \/ /\ a \in Cleaners
               /\ pc' = [pc EXCEPT ![h] = "orders"]
               /\ todo' = [todo EXCEPT ![h] = Matching(Orders, a)]
    /\ UNCHANGED <<tables, lock, draw, raced>>

\* It locks the rows in any order, and skips one that no longer matches.
LockRow(h) ==
    /\ \E r \in todo[h] :
         /\ lock[r] = NULL
         /\ todo' = [todo EXCEPT ![h] = @ \ {r}]
         /\ lock' = IF Names(r, subject[h]) THEN [lock EXCEPT ![r] = h] ELSE lock
    /\ UNCHANGED <<tables, pc, subject, draw, raced>>

\* delete_host: the UPDATE of properties is through, that of orders begins.
ClearOrders(h) ==
    /\ pc[h] = "properties" /\ todo[h] = {}
    /\ pc' = [pc EXCEPT ![h] = "orders"]
    /\ todo' = [todo EXCEPT ![h] = Matching(Orders, subject[h])]
    /\ UNCHANGED <<tables, lock, subject, draw, raced>>

\* SELECT of the account: 404, or go on to delete it.
SelectAccount(h) ==
    /\ pc[h] = "orders" /\ todo[h] = {}
    /\ pc' = [pc EXCEPT ![h] = IF subject[h] \in Existing THEN "cleared" ELSE "aborting"]
    /\ UNCHANGED <<tables, lock, subject, draw, todo, raced>>

\* The transaction ends.
Release(h) == lock' = [r \in Rows |-> IF lock[r] = h THEN NULL ELSE lock[r]]

\* Mutant: an error leaves the UPDATEs that are done in place.
RollbackCommits(h) ==
    /\ pc[h] = "aborting"
    /\ host' = [r \in Rows |-> IF lock[r] = h /\ host[r] = subject[h] THEN NULL ELSE host[r]]
    /\ Release(h)
    /\ Leave(h)
    /\ UNCHANGED <<code, cleaner, raced>>

\* Mutant: get_db closes the session and does not roll it back.
RollbackForgotten(h) ==
    /\ pc[h] = "aborting"
    /\ Leave(h)
    /\ UNCHANGED <<tables, lock, raced>>

\* get_db: the exception rolls everything back.
Rollback(h) ==
    /\ pc[h] = "aborting"
    /\ Release(h)
    /\ Leave(h)
    /\ UNCHANGED <<tables, raced>>

\* A row that the transaction has not cleared names the account by now.
Dangling(h) == \E r \in Rows : Names(r, subject[h]) /\ lock[r] # h

\* DELETE: the foreign keys refuse it, or it is committed with the UPDATEs.
DeleteCommit(h) ==
    LET a == subject[h] IN
    /\ pc[h] = "cleared"
    /\ \/ /\ Dangling(h)
          /\ pc' = [pc EXCEPT ![h] = "aborting"]
          /\ UNCHANGED <<tables, lock, subject, draw, todo>>
       \/ /\ ~Dangling(h)
          /\ code' = [code EXCEPT ![a] = Deleted]
          /\ host' = [r \in Rows |-> IF host[r] = a THEN NULL ELSE host[r]]
          /\ cleaner' = [o \in Orders |-> IF cleaner[o] = a THEN NULL ELSE cleaner[o]]
          /\ Release(h)
          /\ Leave(h)
    /\ UNCHANGED raced

------------------------------------------------------------------------------
(* Deadlocks, crashes, and the whole                                       *)

WaitsFor(h) == {lock[r] : r \in todo[h]} \ {NULL, h}

\* The handlers of S wait for each other.
Cycle(S) == S # {} /\ \A h \in S : WaitsFor(h) \cap S # {}

\* PostgreSQL's deadlock detector picks one of the transactions that wait for each
\* other, and rolls it back.
DeadlockAbort(h) ==
    /\ \E S \in SUBSET Handlers : h \in S /\ Cycle(S)
    /\ Release(h)
    /\ Leave(h)
    /\ UNCHANGED <<tables, raced>>

\* The worker process dies, and the database undoes its transaction.
Crash(h) ==
    /\ pc[h] # "idle"
    /\ Release(h)
    /\ Leave(h)
    /\ UNCHANGED <<tables, raced>>

Arrive(h) == Draw(h) \/ DeleteBegin(h)

Run(h) ==
    \/ Register(h) \/ RegisterRefused(h) \/ ClearOrders(h) \/ SelectAccount(h)
    \/ Rollback(h) \/ DeleteCommit(h)

Next ==
    \/ \E h \in Handlers : Arrive(h) \/ Run(h) \/ LockRow(h) \/ DeadlockAbort(h) \/ Crash(h)
    \/ \E a \in Accts : CreateAccount(a)
    \/ \E r \in Rows : EnterRow(r)
    \/ \E o \in Orders : AssignOrder(o) \/ DropOrder(o)

Spec == Init /\ [][Next]_vars

------------------------------------------------------------------------------
(* Properties                                                              *)

\* Every committed row names accounts that exist, although a delete clears the rows
\* it finds, statement by statement, while others are inserted and assigned.
References ==
    /\ \A r \in Rows : host[r] \in Hosts => host[r] \in Existing
    /\ \A o \in Orders : cleaner[o] # NULL => cleaner[o] \in Existing

\* generate_unique_code looks before it inserts, and create_host does not look.  Two
\* accounts of a table share a code only if it is one that is drawn unseen, or if
\* two registrations overlapped: verify_host_code fails on no other code.
SharedCodeExcused ==
    \A place \in {"host drawn", "cleaner drawn"} :
        \A a, b \in TableOf(place) \cap Existing :
            a # b /\ code[a] = code[b] =>
                code[a] \in ShortCodes \/ <<code[a], place>> \in raced

\* A delete is one step for everyone else: an account leaves all of its rows, or,
\* after an error, a deadlock or a crash, none of them.
Table == INSTANCE HostTable

TableImplemented == Table!Spec

\* Deletes go through the same tables, and those of different hosts never block each
\* other for good: a deadlock has a delete_cleaner in it, or two deletes of one host.
DeadlockNeedsSharedRows ==
    \A S \in SUBSET Handlers : Cycle(S) =>
        \/ \E h \in S : subject[h] \in Cleaners
        \/ \E h, k \in S : h # k /\ subject[h] = subject[k]

------------------------------------------------------------------------------
(* The inductive invariant                                                 *)

\* A drawn code is free, unless another registration drew it as well.
DrawOK(h) ==
    pc[h] \in {"host drawn", "cleaner drawn"} =>
        /\ draw[h] \in LongCodes
        /\ \/ <<draw[h], pc[h]>> \in raced
           \/ /\ \A a \in TableOf(pc[h]) : code[a] # draw[h]
              /\ \A k \in Handlers : k # h /\ pc[k] = pc[h] => draw[k] # draw[h]

\* A delete has a subject, and only its UPDATEs have rows yet to lock.  A row keeps
\* its host until that host or the row itself is deleted.  An account that was found
\* is there, or another request has deleted it.
DeleteOK(h) ==
    /\ pc[h] \in {"properties", "orders", "cleared", "aborting"} => subject[h] \in Accts
    /\ pc[h] \notin {"properties", "orders"} => todo[h] = {}
    /\ subject[h] \in Hosts =>
         \A r \in todo[h] : host[r] \in {subject[h], NULL, Deleted}
    /\ pc[h] = "cleared" => code[subject[h]] # Unborn

\* A locked row is there, and it names the account that its holder deletes.
LockOK(r) ==
    lock[r] # NULL =>
        /\ pc[lock[r]] \in {"properties", "orders", "cleared", "aborting"}
        /\ Names(r, subject[lock[r]])

\* An order that is not there names no cleaner.
RowOK(o) == host[o] \in {Unborn, Deleted} => cleaner[o] = NULL

\* All that holds between two steps, for the proofs.
AccountsInv ==
    /\ TypeOK /\ References /\ SharedCodeExcused
    /\ \A h \in Handlers : DrawOK(h) /\ DeleteOK(h)
    /\ \A r \in Rows : LockOK(r)
    /\ \A o \in Orders : RowOK(o)
==============================================================================
