------------------------------- MODULE OrderTx -------------------------------
(***************************************************************************)
(* The order and cleaner tables and the request handlers that write them   *)
(* (app/api/orders.py, order_status.py, upload.py, cleaners.py); not       *)
(* delete_host, which clears the host columns of orders.                   *)
(*                                                                         *)
(* A handler is one request running in one of the server's workers.  It    *)
(* is cut where it awaits the database: between two cuts another handler   *)
(* may run.  The database is PostgreSQL at READ COMMITTED: a SELECT reads  *)
(* the committed rows, an UPDATE or DELETE first waits for the row's lock  *)
(* and looks at the row again once it has it, and locks last until the     *)
(* transaction ends.  The ORM sends an UPDATE only for the columns that    *)
(* differ from what the handler loaded.                                    *)
(*                                                                         *)
(* Only a lock that another handler can notice is kept.  The key-share     *)
(* lock a foreign-key check takes on the cleaner, and the time between the *)
(* last statement and COMMIT, in which a transaction no longer waits, are  *)
(* part of the action that commits.                                        *)
(***************************************************************************)
EXTENDS Naturals, FiniteSets

CONSTANTS
    Orders,       \* ids the orders table can hand out
    Cleaners,     \* ids of the cleaners that exist at the start
    Handlers,     \* requests that can be in progress at once
    Slots,        \* (property_id, checkout_time) pairs
    Photos,       \* urls of uploaded images
    Kinds,        \* the endpoints that clients call
    Statuses,     \* the statuses that clients ask for
    MaxVersion,   \* bound: no accept is sent beyond this version
    MaxJobs,      \* bound: no completion is credited beyond this count
    NULL,         \* SQL NULL: no row, no value, no lock holder
    Keep          \* a column that the pending UPDATE leaves out

Status == {"open", "accepted", "arrived", "completed", "cancelled"}

Endpoints == {"create", "accept", "put", "status", "cancel", "delete",
              "upload", "deleteCleaner"}

\* A row of the orders table, without the columns nothing depends on.
Row == [status  : Status,
        cleaner : Cleaners \cup {NULL},
        version : Nat,
        slot    : Slots \cup {NULL},
        photos  : SUBSET Photos]

ASSUME KindsAssumption == Kinds \subseteq Endpoints
ASSUME StatusesAssumption == Statuses \subseteq Status
ASSUME BoundsAssumption == MaxVersion \in Nat /\ MaxJobs \in Nat
ASSUME NullAssumption ==
    /\ NULL \notin Handlers /\ NULL \notin Cleaners /\ NULL \notin Orders
    /\ NULL \notin Slots /\ NULL \notin Nat /\ NULL \notin Row
ASSUME KeepAssumption ==
    /\ Keep \notin Status /\ Keep \notin Cleaners /\ Keep # NULL
    /\ Keep \notin Nat
    /\ \A S \in SUBSET Photos : Keep # S

VARIABLES
    row,       \* the committed orders table; NULL where there is no row
    used,      \* order ids that were handed out: a serial never reuses one
    jobs,      \* the committed cleaners table: total_jobs, NULL if deleted
    ordLock,   \* holder of each order's row lock
    clLock,    \* holder of each cleaner's row lock
    pc,        \* where each handler stands
    req,       \* the request it serves
    chg,       \* the column values its transaction is about to write
    todo,      \* order rows that delete_cleaner's UPDATE has yet to lock
    reply      \* what the handler answers

vars == <<row, used, jobs, ordLock, clLock, pc, req, chg, todo, reply>>

Places == {"idle", "loaded", "credited", "scanning", "locked", "committed",
           "aborting", "replied"}

Replies == {"none", "ok", "notFound", "refused", "error"}

Request == [kind    : Endpoints \cup {"none"},
            order   : Orders \cup {NULL},
            cleaner : Cleaners \cup {NULL},
            slot    : Slots \cup {NULL}]

Change == [status  : Status \cup {Keep},
           cleaner : Cleaners \cup {NULL, Keep},
           version : Nat \cup {Keep},
           slot    : {NULL, Keep},
           photos  : {Keep} \cup SUBSET Photos,
           touch   : BOOLEAN,            \* some other column is written
           jobs    : Nat \cup {Keep}]    \* total_jobs of the cleaner

NoRequest == [kind |-> "none", order |-> NULL, cleaner |-> NULL, slot |-> NULL]

NoChange == [status |-> Keep, cleaner |-> Keep, version |-> Keep,
             slot |-> Keep, photos |-> Keep, touch |-> FALSE, jobs |-> Keep]

TypeOK ==
    /\ row \in [Orders -> Row \cup {NULL}]
    /\ used \in SUBSET Orders
    /\ jobs \in [Cleaners -> Nat \cup {NULL}]
    /\ ordLock \in [Orders -> Handlers \cup {NULL}]
    /\ clLock \in [Cleaners -> Handlers \cup {NULL}]
    /\ pc \in [Handlers -> Places]
    /\ req \in [Handlers -> Request]
    /\ chg \in [Handlers -> Change]
    /\ todo \in [Handlers -> SUBSET Orders]
    /\ reply \in [Handlers -> Replies]

Init ==
    /\ row = [o \in Orders |-> NULL]
    /\ used = {}
    /\ jobs = [c \in Cleaners |-> 0]
    /\ ordLock = [o \in Orders |-> NULL]
    /\ clLock = [c \in Cleaners |-> NULL]
    /\ pc = [h \in Handlers |-> "idle"]
    /\ req = [h \in Handlers |-> NoRequest]
    /\ chg = [h \in Handlers |-> NoChange]
    /\ todo = [h \in Handlers |-> {}]
    /\ reply = [h \in Handlers |-> "none"]

------------------------------------------------------------------------------
(* The session: what the handlers' steps have in common.                   *)

Ask(kind, o, c, s) == [kind |-> kind, order |-> o, cleaner |-> c, slot |-> s]

\* The handler of request r goes on to the given place with changes d pending.
Proceed(h, place, r, d) ==
    /\ pc' = [pc EXCEPT ![h] = place]
    /\ req' = [req EXCEPT ![h] = r]
    /\ chg' = [chg EXCEPT ![h] = d]
    /\ UNCHANGED reply

\* An exception leaves the handler: the changes are forgotten, the locks stay
\* until get_db rolls the transaction back.
Raise(h, r, code) ==
    /\ pc' = [pc EXCEPT ![h] = "aborting"]
    /\ req' = [req EXCEPT ![h] = r]
    /\ chg' = [chg EXCEPT ![h] = NoChange]
    /\ reply' = [reply EXCEPT ![h] = code]

\* The transaction ends: every lock it holds is free again.
ReleaseAll(h) ==
    /\ ordLock' = [o \in Orders |-> IF ordLock[o] = h THEN NULL ELSE ordLock[o]]
    /\ clLock' = [c \in Cleaners |-> IF clLock[c] = h THEN NULL ELSE clLock[c]]
    /\ todo' = [todo EXCEPT ![h] = {}]

\* The handler is through and answers.
Answer(h, code) ==
    /\ pc' = [pc EXCEPT ![h] = "replied"]
    /\ chg' = [chg EXCEPT ![h] = NoChange]
    /\ reply' = [reply EXCEPT ![h] = code]
    /\ UNCHANGED req

\* PostgreSQL itself aborts the transaction, which frees its locks at once.
Abort(h) ==
    /\ ReleaseAll(h)
    /\ Answer(h, "error")
    /\ UNCHANGED <<row, used, jobs>>

\* Mutant: get_db closes the session and does not roll it back.
RollbackForgotten(h) ==
    /\ pc[h] = "aborting"
    /\ Answer(h, reply[h])
    /\ UNCHANGED <<row, used, jobs, ordLock, clLock, todo>>

\* get_db: `except Exception: await session.rollback()`.
Rollback(h) ==
    /\ pc[h] = "aborting"
    /\ ReleaseAll(h)
    /\ Answer(h, reply[h])
    /\ UNCHANGED <<row, used, jobs>>

\* get_db: `finally: await session.close()`; the handler's slot is free.
Forget(h) ==
    /\ pc' = [pc EXCEPT ![h] = "idle"]
    /\ req' = [req EXCEPT ![h] = NoRequest]
    /\ chg' = [chg EXCEPT ![h] = NoChange]
    /\ reply' = [reply EXCEPT ![h] = "none"]

Close(h) ==
    /\ pc[h] = "replied"
    /\ Forget(h)
    /\ UNCHANGED <<row, used, jobs, ordLock, clLock, todo>>

\* The worker process dies: the database drops its connection, an open
\* transaction is undone, and a committed one is never announced.
Crash(h) ==
    /\ pc[h] # "idle"
    /\ ReleaseAll(h)
    /\ Forget(h)
    /\ UNCHANGED <<row, used, jobs>>

\* A column assignment the ORM compares with the loaded value when it flushes.
Assign(new, loaded) == IF new = loaded THEN Keep ELSE new

\* Whether the flush sends an UPDATE of the order at all.
Writes(d) == \/ d.status # Keep \/ d.cleaner # Keep \/ d.version # Keep
             \/ d.slot # Keep \/ d.photos # Keep \/ d.touch

\* The row after the UPDATE: the columns in the statement, no others.
Apply(r, d) ==
    [r EXCEPT !.status  = IF d.status = Keep THEN @ ELSE d.status,
              !.cleaner = IF d.cleaner = Keep THEN @ ELSE d.cleaner,
              !.version = IF d.version = Keep THEN @ ELSE d.version,
              !.slot    = IF d.slot = Keep THEN @ ELSE d.slot,
              !.photos  = IF d.photos = Keep THEN @ ELSE d.photos]

------------------------------------------------------------------------------
(* create_order *)

Creating == {h \in Handlers : pc[h] = "loaded" /\ req[h].kind = "create"}

\* The duplicate check.  Bound: a create goes on only if an id is left for it.
CreateCheck(h) ==
    /\ "create" \in Kinds /\ pc[h] = "idle"
    /\ \E s \in Slots \cup {NULL} :
         LET r == Ask("create", NULL, NULL, s)
             taken == /\ s # NULL
                      /\ \E o \in Orders : row[o] # NULL /\ row[o].slot = s
                                             /\ row[o].status = "open"
         IN  \/ taken /\ Raise(h, r, "refused")
             \/ s = NULL /\ Raise(h, r, "error")    \* checkout_time is no time
             \/ /\ ~taken
                /\ Cardinality(Creating) < Cardinality(Orders \ used)
                /\ Proceed(h, "loaded", r, NoChange)
    /\ UNCHANGED <<row, used, jobs, ordLock, clLock, todo>>

\* Mutant: the first version is one too low.
CreateBelowZero(h) ==
    /\ pc[h] = "loaded" /\ req[h].kind = "create"
    /\ \E o \in Orders \ used :
         /\ used' = used \cup {o}
         /\ row' = [row EXCEPT ![o] = [status |-> "open", cleaner |-> NULL, version |-> 0 - 1,
                                       slot |-> req[h].slot, photos |-> {}]]
         /\ Proceed(h, "committed", [req[h] EXCEPT !.order = o], NoChange)
    /\ UNCHANGED <<jobs, ordLock, clLock, todo>>

\* INSERT, which takes the next id, and COMMIT.
CreateCommit(h) ==
    /\ pc[h] = "loaded" /\ req[h].kind = "create"
    /\ \E o \in Orders \ used :
         /\ used' = used \cup {o}
         /\ row' = [row EXCEPT ![o] = [status |-> "open", cleaner |-> NULL, version |-> 0,
                                       slot |-> req[h].slot, photos |-> {}]]
         /\ Proceed(h, "committed", [req[h] EXCEPT !.order = o], NoChange)
    /\ UNCHANGED <<jobs, ordLock, clLock, todo>>

\* The INSERT names a property or a host that does not exist.
CreateRefused(h) ==
    /\ pc[h] = "loaded" /\ req[h].kind = "create"
    /\ Abort(h)

------------------------------------------------------------------------------
(* accept_order *)

\* Mutant: a plain SELECT, as the other endpoints have it.
AcceptUnlocked(h) ==
    /\ "accept" \in Kinds /\ pc[h] = "idle"
    /\ \E o \in Orders, c \in Cleaners :
         /\ row[o] # NULL /\ row[o].status = "open" /\ row[o].version < MaxVersion
         /\ Proceed(h, "locked", Ask("accept", o, c, NULL),
              [NoChange EXCEPT !.status = "accepted", !.cleaner = c,
                               !.version = row[o].version + 1])
    /\ UNCHANGED <<row, used, jobs, ordLock, clLock, todo>>

\* SELECT ... FOR UPDATE SKIP LOCKED, then the checks on what it returned.
AcceptSelect(h) ==
    /\ "accept" \in Kinds /\ pc[h] = "idle"
    /\ \E o \in Orders, c \in Cleaners :
         LET r == Ask("accept", o, c, NULL) IN
         \/ /\ row[o] = NULL \/ ordLock[o] # NULL
            /\ Raise(h, r, "notFound")
            /\ UNCHANGED ordLock
         \/ /\ row[o] # NULL /\ ordLock[o] = NULL
            /\ ordLock' = [ordLock EXCEPT ![o] = h]
            /\ \/ /\ row[o].status # "open"
                  /\ Raise(h, r, "refused")
               \/ /\ row[o].status = "open"
                  /\ row[o].version < MaxVersion
                  /\ Proceed(h, "locked", r,
                       [NoChange EXCEPT !.status  = "accepted",
                                        !.cleaner = Assign(c, row[o].cleaner),
                                        !.version = row[o].version + 1])
    /\ UNCHANGED <<row, used, jobs, clLock, todo>>

------------------------------------------------------------------------------
(* update_order, cancel_order, upload_image and delete_order: a plain       *)
(* SELECT, then a flush that takes the row's lock.                          *)

\* The assignments of update_order, for the columns its body names.
PutChange(o, s, c, time, p, other) ==
    [NoChange EXCEPT !.status  = Assign(s, row[o].status),
                     !.cleaner = Assign(c, row[o].cleaner),
                     !.slot    = Assign(time, row[o].slot),
                     !.photos  = Assign(p, row[o].photos),
                     !.touch   = other \/ s \in {"arrived", "completed"}]

\* update_order.  A body names any columns.  Its checkout_time can only be null
\* (which clears the slot): the driver refuses a string when it flushes, as it
\* does a status the enum does not have.
PutSelect(h) ==
    /\ "put" \in Kinds /\ pc[h] = "idle"
    /\ \E o \in Orders, s \in Statuses \cup {Keep}, c \in Cleaners \cup {NULL, Keep},
          time \in {NULL, Keep}, p \in {{q} : q \in Photos} \cup {Keep}, other \in BOOLEAN :
         LET r == Ask("put", o, NULL, NULL) IN
         \/ row[o] = NULL /\ Raise(h, r, "notFound")
         \/ row[o] # NULL /\ Raise(h, r, "error")
         \/ /\ row[o] # NULL
            /\ Proceed(h, "loaded", r, PutChange(o, s, c, time, p, other))
    /\ UNCHANGED <<row, used, jobs, ordLock, clLock, todo>>

CancelSelect(h) ==
    /\ "cancel" \in Kinds /\ pc[h] = "idle"
    /\ \E o \in Orders, reason \in BOOLEAN :
         LET r == Ask("cancel", o, NULL, NULL) IN
         \/ row[o] = NULL /\ Raise(h, r, "notFound")
         \/ row[o] # NULL /\ row[o].status = "completed" /\ Raise(h, r, "refused")
         \/ /\ row[o] # NULL /\ row[o].status # "completed"
            /\ Proceed(h, "loaded", r,
                 [NoChange EXCEPT !.status = Assign("cancelled", row[o].status),
                                  !.touch  = reason])
    /\ UNCHANGED <<row, used, jobs, ordLock, clLock, todo>>

\* upload_image: the new url is appended to the list that was loaded; an
\* unknown order is not an error.  The file name is a fresh uuid.
UploadSelect(h) ==
    /\ "upload" \in Kinds /\ pc[h] = "idle"
    /\ \E o \in Orders, p \in Photos :
         LET r == Ask("upload", o, NULL, NULL) IN
         /\ \A q \in Orders : row[q] # NULL => p \notin row[q].photos
         /\ \A k \in Handlers : chg[k].photos # Keep => p \notin chg[k].photos
         /\ \/ row[o] = NULL /\ Proceed(h, "committed", r, NoChange)
            \/ row[o] # NULL /\ Proceed(h, "loaded", r,
                 [NoChange EXCEPT !.photos = row[o].photos \cup {p}])
    /\ UNCHANGED <<row, used, jobs, ordLock, clLock, todo>>

DeleteSelect(h) ==
    /\ "delete" \in Kinds /\ pc[h] = "idle"
    /\ \E o \in Orders :
         LET r == Ask("delete", o, NULL, NULL) IN
         \/ row[o] = NULL /\ Raise(h, r, "notFound")
         \/ row[o] # NULL /\ Proceed(h, "loaded", r, NoChange)
    /\ UNCHANGED <<row, used, jobs, ordLock, clLock, todo>>

\* Nothing differs from what was loaded: COMMIT without an UPDATE.
CommitUnchanged(h) ==
    /\ pc[h] = "loaded" /\ req[h].kind \in {"put", "cancel"} /\ ~Writes(chg[h])
    /\ Proceed(h, "committed", req[h], NoChange)
    /\ UNCHANGED <<row, used, jobs, ordLock, clLock, todo>>

\* Flushers are the handlers whose next statement is a flush of their order.
Flushing(h) ==
    /\ pc[h] = "loaded"
    /\ \/ req[h].kind = "delete"
       \/ req[h].kind \in {"put", "cancel", "upload"} /\ Writes(chg[h])

\* The UPDATE or DELETE gets the row's lock.  If the row is gone, the ORM
\* raises StaleDataError for an UPDATE and only warns for a DELETE.
FlushLock(h) ==
    LET o == req[h].order IN
    /\ Flushing(h)
    /\ ordLock[o] = NULL
    /\ \/ /\ row[o] # NULL
          /\ ordLock' = [ordLock EXCEPT ![o] = h]
          /\ Proceed(h, "locked", req[h], chg[h])
       \/ /\ row[o] = NULL /\ req[h].kind = "delete"
          /\ Proceed(h, "committed", req[h], NoChange)
          /\ UNCHANGED ordLock
       \/ /\ row[o] = NULL /\ req[h].kind # "delete"
          /\ Raise(h, req[h], "error")
          /\ UNCHANGED ordLock
    /\ UNCHANGED <<row, used, jobs, clLock, todo>>

\* Mutant: orders.cleaner_id has no foreign key.
DanglingAllowed(h) == FALSE

\* The order names a cleaner that was deleted: the foreign key refuses it.
Dangling(h) == chg[h].cleaner \in Cleaners /\ jobs[chg[h].cleaner] = NULL

\* The UPDATE of the locked row takes effect with COMMIT.
FlushCommit(h) ==
    /\ pc[h] = "locked" /\ req[h].kind \in {"accept", "put", "cancel", "upload"}
    /\ \/ Dangling(h) /\ Abort(h)
       \/ /\ ~Dangling(h)
          /\ row' = [row EXCEPT ![req[h].order] = Apply(@, chg[h])]
          /\ ReleaseAll(h)
          /\ Proceed(h, "committed", req[h], NoChange)
          /\ UNCHANGED <<used, jobs>>

DeleteCommit(h) ==
    /\ pc[h] = "locked" /\ req[h].kind = "delete"
    /\ row' = [row EXCEPT ![req[h].order] = NULL]
    /\ ReleaseAll(h)
    /\ Proceed(h, "committed", req[h], NoChange)
    /\ UNCHANGED <<used, jobs>>

------------------------------------------------------------------------------
(* update_order_status *)

\* The status is checked, then the credited cleaner is loaded and counted up.
StatusSelect(h) ==
    /\ "status" \in Kinds /\ pc[h] = "idle"
    /\ \E o \in Orders, s \in Statuses, c \in Cleaners \cup {NULL} :
         LET r == Ask("status", o, c, NULL)
             credit == s = "completed" /\ c # NULL /\ jobs[c] # NULL
         IN  \/ Raise(h, r, "refused")     \* not one of the five statuses
             \/ /\ credit => jobs[c] < MaxJobs
                /\ Proceed(h, "loaded", r,
                     [NoChange EXCEPT !.status = s,
                                      !.touch  = TRUE,
                                      !.jobs   = IF credit THEN jobs[c] + 1 ELSE Keep])
    /\ UNCHANGED <<row, used, jobs, ordLock, clLock, todo>>

\* Autoflush before the order's UPDATE: the cleaner's row is updated first.
StatusCredit(h) ==
    LET c == req[h].cleaner IN
    /\ pc[h] = "loaded" /\ req[h].kind = "status" /\ chg[h].jobs # Keep
    /\ clLock[c] = NULL
    /\ \/ /\ jobs[c] = NULL
          /\ Raise(h, req[h], "error")
          /\ UNCHANGED clLock
       \/ /\ jobs[c] # NULL
          /\ clLock' = [clLock EXCEPT ![c] = h]
          /\ Proceed(h, "credited", req[h], chg[h])
    /\ UNCHANGED <<row, used, jobs, ordLock, todo>>

\* The handlers whose next statement is `update(Order).where(Order.id == ...)`.
StatusUpdating(h) ==
    /\ req[h].kind = "status"
    /\ pc[h] = "credited" \/ (pc[h] = "loaded" /\ chg[h].jobs = Keep)

\* That UPDATE gets the lock, or finds no row and changes nothing.
StatusLock(h) ==
    LET o == req[h].order IN
    /\ StatusUpdating(h)
    /\ ordLock[o] = NULL
    /\ \/ /\ row[o] # NULL
          /\ ordLock' = [ordLock EXCEPT ![o] = h]
          /\ Proceed(h, "locked", req[h], chg[h])
       \/ /\ row[o] = NULL
          /\ Proceed(h, "locked", req[h], [chg[h] EXCEPT !.status = Keep, !.touch = FALSE])
          /\ UNCHANGED ordLock
    /\ UNCHANGED <<row, used, jobs, clLock, todo>>

\* COMMIT of both UPDATEs.  What stays in chg afterwards is the rowcount.
StatusCommit(h) ==
    LET o == req[h].order
        c == req[h].cleaner
    IN
    /\ pc[h] = "locked" /\ req[h].kind = "status"
    /\ row' = IF ordLock[o] = h THEN [row EXCEPT ![o] = Apply(@, chg[h])] ELSE row
    /\ jobs' = IF chg[h].jobs = Keep THEN jobs ELSE [jobs EXCEPT ![c] = chg[h].jobs]
    /\ ReleaseAll(h)
    /\ Proceed(h, "committed", req[h], [NoChange EXCEPT !.touch = chg[h].touch])
    /\ UNCHANGED used

------------------------------------------------------------------------------
(* delete_cleaner *)

Unassigned(o) == [row[o] EXCEPT !.cleaner = NULL]

\* UPDATE orders SET cleaner_id = NULL: the rows its snapshot matches.
UnassignSelect(h) ==
    /\ "deleteCleaner" \in Kinds /\ pc[h] = "idle"
    /\ \E c \in Cleaners :
         /\ Proceed(h, "scanning", Ask("deleteCleaner", NULL, c, NULL), NoChange)
         /\ todo' = [todo EXCEPT ![h] = {o \in Orders : row[o] # NULL /\ row[o].cleaner = c}]
    /\ UNCHANGED <<row, used, jobs, ordLock, clLock>>

\* It locks them one after the other, and skips one that no longer matches.
UnassignLock(h) ==
    /\ pc[h] = "scanning"
    /\ \E o \in todo[h] :
         /\ ordLock[o] = NULL
         /\ todo' = [todo EXCEPT ![h] = @ \ {o}]
         /\ \/ /\ row[o] # NULL /\ row[o].cleaner = req[h].cleaner
               /\ ordLock' = [ordLock EXCEPT ![o] = h]
            \/ /\ ~(row[o] # NULL /\ row[o].cleaner = req[h].cleaner)
               /\ UNCHANGED ordLock
    /\ UNCHANGED <<row, used, jobs, clLock, pc, req, chg, reply>>

\* SELECT of the cleaner: 404, or go on to delete it.
UnassignDone(h) ==
    /\ pc[h] = "scanning" /\ todo[h] = {}
    /\ \/ /\ jobs[req[h].cleaner] = NULL
          /\ Raise(h, req[h], "notFound")
       \/ /\ jobs[req[h].cleaner] # NULL
          /\ Proceed(h, "locked", req[h], NoChange)
    /\ UNCHANGED <<row, used, jobs, ordLock, clLock, todo>>

\* DELETE and COMMIT: waits for a credit in progress, and the foreign key
\* refuses it if an order that was not unassigned names the cleaner by now.
CleanerCommit(h) ==
    LET c == req[h].cleaner
        named == \E o \in Orders :
                   row[o] # NULL /\ row[o].cleaner = c /\ ordLock[o] # h
    IN
    /\ pc[h] = "locked" /\ req[h].kind = "deleteCleaner"
    /\ clLock[c] = NULL
    /\ \/ /\ jobs[c] # NULL /\ named
          /\ Abort(h)
       \/ /\ ~(jobs[c] # NULL /\ named)
          /\ row' = [o \in Orders |-> IF ordLock[o] = h THEN Unassigned(o) ELSE row[o]]
          /\ jobs' = [jobs EXCEPT ![c] = NULL]
          /\ ReleaseAll(h)
          /\ Proceed(h, "committed", req[h], NoChange)
          /\ UNCHANGED used

------------------------------------------------------------------------------
(* After COMMIT, and when transactions block each other.                   *)

\* update_order_status looks at the rowcount, reads the row again and tells the clients.
StatusAnswer(h) ==
    LET missed == ~chg[h].touch
        gone == row[req[h].order] = NULL
    IN
    \/ missed /\ Answer(h, "notFound")
    \/ ~missed /\ gone /\ Answer(h, "error")
    \/ ~missed /\ ~gone /\ (Answer(h, "ok") \/ Answer(h, "error"))

\* The rows are read again (refresh, scalar_one), then clients are told and
\* caches cleared, which fails if Redis does; no answer undoes the COMMIT.
Finish(h) ==
    LET k == req[h].kind
        gone == k \in {"create", "accept", "put"} /\ row[req[h].order] = NULL
    IN
    /\ pc[h] = "committed"
    /\ \/ k = "status" /\ StatusAnswer(h)
       \/ k # "status" /\ gone /\ Answer(h, "error")
       \/ k # "status" /\ ~gone /\ Answer(h, "ok")
       \/ k \notin {"status", "upload", "deleteCleaner"} /\ ~gone /\ Answer(h, "error")
    /\ UNCHANGED <<row, used, jobs, ordLock, clLock, todo>>

\* Whom a handler's pending statement waits for.
WaitsFor(h) ==
    (CASE Flushing(h) \/ StatusUpdating(h) -> {ordLock[req[h].order]}
       [] pc[h] = "scanning" -> {ordLock[o] : o \in todo[h]}
       [] \/ pc[h] = "loaded" /\ req[h].kind = "status" /\ chg[h].jobs # Keep
          \/ pc[h] = "locked" /\ req[h].kind = "deleteCleaner" -> {clLock[req[h].cleaner]}
       [] OTHER -> {}) \ {NULL, h}

\* The handlers of S wait for each other.
Cycle(S) ==
    /\ S # {}
    /\ \A h \in S : WaitsFor(h) \cap S # {} /\ \E k \in S : h \in WaitsFor(k)

\* PostgreSQL's deadlock detector picks a victim.
DeadlockAbort(h) ==
    /\ \E S \in SUBSET Handlers : h \in S /\ Cycle(S)
    /\ Abort(h)

Arrive(h) ==
    \/ CreateCheck(h) \/ AcceptSelect(h) \/ PutSelect(h) \/ CancelSelect(h)
    \/ UploadSelect(h) \/ DeleteSelect(h) \/ StatusSelect(h) \/ UnassignSelect(h)

\* Steps that wait for nothing.
Run(h) ==
    \/ CreateCommit(h) \/ CreateRefused(h) \/ CommitUnchanged(h) \/ FlushCommit(h) \/ DeleteCommit(h)
    \/ StatusCommit(h) \/ UnassignDone(h) \/ Finish(h) \/ Rollback(h) \/ Close(h)

\* Steps that wait for a lock.
Lock(h) ==
    \/ FlushLock(h) \/ StatusCredit(h) \/ StatusLock(h) \/ UnassignLock(h)
    \/ CleanerCommit(h)

Next == \E h \in Handlers :
    Arrive(h) \/ Run(h) \/ Lock(h) \/ DeadlockAbort(h) \/ Crash(h)

\* The event loop resumes every handler whose await is over; PostgreSQL queues
\* the transactions that wait for a row, so each gets its turn; the deadlock
\* detector runs.  Nothing obliges a client to send a request.
Fairness == \A h \in Handlers :
    WF_vars(Run(h)) /\ SF_vars(Lock(h)) /\ WF_vars(DeadlockAbort(h))

Spec == Init /\ [][Next]_vars

FairSpec == Spec /\ Fairness

------------------------------------------------------------------------------
(* Safety                                                                  *)

\* From its SELECT FOR UPDATE to its COMMIT, accept_order works on an order
\* that exists, is open and still has the version it read, whatever the
\* endpoints that do not lock on SELECT do meanwhile.
AcceptHolds ==
    \A h \in Handlers : (pc[h] = "locked" /\ req[h].kind = "accept") =>
        LET o == req[h].order IN
        /\ ordLock[o] = h
        /\ row[o] # NULL
        /\ row[o].status = "open"
        /\ chg[h].version = row[o].version + 1

\* Unless some client sets an order back to open, no two requests win the same
\* order: accept_order commits at most once for it.
Won(h, o) == /\ req[h].kind = "accept" /\ req[h].order = o
             /\ pc[h] = "committed" \/ reply[h] = "ok"

OneWinner ==
    "open" \notin Statuses =>
        \A h, k \in Handlers, o \in Orders : Won(h, o) /\ Won(k, o) => h = k

\* Handler h wins the order in this step, and what that makes of the order.
Wins(h, o) == ~Won(h, o) /\ Won(h, o)'

Given(h, o) ==
    /\ row[o] # NULL
    /\ row[o].status = "open"
    /\ row'[o] = [row[o] EXCEPT !.status  = "accepted",
                               !.cleaner = req[h].cleaner,
                               !.version = row[o].version + 1]

Moved(o) == row[o] # NULL /\ row'[o] # NULL /\ row'[o].version # row[o].version

\* accept_order's COMMIT gives an open order to the cleaner who asked, at the next
\* version, and touches nothing else, although the ORM leaves out the columns that
\* were right when it loaded them; and no other endpoint moves a version.
AcceptGives ==
    [][\A o \in Orders :
         /\ \A h \in Handlers : Wins(h, o) => Given(h, o)
         /\ Moved(o) => \E h \in Handlers : Wins(h, o)]_vars

\* The foreign key orders.cleaner_id holds in every committed state, although
\* delete_cleaner unassigns the orders before it deletes the cleaner.
CleanerExists ==
    \A o \in Orders : row[o] # NULL /\ row[o].cleaner # NULL
                        => jobs[row[o].cleaner] # NULL

\* A row lock is held only by a transaction that is still open, on a row that
\* exists: no path through a handler, an exception or a crash leaks one.
NoLockLeak ==
    /\ \A o \in Orders : ordLock[o] # NULL =>
         /\ row[o] # NULL
         /\ pc[ordLock[o]] \in {"scanning", "locked", "aborting"}
    /\ \A c \in Cleaners : clLock[c] # NULL =>
         /\ jobs[c] # NULL
         /\ pc[clLock[c]] \in {"credited", "locked"}

\* The endpoints that write one order never block each other for good: every
\* deadlock has a delete_cleaner in it.
DeadlockNeedsDeleteCleaner ==
    \A S \in SUBSET Handlers :
        Cycle(S) => \E h \in S : req[h].kind = "deleteCleaner"

------------------------------------------------------------------------------
(* The inductive invariant behind the safety properties and the refinement *)

OneOrder == {"accept", "put", "cancel", "upload", "delete", "status"}

\* A request names what its endpoint needs, and where its handler can stand.
RequestOK(h) ==
    /\ req[h].kind \in OneOrder => req[h].order \in Orders
    /\ req[h].kind = "create" /\ pc[h] = "committed" => req[h].order \in Orders
    /\ req[h].kind = "deleteCleaner" => req[h].cleaner \in Cleaners
    /\ chg[h].jobs # Keep => req[h].kind = "status" /\ req[h].cleaner \in Cleaners
    /\ req[h].kind = "status" => chg[h].cleaner = Keep
    /\ pc[h] = "idle" => req[h] = NoRequest /\ chg[h] = NoChange
    /\ pc[h] = "scanning" => req[h].kind = "deleteCleaner"
    /\ pc[h] = "credited" => req[h].kind = "status"
    /\ pc[h] \notin {"aborting", "replied"} => reply[h] = "none"
    /\ pc[h] = "aborting" => reply[h] # "ok"

\* Who is about to commit an order holds its lock.
WriterOK(h) ==
    pc[h] = "locked" /\ req[h].kind \in OneOrder \ {"status"}
        => ordLock[req[h].order] = h

\* Who is about to commit a credit holds the lock of the cleaner.
CreditOK(h) ==
    pc[h] \in {"credited", "locked"} /\ chg[h].jobs # Keep
        => clLock[req[h].cleaner] = h

\* What accept_order is about to write; nobody else moves a version.
AcceptOK(h) ==
    /\ req[h].kind # "accept" => chg[h].version = Keep
    /\ req[h].kind = "accept" /\ pc[h] = "locked" =>
         LET o == req[h].order IN
         /\ row[o].status = "open"
         /\ chg[h].version = row[o].version + 1
         /\ chg[h].status = "accepted"
         /\ chg[h].photos = Keep
         /\ chg[h].slot = Keep
         /\ req[h].cleaner \in Cleaners
         /\ chg[h].cleaner = Assign(req[h].cleaner, row[o].cleaner)

\* An order that was won is not open, and nobody is about to open it.
WinnerOK(h) ==
    "open" \notin Statuses =>
        /\ chg[h].status # "open"
        /\ \A o \in Orders : Won(h, o) =>
             o \in used /\ (row[o] # NULL => row[o].status # "open")

HandlerOK(h) ==
    RequestOK(h) /\ WriterOK(h) /\ CreditOK(h) /\ AcceptOK(h) /\ WinnerOK(h)

\* The holder of an order's lock is in a transaction about that order, or has
\* found the order to belong to the cleaner it deletes.
OrderLockOK(o) ==
    LET h == ordLock[o] IN
    h # NULL =>
        /\ row[o] # NULL
        /\ pc[h] \in {"scanning", "locked", "aborting"}
        /\ \/ req[h].kind \in OneOrder /\ req[h].order = o
           \/ /\ req[h].kind = "deleteCleaner"
              /\ pc[h] # "aborting" => row[o].cleaner = req[h].cleaner

\* The holder of a cleaner's lock is about to credit that cleaner.
CleanerLockOK(c) ==
    LET h == clLock[c] IN
    h # NULL =>
        /\ jobs[c] # NULL
        /\ pc[h] \in {"credited", "locked"}
        /\ req[h].kind = "status" /\ req[h].cleaner = c
        /\ chg[h].jobs # Keep

\* Only ids that were handed out have rows.
UsedInv == \A o \in Orders : row[o] # NULL => o \in used

IInv ==
    /\ TypeOK /\ UsedInv /\ CleanerExists /\ OneWinner
    /\ \A h \in Handlers : HandlerOK(h)
    /\ \A o \in Orders : OrderLockOK(o)
    /\ \A c \in Cleaners : CleanerLockOK(c)

------------------------------------------------------------------------------
(* Refinement                                                              *)

\* The transactions together behave like the one-step table: what the locks,
\* the re-check of a locked row and the foreign key are for.
Claims == INSTANCE OrderClaim WITH ever <- used

ClaimsRefined == Claims!Spec

------------------------------------------------------------------------------
(* Liveness                                                                *)

\* Every request is answered, whatever locks and deadlocks it meets, unless
\* its worker dies.
EveryRequestAnswered ==
    \A h \in Handlers : pc[h] # "idle" ~> pc[h] \in {"replied", "idle"}
==============================================================================
