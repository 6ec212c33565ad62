----------------------------- MODULE RedisAccept -----------------------------
(***************************************************************************)
(* Accepting an order in Redis: the idempotency keys of                    *)
(* app/core/idempotency.py around the Lua script of                        *)
(* app/core/accept_script.py, for one order.                               *)
(*                                                                         *)
(* process_with_idempotency is cut at its calls of Redis; a script is one  *)
(* step.  A call can fail, before or after Redis has done it, and a worker *)
(* can die between two calls.  How long anything takes is open: a lock may *)
(* end at any time after it is set.  A key belongs to one cleaner's        *)
(* attempt, sent once or several times, so that it stands for the cleaner. *)
(***************************************************************************)
EXTENDS Naturals, FiniteSets

CONSTANTS
    Keys,        \* idempotency keys
    Handlers,    \* requests that can be in progress at once
    Polls,       \* looks at the result of the request that has the lock
    MaxRequests, \* bound: requests in all
    MaxSyncs,    \* bound: calls of sync_order_to_redis; create_order makes one
    NULL,
    Nobody       \* a request that is over

ASSUME BoundsAssumption ==
    Polls \in Nat \ {0} /\ MaxRequests \in Nat /\ MaxSyncs \in Nat
ASSUME SetsAssumption ==
    /\ IsFiniteSet(Handlers) /\ NULL \notin Keys /\ NULL \notin Handlers
    /\ Nobody \notin Handlers /\ Nobody # NULL

VARIABLES
    status,     \* field of the order's hash; "absent" is no hash
    taker,      \* fields cleaner_id and assigned_at of the hash, or NULL
    lasting,    \* whether the hash has no lifetime
    syncing,    \* whether a sync has written the hash and not its lifetime
    lock,       \* the lock of each key: NULL, or set; by whom Redis does not know
    saved,      \* the keys that have a saved result
    pc,         \* where each request stands
    key,        \* its key
    polls,      \* how often it has looked
    requests,   \* how many requests there have been
    syncs,      \* how many syncs
    winner,     \* history: whom the script answered SUCCESS since there is a hash
    resynced,   \* history: the hash was there when it was written again
    orphaned,   \* history: a sync of the hash ended between its two calls
    excuses     \* history: how often each key was let go or ignored too early

hash == <<status, taker, lasting>>
bounds == <<requests, syncs>>
request == <<pc, key, polls>>
vars == <<hash, syncing, lock, saved, request, bounds, winner, resynced, orphaned, excuses>>

Places == {"idle", "waiting", "processing", "saving", "releasing"}

TypeOK ==
    /\ status \in {"absent", "open", "accepted"}
    /\ taker \in Keys \cup {NULL}
    /\ lasting \in BOOLEAN /\ syncing \in BOOLEAN
    /\ lock \in [Keys -> Handlers \cup {NULL, Nobody}]
    /\ saved \subseteq Keys
    /\ pc \in [Handlers -> Places]
    /\ key \in [Handlers -> Keys \cup {NULL}]
    /\ polls \in [Handlers -> 0..Polls]
    /\ requests \in Nat /\ syncs \in Nat
    /\ winner \in Keys \cup {NULL}
    /\ resynced \in BOOLEAN /\ orphaned \in BOOLEAN
    /\ excuses \in [Keys -> Nat]

Init ==
    /\ status = "absent" /\ taker = NULL /\ lasting = FALSE /\ syncing = FALSE
    /\ lock = [k \in Keys |-> NULL] /\ saved = {}
    /\ pc = [h \in Handlers |-> "idle"] /\ key = [h \in Handlers |-> NULL]
    /\ polls = [h \in Handlers |-> 0]
    /\ requests = 0 /\ syncs = 0
    /\ winner = NULL /\ resynced = FALSE /\ orphaned = FALSE
    /\ excuses = [k \in Keys |-> 0]

\* A request is processed from here on until its result is saved or is not to be.
Processing == {"processing", "saving"}
InProgress(k) == {h \in Handlers : key[h] = k /\ pc[h] \in Processing}

------------------------------------------------------------------------------
(* sync_order_to_redis                                                     *)

\* Mutant: the mapping has the fields of an order that nobody took.
SyncClears ==
    /\ syncs < MaxSyncs /\ ~syncing
    /\ syncs' = syncs + 1
    /\ status' = "open" /\ taker' = NULL
    /\ lasting' = (status = "absent" \/ lasting)
    /\ resynced' = (status # "absent")
    /\ syncing' = TRUE
    /\ UNCHANGED <<lock, saved, request, requests, winner, orphaned, excuses>>

\* HSET of the fields of an open order, which leaves the script's fields and the
\* lifetime of a hash that is there already.
Sync ==
    /\ syncs < MaxSyncs /\ ~syncing
    /\ syncs' = syncs + 1
    /\ status' = "open"
    /\ lasting' = (status = "absent" \/ lasting)
    /\ resynced' = (status # "absent")
    /\ syncing' = TRUE
    /\ UNCHANGED <<taker, lock, saved, request, requests, winner, orphaned, excuses>>

\* Mutant: no EXPIRE.
SyncForever ==
    /\ syncing
    /\ syncing' = FALSE
    /\ UNCHANGED <<hash, lock, saved, request, bounds, winner, resynced, orphaned, excuses>>

\* EXPIRE; or the worker dies, or Redis fails, before it is sent.
SyncLifetime ==
    /\ syncing
    /\ syncing' = FALSE
    /\ \/ lasting' = FALSE /\ orphaned' = FALSE
       \/ orphaned' = lasting /\ UNCHANGED lasting
    /\ UNCHANGED <<status, taker, lock, saved, request, bounds, winner, resynced, excuses>>

\* A day after the last EXPIRE.
HashExpires ==
    /\ status # "absent" /\ ~lasting
    /\ status' = "absent" /\ taker' = NULL /\ winner' = NULL /\ resynced' = FALSE
    /\ UNCHANGED <<lasting, syncing, lock, saved, request, bounds, orphaned, excuses>>

------------------------------------------------------------------------------
(* process_with_idempotency                                                *)

\* The request is over.
Leave(h) ==
    /\ pc' = [pc EXCEPT ![h] = "idle"]
    /\ key' = [key EXCEPT ![h] = NULL]
    /\ polls' = [polls EXCEPT ![h] = 0]

\* Mutant: SET without NX.
ArriveUnlocked(h) ==
    /\ pc[h] = "idle" /\ requests < MaxRequests
    /\ requests' = requests + 1
    /\ \E k \in Keys :
         /\ key' = [key EXCEPT ![h] = k]
         /\ lock' = [lock EXCEPT ![k] = h]
         /\ pc' = [pc EXCEPT ![h] = "processing"]
    /\ UNCHANGED <<hash, syncing, saved, polls, syncs, winner, resynced, orphaned,
                   excuses>>

\* SET NX of the lock; a request without a key draws one that nobody else has.  The
\* saved result is not looked at.
Arrive(h) ==
    /\ pc[h] = "idle" /\ requests < MaxRequests
    /\ requests' = requests + 1
    /\ \E k \in Keys :
         /\ key' = [key EXCEPT ![h] = k]
         /\ lock' = IF lock[k] = NULL THEN [lock EXCEPT ![k] = h] ELSE lock
         /\ pc' = [pc EXCEPT ![h] = IF lock[k] = NULL THEN "processing" ELSE "waiting"]
    /\ UNCHANGED <<hash, syncing, saved, polls, syncs, winner, resynced, orphaned,
                   excuses>>

\* A result is there: 409.
Conflict(h) ==
    /\ pc[h] = "waiting" /\ key[h] \in saved
    /\ Leave(h)
    /\ UNCHANGED <<hash, syncing, lock, saved, bounds, winner, resynced, orphaned, excuses>>

\* None is there; after the last look the request is processed all the same.
Poll(h) ==
    /\ pc[h] = "waiting" /\ key[h] \notin saved
    /\ polls' = [polls EXCEPT ![h] = @ + 1]
    /\ IF polls[h] + 1 = Polls
         THEN /\ pc' = [pc EXCEPT ![h] = "processing"]
              /\ excuses' = [excuses EXCEPT ![key[h]] = @ + 1]
         ELSE UNCHANGED <<pc, excuses>>
    /\ UNCHANGED <<hash, syncing, lock, saved, key, bounds, winner, resynced, orphaned>>

\* Mutant: the script writes the status and not who took the order.
ScriptStatusOnly(k) ==
    \/ /\ status # "open"
       /\ UNCHANGED <<status, taker, winner>>
    \/ /\ status = "open"
       /\ status' = "accepted" /\ winner' = k
       /\ UNCHANGED taker

\* The Lua script.  HSET returns how many fields are new: none, which is answered
\* UPDATE_FAILED, when the order was taken before it was synchronised again.
Script(k) ==
    \/ /\ status # "open"
       /\ UNCHANGED <<status, taker, winner>>
    \/ /\ status = "open"
       /\ status' = "accepted" /\ taker' = k
       /\ winner' = IF taker = NULL THEN k ELSE winner

\* try_accept_order: an error before or after the script runs is a result as well.
Process(h) ==
    /\ pc[h] = "processing"
    /\ Script(key[h]) \/ UNCHANGED <<status, taker, winner>>
    /\ pc' = [pc EXCEPT ![h] = "saving"]
    /\ UNCHANGED <<lasting, syncing, lock, saved, key, polls, bounds, resynced, orphaned, excuses>>

\* Scripts cannot be loaded: the exception goes through the finally clause.
ProcessFails(h) ==
    /\ pc[h] = "processing"
    /\ pc' = [pc EXCEPT ![h] = "releasing"]
    /\ UNCHANGED <<hash, syncing, lock, saved, key, polls, bounds, winner, resynced,
                   orphaned, excuses>>

\* SETEX of the result, done or not; an exception goes through the finally clause too.
Save(h) ==
    /\ pc[h] = "saving"
    /\ pc' = [pc EXCEPT ![h] = "releasing"]
    /\ saved' \in {saved, saved \cup {key[h]}}
    /\ UNCHANGED <<hash, syncing, lock, key, polls, bounds, winner, resynced, orphaned,
                   excuses>>

\* Whoever is processed with the lock of k, when the lock goes.
Exposed(k) == lock[k] # NULL /\ lock[k] \in InProgress(k)

\* The lock goes, from under whoever is processed with it.
Drop(k) ==
    /\ lock' = [lock EXCEPT ![k] = NULL]
    /\ excuses' = IF Exposed(k) THEN [excuses EXCEPT ![k] = @ + 1] ELSE excuses

\* The request is over and what it locked stays locked.
Abandon(h) == lock' = [k \in Keys |-> IF lock[k] = h THEN Nobody ELSE lock[k]]

\* DEL of the lock, whoever set it, done or not.
Release(h) ==
    /\ pc[h] = "releasing"
    /\ \/ Drop(key[h])
       \/ Abandon(h) /\ UNCHANGED excuses
    /\ Leave(h)
    /\ UNCHANGED <<hash, syncing, saved, bounds, winner, resynced, orphaned>>

\* Mutant: the lock has no lifetime.
LockStays(k) == FALSE /\ UNCHANGED vars

\* Ten seconds after SET.
LockExpires(k) ==
    /\ lock[k] # NULL
    /\ Drop(k)
    /\ UNCHANGED <<hash, syncing, saved, request, bounds, winner, resynced, orphaned>>

\* A day after SETEX.
ResultExpires(k) ==
    /\ k \in saved
    /\ saved' = saved \ {k}
    /\ UNCHANGED <<hash, syncing, lock, request, bounds, winner, resynced, orphaned, excuses>>

\* The worker dies, or an awaited call outside the try block fails.
Crash(h) ==
    /\ pc[h] # "idle"
    /\ Abandon(h)
    /\ Leave(h)
    /\ UNCHANGED <<hash, syncing, saved, bounds, winner, resynced, orphaned, excuses>>

Run(h) == Conflict(h) \/ Poll(h) \/ Process(h) \/ ProcessFails(h) \/ Save(h) \/ Release(h)

Next ==
    \/ Sync \/ SyncLifetime \/ HashExpires
    \/ \E h \in Handlers : Arrive(h) \/ Run(h) \/ Crash(h)
    \/ \E k \in Keys : LockExpires(k) \/ ResultExpires(k)

Spec == Init /\ [][Next]_vars

\* The event loop runs what is ready, and Redis drops what has had its time.
Fairness ==
    /\ \A h \in Handlers : WF_vars(Run(h))
    /\ \A k \in Keys : WF_vars(LockExpires(k))
    /\ WF_vars(SyncLifetime) /\ WF_vars(HashExpires)

FairSpec == Spec /\ Fairness

------------------------------------------------------------------------------
(* Properties                                                              *)

\* Requests with the same key are processed one at a time, but for those that gave up
\* waiting and those whose lock expired, or was deleted by another, too early.
OneAtATime == \A k \in Keys : Cardinality(InProgress(k)) <= 1 + excuses[k]

\* The script answers SUCCESS once for an order, however often it is called and the
\* order is written again, until the hash is gone.
SuccessOnce == [][winner # NULL /\ winner' # winner => status' = "absent"]_vars

\* An accepted order names whom the script told so; after it was written again it may
\* name one who was told UPDATE_FAILED.
TakerWasTold == status = "accepted" => taker # NULL /\ (taker = winner \/ resynced)

\* A hash without a lifetime gets one, unless a sync ended between its two calls: an
\* order that is over does not stay open in Redis.
HashEnds == lasting /\ status # "absent" => syncing \/ orphaned

\* No key stays locked, although a worker can die with the lock and DEL can fail; and
\* every request is answered.
LocksEnd == \A k \in Keys : []<>(lock[k] = NULL)
Answered == \A h \in Handlers : []<>(pc[h] = "idle")
RequestsEnd == LocksEnd /\ Answered

------------------------------------------------------------------------------
(* The inductive invariant                                                 *)

\* Whoever is processed without the lock is excused.
LockOK(k) == Cardinality(InProgress(k) \ {lock[k]}) <= excuses[k]

\* The hash has its fields in the order in which they are written, and an order that
\* is open with a taker was accepted and written again.
HashOK ==
    /\ status = "absent" => taker = NULL /\ winner = NULL
    /\ winner # NULL => taker # NULL
    /\ status = "open" /\ taker # NULL => resynced

\* A request has its key until it is over, and waits until it has looked often enough.
RequestOK(h) ==
    /\ pc[h] = "idle" => polls[h] = 0
    /\ pc[h] # "idle" => key[h] \in Keys
    /\ pc[h] = "waiting" => polls[h] < Polls

\* All that holds between two steps, for the proofs.
RedisInv ==
    /\ TypeOK /\ HashOK /\ TakerWasTold /\ HashEnds
    /\ \A k \in Keys : LockOK(k)
    /\ \A h \in Handlers : RequestOK(h)
==============================================================================
