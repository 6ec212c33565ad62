----------------------------- MODULE OrderCache ------------------------------
(***************************************************************************)
(* The two-level cache of order lists (app/core/cache.py), filled by the   *)
(* two list endpoints and cleared by the endpoints that write orders       *)
(* (app/api/orders.py, order_status.py, upload.py, cleaners.py).           *)
(*                                                                         *)
(* L1 is a TTLCache in each worker process, L2 are keys in Redis.  A list  *)
(* is known by its key; what it says is known by the number of commits     *)
(* that changed it, so a copy is stale when its value is not db's.  A      *)
(* handler is cut where it awaits Redis or the database.  Time passes in   *)
(* ticks, and a copy carries its age since the database answered.          *)
(***************************************************************************)
EXTENDS Naturals, FiniteSets

CONSTANTS
    Keys,        \* keys of order lists
    Sheets,      \* those with prefix "cleaner_orders"; the others have "orders"
    Workers,     \* server processes
    Handlers,    \* requests that can be in progress at once
    Kinds,       \* the writing endpoints that clients call
    L1TTL,       \* TTLCache(ttl=5): set_cache's ttl_l1 is not used
    ListTTL,     \* ttl_l2 of list_orders
    SheetTTL,    \* ttl_l2 of get_cleaner_orders
    L1Size,      \* TTLCache(maxsize=1000)
    MaxWait,     \* bound: ticks an answer of Redis or the database can take
    MaxPlaces,   \* bound: orders of one list whose property has coordinates
    MaxWrites,   \* bound: commits that change one list
    NULL

Clearing == {"create", "accept", "put"}
Endpoints == Clearing \cup {"delete", "status", "cancel", "upload", "deleteCleaner"}

ASSUME SheetsAssumption == Sheets \subseteq Keys
ASSUME EndpointsAssumption == Kinds \subseteq Endpoints
ASSUME TimesAssumption ==
    /\ L1TTL \in Nat \ {0} /\ ListTTL \in Nat \ {0} /\ SheetTTL \in Nat \ {0}
    /\ MaxWait \in Nat \ {0} /\ L1Size \in Nat \ {0}
    /\ MaxPlaces \in Nat /\ MaxWrites \in Nat

\* A key is a prefix and a hash of the query's parameters.
Prefix(k) == IF k \in Sheets THEN "cleaner_orders" ELSE "orders"
Prefixes == {"orders", "cleaner_orders"}

TTL(k) == IF k \in Sheets THEN SheetTTL ELSE ListTTL

\* list_orders asks Redis for the distance of every order with coordinates, when it
\* is given the cleaner's position; get_cleaner_orders asks for none.
Distances(k) == IF k \in Sheets THEN 0 ELSE MaxPlaces

\* The ticks from the database's query of k to set_cache: the answer and the
\* distances, one after the other.
Gathering(k) == (1 + Distances(k)) * MaxWait

Copy == [value : Nat, age : Nat, left : Nat \ {0}]
Flight == [value : Nat, age : Nat, wait : Nat,
           places : Nat]        \* the distances yet to be asked for

ASSUME NullAssumption ==
    NULL \notin Copy /\ NULL \notin Flight /\ NULL \notin Keys /\ NULL \notin Workers

VARIABLES
    db,        \* how often each list has changed in the database
    l1,        \* each worker's TTLCache
    l2,        \* the keys in Redis
    pc,        \* where each handler stands
    worker,    \* the process it runs in
    key,       \* the list a reader asked for
    got,       \* the list a reader has in its hands
    clears,    \* the prefixes that a writer has yet to clear
    todo,      \* the keys that its running SCAN must still meet
    excused    \* history: keys whose copy in L2 has a reason to be stale

vars == <<db, l1, l2, pc, worker, key, got, clears, todo, excused>>

Places == {"idle", "missedL1", "hitL2", "missedL2", "answered", "storing",
           "served", "committed", "sweeping"}

TypeOK ==
    /\ db \in [Keys -> Nat]
    /\ l1 \in [Workers -> [Keys -> Copy \cup {NULL}]]
    /\ l2 \in [Keys -> Copy \cup {NULL}]
    /\ pc \in [Handlers -> Places]
    /\ worker \in [Handlers -> Workers \cup {NULL}]
    /\ key \in [Handlers -> Keys \cup {NULL}]
    /\ got \in [Handlers -> Flight \cup {NULL}]
    /\ clears \in [Handlers -> SUBSET Prefixes]
    /\ todo \in [Handlers -> SUBSET Keys]
    /\ excused \in SUBSET Keys

Init ==
    /\ db = [k \in Keys |-> 0]
    /\ l1 = [w \in Workers |-> [k \in Keys |-> NULL]]
    /\ l2 = [k \in Keys |-> NULL]
    /\ pc = [h \in Handlers |-> "idle"]
    /\ worker = [h \in Handlers |-> NULL]
    /\ key = [h \in Handlers |-> NULL]
    /\ got = [h \in Handlers |-> NULL]
    /\ clears = [h \in Handlers |-> {}]
    /\ todo = [h \in Handlers |-> {}]
    /\ excused = {}

------------------------------------------------------------------------------
(* Helpers                                                                 *)

\* What a cache makes of a list that is stored, and a reader of what is there.
Copied(f, ttl) == [value |-> f.value, age |-> f.age, left |-> ttl]
Held(c) == [value |-> c.value, age |-> c.age, wait |-> 0, places |-> 0]

\* `l1_cache[key] = value`: a full cache makes room first.
PutL1(w, k, f) ==
    LET c == Copied(f, L1TTL)
        filled == {j \in Keys : l1[w][j] # NULL}
    IN  IF k \in filled \/ Cardinality(filled) < L1Size
        THEN l1' = [l1 EXCEPT ![w][k] = c]
        ELSE \E j \in filled : l1' = [l1 EXCEPT ![w][j] = NULL, ![w][k] = c]

\* The prefix whose turn it is: "orders:*" comes before "cleaner_orders:*".
Pattern(h) == IF "orders" \in clears[h] THEN "orders" ELSE "cleaner_orders"

\* Whether a writer that is through with COMMIT has yet to delete k from L2.
Pending(h, k) ==
    \/ pc[h] = "committed" /\ Prefix(k) \in clears[h]
    \/ pc[h] = "sweeping" /\ (k \in todo[h] \/ Prefix(k) \in clears[h] \ {Pattern(h)})

\* The handlers of S leave: answered, failed or dead with their worker.
Leave(S) ==
    /\ pc' = [h \in Handlers |-> IF h \in S THEN "idle" ELSE pc[h]]
    /\ worker' = [h \in Handlers |-> IF h \in S THEN NULL ELSE worker[h]]
    /\ key' = [h \in Handlers |-> IF h \in S THEN NULL ELSE key[h]]
    /\ got' = [h \in Handlers |-> IF h \in S THEN NULL ELSE got[h]]
    /\ clears' = [h \in Handlers |-> IF h \in S THEN {} ELSE clears[h]]
    /\ todo' = [h \in Handlers |-> IF h \in S THEN {} ELSE todo[h]]

\* The handler moves on with f in its hands.
Carry(h, place, f) ==
    /\ pc' = [pc EXCEPT ![h] = place]
    /\ got' = [got EXCEPT ![h] = f]
    /\ UNCHANGED <<worker, key, clears, todo>>

------------------------------------------------------------------------------
(* list_orders and get_cleaner_orders                                      *)

\* get_from_cache, L1.  The copy may expire between `key in l1_cache` and
\* `l1_cache[key]`, which then raises KeyError.
Read(h) ==
    /\ pc[h] = "idle"
    /\ \E w \in Workers, k \in Keys :
         LET c == l1[w][k] IN
         /\ worker' = [worker EXCEPT ![h] = w]
         /\ key' = [key EXCEPT ![h] = k]
         /\ \/ /\ c = NULL
               /\ pc' = [pc EXCEPT ![h] = "missedL1"]
               /\ UNCHANGED got
            \/ /\ c # NULL
               /\ pc' = [pc EXCEPT ![h] = "served"]
               /\ got' = [got EXCEPT ![h] = Held(c)]
            \/ /\ c # NULL /\ c.left = 1
               /\ pc' = [pc EXCEPT ![h] = "served"]
               /\ UNCHANGED got
    /\ UNCHANGED <<db, l1, l2, clears, todo, excused>>

\* get_from_cache, L2: Redis looks the key up.
ReadL2(h) ==
    LET c == l2[key[h]] IN
    /\ pc[h] = "missedL1"
    /\ \/ c # NULL /\ Carry(h, "hitL2", Held(c))
       \/ c = NULL /\ Carry(h, "missedL2", NULL)
    /\ UNCHANGED <<db, l1, l2, excused>>

\* Mutant: a hit in L2 is stored with set_cache, which renews the key in Redis.
RenewL2(h) ==
    /\ pc[h] = "hitL2"
    /\ PutL1(worker[h], key[h], got[h])
    /\ l2' = [l2 EXCEPT ![key[h]] = Copied(got[h], TTL(key[h]))]
    /\ Carry(h, "served", got[h])
    /\ UNCHANGED <<db, excused>>

\* get_from_cache, back with Redis' answer: a copy of the copy goes to L1.
RefillL1(h) ==
    /\ pc[h] = "hitL2"
    /\ PutL1(worker[h], key[h], got[h])
    /\ Carry(h, "served", got[h])
    /\ UNCHANGED <<db, l2, excused>>

\* Mutant: the list is read from a replica that lags behind.
QueryReplica(h) ==
    /\ pc[h] = "missedL2"
    /\ \E v \in 0..db[key[h]] :
         Carry(h, "answered", [value |-> v, age |-> 0, wait |-> 0, places |-> 0])
    /\ UNCHANGED <<db, l1, l2, excused>>

\* What the database answers to the query of a list, n of its orders with
\* coordinates.
Answer(k, n) == [value |-> db[k], age |-> 0, wait |-> 0, places |-> n]

\* The database answers.
Query(h) ==
    /\ pc[h] = "missedL2"
    /\ \E n \in 0..Distances(key[h]) : Carry(h, "answered", Answer(key[h], n))
    /\ UNCHANGED <<db, l1, l2, excused>>

\* calculate_distance: the next GEODIST is sent.  If Redis fails, the distance is
\* computed, and the list goes on.
Distance(h) ==
    /\ pc[h] = "answered" /\ got[h].places > 0
    /\ Carry(h, "answered", [got[h] EXCEPT !.places = @ - 1, !.wait = 0])
    /\ UNCHANGED <<db, l1, l2, excused>>

\* set_cache, L1, with whatever has happened since the database answered.
StoreL1(h) ==
    /\ pc[h] = "answered" /\ got[h].places = 0
    /\ PutL1(worker[h], key[h], got[h])
    /\ Carry(h, "storing", [got[h] EXCEPT !.wait = 0])
    /\ UNCHANGED <<db, l2, excused>>

\* set_cache, L2: SETEX.
StoreL2(h) ==
    LET k == key[h] IN
    /\ pc[h] = "storing"
    /\ l2' = [l2 EXCEPT ![k] = Copied(got[h], TTL(k))]
    /\ excused' = IF got[h].value = db[k] THEN excused \ {k} ELSE excused \cup {k}
    /\ Carry(h, "served", got[h])
    /\ UNCHANGED <<db, l1>>

------------------------------------------------------------------------------
(* The endpoints that write orders                                         *)

\* What an endpoint clears after COMMIT.
Clears(kind) ==
    CASE kind \in Clearing -> Prefixes
      [] kind = "delete"   -> {"orders"}
      [] OTHER -> {}

\* A COMMIT that changes the lists K.  A new order is in no cleaner's list.
Commit(h) ==
    /\ pc[h] = "idle"
    /\ \E kind \in Kinds, w \in Workers, K \in SUBSET Keys \ {{}} :
         /\ kind = "create" => K \cap Sheets = {}
         /\ \A k \in K : db[k] < MaxWrites
         /\ db' = [k \in Keys |-> IF k \in K THEN db[k] + 1 ELSE db[k]]
         /\ excused' = excused \cup {k \in K : l2[k] # NULL /\ Prefix(k) \notin Clears(kind)}
         /\ \/ /\ Clears(kind) # {}
               /\ worker' = [worker EXCEPT ![h] = w]
               /\ clears' = [clears EXCEPT ![h] = Clears(kind)]
               /\ pc' = [pc EXCEPT ![h] = "committed"]
            \/ /\ Clears(kind) = {}
               /\ UNCHANGED <<worker, clears, pc>>
    /\ UNCHANGED <<l1, l2, key, got, todo>>

\* delete_pattern, L1.  It looks for the pattern's text, star included, in keys
\* that are a prefix and a hash.
Contains(k) == FALSE

\* delete_pattern begins: L1 at once, then SCAN in Redis.
Sweep(h) ==
    LET matching == {k \in Keys : Prefix(k) = Pattern(h)} IN
    /\ pc[h] = "committed"
    /\ l1' = [l1 EXCEPT ![worker[h]] =
                [k \in Keys |-> IF k \in matching /\ Contains(k) THEN NULL ELSE @[k]]]
    /\ todo' = [todo EXCEPT ![h] = {k \in matching : l2[k] # NULL}]
    /\ pc' = [pc EXCEPT ![h] = "sweeping"]
    /\ UNCHANGED <<db, l2, worker, key, got, clears, excused>>

\* A key that SCAN has met is deleted.  It may meet one that was added meanwhile.
SweepDelete(h) ==
    /\ pc[h] = "sweeping"
    /\ \E k \in Keys :
         /\ Prefix(k) = Pattern(h) /\ l2[k] # NULL
         /\ l2' = [l2 EXCEPT ![k] = NULL]
         /\ todo' = [g \in Handlers |-> todo[g] \ {k}]
         /\ excused' = excused \ {k}
    /\ UNCHANGED <<db, l1, pc, worker, key, got, clears>>

\* The next pattern, or the answer.
NextPattern(h) ==
    \/ clears[h] = {Pattern(h)} /\ Leave({h})
    \/ /\ clears[h] # {Pattern(h)}
       /\ clears' = [clears EXCEPT ![h] = @ \ {Pattern(h)}]
       /\ todo' = [todo EXCEPT ![h] = {}]
       /\ pc' = [pc EXCEPT ![h] = "committed"]
       /\ UNCHANGED <<worker, key, got>>

\* Mutant: delete_pattern is started and not awaited.
SweepNotAwaited(h) ==
    /\ pc[h] = "sweeping"
    /\ NextPattern(h)
    /\ UNCHANGED <<db, l1, l2, excused>>

\* SCAN is through once it has met every key that was there all the time.
SweepEnd(h) ==
    /\ pc[h] = "sweeping" /\ todo[h] = {}
    /\ NextPattern(h)
    /\ UNCHANGED <<db, l1, l2, excused>>

------------------------------------------------------------------------------
(* Ends, failures and time                                                 *)

Reply(h) ==
    /\ pc[h] = "served"
    /\ Leave({h})
    /\ UNCHANGED <<db, l1, l2, excused>>

\* What the writers among S will now never delete.
Abandoned(S) == {k \in Keys : l2[k] # NULL /\ \E h \in S : Pending(h, k)}

\* Redis fails while the handler waits for it: the rest is not done.
RedisFails(h) ==
    /\ pc[h] \in {"missedL1", "storing", "committed", "sweeping"}
    /\ Leave({h})
    /\ excused' = excused \cup Abandoned({h})
    /\ UNCHANGED <<db, l1, l2>>

\* A worker process is restarted.
Crash(w) ==
    LET S == {h \in Handlers : worker[h] = w} IN
    /\ l1' = [l1 EXCEPT ![w] = [k \in Keys |-> NULL]]
    /\ Leave(S)
    /\ excused' = excused \cup Abandoned(S)
    /\ UNCHANGED <<db, l2>>

\* A copy one tick later.
Expire(c) ==
    IF c = NULL \/ c.left = 1 THEN NULL
    ELSE [c EXCEPT !.age = @ + 1, !.left = @ - 1]

\* The readers that hold a list and wait for something.
Waiting == {h \in Handlers : pc[h] \in {"hitL2", "answered", "storing"}}

Tick ==
    /\ \A h \in Waiting : got[h].wait < MaxWait
    /\ l1' = [w \in Workers |-> [k \in Keys |-> Expire(l1[w][k])]]
    /\ l2' = [k \in Keys |-> Expire(l2[k])]
    /\ got' = [h \in Handlers |-> IF h \in Waiting
                                  THEN [got[h] EXCEPT !.age = @ + 1, !.wait = @ + 1]
                                  ELSE got[h]]
    /\ todo' = [h \in Handlers |-> {k \in todo[h] : l2'[k] # NULL}]
    /\ excused' = {k \in excused : l2'[k] # NULL}
    /\ UNCHANGED <<db, pc, worker, key, clears>>

Step(h) ==
    \/ ReadL2(h) \/ RefillL1(h) \/ Query(h) \/ Distance(h) \/ StoreL1(h) \/ StoreL2(h)
    \/ Sweep(h) \/ SweepDelete(h) \/ SweepEnd(h) \/ Reply(h)

Next ==
    \/ \E h \in Handlers : Read(h) \/ Commit(h) \/ Step(h) \/ RedisFails(h)
    \/ \E w \in Workers : Crash(w)
    \/ Tick

\* Every await ends, and time passes.  Nobody has to ask for anything.
Fairness == WF_vars(Tick) /\ \A h \in Handlers : WF_vars(Step(h))

Spec == Init /\ [][Next]_vars

FairSpec == Spec /\ Fairness

------------------------------------------------------------------------------
(* Properties                                                              *)

\* A list that a client is served was read from the database at most this long
\* ago: the waits of a fill (the database, each distance, Redis) and of a refill, and
\* one lifetime in each level.
StaleBounded ==
    \A h \in Handlers : pc[h] = "served" /\ got[h] # NULL =>
        got[h].age <= L1TTL + TTL(key[h]) + Gathering(key[h]) + 2 * MaxWait

\* A list in Redis that is not the database's is about to be cleared, or came
\* from a fill that a COMMIT overtook, or is one that the writer does not clear
\* or could not clear any more.  No other interleaving leaves one behind.
L2StaleExcused ==
    \A k \in Keys : l2[k] # NULL /\ l2[k].value # db[k] =>
        k \in excused \/ \E h \in Handlers : Pending(h, k)

------------------------------------------------------------------------------
(* The inductive invariant behind the two                                  *)

\* A copy's age and what is left of its lifetime add up to no more than the
\* waits before it was stored and the lifetimes of the levels it went through.
L2OK == \A k \in Keys : l2[k] # NULL =>
            l2[k].age + l2[k].left <= TTL(k) + Gathering(k) + MaxWait

L1OK == \A w \in Workers, k \in Keys : l1[w][k] # NULL =>
            l1[w][k].age + l1[w][k].left <= L1TTL + TTL(k) + Gathering(k) + 2 * MaxWait

\* What a handler has in its hands, by where it stands.
HandlerOK(h) ==
    /\ pc[h] \notin {"idle", "committed", "sweeping"} => key[h] \in Keys
    /\ pc[h] = "idle" => got[h] = NULL
    /\ pc[h] # "idle" => worker[h] \in Workers
    /\ pc[h] \in {"hitL2", "answered", "storing"} =>
         /\ got[h] # NULL
         /\ got[h].wait <= MaxWait
    /\ pc[h] = "hitL2" =>
         got[h].age <= TTL(key[h]) + Gathering(key[h]) + MaxWait + got[h].wait
    /\ pc[h] = "answered" =>
         got[h].age <= (Distances(key[h]) - got[h].places) * MaxWait + got[h].wait
    /\ pc[h] = "storing" => got[h].age <= Gathering(key[h]) + got[h].wait
    /\ pc[h] = "served" /\ got[h] # NULL =>
         got[h].age <= L1TTL + TTL(key[h]) + Gathering(key[h]) + 2 * MaxWait
    /\ pc[h] \in {"committed", "sweeping"} => clears[h] # {}

CacheInv ==
    /\ TypeOK /\ L2OK /\ L1OK /\ L2StaleExcused
    /\ \A h \in Handlers : HandlerOK(h)

------------------------------------------------------------------------------
(* Liveness                                                                *)

\* Once writes stop (here by MaxWrites), all copies come to agree with the
\* database, although no copy in L1 is ever cleared.
Fresh(c, k) == c # NULL => c.value = db[k]

EventuallyFresh ==
    <>[](\A k \in Keys : Fresh(l2[k], k) /\ \A w \in Workers : Fresh(l1[w][k], k))
==============================================================================
