------------------------------ MODULE RateLimit -------------------------------
(***************************************************************************)
(* The rate limiter (app/core/rate_limit.py) as the HTTP middleware of     *)
(* app/main.py calls it, for one client.                                   *)
(*                                                                         *)
(* Each worker process keeps the times of the client's requests it let     *)
(* through in the last Window; Redis keeps one counter for all workers.    *)
(* A request is cut where it awaits Redis or the process-wide lock.  Time  *)
(* passes in ticks, and a time stamp is known by its age.                  *)
(***************************************************************************)
EXTENDS Integers, FiniteSets

CONSTANTS
    Workers,     \* server processes
    Handlers,    \* the client's requests that can be in progress at once
    Limits,      \* the limits main.py passes: one for logins, one for the rest
    MaxLimit,    \* the largest of them
    Window,      \* LIMIT_WINDOW, the list's window and the counter's lifetime
    MaxWait,     \* bound: ticks from the arrival to the look at the list
    MaxBlind,    \* bound: requests at once that Redis gave no answer to
    NULL

ASSUME LimitsAssumption ==
    /\ MaxLimit \in Nat \ {0} /\ Limits \subseteq 1..MaxLimit
ASSUME TimesAssumption ==
    /\ Window \in Nat \ {0} /\ MaxWait \in Nat /\ MaxWait < Window
    /\ MaxBlind \in Nat
ASSUME HandlersAssumption == IsFiniteSet(Handlers)
ASSUME NullAssumption ==
    NULL \notin Workers /\ NULL \notin Handlers /\ NULL \notin Limits

\* An older stamp is in nobody's window.
Ages == 0..(Window + MaxWait - 1)

\* Times that are in the window of every request, however old its stamp.
Recent == 0..(Window - MaxWait - 1)

VARIABLES
    listed,    \* memory_limits of each worker: how many stamps of each age
    holder,    \* who has each worker's lock
    count,     \* the counter in Redis; 0 is no key
    left,      \* ticks before Redis drops it; 0 is never
    pc,        \* where each request stands
    worker,    \* the process it runs in
    limit,     \* the limit of its path
    since,     \* ticks since it took the time
    seen,      \* whether Redis told it that the counter is below the limit
    admitted,  \* history: the requests each worker let through lately, by age
    blind,     \* history: how much of count comes from requests not told
    orphaned   \* history: an EXPIRE that a counter without lifetime needed failed

memory == <<listed, holder, admitted>>
redis == <<count, left, blind, orphaned>>
request == <<worker, limit, since, seen>>
vars == <<memory, redis, pc, request>>

\* "counting" is before INCR and "expiring" before EXPIRE; a request that is
\* refused there has its worker's lock.
Places == {"idle", "arrived", "violating", "passed", "counting", "expiring"}

TypeOK ==
    /\ listed \in [Workers -> [Ages -> Nat]]
    /\ holder \in [Workers -> Handlers \cup {NULL}]
    /\ count \in Nat
    /\ left \in 0..Window
    /\ pc \in [Handlers -> Places]
    /\ worker \in [Handlers -> Workers \cup {NULL}]
    /\ limit \in [Handlers -> Limits \cup {NULL}]
    /\ since \in [Handlers -> 0..MaxWait]
    /\ seen \in [Handlers -> BOOLEAN]
    /\ admitted \in [Workers -> [Recent -> Nat]]
    /\ blind \in Nat
    /\ orphaned \in BOOLEAN

None(S) == [a \in S |-> 0]

Init ==
    /\ listed = [w \in Workers |-> None(Ages)]
    /\ holder = [w \in Workers |-> NULL]
    /\ count = 0 /\ left = 0 /\ blind = 0 /\ orphaned = FALSE
    /\ pc = [h \in Handlers |-> "idle"]
    /\ worker = [h \in Handlers |-> NULL]
    /\ limit = [h \in Handlers |-> NULL]
    /\ since = [h \in Handlers |-> 0]
    /\ seen = [h \in Handlers |-> FALSE]
    /\ admitted = [w \in Workers |-> None(Recent)]

------------------------------------------------------------------------------
(* Helpers                                                                 *)

\* The stamps of the ages S that a list has, those of one age told apart by a number.
Listing(stamps, S) == UNION {{a} \X (1..stamps[a]) : a \in S}

\* How many they are.
Total(stamps, S) == Cardinality(Listing(stamps, S))

\* Mutant: cleans up by the current time, minus what the request has waited.
StricterWindow(h) == {a \in Ages : a + since[h] < Window}

\* _cleanup_expired: `now - t < LIMIT_WINDOW`, and now is since[h] old.
InWindow(h) == {a \in Ages : a - since[h] < Window}

\* One more stamp of age a.
Stamp(stamps, a) == [stamps EXCEPT ![a] = @ + 1]

\* Every stamp is a tick older.
Older(stamps) == [a \in DOMAIN stamps |-> IF a = 0 THEN 0 ELSE stamps[a - 1]]

\* The requests that hold no answer of Redis and will count.
BlindOnes == {h \in Handlers : pc[h] \in {"passed", "counting"} /\ ~seen[h]}

\* The requests of S are through: answered, or dead with their worker.
Leave(S) ==
    /\ pc' = [h \in Handlers |-> IF h \in S THEN "idle" ELSE pc[h]]
    /\ worker' = [h \in Handlers |-> IF h \in S THEN NULL ELSE worker[h]]
    /\ limit' = [h \in Handlers |-> IF h \in S THEN NULL ELSE limit[h]]
    /\ since' = [h \in Handlers |-> IF h \in S THEN 0 ELSE since[h]]
    /\ seen' = [h \in Handlers |-> IF h \in S THEN FALSE ELSE seen[h]]

\* Mutant: a refused request is answered with the lock still taken.
AnswerLocked(h) ==
    /\ Leave({h})
    /\ UNCHANGED memory

\* The answer; whoever has the lock frees it.
Answer(h) ==
    /\ Leave({h})
    /\ holder' = [w \in Workers |-> IF holder[w] = h THEN NULL ELSE holder[w]]
    /\ UNCHANGED <<listed, admitted>>

\* Redis drops the counter.
Drop == count' = 0 /\ left' = 0 /\ blind' = 0 /\ orphaned' = FALSE

------------------------------------------------------------------------------
(* check_rate_limit                                                        *)

\* A request for a limited path; `now` is taken before the first await.
Arrive(h) ==
    /\ pc[h] = "idle"
    /\ \E w \in Workers, l \in Limits :
         /\ worker' = [worker EXCEPT ![h] = w]
         /\ limit' = [limit EXCEPT ![h] = l]
    /\ pc' = [pc EXCEPT ![h] = "arrived"]
    /\ UNCHANGED <<memory, redis, since, seen>>

\* Mutant: the counter may reach the limit.
AskOffByOne(h) ==
    /\ pc[h] = "arrived"
    /\ \/ /\ count <= limit[h]
          /\ pc' = [pc EXCEPT ![h] = "passed"]
          /\ seen' = [seen EXCEPT ![h] = TRUE]
       \/ /\ count > limit[h]
          /\ pc' = [pc EXCEPT ![h] = "violating"]
          /\ UNCHANGED seen
    /\ UNCHANGED <<memory, redis, worker, limit, since>>

\* GET.
Ask(h) ==
    /\ pc[h] = "arrived"
    /\ \/ /\ count < limit[h]
          /\ pc' = [pc EXCEPT ![h] = "passed"]
          /\ seen' = [seen EXCEPT ![h] = TRUE]
       \/ /\ count >= limit[h]
          /\ pc' = [pc EXCEPT ![h] = "violating"]
          /\ UNCHANGED seen
    /\ UNCHANGED <<memory, redis, worker, limit, since>>

\* Mutant: the refusal is counted in the counter itself and renews it.
RefuseCounted(h) ==
    /\ pc[h] = "violating"
    /\ left' = Window
    /\ Answer(h)
    /\ UNCHANGED <<count, blind, orphaned>>

\* The violation is counted in a key of its own, and the request is refused.
Refuse(h) ==
    /\ pc[h] = "violating"
    /\ Answer(h)
    /\ UNCHANGED redis

\* GET fails, or the INCR of the violations: either way the exception is passed
\* over, and the request goes on to the list.
AskFails(h) ==
    /\ pc[h] \in {"arrived", "violating"}
    /\ Cardinality(BlindOnes) + blind < MaxBlind
    /\ pc' = [pc EXCEPT ![h] = "passed"]
    /\ UNCHANGED <<memory, redis, request>>

\* The list, cleaned up, is shorter than the limit: the request is added to it.
LetThrough(h) ==
    LET w == worker[h] IN
    /\ Total(listed[w], InWindow(h)) < limit[h]
    /\ listed' = [listed EXCEPT ![w] = Stamp(
         [a \in Ages |-> IF a \in InWindow(h) THEN @[a] ELSE 0], since[h])]
    /\ admitted' = [admitted EXCEPT ![w] = Stamp(@, 0)]
    /\ UNCHANGED holder

\* The look at the list.  To let a request through takes no await, and the lock
\* is free again after it; to refuse it, the lock is kept through INCR and EXPIRE.
Look(h) ==
    LET w == worker[h] IN
    /\ pc[h] = "passed" /\ holder[w] = NULL
    /\ \/ /\ Total(listed[w], InWindow(h)) >= limit[h]
          /\ holder' = [holder EXCEPT ![w] = h]
          /\ UNCHANGED <<listed, admitted>>
       \/ LetThrough(h)
    /\ pc' = [pc EXCEPT ![h] = "counting"]
    /\ since' = [since EXCEPT ![h] = 0]
    /\ UNCHANGED <<redis, worker, limit, seen>>

\* INCR at Redis.
Increment(h) ==
    /\ count' = count + 1
    /\ blind' = IF seen[h] THEN blind ELSE blind + 1

\* Mutant: a refused request does not send EXPIRE.
CountOnly(h) ==
    /\ pc[h] = "counting"
    /\ Increment(h)
    /\ UNCHANGED <<left, orphaned>>
    /\ \/ /\ holder[worker[h]] = h
          /\ Answer(h)
       \/ /\ holder[worker[h]] # h
          /\ pc' = [pc EXCEPT ![h] = "expiring"]
          /\ UNCHANGED <<memory, request>>

\* INCR.
Count(h) ==
    /\ pc[h] = "counting"
    /\ Increment(h)
    /\ pc' = [pc EXCEPT ![h] = "expiring"]
    /\ UNCHANGED <<memory, left, orphaned, request>>

\* INCR fails, before or after Redis did it, and EXPIRE is not sent.
CountFails(h) ==
    /\ pc[h] = "counting"
    /\ \/ UNCHANGED redis
       \/ /\ Increment(h)
          /\ orphaned' = (orphaned \/ left = 0)
          /\ UNCHANGED left
    /\ Answer(h)

\* EXPIRE at Redis, which passes over a key that is gone.
Renew ==
    /\ left' = IF count > 0 THEN Window ELSE 0
    /\ orphaned' = FALSE
    /\ UNCHANGED <<count, blind>>

\* EXPIRE, and the answer.
Expire(h) ==
    /\ pc[h] = "expiring"
    /\ Renew
    /\ Answer(h)

\* EXPIRE fails, before or after Redis did it.
ExpireFails(h) ==
    /\ pc[h] = "expiring"
    /\ \/ Renew
       \/ /\ orphaned' = (orphaned \/ (count > 0 /\ left = 0))
          /\ UNCHANGED <<count, left, blind>>
    /\ Answer(h)

------------------------------------------------------------------------------
(* Time, Redis and the end of processes                                    *)

\* Those whose time stamp is taken and not yet listed.
Timed == {h \in Handlers : pc[h] \in {"arrived", "violating", "passed"}}

Tick ==
    /\ \A h \in Timed : since[h] < MaxWait
    /\ since' = [h \in Handlers |-> IF h \in Timed THEN since[h] + 1 ELSE since[h]]
    /\ listed' = [w \in Workers |-> Older(listed[w])]
    /\ admitted' = [w \in Workers |-> Older(admitted[w])]
    /\ IF left = 1 THEN Drop
       ELSE left' = (IF left = 0 THEN 0 ELSE left - 1) /\ UNCHANGED <<count, blind, orphaned>>
    /\ UNCHANGED <<holder, pc, worker, limit, seen>>

\* maxmemory-policy allkeys-lru: any key may go when memory is short.
Evict ==
    /\ count > 0
    /\ Drop
    /\ UNCHANGED <<memory, pc, request>>

\* A worker process is restarted.
Crash(w) ==
    LET S == {h \in Handlers : worker[h] = w} IN
    /\ listed' = [listed EXCEPT ![w] = None(Ages)]
    /\ admitted' = [admitted EXCEPT ![w] = None(Recent)]
    /\ holder' = [holder EXCEPT ![w] = NULL]
    /\ orphaned' = (orphaned \/ (count > 0 /\ left = 0 /\ \E h \in S : pc[h] = "expiring"))
    /\ Leave(S)
    /\ UNCHANGED <<count, left, blind>>

Step(h) == Ask(h) \/ Refuse(h) \/ Count(h) \/ Expire(h)
Failure(h) == AskFails(h) \/ CountFails(h) \/ ExpireFails(h)

Next ==
    \/ \E h \in Handlers : Arrive(h) \/ Step(h) \/ Look(h) \/ Failure(h)
    \/ \E w \in Workers : Crash(w)
    \/ Evict
    \/ Tick

Spec == Init /\ [][Next]_vars

\* Time passes, Redis answers, and asyncio.Lock serves its queue in order.
Fairness ==
    /\ WF_vars(Tick)
    /\ \A h \in Handlers : WF_vars(Step(h)) /\ SF_vars(Look(h))

FairSpec == Spec /\ Fairness

------------------------------------------------------------------------------
(* Properties                                                              *)

\* The list does its work in each process: whatever the requests waited for and
\* whichever limits they have, no process lets more than the largest limit
\* through in a window, less the wait by which a time stamp can be old.
WorkerBound ==
    \A w \in Workers : Total(admitted[w], Recent) <= MaxLimit

\* The counter is looked at before it is incremented.  It can pass the limit by
\* no more than the requests that are in progress, and those not told of it.
CounterBounded == count <= MaxLimit - 1 + Cardinality(Handlers) + blind

\* A counter that Redis would keep for ever is about to get its lifetime, unless
\* the EXPIRE that it needed failed or died.
CounterExpires ==
    count > 0 /\ left = 0 => orphaned \/ \E h \in Handlers : pc[h] = "expiring"

\* A client that is refused by the counter is let in again, even if it goes on
\* asking: a refusal does not renew the counter that caused it.
RefusalEnds == count >= MaxLimit ~> count = 0 \/ blind > 0 \/ orphaned

------------------------------------------------------------------------------
(* The inductive invariant behind those about the list and the counter     *)

\* The requests that will count, and saw the counter below their limit.
SeenOnes == {h \in Handlers : pc[h] \in {"passed", "counting"} /\ seen[h]}

\* Those that saw room for one more are part of the bound before they count.
CountOK == count - blind + Cardinality(SeenOnes) <= MaxLimit - 1 + Cardinality(Handlers)

\* What a request has, by where it stands.
RequestOK(h) ==
    /\ pc[h] # "idle" => worker[h] \in Workers /\ limit[h] \in Limits
    /\ pc[h] \in {"idle", "arrived", "violating"} => ~seen[h]

\* A lock belongs to a request of its process that is being refused, so that no
\* request is answered, and no process dies, with the lock taken.
LockOK(w) ==
    holder[w] # NULL =>
        worker[holder[w]] = w /\ pc[holder[w]] \in {"counting", "expiring"}

\* A list is never longer than the largest limit, and a request that was let through
\* is listed there with a stamp that is older by its wait and no more.
ListOK(w) ==
    /\ Total(listed[w], Ages) <= MaxLimit
    /\ \A n \in Recent : Total(admitted[w], 0..n) <= Total(listed[w], 0..(n + MaxWait))

RateInv ==
    /\ TypeOK /\ CountOK /\ CounterExpires
    /\ \A h \in Handlers : RequestOK(h)
    /\ \A w \in Workers : LockOK(w) /\ ListOK(w)
==============================================================================
