-------------------------- MODULE OrderCacheProofs ---------------------------
(***************************************************************************)
(* Theorems about OrderCache, for every set of keys, workers and requests, *)
(* all lifetimes and all waits.                                            *)
(***************************************************************************)
EXTENDS OrderCache, Integers, TLAPS

------------------------------------------------------------------------------
(* Lemmas about the helpers                                                *)

\* Lifetimes are positive.
LEMMA TTLType == \A k \in Keys : TTL(k) \in Nat \ {0}
  BY TimesAssumption DEF TTL

\* Gathering a list takes a natural number of ticks, one wait more than its distances.
LEMMA GatheringType ==
  ASSUME NEW k \in Keys
  PROVE  /\ Distances(k) \in Nat /\ Gathering(k) \in Nat /\ MaxWait \in Nat
         /\ Gathering(k) = Distances(k) * MaxWait + MaxWait
  <1>1. Distances(k) \in Nat /\ MaxWait \in Nat
    BY TimesAssumption DEF Distances
  <1>2. \A d, m \in Nat : (1 + d) * m \in Nat /\ (1 + d) * m = d * m + m
    OBVIOUS
  <1> QED
    BY <1>1, <1>2 DEF Gathering

\* A wait that ends leaves one distance less, and the bound on the age has room for it.
LEMMA OneMoreWait ==
  ASSUME NEW d \in Nat, NEW p \in Nat, NEW m \in Nat, NEW age \in Nat, NEW wait \in Nat,
         age <= (d - p) * m + wait, wait <= m
  PROVE  age <= (d - (p - 1)) * m
  <1> DEFINE x == (d - p) * m
  <1>1. x \in Int /\ (d - (p - 1)) * m = x + m
    OBVIOUS
  <1> HIDE DEF x
  <1>2. age <= x + wait
    BY DEF x
  <1> QED
    BY <1>1, <1>2

\* An expiring copy keeps its type, its value, and the sum of age and rest.
LEMMA ExpireType ==
  ASSUME NEW c \in Copy \cup {NULL}
  PROVE  /\ Expire(c) \in Copy \cup {NULL}
         /\ Expire(c) # NULL => /\ c # NULL
                                /\ Expire(c).value = c.value
                                /\ Expire(c).age + Expire(c).left = c.age + c.left
  <1>1. CASE c = NULL \/ c.left = 1
    BY <1>1 DEF Expire
  <1>2. CASE c # NULL /\ c.left # 1
    <2>1. /\ c \in Copy
          /\ Expire(c) = [c EXCEPT !.age = c.age + 1, !.left = c.left - 1]
      BY <1>2 DEF Expire
    <2>2. /\ Expire(c) = [value |-> c.value, age |-> c.age + 1, left |-> c.left - 1]
          /\ c.age \in Nat /\ c.left \in Nat \ {0} /\ c.value \in Nat
      BY <2>1 DEF Copy
    <2>3. c.left - 1 \in Nat \ {0} /\ c.age + 1 \in Nat
      BY <1>2, <2>2
    <2>4. (c.age + 1) + (c.left - 1) = c.age + c.left
      BY <2>2
    <2> QED
      BY <1>2, <2>2, <2>3, <2>4 DEF Copy
  <1> QED
    BY <1>1, <1>2

\* A copy of what a reader holds.
LEMMA CopiedType ==
  ASSUME NEW f \in Flight, NEW ttl \in Nat \ {0}
  PROVE  /\ Copied(f, ttl) \in Copy
         /\ Copied(f, ttl).value = f.value
         /\ Copied(f, ttl).age + Copied(f, ttl).left = f.age + ttl
  BY DEF Copied, Flight, Copy

\* What a reader takes from a cache.
LEMMA HeldType ==
  ASSUME NEW c \in Copy
  PROVE  Held(c) \in Flight /\ Held(c).age = c.age /\ Held(c).wait = 0
  BY DEF Held, Copy, Flight

\* Storing a list that is young enough keeps L1 in bounds.
LEMMA PutType ==
  ASSUME TypeOK, L1OK, NEW w \in Workers, NEW k \in Keys, NEW f \in Flight,
         PutL1(w, k, f), f.age <= TTL(k) + Gathering(k) + 2 * MaxWait
  PROVE  l1' \in [Workers -> [Keys -> Copy \cup {NULL}]] /\ L1OK'
  <1> DEFINE c == Copied(f, L1TTL)
             filled == {j \in Keys : l1[w][j] # NULL}
  <1>1. c \in Copy /\ c.age + c.left = f.age + L1TTL
    BY CopiedType, TimesAssumption
  <1>2. /\ f.age \in Nat /\ L1TTL \in Nat /\ MaxWait \in Nat /\ TTL(k) \in Nat
        /\ Gathering(k) \in Nat
    BY TTLType, GatheringType, TimesAssumption DEF Flight
  <1>3. c.age + c.left <= L1TTL + TTL(k) + Gathering(k) + 2 * MaxWait
    BY <1>1, <1>2
  <1>4. l1 \in [Workers -> [Keys -> Copy \cup {NULL}]]
    BY DEF TypeOK
  <1> HIDE DEF c
  <1>5. CASE l1' = [l1 EXCEPT ![w][k] = c]
    BY <1>1, <1>3, <1>4, <1>5 DEF L1OK
  <1>6. CASE \E j \in filled : l1' = [l1 EXCEPT ![w][j] = NULL, ![w][k] = c]
    <2>1. PICK j \in Keys : l1' = [l1 EXCEPT ![w][j] = NULL, ![w][k] = c]
      BY <1>6
    <2>2. l1' = [v \in Workers |-> [i \in Keys |->
                   IF v = w /\ i = k THEN c ELSE IF v = w /\ i = j THEN NULL ELSE l1[v][i]]]
      BY <1>4, <2>1
    <2>3. \A v \in Workers, i \in Keys :
            l1'[v][i] = IF v = w /\ i = k THEN c
                        ELSE IF v = w /\ i = j THEN NULL ELSE l1[v][i]
      BY <2>2
    <2> QED
      BY <1>1, <1>3, <1>4, <2>2, <2>3 DEF L1OK
  <1> QED
    BY <1>5, <1>6 DEF PutL1, c

\* Leaving keeps the handlers well typed, and sets those of S back.
LEMMA LeaveType ==
  ASSUME TypeOK, NEW S \in SUBSET Handlers, Leave(S)
  PROVE  /\ pc' \in [Handlers -> Places] /\ worker' \in [Handlers -> Workers \cup {NULL}]
         /\ key' \in [Handlers -> Keys \cup {NULL}]
         /\ got' \in [Handlers -> Flight \cup {NULL}]
         /\ clears' \in [Handlers -> SUBSET Prefixes]
         /\ todo' \in [Handlers -> SUBSET Keys]
  BY DEF Leave, TypeOK, Places

\* The handlers that stay are as they were, and the others are idle.
LEMMA LeaveOK ==
  ASSUME TypeOK, NEW S \in SUBSET Handlers, Leave(S), \A h \in Handlers : HandlerOK(h)
  PROVE  \A h \in Handlers : HandlerOK(h)'
  <1> SUFFICES ASSUME NEW h \in Handlers PROVE HandlerOK(h)'
    OBVIOUS
  <1>1. CASE h \in S
    <2>1. pc'[h] = "idle" /\ got'[h] = NULL
      BY <1>1 DEF Leave
    <2> QED
      BY <2>1 DEF HandlerOK
  <1>2. CASE h \notin S
    <2>1. /\ pc'[h] = pc[h] /\ worker'[h] = worker[h] /\ key'[h] = key[h]
          /\ got'[h] = got[h] /\ clears'[h] = clears[h]
      BY <1>2 DEF Leave
    <2>2. HandlerOK(h)
      OBVIOUS
    <2> QED
      BY <2>1, <2>2 DEF HandlerOK
  <1> QED
    BY <1>1, <1>2

\* Only the handlers of S lose what they had pending.
LEMMA LeavePending ==
  ASSUME TypeOK, NEW S \in SUBSET Handlers, Leave(S),
         NEW h \in Handlers, NEW k \in Keys, Pending(h, k), h \notin S
  PROVE  Pending(h, k)'
  BY DEF Leave, Pending, Pattern

\* Moving on keeps the handlers well typed.
LEMMA CarryType ==
  ASSUME TypeOK, NEW h \in Handlers, NEW p \in Places, NEW f \in Flight \cup {NULL},
         Carry(h, p, f)
  PROVE  /\ pc' \in [Handlers -> Places] /\ worker' \in [Handlers -> Workers \cup {NULL}]
         /\ key' \in [Handlers -> Keys \cup {NULL}]
         /\ got' \in [Handlers -> Flight \cup {NULL}]
         /\ clears' \in [Handlers -> SUBSET Prefixes]
         /\ todo' \in [Handlers -> SUBSET Keys]
  BY DEF Carry, TypeOK

\* A reader that moves on leaves the other handlers as they were.
LEMMA CarryOK ==
  ASSUME TypeOK, NEW h \in Handlers, NEW p \in Places, NEW f \in Flight \cup {NULL},
         Carry(h, p, f), \A g \in Handlers : HandlerOK(g), HandlerOK(h)'
  PROVE  \A g \in Handlers : HandlerOK(g)'
  <1> SUFFICES ASSUME NEW g \in Handlers, g # h PROVE HandlerOK(g)'
    OBVIOUS
  <1>1. pc'[g] = pc[g] /\ got'[g] = got[g] /\ UNCHANGED <<worker, key, clears>>
    BY DEF Carry, TypeOK
  <1>2. HandlerOK(g)
    OBVIOUS
  <1> QED
    BY <1>1, <1>2 DEF HandlerOK

\* A reader that moves on, from and to a reader's place, leaves the writers alone.
LEMMA CarryPending ==
  ASSUME TypeOK, NEW h \in Handlers, NEW p \in Places \ {"committed", "sweeping"}, NEW f,
         Carry(h, p, f), pc[h] \notin {"committed", "sweeping"}
  PROVE  \A g \in Handlers, k \in Keys : Pending(g, k)' <=> Pending(g, k)
  BY DEF Carry, TypeOK, Pending, Pattern

------------------------------------------------------------------------------
(* Readers                                                                 *)

\* What CacheInv says of two variables, of L2 and of the pending clears, stays
\* true when they stay as they are.
LEMMA SameL2 ==
  ASSUME CacheInv, UNCHANGED <<db, l2, excused>>,
         \A g \in Handlers, k \in Keys : Pending(g, k) => Pending(g, k)'
  PROVE  L2OK' /\ L2StaleExcused'
  BY DEF CacheInv, L2OK, L2StaleExcused

\* Read starts a request with a copy from L1 or with nothing.
LEMMA ReadKeeps ==
  ASSUME CacheInv, NEW h \in Handlers, Read(h)
  PROVE  CacheInv'
  <1> USE DEF CacheInv
  <1>1. PICK w \in Workers, k \in Keys :
          /\ worker' = [worker EXCEPT ![h] = w]
          /\ key' = [key EXCEPT ![h] = k]
          /\ \/ pc' = [pc EXCEPT ![h] = "missedL1"] /\ UNCHANGED got
             \/ /\ l1[w][k] # NULL /\ pc' = [pc EXCEPT ![h] = "served"]
                /\ \/ got' = [got EXCEPT ![h] = Held(l1[w][k])]
                   \/ UNCHANGED got
    BY DEF Read
  <1>2. pc[h] = "idle" /\ UNCHANGED <<db, l1, l2, clears, todo, excused>>
    BY DEF Read
  <1>3. l1[w][k] # NULL => /\ Held(l1[w][k]) \in Flight
                           /\ Held(l1[w][k]).age <= L1TTL + TTL(k) + Gathering(k) + 2 * MaxWait
    <2>1. CASE l1[w][k] # NULL
      <3>1. l1[w][k] \in Copy
        BY <2>1 DEF TypeOK
      <3>2. l1[w][k].age + l1[w][k].left <= L1TTL + TTL(k) + Gathering(k) + 2 * MaxWait
        BY <2>1 DEF L1OK
      <3>3. /\ l1[w][k].age \in Nat /\ l1[w][k].left \in Nat /\ TTL(k) \in Nat
            /\ Gathering(k) \in Nat
        BY <3>1, TTLType, GatheringType DEF Copy
      <3> QED
        BY <3>1, <3>2, <3>3, HeldType, TimesAssumption
    <2> QED
      BY <2>1
  <1>4. TypeOK'
    BY <1>1, <1>2, <1>3 DEF TypeOK, Places
  <1>5. L1OK'
    BY <1>2 DEF L1OK
  <1>6. \A g \in Handlers, j \in Keys : Pending(g, j) => Pending(g, j)'
    BY <1>1, <1>2 DEF Pending, Pattern, TypeOK
  <1>7. L2OK' /\ L2StaleExcused'
    BY <1>2, <1>6, SameL2
  <1>8. ASSUME NEW g \in Handlers PROVE HandlerOK(g)'
    <2>1. HandlerOK(g)
      OBVIOUS
    <2>2. CASE g # h
      <3>1. /\ pc'[g] = pc[g] /\ worker'[g] = worker[g] /\ key'[g] = key[g]
            /\ got'[g] = got[g] /\ clears'[g] = clears[g]
        BY <1>1, <1>2, <2>2 DEF TypeOK
      <3> QED
        BY <2>1, <3>1 DEF HandlerOK
    <2>3. CASE g = h
      <3>1. key'[h] = k /\ worker'[h] = w
        BY <1>1 DEF TypeOK
      <3>2. CASE pc' = [pc EXCEPT ![h] = "missedL1"]
        <4>1. pc'[h] = "missedL1"
          BY <3>2 DEF TypeOK
        <4> QED
          BY <2>3, <3>1, <4>1 DEF HandlerOK
      <3>3. CASE l1[w][k] # NULL /\ pc' = [pc EXCEPT ![h] = "served"]
                   /\ got' = [got EXCEPT ![h] = Held(l1[w][k])]
        <4>1. pc'[h] = "served" /\ got'[h] = Held(l1[w][k])
          BY <3>3 DEF TypeOK
        <4> QED
          BY <1>3, <2>3, <3>1, <3>3, <4>1 DEF HandlerOK
      <3>4. CASE pc' = [pc EXCEPT ![h] = "served"] /\ UNCHANGED got
        <4>1. pc'[h] = "served" /\ got'[h] = NULL
          BY <1>2, <2>1, <2>3, <3>4 DEF TypeOK, HandlerOK
        <4> QED
          BY <2>3, <3>1, <4>1 DEF HandlerOK
      <3> QED
        BY <1>1, <3>2, <3>3, <3>4
    <2> QED
      BY <2>2, <2>3
  <1> QED
    BY <1>4, <1>5, <1>7, <1>8

\* Redis' answer to the lookup.
LEMMA ReadL2Keeps ==
  ASSUME CacheInv, NEW h \in Handlers, ReadL2(h)
  PROVE  CacheInv'
  <1> USE DEF CacheInv
  <1> DEFINE k == key[h]
             c == l2[k]
  <1>1. pc[h] = "missedL1" /\ UNCHANGED <<db, l1, l2, excused>>
    BY DEF ReadL2
  <1>2. HandlerOK(h)
    OBVIOUS
  <1>3. k \in Keys /\ worker[h] \in Workers
    BY <1>1, <1>2 DEF HandlerOK
  <1>4. CASE c # NULL /\ Carry(h, "hitL2", Held(c))
    <2>1. c \in Copy /\ c.age + c.left <= TTL(k) + Gathering(k) + MaxWait
      BY <1>3, <1>4 DEF TypeOK, L2OK
    <2>2. Held(c) \in Flight /\ Held(c).age = c.age /\ Held(c).wait = 0
      BY <2>1, HeldType
    <2>3. Held(c).age <= TTL(k) + Gathering(k) + MaxWait + Held(c).wait /\ Held(c).wait <= MaxWait
      <3>1. /\ c.age \in Nat /\ c.left \in Nat /\ TTL(k) \in Nat /\ MaxWait \in Nat
            /\ Gathering(k) \in Nat
        BY <1>3, <2>1, TTLType, GatheringType DEF Copy
      <3> QED
        BY <2>1, <2>2, <3>1
    <2>4. TypeOK'
      BY <1>1, <1>4, <2>2, CarryType DEF TypeOK, Places
    <2>5. pc'[h] = "hitL2" /\ got'[h] = Held(c) /\ key'[h] = k /\ worker'[h] = worker[h]
      BY <1>4 DEF Carry, TypeOK
    <2>6. HandlerOK(h)'
      BY <1>3, <2>2, <2>3, <2>5, NullAssumption DEF HandlerOK
    <2>7. \A g \in Handlers : HandlerOK(g)'
      BY <1>4, <2>2, <2>6, CarryOK DEF Places
    <2>8. L1OK'
      BY <1>1 DEF L1OK
    <2>9. L2OK' /\ L2StaleExcused'
      BY <1>1, <1>4, CarryPending, SameL2 DEF Places
    <2> QED
      BY <2>4, <2>7, <2>8, <2>9
  <1>5. CASE c = NULL /\ Carry(h, "missedL2", NULL)
    <2>1. TypeOK'
      BY <1>1, <1>5, CarryType DEF TypeOK, Places
    <2>2. pc'[h] = "missedL2" /\ key'[h] = k /\ worker'[h] = worker[h]
      BY <1>5 DEF Carry, TypeOK
    <2>3. HandlerOK(h)'
      BY <1>3, <2>2 DEF HandlerOK
    <2>4. \A g \in Handlers : HandlerOK(g)'
      BY <1>5, <2>3, CarryOK DEF Places
    <2>5. L1OK'
      BY <1>1 DEF L1OK
    <2>6. L2OK' /\ L2StaleExcused'
      BY <1>1, <1>5, CarryPending, SameL2 DEF Places
    <2> QED
      BY <2>1, <2>4, <2>5, <2>6
  <1> QED
    BY <1>4, <1>5 DEF ReadL2

\* A refill puts a copy into L1 whose age is what its key in Redis allowed.
LEMMA RefillKeeps ==
  ASSUME CacheInv, NEW h \in Handlers, RefillL1(h)
  PROVE  CacheInv'
  <1> USE DEF CacheInv
  <1>1. pc[h] = "hitL2" /\ UNCHANGED <<db, l2, excused>> /\ Carry(h, "served", got[h])
    BY DEF RefillL1
  <1>2. HandlerOK(h)
    OBVIOUS
  <1>3. /\ key[h] \in Keys /\ worker[h] \in Workers /\ got[h] # NULL
        /\ got[h].wait <= MaxWait
        /\ got[h].age <= TTL(key[h]) + Gathering(key[h]) + MaxWait + got[h].wait
    BY <1>1, <1>2 DEF HandlerOK
  <1>4. got[h] \in Flight /\ got[h].age <= TTL(key[h]) + Gathering(key[h]) + 2 * MaxWait
    <2>1. got[h] \in Flight /\ got[h].age \in Nat /\ got[h].wait \in Nat
      BY <1>3 DEF TypeOK, Flight
    <2>2. TTL(key[h]) \in Nat /\ MaxWait \in Nat /\ Gathering(key[h]) \in Nat
      BY <1>3, TTLType, GatheringType
    <2> QED
      BY <1>3, <2>1, <2>2
  <1>5. l1' \in [Workers -> [Keys -> Copy \cup {NULL}]] /\ L1OK'
    BY <1>3, <1>4, PutType DEF RefillL1
  <1>6. TypeOK'
    BY <1>1, <1>4, <1>5, CarryType DEF TypeOK, Places
  <1>7. pc'[h] = "served" /\ UNCHANGED <<key, worker>> /\ got'[h] = got[h]
    BY <1>1 DEF Carry, TypeOK
  <1>8. got[h].age <= L1TTL + TTL(key[h]) + Gathering(key[h]) + 2 * MaxWait
    <2>1. /\ got[h].age \in Nat /\ TTL(key[h]) \in Nat /\ MaxWait \in Nat
          /\ Gathering(key[h]) \in Nat /\ L1TTL \in Nat
      BY <1>3, <1>4, TTLType, GatheringType, TimesAssumption DEF Flight
    <2> QED
      BY <1>4, <2>1
  <1>9. HandlerOK(h)'
    BY <1>3, <1>7, <1>8 DEF HandlerOK
  <1>10. \A g \in Handlers : HandlerOK(g)'
    BY <1>1, <1>4, <1>9, CarryOK DEF Places
  <1>11. L2OK' /\ L2StaleExcused'
    BY <1>1, CarryPending, SameL2 DEF Places
  <1> QED
    BY <1>5, <1>6, <1>10, <1>11

\* The database's answer is as young as can be.
LEMMA QueryKeeps ==
  ASSUME CacheInv, NEW h \in Handlers, Query(h)
  PROVE  CacheInv'
  <1> USE DEF CacheInv
  <1>0. PICK n \in 0..Distances(key[h]) : Carry(h, "answered", Answer(key[h], n))
    BY DEF Query
  <1> DEFINE f == Answer(key[h], n)
  <1>1. pc[h] = "missedL2" /\ UNCHANGED <<db, l1, l2, excused>> /\ Carry(h, "answered", f)
    BY <1>0 DEF Query
  <1>2. HandlerOK(h)
    OBVIOUS
  <1>3. key[h] \in Keys /\ worker[h] \in Workers
    BY <1>1, <1>2 DEF HandlerOK
  <1>4. /\ n \in Nat /\ n <= Distances(key[h])
        /\ f \in Flight /\ f.age = 0 /\ f.wait = 0 /\ f.places = n
    BY <1>3, GatheringType DEF Answer, TypeOK, Flight
  <1>5. TypeOK'
    BY <1>1, <1>4, CarryType DEF TypeOK, Places
  <1>6. pc'[h] = "answered" /\ UNCHANGED <<key, worker>> /\ got'[h] = f
    BY <1>1 DEF Carry, TypeOK
  <1>7. HandlerOK(h)'
    <2>1. Distances(key[h]) - n \in Nat /\ MaxWait \in Nat
      BY <1>3, <1>4, GatheringType
    <2>2. \A d, m \in Nat : 0 <= d * m + 0
      OBVIOUS
    <2>3. f.age <= (Distances(key[h]) - f.places) * MaxWait + f.wait /\ f.wait <= MaxWait
      BY <1>4, <2>1, <2>2
    <2> HIDE DEF f
    <2> QED
      BY <1>3, <1>4, <1>6, <2>3, NullAssumption DEF HandlerOK
  <1>8. \A g \in Handlers : HandlerOK(g)'
    BY <1>1, <1>4, <1>7, CarryOK DEF Places
  <1>9. L1OK'
    BY <1>1 DEF L1OK
  <1>10. L2OK' /\ L2StaleExcused'
    BY <1>1, CarryPending, SameL2 DEF Places
  <1> QED
    BY <1>5, <1>8, <1>9, <1>10

\* A distance that is asked for ends one wait and begins another.
LEMMA DistanceKeeps ==
  ASSUME CacheInv, NEW h \in Handlers, Distance(h)
  PROVE  CacheInv'
  <1> USE DEF CacheInv
  <1> DEFINE f == [got[h] EXCEPT !.places = @ - 1, !.wait = 0]
  <1>1. /\ pc[h] = "answered" /\ got[h].places > 0
        /\ UNCHANGED <<db, l1, l2, excused>> /\ Carry(h, "answered", f)
    BY DEF Distance
  <1>2. HandlerOK(h)
    OBVIOUS
  <1>3. /\ key[h] \in Keys /\ worker[h] \in Workers /\ got[h] # NULL
        /\ got[h].wait <= MaxWait
        /\ got[h].age <= (Distances(key[h]) - got[h].places) * MaxWait + got[h].wait
    BY <1>1, <1>2 DEF HandlerOK
  <1>4. /\ got[h] \in Flight /\ got[h].age \in Nat /\ got[h].wait \in Nat
        /\ got[h].places \in Nat /\ got[h].value \in Nat
    BY <1>3 DEF TypeOK, Flight
  <1>5. f = [value |-> got[h].value, age |-> got[h].age, wait |-> 0,
             places |-> got[h].places - 1]
    <2> DEFINE g == got[h]
    <2>1. g \in Flight /\ f = [g EXCEPT !.places = @ - 1, !.wait = 0]
      BY <1>4
    <2> HIDE DEF g, f
    <2>2. f = [value |-> g.value, age |-> g.age, wait |-> 0, places |-> g.places - 1]
      BY <2>1 DEF Flight
    <2> QED
      BY <2>2 DEF g
  <1>6. f \in Flight /\ f.age = got[h].age /\ f.wait = 0 /\ f.places = got[h].places - 1
    BY <1>1, <1>4, <1>5 DEF Flight
  <1> HIDE DEF f
  <1>7. Distances(key[h]) \in Nat /\ MaxWait \in Nat
    BY <1>3, GatheringType
  <1>8. got[h].age <= (Distances(key[h]) - (got[h].places - 1)) * MaxWait
    BY <1>3, <1>4, <1>7, OneMoreWait
  <1>9. f.age <= (Distances(key[h]) - f.places) * MaxWait + f.wait /\ f.wait <= MaxWait
    <2> DEFINE x == (Distances(key[h]) - (got[h].places - 1)) * MaxWait
    <2>1. x \in Int
      BY <1>4, <1>7
    <2>2. x = (Distances(key[h]) - f.places) * MaxWait
      BY <1>6
    <2>3. got[h].age <= x
      BY <1>8
    <2> HIDE DEF x
    <2>4. got[h].age <= x + 0 /\ 0 <= MaxWait
      BY <1>4, <1>7, <2>1, <2>3
    <2> QED
      BY <1>6, <2>2, <2>4
  <1>10. TypeOK'
    BY <1>1, <1>6, CarryType DEF TypeOK, Places
  <1>11. pc'[h] = "answered" /\ UNCHANGED <<key, worker>> /\ got'[h] = f
    BY <1>1 DEF Carry, TypeOK
  <1>12. HandlerOK(h)'
    BY <1>3, <1>6, <1>9, <1>11, NullAssumption DEF HandlerOK
  <1>13. \A g \in Handlers : HandlerOK(g)'
    BY <1>1, <1>6, <1>12, CarryOK DEF Places
  <1>14. L1OK'
    BY <1>1 DEF L1OK
  <1>15. L2OK' /\ L2StaleExcused'
    BY <1>1, CarryPending, SameL2 DEF Places
  <1> QED
    BY <1>10, <1>13, <1>14, <1>15

\* set_cache's first half.
LEMMA StoreL1Keeps ==
  ASSUME CacheInv, NEW h \in Handlers, StoreL1(h)
  PROVE  CacheInv'
  <1> USE DEF CacheInv
  <1> DEFINE f == [got[h] EXCEPT !.wait = 0]
  <1>1. /\ pc[h] = "answered" /\ got[h].places = 0
        /\ UNCHANGED <<db, l2, excused>> /\ Carry(h, "storing", f)
    BY DEF StoreL1
  <1>2. HandlerOK(h)
    OBVIOUS
  <1>3. /\ key[h] \in Keys /\ worker[h] \in Workers /\ got[h] # NULL
        /\ got[h].wait <= MaxWait
        /\ got[h].age <= (Distances(key[h]) - 0) * MaxWait + got[h].wait
    BY <1>1, <1>2 DEF HandlerOK
  <1>4. /\ got[h] \in Flight /\ got[h].age \in Nat /\ got[h].wait \in Nat
        /\ f \in Flight /\ f.age = got[h].age /\ f.wait = 0
    BY <1>3 DEF TypeOK, Flight
  <1>5. /\ TTL(key[h]) \in Nat /\ MaxWait \in Nat /\ Gathering(key[h]) \in Nat
        /\ Distances(key[h]) \in Nat
        /\ Gathering(key[h]) = Distances(key[h]) * MaxWait + MaxWait
    BY <1>3, TTLType, GatheringType
  <1>6. /\ got[h].age <= TTL(key[h]) + Gathering(key[h]) + 2 * MaxWait
        /\ f.age <= Gathering(key[h]) + f.wait /\ f.wait <= MaxWait
    <2>1. (Distances(key[h]) - 0) * MaxWait = Distances(key[h]) * MaxWait
      BY <1>5
    <2>2. got[h].age <= Distances(key[h]) * MaxWait + got[h].wait
      BY <1>3, <2>1
    <2> DEFINE x == Distances(key[h]) * MaxWait
    <2>3. x \in Int
      BY <1>5
    <2>4. got[h].age <= x + got[h].wait /\ Gathering(key[h]) = x + MaxWait
      BY <1>5, <2>2
    <2> HIDE DEF x, f
    <2>5. got[h].age <= Gathering(key[h])
      BY <1>3, <1>4, <1>5, <2>3, <2>4
    <2> QED
      BY <1>4, <1>5, <2>5
  <1>7. l1' \in [Workers -> [Keys -> Copy \cup {NULL}]] /\ L1OK'
    BY <1>3, <1>4, <1>6, PutType DEF StoreL1
  <1>8. TypeOK'
    BY <1>1, <1>4, <1>7, CarryType DEF TypeOK, Places
  <1>9. pc'[h] = "storing" /\ UNCHANGED <<key, worker>> /\ got'[h] = f
    BY <1>1 DEF Carry, TypeOK
  <1> HIDE DEF f
  <1>10. HandlerOK(h)'
    BY <1>3, <1>4, <1>6, <1>9, NullAssumption DEF HandlerOK
  <1>11. \A g \in Handlers : HandlerOK(g)'
    BY <1>1, <1>4, <1>10, CarryOK DEF Places
  <1>12. L2OK' /\ L2StaleExcused'
    BY <1>1, CarryPending, SameL2 DEF Places
  <1> QED
    BY <1>7, <1>8, <1>11, <1>12

\* set_cache's second half: what is stale by now is excused.
LEMMA StoreL2Keeps ==
  ASSUME CacheInv, NEW h \in Handlers, StoreL2(h)
  PROVE  CacheInv'
  <1> USE DEF CacheInv
  <1> DEFINE k == key[h]
             c == Copied(got[h], TTL(k))
  <1>1. /\ pc[h] = "storing" /\ UNCHANGED <<db, l1>> /\ Carry(h, "served", got[h])
        /\ l2' = [l2 EXCEPT ![k] = c]
        /\ excused' = IF got[h].value = db[k] THEN excused \ {k} ELSE excused \cup {k}
    BY DEF StoreL2
  <1>2. HandlerOK(h)
    OBVIOUS
  <1>3. /\ k \in Keys /\ worker[h] \in Workers /\ got[h] # NULL
        /\ got[h].wait <= MaxWait /\ got[h].age <= Gathering(key[h]) + got[h].wait
    BY <1>1, <1>2 DEF HandlerOK
  <1>4. got[h] \in Flight /\ got[h].age \in Nat /\ got[h].wait \in Nat
    BY <1>3 DEF TypeOK, Flight
  <1>5. TTL(k) \in Nat \ {0} /\ MaxWait \in Nat /\ L1TTL \in Nat /\ Gathering(k) \in Nat
    BY <1>3, TTLType, GatheringType, TimesAssumption
  <1>6. c \in Copy /\ c.value = got[h].value /\ c.age + c.left = got[h].age + TTL(k)
    BY <1>4, <1>5, CopiedType
  <1>7. /\ c.age + c.left <= TTL(k) + Gathering(k) + MaxWait
        /\ got[h].age <= L1TTL + TTL(k) + Gathering(k) + 2 * MaxWait
    BY <1>3, <1>4, <1>5, <1>6
  <1> HIDE DEF c
  <1>8. TypeOK'
    BY <1>1, <1>3, <1>4, <1>6, CarryType DEF TypeOK, Places
  <1>9. pc'[h] = "served" /\ UNCHANGED <<key, worker>> /\ got'[h] = got[h]
    BY <1>1 DEF Carry, TypeOK
  <1>10. HandlerOK(h)'
    BY <1>3, <1>7, <1>9 DEF HandlerOK
  <1>11. \A g \in Handlers : HandlerOK(g)'
    BY <1>1, <1>4, <1>10, CarryOK DEF Places
  <1>12. L1OK'
    BY <1>1 DEF L1OK
  <1>13. L2OK'
    BY <1>1, <1>6, <1>7 DEF L2OK, TypeOK
  <1>14. \A g \in Handlers, j \in Keys : Pending(g, j)' <=> Pending(g, j)
    BY <1>1, CarryPending DEF Places
  <1>15. L2StaleExcused'
    <2> SUFFICES ASSUME NEW j \in Keys, l2'[j] # NULL, l2'[j].value # db'[j]
                 PROVE  j \in excused' \/ \E g \in Handlers : Pending(g, j)'
      BY DEF L2StaleExcused
    <2>1. CASE j = k
      BY <1>1, <1>6, <2>1 DEF TypeOK
    <2>2. CASE j # k
      <3>1. l2'[j] = l2[j] /\ db'[j] = db[j] /\ (j \in excused => j \in excused')
        BY <1>1, <2>2 DEF TypeOK
      <3>2. j \in excused \/ \E g \in Handlers : Pending(g, j)
        BY <3>1 DEF L2StaleExcused
      <3> QED
        BY <1>14, <3>1, <3>2
    <2> QED
      BY <2>1, <2>2
  <1> QED
    BY <1>8, <1>11, <1>12, <1>13, <1>15

------------------------------------------------------------------------------
(* Writers                                                                 *)

\* A COMMIT makes copies stale, and each is pending or excused from then on.
LEMMA CommitKeeps ==
  ASSUME CacheInv, NEW h \in Handlers, Commit(h)
  PROVE  CacheInv'
  <1> USE DEF CacheInv
  <1>1. PICK kind \in Kinds, w \in Workers, K \in SUBSET Keys \ {{}} :
          /\ db' = [k \in Keys |-> IF k \in K THEN db[k] + 1 ELSE db[k]]
          /\ excused' = excused \cup {k \in K : l2[k] # NULL /\ Prefix(k) \notin Clears(kind)}
          /\ \/ /\ Clears(kind) # {}
                /\ worker' = [worker EXCEPT ![h] = w]
                /\ clears' = [clears EXCEPT ![h] = Clears(kind)]
                /\ pc' = [pc EXCEPT ![h] = "committed"]
             \/ /\ Clears(kind) = {}
                /\ UNCHANGED <<worker, clears, pc>>
    BY DEF Commit
  <1>2. pc[h] = "idle" /\ UNCHANGED <<l1, l2, key, got, todo>>
    BY DEF Commit
  <1>3. Clears(kind) \in SUBSET Prefixes
    BY DEF Clears, Prefixes
  <1>4. TypeOK'
    <2>1. db' \in [Keys -> Nat]
      BY <1>1 DEF TypeOK
    <2>2. excused' \in SUBSET Keys
      BY <1>1 DEF TypeOK
    <2>3. /\ pc' \in [Handlers -> Places]
          /\ worker' \in [Handlers -> Workers \cup {NULL}]
          /\ clears' \in [Handlers -> SUBSET Prefixes]
      <3>1. CASE /\ worker' = [worker EXCEPT ![h] = w]
                 /\ clears' = [clears EXCEPT ![h] = Clears(kind)]
                 /\ pc' = [pc EXCEPT ![h] = "committed"]
        BY <1>3, <3>1 DEF TypeOK, Places
      <3>2. CASE UNCHANGED <<worker, clears, pc>>
        BY <3>2 DEF TypeOK
      <3> QED
        BY <1>1, <3>1, <3>2
    <2> QED
      BY <1>2, <2>1, <2>2, <2>3 DEF TypeOK
  <1>5. L1OK' /\ L2OK'
    BY <1>2 DEF L1OK, L2OK
  <1>6. ASSUME NEW g \in Handlers PROVE HandlerOK(g)'
    <2>1. HandlerOK(g) /\ key'[g] = key[g] /\ got'[g] = got[g]
      BY <1>2
    <2>2. CASE g # h
      <3>1. pc'[g] = pc[g] /\ worker'[g] = worker[g] /\ clears'[g] = clears[g]
        BY <1>1, <2>2 DEF TypeOK
      <3> QED
        BY <2>1, <3>1 DEF HandlerOK
    <2>3. CASE g = h /\ Clears(kind) # {}
      <3>1. pc'[h] = "committed" /\ worker'[h] = w /\ clears'[h] # {}
        BY <1>1, <2>3 DEF TypeOK
      <3> QED
        BY <2>1, <2>3, <3>1 DEF HandlerOK
    <2>4. CASE g = h /\ Clears(kind) = {}
      BY <1>1, <2>1, <2>4 DEF HandlerOK
    <2> QED
      BY <2>2, <2>3, <2>4
  <1>7. \A g \in Handlers, k \in Keys : Pending(g, k) => Pending(g, k)'
    BY <1>1, <1>2 DEF Pending, Pattern, TypeOK
  <1>8. L2StaleExcused'
    <2> SUFFICES ASSUME NEW k \in Keys, l2'[k] # NULL, l2'[k].value # db'[k]
                 PROVE  k \in excused' \/ \E g \in Handlers : Pending(g, k)'
      BY DEF L2StaleExcused
    <2>1. CASE k \notin K
      BY <1>1, <1>2, <1>7, <2>1 DEF L2StaleExcused
    <2>2. CASE k \in K /\ Prefix(k) \notin Clears(kind)
      BY <1>1, <1>2, <2>2
    <2>3. CASE k \in K /\ Prefix(k) \in Clears(kind)
      <3>1. pc'[h] = "committed" /\ clears'[h] = Clears(kind)
        BY <1>1, <2>3 DEF TypeOK
      <3> QED
        BY <2>3, <3>1 DEF Pending
    <2> QED
      BY <2>1, <2>2, <2>3
  <1> QED
    BY <1>4, <1>5, <1>6, <1>8

\* What is left to clear: the pattern whose turn it is, among others.
LEMMA PatternType ==
  ASSUME TypeOK, NEW h \in Handlers, clears[h] # {}
  PROVE  Pattern(h) \in clears[h]
  BY DEF TypeOK, Prefixes, Pattern

\* The scan takes over the keys of its pattern that are in Redis.
LEMMA SweepKeeps ==
  ASSUME CacheInv, NEW h \in Handlers, Sweep(h)
  PROVE  CacheInv'
  <1> USE DEF CacheInv
  <1> DEFINE matching == {k \in Keys : Prefix(k) = Pattern(h)}
  <1>1. /\ pc[h] = "committed" /\ UNCHANGED <<db, l2, worker, key, got, clears, excused>>
        /\ pc' = [pc EXCEPT ![h] = "sweeping"]
        /\ todo' = [todo EXCEPT ![h] = {k \in matching : l2[k] # NULL}]
        /\ l1' = [l1 EXCEPT ![worker[h]] =
                    [k \in Keys |-> IF k \in matching /\ Contains(k) THEN NULL
                                    ELSE l1[worker[h]][k]]]
    BY DEF Sweep
  <1>2. HandlerOK(h)
    OBVIOUS
  <1>3. worker[h] \in Workers /\ clears[h] # {} /\ Pattern(h) \in clears[h]
    BY <1>1, <1>2, PatternType DEF HandlerOK
  <1>4. l1' = l1
    BY <1>1, <1>3 DEF Contains, TypeOK
  <1>5. TypeOK'
    BY <1>1, <1>4 DEF TypeOK, Places
  <1>6. L1OK' /\ L2OK'
    BY <1>1, <1>4 DEF L1OK, L2OK
  <1>7. ASSUME NEW g \in Handlers PROVE HandlerOK(g)'
    <2>1. HandlerOK(g)
      OBVIOUS
    <2>2. CASE g # h
      <3>1. pc'[g] = pc[g]
        BY <1>1, <2>2 DEF TypeOK
      <3> QED
        BY <1>1, <2>1, <3>1 DEF HandlerOK
    <2>3. CASE g = h
      <3>1. pc'[h] = "sweeping"
        BY <1>1 DEF TypeOK
      <3> QED
        BY <1>1, <1>3, <2>3, <3>1 DEF HandlerOK
    <2> QED
      BY <2>2, <2>3
  <1>8. L2StaleExcused'
    <2> SUFFICES ASSUME NEW k \in Keys, l2[k] # NULL, l2[k].value # db[k], k \notin excused
                 PROVE  \E g \in Handlers : Pending(g, k)'
      BY <1>1 DEF L2StaleExcused
    <2>1. PICK g \in Handlers : Pending(g, k)
      BY DEF L2StaleExcused
    <2>2. CASE g # h
      <3>1. pc'[g] = pc[g] /\ todo'[g] = todo[g]
        BY <1>1, <2>2 DEF TypeOK
      <3> QED
        BY <1>1, <2>1, <3>1 DEF Pending, Pattern
    <2>3. CASE g = h
      <3>1. pc'[h] = "sweeping" /\ todo'[h] = {j \in matching : l2[j] # NULL}
        BY <1>1 DEF TypeOK
      <3>2. Prefix(k) \in clears[h]
        BY <1>1, <2>1, <2>3 DEF Pending
      <3>3. Pattern(h)' = Pattern(h)
        BY <1>1 DEF Pattern
      <3> QED
        BY <1>1, <3>1, <3>2, <3>3 DEF Pending
    <2> QED
      BY <2>2, <2>3
  <1> QED
    BY <1>5, <1>6, <1>7, <1>8

\* A key that is gone is pending for nobody.
LEMMA SweepDeleteKeeps ==
  ASSUME CacheInv, NEW h \in Handlers, SweepDelete(h)
  PROVE  CacheInv'
  <1> USE DEF CacheInv
  <1>1. PICK k \in Keys :
          /\ l2' = [l2 EXCEPT ![k] = NULL]
          /\ todo' = [g \in Handlers |-> todo[g] \ {k}]
          /\ excused' = excused \ {k}
    BY DEF SweepDelete
  <1>2. UNCHANGED <<db, l1, pc, worker, key, got, clears>>
    BY DEF SweepDelete
  <1>3. TypeOK'
    BY <1>1, <1>2 DEF TypeOK
  <1>4. L1OK' /\ L2OK'
    BY <1>1, <1>2 DEF L1OK, L2OK, TypeOK
  <1>5. \A g \in Handlers : HandlerOK(g)'
    BY <1>2 DEF HandlerOK
  <1>6. L2StaleExcused'
    BY <1>1, <1>2 DEF L2StaleExcused, TypeOK, Pending, Pattern
  <1> QED
    BY <1>3, <1>4, <1>5, <1>6

\* A scan that is through has nothing left of its pattern.
LEMMA SweepEndKeeps ==
  ASSUME CacheInv, NEW h \in Handlers, SweepEnd(h)
  PROVE  CacheInv'
  <1> USE DEF CacheInv
  <1>1. pc[h] = "sweeping" /\ todo[h] = {} /\ UNCHANGED <<db, l1, l2, excused>>
    BY DEF SweepEnd
  <1>2. L1OK'
    BY <1>1 DEF L1OK
  <1>3. HandlerOK(h)
    OBVIOUS
  <1>4. worker[h] \in Workers /\ clears[h] # {} /\ Pattern(h) \in clears[h]
    BY <1>1, <1>3, PatternType DEF HandlerOK
  <1>5. CASE clears[h] = {Pattern(h)} /\ Leave({h})
    <2>1. TypeOK'
      BY <1>1, <1>5, LeaveType DEF TypeOK
    <2>2. \A g \in Handlers : HandlerOK(g)'
      BY <1>5, LeaveOK
    <2>3. \A k \in Keys : ~Pending(h, k)
      BY <1>1, <1>5 DEF Pending
    <2>4. L2OK' /\ L2StaleExcused'
      BY <1>1, <1>5, <2>3, LeavePending, SameL2
    <2> QED
      BY <1>2, <2>1, <2>2, <2>4
  <1>6. CASE /\ clears[h] # {Pattern(h)}
             /\ clears' = [clears EXCEPT ![h] = @ \ {Pattern(h)}]
             /\ todo' = [todo EXCEPT ![h] = {}]
             /\ pc' = [pc EXCEPT ![h] = "committed"]
             /\ UNCHANGED <<worker, key, got>>
    <2>1. TypeOK'
      BY <1>1, <1>6 DEF TypeOK, Places
    <2>2. ASSUME NEW g \in Handlers PROVE HandlerOK(g)'
      <3>1. HandlerOK(g)
        OBVIOUS
      <3>2. CASE g # h
        <4>1. pc'[g] = pc[g] /\ clears'[g] = clears[g]
          BY <1>6, <3>2 DEF TypeOK
        <4> QED
          BY <1>6, <3>1, <4>1 DEF HandlerOK
      <3>3. CASE g = h
        <4>1. pc'[h] = "committed" /\ clears'[h] # {}
          BY <1>4, <1>6 DEF TypeOK
        <4> QED
          BY <1>4, <1>6, <3>3, <4>1 DEF HandlerOK
      <3> QED
        BY <3>2, <3>3
    <2>3. \A g \in Handlers, k \in Keys : Pending(g, k) => Pending(g, k)'
      BY <1>1, <1>6 DEF Pending, Pattern, TypeOK
    <2>4. L2OK' /\ L2StaleExcused'
      BY <1>1, <2>3, SameL2
    <2> QED
      BY <1>2, <2>1, <2>2, <2>4
  <1> QED
    BY <1>5, <1>6 DEF SweepEnd, NextPattern

------------------------------------------------------------------------------
(* Ends, failures and time                                                 *)

\* An answered reader leaves nothing behind.
LEMMA ReplyKeeps ==
  ASSUME CacheInv, NEW h \in Handlers, Reply(h)
  PROVE  CacheInv'
  <1> USE DEF CacheInv
  <1>1. pc[h] = "served" /\ Leave({h}) /\ UNCHANGED <<db, l1, l2, excused>>
    BY DEF Reply
  <1>2. TypeOK'
    BY <1>1, LeaveType DEF TypeOK
  <1>3. \A g \in Handlers : HandlerOK(g)'
    BY <1>1, LeaveOK
  <1>4. \A k \in Keys : ~Pending(h, k)
    BY <1>1 DEF Pending
  <1>5. L2OK' /\ L2StaleExcused'
    BY <1>1, <1>4, LeavePending, SameL2
  <1>6. L1OK'
    BY <1>1 DEF L1OK
  <1> QED
    BY <1>2, <1>3, <1>5, <1>6

\* Writers that leave early excuse what they abandon.
LEMMA AbandonedExcused ==
  ASSUME CacheInv, NEW S \in SUBSET Handlers, Leave(S), UNCHANGED <<db, l2>>,
         excused' = excused \cup Abandoned(S)
  PROVE  L2OK' /\ L2StaleExcused'
  <1> USE DEF CacheInv
  <1>1. L2OK'
    BY DEF L2OK
  <1>2. L2StaleExcused'
    <2> SUFFICES ASSUME NEW k \in Keys, l2[k] # NULL, l2[k].value # db[k], k \notin excused'
                 PROVE  \E g \in Handlers : Pending(g, k)'
      BY DEF L2StaleExcused
    <2>1. PICK g \in Handlers : Pending(g, k)
      BY DEF L2StaleExcused
    <2>2. g \notin S
      BY <2>1 DEF Abandoned
    <2> QED
      BY <2>1, <2>2, LeavePending
  <1> QED
    BY <1>1, <1>2

\* A handler whose Redis call fails.
LEMMA RedisFailsKeeps ==
  ASSUME CacheInv, NEW h \in Handlers, RedisFails(h)
  PROVE  CacheInv'
  <1> USE DEF CacheInv
  <1>1. Leave({h}) /\ excused' = excused \cup Abandoned({h}) /\ UNCHANGED <<db, l1, l2>>
    BY DEF RedisFails
  <1>2. TypeOK'
    BY <1>1, LeaveType DEF TypeOK, Abandoned
  <1>3. \A g \in Handlers : HandlerOK(g)'
    BY <1>1, LeaveOK
  <1>4. L2OK' /\ L2StaleExcused'
    BY <1>1, AbandonedExcused
  <1>5. L1OK'
    BY <1>1 DEF L1OK
  <1> QED
    BY <1>2, <1>3, <1>4, <1>5

\* A worker that dies takes its L1 and its handlers along.
LEMMA CrashKeeps ==
  ASSUME CacheInv, NEW w \in Workers, Crash(w)
  PROVE  CacheInv'
  <1> USE DEF CacheInv
  <1> DEFINE S == {h \in Handlers : worker[h] = w}
  <1>1. /\ Leave(S) /\ excused' = excused \cup Abandoned(S) /\ UNCHANGED <<db, l2>>
        /\ l1' = [l1 EXCEPT ![w] = [k \in Keys |-> NULL]]
    BY DEF Crash
  <1>2. S \in SUBSET Handlers
    OBVIOUS
  <1> HIDE DEF S
  <1>3. TypeOK'
    BY <1>1, <1>2, LeaveType DEF TypeOK, Abandoned
  <1>4. \A g \in Handlers : HandlerOK(g)'
    BY <1>1, <1>2, LeaveOK
  <1>5. L2OK' /\ L2StaleExcused'
    BY <1>1, <1>2, AbandonedExcused
  <1>6. L1OK'
    BY <1>1 DEF L1OK, TypeOK
  <1> QED
    BY <1>3, <1>4, <1>5, <1>6

\* A tick makes every copy and every wait older, and keeps their sums in bounds.
LEMMA TickKeeps ==
  ASSUME CacheInv, Tick
  PROVE  CacheInv'
  <1> USE DEF CacheInv
  <1>1. /\ \A h \in Waiting : got[h].wait < MaxWait
        /\ l1' = [w \in Workers |-> [k \in Keys |-> Expire(l1[w][k])]]
        /\ l2' = [k \in Keys |-> Expire(l2[k])]
        /\ got' = [h \in Handlers |-> IF h \in Waiting
                                      THEN [got[h] EXCEPT !.age = @ + 1, !.wait = @ + 1]
                                      ELSE got[h]]
        /\ todo' = [h \in Handlers |-> {k \in todo[h] : l2'[k] # NULL}]
        /\ excused' = {k \in excused : l2'[k] # NULL}
        /\ UNCHANGED <<db, pc, worker, key, clears>>
    BY DEF Tick
  <1>2. \A k \in Keys : /\ l2'[k] = Expire(l2[k]) /\ l2[k] \in Copy \cup {NULL}
                        /\ l2'[k] \in Copy \cup {NULL}
                        /\ l2'[k] # NULL =>
                             /\ l2[k] # NULL /\ l2'[k].value = l2[k].value
                             /\ l2'[k].age + l2'[k].left = l2[k].age + l2[k].left
    BY <1>1, ExpireType DEF TypeOK
  <1>3. \A w \in Workers, k \in Keys :
          /\ l1'[w][k] = Expire(l1[w][k]) /\ l1[w][k] \in Copy \cup {NULL}
          /\ l1'[w][k] \in Copy \cup {NULL}
          /\ l1'[w][k] # NULL => /\ l1[w][k] # NULL
                                /\ l1'[w][k].age + l1'[w][k].left = l1[w][k].age + l1[w][k].left
    BY <1>1, ExpireType DEF TypeOK
  <1>4. ASSUME NEW h \in Waiting
        PROVE  /\ h \in Handlers /\ got[h] \in Flight /\ got'[h] \in Flight
               /\ got'[h].age = got[h].age + 1 /\ got'[h].wait = got[h].wait + 1
               /\ got'[h].places = got[h].places
    <2>1. h \in Handlers /\ HandlerOK(h)
      BY DEF Waiting
    <2>2. got[h] \in Flight
      BY <2>1 DEF Waiting, HandlerOK, TypeOK
    <2>3. got'[h] = [got[h] EXCEPT !.age = @ + 1, !.wait = @ + 1]
      BY <1>1, <2>1
    <2>4. /\ got'[h] = [value |-> got[h].value, age |-> got[h].age + 1,
                        wait |-> got[h].wait + 1, places |-> got[h].places]
          /\ got[h].value \in Nat /\ got[h].age \in Nat /\ got[h].wait \in Nat
          /\ got[h].places \in Nat
      BY <2>2, <2>3 DEF Flight
    <2> QED
      BY <2>1, <2>2, <2>4 DEF Flight
  <1>5. TypeOK'
    <2>1. l1' \in [Workers -> [Keys -> Copy \cup {NULL}]]
      BY <1>1, <1>3
    <2>2. l2' \in [Keys -> Copy \cup {NULL}]
      BY <1>1, <1>2
    <2>3. got' \in [Handlers -> Flight \cup {NULL}]
      <3>1. \A h \in Handlers : got'[h] \in Flight \cup {NULL}
        BY <1>1, <1>4 DEF TypeOK
      <3> QED
        BY <1>1, <3>1
    <2>4. todo' \in [Handlers -> SUBSET Keys] /\ excused' \in SUBSET Keys
      BY <1>1 DEF TypeOK
    <2> QED
      BY <1>1, <2>1, <2>2, <2>3, <2>4 DEF TypeOK
  <1>6. L2OK'
    BY <1>2 DEF L2OK
  <1>7. L1OK'
    BY <1>3 DEF L1OK
  <1>8. ASSUME NEW h \in Handlers PROVE HandlerOK(h)'
    <2>1. HandlerOK(h) /\ UNCHANGED <<pc, key, worker, clears>>
      BY <1>1
    <2>2. CASE h \notin Waiting
      <3>1. got'[h] = got[h] /\ pc[h] \notin {"hitL2", "answered", "storing"}
        BY <1>1, <2>2 DEF Waiting
      <3> QED
        BY <2>1, <3>1 DEF HandlerOK
    <2>3. CASE h \in Waiting
      <3>1. /\ got[h].wait < MaxWait /\ got'[h] \in Flight
            /\ got'[h].age = got[h].age + 1 /\ got'[h].wait = got[h].wait + 1
            /\ got[h].age \in Nat /\ got[h].wait \in Nat
            /\ got'[h].places = got[h].places /\ got[h].places \in Nat
        BY <1>1, <1>4, <2>3 DEF Flight
      <3>2. pc[h] \in {"hitL2", "answered", "storing"} /\ got'[h] # NULL
        BY <2>3, <3>1, NullAssumption DEF Waiting
      <3>3. key[h] \in Keys /\ worker[h] \in Workers
        BY <2>1, <3>2 DEF HandlerOK
      <3>4. /\ TTL(key[h]) \in Nat /\ MaxWait \in Nat /\ Gathering(key[h]) \in Nat
            /\ Distances(key[h]) \in Nat
        BY <3>3, TTLType, GatheringType
      <3>5. got'[h].wait <= MaxWait
        BY <3>1, <3>4
      <3>6. pc[h] = "hitL2" => got'[h].age <= TTL(key[h]) + Gathering(key[h]) + MaxWait + got'[h].wait
        BY <2>1, <3>1, <3>4 DEF HandlerOK
      <3>7. pc[h] = "answered" =>
              got'[h].age <= (Distances(key[h]) - got'[h].places) * MaxWait + got'[h].wait
        <4> DEFINE x == (Distances(key[h]) - got[h].places) * MaxWait
        <4>1. x \in Int
          BY <3>1, <3>4
        <4>2. pc[h] = "answered" => got[h].age <= x + got[h].wait
          BY <2>1 DEF HandlerOK
        <4> HIDE DEF x
        <4>3. pc[h] = "answered" => got'[h].age <= x + got'[h].wait
          BY <3>1, <4>1, <4>2
        <4> QED
          BY <3>1, <4>3 DEF x
      <3>8. pc[h] = "storing" => got'[h].age <= Gathering(key[h]) + got'[h].wait
        BY <2>1, <3>1, <3>4 DEF HandlerOK
      <3> QED
        BY <2>1, <3>2, <3>3, <3>5, <3>6, <3>7, <3>8 DEF HandlerOK
    <2> QED
      BY <2>2, <2>3
  <1>9. L2StaleExcused'
    <2> SUFFICES ASSUME NEW k \in Keys, l2'[k] # NULL, l2'[k].value # db'[k]
                 PROVE  k \in excused' \/ \E g \in Handlers : Pending(g, k)'
      BY DEF L2StaleExcused
    <2>1. l2[k] # NULL /\ l2[k].value # db[k]
      BY <1>1, <1>2
    <2>2. k \in excused \/ \E g \in Handlers : Pending(g, k)
      BY <2>1 DEF L2StaleExcused
    <2>3. ASSUME NEW g \in Handlers, Pending(g, k) PROVE Pending(g, k)'
      BY <1>1, <2>3 DEF Pending, Pattern
    <2> QED
      BY <1>1, <2>2, <2>3
  <1> QED
    BY <1>5, <1>6, <1>7, <1>8, <1>9

------------------------------------------------------------------------------
(* Theorems                                                                *)

\* Empty caches satisfy the invariant.
THEOREM InitCache == Init => CacheInv
  <1> SUFFICES ASSUME Init PROVE CacheInv
    OBVIOUS
  <1>1. TypeOK
    BY DEF Init, TypeOK, Places
  <1>2. L1OK /\ L2OK /\ L2StaleExcused
    BY DEF Init, L1OK, L2OK, L2StaleExcused
  <1>3. \A h \in Handlers : HandlerOK(h)
    BY DEF Init, HandlerOK
  <1> QED
    BY <1>1, <1>2, <1>3 DEF CacheInv

\* Every step of a reader, a writer, Redis, a worker or the clock keeps it.
THEOREM StepKeeps == CacheInv /\ [Next]_vars => CacheInv'
  <1> SUFFICES ASSUME CacheInv, [Next]_vars PROVE CacheInv'
    OBVIOUS
  <1>1. ASSUME NEW h \in Handlers, Step(h) PROVE CacheInv'
    BY <1>1, ReadL2Keeps, RefillKeeps, QueryKeeps, DistanceKeeps, StoreL1Keeps, StoreL2Keeps,
       SweepKeeps, SweepDeleteKeeps, SweepEndKeeps, ReplyKeeps DEF Step
  <1>2. ASSUME NEW h \in Handlers, Read(h) \/ Commit(h) \/ RedisFails(h) PROVE CacheInv'
    BY <1>2, ReadKeeps, CommitKeeps, RedisFailsKeeps
  <1>3. ASSUME NEW w \in Workers, Crash(w) PROVE CacheInv'
    BY <1>3, CrashKeeps
  <1>4. CASE Tick
    BY <1>4, TickKeeps
  <1>5. CASE UNCHANGED vars
    BY <1>5 DEF vars, CacheInv, TypeOK, L1OK, L2OK, L2StaleExcused, HandlerOK, Pending, Pattern
  <1> QED
    BY <1>1, <1>2, <1>3, <1>4, <1>5 DEF Next

\* CacheInv holds in every reachable state.
THEOREM CacheInductive == Spec => []CacheInv
  BY InitCache, StepKeeps, PTL DEF Spec

\* The state is well typed.
THEOREM CacheTypeCorrect == Spec => []TypeOK
  <1>1. CacheInv => TypeOK
    BY DEF CacheInv
  <1> QED
    BY <1>1, CacheInductive, PTL

\* No list that is served is older than one lifetime in each level and the waits of a
\* fill and a refill, one for each distance among them: clearing nothing in L1 costs
\* freshness, and only that much of it.
THEOREM StaleBoundedAlways == Spec => []StaleBounded
  <1>1. CacheInv => StaleBounded
    BY DEF CacheInv, StaleBounded, HandlerOK
  <1> QED
    BY <1>1, CacheInductive, PTL

\* A stale list in Redis is pending or excused.
THEOREM L2StaleExcusedAlways == Spec => []L2StaleExcused
  <1>1. CacheInv => L2StaleExcused
    BY DEF CacheInv
  <1> QED
    BY <1>1, CacheInductive, PTL

==============================================================================
