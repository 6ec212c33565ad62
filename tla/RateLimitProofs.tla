--------------------------- MODULE RateLimitProofs ----------------------------
(***************************************************************************)
(* Theorems about RateLimit, for every set of workers and limits, any      *)
(* finite number of requests at once, and all windows and waits.           *)
(***************************************************************************)
EXTENDS RateLimit, FiniteSetTheorems, TLAPS

------------------------------------------------------------------------------
(* Lemmas about the helpers                                                *)

\* A younger look at the list is a list of stamps again.
LEMMA StampType ==
  ASSUME NEW S, NEW stamps \in [S -> Nat], NEW a \in S
  PROVE  Stamp(stamps, a) \in [S -> Nat]
  BY DEF Stamp

\* Growing older moves every stamp by one age.
LEMMA OlderType ==
  ASSUME NEW n \in Int, NEW stamps \in [0..n -> Nat]
  PROVE  Older(stamps) \in [0..n -> Nat]
  <1>1. \A a \in 0..n : a # 0 => a - 1 \in 0..n
    OBVIOUS
  <1>2. \A a \in 0..n : (IF a = 0 THEN 0 ELSE stamps[a - 1]) \in Nat
    BY <1>1
  <1> QED
    BY <1>2 DEF Older

\* The windows begin with the age 0.
LEMMA WindowType ==
  /\ Window \in Nat /\ MaxWait \in Nat
  /\ Window + MaxWait - 1 \in Int /\ Window - MaxWait - 1 \in Int
  /\ 0 \in Recent /\ 0..MaxWait \subseteq Ages
  BY TimesAssumption DEF Recent, Ages

\* There are finitely many requests, so that those that saw room can be counted.
LEMMA SeenFinite ==
  /\ IsFiniteSet(SeenOnes) /\ Cardinality(SeenOnes) \in Nat
  /\ Cardinality(Handlers) \in Nat
  /\ Cardinality(SeenOnes) <= Cardinality(Handlers)
  BY HandlersAssumption, FS_Subset, FS_CardinalityType DEF SeenOnes

\* Fewer of them are no more of them.
LEMMA SeenFewer ==
  ASSUME SeenOnes' \subseteq SeenOnes
  PROVE  /\ Cardinality(SeenOnes') \in Nat
         /\ Cardinality(SeenOnes') <= Cardinality(SeenOnes)
  BY SeenFinite, FS_Subset, FS_CardinalityType

\* Whatever happens, no more than all requests saw room.
LEMMA SeenNext ==
  /\ Cardinality(SeenOnes') \in Nat
  /\ Cardinality(SeenOnes') <= Cardinality(Handlers)
  <1>1. SeenOnes' \in SUBSET Handlers
    BY DEF SeenOnes
  <1> QED
    BY <1>1, HandlersAssumption, FS_Subset, FS_CardinalityType

\* Leaving keeps the requests well typed.
LEMMA LeaveType ==
  ASSUME TypeOK, NEW S \in SUBSET Handlers, Leave(S)
  PROVE  /\ pc' \in [Handlers -> Places]
         /\ worker' \in [Handlers -> Workers \cup {NULL}]
         /\ limit' \in [Handlers -> Limits \cup {NULL}]
         /\ since' \in [Handlers -> 0..MaxWait]
         /\ seen' \in [Handlers -> BOOLEAN]
  <1>1. 0 \in 0..MaxWait
    BY WindowType
  <1>2. since' \in [Handlers -> 0..MaxWait]
    BY <1>1 DEF Leave, TypeOK
  <1> QED
    BY <1>2 DEF Leave, TypeOK, Places

\* The requests that stay are as they were, and the others are idle.
LEMMA LeaveOK ==
  ASSUME TypeOK, NEW S \in SUBSET Handlers, Leave(S), \A h \in Handlers : RequestOK(h)
  PROVE  /\ \A h \in Handlers : RequestOK(h)'
         /\ SeenOnes' = SeenOnes \ S
  BY DEF Leave, RequestOK, SeenOnes

\* An answer frees the lock that its request has.
LEMMA AnswerOK ==
  ASSUME RateInv, NEW h \in Handlers, Answer(h)
  PROVE  /\ holder' \in [Workers -> Handlers \cup {NULL}]
         /\ \A w \in Workers : LockOK(w)'
  <1>1. TypeOK /\ \A w \in Workers : LockOK(w)
    BY DEF RateInv
  <1>2. /\ holder' = [w \in Workers |-> IF holder[w] = h THEN NULL ELSE holder[w]]
        /\ \A g \in Handlers \ {h} : pc'[g] = pc[g] /\ worker'[g] = worker[g]
    BY DEF Answer, Leave
  <1>3. holder' \in [Workers -> Handlers \cup {NULL}]
    BY <1>1, <1>2 DEF TypeOK
  <1>4. ASSUME NEW w \in Workers, holder'[w] # NULL
        PROVE  worker'[holder'[w]] = w /\ pc'[holder'[w]] \in {"counting", "expiring"}
    <2>1. holder'[w] = holder[w] /\ holder[w] \in Handlers \ {h}
      BY <1>1, <1>2, <1>4 DEF TypeOK
    <2> QED
      BY <1>1, <1>2, <1>4, <2>1 DEF LockOK
  <1> QED
    BY <1>3, <1>4 DEF LockOK

\* INCR keeps the bound: who saw room is one fewer, or one more did not see.
LEMMA IncrementOK ==
  ASSUME TypeOK, CountOK, NEW h \in Handlers, pc[h] = "counting", Increment(h),
         SeenOnes' = SeenOnes \ {h}
  PROVE  CountOK' /\ count' \in Nat /\ blind' \in Nat
  <1>1. count \in Nat /\ blind \in Nat /\ MaxLimit \in Nat
    BY LimitsAssumption DEF TypeOK
  <1>2. count' = count + 1 /\ blind' = IF seen[h] THEN blind ELSE blind + 1
    BY DEF Increment
  <1>3. h \in SeenOnes <=> seen[h]
    BY DEF SeenOnes
  <1>4. Cardinality(SeenOnes') = IF seen[h] THEN Cardinality(SeenOnes) - 1
                                 ELSE Cardinality(SeenOnes)
    BY <1>3, SeenFinite, FS_RemoveElement
  <1>5. count - blind + Cardinality(SeenOnes) <= MaxLimit - 1 + Cardinality(Handlers)
    BY DEF CountOK
  <1>6. CASE seen[h]
    <2>1. count' = count + 1 /\ blind' = blind /\ Cardinality(SeenOnes') = Cardinality(SeenOnes) - 1
      BY <1>2, <1>4, <1>6
    <2>2. count' - blind' + Cardinality(SeenOnes') <= MaxLimit - 1 + Cardinality(Handlers)
      BY <1>1, <1>5, <2>1, SeenFinite
    <2> QED
      BY <1>1, <2>1, <2>2 DEF CountOK
  <1>7. CASE ~seen[h]
    <2>1. count' = count + 1 /\ blind' = blind + 1 /\ Cardinality(SeenOnes') = Cardinality(SeenOnes)
      BY <1>2, <1>4, <1>7
    <2>2. count' - blind' + Cardinality(SeenOnes') <= MaxLimit - 1 + Cardinality(Handlers)
      BY <1>1, <1>5, <2>1, SeenFinite
    <2> QED
      BY <1>1, <2>1, <2>2 DEF CountOK
  <1> QED
    BY <1>6, <1>7

\* Where the counter stays and nobody new saw room, the bound stays.
LEMMA CountStays ==
  ASSUME TypeOK, CountOK, count' = count, blind' = blind, SeenOnes' \subseteq SeenOnes
  PROVE  CountOK'
  <1>1. count \in Nat /\ blind \in Nat /\ MaxLimit \in Nat
    BY LimitsAssumption DEF TypeOK
  <1>2. count - blind + Cardinality(SeenOnes') <= MaxLimit - 1 + Cardinality(Handlers)
    BY <1>1, SeenFinite, SeenFewer DEF CountOK
  <1> QED
    BY <1>2 DEF CountOK

\* A counter that is dropped is within every bound.
LEMMA DropOK ==
  ASSUME Drop
  PROVE  /\ CountOK' /\ CounterExpires'
         /\ left' \in 0..Window /\ count' \in Nat /\ blind' \in Nat /\ orphaned' \in BOOLEAN
  <1>1. 0 - 0 + Cardinality(SeenOnes') <= MaxLimit - 1 + Cardinality(Handlers)
    BY LimitsAssumption, SeenFinite, SeenNext
  <1>2. 0 \in 0..Window
    BY WindowType
  <1>3. left' \in 0..Window /\ orphaned' \in BOOLEAN
    BY <1>2 DEF Drop
  <1> QED
    BY <1>1, <1>3 DEF Drop, CountOK, CounterExpires

------------------------------------------------------------------------------
(* Lemmas about the length of a list                                       *)

\* Ages are finitely many.
LEMMA SpansFinite == IsFiniteSet(Ages) /\ IsFiniteSet(Recent) /\ \A n \in Int : IsFiniteSet(0..n)
  <1>1. ASSUME NEW n \in Int PROVE IsFiniteSet(0..n)
    <2>1. 0 \in Int
      OBVIOUS
    <2> QED
      BY <2>1, FS_Interval
  <1> QED
    BY <1>1, WindowType DEF Ages, Recent

\* A list has finitely many stamps, and no fewer of more ages.
LEMMA TotalWithin ==
  ASSUME NEW D, NEW stamps \in [D -> Nat], NEW T \in SUBSET D, IsFiniteSet(T),
         NEW S \in SUBSET T
  PROVE  /\ IsFiniteSet(Listing(stamps, S)) /\ Total(stamps, S) \in Nat
         /\ Total(stamps, S) <= Total(stamps, T)
  <1>1. IsFiniteSet(Listing(stamps, T))
    <2> DEFINE Image == {{a} \X (1..stamps[a]) : a \in T}
               f == [a \in T |-> {a} \X (1..stamps[a])]
    <2>1. IsFiniteSet(Image)
      <3>1. f \in Surjection(T, Image)
        BY DEF Surjection
      <3> HIDE DEF f, Image
      <3> QED
        BY <3>1, FS_Surjection
    <2>2. ASSUME NEW a \in T
          PROVE  IsFiniteSet({a} \X (1..stamps[a]))
      <3>1. 1 \in Int /\ stamps[a] \in Int
        OBVIOUS
      <3>2. IsFiniteSet(1..stamps[a])
        BY <3>1, FS_Interval
      <3>3. IsFiniteSet({a})
        BY FS_Singleton
      <3> QED
        BY <3>2, <3>3, FS_Product
    <2>3. \A U \in Image : IsFiniteSet(U)
      BY <2>2
    <2> HIDE DEF Image
    <2>4. IsFiniteSet(UNION Image)
      BY <2>1, <2>3, FS_UNION
    <2> QED
      BY <2>4 DEF Image, Listing
  <1>2. Listing(stamps, S) \in SUBSET Listing(stamps, T)
    BY DEF Listing
  <1> QED
    BY <1>1, <1>2, FS_Subset, FS_CardinalityType DEF Total

\* Its length depends on the stamps of those ages only.
LEMMA TotalSame ==
  ASSUME NEW S, NEW old, NEW new, \A a \in S : new[a] = old[a]
  PROVE  Total(new, S) = Total(old, S)
  <1>1. \A a \in S : {a} \X (1..new[a]) = {a} \X (1..old[a])
    OBVIOUS
  <1>2. Listing(new, S) = Listing(old, S)
    BY <1>1 DEF Listing
  <1> QED
    BY <1>2 DEF Total

\* No stamps, no length.
LEMMA TotalNone ==
  ASSUME NEW D, NEW S \in SUBSET D
  PROVE  Total(None(D), S) = 0
  <1>1. \A a \in S : {a} \X (1..None(D)[a]) = {}
    BY DEF None
  <1>2. Listing(None(D), S) = {}
    BY <1>1 DEF Listing
  <1> QED
    BY <1>2, FS_EmptySet DEF Total

\* One more stamp of one of the ages is one more of them.
LEMMA TotalStamp ==
  ASSUME NEW D, NEW stamps \in [D -> Nat], NEW S \in SUBSET D, IsFiniteSet(S), NEW a \in S
  PROVE  Total(Stamp(stamps, a), S) = Total(stamps, S) + 1
  <1> DEFINE top == <<a, stamps[a] + 1>>
             new == Stamp(stamps, a)
  <1>1. stamps[a] \in Nat /\ new[a] = stamps[a] + 1 /\ \A b \in S \ {a} : new[b] = stamps[b]
    BY DEF Stamp
  <1>2. 1..new[a] = (1..stamps[a]) \cup {stamps[a] + 1}
    BY <1>1
  <1>3. {a} \X (1..new[a]) = ({a} \X (1..stamps[a])) \cup {top}
    BY <1>2
  <1>4. \A b \in S \ {a} : {b} \X (1..new[b]) = {b} \X (1..stamps[b])
    BY <1>1
  <1>5. Listing(new, S) = Listing(stamps, S) \cup {top}
    <2> HIDE DEF new, top
    <2> QED
      BY <1>3, <1>4 DEF Listing
  <1>6. top \notin Listing(stamps, S)
    <2> SUFFICES ASSUME NEW b \in S, top \in {b} \X (1..stamps[b]) PROVE FALSE
      BY DEF Listing
    <2>1. b = a /\ stamps[a] + 1 \in 1..stamps[b]
      OBVIOUS
    <2> QED
      BY <1>1, <2>1
  <1>7. IsFiniteSet(Listing(stamps, S))
    BY TotalWithin
  <1> QED
    BY <1>5, <1>6, <1>7, FS_AddElement DEF Total

\* A tick moves the stamps, so that there are as many up to an age as there were
\* up to the age before.
LEMMA TotalOlder ==
  ASSUME NEW n \in Nat, NEW stamps \in [0..n -> Nat], NEW k \in 0..n
  PROVE  Total(Older(stamps), 0..k) = Total(stamps, 0..(k - 1))
  <1> DEFINE old == Listing(stamps, 0..(k - 1))
             new == Listing(Older(stamps), 0..k)
             f == [s \in old |-> <<s[1] + 1, s[2]>>]
  <1>1. /\ \A a \in 0..(k - 1) : a + 1 \in 0..k /\ Older(stamps)[a + 1] = stamps[a]
        /\ \A a \in 0..k : a # 0 => a - 1 \in 0..(k - 1) /\ Older(stamps)[a] = stamps[a - 1]
        /\ Older(stamps)[0] = 0
    BY DEF Older
  <1>2. \A s : s \in old <=> \E a \in 0..(k - 1) : \E i \in 1..stamps[a] : s = <<a, i>>
    BY DEF Listing
  <1>3. \A s : s \in new <=> \E a \in 0..k : \E i \in 1..Older(stamps)[a] : s = <<a, i>>
    BY DEF Listing
  <1>4. IsFiniteSet(old)
    <2>1. 0..(k - 1) \in SUBSET (0..n) /\ 0 \in Int /\ k - 1 \in Int
      OBVIOUS
    <2>2. IsFiniteSet(0..(k - 1))
      BY <2>1, SpansFinite
    <2> QED
      BY <2>1, <2>2, TotalWithin
  <1> HIDE DEF old, new
  <1>5. \A s \in old : f[s] \in new
    <2> SUFFICES ASSUME NEW a \in 0..(k - 1), NEW i \in 1..stamps[a], <<a, i>> \in old
                 PROVE  f[<<a, i>>] \in new
      BY <1>2
    <2>1. f[<<a, i>>] = <<a + 1, i>>
      OBVIOUS
    <2> QED
      BY <1>1, <1>3, <2>1
  <1>6. ASSUME NEW t \in new PROVE \E s \in old : f[s] = t
    <2>0. PICK a \in 0..k : \E i \in 1..Older(stamps)[a] : t = <<a, i>>
      BY <1>3
    <2> PICK i \in 1..Older(stamps)[a] : t = <<a, i>>
      BY <2>0
    <2>1. a # 0 /\ a - 1 \in 0..(k - 1) /\ i \in 1..stamps[a - 1]
      BY <1>1
    <2>2. <<a - 1, i>> \in old
      BY <1>2, <2>1
    <2>3. f[<<a - 1, i>>] = <<a, i>>
      BY <2>2
    <2> QED
      BY <2>2, <2>3
  <1>7. ASSUME NEW s \in old, NEW t \in old, f[s] = f[t] PROVE s = t
    <2>1. f[s] = <<s[1] + 1, s[2]>> /\ f[t] = <<t[1] + 1, t[2]>>
      OBVIOUS
    <2>2. PICK a \in 0..(k - 1) : \E i \in 1..stamps[a] : s = <<a, i>>
      BY <1>2
    <2>3. PICK b \in 0..(k - 1) : \E i \in 1..stamps[b] : t = <<b, i>>
      BY <1>2
    <2>4. s = <<a, s[2]>> /\ t = <<b, t[2]>>
      BY <2>2, <2>3
    <2>5. a + 1 = b + 1 /\ s[2] = t[2]
      BY <1>7, <2>1, <2>4
    <2>6. a = b
      BY <2>5
    <2> QED
      BY <2>4, <2>5, <2>6
  <1>8. f \in Bijection(old, new)
    BY <1>5, <1>6, <1>7 DEF Bijection, Injection, Surjection, IsInjective
  <1>9. Cardinality(new) = Cardinality(old)
    BY <1>4, <1>8, FS_Bijection DEF ExistsBijection
  <1> QED
    BY <1>9 DEF old, new, Total

\* The lists of a process that begins are in order.
LEMMA NoListOK ==
  /\ Total(None(Ages), Ages) <= MaxLimit
  /\ \A n \in Recent : Total(None(Recent), 0..n) <= Total(None(Ages), 0..(n + MaxWait))
  <1>1. Total(None(Ages), Ages) = 0 /\ MaxLimit \in Nat
    BY TotalNone, LimitsAssumption
  <1>2. ASSUME NEW n \in Recent
        PROVE  Total(None(Recent), 0..n) = 0 /\ Total(None(Ages), 0..(n + MaxWait)) = 0
    <2>1. 0..n \in SUBSET Recent /\ 0..(n + MaxWait) \in SUBSET Ages
      BY WindowType DEF Recent, Ages
    <2> QED
      BY <2>1, TotalNone
  <1> QED
    BY <1>1, <1>2

\* A step that touches no list leaves them in order.
LEMMA ListSame ==
  ASSUME RateInv, UNCHANGED <<listed, admitted>>
  PROVE  \A w \in Workers : ListOK(w)'
  BY DEF RateInv, ListOK

------------------------------------------------------------------------------
(* One lemma for each action                                               *)

\* Everything a request does to its own variables before it counts.
LEMMA ArriveKeeps ==
  ASSUME RateInv, NEW h \in Handlers, Arrive(h)
  PROVE  RateInv'
  <1>0. TypeOK /\ CountOK /\ CounterExpires
    BY DEF RateInv
  <1>1. PICK w \in Workers, l \in Limits :
          worker' = [worker EXCEPT ![h] = w] /\ limit' = [limit EXCEPT ![h] = l]
    BY DEF Arrive
  <1>2. /\ pc[h] = "idle" /\ pc' = [pc EXCEPT ![h] = "arrived"]
        /\ UNCHANGED <<memory, redis, since, seen>>
    BY DEF Arrive
  <1>3. TypeOK'
    BY <1>0, <1>1, <1>2 DEF TypeOK, Places, memory, redis
  <1>4. SeenOnes' = SeenOnes
    BY <1>0, <1>2 DEF SeenOnes, TypeOK
  <1>5. CountOK'
    BY <1>0, <1>2, <1>4, CountStays DEF redis
  <1>6. CounterExpires'
    BY <1>0, <1>2 DEF CounterExpires, TypeOK, redis
  <1>7. \A g \in Handlers : RequestOK(g)'
    BY <1>0, <1>1, <1>2 DEF RateInv, RequestOK, TypeOK
  <1>8. \A w1 \in Workers : LockOK(w1)'
    BY <1>0, <1>1, <1>2 DEF RateInv, LockOK, TypeOK, memory
  <1>9. \A x \in Workers : ListOK(x)'
    BY <1>2, ListSame DEF memory
  <1> QED
    BY <1>3, <1>5, <1>6, <1>7, <1>8, <1>9 DEF RateInv

\* A request that reads a counter below its limit joins those that saw room, and
\* the counter is below the largest limit then.
LEMMA AskKeeps ==
  ASSUME RateInv, NEW h \in Handlers, Ask(h)
  PROVE  RateInv'
  <1>0. TypeOK /\ CountOK /\ CounterExpires /\ RequestOK(h)
    BY DEF RateInv
  <1>1. pc[h] = "arrived" /\ limit[h] \in Limits /\ ~seen[h]
    BY <1>0 DEF Ask, RequestOK
  <1>2. UNCHANGED <<memory, redis, worker, limit, since>>
    BY DEF Ask
  <1>3. \A x \in Workers : ListOK(x)'
    BY <1>2, ListSame DEF memory
  <1>4. CASE /\ count < limit[h] /\ pc' = [pc EXCEPT ![h] = "passed"]
             /\ seen' = [seen EXCEPT ![h] = TRUE]
    <2>1. TypeOK'
      BY <1>0, <1>2, <1>4 DEF TypeOK, Places, memory, redis
    <2>2. CountOK'
      <3>1. count \in Nat /\ blind \in Nat /\ MaxLimit \in Nat /\ count + 1 <= MaxLimit
        <4>1. limit[h] \in 1..MaxLimit /\ MaxLimit \in Nat
          BY <1>1, LimitsAssumption
        <4>2. count \in Nat /\ blind \in Nat /\ count < limit[h]
          BY <1>0, <1>4 DEF TypeOK
        <4> QED
          BY <4>1, <4>2
      <3>2. count - blind + Cardinality(SeenOnes') <= MaxLimit - 1 + Cardinality(Handlers)
        BY <3>1, SeenFinite, SeenNext
      <3> QED
        BY <1>2, <3>2 DEF CountOK, redis
    <2>3. CounterExpires'
      BY <1>0, <1>1, <1>2, <1>4 DEF CounterExpires, TypeOK, redis
    <2>4. \A g \in Handlers : RequestOK(g)'
      BY <1>0, <1>1, <1>2, <1>4 DEF RateInv, RequestOK, TypeOK
    <2>5. \A w \in Workers : LockOK(w)'
      BY <1>0, <1>1, <1>2, <1>4 DEF RateInv, LockOK, TypeOK, memory
    <2> QED
      BY <1>3, <2>1, <2>2, <2>3, <2>4, <2>5 DEF RateInv
  <1>5. CASE pc' = [pc EXCEPT ![h] = "violating"] /\ UNCHANGED seen
    <2>1. TypeOK'
      BY <1>0, <1>2, <1>5 DEF TypeOK, Places, memory, redis
    <2>2. SeenOnes' = SeenOnes
      BY <1>0, <1>1, <1>5 DEF SeenOnes, TypeOK
    <2>3. CountOK'
      BY <1>0, <1>2, <2>2, CountStays DEF redis
    <2>4. CounterExpires'
      BY <1>0, <1>1, <1>2, <1>5 DEF CounterExpires, TypeOK, redis
    <2>5. \A g \in Handlers : RequestOK(g)'
      BY <1>0, <1>1, <1>2, <1>5 DEF RateInv, RequestOK, TypeOK
    <2>6. \A w \in Workers : LockOK(w)'
      BY <1>0, <1>1, <1>2, <1>5 DEF RateInv, LockOK, TypeOK, memory
    <2> QED
      BY <1>3, <2>1, <2>3, <2>4, <2>5, <2>6 DEF RateInv
  <1> QED
    BY <1>4, <1>5 DEF Ask

\* A request that is refused by the counter leaves.
LEMMA RefuseKeeps ==
  ASSUME RateInv, NEW h \in Handlers, Refuse(h)
  PROVE  RateInv'
  <1>0. TypeOK /\ CountOK /\ CounterExpires /\ \A g \in Handlers : RequestOK(g)
    BY DEF RateInv
  <1>1. Answer(h) /\ Leave({h}) /\ UNCHANGED <<listed, admitted, redis>> /\ pc[h] = "violating"
    BY DEF Refuse, Answer
  <1>2. TypeOK'
    BY <1>0, <1>1, LeaveType, AnswerOK DEF TypeOK, redis
  <1>3. SeenOnes' \subseteq SeenOnes /\ \A g \in Handlers : RequestOK(g)'
    BY <1>0, <1>1, LeaveOK
  <1>4. CountOK'
    BY <1>0, <1>1, <1>3, CountStays DEF redis
  <1>5. CounterExpires'
    BY <1>0, <1>1 DEF CounterExpires, Leave, redis
  <1>6. \A w \in Workers : LockOK(w)'
    BY <1>1, AnswerOK
  <1>7. \A x \in Workers : ListOK(x)'
    BY <1>1, ListSame
  <1> QED
    BY <1>2, <1>3, <1>4, <1>5, <1>6, <1>7 DEF RateInv

\* A request that Redis fails goes on without having seen room.
LEMMA AskFailsKeeps ==
  ASSUME RateInv, NEW h \in Handlers, AskFails(h)
  PROVE  RateInv'
  <1>0. TypeOK /\ CountOK /\ CounterExpires /\ RequestOK(h)
    BY DEF RateInv
  <1>1. /\ pc[h] \in {"arrived", "violating"} /\ pc' = [pc EXCEPT ![h] = "passed"]
        /\ UNCHANGED <<memory, redis, request>> /\ ~seen[h]
    BY <1>0 DEF AskFails, RequestOK
  <1>2. TypeOK'
    BY <1>0, <1>1 DEF TypeOK, Places, memory, redis, request
  <1>3. SeenOnes' = SeenOnes
    BY <1>0, <1>1 DEF SeenOnes, TypeOK, request
  <1>4. CountOK'
    BY <1>0, <1>1, <1>3, CountStays DEF redis
  <1>5. CounterExpires'
    BY <1>0, <1>1 DEF CounterExpires, TypeOK, redis
  <1>6. \A g \in Handlers : RequestOK(g)'
    BY <1>0, <1>1 DEF RateInv, RequestOK, TypeOK, request
  <1>7. \A w \in Workers : LockOK(w)'
    BY <1>0, <1>1 DEF RateInv, LockOK, TypeOK, memory, request
  <1>8. \A x \in Workers : ListOK(x)'
    BY <1>1, ListSame DEF memory
  <1> QED
    BY <1>2, <1>4, <1>5, <1>6, <1>7, <1>8 DEF RateInv

\* A request is let through by a list that is shorter than its limit once it is cleaned
\* up, which drops no stamp that a recent request can have.
LEMMA LetThroughOK ==
  ASSUME RateInv, NEW h \in Handlers, NEW w \in Workers, worker[h] = w,
         limit[h] \in Limits, LetThrough(h)
  PROVE  \A v \in Workers : ListOK(v)'
  <1> DEFINE kept == [a \in Ages |-> IF a \in InWindow(h) THEN listed[w][a] ELSE 0]
  <1>1. /\ listed[w] \in [Ages -> Nat] /\ admitted[w] \in [Recent -> Nat]
        /\ since[h] \in 0..MaxWait /\ ListOK(w)
    BY DEF RateInv, TypeOK
  <1>2. /\ Total(listed[w], InWindow(h)) < limit[h]
        /\ listed'[w] = Stamp(kept, since[h]) /\ admitted'[w] = Stamp(admitted[w], 0)
        /\ \A v \in Workers \ {w} : listed'[v] = listed[v] /\ admitted'[v] = admitted[v]
    BY DEF LetThrough, RateInv, TypeOK
  <1>3. /\ MaxWait \in Nat /\ Window \in Nat /\ since[h] \in Ages /\ 0 \in Recent
        /\ MaxLimit \in Nat /\ limit[h] <= MaxLimit /\ limit[h] \in Nat
    <2>1. limit[h] \in 1..MaxLimit /\ MaxLimit \in Nat
      BY LimitsAssumption
    <2>2. since[h] \in Ages
      BY <1>1, WindowType
    <2> QED
      BY <2>1, <2>2, WindowType
  <1>4. kept \in [Ages -> Nat]
    BY <1>1
  <1> HIDE DEF kept
  <1>5. Total(listed'[w], Ages) <= MaxLimit
    <2>1. Listing(kept, Ages) = Listing(listed[w], InWindow(h))
      <3>1. \A a \in Ages \ InWindow(h) : {a} \X (1..kept[a]) = {}
        BY DEF kept
      <3>2. \A a \in InWindow(h) : a \in Ages /\ {a} \X (1..kept[a]) = {a} \X (1..listed[w][a])
        BY DEF kept, InWindow
      <3> QED
        BY <3>1, <3>2 DEF Listing
    <2>2. Total(kept, Ages) = Total(listed[w], InWindow(h))
      BY <2>1 DEF Total
    <2>3. Total(kept, Ages) \in Nat
      BY <1>4, SpansFinite, TotalWithin
    <2>4. Total(Stamp(kept, since[h]), Ages) = Total(kept, Ages) + 1
      BY <1>3, <1>4, SpansFinite, TotalStamp
    <2> QED
      BY <1>2, <1>3, <2>2, <2>3, <2>4
  <1>6. ASSUME NEW n \in Recent
        PROVE  Total(admitted'[w], 0..n) <= Total(listed'[w], 0..(n + MaxWait))
    <2>1. n \in Int /\ n + MaxWait \in Int /\ 0 \in 0..n /\ since[h] \in 0..(n + MaxWait)
      BY <1>1, <1>3 DEF Recent
    <2>2. 0..n \in SUBSET Recent
      BY <1>3, <2>1 DEF Recent
    <2>3. 0..(n + MaxWait) \in SUBSET Ages
      BY <1>3, <2>1 DEF Recent, Ages
    <2>4. IsFiniteSet(0..n) /\ IsFiniteSet(0..(n + MaxWait))
      BY <2>1, SpansFinite
    <2>5. 0..(n + MaxWait) \subseteq InWindow(h)
      <3>1. \A a \in 0..(n + MaxWait) : a - since[h] < Window
        BY <1>1, <1>3, <2>1 DEF Recent
      <3> QED
        BY <2>3, <3>1 DEF InWindow
    <2>6. Total(Stamp(admitted[w], 0), 0..n) = Total(admitted[w], 0..n) + 1
      BY <1>1, <2>1, <2>2, <2>4, TotalStamp
    <2>7. Total(Stamp(kept, since[h]), 0..(n + MaxWait)) = Total(kept, 0..(n + MaxWait)) + 1
      BY <1>4, <2>1, <2>3, <2>4, TotalStamp
    <2>8. Total(kept, 0..(n + MaxWait)) = Total(listed[w], 0..(n + MaxWait))
      <3>1. \A a \in 0..(n + MaxWait) : kept[a] = listed[w][a]
        BY <2>3, <2>5 DEF kept
      <3> QED
        BY <3>1, TotalSame
    <2>9. Total(admitted[w], 0..n) <= Total(listed[w], 0..(n + MaxWait))
      BY <1>1 DEF ListOK
    <2>10. Total(admitted[w], 0..n) \in Nat /\ Total(listed[w], 0..(n + MaxWait)) \in Nat
      BY <1>1, <2>2, <2>3, <2>4, TotalWithin
    <2> QED
      BY <1>2, <2>6, <2>7, <2>8, <2>9, <2>10
  <1>7. ListOK(w)'
    BY <1>5, <1>6 DEF ListOK
  <1>8. ASSUME NEW v \in Workers \ {w} PROVE ListOK(v)'
    <2>1. ListOK(v)
      BY DEF RateInv
    <2> QED
      BY <1>2, <2>1 DEF ListOK
  <1> QED
    BY <1>7, <1>8

\* The look at the list takes a free lock or adds a stamp, and the request that
\* saw room will still count.
LEMMA LookKeeps ==
  ASSUME RateInv, NEW h \in Handlers, Look(h)
  PROVE  RateInv'
  <1>0. TypeOK /\ CountOK /\ CounterExpires /\ RequestOK(h)
    BY DEF RateInv
  <1> DEFINE w == worker[h]
  <1>1. /\ w \in Workers /\ pc[h] = "passed" /\ holder[w] = NULL
        /\ pc' = [pc EXCEPT ![h] = "counting"] /\ since' = [since EXCEPT ![h] = 0]
        /\ UNCHANGED <<redis, worker, limit, seen>>
    BY <1>0 DEF Look, RequestOK
  <1>2. listed' \in [Workers -> [Ages -> Nat]] /\ admitted' \in [Workers -> [Recent -> Nat]]
    <2>1. CASE UNCHANGED <<listed, admitted>>
      BY <1>0, <2>1 DEF TypeOK
    <2>2. CASE /\ listed' = [listed EXCEPT ![w] = Stamp(
                    [a \in Ages |-> IF a \in InWindow(h) THEN @[a] ELSE 0], since[h])]
               /\ admitted' = [admitted EXCEPT ![w] = Stamp(@, 0)]
      <3>1. listed[w] \in [Ages -> Nat] /\ admitted[w] \in [Recent -> Nat]
        BY <1>0, <1>1 DEF TypeOK
      <3>2. since[h] \in Ages /\ 0 \in Recent
        BY <1>0, WindowType DEF TypeOK
      <3>3. [a \in Ages |-> IF a \in InWindow(h) THEN listed[w][a] ELSE 0] \in [Ages -> Nat]
        BY <3>1
      <3>4. /\ Stamp([a \in Ages |-> IF a \in InWindow(h) THEN listed[w][a] ELSE 0], since[h])
                 \in [Ages -> Nat]
            /\ Stamp(admitted[w], 0) \in [Recent -> Nat]
        BY <3>1, <3>2, <3>3, StampType
      <3> QED
        BY <1>0, <2>2, <3>4 DEF TypeOK
    <2> QED
      BY <2>1, <2>2 DEF Look, LetThrough
  <1>3. holder' = holder \/ holder' = [holder EXCEPT ![w] = h]
    BY DEF Look, LetThrough
  <1>4. TypeOK'
    <2>1. since' \in [Handlers -> 0..MaxWait]
      <3>1. 0 \in 0..MaxWait
        BY WindowType
      <3> QED
        BY <1>0, <1>1, <3>1 DEF TypeOK
    <2>2. holder' \in [Workers -> Handlers \cup {NULL}] /\ pc' \in [Handlers -> Places]
      BY <1>0, <1>1, <1>3 DEF TypeOK, Places
    <2> QED
      BY <1>0, <1>1, <1>2, <2>1, <2>2 DEF TypeOK, redis
  <1>5. SeenOnes' = SeenOnes
    BY <1>0, <1>1 DEF SeenOnes, TypeOK
  <1>6. CountOK'
    BY <1>0, <1>1, <1>5, CountStays DEF redis
  <1>7. CounterExpires'
    BY <1>0, <1>1 DEF CounterExpires, TypeOK, redis
  <1>8. \A g \in Handlers : RequestOK(g)'
    BY <1>0, <1>1 DEF RateInv, RequestOK, TypeOK
  <1>9. \A v \in Workers : LockOK(v)'
    <2> SUFFICES ASSUME NEW v \in Workers, holder'[v] # NULL
                 PROVE  worker'[holder'[v]] = v /\ pc'[holder'[v]] \in {"counting", "expiring"}
      BY DEF LockOK
    <2>1. CASE holder'[v] = h /\ v = w
      BY <1>0, <1>1, <2>1 DEF TypeOK
    <2>2. CASE holder'[v] = holder[v]
      <3>1. holder[v] \in Handlers /\ LockOK(v)
        BY <1>0, <2>2 DEF TypeOK, RateInv
      <3>2. worker[holder[v]] = v /\ pc[holder[v]] \in {"counting", "expiring"}
        BY <2>2, <3>1 DEF LockOK
      <3>3. pc'[holder[v]] = pc[holder[v]]
        BY <1>0, <1>1, <3>1, <3>2 DEF TypeOK
      <3> QED
        BY <1>1, <2>2, <3>2, <3>3
    <2>3. holder'[v] = holder[v] \/ (holder'[v] = h /\ v = w)
      BY <1>0, <1>1, <1>3 DEF TypeOK
    <2> QED
      BY <2>1, <2>2, <2>3
  <1>10. \A v \in Workers : ListOK(v)'
    <2>1. CASE UNCHANGED <<listed, admitted>>
      BY <2>1, ListSame
    <2>2. CASE LetThrough(h)
      <3>1. limit[h] \in Limits
        BY <1>0, <1>1 DEF RequestOK
      <3>2. \A x \in Workers : worker[h] = x => \A v \in Workers : ListOK(v)'
        BY <2>2, <3>1, LetThroughOK
      <3> QED
        BY <1>1, <3>2
    <2> QED
      BY <2>1, <2>2 DEF Look
  <1> QED
    BY <1>4, <1>6, <1>7, <1>8, <1>9, <1>10 DEF RateInv

\* INCR: the request is about to give the counter its lifetime.
LEMMA CountKeeps ==
  ASSUME RateInv, NEW h \in Handlers, Count(h)
  PROVE  RateInv'
  <1>0. TypeOK /\ CountOK /\ \A g \in Handlers : RequestOK(g)
    BY DEF RateInv
  <1>1. /\ pc[h] = "counting" /\ Increment(h) /\ pc' = [pc EXCEPT ![h] = "expiring"]
        /\ UNCHANGED <<memory, left, orphaned, request>>
    BY DEF Count
  <1>2. SeenOnes' = SeenOnes \ {h}
    BY <1>0, <1>1 DEF SeenOnes, TypeOK, request
  <1>3. CountOK' /\ count' \in Nat /\ blind' \in Nat
    BY <1>0, <1>1, <1>2, IncrementOK
  <1>4. TypeOK'
    BY <1>0, <1>1, <1>3 DEF TypeOK, Places, memory, request
  <1>5. CounterExpires'
    BY <1>0, <1>1 DEF CounterExpires, TypeOK
  <1>6. \A g \in Handlers : RequestOK(g)'
    BY <1>0, <1>1 DEF RequestOK, TypeOK, request
  <1>7. \A w \in Workers : LockOK(w)'
    BY <1>0, <1>1 DEF RateInv, LockOK, TypeOK, memory, request
  <1>8. \A x \in Workers : ListOK(x)'
    BY <1>1, ListSame DEF memory
  <1> QED
    BY <1>3, <1>4, <1>5, <1>6, <1>7, <1>8 DEF RateInv

\* INCR fails: if Redis did it, the counter may be left without a lifetime.
LEMMA CountFailsKeeps ==
  ASSUME RateInv, NEW h \in Handlers, CountFails(h)
  PROVE  RateInv'
  <1>0. TypeOK /\ CountOK /\ CounterExpires /\ \A g \in Handlers : RequestOK(g)
    BY DEF RateInv
  <1>1. pc[h] = "counting" /\ Answer(h) /\ Leave({h}) /\ UNCHANGED <<listed, admitted>>
    BY DEF CountFails, Answer
  <1>2. SeenOnes' = SeenOnes \ {h} /\ \A g \in Handlers : RequestOK(g)'
    BY <1>0, <1>1, LeaveOK
  <1>3. \A w \in Workers : LockOK(w)'
    BY <1>1, AnswerOK
  <1>4. \A g \in Handlers \ {h} : pc'[g] = pc[g]
    BY <1>1 DEF Leave
  <1>5. \A x \in Workers : ListOK(x)'
    BY <1>1, ListSame
  <1>6. CASE UNCHANGED redis
    <2>1. TypeOK'
      BY <1>0, <1>1, <1>6, LeaveType, AnswerOK DEF TypeOK, redis
    <2>2. CountOK'
      BY <1>0, <1>2, <1>6, CountStays DEF redis
    <2>3. CounterExpires'
      BY <1>0, <1>1, <1>4, <1>6 DEF CounterExpires, redis
    <2> QED
      BY <1>2, <1>3, <1>5, <2>1, <2>2, <2>3 DEF RateInv
  <1>7. CASE Increment(h) /\ orphaned' = (orphaned \/ left = 0) /\ UNCHANGED left
    <2>1. CountOK' /\ count' \in Nat /\ blind' \in Nat
      BY <1>0, <1>1, <1>2, <1>7, IncrementOK
    <2>2. orphaned' \in BOOLEAN
      BY <1>7
    <2>3. TypeOK'
      BY <1>0, <1>1, <1>7, <2>1, <2>2, LeaveType, AnswerOK DEF TypeOK
    <2>4. CounterExpires'
      BY <1>7 DEF CounterExpires
    <2> QED
      BY <1>2, <1>3, <1>5, <2>1, <2>3, <2>4 DEF RateInv
  <1> QED
    BY <1>6, <1>7 DEF CountFails

\* EXPIRE gives a counter that is there its lifetime.
LEMMA RenewOK ==
  ASSUME TypeOK, Renew
  PROVE  /\ count' = count /\ blind' = blind /\ left' \in 0..Window /\ orphaned' \in BOOLEAN
         /\ CounterExpires'
  <1>1. Window \in Nat \ {0} /\ count \in Nat
    BY TimesAssumption DEF TypeOK
  <1>2. /\ count' = count /\ blind' = blind /\ orphaned' = FALSE
        /\ left' = IF count > 0 THEN Window ELSE 0
    BY DEF Renew
  <1>3. left' \in 0..Window /\ (count' > 0 => left' # 0)
    BY <1>1, <1>2
  <1> QED
    BY <1>2, <1>3 DEF CounterExpires

\* EXPIRE, done or not, ends the request.  Where it was needed and not done, the
\* counter is an orphan.
LEMMA ExpireKeeps ==
  ASSUME RateInv, NEW h \in Handlers, Expire(h) \/ ExpireFails(h)
  PROVE  RateInv'
  <1>0. TypeOK /\ CountOK /\ CounterExpires /\ \A g \in Handlers : RequestOK(g)
    BY DEF RateInv
  <1>1. pc[h] = "expiring" /\ Answer(h) /\ Leave({h}) /\ UNCHANGED <<listed, admitted>>
    BY DEF Expire, ExpireFails, Answer
  <1>2. SeenOnes' \subseteq SeenOnes /\ \A g \in Handlers : RequestOK(g)'
    BY <1>0, <1>1, LeaveOK
  <1>3. \A w \in Workers : LockOK(w)'
    BY <1>1, AnswerOK
  <1>4. /\ count' = count /\ blind' = blind /\ left' \in 0..Window /\ orphaned' \in BOOLEAN
        /\ CounterExpires'
    <2>1. CASE Renew
      BY <1>0, <2>1, RenewOK
    <2>2. CASE /\ orphaned' = (orphaned \/ (count > 0 /\ left = 0))
               /\ UNCHANGED <<count, left, blind>>
      BY <1>0, <2>2 DEF CounterExpires, TypeOK
    <2> QED
      BY <2>1, <2>2 DEF Expire, ExpireFails
  <1>5. TypeOK'
    BY <1>0, <1>1, <1>4, LeaveType, AnswerOK DEF TypeOK
  <1>6. CountOK'
    BY <1>0, <1>2, <1>4, CountStays
  <1>7. \A x \in Workers : ListOK(x)'
    BY <1>1, ListSame
  <1> QED
    BY <1>2, <1>3, <1>4, <1>5, <1>6, <1>7 DEF RateInv

\* The recent requests and their stamps grow older together.
LEMMA TickListOK ==
  ASSUME RateInv, Tick
  PROVE  \A w \in Workers : ListOK(w)'
  <1> SUFFICES ASSUME NEW w \in Workers PROVE ListOK(w)'
    OBVIOUS
  <1> DEFINE last == Window + MaxWait - 1
             recent == Window - MaxWait - 1
  <1>1. /\ last \in Nat /\ recent \in Nat /\ MaxWait \in Nat /\ MaxLimit \in Nat
        /\ \A n \in 0..recent : n + MaxWait \in 0..last
    BY TimesAssumption, LimitsAssumption
  <1>2. Ages = 0..last /\ Recent = 0..recent
    BY DEF Ages, Recent
  <1>3. /\ listed[w] \in [0..last -> Nat] /\ admitted[w] \in [0..recent -> Nat] /\ ListOK(w)
    BY <1>2 DEF RateInv, TypeOK
  <1>4. listed'[w] = Older(listed[w]) /\ admitted'[w] = Older(admitted[w])
    BY DEF Tick
  <1> HIDE DEF last, recent
  <1>5. Total(listed'[w], 0..last) <= MaxLimit
    <2>1. Total(Older(listed[w]), 0..last) = Total(listed[w], 0..(last - 1))
      BY <1>1, <1>3, TotalOlder
    <2>2. 0..(last - 1) \in SUBSET (0..last) /\ IsFiniteSet(0..last)
      BY <1>1, SpansFinite
    <2>3. /\ Total(listed[w], 0..(last - 1)) <= Total(listed[w], 0..last)
          /\ Total(listed[w], 0..(last - 1)) \in Nat
      BY <1>3, <2>2, TotalWithin
    <2>4. Total(listed[w], 0..last) <= MaxLimit /\ Total(listed[w], 0..last) \in Nat
      BY <1>2, <1>3, <2>2, TotalWithin DEF ListOK
    <2> QED
      BY <1>1, <1>4, <2>1, <2>3, <2>4
  <1>6. ASSUME NEW n \in 0..recent
        PROVE  Total(admitted'[w], 0..n) <= Total(listed'[w], 0..(n + MaxWait))
    <2>1. n \in Int /\ n + MaxWait \in 0..last
      BY <1>1
    <2>2. Total(admitted'[w], 0..n) = Total(admitted[w], 0..(n - 1))
      <3>1. Total(Older(admitted[w]), 0..n) = Total(admitted[w], 0..(n - 1))
        BY <1>1, <1>3, TotalOlder
      <3> QED
        BY <1>4, <3>1
    <2>3. Total(listed'[w], 0..(n + MaxWait)) = Total(listed[w], 0..(n + MaxWait - 1))
      <3> DEFINE k == n + MaxWait
      <3>1. k \in 0..last
        BY <2>1
      <3> HIDE DEF k
      <3>2. Total(Older(listed[w]), 0..k) = Total(listed[w], 0..(k - 1))
        BY <1>1, <1>3, <3>1, TotalOlder
      <3>3. k - 1 = n + MaxWait - 1
        BY <1>1, <2>1 DEF k
      <3> QED
        BY <1>4, <3>2, <3>3 DEF k
    <2>4. CASE n = 0
      <3>1. Total(admitted[w], {}) = 0
        BY FS_EmptySet DEF Total, Listing
      <3>2. 0..(n + MaxWait - 1) \in SUBSET (0..last) /\ IsFiniteSet(0..(n + MaxWait - 1))
        BY <1>1, <2>1, SpansFinite
      <3>3. Total(listed[w], 0..(n + MaxWait - 1)) \in Nat
        BY <1>3, <3>2, TotalWithin
      <3>4. 0..(n - 1) = {}
        BY <2>4
      <3> QED
        BY <2>2, <2>3, <3>1, <3>3, <3>4
    <2>5. CASE n # 0
      <3>1. n - 1 \in Recent /\ (n - 1) + MaxWait = n + MaxWait - 1
        BY <1>1, <1>2, <2>5
      <3>2. Total(admitted[w], 0..(n - 1)) <= Total(listed[w], 0..((n - 1) + MaxWait))
        BY <1>3, <3>1 DEF ListOK
      <3> QED
        BY <2>2, <2>3, <3>1, <3>2
    <2> QED
      BY <2>4, <2>5
  <1> QED
    BY <1>2, <1>5, <1>6 DEF ListOK

\* Time makes stamps older, and Redis drops the counter at the end of its lifetime.
LEMMA TickKeeps ==
  ASSUME RateInv, Tick
  PROVE  RateInv'
  <1>0. TypeOK /\ CountOK /\ CounterExpires
    BY DEF RateInv
  <1>1. UNCHANGED <<holder, pc, worker, limit, seen>>
    BY DEF Tick
  <1>2. listed' \in [Workers -> [Ages -> Nat]] /\ admitted' \in [Workers -> [Recent -> Nat]]
    <2>1. \A w \in Workers : listed[w] \in [Ages -> Nat] /\ admitted[w] \in [Recent -> Nat]
      BY <1>0 DEF TypeOK
    <2>2. \A w \in Workers : Older(listed[w]) \in [Ages -> Nat]
      BY <2>1, WindowType, OlderType DEF Ages
    <2>3. \A w \in Workers : Older(admitted[w]) \in [Recent -> Nat]
      BY <2>1, WindowType, OlderType DEF Recent
    <2> QED
      BY <2>2, <2>3 DEF Tick
  <1>3. since' \in [Handlers -> 0..MaxWait]
    <2>1. \A g \in Handlers : since[g] \in 0..MaxWait
      BY <1>0 DEF TypeOK
    <2>2. \A g \in Timed : since[g] + 1 \in 0..MaxWait
      BY <2>1, WindowType DEF Tick, Timed
    <2> QED
      BY <2>1, <2>2 DEF Tick
  <1>4. SeenOnes' = SeenOnes
    BY <1>1 DEF SeenOnes
  <1>5. \A w \in Workers : ListOK(w)'
    BY TickListOK
  <1>6. CASE Drop
    <2>1. CountOK' /\ CounterExpires'
      BY <1>6, DropOK
    <2>2. TypeOK'
      <3>1. left' \in 0..Window /\ count' \in Nat /\ blind' \in Nat /\ orphaned' \in BOOLEAN
        BY <1>6, DropOK
      <3> QED
        BY <1>0, <1>1, <1>2, <1>3, <3>1 DEF TypeOK
    <2>3. /\ \A g \in Handlers : RequestOK(g)'
          /\ \A w \in Workers : LockOK(w)'
      BY <1>1 DEF RateInv, RequestOK, LockOK
    <2> QED
      BY <1>5, <2>1, <2>2, <2>3 DEF RateInv
  <1>7. CASE /\ left # 1 /\ left' = (IF left = 0 THEN 0 ELSE left - 1)
             /\ UNCHANGED <<count, blind, orphaned>>
    <2>1. left' \in 0..Window /\ (left' = 0 => left = 0)
      BY <1>0, <1>7, TimesAssumption DEF TypeOK
    <2>2. TypeOK'
      BY <1>0, <1>1, <1>2, <1>3, <1>7, <2>1 DEF TypeOK
    <2>3. CountOK'
      BY <1>0, <1>4, <1>7, CountStays
    <2>4. CounterExpires'
      BY <1>0, <1>1, <1>7, <2>1 DEF CounterExpires
    <2>5. /\ \A g \in Handlers : RequestOK(g)'
          /\ \A w \in Workers : LockOK(w)'
      BY <1>1 DEF RateInv, RequestOK, LockOK
    <2> QED
      BY <1>5, <2>2, <2>3, <2>4, <2>5 DEF RateInv
  <1> QED
    BY <1>6, <1>7 DEF Tick

\* Redis may drop the counter at any time.
LEMMA EvictKeeps ==
  ASSUME RateInv, Evict
  PROVE  RateInv'
  <1>1. Drop /\ UNCHANGED <<memory, pc, request>>
    BY DEF Evict
  <1>2. CountOK' /\ CounterExpires'
    BY <1>1, DropOK
  <1>3. left' \in 0..Window /\ count' \in Nat /\ blind' \in Nat /\ orphaned' \in BOOLEAN
    BY <1>1, DropOK
  <1>4. TypeOK'
    BY <1>1, <1>3 DEF RateInv, TypeOK, memory, request
  <1>5. /\ \A g \in Handlers : RequestOK(g)'
        /\ \A w \in Workers : LockOK(w)'
    BY <1>1 DEF RateInv, RequestOK, LockOK, memory, request
  <1>6. \A x \in Workers : ListOK(x)'
    BY <1>1, ListSame DEF memory
  <1> QED
    BY <1>2, <1>4, <1>5, <1>6 DEF RateInv

\* A process dies with its list, its lock and its requests.
LEMMA CrashKeeps ==
  ASSUME RateInv, NEW w \in Workers, Crash(w)
  PROVE  RateInv'
  <1> DEFINE S == {h \in Handlers : worker[h] = w}
  <1>0. TypeOK /\ CountOK /\ CounterExpires /\ \A g \in Handlers : RequestOK(g)
    BY DEF RateInv
  <1>1. /\ Leave(S) /\ UNCHANGED <<count, left, blind>>
        /\ orphaned' = (orphaned \/ (count > 0 /\ left = 0 /\ \E h \in S : pc[h] = "expiring"))
        /\ holder' = [holder EXCEPT ![w] = NULL]
    BY DEF Crash
  <1>2. SeenOnes' \subseteq SeenOnes /\ \A g \in Handlers : RequestOK(g)'
    BY <1>0, <1>1, LeaveOK
  <1>3. \A g \in Handlers \ S : pc'[g] = pc[g] /\ worker'[g] = worker[g]
    BY <1>1 DEF Leave
  <1>4. TypeOK'
    <2>1. None(Ages) \in [Ages -> Nat] /\ None(Recent) \in [Recent -> Nat]
      BY DEF None
    <2>2. listed' \in [Workers -> [Ages -> Nat]] /\ admitted' \in [Workers -> [Recent -> Nat]]
      BY <1>0, <2>1 DEF TypeOK, Crash
    <2>3. orphaned' \in BOOLEAN
      BY <1>0, <1>1 DEF TypeOK
    <2>4. holder' \in [Workers -> Handlers \cup {NULL}]
      BY <1>0, <1>1 DEF TypeOK
    <2> HIDE DEF S
    <2>5. S \in SUBSET Handlers
      BY DEF S
    <2> QED
      BY <1>0, <1>1, <2>2, <2>3, <2>4, <2>5, LeaveType DEF TypeOK
  <1>5. CountOK'
    BY <1>0, <1>1, <1>2, CountStays
  <1>6. CounterExpires'
    BY <1>0, <1>1, <1>3 DEF CounterExpires
  <1>7. \A v \in Workers : LockOK(v)'
    <2> SUFFICES ASSUME NEW v \in Workers, holder'[v] # NULL
                 PROVE  worker'[holder'[v]] = v /\ pc'[holder'[v]] \in {"counting", "expiring"}
      BY DEF LockOK
    <2>1. v # w /\ holder'[v] = holder[v] /\ holder[v] \in Handlers
      BY <1>0, <1>1 DEF TypeOK
    <2>2. worker[holder[v]] = v /\ pc[holder[v]] \in {"counting", "expiring"}
      BY <2>1 DEF RateInv, LockOK
    <2>3. holder[v] \in Handlers \ S
      BY <2>1, <2>2
    <2> QED
      BY <1>3, <2>1, <2>2, <2>3
  <1>8. \A v \in Workers : ListOK(v)'
    <2>1. listed'[w] = None(Ages) /\ admitted'[w] = None(Recent)
      BY <1>0 DEF Crash, TypeOK
    <2>2. ListOK(w)'
      BY <2>1, NoListOK DEF ListOK
    <2>3. ASSUME NEW v \in Workers \ {w} PROVE ListOK(v)'
      <3>1. listed'[v] = listed[v] /\ admitted'[v] = admitted[v] /\ ListOK(v)
        BY <1>0 DEF Crash, TypeOK, RateInv
      <3> QED
        BY <3>1 DEF ListOK
    <2> QED
      BY <2>2, <2>3
  <1> QED
    BY <1>2, <1>4, <1>5, <1>6, <1>7, <1>8 DEF RateInv

------------------------------------------------------------------------------
(* Theorems                                                                *)

\* Nothing is listed or counted before the first request.
LEMMA InitRate == Init => RateInv
  <1> SUFFICES ASSUME Init PROVE RateInv
    OBVIOUS
  <1>1. TypeOK
    <2>1. 0 \in 0..MaxWait /\ 0 \in 0..Window
      BY WindowType
    <2>2. None(Ages) \in [Ages -> Nat] /\ None(Recent) \in [Recent -> Nat]
      BY DEF None
    <2> QED
      BY <2>1, <2>2 DEF Init, TypeOK, Places
  <1>2. CountOK
    <2>1. 0 - 0 + Cardinality(SeenOnes) <= MaxLimit - 1 + Cardinality(Handlers)
      BY LimitsAssumption, SeenFinite
    <2> QED
      BY <2>1 DEF Init, CountOK
  <1>3. \A w \in Workers : ListOK(w)
    BY NoListOK DEF Init, ListOK
  <1> QED
    BY <1>1, <1>2, <1>3 DEF Init, RateInv, CounterExpires, RequestOK, LockOK

\* Every step keeps RateInv.
LEMMA StepKeeps == RateInv /\ [Next]_vars => RateInv'
  <1> SUFFICES ASSUME RateInv, [Next]_vars PROVE RateInv'
    OBVIOUS
  <1>1. ASSUME NEW h \in Handlers, Arrive(h) \/ Step(h) \/ Look(h) \/ Failure(h)
        PROVE  RateInv'
    BY <1>1, ArriveKeeps, AskKeeps, RefuseKeeps, CountKeeps, ExpireKeeps, LookKeeps,
       AskFailsKeeps, CountFailsKeeps DEF Step, Failure
  <1>2. ASSUME NEW w \in Workers, Crash(w) PROVE RateInv'
    BY <1>2, CrashKeeps
  <1>3. CASE Evict
    BY <1>3, EvictKeeps
  <1>4. CASE Tick
    BY <1>4, TickKeeps
  <1>5. CASE UNCHANGED vars
    BY <1>5 DEF vars, memory, redis, request, RateInv, TypeOK, CountOK, SeenOnes,
                CounterExpires, RequestOK, LockOK, ListOK
  <1> QED
    BY <1>1, <1>2, <1>3, <1>4, <1>5 DEF Next

\* RateInv holds in every reachable state: among other things, no answer and no
\* death leaves a process's lock taken.
THEOREM RateInductive == Spec => []RateInv
  BY InitRate, StepKeeps, PTL DEF Spec

\* The state is well typed.
THEOREM RateTypeCorrect == Spec => []TypeOK
  <1>1. RateInv => TypeOK
    BY DEF RateInv
  <1> QED
    BY <1>1, RateInductive, PTL

\* The counter passes the limit by no more than the requests in progress, and
\* those that Redis did not tell of it.
THEOREM CounterBoundedAlways == Spec => []CounterBounded
  <1>1. RateInv => CounterBounded
    <2> SUFFICES ASSUME RateInv PROVE CounterBounded
      OBVIOUS
    <2>1. count \in Nat /\ blind \in Nat /\ MaxLimit \in Nat
      BY LimitsAssumption DEF RateInv, TypeOK
    <2>2. count - blind + Cardinality(SeenOnes) <= MaxLimit - 1 + Cardinality(Handlers)
      BY DEF RateInv, CountOK
    <2>3. count <= MaxLimit - 1 + Cardinality(Handlers) + blind
      BY <2>1, <2>2, SeenFinite
    <2> QED
      BY <2>3 DEF CounterBounded
  <1> QED
    BY <1>1, RateInductive, PTL

\* A counter without a lifetime is about to get one, or its EXPIRE failed.
THEOREM CounterExpiresAlways == Spec => []CounterExpires
  <1>1. RateInv => CounterExpires
    BY DEF RateInv
  <1> QED
    BY <1>1, RateInductive, PTL

\* No process lets more than the largest limit through in a window, less the wait by
\* which a time stamp can be old: whatever its requests waited for and whichever limits
\* they have, those that are recent are all still listed, and the list is no longer.
THEOREM WorkerBoundAlways == Spec => []WorkerBound
  <1>1. RateInv => WorkerBound
    <2> SUFFICES ASSUME RateInv, NEW w \in Workers
                 PROVE  Total(admitted[w], Recent) <= MaxLimit
      BY DEF WorkerBound
    <2> DEFINE n == Window - MaxWait - 1
    <2>1. /\ n \in Recent /\ Recent = 0..n /\ MaxLimit \in Nat
          /\ 0..(n + MaxWait) \in SUBSET Ages /\ IsFiniteSet(Ages) /\ IsFiniteSet(Recent)
      BY TimesAssumption, LimitsAssumption, SpansFinite DEF Recent, Ages
    <2>2. listed[w] \in [Ages -> Nat] /\ admitted[w] \in [Recent -> Nat] /\ ListOK(w)
      BY DEF RateInv, TypeOK
    <2> HIDE DEF n
    <2>3. /\ Total(listed[w], 0..(n + MaxWait)) <= Total(listed[w], Ages)
          /\ Total(listed[w], 0..(n + MaxWait)) \in Nat /\ Total(listed[w], Ages) \in Nat
      BY <2>1, <2>2, TotalWithin
    <2>4. /\ Total(admitted[w], Recent) <= Total(listed[w], 0..(n + MaxWait))
          /\ Total(listed[w], Ages) <= MaxLimit
      BY <2>1, <2>2 DEF ListOK
    <2>5. Total(admitted[w], Recent) \in Nat
      BY <2>1, <2>2, TotalWithin
    <2> QED
      BY <2>1, <2>3, <2>4, <2>5
  <1> QED
    BY <1>1, RateInductive, PTL
==============================================================================
