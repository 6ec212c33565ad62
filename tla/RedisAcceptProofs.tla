-------------------------- MODULE RedisAcceptProofs ---------------------------
(***************************************************************************)
(* Theorems about RedisAccept, for any keys and numbers of looks, requests *)
(* and syncs, and any finite number of requests at once.                   *)
(***************************************************************************)
EXTENDS RedisAccept, FiniteSetTheorems, TLAPS

hashVars == <<hash, syncing, winner, resynced, orphaned>>
lockVars == <<lock, pc, key, excuses>>

\* What the invariant says of the hash, of the locks and of the requests.
HashInv == HashOK /\ TakerWasTold /\ HashEnds
LocksInv == \A k \in Keys : LockOK(k)
RequestsInv == \A h \in Handlers : RequestOK(h)

------------------------------------------------------------------------------
(* Lemmas about the helpers                                                *)

\* The invariant, sorted by what a step can disturb.
LEMMA InvParts == RedisInv <=> TypeOK /\ HashInv /\ LocksInv /\ RequestsInv
  BY DEF RedisInv, HashInv, LocksInv, RequestsInv

\* The same of the invariant after a step.
LEMMA InvPartsNext == RedisInv' <=> TypeOK' /\ HashInv' /\ LocksInv' /\ RequestsInv'
  BY DEF RedisInv, HashInv, LocksInv, RequestsInv

\* The requests of a key can be counted.
LEMMA InProgressFinite ==
  ASSUME NEW k \in Keys
  PROVE  /\ IsFiniteSet(InProgress(k)) /\ IsFiniteSet(InProgress(k)')
         /\ \A m : IsFiniteSet(InProgress(k) \ {m}) /\ IsFiniteSet(InProgress(k)' \ {m})
  <1>1. InProgress(k) \in SUBSET Handlers /\ InProgress(k)' \in SUBSET Handlers
    BY DEF InProgress
  <1> QED
    BY <1>1, SetsAssumption, FS_Subset

\* What the hash is made of stays as it is.
LEMMA HashSame ==
  ASSUME HashInv, UNCHANGED hashVars
  PROVE  HashInv'
  BY DEF HashInv, HashOK, TakerWasTold, HashEnds, hashVars, hash

\* Fewer requests without the lock are excused by no fewer excuses.
LEMMA LockFewer ==
  ASSUME TypeOK, LocksInv, NEW k \in Keys,
         InProgress(k)' \ {lock'[k]} \subseteq InProgress(k) \ {lock[k]},
         excuses'[k] = excuses[k]
  PROVE  LockOK(k)'
  <1>1. Cardinality(InProgress(k) \ {lock[k]}) <= excuses[k]
    BY DEF LocksInv, LockOK
  <1>2. /\ Cardinality(InProgress(k)' \ {lock'[k]}) <= Cardinality(InProgress(k) \ {lock[k]})
        /\ Cardinality(InProgress(k)' \ {lock'[k]}) \in Nat
        /\ Cardinality(InProgress(k) \ {lock[k]}) \in Nat
    BY InProgressFinite, FS_Subset, FS_CardinalityType
  <1>3. excuses[k] \in Nat
    BY DEF TypeOK
  <1> QED
    BY <1>1, <1>2, <1>3 DEF LockOK

\* A step that no request takes keeps what is said of the requests.
LEMMA RequestsSame ==
  ASSUME RequestsInv, UNCHANGED request
  PROVE  RequestsInv'
  BY DEF RequestsInv, RequestOK, request

\* One request moves on, and the others stay where they are.
LEMMA RequestsMove ==
  ASSUME RequestsInv, NEW h \in Handlers, RequestOK(h)',
         \A g \in Handlers \ {h} : pc'[g] = pc[g] /\ key'[g] = key[g] /\ polls'[g] = polls[g]
  PROVE  RequestsInv'
  BY DEF RequestsInv, RequestOK

\* A step that no lock or request takes keeps what is said of the locks.
LEMMA LocksSame ==
  ASSUME TypeOK, LocksInv, UNCHANGED lockVars
  PROVE  LocksInv'
  BY LockFewer DEF LocksInv, InProgress, lockVars

\* A request moves on, and is in progress only if it was.
LEMMA LocksMove ==
  ASSUME TypeOK, LocksInv, NEW h \in Handlers, UNCHANGED <<lock, excuses>>,
         \A g \in Handlers \ {h} : pc'[g] = pc[g] /\ key'[g] = key[g],
         pc'[h] \notin Processing \/ (pc[h] \in Processing /\ key'[h] = key[h])
  PROVE  LocksInv'
  <1>1. ASSUME NEW k \in Keys
        PROVE  LockOK(k)'
    <2>1. InProgress(k)' \subseteq InProgress(k)
      BY DEF InProgress, Processing
    <2> QED
      BY <2>1, LockFewer
  <1> QED
    BY <1>1 DEF LocksInv

\* One more request without the lock is one more excuse.
LEMMA LockOneMore ==
  ASSUME TypeOK, LocksInv, NEW k \in Keys, NEW g,
         InProgress(k)' \ {lock'[k]} \subseteq (InProgress(k) \ {lock[k]}) \cup {g},
         excuses'[k] = excuses[k] + 1
  PROVE  LockOK(k)'
  <1> DEFINE S == InProgress(k) \ {lock[k]}
  <1> DEFINE T == InProgress(k)' \ {lock'[k]}
  <1>1. IsFiniteSet(S) /\ IsFiniteSet(S \cup {g}) /\ T \subseteq S \cup {g}
    BY InProgressFinite, FS_AddElement
  <1>2. Cardinality(S \cup {g}) <= Cardinality(S) + 1 /\ Cardinality(S) \in Nat
    BY <1>1, FS_AddElement, FS_CardinalityType
  <1>3. Cardinality(T) <= Cardinality(S \cup {g})
        /\ Cardinality(T) \in Nat /\ Cardinality(S \cup {g}) \in Nat
    BY <1>1, FS_Subset, FS_CardinalityType
  <1>4. Cardinality(S) <= excuses[k] /\ excuses[k] \in Nat
    BY DEF LocksInv, LockOK, TypeOK
  <1>5. Cardinality(T) <= excuses'[k]
    BY <1>2, <1>3, <1>4
  <1> QED
    BY <1>5 DEF LockOK

\* The lock of a key goes while its requests stay, or one that is not in progress ends.
LEMMA DropOK ==
  ASSUME TypeOK, LocksInv, NEW k \in Keys, Drop(k),
         \A j \in Keys : InProgress(j)' = InProgress(j)
  PROVE  LocksInv' /\ lock' \in [Keys -> Handlers \cup {NULL, Nobody}]
         /\ excuses' \in [Keys -> Nat]
  <1>1. lock' = [lock EXCEPT ![k] = NULL]
    BY DEF Drop
  <1>2. lock' \in [Keys -> Handlers \cup {NULL, Nobody}]
    BY <1>1 DEF TypeOK
  <1>3. excuses' \in [Keys -> Nat] /\ \A j \in Keys \ {k} : excuses'[j] = excuses[j]
    BY DEF Drop, TypeOK
  <1>4. ASSUME NEW j \in Keys \ {k}
        PROVE  LockOK(j)'
    <2>1. lock'[j] = lock[j]
      BY <1>1 DEF TypeOK
    <2> QED
      BY <1>3, <2>1, LockFewer
  <1>5. LockOK(k)'
    <2>1. CASE Exposed(k)
      <3>1. excuses'[k] = excuses[k] + 1
        BY <2>1 DEF Drop, TypeOK
      <3>2. InProgress(k)' \ {lock'[k]} \subseteq (InProgress(k) \ {lock[k]}) \cup {lock[k]}
        OBVIOUS
      <3> QED
        BY <3>1, <3>2, LockOneMore
    <2>2. CASE ~Exposed(k)
      <3>1. excuses'[k] = excuses[k]
        BY <2>2 DEF Drop
      <3>2. lock[k] \notin InProgress(k)
        BY <2>2, SetsAssumption DEF Exposed, InProgress
      <3>3. InProgress(k)' \ {lock'[k]} \subseteq InProgress(k) \ {lock[k]}
        BY <3>2
      <3> QED
        BY <3>1, <3>3, LockFewer
    <2> QED
      BY <2>1, <2>2
  <1> QED
    BY <1>2, <1>3, <1>4, <1>5 DEF LocksInv

\* A request is over, and no request has the lock that it had.
LEMMA AbandonOK ==
  ASSUME TypeOK, LocksInv, NEW h \in Handlers, Abandon(h), UNCHANGED excuses,
         \A j \in Keys : InProgress(j)' = InProgress(j) \ {h}
  PROVE  LocksInv' /\ lock' \in [Keys -> Handlers \cup {NULL, Nobody}]
  <1>1. lock' = [j \in Keys |-> IF lock[j] = h THEN Nobody ELSE lock[j]]
    BY DEF Abandon
  <1>2. lock' \in [Keys -> Handlers \cup {NULL, Nobody}]
    BY <1>1 DEF TypeOK
  <1>3. ASSUME NEW j \in Keys
        PROVE  LockOK(j)'
    <2>1. InProgress(j)' \ {lock'[j]} \subseteq InProgress(j) \ {lock[j]}
      BY <1>1
    <2> QED
      BY <2>1, LockFewer
  <1> QED
    BY <1>2, <1>3 DEF LocksInv

\* The end of a request.
LEMMA LeaveOK ==
  ASSUME TypeOK, NEW h \in Handlers, Leave(h)
  PROVE  /\ pc' \in [Handlers -> Places] /\ key' \in [Handlers -> Keys \cup {NULL}]
         /\ polls' \in [Handlers -> 0..Polls]
         /\ pc'[h] = "idle" /\ RequestOK(h)'
         /\ \A g \in Handlers \ {h} : pc'[g] = pc[g] /\ key'[g] = key[g] /\ polls'[g] = polls[g]
         /\ \A j \in Keys : InProgress(j)' = InProgress(j) \ {h}
  <1>1. 0 \in 0..Polls
    BY BoundsAssumption
  <1>2. polls' \in [Handlers -> 0..Polls]
    BY <1>1 DEF Leave, TypeOK
  <1>3. /\ pc' \in [Handlers -> Places] /\ key' \in [Handlers -> Keys \cup {NULL}]
        /\ pc'[h] = "idle" /\ polls'[h] = 0
        /\ \A g \in Handlers \ {h} : pc'[g] = pc[g] /\ key'[g] = key[g] /\ polls'[g] = polls[g]
    BY DEF Leave, TypeOK, Places
  <1>4. \A j \in Keys : InProgress(j)' = InProgress(j) \ {h}
    BY <1>3 DEF InProgress, Processing
  <1> QED
    BY <1>2, <1>3, <1>4 DEF RequestOK

------------------------------------------------------------------------------
(* The hash                                                                *)

\* A hash that is written again is open, and may have a taker only then.
LEMMA SyncOK ==
  ASSUME RedisInv, Sync
  PROVE  RedisInv'
  <1>1. TypeOK /\ HashInv /\ LocksInv /\ RequestsInv
    BY InvParts
  <1>2. TypeOK'
    BY <1>1 DEF TypeOK, Sync, request
  <1>3. HashInv'
    BY <1>1 DEF HashInv, HashOK, TakerWasTold, HashEnds, Sync
  <1>4. LocksInv' /\ RequestsInv'
    BY <1>1, LocksSame, RequestsSame DEF Sync, lockVars, request
  <1> QED
    BY <1>2, <1>3, <1>4, InvPartsNext

\* Its lifetime comes with the second call, or the sync ended between the two.
LEMMA SyncLifetimeOK ==
  ASSUME RedisInv, SyncLifetime
  PROVE  RedisInv'
  <1>1. TypeOK /\ HashInv /\ LocksInv /\ RequestsInv
    BY InvParts
  <1>2. TypeOK'
    BY <1>1 DEF TypeOK, SyncLifetime, request, bounds
  <1>3. HashInv'
    BY <1>1 DEF HashInv, HashOK, TakerWasTold, HashEnds, SyncLifetime
  <1>4. LocksInv' /\ RequestsInv'
    BY <1>1, LocksSame, RequestsSame DEF SyncLifetime, lockVars, request
  <1> QED
    BY <1>2, <1>3, <1>4, InvPartsNext

\* A hash that is gone has neither taker nor winner.
LEMMA HashExpiresOK ==
  ASSUME RedisInv, HashExpires
  PROVE  RedisInv'
  <1>1. TypeOK /\ HashInv /\ LocksInv /\ RequestsInv
    BY InvParts
  <1>2. TypeOK'
    BY <1>1 DEF TypeOK, HashExpires, request, bounds
  <1>3. HashInv'
    BY <1>1 DEF HashInv, HashOK, TakerWasTold, HashEnds, HashExpires
  <1>4. LocksInv' /\ RequestsInv'
    BY <1>1, LocksSame, RequestsSame DEF HashExpires, lockVars, request
  <1> QED
    BY <1>2, <1>3, <1>4, InvPartsNext

------------------------------------------------------------------------------
(* The requests                                                            *)

\* The first request of a key has its lock.
LEMMA ArriveOK ==
  ASSUME RedisInv, NEW h \in Handlers, Arrive(h)
  PROVE  RedisInv'
  <1>1. TypeOK /\ HashInv /\ LocksInv /\ RequestsInv
    BY InvParts
  <1>2. PICK k \in Keys :
          /\ key' = [key EXCEPT ![h] = k]
          /\ lock' = IF lock[k] = NULL THEN [lock EXCEPT ![k] = h] ELSE lock
          /\ pc' = [pc EXCEPT ![h] = IF lock[k] = NULL THEN "processing" ELSE "waiting"]
    BY DEF Arrive
  <1>3. TypeOK'
    BY <1>1, <1>2 DEF TypeOK, Arrive, Places, hash
  <1>4. HashInv'
    BY <1>1, HashSame DEF Arrive, hashVars
  <1>5. LocksInv'
    <2>1. CASE lock[k] # NULL
      BY <1>1, <1>2, <2>1, LocksMove DEF TypeOK, Arrive, Processing
    <2>2. CASE lock[k] = NULL
      <3>1. ASSUME NEW j \in Keys
            PROVE  LockOK(j)'
        <4>1. h \notin InProgress(j) /\ excuses'[j] = excuses[j]
          BY DEF Arrive, InProgress, Processing
        <4>2. InProgress(j)' \subseteq InProgress(j) \cup {h}
          BY <1>1, <1>2 DEF TypeOK, InProgress
        <4>3. CASE j = k
          <5>1. lock'[j] = h /\ lock[j] \notin InProgress(j)
            BY <1>1, <1>2, <2>2, <4>3, SetsAssumption DEF TypeOK, InProgress
          <5> QED
            BY <1>1, <4>1, <4>2, <5>1, LockFewer
        <4>4. CASE j # k
          <5>1. lock'[j] = lock[j] /\ InProgress(j)' \subseteq InProgress(j)
            BY <1>1, <1>2, <2>2, <4>1, <4>2, <4>4 DEF TypeOK, InProgress
          <5> QED
            BY <1>1, <4>1, <5>1, LockFewer
        <4> QED
          BY <4>3, <4>4
      <3> QED
        BY <3>1 DEF LocksInv
    <2> QED
      BY <2>1, <2>2
  <1>6. RequestsInv'
    <2>1. polls[h] = 0 /\ polls' = polls /\ 0 < Polls
      BY <1>1, BoundsAssumption DEF RequestsInv, RequestOK, Arrive
    <2>2. key'[h] = k /\ pc'[h] \in {"processing", "waiting"}
      BY <1>1, <1>2 DEF TypeOK
    <2>3. RequestOK(h)'
      BY <2>1, <2>2 DEF RequestOK
    <2> QED
      BY <1>1, <1>2, <2>1, <2>3, RequestsMove DEF TypeOK
  <1> QED
    BY <1>3, <1>4, <1>5, <1>6, InvPartsNext

\* A request that has looked often enough ends without having been processed.
LEMMA ConflictOK ==
  ASSUME RedisInv, NEW h \in Handlers, Conflict(h)
  PROVE  RedisInv'
  <1>1. TypeOK /\ HashInv /\ LocksInv /\ RequestsInv /\ Leave(h)
    BY InvParts DEF Conflict
  <1>2. TypeOK'
    BY <1>1, LeaveOK DEF TypeOK, Conflict, hash, bounds
  <1>3. HashInv'
    BY <1>1, HashSame DEF Conflict, hashVars
  <1>4. LocksInv'
    BY <1>1, LeaveOK, LocksMove DEF Conflict, Processing
  <1>5. RequestsInv'
    BY <1>1, LeaveOK, RequestsMove
  <1> QED
    BY <1>2, <1>3, <1>4, <1>5, InvPartsNext

\* A request that gives up waiting is processed without the lock, and is an excuse.
LEMMA PollOK ==
  ASSUME RedisInv, NEW h \in Handlers, Poll(h)
  PROVE  RedisInv'
  <1>1. TypeOK /\ HashInv /\ LocksInv /\ RequestsInv
    BY InvParts
  <1>2. /\ key[h] \in Keys /\ key' = key /\ lock' = lock /\ pc[h] = "waiting"
        /\ polls[h] \in Nat /\ polls[h] < Polls /\ Polls \in Nat
        /\ polls' = [polls EXCEPT ![h] = @ + 1]
    BY <1>1, BoundsAssumption DEF TypeOK, RequestsInv, RequestOK, Poll
  <1>3. polls[h] + 1 \in 0..Polls /\ polls'[h] = polls[h] + 1
    BY <1>1, <1>2 DEF TypeOK
  <1>4. polls' \in [Handlers -> 0..Polls]
    BY <1>1, <1>2, <1>3 DEF TypeOK
  <1>5. HashInv'
    BY <1>1, HashSame DEF Poll, hashVars
  <1>6. CASE polls[h] + 1 = Polls
    <2>1. /\ pc' = [pc EXCEPT ![h] = "processing"]
          /\ excuses' = [excuses EXCEPT ![key[h]] = @ + 1]
      BY <1>6 DEF Poll
    <2>2. pc' \in [Handlers -> Places] /\ excuses' \in [Keys -> Nat]
      BY <1>1, <1>2, <2>1 DEF TypeOK, Places
    <2>3. TypeOK'
      BY <1>1, <1>2, <1>4, <2>2 DEF TypeOK, Poll, hash, bounds
    <2>4. ASSUME NEW k \in Keys
          PROVE  LockOK(k)'
      <3>1. CASE k = key[h]
        <4>1. InProgress(k)' \ {lock'[k]} \subseteq (InProgress(k) \ {lock[k]}) \cup {h}
          BY <1>1, <1>2, <2>1 DEF TypeOK, InProgress
        <4>2. excuses'[k] = excuses[k] + 1
          BY <1>1, <2>1, <3>1 DEF TypeOK
        <4> QED
          BY <1>1, <4>1, <4>2, LockOneMore
      <3>2. CASE k # key[h]
        <4>1. InProgress(k)' \subseteq InProgress(k) /\ excuses'[k] = excuses[k]
          BY <1>1, <1>2, <2>1, <3>2 DEF TypeOK, InProgress
        <4> QED
          BY <1>1, <1>2, <4>1, LockFewer
      <3> QED
        BY <3>1, <3>2
    <2>5. RequestOK(h)'
      BY <1>1, <1>2, <2>1 DEF TypeOK, RequestOK
    <2>6. RequestsInv'
      BY <1>1, <1>2, <2>1, <2>5, RequestsMove DEF TypeOK
    <2> QED
      BY <1>5, <2>3, <2>4, <2>6, InvPartsNext DEF LocksInv
  <1>7. CASE polls[h] + 1 # Polls
    <2>1. UNCHANGED <<pc, excuses>>
      BY <1>7 DEF Poll
    <2>2. TypeOK'
      BY <1>1, <1>2, <1>4, <2>1 DEF TypeOK, Poll, hash, bounds
    <2>3. LocksInv'
      BY <1>1, <1>2, <2>1, LocksSame DEF lockVars
    <2>4. RequestOK(h)'
      BY <1>2, <1>3, <1>7, <2>1 DEF RequestOK
    <2>5. RequestsInv'
      BY <1>1, <1>2, <2>1, <2>4, RequestsMove DEF TypeOK
    <2> QED
      BY <1>5, <2>2, <2>3, <2>5, InvPartsNext
  <1> QED
    BY <1>6, <1>7

\* The script takes an open order, and answers SUCCESS if nobody took it before.
LEMMA ScriptOK ==
  ASSUME TypeOK, HashInv, NEW k \in Keys, Script(k) \/ UNCHANGED <<status, taker, winner>>,
         UNCHANGED <<lasting, syncing, resynced, orphaned>>
  PROVE  /\ HashInv' /\ status' \in {"absent", "open", "accepted"}
         /\ taker' \in Keys \cup {NULL} /\ winner' \in Keys \cup {NULL}
         /\ winner # NULL => winner' = winner
  BY SetsAssumption
     DEF TypeOK, HashInv, HashOK, TakerWasTold, HashEnds, Script

\* The operation runs under the lock, and a winner stays the winner.
LEMMA ProcessOK ==
  ASSUME RedisInv, NEW h \in Handlers, Process(h)
  PROVE  RedisInv' /\ (winner # NULL => winner' = winner)
  <1>1. TypeOK /\ HashInv /\ LocksInv /\ RequestsInv
    BY InvParts
  <1>2. key[h] \in Keys
    BY <1>1 DEF RequestsInv, RequestOK, Process
  <1>3. /\ HashInv' /\ status' \in {"absent", "open", "accepted"}
        /\ taker' \in Keys \cup {NULL} /\ winner' \in Keys \cup {NULL}
        /\ winner # NULL => winner' = winner
    BY <1>1, <1>2, ScriptOK DEF Process
  <1>4. pc' \in [Handlers -> Places] /\ pc'[h] = "saving"
    BY <1>1 DEF TypeOK, Process, Places
  <1>5. TypeOK'
    BY <1>1, <1>3, <1>4 DEF TypeOK, Process, bounds
  <1>6. LocksInv'
    BY <1>1, LocksMove DEF TypeOK, Process, Processing
  <1>7. RequestOK(h)'
    BY <1>1, <1>2, <1>4 DEF RequestOK, Process
  <1>8. RequestsInv'
    BY <1>1, <1>7, RequestsMove DEF TypeOK, Process
  <1> QED
    BY <1>3, <1>5, <1>6, <1>8, InvPartsNext

\* Neither an exception nor the saved result is about the lock.
LEMMA SaveOK ==
  ASSUME RedisInv, NEW h \in Handlers, ProcessFails(h) \/ Save(h)
  PROVE  RedisInv'
  <1>1. TypeOK /\ HashInv /\ LocksInv /\ RequestsInv
    BY InvParts
  <1>2. /\ key[h] \in Keys /\ pc'[h] = "releasing" /\ pc' \in [Handlers -> Places]
        /\ UNCHANGED <<key, polls, lock, excuses>>
        /\ \A g \in Handlers \ {h} : pc'[g] = pc[g]
    BY <1>1 DEF TypeOK, RequestsInv, RequestOK, ProcessFails, Save, Places
  <1>3. saved' \subseteq Keys
    BY <1>1, <1>2 DEF TypeOK, ProcessFails, Save
  <1>4. TypeOK'
    BY <1>1, <1>2, <1>3 DEF TypeOK, ProcessFails, Save, hash, bounds
  <1>5. HashInv'
    BY <1>1, HashSame DEF ProcessFails, Save, hashVars
  <1>6. LocksInv'
    BY <1>1, <1>2, LocksMove DEF Processing
  <1>7. RequestOK(h)'
    BY <1>2 DEF RequestOK
  <1>8. RequestsInv'
    BY <1>1, <1>2, <1>7, RequestsMove
  <1> QED
    BY <1>4, <1>5, <1>6, <1>8, InvPartsNext

\* A request that is over frees the lock of its key, whoever has it.
LEMMA ReleaseOK ==
  ASSUME RedisInv, NEW h \in Handlers, Release(h)
  PROVE  RedisInv'
  <1>1. TypeOK /\ HashInv /\ LocksInv /\ RequestsInv /\ Leave(h) /\ pc[h] = "releasing"
    BY InvParts DEF Release
  <1>2. key[h] \in Keys
    BY <1>1 DEF RequestsInv, RequestOK
  <1>3. \A j \in Keys : h \notin InProgress(j)
    BY <1>1 DEF InProgress, Processing
  <1>4. \A j \in Keys : InProgress(j)' = InProgress(j)
    <2>1. \A j \in Keys : InProgress(j)' = InProgress(j) \ {h}
      BY <1>1, LeaveOK
    <2> QED
      BY <1>3, <2>1
  <1>5. /\ LocksInv' /\ lock' \in [Keys -> Handlers \cup {NULL, Nobody}]
        /\ excuses' \in [Keys -> Nat]
    <2>1. CASE Drop(key[h])
      BY <1>1, <1>2, <1>4, <2>1, DropOK
    <2>2. CASE Abandon(h) /\ UNCHANGED excuses
      BY <1>1, <1>3, <1>4, <2>2, AbandonOK DEF TypeOK
    <2> QED
      BY <2>1, <2>2 DEF Release
  <1>6. TypeOK'
    BY <1>1, <1>5, LeaveOK DEF TypeOK, Release, hash, bounds
  <1>7. HashInv'
    BY <1>1, HashSame DEF Release, hashVars
  <1>8. RequestsInv'
    BY <1>1, LeaveOK, RequestsMove
  <1> QED
    BY <1>5, <1>6, <1>7, <1>8, InvPartsNext

\* A lock that expires exposes whoever has it.
LEMMA LockExpiresOK ==
  ASSUME RedisInv, NEW k \in Keys, LockExpires(k)
  PROVE  RedisInv'
  <1>1. TypeOK /\ HashInv /\ LocksInv /\ RequestsInv
    BY InvParts
  <1>2. \A j \in Keys : InProgress(j)' = InProgress(j)
    BY DEF LockExpires, InProgress, request
  <1>3. /\ LocksInv' /\ lock' \in [Keys -> Handlers \cup {NULL, Nobody}]
        /\ excuses' \in [Keys -> Nat]
    BY <1>1, <1>2, DropOK DEF LockExpires
  <1>4. TypeOK'
    BY <1>1, <1>3 DEF TypeOK, LockExpires, hash, request, bounds
  <1>5. HashInv' /\ RequestsInv'
    BY <1>1, HashSame, RequestsSame DEF LockExpires, hashVars
  <1> QED
    BY <1>3, <1>4, <1>5, InvPartsNext

\* A saved result expires, which nothing here relies on.
LEMMA ResultExpiresOK ==
  ASSUME RedisInv, NEW k \in Keys, ResultExpires(k)
  PROVE  RedisInv'
  <1>1. TypeOK /\ HashInv /\ LocksInv /\ RequestsInv
    BY InvParts
  <1>2. TypeOK'
    BY <1>1 DEF TypeOK, ResultExpires, hash, request, bounds
  <1>3. HashInv' /\ LocksInv' /\ RequestsInv'
    BY <1>1, HashSame, LocksSame, RequestsSame
       DEF ResultExpires, hashVars, lockVars, request
  <1> QED
    BY <1>2, <1>3, InvPartsNext

\* The lock of a request that died is nobody's.
LEMMA CrashOK ==
  ASSUME RedisInv, NEW h \in Handlers, Crash(h)
  PROVE  RedisInv'
  <1>1. /\ TypeOK /\ HashInv /\ LocksInv /\ RequestsInv
        /\ Leave(h) /\ Abandon(h) /\ UNCHANGED excuses
    BY InvParts DEF Crash
  <1>2. LocksInv' /\ lock' \in [Keys -> Handlers \cup {NULL, Nobody}]
    BY <1>1, LeaveOK, AbandonOK
  <1>3. TypeOK'
    BY <1>1, <1>2, LeaveOK DEF TypeOK, Crash, hash, bounds
  <1>4. HashInv'
    BY <1>1, HashSame DEF Crash, hashVars
  <1>5. RequestsInv'
    BY <1>1, LeaveOK, RequestsMove
  <1> QED
    BY <1>2, <1>3, <1>4, <1>5, InvPartsNext

------------------------------------------------------------------------------
(* The theorems                                                            *)

\* The invariant holds before anything is in Redis.
LEMMA InitOK ==
  ASSUME Init
  PROVE  RedisInv
  <1>1. 0 \in 0..Polls
    BY BoundsAssumption
  <1>2. TypeOK
    BY <1>1 DEF Init, TypeOK, Places
  <1>3. HashInv
    BY DEF Init, HashInv, HashOK, TakerWasTold, HashEnds
  <1>4. ASSUME NEW k \in Keys
        PROVE  LockOK(k)
    <2>1. InProgress(k) \ {lock[k]} = {}
      BY DEF Init, InProgress, Processing
    <2>2. excuses[k] = 0
      BY DEF Init
    <2> QED
      BY <2>1, <2>2, FS_EmptySet DEF LockOK
  <1>5. RequestsInv
    BY DEF Init, RequestsInv, RequestOK
  <1> QED
    BY <1>2, <1>3, <1>4, <1>5, InvParts DEF LocksInv

\* Every step keeps what holds between two steps.
LEMMA NextOK ==
  ASSUME RedisInv, [Next]_vars
  PROVE  RedisInv'
  <1>1. ASSUME NEW h \in Handlers, Run(h)
        PROVE  RedisInv'
    BY <1>1, ConflictOK, PollOK, ProcessOK, SaveOK, ReleaseOK DEF Run
  <1>2. CASE UNCHANGED vars
    <2>1. TypeOK /\ HashInv /\ LocksInv /\ RequestsInv
      BY InvParts
    <2>2. TypeOK'
      BY <1>2, <2>1 DEF TypeOK, vars, hash, request, bounds
    <2>3. HashInv' /\ LocksInv' /\ RequestsInv'
      BY <1>2, <2>1, HashSame, LocksSame, RequestsSame
         DEF vars, hashVars, lockVars, request
    <2> QED
      BY <2>2, <2>3, InvPartsNext
  <1> QED
    BY <1>1, <1>2, SyncOK, SyncLifetimeOK, HashExpiresOK, ArriveOK, CrashOK,
       LockExpiresOK, ResultExpiresOK DEF Next

\* What holds between two steps, for the theorems below.
THEOREM RedisInductive == Spec => []RedisInv
  <1>1. Init => RedisInv
    BY InitOK
  <1>2. RedisInv /\ [Next]_vars => RedisInv'
    BY NextOK
  <1> QED
    BY <1>1, <1>2, PTL DEF Spec

\* A hash has a lifetime, or its sync is between HSET and EXPIRE, or ended there
\* (accept_script.py:133-136).
THEOREM HashEndsAlways == Spec => []HashEnds
  <1>1. RedisInv => HashEnds
    BY DEF RedisInv
  <1> QED
    BY <1>1, RedisInductive, PTL

\* Requests of one key overlap only if one gave up waiting, or lost its lock to the
\* expiry or to another's DEL (idempotency.py:75-97).
THEOREM OneAtATimeAlways == Spec => []OneAtATime
  <1>1. ASSUME RedisInv
        PROVE  OneAtATime
    <2> SUFFICES ASSUME NEW k \in Keys
                 PROVE  Cardinality(InProgress(k)) <= 1 + excuses[k]
      BY DEF OneAtATime
    <2> DEFINE S == InProgress(k) \ {lock[k]}
    <2>1. Cardinality(S) <= excuses[k] /\ excuses[k] \in Nat
      BY <1>1 DEF RedisInv, LockOK, TypeOK
    <2>2. IsFiniteSet(InProgress(k)) /\ Cardinality(InProgress(k)) \in Nat
          /\ Cardinality(S) \in Nat
      BY InProgressFinite, FS_CardinalityType
    <2>3. Cardinality(InProgress(k)) <= Cardinality(S) + 1
      <3>1. CASE lock[k] \in InProgress(k)
        <4>1. Cardinality(S) = Cardinality(InProgress(k)) - 1
          BY <2>2, <3>1, FS_RemoveElement
        <4> QED
          BY <2>2, <4>1
      <3>2. CASE lock[k] \notin InProgress(k)
        <4>1. S = InProgress(k)
          BY <3>2
        <4> QED
          BY <2>2, <4>1
      <3> QED
        BY <3>1, <3>2
    <2> QED
      BY <2>1, <2>2, <2>3
  <1> QED
    BY <1>1, RedisInductive, PTL

\* A step that answers SUCCESS to a second cleaner of the same hash does not exist
\* (accept_script.py:12-43).
LEMMA SuccessStep ==
  ASSUME RedisInv, [Next]_vars
  PROVE  [winner # NULL /\ winner' # winner => status' = "absent"]_vars
  <1>1. ASSUME NEW h \in Handlers, Run(h)
        PROVE  winner # NULL => winner' = winner
    BY <1>1, ProcessOK DEF Run, Conflict, Poll, ProcessFails, Save, Release
  <1>2. ASSUME NEW h \in Handlers, Arrive(h) \/ Crash(h)
        PROVE  winner' = winner
    BY <1>2 DEF Arrive, Crash
  <1>3. ASSUME NEW k \in Keys, LockExpires(k) \/ ResultExpires(k)
        PROVE  winner' = winner
    BY <1>3 DEF LockExpires, ResultExpires
  <1>4. Sync \/ SyncLifetime => winner' = winner
    BY DEF Sync, SyncLifetime
  <1>5. HashExpires => status' = "absent"
    BY DEF HashExpires
  <1> QED
    BY <1>1, <1>2, <1>3, <1>4, <1>5 DEF Next, vars

\* The script answers SUCCESS to one cleaner, until the order's hash is gone.
THEOREM SuccessOnceAlways == Spec => SuccessOnce
  <1>1. RedisInv /\ [Next]_vars
          => [winner # NULL /\ winner' # winner => status' = "absent"]_vars
    BY SuccessStep
  <1> QED
    BY <1>1, RedisInductive, PTL DEF Spec, SuccessOnce
==============================================================================
