---------------------------- MODULE OrderTxProofs ----------------------------
(***************************************************************************)
(* Theorems about OrderTx, for every set of orders, cleaners and requests: *)
(* what it keeps true, and that it implements OrderClaim.                  *)
(***************************************************************************)
EXTENDS OrderTx, TLAPS

USE DEF Ask

------------------------------------------------------------------------------
(* Types                                                                   *)

\* An idle handler's request and changes are well typed.
LEMMA NoRequestType == NoRequest \in Request /\ NoChange \in Change
  BY DEF NoRequest, NoChange, Request, Change

\* What the session's helpers leave well typed.
LEMMA ProceedType ==
  ASSUME TypeOK, NEW h \in Handlers, NEW p \in Places, NEW r \in Request,
         NEW d \in Change, Proceed(h, p, r, d)
  PROVE  /\ pc' \in [Handlers -> Places] /\ req' \in [Handlers -> Request]
         /\ chg' \in [Handlers -> Change] /\ reply' \in [Handlers -> Replies]
  BY DEF Proceed, TypeOK

\* The same for an exception.
LEMMA RaiseType ==
  ASSUME TypeOK, NEW h \in Handlers, NEW r \in Request, NEW c \in Replies,
         Raise(h, r, c)
  PROVE  /\ pc' \in [Handlers -> Places] /\ req' \in [Handlers -> Request]
         /\ chg' \in [Handlers -> Change] /\ reply' \in [Handlers -> Replies]
  <1>1. "aborting" \in Places
    BY DEF Places
  <1> QED
    BY <1>1, NoRequestType DEF Raise, TypeOK

\* The same for an answer.
LEMMA AnswerType ==
  ASSUME TypeOK, NEW h \in Handlers, NEW c \in Replies, Answer(h, c)
  PROVE  /\ pc' \in [Handlers -> Places] /\ req' \in [Handlers -> Request]
         /\ chg' \in [Handlers -> Change] /\ reply' \in [Handlers -> Replies]
  <1>1. "replied" \in Places
    BY DEF Places
  <1> QED
    BY <1>1, NoRequestType DEF Answer, TypeOK

\* The same for a handler that is done.
LEMMA ForgetType ==
  ASSUME TypeOK, NEW h \in Handlers, Forget(h)
  PROVE  /\ pc' \in [Handlers -> Places] /\ req' \in [Handlers -> Request]
         /\ chg' \in [Handlers -> Change] /\ reply' \in [Handlers -> Replies]
  <1>1. "idle" \in Places /\ "none" \in Replies
    BY DEF Places, Replies
  <1> QED
    BY <1>1, NoRequestType DEF Forget, TypeOK

\* The end of a transaction leaves the lock tables well typed.
LEMMA ReleaseType ==
  ASSUME TypeOK, NEW h \in Handlers, ReleaseAll(h)
  PROVE  /\ ordLock' \in [Orders -> Handlers \cup {NULL}]
         /\ clLock' \in [Cleaners -> Handlers \cup {NULL}]
         /\ todo' \in [Handlers -> SUBSET Orders]
  BY DEF ReleaseAll, TypeOK

\* A transaction that PostgreSQL aborts leaves everything well typed.
LEMMA AbortType ==
  ASSUME TypeOK, NEW h \in Handlers, Abort(h)
  PROVE  TypeOK'
  <1>1. "error" \in Replies
    BY DEF Replies
  <1> QED
    BY <1>1, AnswerType, ReleaseType DEF Abort, TypeOK

\* An UPDATE of some columns of a row gives a row.
LEMMA ApplyType ==
  ASSUME NEW r \in Row, NEW d \in Change
  PROVE  Apply(r, d) \in Row
  <1> DEFINE st == IF d.status = Keep THEN r.status ELSE d.status
             cl == IF d.cleaner = Keep THEN r.cleaner ELSE d.cleaner
             ve == IF d.version = Keep THEN r.version ELSE d.version
             sl == IF d.slot = Keep THEN r.slot ELSE d.slot
             ph == IF d.photos = Keep THEN r.photos ELSE d.photos
  <1>1. /\ d.status \in Status \cup {Keep} /\ d.cleaner \in Cleaners \cup {NULL, Keep}
        /\ d.version \in Nat \cup {Keep} /\ d.slot \in {NULL, Keep}
        /\ d.photos \in {Keep} \cup SUBSET Photos
    BY DEF Change
  <1>2. /\ r.status \in Status /\ r.cleaner \in Cleaners \cup {NULL} /\ r.version \in Nat
        /\ r.slot \in Slots \cup {NULL} /\ r.photos \in SUBSET Photos
    BY DEF Row
  <1>3. /\ st \in Status /\ cl \in Cleaners \cup {NULL} /\ ve \in Nat
        /\ sl \in Slots \cup {NULL}
    BY <1>1, <1>2
  <1>4. ph \in SUBSET Photos
    BY <1>1, <1>2
  <1>5. Apply(r, d) = [r EXCEPT !.status = st, !.cleaner = cl, !.version = ve,
                                !.slot = sl, !.photos = ph]
    BY DEF Apply
  <1> HIDE DEF st, cl, ve, sl, ph
  <1>6. [r EXCEPT !.status = st, !.cleaner = cl, !.version = ve, !.slot = sl, !.photos = ph]
          \in Row
    BY <1>3, <1>4 DEF Row
  <1> QED
    BY <1>5, <1>6

\* What update_order is about to write is well typed, and the columns it leaves out.
LEMMA PutChangeType ==
  ASSUME NEW o, NEW s \in Statuses \cup {Keep}, NEW c \in Cleaners \cup {NULL, Keep},
         NEW time \in {NULL, Keep}, NEW p \in {{q} : q \in Photos} \cup {Keep},
         NEW other \in BOOLEAN
  PROVE  LET d == PutChange(o, s, c, time, p, other) IN
         /\ d \in Change
         /\ d.jobs = Keep /\ d.version = Keep /\ d.status = Assign(s, row[o].status)
  <1>1. Assign(s, row[o].status) \in Status \cup {Keep}
    BY StatusesAssumption DEF Assign
  <1>2. /\ Assign(c, row[o].cleaner) \in Cleaners \cup {NULL, Keep}
        /\ Assign(time, row[o].slot) \in {NULL, Keep}
    BY DEF Assign
  <1>3. Assign(p, row[o].photos) \in {Keep} \cup SUBSET Photos
    BY DEF Assign
  <1>4. (other \/ s \in {"arrived", "completed"}) \in BOOLEAN
    OBVIOUS
  <1> QED
    BY <1>1, <1>2, <1>3, <1>4 DEF PutChange, Change, NoChange

\* The empty tables have their types.
THEOREM InitType == Init => TypeOK
  BY NoRequestType DEF Init, TypeOK, Places, Replies

\* A step keeps the types: a row that is written is there (the locks).
LEMMA TypeStep == IInv /\ [Next]_vars => TypeOK'
  <1> SUFFICES ASSUME IInv, [Next]_vars PROVE TypeOK'
    OBVIOUS
  <1> USE DEF IInv
  <1> USE NoRequestType
  <1> USE DEF TypeOK
  <1>p. /\ "idle" \in Places /\ "loaded" \in Places /\ "credited" \in Places
        /\ "scanning" \in Places /\ "locked" \in Places /\ "committed" \in Places
        /\ "none" \in Replies /\ "ok" \in Replies /\ "notFound" \in Replies
        /\ "refused" \in Replies /\ "error" \in Replies
    BY DEF Places, Replies
  <1>1. ASSUME NEW h \in Handlers, CreateCheck(h) PROVE TypeOK'
    <2>1. PICK s \in Slots \cup {NULL} :
            \/ Raise(h, Ask("create", NULL, NULL, s), "refused")
            \/ Raise(h, Ask("create", NULL, NULL, s), "error")
            \/ Proceed(h, "loaded", Ask("create", NULL, NULL, s), NoChange)
      BY <1>1 DEF CreateCheck
    <2>2. Ask("create", NULL, NULL, s) \in Request
      BY DEF Request, Endpoints
    <2> QED
      BY <1>1, <1>p, <2>1, <2>2, RaiseType, ProceedType DEF CreateCheck
  <1>2. ASSUME NEW h \in Handlers, CreateCommit(h) PROVE TypeOK'
    <2>1. PICK o \in Orders \ used :
            /\ used' = used \cup {o}
            /\ row' = [row EXCEPT ![o] = [status |-> "open", cleaner |-> NULL, version |-> 0,
                                          slot |-> req[h].slot, photos |-> {}]]
            /\ Proceed(h, "committed", [req[h] EXCEPT !.order = o], NoChange)
      BY <1>2 DEF CreateCommit
    <2>2. [req[h] EXCEPT !.order = o] \in Request
      BY DEF Request
    <2>3. [status |-> "open", cleaner |-> NULL, version |-> 0,
           slot |-> req[h].slot, photos |-> {}] \in Row
      BY DEF Row, Status, Request
    <2> QED
      BY <1>2, <1>p, <2>1, <2>2, <2>3, ProceedType DEF CreateCommit
  <1>3. ASSUME NEW h \in Handlers, AcceptSelect(h) PROVE TypeOK'
    <2>1. PICK o \in Orders, c \in Cleaners :
         LET r == Ask("accept", o, c, NULL) IN
         \/ /\ Raise(h, r, "notFound")
            /\ UNCHANGED ordLock
         \/ /\ row[o] # NULL
            /\ ordLock' = [ordLock EXCEPT ![o] = h]
            /\ \/ Raise(h, r, "refused")
               \/ Proceed(h, "locked", r,
                       [NoChange EXCEPT !.status  = "accepted",
                                        !.cleaner = Assign(c, row[o].cleaner),
                                        !.version = row[o].version + 1])
      BY <1>3 DEF AcceptSelect
    <2>2. Ask("accept", o, c, NULL) \in Request
      BY DEF Request, Endpoints
    <2>3. row[o] # NULL => [NoChange EXCEPT !.status  = "accepted",
                              !.cleaner = Assign(c, row[o].cleaner),
                              !.version = row[o].version + 1] \in Change
      <3>1. row[o] # NULL => row[o].version + 1 \in Nat
        BY DEF Row
      <3>2. "accepted" \in Status /\ Assign(c, row[o].cleaner) \in Cleaners \cup {Keep}
        BY DEF Status, Assign
      <3> QED
        BY <3>1, <3>2 DEF Change, NoChange
    <2>4. ordLock' \in [Orders -> Handlers \cup {NULL}]
      BY <2>1
    <2> QED
      BY <1>3, <1>p, <2>1, <2>2, <2>3, <2>4, RaiseType, ProceedType DEF AcceptSelect
  <1>4. ASSUME NEW h \in Handlers, PutSelect(h) PROVE TypeOK'
    <2>1. PICK o \in Orders, s \in Statuses \cup {Keep}, c \in Cleaners \cup {NULL, Keep},
               time \in {NULL, Keep}, p \in {{q} : q \in Photos} \cup {Keep},
               other \in BOOLEAN :
         LET r == Ask("put", o, NULL, NULL) IN
         \/ Raise(h, r, "notFound")
         \/ Raise(h, r, "error")
         \/ Proceed(h, "loaded", r, PutChange(o, s, c, time, p, other))
      BY ZenonT(30), <1>4 DEF PutSelect
    <2>2. Ask("put", o, NULL, NULL) \in Request
      BY DEF Request, Endpoints
    <2>3. PutChange(o, s, c, time, p, other) \in Change
      BY PutChangeType
    <2> QED
      BY <1>4, <1>p, <2>1, <2>2, <2>3, RaiseType, ProceedType DEF PutSelect
  <1>5. ASSUME NEW h \in Handlers, CancelSelect(h) PROVE TypeOK'
    <2>1. PICK o \in Orders, reason \in BOOLEAN :
         LET r == Ask("cancel", o, NULL, NULL) IN
         \/ Raise(h, r, "notFound")
         \/ Raise(h, r, "refused")
         \/ Proceed(h, "loaded", r,
                 [NoChange EXCEPT !.status = Assign("cancelled", row[o].status),
                                  !.touch  = reason])
      BY <1>5 DEF CancelSelect
    <2>2. Ask("cancel", o, NULL, NULL) \in Request
      BY DEF Request, Endpoints
    <2>3. [NoChange EXCEPT !.status = Assign("cancelled", row[o].status),
                           !.touch  = reason] \in Change
      BY ZenonT(30) DEF Change, NoChange, Assign, Status
    <2> QED
      BY <1>5, <1>p, <2>1, <2>2, <2>3, RaiseType, ProceedType DEF CancelSelect
  <1>6. ASSUME NEW h \in Handlers, UploadSelect(h) PROVE TypeOK'
    <2>1. PICK o \in Orders, p \in Photos :
         LET r == Ask("upload", o, NULL, NULL) IN
         \/ Proceed(h, "committed", r, NoChange)
         \/ row[o] # NULL /\ Proceed(h, "loaded", r,
                 [NoChange EXCEPT !.photos = row[o].photos \cup {p}])
      BY <1>6 DEF UploadSelect
    <2>2. Ask("upload", o, NULL, NULL) \in Request
      BY DEF Request, Endpoints
    <2>3. row[o] # NULL =>
            [NoChange EXCEPT !.photos = row[o].photos \cup {p}] \in Change
      BY DEF Change, NoChange, Row
    <2> QED
      BY <1>6, <1>p, <2>1, <2>2, <2>3, ProceedType DEF UploadSelect
  <1>7. ASSUME NEW h \in Handlers, DeleteSelect(h) PROVE TypeOK'
    <2>1. PICK o \in Orders :
         LET r == Ask("delete", o, NULL, NULL) IN
         Raise(h, r, "notFound") \/ Proceed(h, "loaded", r, NoChange)
      BY <1>7 DEF DeleteSelect
    <2>2. Ask("delete", o, NULL, NULL) \in Request
      BY DEF Request, Endpoints
    <2> QED
      BY <1>7, <1>p, <2>1, <2>2, RaiseType, ProceedType DEF DeleteSelect
  <1>8. ASSUME NEW h \in Handlers, StatusSelect(h) PROVE TypeOK'
    <2>1. PICK o \in Orders, s \in Statuses, c \in Cleaners \cup {NULL} :
         LET r == Ask("status", o, c, NULL)
             credit == s = "completed" /\ c # NULL /\ jobs[c] # NULL
         IN  \/ Raise(h, r, "refused")
             \/ Proceed(h, "loaded", r,
                     [NoChange EXCEPT !.status = s,
                                      !.touch  = TRUE,
                                      !.jobs   = IF credit THEN jobs[c] + 1 ELSE Keep])
      BY <1>8 DEF StatusSelect
    <2>2. Ask("status", o, c, NULL) \in Request
      BY DEF Request, Endpoints
    <2>3. [NoChange EXCEPT !.status = s, !.touch = TRUE,
             !.jobs = IF s = "completed" /\ c # NULL /\ jobs[c] # NULL
                      THEN jobs[c] + 1 ELSE Keep] \in Change
      <3>1. (IF s = "completed" /\ c # NULL /\ jobs[c] # NULL
             THEN jobs[c] + 1 ELSE Keep) \in Nat \cup {Keep}
        OBVIOUS
      <3> QED
        BY ZenonT(30), <3>1, StatusesAssumption DEF Change, NoChange
    <2> QED
      BY <1>8, <1>p, <2>1, <2>2, <2>3, RaiseType, ProceedType DEF StatusSelect
  <1>9. ASSUME NEW h \in Handlers, UnassignSelect(h) PROVE TypeOK'
    <2>1. PICK c \in Cleaners :
         /\ Proceed(h, "scanning", Ask("deleteCleaner", NULL, c, NULL), NoChange)
         /\ todo' = [todo EXCEPT ![h] = {o \in Orders : row[o] # NULL /\ row[o].cleaner = c}]
      BY <1>9 DEF UnassignSelect
    <2>2. Ask("deleteCleaner", NULL, c, NULL) \in Request
      BY DEF Request, Endpoints
    <2> QED
      BY <1>9, <1>p, <2>1, <2>2, ProceedType DEF UnassignSelect
  <1>10. ASSUME NEW h \in Handlers, CommitUnchanged(h) PROVE TypeOK'
    BY <1>10, <1>p, ProceedType DEF CommitUnchanged
  <1>11. ASSUME NEW h \in Handlers, FlushCommit(h) PROVE TypeOK'
    <2>1. CASE Abort(h)
      BY <2>1, AbortType
    <2>2. CASE /\ row' = [row EXCEPT ![req[h].order] = Apply(@, chg[h])]
               /\ ReleaseAll(h)
               /\ Proceed(h, "committed", req[h], NoChange)
               /\ UNCHANGED <<used, jobs>>
      <3>1. req[h].order \in Orders /\ row[req[h].order] \in Row
        <4>1. req[h].kind \in OneOrder \ {"status"} /\ pc[h] = "locked"
          BY <1>11 DEF FlushCommit, OneOrder
        <4>2. req[h].order \in Orders /\ ordLock[req[h].order] = h
          BY <4>1 DEF HandlerOK, RequestOK, WriterOK
        <4> QED
          BY <4>2, NullAssumption DEF OrderLockOK
      <3>2. row' \in [Orders -> Row \cup {NULL}]
        BY <2>2, <3>1, ApplyType
      <3> QED
        BY <1>p, <2>2, <3>2, ReleaseType, ProceedType
    <2> QED
      BY <1>11, <2>1, <2>2 DEF FlushCommit
  <1>12. ASSUME NEW h \in Handlers, DeleteCommit(h) PROVE TypeOK'
    BY <1>12, <1>p, ReleaseType, ProceedType DEF DeleteCommit
  <1>13. ASSUME NEW h \in Handlers, StatusCommit(h) PROVE TypeOK'
    <2>1. ordLock[req[h].order] = h => req[h].order \in Orders /\ row[req[h].order] \in Row
      BY <1>13, NullAssumption DEF StatusCommit, HandlerOK, RequestOK, OrderLockOK, OneOrder
    <2>2. row' \in [Orders -> Row \cup {NULL}]
      BY <1>13, <2>1, ApplyType DEF StatusCommit
    <2>3. jobs' \in [Cleaners -> Nat \cup {NULL}]
      BY <1>13 DEF StatusCommit, Change
    <2>4. [NoChange EXCEPT !.touch = chg[h].touch] \in Change
      BY DEF NoChange, Change
    <2> QED
      BY <1>13, <1>p, <2>2, <2>3, <2>4, ReleaseType, ProceedType DEF StatusCommit
  <1>14. ASSUME NEW h \in Handlers, UnassignDone(h) PROVE TypeOK'
    BY <1>14, <1>p, RaiseType, ProceedType DEF UnassignDone
  <1>15. ASSUME NEW h \in Handlers, Finish(h) PROVE TypeOK'
    BY <1>15, <1>p, AnswerType DEF Finish, StatusAnswer
  <1>16. ASSUME NEW h \in Handlers, Rollback(h) PROVE TypeOK'
    BY <1>16, <1>p, AnswerType, ReleaseType DEF Rollback
  <1>17. ASSUME NEW h \in Handlers, Close(h) PROVE TypeOK'
    BY <1>17, ForgetType DEF Close
  <1>18. ASSUME NEW h \in Handlers, FlushLock(h) PROVE TypeOK'
    <2>1. ordLock' \in [Orders -> Handlers \cup {NULL}]
      BY <1>18 DEF FlushLock
    <2> QED
      BY <1>18, <1>p, <2>1, RaiseType, ProceedType DEF FlushLock
  <1>19. ASSUME NEW h \in Handlers, StatusCredit(h) PROVE TypeOK'
    BY <1>19, <1>p, RaiseType, ProceedType DEF StatusCredit
  <1>20. ASSUME NEW h \in Handlers, StatusLock(h) PROVE TypeOK'
    <2>1. [chg[h] EXCEPT !.status = Keep, !.touch = FALSE] \in Change
      BY DEF Change
    <2> QED
      <3>1. ordLock' \in [Orders -> Handlers \cup {NULL}]
        BY <1>20 DEF StatusLock
      <3> QED
        BY <1>20, <1>p, <2>1, <3>1, ProceedType DEF StatusLock
  <1>21. ASSUME NEW h \in Handlers, UnassignLock(h) PROVE TypeOK'
    BY <1>21 DEF UnassignLock
  <1>22. ASSUME NEW h \in Handlers, CleanerCommit(h) PROVE TypeOK'
    <2>1. CASE Abort(h)
      BY <2>1, AbortType
    <2>2. CASE /\ row' = [o \in Orders |-> IF ordLock[o] = h THEN Unassigned(o) ELSE row[o]]
               /\ jobs' = [jobs EXCEPT ![req[h].cleaner] = NULL]
               /\ ReleaseAll(h)
               /\ Proceed(h, "committed", req[h], NoChange)
               /\ UNCHANGED used
      <3>1. \A o \in Orders : ordLock[o] = h => row[o] \in Row
        BY NullAssumption DEF OrderLockOK
      <3>2. \A o \in Orders : ordLock[o] = h => Unassigned(o) \in Row
        BY <3>1 DEF Unassigned, Row
      <3> QED
        BY <1>p, <2>2, <3>2, ReleaseType, ProceedType
    <2> QED
      BY <1>22, <2>1, <2>2 DEF CleanerCommit
  <1>23. ASSUME NEW h \in Handlers, DeadlockAbort(h) PROVE TypeOK'
    BY <1>23, AbortType DEF DeadlockAbort
  <1>24. ASSUME NEW h \in Handlers, Crash(h) PROVE TypeOK'
    BY <1>24, ForgetType, ReleaseType DEF Crash
  <1>25. ASSUME NEW h \in Handlers, CreateRefused(h) PROVE TypeOK'
    BY <1>25, AbortType DEF CreateRefused
  <1>26. CASE UNCHANGED vars
    BY <1>26 DEF vars
  <1> QED
    BY <1>1, <1>2, <1>3, <1>4, <1>5, <1>6, <1>7, <1>8, <1>9, <1>10, <1>11, <1>12,
       <1>13, <1>14, <1>15, <1>16, <1>17, <1>18, <1>19, <1>20, <1>21, <1>22, <1>23,
       <1>24, <1>25, <1>26
    DEF Next, Arrive, Run, Lock

------------------------------------------------------------------------------
(* The inductive invariant: frames                                         *)

\* A step of handler h leaves the other handlers where they are.
Others(h) ==
    \A k \in Handlers : k # h =>
        /\ pc'[k] = pc[k] /\ req'[k] = req[k]
        /\ chg'[k] = chg[k] /\ reply'[k] = reply[k]

\* What each session helper does to its handler, and that it does nothing else.
LEMMA ProceedEffect ==
  ASSUME TypeOK, NEW h \in Handlers, NEW p, NEW r, NEW d, Proceed(h, p, r, d)
  PROVE  /\ Others(h)
         /\ pc'[h] = p /\ req'[h] = r /\ chg'[h] = d /\ reply'[h] = reply[h]
  BY DEF Proceed, TypeOK, Others

\* Raise: the handler waits for its rollback.
LEMMA RaiseEffect ==
  ASSUME TypeOK, NEW h \in Handlers, NEW r, NEW c, Raise(h, r, c)
  PROVE  /\ Others(h)
         /\ pc'[h] = "aborting" /\ req'[h] = r /\ chg'[h] = NoChange /\ reply'[h] = c
  BY DEF Raise, TypeOK, Others

\* Answer: the handler keeps its request and has a reply.
LEMMA AnswerEffect ==
  ASSUME TypeOK, NEW h \in Handlers, NEW c, Answer(h, c)
  PROVE  /\ Others(h)
         /\ pc'[h] = "replied" /\ req'[h] = req[h] /\ chg'[h] = NoChange /\ reply'[h] = c
  BY DEF Answer, TypeOK, Others

\* Forget: the handler is idle again.
LEMMA ForgetEffect ==
  ASSUME TypeOK, NEW h \in Handlers, Forget(h)
  PROVE  /\ Others(h)
         /\ pc'[h] = "idle" /\ req'[h] = NoRequest /\ chg'[h] = NoChange
         /\ reply'[h] = "none"
  BY DEF Forget, TypeOK, Others

\* ReleaseAll frees the locks of h and no others.
LEMMA ReleaseEffect ==
  ASSUME TypeOK, NEW h \in Handlers, ReleaseAll(h)
  PROVE  /\ \A o \in Orders : ordLock'[o] = IF ordLock[o] = h THEN NULL ELSE ordLock[o]
         /\ \A c \in Cleaners : clLock'[c] = IF clLock[c] = h THEN NULL ELSE clLock[c]
  BY DEF ReleaseAll, TypeOK

\* A lock that changes hands is taken or released by h.
OwnLocks(h) ==
    /\ \A o \in Orders : ordLock'[o] # ordLock[o]
         => ordLock[o] \in {h, NULL} /\ ordLock'[o] \in {h, NULL}
    /\ \A c \in Cleaners : clLock'[c] # clLock[c]
         => clLock[c] \in {h, NULL} /\ clLock'[c] \in {h, NULL}

\* A handler that moves on without a change of the tables keeps the invariant
\* if it keeps its own part of it.
LEMMA MoveStep ==
  ASSUME IInv, TypeOK', NEW h \in Handlers, Others(h), OwnLocks(h),
         UNCHANGED <<row, used, jobs>>,
         HandlerOK(h)',
         \A o \in Orders : ordLock'[o] = h => OrderLockOK(o)',
         \A c \in Cleaners : clLock'[c] = h => CleanerLockOK(c)',
         \A o \in Orders : Won(h, o)' => Won(h, o)
  PROVE  IInv'
  <1> USE DEF IInv
  <1>1. \A k \in Handlers : HandlerOK(k)'
    <2> SUFFICES ASSUME NEW k \in Handlers, k # h PROVE HandlerOK(k)'
      OBVIOUS
    <2>1. HandlerOK(k) /\ pc'[k] = pc[k] /\ req'[k] = req[k] /\ chg'[k] = chg[k]
                       /\ reply'[k] = reply[k]
      BY DEF Others
    <2>2. RequestOK(k)' /\ AcceptOK(k)' /\ WinnerOK(k)'
      BY <2>1 DEF HandlerOK, RequestOK, AcceptOK, WinnerOK, Won
    <2>3. WriterOK(k)'
      BY <2>1, NullAssumption DEF HandlerOK, RequestOK, WriterOK, OwnLocks
    <2>4. CreditOK(k)'
      BY <2>1, NullAssumption DEF HandlerOK, RequestOK, CreditOK, OwnLocks
    <2> QED
      BY <2>2, <2>3, <2>4 DEF HandlerOK
  <1>2. \A o \in Orders : OrderLockOK(o)'
    <2> SUFFICES ASSUME NEW o \in Orders, ordLock'[o] \notin {h, NULL}
                 PROVE  OrderLockOK(o)'
      BY DEF OrderLockOK
    <2>1. OrderLockOK(o) /\ ordLock'[o] = ordLock[o] /\ ordLock[o] \in Handlers
      BY DEF TypeOK, OwnLocks
    <2> QED
      BY <2>1 DEF OrderLockOK, Others
  <1>3. \A c \in Cleaners : CleanerLockOK(c)'
    <2> SUFFICES ASSUME NEW c \in Cleaners, clLock'[c] \notin {h, NULL}
                 PROVE  CleanerLockOK(c)'
      BY DEF CleanerLockOK
    <2>1. CleanerLockOK(c) /\ clLock'[c] = clLock[c] /\ clLock[c] \in Handlers
      BY DEF TypeOK, OwnLocks
    <2> QED
      BY <2>1 DEF CleanerLockOK, Others
  <1>4. OneWinner'
    <2>1. \A k \in Handlers, o \in Orders : Won(k, o)' => Won(k, o)
      BY DEF Others, Won
    <2> QED
      BY <2>1 DEF OneWinner
  <1> QED
    BY <1>1, <1>2, <1>3, <1>4 DEF UsedInv, CleanerExists

\* A handler outside its transaction's locking part holds no lock.
LEMMA NoLocksWhenIdle ==
  ASSUME IInv, NEW h \in Handlers,
         pc[h] \notin {"scanning", "locked", "aborting", "credited"}
  PROVE  /\ \A o \in Orders : ordLock[o] # h
         /\ \A c \in Cleaners : clLock[c] # h
  BY NullAssumption DEF IInv, OrderLockOK, CleanerLockOK

\* What a request and the changes it loads have to be for the handler to go on.
Sound(r, d) ==
    /\ r \in Request /\ d \in Change
    /\ r.kind \in OneOrder => r.order \in Orders
    /\ r.kind = "deleteCleaner" => r.cleaner \in Cleaners
    /\ d.jobs # Keep => r.kind = "status" /\ r.cleaner \in Cleaners
    /\ d.version = Keep
    /\ r.kind = "status" => d.cleaner = Keep
    /\ "open" \notin Statuses => d.status # "open"

\* NoChange and NoRequest, column by column.
LEMMA NoChangeSound ==
  /\ NoChange.jobs = Keep /\ NoChange.version = Keep /\ NoChange.status = Keep
  /\ NoChange.slot = Keep /\ NoChange.photos = Keep /\ NoChange.cleaner = Keep /\ NoChange.touch = FALSE
  /\ NoRequest.kind = "none"
  BY DEF NoChange, NoRequest

\* A request that is loaded, or raises, and has touched nothing yet.
LEMMA LoadStep ==
  ASSUME IInv, TypeOK', NEW h \in Handlers,
         UNCHANGED <<row, used, jobs, ordLock, clLock>>,
         pc[h] \in {"idle", "loaded"},
         NEW r, NEW d, Sound(r, d), NEW p \in {"loaded", "scanning", "committed"},
         NEW c \in {"notFound", "refused", "error"},
         \/ /\ Proceed(h, p, r, d)
            /\ p = "scanning" <=> r.kind = "deleteCleaner"
            /\ p = "committed" => r.kind \notin {"accept", "create"}
         \/ Raise(h, r, c)
  PROVE  IInv'
  <1>1. TypeOK /\ HandlerOK(h)
    BY DEF IInv
  <1>2. /\ Others(h)
        /\ req'[h] = r /\ chg'[h] \in {d, NoChange}
        /\ \/ pc'[h] = p /\ reply'[h] = "none" /\ chg'[h] = d
              /\ (p = "scanning" <=> r.kind = "deleteCleaner")
              /\ (p = "committed" => r.kind \notin {"accept", "create"})
           \/ pc'[h] = "aborting" /\ reply'[h] = c /\ chg'[h] = NoChange
    BY <1>1, ProceedEffect, RaiseEffect DEF HandlerOK, RequestOK
  <1>3. RequestOK(h)'
    BY <1>2, NoChangeSound DEF RequestOK, Sound
  <1>4. WriterOK(h)' /\ CreditOK(h)' /\ AcceptOK(h)'
    BY <1>2, NoChangeSound DEF WriterOK, CreditOK, AcceptOK, Sound
  <1>5. \A o \in Orders : ~Won(h, o)'
    BY <1>2 DEF Won
  <1>6. WinnerOK(h)'
    BY <1>2, <1>5, NoChangeSound, KeepAssumption DEF WinnerOK, Sound, Status
  <1> QED
    BY <1>2, <1>3, <1>4, <1>5, <1>6, NoLocksWhenIdle, MoveStep DEF HandlerOK, OwnLocks

\* The end of a transaction that wrote nothing: its locks are free, and the
\* handler has answered or is gone.
LEMMA ReleaseStep ==
  ASSUME IInv, TypeOK', NEW h \in Handlers, ReleaseAll(h), UNCHANGED <<row, used, jobs>>,
         \/ Forget(h)
         \/ \E c \in Replies : c # "ok" /\ Answer(h, c)
  PROVE  IInv'
  <1> USE DEF IInv
  <1>1. TypeOK /\ HandlerOK(h)
    OBVIOUS
  <1>2. /\ Others(h) /\ chg'[h] = NoChange
        /\ \/ pc'[h] = "replied" /\ req'[h] = req[h] /\ reply'[h] # "ok"
           \/ pc'[h] = "idle" /\ req'[h] = NoRequest /\ reply'[h] = "none"
    BY <1>1, AnswerEffect, ForgetEffect
  <1>3. /\ \A o \in Orders : ordLock'[o] = IF ordLock[o] = h THEN NULL ELSE ordLock[o]
        /\ \A c \in Cleaners : clLock'[c] = IF clLock[c] = h THEN NULL ELSE clLock[c]
    BY <1>1, ReleaseEffect
  <1>4. \A o \in Orders : ~Won(h, o)'
    BY <1>2 DEF Won
  <1>5. HandlerOK(h)'
    <2>1. RequestOK(h)' /\ WriterOK(h)' /\ CreditOK(h)' /\ AcceptOK(h)'
      BY <1>1, <1>2, NoChangeSound
      DEF HandlerOK, RequestOK, WriterOK, CreditOK, AcceptOK, OneOrder
    <2>2. WinnerOK(h)'
      BY <1>2, <1>4, NoChangeSound, KeepAssumption DEF WinnerOK, Status
    <2> QED
      BY <2>1, <2>2 DEF HandlerOK
  <1> QED
    BY <1>2, <1>3, <1>4, <1>5, NullAssumption, MoveStep DEF OwnLocks

\* A COMMIT: h writes rows it has locked, or one that is new, and is done.
LEMMA CommitStep ==
  ASSUME IInv, TypeOK', NEW h \in Handlers, Others(h),
         pc'[h] = "committed", reply'[h] = "none", req'[h].kind # "none",
         HandlerOK(h)',
         \A o \in Orders : ordLock'[o] = IF ordLock[o] = h THEN NULL ELSE ordLock[o],
         \A c \in Cleaners : clLock'[c] = IF clLock[c] = h THEN NULL ELSE clLock[c],
         used \subseteq used', UsedInv', CleanerExists',
         \A o \in Orders : row'[o] = row[o] \/ ordLock[o] = h \/ o \notin used,
         \A c \in Cleaners : jobs'[c] = NULL => jobs[c] = NULL \/ clLock[c] = NULL,
         "open" \notin Statuses => \A o \in used :
             row'[o] # NULL /\ row'[o].status = "open"
               => row[o] # NULL /\ row[o].status = "open",
         \A o \in Orders : Won(h, o)' => row[o] # NULL /\ row[o].status = "open"
  PROVE  IInv'
  <1> USE DEF IInv
  <1>1. \A k \in Handlers : HandlerOK(k)'
    <2> SUFFICES ASSUME NEW k \in Handlers, k # h PROVE HandlerOK(k)'
      OBVIOUS
    <2>1. HandlerOK(k) /\ pc'[k] = pc[k] /\ req'[k] = req[k] /\ chg'[k] = chg[k]
                       /\ reply'[k] = reply[k]
      BY DEF Others
    <2>2. RequestOK(k)'
      BY <2>1 DEF HandlerOK, RequestOK
    <2>3. WriterOK(k)' /\ CreditOK(k)'
      BY <2>1 DEF HandlerOK, RequestOK, WriterOK, CreditOK
    <2>4. AcceptOK(k)'
      <3>1. CASE req[k].kind = "accept" /\ pc[k] = "locked"
        <4>1. req[k].order \in Orders /\ ordLock[req[k].order] = k
          BY <2>1, <3>1 DEF HandlerOK, RequestOK, WriterOK, OneOrder
        <4>2. row[req[k].order] # NULL
          BY <4>1, NullAssumption DEF OrderLockOK
        <4>3. row'[req[k].order] = row[req[k].order]
          BY <4>1, <4>2 DEF UsedInv
        <4> QED
          BY <2>1, <3>1, <4>3 DEF HandlerOK, AcceptOK
      <3> QED
        BY <2>1, <3>1 DEF HandlerOK, AcceptOK
    <2>5. WinnerOK(k)'
      BY <2>1 DEF HandlerOK, WinnerOK, Won
    <2> QED
      BY <2>2, <2>3, <2>4, <2>5 DEF HandlerOK
  <1>2. \A o \in Orders : OrderLockOK(o)'
    <2> SUFFICES ASSUME NEW o \in Orders, ordLock'[o] # NULL PROVE OrderLockOK(o)'
      BY DEF OrderLockOK
    <2>1. /\ OrderLockOK(o) /\ ordLock'[o] = ordLock[o]
          /\ ordLock[o] \in Handlers /\ ordLock[o] # h
      BY DEF TypeOK
    <2>2. row'[o] = row[o]
      BY <2>1, NullAssumption DEF OrderLockOK, UsedInv
    <2> QED
      BY <2>1, <2>2 DEF OrderLockOK, Others
  <1>3. \A c \in Cleaners : CleanerLockOK(c)'
    <2> SUFFICES ASSUME NEW c \in Cleaners, clLock'[c] # NULL PROVE CleanerLockOK(c)'
      BY DEF CleanerLockOK
    <2>1. /\ CleanerLockOK(c) /\ clLock'[c] = clLock[c]
          /\ clLock[c] \in Handlers /\ clLock[c] # h
      BY DEF TypeOK
    <2> QED
      BY <2>1 DEF CleanerLockOK, Others
  <1>4. OneWinner'
    <2> SUFFICES ASSUME "open" \notin Statuses,
                        NEW k \in Handlers, NEW l \in Handlers, NEW o \in Orders,
                        Won(k, o)', Won(l, o)'
                 PROVE  k = l
      BY DEF OneWinner
    <2>1. \A m \in Handlers : m # h /\ Won(m, o)' =>
             Won(m, o) /\ ~(row[o] # NULL /\ row[o].status = "open")
      BY DEF Others, Won, HandlerOK, WinnerOK
    <2> QED
      BY <2>1 DEF OneWinner
  <1> QED
    BY <1>1, <1>2, <1>3, <1>4

------------------------------------------------------------------------------
(* The inductive invariant: steps                                          *)

\* The invariant holds of the empty tables.
LEMMA InvInit == Init => IInv
  <1> SUFFICES ASSUME Init PROVE IInv
    OBVIOUS
  <1>1. TypeOK
    BY InitType
  <1>2. UsedInv /\ CleanerExists /\ OneWinner
    BY DEF Init, UsedInv, CleanerExists, OneWinner, Won
  <1>3. ASSUME NEW h \in Handlers PROVE HandlerOK(h)
    <2>1. /\ pc[h] = "idle" /\ req[h] = NoRequest /\ chg[h] = NoChange
          /\ reply[h] = "none"
      BY DEF Init
    <2>2. RequestOK(h) /\ WriterOK(h) /\ CreditOK(h) /\ AcceptOK(h)
      BY <2>1, NoChangeSound DEF RequestOK, WriterOK, CreditOK, AcceptOK, OneOrder
    <2>3. WinnerOK(h)
      BY <2>1, NoChangeSound, KeepAssumption DEF WinnerOK, Won, Status
    <2> QED
      BY <2>2, <2>3 DEF HandlerOK
  <1>4. /\ \A o \in Orders : OrderLockOK(o)
        /\ \A c \in Cleaners : CleanerLockOK(c)
    BY DEF Init, OrderLockOK, CleanerLockOK
  <1> QED
    BY <1>1, <1>2, <1>3, <1>4 DEF IInv

\* The request a handler already serves, with nothing left to write.
LEMMA ServedSound ==
  ASSUME IInv, NEW h \in Handlers
  PROVE  Sound(req[h], NoChange)
  BY NoRequestType, NoChangeSound, KeepAssumption
  DEF IInv, TypeOK, HandlerOK, RequestOK, Sound, Status

\* The steps that load or raise before any lock is taken keep the invariant.
LEMMA LoadSteps ==
  ASSUME IInv, TypeOK', NEW h \in Handlers,
         \/ CreateCheck(h) \/ PutSelect(h) \/ CancelSelect(h) \/ UploadSelect(h)
         \/ DeleteSelect(h) \/ StatusSelect(h) \/ UnassignSelect(h) \/ CommitUnchanged(h)
  PROVE  IInv'
  <1> USE NoRequestType, NoChangeSound
  <1>0. /\ TypeOK
        /\ "accepted" \in Status /\ "cancelled" \in Status
        /\ Keep # "open" /\ Keep # "cancelled"
    BY KeepAssumption DEF IInv, Status
  <1>1. CASE CreateCheck(h)
    <2>1. PICK s \in Slots \cup {NULL} :
            \/ Raise(h, Ask("create", NULL, NULL, s), "refused")
            \/ Raise(h, Ask("create", NULL, NULL, s), "error")
            \/ Proceed(h, "loaded", Ask("create", NULL, NULL, s), NoChange)
      BY <1>1 DEF CreateCheck
    <2>2. Sound(Ask("create", NULL, NULL, s), NoChange)
      BY <1>0 DEF Sound, Request, Endpoints, OneOrder
    <2> QED
      BY <1>1, <2>1, <2>2, LoadStep DEF CreateCheck
  <1>2. CASE PutSelect(h)
    <2>1. PICK o \in Orders, s \in Statuses \cup {Keep}, c \in Cleaners \cup {NULL, Keep},
               time \in {NULL, Keep}, p \in {{q} : q \in Photos} \cup {Keep},
               other \in BOOLEAN :
         LET r == Ask("put", o, NULL, NULL) IN
         \/ Raise(h, r, "notFound")
         \/ Raise(h, r, "error")
         \/ Proceed(h, "loaded", r, PutChange(o, s, c, time, p, other))
      BY <1>2 DEF PutSelect
    <2> DEFINE r == Ask("put", o, NULL, NULL)
               d == PutChange(o, s, c, time, p, other)
    <2>2. r \in Request /\ r.kind = "put" /\ r.order = o
      BY DEF Request, Endpoints
    <2>4. /\ d \in Change /\ d.jobs = Keep /\ d.version = Keep
          /\ d.status = Assign(s, row[o].status)
      BY ZenonT(30), PutChangeType
    <2>5. "open" \notin Statuses => d.status # "open"
      BY <2>4, <1>0 DEF Assign
    <2>6. Sound(r, d)
      BY <2>2, <2>4, <2>5 DEF Sound
    <2>7. Raise(h, r, "notFound") \/ Raise(h, r, "error") \/ Proceed(h, "loaded", r, d)
      BY <2>1
    <2> HIDE DEF r, d
    <2> QED
      BY <1>2, <2>2, <2>6, <2>7, LoadStep DEF PutSelect
  <1>3. CASE CancelSelect(h)
    <2>1. PICK o \in Orders, reason \in BOOLEAN :
         LET r == Ask("cancel", o, NULL, NULL) IN
         \/ Raise(h, r, "notFound")
         \/ Raise(h, r, "refused")
         \/ Proceed(h, "loaded", r,
                 [NoChange EXCEPT !.status = Assign("cancelled", row[o].status),
                                  !.touch  = reason])
      BY <1>3 DEF CancelSelect
    <2> DEFINE r == Ask("cancel", o, NULL, NULL)
               d == [NoChange EXCEPT !.status = Assign("cancelled", row[o].status),
                                     !.touch  = reason]
    <2>2. r \in Request /\ r.kind = "cancel" /\ r.order = o
      BY DEF Request, Endpoints
    <2>3. /\ d \in Change /\ d.jobs = Keep /\ d.version = Keep
          /\ d.status = Assign("cancelled", row[o].status)
      BY <1>0 DEF Change, NoChange, Assign
    <2>4. Sound(r, d)
      BY <2>2, <2>3, <1>0 DEF Sound, Assign
    <2>5. Raise(h, r, "notFound") \/ Raise(h, r, "refused") \/ Proceed(h, "loaded", r, d)
      BY <2>1
    <2> HIDE DEF r, d
    <2> QED
      BY <1>3, <2>2, <2>4, <2>5, LoadStep DEF CancelSelect
  <1>4. CASE UploadSelect(h)
    <2>1. PICK o \in Orders, p \in Photos :
         LET r == Ask("upload", o, NULL, NULL) IN
         \/ Proceed(h, "committed", r, NoChange)
         \/ row[o] # NULL /\ Proceed(h, "loaded", r,
                 [NoChange EXCEPT !.photos = row[o].photos \cup {p}])
      BY <1>4 DEF UploadSelect
    <2> DEFINE r == Ask("upload", o, NULL, NULL)
               d == [NoChange EXCEPT !.photos = row[o].photos \cup {p}]
    <2>2. r \in Request /\ r.kind = "upload" /\ r.order = o
      BY DEF Request, Endpoints
    <2>3. /\ row[o] # NULL => d \in Change
          /\ d.jobs = Keep /\ d.version = Keep /\ d.status = Keep
      BY ZenonT(30), <1>0 DEF Change, NoChange, Row, TypeOK
    <2>4. Sound(r, NoChange) /\ (row[o] # NULL => Sound(r, d))
      BY <2>2, <2>3, <1>0 DEF Sound
    <2>5. Proceed(h, "committed", r, NoChange) \/ (row[o] # NULL /\ Proceed(h, "loaded", r, d))
      BY <2>1
    <2> HIDE DEF r, d
    <2> QED
      BY <1>4, <2>2, <2>4, <2>5, LoadStep DEF UploadSelect
  <1>5. CASE DeleteSelect(h)
    <2>1. PICK o \in Orders :
         LET r == Ask("delete", o, NULL, NULL) IN
         Raise(h, r, "notFound") \/ Proceed(h, "loaded", r, NoChange)
      BY <1>5 DEF DeleteSelect
    <2>2. Sound(Ask("delete", o, NULL, NULL), NoChange)
      BY <1>0 DEF Sound, Request, Endpoints
    <2> QED
      BY <1>5, <2>1, <2>2, LoadStep DEF DeleteSelect
  <1>6. CASE StatusSelect(h)
    <2>1. PICK o \in Orders, s \in Statuses, c \in Cleaners \cup {NULL} :
         LET r == Ask("status", o, c, NULL)
             credit == s = "completed" /\ c # NULL /\ jobs[c] # NULL
         IN  \/ Raise(h, r, "refused")
             \/ Proceed(h, "loaded", r,
                     [NoChange EXCEPT !.status = s,
                                      !.touch  = TRUE,
                                      !.jobs   = IF credit THEN jobs[c] + 1 ELSE Keep])
      BY <1>6 DEF StatusSelect
    <2> DEFINE j == IF s = "completed" /\ c # NULL /\ jobs[c] # NULL
                    THEN jobs[c] + 1 ELSE Keep
               r == Ask("status", o, c, NULL)
               d == [NoChange EXCEPT !.status = s, !.touch = TRUE, !.jobs = j]
    <2>2. r \in Request /\ r.kind = "status" /\ r.order = o /\ r.cleaner = c
      BY DEF Request, Endpoints
    <2>3. j \in Nat \cup {Keep} /\ (j # Keep => c \in Cleaners)
      BY <1>0 DEF TypeOK
    <2> HIDE DEF j
    <2>4. d \in Change /\ d.jobs = j /\ d.version = Keep /\ d.status = s
        /\ d.cleaner = Keep
      BY <2>3, StatusesAssumption DEF Change, NoChange
    <2>5. Sound(r, d)
      BY <2>2, <2>3, <2>4 DEF Sound
    <2>6. Raise(h, r, "refused") \/ Proceed(h, "loaded", r, d)
      BY <2>1 DEF j
    <2> HIDE DEF r, d
    <2> QED
      BY <1>6, <2>2, <2>5, <2>6, LoadStep DEF StatusSelect
  <1>7. CASE UnassignSelect(h)
    <2>1. PICK c \in Cleaners :
            Proceed(h, "scanning", Ask("deleteCleaner", NULL, c, NULL), NoChange)
      BY <1>7 DEF UnassignSelect
    <2>2. Sound(Ask("deleteCleaner", NULL, c, NULL), NoChange)
      BY <1>0 DEF Sound, Request, Endpoints, OneOrder
    <2> QED
      BY <1>7, <2>1, <2>2, LoadStep DEF UnassignSelect
  <1>8. CASE CommitUnchanged(h)
    BY <1>8, ServedSound, LoadStep DEF CommitUnchanged
  <1> QED
    BY <1>1, <1>2, <1>3, <1>4, <1>5, <1>6, <1>7, <1>8

\* The ends of a transaction without COMMIT.
LEMMA EndSteps ==
  ASSUME IInv, TypeOK', NEW h \in Handlers,
         Rollback(h) \/ Crash(h) \/ DeadlockAbort(h) \/ Close(h) \/ Abort(h)
  PROVE  IInv'
  <1>1. TypeOK /\ HandlerOK(h)
    BY DEF IInv
  <1>2. CASE Rollback(h)
    <2>1. reply[h] \in Replies /\ reply[h] # "ok"
      BY <1>1, <1>2 DEF Rollback, HandlerOK, RequestOK, TypeOK
    <2> QED
      BY <1>2, <2>1, ReleaseStep DEF Rollback
  <1>3. CASE Crash(h)
    BY <1>3, ReleaseStep DEF Crash
  <1>4. CASE Abort(h)
    BY <1>4, ReleaseStep DEF Abort, Replies
  <1>5. CASE Close(h)
    <2>1. /\ Others(h) /\ pc'[h] = "idle" /\ req'[h] = NoRequest /\ chg'[h] = NoChange
          /\ reply'[h] = "none"
      BY <1>1, <1>5, ForgetEffect DEF Close
    <2>2. \A o \in Orders : ~Won(h, o)'
      BY <2>1 DEF Won
    <2>3. RequestOK(h)' /\ WriterOK(h)' /\ CreditOK(h)' /\ AcceptOK(h)'
      BY <2>1, NoChangeSound DEF RequestOK, WriterOK, CreditOK, AcceptOK, OneOrder
    <2>4. WinnerOK(h)'
      BY <2>1, <2>2, NoChangeSound, KeepAssumption DEF WinnerOK, Status
    <2> QED
      BY <1>5, <2>1, <2>2, <2>3, <2>4, NoLocksWhenIdle, MoveStep
      DEF Close, HandlerOK, OwnLocks
  <1> QED
    BY <1>2, <1>3, <1>4, <1>5 DEF DeadlockAbort

\* The steps that get a lock, or find that there is nothing to lock.
LEMMA LockSteps ==
  ASSUME IInv, TypeOK', NEW h \in Handlers,
         \/ AcceptSelect(h) \/ FlushLock(h) \/ StatusCredit(h) \/ StatusLock(h)
         \/ UnassignLock(h) \/ UnassignDone(h)
  PROVE  IInv'
  <1> USE NoRequestType, NoChangeSound
  <1>0. TypeOK /\ HandlerOK(h) /\ Keep # "open" /\ Keep # NULL
    BY KeepAssumption DEF IInv, Status
  <1>1. CASE AcceptSelect(h)
    <2>1. PICK o \in Orders, c \in Cleaners :
         LET r == Ask("accept", o, c, NULL) IN
         \/ /\ Raise(h, r, "notFound")
            /\ UNCHANGED ordLock
         \/ /\ row[o] # NULL /\ ordLock[o] = NULL
            /\ ordLock' = [ordLock EXCEPT ![o] = h]
            /\ \/ Raise(h, r, "refused")
               \/ /\ row[o].status = "open"
                  /\ Proceed(h, "locked", r,
                       [NoChange EXCEPT !.status  = "accepted",
                                        !.cleaner = Assign(c, row[o].cleaner),
                                        !.version = row[o].version + 1])
      BY <1>1 DEF AcceptSelect
    <2>2. pc[h] = "idle" /\ UNCHANGED <<row, used, jobs, clLock>>
      BY <1>1 DEF AcceptSelect
    <2> DEFINE r == Ask("accept", o, c, NULL)
               d == [NoChange EXCEPT !.status  = "accepted",
                                     !.cleaner = Assign(c, row[o].cleaner),
                                     !.version = row[o].version + 1]
    <2>3. r \in Request /\ r.kind = "accept" /\ r.order = o /\ r.cleaner = c
      BY DEF Request, Endpoints
    <2>4. /\ d.status = "accepted" /\ d.version = row[o].version + 1
          /\ d.slot = Keep /\ d.photos = Keep /\ d.jobs = Keep
          /\ d.cleaner = Assign(c, row[o].cleaner)
      BY DEF NoChange
    <2>5. \/ Raise(h, r, "notFound") /\ UNCHANGED ordLock
          \/ /\ row[o] # NULL /\ ordLock[o] = NULL
             /\ ordLock' = [ordLock EXCEPT ![o] = h]
             /\ \/ Raise(h, r, "refused")
                \/ row[o].status = "open" /\ Proceed(h, "locked", r, d)
      BY <2>1
    <2> HIDE DEF r, d
    <2>6. CASE Raise(h, r, "notFound") /\ UNCHANGED ordLock
      <3>1. Sound(r, NoChange)
        BY <2>3, <1>0 DEF Sound
      <3> QED
        BY <2>2, <2>3, <2>6, <3>1, LoadStep
    <2>7. CASE /\ row[o] # NULL /\ ordLock[o] = NULL
               /\ ordLock' = [ordLock EXCEPT ![o] = h]
               /\ \/ Raise(h, r, "refused")
                  \/ row[o].status = "open" /\ Proceed(h, "locked", r, d)
      <3>1. /\ Others(h) /\ req'[h] = r
            /\ \/ pc'[h] = "aborting" /\ chg'[h] = NoChange /\ reply'[h] = "refused"
               \/ /\ pc'[h] = "locked" /\ chg'[h] = d /\ reply'[h] = "none"
                  /\ row[o].status = "open"
        BY <1>0, <2>2, <2>7, ProceedEffect, RaiseEffect DEF HandlerOK, RequestOK
      <3>2. \A q \in Orders : ordLock'[q] = IF q = o THEN h ELSE ordLock[q]
        BY <1>0, <2>7 DEF TypeOK
      <3>3. \A q \in Orders : ordLock[q] # h
        BY <2>2, NoLocksWhenIdle
      <3>4. \A q \in Cleaners : clLock[q] # h
        BY <2>2, NoLocksWhenIdle
      <3>5. RequestOK(h)' /\ WriterOK(h)' /\ CreditOK(h)'
        BY <2>3, <2>4, <3>1, <3>2 DEF RequestOK, WriterOK, CreditOK, OneOrder
      <3>6. AcceptOK(h)'
        BY <2>2, <2>3, <2>4, <3>1 DEF AcceptOK
      <3>7. \A q \in Orders : ~Won(h, q)'
        BY <3>1 DEF Won
      <3>8. WinnerOK(h)'
        BY <1>0, <2>4, <3>1, <3>7 DEF WinnerOK
      <3>9. OrderLockOK(o)'
        BY <2>2, <2>3, <2>7, <3>1, <3>2 DEF OrderLockOK, OneOrder
      <3>10. OwnLocks(h)
        BY <2>2, <2>7, <3>2 DEF OwnLocks
      <3> QED
        BY <2>2, <3>1, <3>2, <3>3, <3>4, <3>5, <3>6, <3>7, <3>8, <3>9, <3>10, MoveStep
        DEF HandlerOK
    <2> QED
      BY <2>5, <2>6, <2>7
  <1>2. CASE FlushLock(h)
    <2> DEFINE o == req[h].order
    <2>1. /\ pc[h] = "loaded" /\ req[h].kind \in OneOrder \ {"accept", "status"}
          /\ o \in Orders /\ ordLock[o] = NULL
          /\ UNCHANGED <<row, used, jobs, clLock>>
      BY <1>0, <1>2 DEF FlushLock, Flushing, HandlerOK, RequestOK, OneOrder
    <2>2. CASE /\ row[o] # NULL
               /\ ordLock' = [ordLock EXCEPT ![o] = h]
               /\ Proceed(h, "locked", req[h], chg[h])
      <3>1. /\ Others(h) /\ req'[h] = req[h] /\ pc'[h] = "locked"
            /\ chg'[h] = chg[h] /\ reply'[h] = reply[h]
        BY <1>0, <2>2, ProceedEffect
      <3>2. \A q \in Orders : ordLock'[q] = IF q = o THEN h ELSE ordLock[q]
        BY <1>0, <2>2 DEF TypeOK
      <3>3. (\A q \in Orders : ordLock[q] # h) /\ (\A c \in Cleaners : clLock[c] # h)
        BY <2>1, NoLocksWhenIdle
      <3>4. RequestOK(h)' /\ WriterOK(h)' /\ CreditOK(h)' /\ AcceptOK(h)'
        BY <1>0, <2>1, <3>1, <3>2
        DEF HandlerOK, RequestOK, WriterOK, CreditOK, AcceptOK, OneOrder
      <3>5. \A q \in Orders : ~Won(h, q)'
        BY <2>1, <3>1 DEF Won
      <3>6. WinnerOK(h)'
        BY <1>0, <3>1, <3>5 DEF HandlerOK, WinnerOK
      <3>7. OrderLockOK(o)'
        BY <2>1, <2>2, <3>1, <3>2 DEF OrderLockOK
      <3>8. OwnLocks(h)
        BY <2>1, <3>2 DEF OwnLocks
      <3> QED
        BY <2>1, <3>1, <3>2, <3>3, <3>4, <3>5, <3>6, <3>7, <3>8, MoveStep DEF HandlerOK
    <2>3. CASE /\ UNCHANGED ordLock
               /\ \/ Proceed(h, "committed", req[h], NoChange)
                  \/ Raise(h, req[h], "error")
      BY <2>1, <2>3, ServedSound, LoadStep DEF OneOrder
    <2> QED
      BY <1>2, <2>2, <2>3 DEF FlushLock
  <1>3. CASE StatusCredit(h)
    <2> DEFINE c == req[h].cleaner
    <2>1. /\ pc[h] = "loaded" /\ req[h].kind = "status" /\ chg[h].jobs # Keep
          /\ c \in Cleaners /\ clLock[c] = NULL
          /\ UNCHANGED <<row, used, jobs, ordLock>>
      BY <1>0, <1>3 DEF StatusCredit, HandlerOK, RequestOK
    <2>2. CASE /\ jobs[c] # NULL
               /\ clLock' = [clLock EXCEPT ![c] = h]
               /\ Proceed(h, "credited", req[h], chg[h])
      <3>1. /\ Others(h) /\ req'[h] = req[h] /\ pc'[h] = "credited"
            /\ chg'[h] = chg[h] /\ reply'[h] = reply[h]
        BY <1>0, <2>2, ProceedEffect
      <3>2. \A q \in Cleaners : clLock'[q] = IF q = c THEN h ELSE clLock[q]
        BY <1>0, <2>2 DEF TypeOK
      <3>3. (\A q \in Orders : ordLock[q] # h) /\ (\A q \in Cleaners : clLock[q] # h)
        BY <2>1, NoLocksWhenIdle
      <3>4. RequestOK(h)' /\ WriterOK(h)' /\ CreditOK(h)' /\ AcceptOK(h)'
        BY <1>0, <2>1, <3>1, <3>2
        DEF HandlerOK, RequestOK, WriterOK, CreditOK, AcceptOK, OneOrder
      <3>5. \A q \in Orders : ~Won(h, q)'
        BY <2>1, <3>1 DEF Won
      <3>6. WinnerOK(h)'
        BY <1>0, <3>1, <3>5 DEF HandlerOK, WinnerOK
      <3>7. CleanerLockOK(c)'
        BY <2>1, <2>2, <3>1, <3>2 DEF CleanerLockOK
      <3>8. OwnLocks(h)
        BY <2>1, <3>2 DEF OwnLocks
      <3> QED
        BY <2>1, <3>1, <3>2, <3>3, <3>4, <3>5, <3>6, <3>7, <3>8, MoveStep DEF HandlerOK
    <2>3. CASE UNCHANGED clLock /\ Raise(h, req[h], "error")
      BY <2>1, <2>3, ServedSound, LoadStep
    <2> QED
      BY <1>3, <2>2, <2>3 DEF StatusCredit
  <1>4. CASE StatusLock(h)
    <2> DEFINE o == req[h].order
    <2>1. /\ pc[h] \in {"loaded", "credited"} /\ req[h].kind = "status"
          /\ pc[h] = "credited" \/ chg[h].jobs = Keep
          /\ o \in Orders /\ ordLock[o] = NULL
          /\ UNCHANGED <<row, used, jobs, clLock>>
      BY <1>0, <1>4 DEF StatusLock, StatusUpdating, HandlerOK, RequestOK, OneOrder
    <2>2. PICK d \in {chg[h], [chg[h] EXCEPT !.status = Keep, !.touch = FALSE]} :
            /\ Proceed(h, "locked", req[h], d)
            /\ \/ row[o] # NULL /\ ordLock' = [ordLock EXCEPT ![o] = h]
               \/ UNCHANGED ordLock
      BY <1>4 DEF StatusLock
    <2>3. /\ d.jobs = chg[h].jobs /\ d.version = chg[h].version
          /\ d.cleaner = chg[h].cleaner
          /\ d.status = chg[h].status \/ d.status = Keep
      BY <1>0 DEF TypeOK, Change
    <2>4. /\ Others(h) /\ req'[h] = req[h] /\ pc'[h] = "locked"
          /\ chg'[h] = d /\ reply'[h] = reply[h]
      BY <1>0, <2>2, ProceedEffect
    <2>5. \A q \in Orders : ordLock'[q] = ordLock[q] \/ (q = o /\ ordLock'[q] = h /\ row[o] # NULL)
      BY <1>0, <2>2 DEF TypeOK
    <2>6. \A q \in Orders : ordLock[q] # h
      BY <1>0, <2>1, NullAssumption DEF IInv, OrderLockOK
    <2>7. RequestOK(h)' /\ WriterOK(h)' /\ CreditOK(h)' /\ AcceptOK(h)'
      <3>1. RequestOK(h)'
        BY <1>0, <2>1, <2>3, <2>4 DEF HandlerOK, RequestOK, OneOrder
      <3>2. WriterOK(h)' /\ AcceptOK(h)'
        BY <1>0, <2>1, <2>3, <2>4 DEF HandlerOK, WriterOK, AcceptOK
      <3>3. CreditOK(h)'
        BY <1>0, <2>1, <2>3, <2>4 DEF HandlerOK, CreditOK
      <3> QED
        BY <3>1, <3>2, <3>3
    <2>8. \A q \in Orders : ~Won(h, q)'
      BY <2>1, <2>4 DEF Won
    <2>9. WinnerOK(h)'
      BY <1>0, <2>3, <2>4, <2>8 DEF HandlerOK, WinnerOK
    <2>10. \A q \in Orders : ordLock'[q] = h => OrderLockOK(q)'
      BY <2>1, <2>4, <2>5, <2>6 DEF OrderLockOK, OneOrder
    <2>11. \A c \in Cleaners : clLock'[c] = h => CleanerLockOK(c)'
      <3> SUFFICES ASSUME NEW c \in Cleaners, clLock[c] = h PROVE CleanerLockOK(c)'
        BY <2>1
      <3>1. CleanerLockOK(c)
        BY DEF IInv
      <3> QED
        BY <2>1, <2>3, <2>4, <3>1 DEF CleanerLockOK
    <2>12. OwnLocks(h)
      BY <2>1, <2>5 DEF OwnLocks
    <2> QED
      BY <2>1, <2>4, <2>7, <2>8, <2>9, <2>10, <2>11, <2>12, MoveStep DEF HandlerOK
  <1>5. CASE UnassignLock(h)
    <2>1. /\ pc[h] = "scanning" /\ req[h].kind = "deleteCleaner"
          /\ UNCHANGED <<row, used, jobs, clLock, pc, req, chg, reply>>
      BY <1>0, <1>5 DEF UnassignLock, HandlerOK, RequestOK
    <2>2. PICK o \in Orders :
            /\ ordLock[o] = NULL
            /\ \/ /\ row[o] # NULL /\ row[o].cleaner = req[h].cleaner
                  /\ ordLock' = [ordLock EXCEPT ![o] = h]
               \/ UNCHANGED ordLock
      BY <1>0, <1>5 DEF UnassignLock, TypeOK
    <2>3. \A q \in Orders :
            \/ ordLock'[q] = ordLock[q]
            \/ /\ q = o /\ ordLock'[q] = h
               /\ row[o] # NULL /\ row[o].cleaner = req[h].cleaner
      BY <1>0, <2>2 DEF TypeOK
    <2>4. RequestOK(h)' /\ WriterOK(h)' /\ CreditOK(h)' /\ AcceptOK(h)' /\ WinnerOK(h)'
      BY <1>0, <2>1 DEF HandlerOK, RequestOK, WriterOK, CreditOK, AcceptOK, WinnerOK, Won
    <2>5. \A q \in Orders : ordLock'[q] = h => OrderLockOK(q)'
      BY <2>1, <2>2, <2>3 DEF OrderLockOK, IInv
    <2>6. \A c \in Cleaners : clLock'[c] = h => CleanerLockOK(c)'
      BY <2>1 DEF CleanerLockOK, IInv
    <2>7. OwnLocks(h) /\ Others(h)
      BY <2>1, <2>2, <2>3 DEF OwnLocks, Others
    <2>8. \A q \in Orders : Won(h, q)' => Won(h, q)
      BY <2>1 DEF Won
    <2> QED
      BY <2>1, <2>4, <2>5, <2>6, <2>7, <2>8, MoveStep DEF HandlerOK
  <1>6. CASE UnassignDone(h)
    <2>1. /\ pc[h] = "scanning" /\ req[h].kind = "deleteCleaner"
          /\ UNCHANGED <<row, used, jobs, ordLock, clLock>>
      BY <1>0, <1>6 DEF UnassignDone, HandlerOK, RequestOK
    <2>2. /\ Others(h) /\ req'[h] = req[h] /\ chg'[h] = NoChange
          /\ \/ pc'[h] = "locked" /\ reply'[h] = "none"
             \/ pc'[h] = "aborting" /\ reply'[h] = "notFound"
      BY <1>0, <1>6, <2>1, ProceedEffect, RaiseEffect DEF UnassignDone, HandlerOK, RequestOK
    <2>3. RequestOK(h)' /\ WriterOK(h)' /\ CreditOK(h)' /\ AcceptOK(h)'
      BY <1>0, <2>1, <2>2
      DEF HandlerOK, RequestOK, WriterOK, CreditOK, AcceptOK, OneOrder
    <2>4. \A o \in Orders : ~Won(h, o)'
      BY <2>1, <2>2 DEF Won
    <2>5. WinnerOK(h)'
      BY <1>0, <2>2, <2>4 DEF WinnerOK
    <2>6. \A o \in Orders : ordLock'[o] = h => OrderLockOK(o)'
      <3> SUFFICES ASSUME NEW o \in Orders, ordLock[o] = h PROVE OrderLockOK(o)'
        BY <2>1
      <3>1. OrderLockOK(o) /\ h # NULL
        BY NullAssumption DEF IInv
      <3> QED
        BY <2>1, <2>2, <3>1 DEF OrderLockOK
    <2>7. \A c \in Cleaners : clLock[c] # h
      BY <2>1, NullAssumption DEF IInv, CleanerLockOK
    <2> QED
      BY <2>1, <2>2, <2>3, <2>4, <2>5, <2>6, <2>7, MoveStep DEF HandlerOK, OwnLocks
  <1> QED
    BY <1>1, <1>2, <1>3, <1>4, <1>5, <1>6

\* An answer after COMMIT keeps the invariant.
LEMMA FinishStep ==
  ASSUME IInv, TypeOK', NEW h \in Handlers, Finish(h)
  PROVE  IInv'
  <1>0. TypeOK /\ HandlerOK(h) /\ Keep # "open"
    BY KeepAssumption DEF IInv, Status
  <1>1. /\ pc[h] = "committed" /\ UNCHANGED <<row, used, jobs, ordLock, clLock>>
        /\ Others(h) /\ pc'[h] = "replied" /\ req'[h] = req[h] /\ chg'[h] = NoChange
    BY <1>0, AnswerEffect DEF Finish, StatusAnswer
  <1>2. RequestOK(h)' /\ WriterOK(h)' /\ CreditOK(h)' /\ AcceptOK(h)'
    BY <1>0, <1>1, NoChangeSound
    DEF HandlerOK, RequestOK, WriterOK, CreditOK, AcceptOK, OneOrder
  <1>3. \A o \in Orders : Won(h, o)' => Won(h, o)
    BY <1>1 DEF Won
  <1>4. WinnerOK(h)'
    BY <1>0, <1>1, <1>3, NoChangeSound DEF HandlerOK, WinnerOK
  <1> QED
    BY <1>1, <1>2, <1>3, <1>4, NoLocksWhenIdle, MoveStep DEF HandlerOK, OwnLocks

\* Where every COMMIT leaves its handler.
LEMMA CommittedOK ==
  ASSUME IInv, NEW h \in Handlers, NEW d \in Change,
         pc'[h] = "committed", req'[h].kind = req[h].kind, req'[h].cleaner = req[h].cleaner,
         req'[h].order = req[h].order \/ req[h].kind = "create",
         req'[h].order \in Orders \/ req[h].kind = "deleteCleaner",
         chg'[h] = d, d.jobs = Keep, d.version = Keep, d.status = Keep, d.cleaner = Keep,
         reply'[h] = reply[h], pc[h] \in {"loaded", "locked"}
  PROVE  /\ RequestOK(h)' /\ WriterOK(h)' /\ CreditOK(h)' /\ AcceptOK(h)'
         /\ reply'[h] = "none"
         /\ (\A o \in Orders : Won(h, o)' =>
               o \in used' /\ (row'[o] # NULL => row'[o].status # "open")) => WinnerOK(h)'
  <1>1. HandlerOK(h) /\ Keep # "open"
    BY KeepAssumption DEF IInv, Status
  <1>2. RequestOK(h)' /\ reply'[h] = "none"
    BY <1>1 DEF HandlerOK, RequestOK, OneOrder
  <1> QED
    BY <1>1, <1>2 DEF WriterOK, CreditOK, AcceptOK, WinnerOK

\* COMMIT of a new order keeps the invariant: its id was never used.
LEMMA CreateCommitStep ==
  ASSUME IInv, TypeOK', NEW h \in Handlers, CreateCommit(h)
  PROVE  IInv'
  <1> USE NoRequestType, NoChangeSound
  <1>0. TypeOK /\ HandlerOK(h)
    BY DEF IInv
  <1>1. PICK o \in Orders \ used :
          /\ used' = used \cup {o}
          /\ row' = [row EXCEPT ![o] = [status |-> "open", cleaner |-> NULL, version |-> 0,
                                        slot |-> req[h].slot, photos |-> {}]]
          /\ Proceed(h, "committed", [req[h] EXCEPT !.order = o], NoChange)
    BY DEF CreateCommit
  <1>2. /\ pc[h] = "loaded" /\ req[h].kind = "create"
        /\ UNCHANGED <<jobs, ordLock, clLock>>
    BY DEF CreateCommit
  <1>3. /\ Others(h) /\ pc'[h] = "committed" /\ req'[h] = [req[h] EXCEPT !.order = o]
        /\ chg'[h] = NoChange /\ reply'[h] = reply[h]
    BY <1>0, <1>1, ProceedEffect
  <1>4. req'[h].kind = "create" /\ req'[h].order = o /\ req'[h].cleaner = req[h].cleaner
    BY <1>0, <1>2, <1>3 DEF TypeOK, Request
  <1>5. \A q \in Orders : /\ q # o => row'[q] = row[q]
                          /\ q = o => row'[q].cleaner = NULL
    BY <1>0, <1>1 DEF TypeOK
  <1>6. \A q \in Orders : ~Won(h, q)'
    BY <1>4 DEF Won
  <1>7. RequestOK(h)' /\ WriterOK(h)' /\ CreditOK(h)' /\ AcceptOK(h)' /\ WinnerOK(h)'
        /\ reply'[h] = "none"
    BY <1>2, <1>3, <1>4, <1>6, CommittedOK
  <1>8. (\A q \in Orders : ordLock[q] # h) /\ (\A c \in Cleaners : clLock[c] # h)
    BY <1>2, NoLocksWhenIdle
  <1>9. UsedInv' /\ CleanerExists'
    BY <1>1, <1>2, <1>5 DEF IInv, UsedInv, CleanerExists
  <1>10. /\ \A q \in Orders : ordLock'[q] = IF ordLock[q] = h THEN NULL ELSE ordLock[q]
         /\ \A c \in Cleaners : clLock'[c] = IF clLock[c] = h THEN NULL ELSE clLock[c]
         /\ \A q \in Orders : row'[q] = row[q] \/ q \notin used
         /\ \A q \in used : row'[q] = row[q]
         /\ used \subseteq used' /\ jobs' = jobs
    BY <1>0, <1>1, <1>2, <1>5, <1>8 DEF TypeOK
  <1>11. HandlerOK(h)'
    BY <1>7 DEF HandlerOK
  <1> QED
    BY <1>3, <1>4, <1>6, <1>7, <1>9, <1>10, <1>11, CommitStep

\* What an UPDATE leaves in each column.
LEMMA ApplyColumns ==
  ASSUME NEW r \in Row, NEW d \in Change
  PROVE  /\ Apply(r, d) \in Row
         /\ Apply(r, d).status = IF d.status = Keep THEN r.status ELSE d.status
         /\ Apply(r, d).cleaner = IF d.cleaner = Keep THEN r.cleaner ELSE d.cleaner
         /\ Apply(r, d).version = IF d.version = Keep THEN r.version ELSE d.version
         /\ Apply(r, d).photos = IF d.photos = Keep THEN r.photos ELSE d.photos
         /\ Apply(r, d).slot = IF d.slot = Keep THEN r.slot ELSE d.slot
  <1>1. Apply(r, d) \in Row
    BY ApplyType
  <1>2. /\ Apply(r, d).status = IF d.status = Keep THEN r.status ELSE d.status
        /\ Apply(r, d).cleaner = IF d.cleaner = Keep THEN r.cleaner ELSE d.cleaner
    BY DEF Apply, Row
  <1>3. /\ Apply(r, d).version = IF d.version = Keep THEN r.version ELSE d.version
        /\ Apply(r, d).photos = IF d.photos = Keep THEN r.photos ELSE d.photos
        /\ Apply(r, d).slot = IF d.slot = Keep THEN r.slot ELSE d.slot
    BY DEF Apply, Row
  <1> QED
    BY <1>1, <1>2, <1>3

\* COMMIT of one order: the row is the handler's, and what is written to it
\* names a cleaner that exists and opens nothing.
LEMMA OrderCommitStep ==
  ASSUME IInv, TypeOK', NEW h \in Handlers,
         FlushCommit(h) \/ DeleteCommit(h) \/ StatusCommit(h), ~Abort(h)
  PROVE  IInv'
  <1> USE NoRequestType, NoChangeSound
  <1> DEFINE o == req[h].order
             c == req[h].cleaner
  <1>0. TypeOK /\ HandlerOK(h) /\ chg[h] \in Change
    BY DEF IInv, TypeOK
  <1>1. /\ pc[h] = "locked" /\ req[h].kind \in OneOrder /\ o \in Orders
        /\ ReleaseAll(h) /\ UNCHANGED used
    BY <1>0 DEF FlushCommit, DeleteCommit, StatusCommit, HandlerOK, RequestOK, OneOrder
  <1>2. PICK d \in {NoChange, [NoChange EXCEPT !.touch = chg[h].touch]} :
          Proceed(h, "committed", req[h], d)
    BY DEF FlushCommit, DeleteCommit, StatusCommit
  <1>3. /\ d \in Change /\ d.jobs = Keep /\ d.version = Keep /\ d.status = Keep
        /\ d.cleaner = Keep
    <2>1. chg[h].touch \in BOOLEAN
      BY <1>0 DEF Change
    <2> QED
      BY <2>1 DEF Change, NoChange
  <1>4. /\ Others(h) /\ pc'[h] = "committed" /\ req'[h] = req[h]
        /\ chg'[h] = d /\ reply'[h] = reply[h]
    BY <1>0, <1>2, ProceedEffect
  <1>5. /\ \A q \in Orders : ordLock'[q] = IF ordLock[q] = h THEN NULL ELSE ordLock[q]
        /\ \A q \in Cleaners : clLock'[q] = IF clLock[q] = h THEN NULL ELSE clLock[q]
    BY <1>0, <1>1, ReleaseEffect
  <1>6. /\ \A q \in Orders : q # o => row'[q] = row[q]
        /\ \/ row'[o] = row[o] /\ req[h].kind = "status" /\ ordLock[o] # h
           \/ ordLock[o] = h /\ row'[o] = NULL /\ req[h].kind = "delete"
           \/ /\ ordLock[o] = h /\ row'[o] = Apply(row[o], chg[h])
              /\ req[h].kind # "delete" /\ (req[h].kind = "status" \/ ~Dangling(h))
    <2>1. CASE FlushCommit(h)
      BY <1>0, <1>1, <2>1 DEF FlushCommit, TypeOK, HandlerOK, WriterOK, OneOrder
    <2>2. CASE DeleteCommit(h)
      BY <1>0, <1>1, <2>2 DEF DeleteCommit, TypeOK, HandlerOK, WriterOK, OneOrder
    <2>3. CASE StatusCommit(h)
      BY <1>0, <1>1, <2>3 DEF StatusCommit, TypeOK
    <2> QED
      BY <2>1, <2>2, <2>3
  <1>7. ordLock[o] = h => row[o] \in Row /\ o \in used
    BY <1>0, <1>1, NullAssumption DEF IInv, OrderLockOK, TypeOK, UsedInv
  <1>8. \A q \in Cleaners : jobs'[q] = NULL => jobs[q] = NULL
    BY <1>0, <1>1, NullAssumption DEF FlushCommit, DeleteCommit, StatusCommit, TypeOK, Change
  <1>9. ordLock[o] = h /\ row'[o] = Apply(row[o], chg[h]) =>
          /\ row'[o] \in Row
          /\ row'[o].status = IF chg[h].status = Keep THEN row[o].status ELSE chg[h].status
          /\ row'[o].cleaner = IF chg[h].cleaner = Keep THEN row[o].cleaner ELSE chg[h].cleaner
    BY <1>0, <1>7, ApplyColumns
  <1>10. \A q \in Orders : Won(h, q)' =>
           /\ row[q] # NULL /\ row[q].status = "open"
           /\ q \in used' /\ (row'[q] # NULL => row'[q].status # "open")
    <2> SUFFICES ASSUME NEW q \in Orders, Won(h, q)'
                 PROVE  /\ row[q] # NULL /\ row[q].status = "open"
                        /\ q \in used' /\ (row'[q] # NULL => row'[q].status # "open")
      OBVIOUS
    <2>1. req[h].kind = "accept" /\ q = o
      BY <1>4 DEF Won
    <2>2. row[o].status = "open" /\ chg[h].status = "accepted" /\ chg[h].status # Keep
      BY <1>0, <1>1, <2>1, KeepAssumption DEF HandlerOK, AcceptOK, Status
    <2> QED
      BY <1>1, <1>6, <1>7, <1>9, <2>1, <2>2, NullAssumption
  <1>11. HandlerOK(h)' /\ reply'[h] = "none"
    BY <1>1, <1>3, <1>4, <1>10, CommittedOK DEF HandlerOK
  <1>12. UsedInv'
    BY <1>1, <1>6, <1>7 DEF IInv, UsedInv
  <1>13. CleanerExists'
    <2> SUFFICES ASSUME NEW q \in Orders, row'[q] # NULL, row'[q].cleaner # NULL
                 PROVE  jobs'[row'[q].cleaner] # NULL
      BY DEF CleanerExists
    <2>1. row'[q] = row[q] => row[q].cleaner \in Cleaners
      BY <1>0 DEF TypeOK, Row
    <2>2. row'[q] = row[q] \/ (q = o /\ row'[o] = Apply(row[o], chg[h]) /\ ordLock[o] = h)
      BY <1>6
    <2>3. CASE row'[q] = row[q]
      BY <1>8, <2>1, <2>3 DEF IInv, CleanerExists
    <2>4. CASE q = o /\ row'[o] = Apply(row[o], chg[h]) /\ ordLock[o] = h /\ row'[o] # row[o]
      <3>1. CASE chg[h].cleaner = Keep
        <4>1. row'[o].cleaner = row[o].cleaner /\ row[o] # NULL
          BY <1>7, <1>9, <2>4, <3>1, NullAssumption
        <4>2. row[o].cleaner \in Cleaners
          BY <1>7, <2>4, <4>1 DEF Row
        <4> QED
          BY <1>1, <1>8, <2>4, <4>1, <4>2 DEF IInv, CleanerExists
      <3>2. CASE chg[h].cleaner # Keep
        <4>1. chg[h].cleaner \in Cleaners /\ row'[o].cleaner = chg[h].cleaner
          BY <1>0, <1>9, <2>4, <3>2 DEF Change
        <4>2. req[h].kind # "status"
          BY <1>0, <3>2 DEF HandlerOK, RequestOK
        <4>3. ~Dangling(h)
          BY <1>6, <1>7, <2>4, <4>2, NullAssumption
        <4> QED
          BY <1>8, <2>4, <4>1, <4>3 DEF Dangling
      <3> QED
        BY <3>1, <3>2
    <2> QED
      BY <2>2, <2>3, <2>4
  <1>14. "open" \notin Statuses => \A q \in used :
           row'[q] # NULL /\ row'[q].status = "open"
             => row[q] # NULL /\ row[q].status = "open"
    <2> SUFFICES ASSUME "open" \notin Statuses, NEW q \in used,
                        row'[q] # NULL, row'[q].status = "open"
                 PROVE  row[q] # NULL /\ row[q].status = "open"
      OBVIOUS
    <2>1. chg[h].status # "open" /\ q \in Orders
      BY <1>0 DEF HandlerOK, WinnerOK, TypeOK
    <2> QED
      BY <1>6, <1>7, <1>9, <2>1, NullAssumption
  <1>15. req'[h].kind # "none"
    BY <1>1, <1>4 DEF OneOrder
  <1>16. \A q \in Orders : row'[q] = row[q] \/ ordLock[q] = h
    BY <1>6
  <1> QED
    BY <1>1, <1>4, <1>5, <1>8, <1>10, <1>11, <1>12, <1>13, <1>14, <1>15, <1>16, CommitStep

\* COMMIT of delete_cleaner keeps the invariant: no order names the cleaner.
LEMMA CleanerCommitStep ==
  ASSUME IInv, TypeOK', NEW h \in Handlers, CleanerCommit(h), ~Abort(h)
  PROVE  IInv'
  <1> USE NoRequestType, NoChangeSound
  <1> DEFINE c == req[h].cleaner
  <1>0. TypeOK /\ HandlerOK(h)
    BY DEF IInv
  <1>1. /\ pc[h] = "locked" /\ req[h].kind = "deleteCleaner" /\ c \in Cleaners
        /\ clLock[c] = NULL /\ ReleaseAll(h) /\ UNCHANGED used
        /\ Proceed(h, "committed", req[h], NoChange)
        /\ jobs' = [jobs EXCEPT ![c] = NULL]
        /\ row' = [o \in Orders |-> IF ordLock[o] = h THEN Unassigned(o) ELSE row[o]]
        /\ jobs[c] # NULL =>
             \A o \in Orders : row[o] # NULL /\ row[o].cleaner = c => ordLock[o] = h
    BY <1>0 DEF CleanerCommit, HandlerOK, RequestOK
  <1>2. /\ Others(h) /\ pc'[h] = "committed" /\ req'[h] = req[h]
        /\ chg'[h] = NoChange /\ reply'[h] = reply[h]
    BY <1>0, <1>1, ProceedEffect
  <1>3. /\ \A o \in Orders : ordLock'[o] = IF ordLock[o] = h THEN NULL ELSE ordLock[o]
        /\ \A q \in Cleaners : clLock'[q] = IF clLock[q] = h THEN NULL ELSE clLock[q]
    BY <1>0, <1>1, ReleaseEffect
  <1>4. \A o \in Orders : ordLock[o] = h =>
          row[o] \in Row /\ row[o].cleaner = c /\ o \in used
    BY SMTT(30), <1>0, <1>1, NullAssumption DEF IInv, OrderLockOK, TypeOK, UsedInv, OneOrder
  <1>5. \A o \in Orders : ordLock[o] = h =>
          /\ row'[o].cleaner = NULL /\ row'[o].status = row[o].status
    BY <1>1, <1>4 DEF Unassigned, Row
  <1>6. \A o \in Orders : ordLock[o] # h => row'[o] = row[o]
    BY <1>1
  <1>7. \A o \in Orders : ~Won(h, o)'
    BY <1>1, <1>2 DEF Won
  <1>8. HandlerOK(h)' /\ reply'[h] = "none"
    BY <1>1, <1>2, <1>7, CommittedOK DEF HandlerOK
  <1>9. UsedInv'
    BY <1>1, <1>4, <1>6 DEF IInv, UsedInv
  <1>10. CleanerExists'
    <2> SUFFICES ASSUME NEW o \in Orders, row'[o] # NULL, row'[o].cleaner # NULL
                 PROVE  jobs'[row'[o].cleaner] # NULL
      BY DEF CleanerExists
    <2>1. ordLock[o] # h /\ row'[o] = row[o]
      BY <1>5, <1>6
    <2>2. row[o].cleaner \in Cleaners /\ jobs[row[o].cleaner] # NULL
      BY <1>0, <2>1 DEF IInv, CleanerExists, TypeOK, Row
    <2>3. row[o].cleaner # c
      BY <1>1, <2>1, <2>2
    <2> QED
      BY <1>0, <1>1, <2>1, <2>2, <2>3 DEF TypeOK
  <1>11. \A q \in Cleaners : jobs'[q] = NULL => jobs[q] = NULL \/ clLock[q] = NULL
    BY <1>0, <1>1 DEF TypeOK
  <1>12. \A o \in used : row'[o] # NULL /\ row'[o].status = "open"
                           => row[o] # NULL /\ row[o].status = "open"
    BY <1>0, <1>4, <1>5, <1>6, NullAssumption DEF TypeOK
  <1> QED
    BY <1>1, <1>2, <1>3, <1>6, <1>7, <1>8, <1>9, <1>10, <1>11, <1>12, CommitStep

\* Every step of the system keeps the invariant.
LEMMA InvStep == IInv /\ [Next]_vars => IInv'
  <1> SUFFICES ASSUME IInv, [Next]_vars PROVE IInv'
    OBVIOUS
  <1>1. TypeOK'
    BY TypeStep
  <1>2. ASSUME NEW h \in Handlers, Arrive(h) PROVE IInv'
    BY <1>1, <1>2, LoadSteps, LockSteps DEF Arrive
  <1>3. ASSUME NEW h \in Handlers, Run(h) PROVE IInv'
    BY <1>1, <1>3, LoadSteps, LockSteps, EndSteps, FinishStep, CreateCommitStep,
       OrderCommitStep DEF Run, CreateRefused
  <1>4. ASSUME NEW h \in Handlers, Lock(h) PROVE IInv'
    BY <1>1, <1>4, LockSteps, EndSteps, CleanerCommitStep DEF Lock
  <1>5. ASSUME NEW h \in Handlers, DeadlockAbort(h) \/ Crash(h) PROVE IInv'
    BY <1>1, <1>5, EndSteps
  <1>6. CASE UNCHANGED vars
    <2> USE <1>6 DEF vars
    <2>1. ASSUME NEW h \in Handlers PROVE HandlerOK(h)'
      BY DEF IInv, HandlerOK, RequestOK, WriterOK, CreditOK, AcceptOK, WinnerOK, Won
    <2> QED
      BY <1>1, <2>1 DEF IInv, UsedInv, CleanerExists, OneWinner, Won, OrderLockOK,
         CleanerLockOK
  <1> QED
    BY <1>2, <1>3, <1>4, <1>5, <1>6 DEF Next

------------------------------------------------------------------------------
(* Theorems                                                                *)

\* The invariant that all the others follow from.
THEOREM Inductive == Spec => []IInv
  BY InvInit, InvStep, PTL DEF Spec

\* Every variable keeps its type, so the columns that overlapping transactions
\* write one by one always add up to a row of the table.
THEOREM TypeCorrect == Spec => []TypeOK
  <1>1. IInv => TypeOK
    BY DEF IInv
  <1> QED
    BY <1>1, Inductive, PTL

\* accept_order commits an order that is still there, open and at the version
\* it read, whatever the endpoints do that lock nothing on SELECT.
THEOREM AcceptHoldsAlways == Spec => []AcceptHolds
  <1>1. IInv => AcceptHolds
    <2> SUFFICES ASSUME IInv, NEW h \in Handlers, pc[h] = "locked", req[h].kind = "accept"
                 PROVE  LET o == req[h].order IN
                        /\ ordLock[o] = h /\ row[o] # NULL /\ row[o].status = "open"
                        /\ chg[h].version = row[o].version + 1
      BY DEF AcceptHolds
    <2>1. HandlerOK(h) /\ req[h].order \in Orders
      BY DEF IInv, HandlerOK, RequestOK, OneOrder
    <2>2. ordLock[req[h].order] = h
      BY <2>1 DEF HandlerOK, WriterOK, OneOrder
    <2>3. row[req[h].order] # NULL
      BY <2>1, <2>2, NullAssumption DEF IInv, OrderLockOK
    <2> QED
      BY <2>1, <2>2, <2>3 DEF HandlerOK, AcceptOK
  <1> QED
    BY <1>1, Inductive, PTL

\* As long as no client reopens orders, no two requests win the same order.
THEOREM OneWinnerAlways == Spec => []OneWinner
  <1>1. IInv => OneWinner
    BY DEF IInv
  <1> QED
    BY <1>1, Inductive, PTL

\* The foreign key from orders to cleaners holds in every committed state.
THEOREM CleanerExistsAlways == Spec => []CleanerExists
  <1>1. IInv => CleanerExists
    BY DEF IInv
  <1> QED
    BY <1>1, Inductive, PTL

\* No row lock outlives its transaction or its row.
THEOREM NoLockLeakAlways == Spec => []NoLockLeak
  <1>1. IInv => NoLockLeak
    BY DEF IInv, NoLockLeak, OrderLockOK, CleanerLockOK
  <1> QED
    BY <1>1, Inductive, PTL

\* Whoever has everything it needs waits for nothing.
LEMMA Settled ==
  ASSUME NEW h \in Handlers, pc[h] \in {"locked", "aborting"},
         req[h].kind # "deleteCleaner"
  PROVE  WaitsFor(h) = {}
  <1>1. ~Flushing(h) /\ ~StatusUpdating(h)
    BY DEF Flushing, StatusUpdating
  <1> QED
    BY <1>1 DEF WaitsFor

\* A statement waits for the holder of its order's lock or, to credit, of its
\* cleaner's lock.
LEMMA WaitsForHolder ==
  ASSUME NEW h \in Handlers, NEW k \in WaitsFor(h), RequestOK(h),
         req[h].kind # "deleteCleaner"
  PROVE  \/ req[h].order \in Orders /\ k = ordLock[req[h].order] /\ k # NULL
         \/ /\ pc[h] = "loaded" /\ req[h].cleaner \in Cleaners
            /\ k = clLock[req[h].cleaner] /\ k # NULL
  <1>1. pc[h] # "scanning" /\ k # NULL
    BY DEF RequestOK, WaitsFor
  <1>2. CASE Flushing(h) \/ StatusUpdating(h)
    <2>1. req[h].kind \in OneOrder
      BY <1>2 DEF Flushing, StatusUpdating, OneOrder
    <2> QED
      BY <1>1, <1>2, <2>1 DEF WaitsFor, RequestOK
  <1>3. CASE ~(Flushing(h) \/ StatusUpdating(h))
    <2>1. pc[h] = "loaded" /\ chg[h].jobs # Keep /\ k \in {clLock[req[h].cleaner]}
      BY <1>1, <1>3 DEF WaitsFor
    <2> QED
      BY <1>1, <2>1 DEF RequestOK
  <1> QED
    BY <1>2, <1>3

\* Requests that each write one order never deadlock: whoever holds an order's
\* lock waits for nothing, unless it is deleting a cleaner.
THEOREM DeadlockAlways == Spec => []DeadlockNeedsDeleteCleaner
  <1>1. ASSUME IInv, NEW S \in SUBSET Handlers, Cycle(S),
               \A h \in S : req[h].kind # "deleteCleaner"
        PROVE  FALSE
    <2>1. \A h \in S : HandlerOK(h) /\ RequestOK(h) /\ WaitsFor(h) # {}
      BY <1>1 DEF IInv, HandlerOK, Cycle
    <2>2. \A o \in Orders : ordLock[o] \notin S
      <3> SUFFICES ASSUME NEW o \in Orders, ordLock[o] \in S PROVE FALSE
        OBVIOUS
      <3>1. OrderLockOK(o) /\ ordLock[o] # NULL /\ ordLock[o] \in Handlers
        BY <1>1, NullAssumption DEF IInv
      <3>2. pc[ordLock[o]] \in {"locked", "aborting"}
        BY <1>1, <2>1, <3>1 DEF OrderLockOK, RequestOK
      <3> QED
        BY <1>1, <2>1, <3>1, <3>2, Settled
    <2>3. PICK h \in S : TRUE
      BY <1>1 DEF Cycle
    <2>4. PICK k \in S : k \in WaitsFor(h)
      BY <1>1, <2>3 DEF Cycle
    <2>5. req[h].cleaner \in Cleaners /\ k = clLock[req[h].cleaner] /\ k # NULL
      BY <1>1, <2>1, <2>2, <2>4, WaitsForHolder
    <2>6. pc[k] \in {"credited", "locked"} /\ req[k].kind = "status"
      BY <1>1, <2>5 DEF IInv, CleanerLockOK
    <2>7. PICK l \in S : l \in WaitsFor(k)
      BY <1>1, <2>4 DEF Cycle
    <2>8. pc[k] = "credited"
      BY <1>1, <2>6, <2>7, Settled
    <2> QED
      BY <1>1, <2>1, <2>2, <2>7, <2>8, WaitsForHolder
  <1>2. IInv => DeadlockNeedsDeleteCleaner
    BY <1>1 DEF DeadlockNeedsDeleteCleaner
  <1> QED
    BY <1>2, Inductive, PTL

------------------------------------------------------------------------------
(* OrderTx implements OrderClaim: the handlers' overlapping transactions   *)
(* change the order table as single steps would.                           *)

\* The empty tables are the abstract table's initial state.
LEMMA InitRefines == Init => Claims!Init
  BY DEF Init, Claims!Init

\* What accept_order's COMMIT writes: the order is still open, and whichever columns
\* the flush left out, the cleaner who asked has it at the next version.
LEMMA AcceptWrites ==
  ASSUME IInv, NEW h \in Handlers, FlushCommit(h), ~Abort(h), req[h].kind = "accept"
  PROVE  LET o == req[h].order IN
         /\ o \in Orders /\ req[h].cleaner \in Cleaners
         /\ row[o] \in Row /\ row[o] # NULL /\ row[o].status = "open"
         /\ row' = [row EXCEPT ![o] = [row[o] EXCEPT !.status = "accepted",
                                                     !.cleaner = req[h].cleaner,
                                                     !.version = row[o].version + 1]]
         /\ used' = used
  <1> DEFINE o == req[h].order
             d == chg[h]
             c == req[h].cleaner
  <1>1. /\ HandlerOK(h) /\ pc[h] = "locked" /\ o \in Orders /\ d \in Change
        /\ row \in [Orders -> Row \cup {NULL}]
    BY DEF IInv, TypeOK, FlushCommit, HandlerOK, RequestOK, OneOrder
  <1>2. ordLock[o] = h
    BY <1>1 DEF HandlerOK, WriterOK, OneOrder
  <1>3. row[o] \in Row /\ row[o] # NULL
    BY <1>1, <1>2, NullAssumption DEF IInv, OrderLockOK
  <1>4. /\ row[o].status = "open"
        /\ d.version = row[o].version + 1 /\ d.status = "accepted" /\ d.photos = Keep
        /\ d.slot = Keep /\ c \in Cleaners
        /\ d.cleaner = Assign(c, row[o].cleaner)
    BY <1>1 DEF HandlerOK, AcceptOK
  <1>5. row' = [row EXCEPT ![o] = Apply(row[o], d)] /\ used' = used
    BY DEF FlushCommit
  <1>6. d.status # Keep /\ d.version # Keep
    BY <1>3, <1>4, KeepAssumption DEF Row, Status
  <1>7. Apply(row[o], d).cleaner = c
    BY <1>1, <1>3, <1>4, ApplyColumns, KeepAssumption DEF Assign
  <1>8. Apply(row[o], d) = [row[o] EXCEPT !.status = "accepted", !.cleaner = c,
                                          !.version = row[o].version + 1]
    <2>1. /\ Apply(row[o], d).status = "accepted"
          /\ Apply(row[o], d).version = row[o].version + 1
          /\ Apply(row[o], d).photos = row[o].photos
          /\ Apply(row[o], d).slot = row[o].slot
          /\ Apply(row[o], d) \in Row
      BY <1>1, <1>3, <1>4, <1>6, ApplyColumns
    <2> HIDE DEF d, c
    <2> QED
      BY <1>3, <1>7, <2>1 DEF Row
  <1> QED
    BY <1>1, <1>3, <1>4, <1>5, <1>8

\* accept_order's COMMIT is a claim: it still finds the order open, and writes
\* the status, the cleaner and the next version.
LEMMA AcceptRefines ==
  ASSUME IInv, NEW h \in Handlers, FlushCommit(h), ~Abort(h), req[h].kind = "accept"
  PROVE  Claims!Next
  <1>1. PICK o \in Orders, c \in Cleaners :
          /\ row[o] \in Row /\ row[o] # NULL /\ row[o].status = "open"
          /\ row' = [row EXCEPT ![o] = [row[o] EXCEPT !.status = "accepted", !.cleaner = c,
                                                      !.version = row[o].version + 1]]
          /\ used' = used
    BY AcceptWrites
  <1>2. row \in [Orders -> Row \cup {NULL}]
    BY DEF IInv, TypeOK
  <1>3. Claims!Claim(o, c)
    BY <1>1, <1>2 DEF Claims!Claim
  <1> QED
    BY <1>1, <1>3 DEF Claims!Next

\* Any other UPDATE of an order overwrites columns of a row that is there, and
\* leaves its version and slot alone.
LEMMA OverwriteRefines ==
  ASSUME IInv, NEW h \in Handlers, req[h].kind # "accept",
         req[h].order \in Orders, ordLock[req[h].order] = h,
         row' = [row EXCEPT ![req[h].order] = Apply(row[req[h].order], chg[h])],
         UNCHANGED used
  PROVE  Claims!Next
  <1> DEFINE o == req[h].order
             d == chg[h]
             q == Apply(row[o], d)
  <1>1. HandlerOK(h) /\ d \in Change /\ row \in [Orders -> Row \cup {NULL}]
    BY DEF IInv, TypeOK
  <1>2. row[o] \in Row /\ row[o] # NULL
    BY <1>1, NullAssumption DEF IInv, OrderLockOK
  <1>3. d.version = Keep
    BY <1>1 DEF HandlerOK, AcceptOK
  <1>4. q \in Row /\ q.version = row[o].version /\ q.slot \in {row[o].slot, NULL}
    BY <1>1, <1>2, <1>3, ApplyColumns DEF Change
  <1> HIDE DEF q, d
  <1>5. /\ q.status \in Status /\ q.cleaner \in Cleaners \cup {NULL}
        /\ q.photos \in SUBSET Photos
    BY <1>4 DEF Row
  <1>6. q = [row[o] EXCEPT !.status = q.status, !.cleaner = q.cleaner,
                           !.slot = q.slot, !.photos = q.photos]
    BY <1>2, <1>4 DEF Row
  <1>7. row' = [row EXCEPT ![o].status = q.status, ![o].cleaner = q.cleaner,
                           ![o].slot = q.slot, ![o].photos = q.photos]
    BY <1>1, <1>2, <1>6 DEF q, d
  <1>8. Claims!Overwrite(o)
    <2>1. \E s \in Status, c \in Cleaners \cup {NULL}, t \in {row[o].slot, NULL},
             p \in SUBSET Photos :
            row' = [row EXCEPT ![o].status = s, ![o].cleaner = c, ![o].slot = t,
                               ![o].photos = p]
      <3> USE <1>4, <1>5
      <3> WITNESS q.status \in Status, q.cleaner \in Cleaners \cup {NULL},
                  q.slot \in {row[o].slot, NULL}, q.photos \in SUBSET Photos
      <3> QED
        BY <1>7
    <2> HIDE DEF o
    <2> QED
      BY <1>2, <2>1 DEF Claims!Overwrite, Claims!Status, Status
  <1> QED
    BY <1>8 DEF Claims!Next

\* delete_cleaner's COMMIT takes the cleaner off all of its orders at once: the
\* foreign key would have refused it otherwise.
LEMMA UnassignRefines ==
  ASSUME IInv, NEW h \in Handlers, CleanerCommit(h), ~Abort(h)
  PROVE  Claims!Next
  <1> DEFINE c == req[h].cleaner
  <1>1. /\ HandlerOK(h) /\ pc[h] = "locked" /\ req[h].kind = "deleteCleaner"
        /\ c \in Cleaners /\ row \in [Orders -> Row \cup {NULL}]
    BY DEF IInv, TypeOK, CleanerCommit, HandlerOK, RequestOK
  <1>2. /\ row' = [o \in Orders |-> IF ordLock[o] = h THEN Unassigned(o) ELSE row[o]]
        /\ UNCHANGED used
        /\ jobs[c] # NULL =>
             \A o \in Orders : row[o] # NULL /\ row[o].cleaner = c => ordLock[o] = h
    BY DEF CleanerCommit
  <1>3. \A o \in Orders : ordLock[o] = h => row[o] # NULL /\ row[o].cleaner = c
    BY <1>1, NullAssumption DEF IInv, OrderLockOK, OneOrder
  <1>4. \A o \in Orders : row[o] # NULL /\ row[o].cleaner = c => ordLock[o] = h
    BY <1>1, <1>2, NullAssumption DEF IInv, CleanerExists
  <1>5. row' = [o \in Orders |-> IF row[o] # NULL /\ row[o].cleaner = c
                                 THEN [row[o] EXCEPT !.cleaner = NULL] ELSE row[o]]
    BY <1>2, <1>3, <1>4 DEF Unassigned
  <1>6. Claims!Unassign(c)
    BY <1>2, <1>5 DEF Claims!Unassign
  <1> QED
    BY <1>1, <1>6 DEF Claims!Next

\* Every step of the handlers is one step of the abstract table, or none.
LEMMA StepRefines == IInv /\ [Next]_vars => [Claims!Next]_(Claims!vars)
  <1> SUFFICES ASSUME IInv, [Next]_vars, ~UNCHANGED <<row, used>> PROVE Claims!Next
    BY DEF Claims!vars
  <1>1. PICK h \in Handlers :
          \/ CreateCommit(h)
          \/ ~Abort(h) /\ (FlushCommit(h) \/ DeleteCommit(h) \/ StatusCommit(h))
          \/ ~Abort(h) /\ CleanerCommit(h)
    BY ZenonT(30) DEF Next, vars, Arrive, Run, Lock, CreateCheck, CreateRefused, AcceptSelect, PutSelect,
       CancelSelect, UploadSelect, DeleteSelect, StatusSelect, UnassignSelect,
       CommitUnchanged, UnassignDone, Finish, StatusAnswer, Rollback, Close, FlushLock, StatusCredit,
       StatusLock, UnassignLock, DeadlockAbort, Crash, Abort
  <1>2. /\ HandlerOK(h) /\ req[h] \in Request
        /\ row \in [Orders -> Row \cup {NULL}]
    BY DEF IInv, TypeOK
  <1>3. CASE CreateCommit(h)
    <2>1. PICK o \in Orders \ used :
            /\ used' = used \cup {o}
            /\ row' = [row EXCEPT ![o] = [status |-> "open", cleaner |-> NULL, version |-> 0,
                                          slot |-> req[h].slot, photos |-> {}]]
      BY <1>3 DEF CreateCommit
    <2>2. Claims!Create(o)
      BY <1>2, <2>1 DEF Claims!Create, Request
    <2> QED
      BY <2>2 DEF Claims!Next
  <1>4. CASE ~Abort(h) /\ FlushCommit(h)
    <2>1. CASE req[h].kind = "accept"
      BY <1>4, <2>1, AcceptRefines
    <2>2. CASE req[h].kind # "accept"
      <3>1. req[h].order \in Orders /\ ordLock[req[h].order] = h
        BY <1>2, <1>4 DEF FlushCommit, HandlerOK, RequestOK, WriterOK, OneOrder
      <3> QED
        BY <1>4, <2>2, <3>1, OverwriteRefines DEF FlushCommit
    <2> QED
      BY <2>1, <2>2
  <1>5. CASE DeleteCommit(h)
    <2>1. req[h].order \in Orders /\ row[req[h].order] # NULL
      BY <1>2, <1>5, NullAssumption
      DEF DeleteCommit, IInv, HandlerOK, RequestOK, WriterOK, OneOrder, OrderLockOK
    <2>2. Claims!Drop(req[h].order)
      BY <1>5, <2>1 DEF DeleteCommit, Claims!Drop
    <2> QED
      BY <2>1, <2>2 DEF Claims!Next
  <1>6. CASE StatusCommit(h)
    <2>1. req[h].order \in Orders /\ req[h].kind = "status"
      BY <1>2, <1>6 DEF StatusCommit, HandlerOK, RequestOK, OneOrder
    <2>2. ordLock[req[h].order] = h
      BY <1>6 DEF StatusCommit
    <2> QED
      BY <1>6, <2>1, <2>2, OverwriteRefines DEF StatusCommit
  <1>7. CASE ~Abort(h) /\ CleanerCommit(h)
    BY <1>7, UnassignRefines
  <1> QED
    BY <1>1, <1>3, <1>4, <1>5, <1>6, <1>7

\* The whole of OrderTx implements OrderClaim.
THEOREM Refinement == Spec => ClaimsRefined
  BY InitRefines, StepRefines, Inductive, PTL DEF Spec, Claims!Spec, ClaimsRefined

------------------------------------------------------------------------------
(* Who wins an order, and what that does to it.                            *)

\* A step in which no request wins an order.
Quiet == \A h \in Handlers, o \in Orders : ~Wins(h, o)

\* A request that goes on wins nothing, unless it is an accept that has committed.
LEMMA ProceedQuiet ==
  ASSUME TypeOK, NEW g \in Handlers, NEW p, NEW r, NEW d, Proceed(g, p, r, d),
         reply[g] # "ok", p # "committed" \/ r.kind # "accept"
  PROVE  Quiet
  BY ProceedEffect DEF Others, Quiet, Wins, Won

\* A request that raises wins nothing.
LEMMA RaiseQuiet ==
  ASSUME TypeOK, NEW g \in Handlers, NEW r, NEW c, Raise(g, r, c), c # "ok"
  PROVE  Quiet
  BY RaiseEffect DEF Others, Quiet, Wins, Won

\* An answer wins nothing that was not won by COMMIT.
LEMMA AnswerQuiet ==
  ASSUME TypeOK, NEW g \in Handlers, NEW c, Answer(g, c), c # "ok" \/ pc[g] = "committed"
  PROVE  Quiet
  BY AnswerEffect DEF Others, Quiet, Wins, Won

\* A request that is over wins nothing.
LEMMA ForgetQuiet ==
  ASSUME TypeOK, NEW g \in Handlers, Forget(g)
  PROVE  Quiet
  BY ForgetEffect DEF Others, Quiet, Wins, Won, NoRequest

\* Only an accept's COMMIT wins an order.
LEMMA QuietUnlessAccepted ==
  ASSUME IInv, NEW g \in Handlers, Arrive(g) \/ Run(g) \/ Lock(g) \/ DeadlockAbort(g) \/ Crash(g)
  PROVE  Quiet \/ (FlushCommit(g) /\ ~Abort(g) /\ req[g].kind = "accept")
  <1>0. /\ TypeOK /\ RequestOK(g) /\ pc[g] \in Places
        /\ pc[g] \notin {"aborting", "replied"} => reply[g] # "ok"
        /\ pc[g] = "aborting" => reply[g] # "ok"
    BY DEF IInv, HandlerOK, RequestOK, TypeOK
  <1>1. CASE Abort(g)
    BY <1>0, <1>1, AnswerQuiet DEF Abort
  <1>2. CASE Arrive(g)
    <2>1. reply[g] # "ok"
      BY <1>0, <1>2 DEF Arrive, CreateCheck, AcceptSelect, PutSelect, CancelSelect, UploadSelect,
         DeleteSelect, StatusSelect, UnassignSelect
    <2>2. \/ \E r, c : Raise(g, r, c) /\ c # "ok"
          \/ \E p, r, d : Proceed(g, p, r, d) /\ p # "committed"
          \/ \E r, d : Proceed(g, "committed", r, d) /\ r.kind # "accept"
      <3>1. CASE CreateCheck(g)
        BY <3>1 DEF CreateCheck
      <3>2. CASE AcceptSelect(g)
        BY <3>2 DEF AcceptSelect
      <3>3. CASE PutSelect(g)
        BY <3>3 DEF PutSelect
      <3>4. CASE CancelSelect(g)
        BY <3>4 DEF CancelSelect
      <3>5. CASE UploadSelect(g)
        <4>1. \A o : Ask("upload", o, NULL, NULL).kind # "accept"
          BY DEF Ask
        <4> QED
          BY <3>5, <4>1 DEF UploadSelect
      <3>6. CASE DeleteSelect(g)
        BY <3>6 DEF DeleteSelect
      <3>7. CASE StatusSelect(g)
        BY <3>7 DEF StatusSelect
      <3>8. CASE UnassignSelect(g)
        BY <3>8 DEF UnassignSelect
      <3> QED
        BY <1>2, <3>1, <3>2, <3>3, <3>4, <3>5, <3>6, <3>7, <3>8 DEF Arrive
    <2> QED
      BY <1>0, <2>1, <2>2, ProceedQuiet, RaiseQuiet
  <1>3. CASE Lock(g) /\ ~Abort(g)
    <2>1. pc[g] \notin {"aborting", "replied"} /\ (CleanerCommit(g) => req[g].kind # "accept")
      BY <1>3 DEF Lock, FlushLock, Flushing, StatusCredit, StatusLock, StatusUpdating, UnassignLock,
         CleanerCommit
    <2>2. CASE UnassignLock(g)
      BY <2>2 DEF UnassignLock, Quiet, Wins, Won
    <2>3. CASE CleanerCommit(g)
      BY <1>0, <1>3, <2>1, <2>3, ProceedQuiet DEF CleanerCommit
    <2>4. CASE FlushLock(g)
      BY <1>0, <2>1, <2>4, ProceedQuiet, RaiseQuiet DEF FlushLock, Flushing
    <2>5. CASE StatusCredit(g)
      BY <1>0, <2>1, <2>5, ProceedQuiet, RaiseQuiet DEF StatusCredit
    <2>6. CASE StatusLock(g)
      BY <1>0, <2>1, <2>6, ProceedQuiet DEF StatusLock
    <2> QED
      BY <1>3, <2>2, <2>3, <2>4, <2>5, <2>6 DEF Lock
  <1>4. CASE Run(g) /\ ~Abort(g)
    <2>1. CASE CreateCommit(g)
      <3>1. PICK o \in Orders : Proceed(g, "committed", [req[g] EXCEPT !.order = o], NoChange)
        BY <2>1 DEF CreateCommit
      <3>2. [req[g] EXCEPT !.order = o].kind # "accept"
        BY <1>0, <2>1 DEF CreateCommit, TypeOK, Request
      <3> QED
        BY <1>0, <2>1, <3>1, <3>2, ProceedQuiet DEF CreateCommit
    <2>2. CASE CreateRefused(g)
      BY <1>4, <2>2 DEF CreateRefused
    <2>3. CASE CommitUnchanged(g)
      BY <1>0, <2>3, ProceedQuiet DEF CommitUnchanged
    <2>4. CASE FlushCommit(g)
      BY <1>0, <1>4, <2>4, ProceedQuiet DEF FlushCommit
    <2>5. CASE DeleteCommit(g)
      BY <1>0, <2>5, ProceedQuiet DEF DeleteCommit
    <2>6. CASE StatusCommit(g)
      BY <1>0, <2>6, ProceedQuiet DEF StatusCommit
    <2>7. CASE UnassignDone(g)
      BY <1>0, <2>7, ProceedQuiet, RaiseQuiet DEF UnassignDone
    <2>8. CASE Finish(g)
      <3>1. \E c : Answer(g, c)
        BY <2>8 DEF Finish, StatusAnswer
      <3> QED
        BY <1>0, <2>8, <3>1, AnswerQuiet DEF Finish
    <2>9. CASE Rollback(g)
      BY <1>0, <2>9, AnswerQuiet DEF Rollback
    <2>10. CASE Close(g)
      BY <1>0, <2>10, ForgetQuiet DEF Close
    <2> QED
      BY <1>4, <2>1, <2>2, <2>3, <2>4, <2>5, <2>6, <2>7, <2>8, <2>9, <2>10 DEF Run
  <1>5. CASE Crash(g)
    BY <1>0, <1>5, ForgetQuiet DEF Crash
  <1> QED
    BY <1>1, <1>2, <1>3, <1>4, <1>5 DEF DeadlockAbort

\* An accept's COMMIT wins its order and no other.
LEMMA AcceptWins ==
  ASSUME IInv, NEW g \in Handlers, FlushCommit(g), ~Abort(g), req[g].kind = "accept",
         NEW h \in Handlers, NEW o \in Orders
  PROVE  Wins(h, o) <=> h = g /\ o = req[g].order
  <1>1. /\ TypeOK /\ pc[g] = "locked" /\ reply[g] = "none"
        /\ Proceed(g, "committed", req[g], NoChange)
    BY DEF IInv, HandlerOK, RequestOK, FlushCommit
  <1>2. Others(g) /\ pc'[g] = "committed" /\ req'[g] = req[g] /\ reply'[g] = reply[g]
    BY <1>1, ProceedEffect
  <1> QED
    BY <1>1, <1>2 DEF Others, Wins, Won

\* What the other steps do to an order leaves its version alone.
LEMMA VersionStays ==
  ASSUME IInv, NEW g \in Handlers, Arrive(g) \/ Run(g) \/ Lock(g) \/ DeadlockAbort(g) \/ Crash(g),
         ~(FlushCommit(g) /\ ~Abort(g) /\ req[g].kind = "accept"), NEW o \in Orders
  PROVE  ~Moved(o)
  <1> SUFFICES ASSUME row[o] # NULL, row'[o] # NULL, row'[o] # row[o]
               PROVE  row'[o].version = row[o].version
    BY DEF Moved
  <1>0. /\ TypeOK /\ HandlerOK(g) /\ row[o] \in Row /\ chg[g] \in Change
    BY DEF IInv, TypeOK
  <1>1. \/ CreateCommit(g)
        \/ ~Abort(g) /\ (FlushCommit(g) \/ DeleteCommit(g) \/ StatusCommit(g))
        \/ ~Abort(g) /\ CleanerCommit(g)
    BY ZenonT(30) DEF Arrive, Run, Lock, CreateCheck, CreateRefused, AcceptSelect, PutSelect,
       CancelSelect, UploadSelect, DeleteSelect, StatusSelect, UnassignSelect,
       CommitUnchanged, UnassignDone, Finish, StatusAnswer, Rollback, Close, FlushLock,
       StatusCredit, StatusLock, UnassignLock, DeadlockAbort, Crash, Abort
  <1>2. CASE CreateCommit(g)
    BY <1>0, <1>2 DEF CreateCommit, TypeOK, IInv, UsedInv
  <1>3. CASE DeleteCommit(g)
    BY <1>0, <1>3 DEF DeleteCommit, TypeOK
  <1>4. CASE (FlushCommit(g) /\ ~Abort(g)) \/ StatusCommit(g)
    <2>1. chg[g].version = Keep
      BY <1>0, <1>4 DEF HandlerOK, AcceptOK, StatusCommit
    <2>2. row'[o] = Apply(row[o], chg[g])
      BY <1>0, <1>4 DEF FlushCommit, StatusCommit, TypeOK
    <2> QED
      BY <1>0, <2>1, <2>2, ApplyColumns
  <1>5. CASE CleanerCommit(g) /\ ~Abort(g)
    BY <1>0, <1>5 DEF CleanerCommit, Unassigned, Row
  <1> QED
    BY <1>1, <1>2, <1>3, <1>4, <1>5

\* What a step may do to an order: only an accept that commits moves its version,
\* and then the cleaner who asked has it.
THEOREM AcceptGivesAlways == Spec => AcceptGives
  <1>1. ASSUME IInv, Next
        PROVE  \A o \in Orders :
                 /\ \A h \in Handlers : Wins(h, o) => Given(h, o)
                 /\ Moved(o) => \E h \in Handlers : Wins(h, o)
    <2>1. PICK g \in Handlers :
            Arrive(g) \/ Run(g) \/ Lock(g) \/ DeadlockAbort(g) \/ Crash(g)
      BY <1>1 DEF Next
    <2>2. CASE FlushCommit(g) /\ ~Abort(g) /\ req[g].kind = "accept"
      <3> DEFINE r == [row[req[g].order] EXCEPT !.status  = "accepted",
                                                !.cleaner = req[g].cleaner,
                                                !.version = row[req[g].order].version + 1]
      <3>1. /\ req[g].order \in Orders
            /\ row[req[g].order] # NULL /\ row[req[g].order].status = "open"
            /\ row' = [row EXCEPT ![req[g].order] = r]
        BY <1>1, <2>2, AcceptWrites
      <3>2. \A h \in Handlers, o \in Orders : Wins(h, o) <=> h = g /\ o = req[g].order
        BY <1>1, <2>2, AcceptWins
      <3>3. row'[req[g].order] = r /\ \A o \in Orders : o # req[g].order => row'[o] = row[o]
        BY <1>1, <3>1 DEF IInv, TypeOK
      <3>4. Given(g, req[g].order)
        BY <3>1, <3>3 DEF Given
      <3>5. \A o \in Orders : Moved(o) => o = req[g].order
        BY <3>3 DEF Moved
      <3> QED
        BY <3>2, <3>4, <3>5
    <2>3. CASE ~(FlushCommit(g) /\ ~Abort(g) /\ req[g].kind = "accept")
      <3>1. Quiet
        BY <1>1, <2>1, <2>3, QuietUnlessAccepted
      <3>2. \A o \in Orders : ~Moved(o)
        BY <1>1, <2>1, <2>3, VersionStays
      <3> QED
        BY <3>1, <3>2 DEF Quiet
    <2> QED
      BY <2>2, <2>3
  <1> QED
    BY <1>1, Inductive, PTL DEF Spec, AcceptGives
==============================================================================
