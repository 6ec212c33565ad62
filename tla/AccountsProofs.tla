---------------------------- MODULE AccountsProofs ----------------------------
(***************************************************************************)
(* Theorems about Accounts, for any tables, codes and requests, and that   *)
(* its transactions implement the tables of HostTable.                     *)
(***************************************************************************)
EXTENDS Accounts, TLAPS

Drawing == {"host drawn", "cleaner drawn"}
Deleting == {"properties", "orders", "cleared", "aborting"}

\* What the invariant says of the tables, of registrations, of deletes and of locks.
TablesInv == References /\ SharedCodeExcused /\ \A o \in Orders : RowOK(o)
DrawsInv == \A h \in Handlers : DrawOK(h)
DeletesInv == \A h \in Handlers : DeleteOK(h)
LocksInv == \A r \in Rows : LockOK(r)

------------------------------------------------------------------------------
(* Lemmas about the helpers                                                *)

\* The invariant, sorted by what a step can disturb.
LEMMA InvParts == AccountsInv <=> TypeOK /\ TablesInv /\ DrawsInv /\ DeletesInv /\ LocksInv
  BY DEF AccountsInv, TablesInv, DrawsInv, DeletesInv, LocksInv

\* The same of the invariant after a step.
LEMMA InvPartsNext ==
  AccountsInv' <=> TypeOK' /\ TablesInv' /\ DrawsInv' /\ DeletesInv' /\ LocksInv'
  BY DEF AccountsInv, TablesInv, DrawsInv, DeletesInv, LocksInv

\* The marks are no ids, codes or requests, and ids of different tables differ.
LEMMA Apart ==
  /\ \A m \in {NULL, Unborn, Deleted} :
       m \notin Hosts /\ m \notin Cleaners /\ m \notin Codes /\ m \notin LongCodes
  /\ NULL \notin Handlers
  /\ Unborn # Deleted /\ Unborn # NULL /\ Deleted # NULL
  /\ \A r \in Properties : r \notin Orders
  /\ \A a \in Hosts : a \notin Cleaners
  /\ \A c \in ShortCodes : c \notin LongCodes
  BY TablesAssumption, MarksAssumption DEF Accts, Codes

\* The tables are as they were, and no race is forgotten.
LEMMA TablesSame ==
  ASSUME TablesInv, UNCHANGED tables, raced \subseteq raced'
  PROVE  TablesInv'
  BY DEF TablesInv, References, SharedCodeExcused, RowOK, Existing, tables

\* Registrations go on, or end, and no account appears.
LEMMA DrawsSame ==
  ASSUME TypeOK, DrawsInv, UNCHANGED code, raced \subseteq raced',
         \A h \in Handlers :
           pc'[h] \in Drawing => pc'[h] = pc[h] /\ draw'[h] = draw[h]
  PROVE  DrawsInv'
  BY DEF DrawsInv, DrawOK, Drawing

\* A delete whose rows still match goes on, or locks a row, or ends.
LEMMA DeletesSame ==
  ASSUME TypeOK, DeletesInv, UNCHANGED <<code, host>>, NEW S \in SUBSET Handlers,
         \A h \in S :
           /\ pc'[h] = pc[h] /\ subject'[h] = subject[h]
           /\ todo'[h] \subseteq todo[h],
         \A h \in Handlers \ S : pc'[h] \notin Deleting /\ todo'[h] = {}
  PROVE  DeletesInv'
  <1>1. ASSUME NEW h \in S
        PROVE  DeleteOK(h)'
    BY DEF DeletesInv, DeleteOK
  <1>2. ASSUME NEW h \in Handlers \ S
        PROVE  DeleteOK(h)'
    BY <1>2 DEF DeleteOK, Deleting
  <1> QED
    BY <1>1, <1>2 DEF DeletesInv

\* Locks are kept by deletes that go on.
LEMMA LocksSame ==
  ASSUME TypeOK, LocksInv, UNCHANGED <<host, cleaner>>,
         \A r \in Rows : lock'[r] \in {NULL, lock[r]},
         \A r \in Rows : lock'[r] # NULL =>
           pc'[lock'[r]] \in Deleting /\ subject'[lock'[r]] = subject[lock'[r]]
  PROVE  LocksInv'
  BY DEF LocksInv, LockOK, Names, Deleting

\* The end of a request.
LEMMA LeaveOK ==
  ASSUME TypeOK, NEW h \in Handlers, Leave(h)
  PROVE  /\ pc' \in [Handlers -> Places] /\ subject' \in [Handlers -> Accts \cup {NULL}]
         /\ draw' \in [Handlers -> LongCodes \cup {NULL}]
         /\ todo' \in [Handlers -> SUBSET Rows]
         /\ pc'[h] = "idle" /\ todo'[h] = {}
         /\ \A k \in Handlers \ {h} :
              /\ pc'[k] = pc[k] /\ subject'[k] = subject[k]
              /\ draw'[k] = draw[k] /\ todo'[k] = todo[k]
  BY DEF TypeOK, Leave, Places

\* A registration has no locks.
LEMMA DrawingHasNoLock ==
  ASSUME LocksInv, NEW h, pc[h] \notin Deleting, NEW r \in Rows, lock[r] = h, h # NULL
  PROVE  FALSE
  BY DEF LocksInv, LockOK, Deleting

------------------------------------------------------------------------------
(* Registrations                                                           *)

\* A code that is drawn is free, or raced for.
LEMMA DrawStepOK ==
  ASSUME AccountsInv, NEW h \in Handlers, Draw(h)
  PROVE  AccountsInv'
  <1>1. TypeOK /\ TablesInv /\ DrawsInv /\ DeletesInv /\ LocksInv /\ pc[h] = "idle"
    BY InvParts DEF Draw
  <1>2. PICK place \in Drawing, c \in LongCodes :
          /\ \A a \in TableOf(place) : code[a] # c
          /\ pc' = [pc EXCEPT ![h] = place]
          /\ draw' = [draw EXCEPT ![h] = c]
          /\ raced' = IF \E k \in Handlers : pc[k] = place /\ draw[k] = c
                      THEN raced \cup {<<c, place>>} ELSE raced
    BY DEF Draw, Drawing
  <1>3. UNCHANGED <<tables, lock, subject, todo>>
    BY DEF Draw
  <1>4. TypeOK'
    <2>1. raced' \in SUBSET (LongCodes \X {"host drawn", "cleaner drawn"})
      <3>1. <<c, place>> \in LongCodes \X {"host drawn", "cleaner drawn"}
        BY DEF Drawing
      <3>2. raced' \subseteq raced \cup {<<c, place>>}
        BY <1>2
      <3> QED
        BY <1>1, <3>1, <3>2 DEF TypeOK
    <2>2. pc' \in [Handlers -> Places] /\ draw' \in [Handlers -> LongCodes \cup {NULL}]
      BY <1>1, <1>2 DEF TypeOK, Places, Drawing
    <2> QED
      BY <1>1, <1>3, <2>1, <2>2 DEF TypeOK, tables
  <1>5. TablesInv'
    BY <1>1, <1>2, <1>3, TablesSame
  <1>6. ASSUME NEW k \in Handlers
        PROVE  DrawOK(k)'
    <2>1. pc'[h] = place /\ draw'[h] = c /\ code' = code
      BY <1>1, <1>2, <1>3 DEF TypeOK, tables
    <2>2. CASE k = h
      <3>1. CASE \E g \in Handlers : pc[g] = place /\ draw[g] = c
        <4>1. <<draw'[h], pc'[h]>> \in raced' /\ draw'[h] \in LongCodes
          BY <1>2, <2>1, <3>1
        <4> QED
          BY <2>2, <4>1 DEF DrawOK
      <3>2. CASE ~ \E g \in Handlers : pc[g] = place /\ draw[g] = c
        BY <1>1, <1>2, <2>1, <2>2, <3>2 DEF TypeOK, DrawOK
      <3> QED
        BY <3>1, <3>2
    <2>3. CASE k # h
      <3>1. pc'[k] = pc[k] /\ draw'[k] = draw[k] /\ DrawOK(k)
        BY <1>1, <1>2, <2>3 DEF TypeOK, DrawsInv
      <3>2. CASE pc[k] = place /\ draw[k] = c
        <4>1. <<draw'[k], pc'[k]>> \in raced' /\ draw'[k] \in LongCodes
          BY <1>2, <3>1, <3>2
        <4> QED
          BY <4>1 DEF DrawOK
      <3>3. CASE ~(pc[k] = place /\ draw[k] = c)
        BY <1>1, <1>2, <2>1, <3>1, <3>3 DEF TypeOK, DrawOK
      <3> QED
        BY <3>2, <3>3
    <2> QED
      BY <2>2, <2>3
  <1>7. DeletesInv'
    <2>1. pc'[h] \notin Deleting /\ todo'[h] = {}
      BY <1>1, <1>2, <1>3 DEF TypeOK, Drawing, Deleting, DeletesInv, DeleteOK
    <2> DEFINE S == Handlers \ {h}
    <2>2. \A k \in S : pc'[k] = pc[k] /\ subject'[k] = subject[k] /\ todo'[k] \subseteq todo[k]
      BY <1>1, <1>2, <1>3 DEF TypeOK
    <2>3. \A k \in Handlers \ S : pc'[k] \notin Deleting /\ todo'[k] = {}
      BY <2>1
    <2>4. S \in SUBSET Handlers /\ UNCHANGED <<code, host>>
      BY <1>3 DEF tables
    <2> HIDE DEF S
    <2> QED
      BY <1>1, <2>2, <2>3, <2>4, DeletesSame
  <1>8. LocksInv'
    <2>1. ASSUME NEW r \in Rows, lock'[r] # NULL
          PROVE  /\ pc'[lock'[r]] \in Deleting
                 /\ subject'[lock'[r]] = subject[lock'[r]]
      <3>1. lock'[r] = lock[r] /\ lock[r] \in Handlers /\ pc[lock[r]] \in Deleting
        BY <1>1, <1>3, <2>1 DEF TypeOK, LocksInv, LockOK, Deleting
      <3>2. lock[r] # h
        BY <1>1, <3>1 DEF Deleting
      <3> QED
        BY <1>1, <1>2, <1>3, <3>1, <3>2 DEF TypeOK
    <2> QED
      BY <1>1, <1>3, <2>1, LocksSame DEF tables
  <1> QED
    BY <1>4, <1>5, <1>6, <1>7, <1>8, InvPartsNext DEF DrawsInv

\* An account appears with a code that is new in its table, or excused.
LEMMA OpenTables ==
  ASSUME TypeOK, TablesInv, NEW a \in Accts, NEW c \in Codes, code[a] = Unborn,
         code' = [code EXCEPT ![a] = c], UNCHANGED <<host, cleaner, raced>>,
         \A place \in Drawing : a \in TableOf(place) =>
           \/ c \in ShortCodes \/ <<c, place>> \in raced
           \/ \A b \in TableOf(place) : code[b] # c
  PROVE  TablesInv'
  <1>1. \A b \in Accts : code'[b] = IF b = a THEN c ELSE code[b]
    BY DEF TypeOK
  <1>2. References'
    BY <1>1, Apart DEF TablesInv, References, Existing, Accts
  <1>3. SharedCodeExcused'
    <2> SUFFICES ASSUME NEW place \in Drawing, NEW d \in TableOf(place),
                        NEW b \in TableOf(place), d \in Existing', b \in Existing',
                        d # b, code'[d] = code'[b]
                 PROVE  code'[d] \in ShortCodes \/ <<code'[d], place>> \in raced'
      BY DEF SharedCodeExcused, Drawing
    <2>1. d \in Accts /\ b \in Accts
      BY DEF TableOf, Accts
    <2>2. CASE d = a \/ b = a
      BY <1>1, <2>1, <2>2
    <2>3. CASE d # a /\ b # a
      <3>1. d \in Existing /\ b \in Existing /\ code'[d] = code[d] /\ code'[b] = code[b]
        BY <1>1, <2>1, <2>3 DEF Existing
      <3>2. code[d] \in ShortCodes \/ <<code[d], place>> \in raced
        BY <3>1 DEF TablesInv, SharedCodeExcused, Drawing
      <3> QED
        BY <3>1, <3>2
    <2> QED
      BY <2>2, <2>3
  <1>4. \A o \in Orders : RowOK(o)'
    BY DEF TablesInv, RowOK
  <1> QED
    BY <1>2, <1>3, <1>4 DEF TablesInv

\* register inserts its account under the code it drew.
LEMMA RegisterOK ==
  ASSUME AccountsInv, NEW h \in Handlers, Register(h)
  PROVE  AccountsInv'
  <1>1. /\ TypeOK /\ TablesInv /\ DrawsInv /\ DeletesInv /\ LocksInv
        /\ Leave(h) /\ UNCHANGED <<host, cleaner, lock, raced>>
        /\ pc[h] \in Drawing
    BY InvParts DEF Register, Drawing
  <1>2. PICK a \in TableOf(pc[h]) : code[a] = Unborn /\ code' = [code EXCEPT ![a] = draw[h]]
    BY DEF Register
  <1>3. a \in Accts /\ draw[h] \in LongCodes /\ DrawOK(h)
    BY <1>1 DEF DrawsInv, DrawOK, Drawing, TableOf, Accts
  <1>4. \A b \in Accts : code'[b] = IF b = a THEN draw[h] ELSE code[b]
    BY <1>1, <1>2 DEF TypeOK
  <1>5. TypeOK'
    BY <1>1, <1>2, <1>3, LeaveOK DEF TypeOK, Codes
  <1>6. ASSUME NEW place \in Drawing, a \in TableOf(place)
        PROVE  place = pc[h]
    <2>1. CASE pc[h] = "host drawn"
      <3>1. a \in Hosts
        BY <1>2, <2>1 DEF TableOf
      <3> QED
        BY <1>6, <2>1, <3>1, Apart DEF Drawing, TableOf
    <2>2. CASE pc[h] = "cleaner drawn"
      <3>1. a \in Cleaners
        BY <1>2, <2>2 DEF TableOf
      <3> QED
        BY <1>6, <2>2, <3>1, Apart DEF Drawing, TableOf
    <2> QED
      BY <1>1, <2>1, <2>2 DEF Drawing
  <1>7. TablesInv'
    <2>1. ASSUME NEW place \in Drawing, a \in TableOf(place)
          PROVE  \/ draw[h] \in ShortCodes \/ <<draw[h], place>> \in raced
                 \/ \A b \in TableOf(place) : code[b] # draw[h]
      BY <1>1, <1>3, <1>6, <2>1 DEF DrawOK, Drawing
    <2> QED
      BY <1>1, <1>2, <1>3, <2>1, OpenTables DEF Codes
  <1>8. ASSUME NEW k \in Handlers
        PROVE  DrawOK(k)'
    <2>1. CASE k = h
      BY <1>1, <2>1, LeaveOK DEF DrawOK
    <2>2. CASE k # h
      <3>1. pc'[k] = pc[k] /\ draw'[k] = draw[k] /\ DrawOK(k) /\ raced' = raced
        BY <1>1, <2>2, LeaveOK DEF DrawsInv
      <3> SUFFICES ASSUME pc[k] \in Drawing, <<draw[k], pc[k]>> \notin raced
                   PROVE  /\ \A b \in TableOf(pc[k]) : code'[b] # draw[k]
                          /\ \A g \in Handlers : g # k /\ pc'[g] = pc[k] => draw'[g] # draw[k]
        BY <3>1 DEF DrawOK, Drawing
      <3>2. /\ \A b \in TableOf(pc[k]) : code[b] # draw[k]
            /\ \A g \in Handlers : g # k /\ pc[g] = pc[k] => draw[g] # draw[k]
        BY <3>1 DEF DrawOK, Drawing
      <3>3. ASSUME NEW b \in TableOf(pc[k])
            PROVE  code'[b] # draw[k]
        <4>1. b \in Accts
          BY DEF TableOf, Accts
        <4>2. CASE b = a
          BY <1>1, <1>4, <1>6, <2>2, <3>2, <3>3, <4>1, <4>2
        <4>3. CASE b # a
          BY <1>4, <3>2, <4>1, <4>3
        <4> QED
          BY <4>2, <4>3
      <3>4. ASSUME NEW g \in Handlers, g # k, pc'[g] = pc[k]
            PROVE  draw'[g] # draw[k]
        <4>1. g # h
          BY <1>1, <3>4, LeaveOK DEF Drawing
        <4> QED
          BY <1>1, <3>2, <3>4, <4>1, LeaveOK
      <3> QED
        BY <3>3, <3>4
    <2> QED
      BY <2>1, <2>2
  <1>9. ASSUME NEW k \in Handlers
        PROVE  DeleteOK(k)'
    <2>1. CASE k = h
      BY <1>1, <2>1, LeaveOK DEF DeleteOK
    <2>2. CASE k # h
      <3>1. /\ pc'[k] = pc[k] /\ subject'[k] = subject[k] /\ todo'[k] = todo[k]
            /\ DeleteOK(k) /\ host' = host
        BY <1>1, <2>2, LeaveOK DEF DeletesInv
      <3>2. pc[k] = "cleared" => code'[subject[k]] # Unborn
        BY <1>3, <1>4, <3>1, Apart DEF DeleteOK
      <3> QED
        BY <3>1, <3>2 DEF DeleteOK
    <2> QED
      BY <2>1, <2>2
  <1>10. LocksInv'
    <2>1. ASSUME NEW r \in Rows, lock[r] # NULL
          PROVE  lock[r] \in Handlers \ {h} /\ pc[lock[r]] \in Deleting
      BY <1>1, <2>1 DEF TypeOK, LocksInv, LockOK, Deleting, Drawing
    <2> QED
      BY <1>1, <2>1, LeaveOK, LocksSame
  <1> QED
    BY <1>5, <1>7, <1>8, <1>9, <1>10, InvPartsNext DEF DrawsInv, DeletesInv

\* An account that is entered without a look at the codes has a short one.
LEMMA CreateAccountOK ==
  ASSUME AccountsInv, NEW a \in Accts, CreateAccount(a)
  PROVE  AccountsInv'
  <1>1. /\ TypeOK /\ TablesInv /\ DrawsInv /\ DeletesInv /\ LocksInv /\ code[a] = Unborn
        /\ UNCHANGED <<host, cleaner, lock, handlers, raced>>
    BY InvParts DEF CreateAccount
  <1>2. PICK c \in ShortCodes : code' = [code EXCEPT ![a] = c]
    BY DEF CreateAccount
  <1>3. \A b \in Accts : code'[b] = IF b = a THEN c ELSE code[b]
    BY <1>1, <1>2 DEF TypeOK
  <1>4. TypeOK'
    BY <1>1, <1>2 DEF TypeOK, Codes, handlers
  <1>5. TablesInv'
    BY <1>1, <1>2, OpenTables DEF Codes
  <1>6. ASSUME NEW k \in Handlers
        PROVE  DrawOK(k)'
    <2>1. \A b \in TableOf(pc[k]) : b \in Accts
      BY DEF TableOf, Accts
    <2> QED
      BY <1>1, <1>3, <2>1, Apart DEF DrawsInv, DrawOK, handlers
  <1>7. ASSUME NEW k \in Handlers
        PROVE  DeleteOK(k)'
    <2>1. pc[k] = "cleared" => code'[subject[k]] # Unborn
      BY <1>1, <1>3, Apart DEF DeletesInv, DeleteOK, Codes
    <2> QED
      BY <1>1, <2>1 DEF DeletesInv, DeleteOK, handlers
  <1>8. LocksInv'
    BY <1>1 DEF LocksInv, LockOK, Names, handlers
  <1> QED
    BY <1>4, <1>5, <1>6, <1>7, <1>8, InvPartsNext DEF DrawsInv, DeletesInv

------------------------------------------------------------------------------
(* Rows                                                                    *)

\* A row that comes into being names accounts that exist, and nobody waits for it.
LEMMA EnterRowOK ==
  ASSUME AccountsInv, NEW r \in Rows, EnterRow(r)
  PROVE  AccountsInv'
  <1>1. /\ TypeOK /\ TablesInv /\ DrawsInv /\ DeletesInv /\ LocksInv /\ host[r] = Unborn
        /\ UNCHANGED <<code, cleaner, lock, handlers, raced>>
    BY InvParts DEF EnterRow
  <1>2. PICK u \in (Hosts \cap Existing) \cup {NULL} : host' = [host EXCEPT ![r] = u]
    BY DEF EnterRow
  <1>3. \A q \in Rows : host'[q] = IF q = r THEN u ELSE host[q]
    BY <1>1, <1>2 DEF TypeOK
  <1>4. TypeOK'
    BY <1>1, <1>2 DEF TypeOK, handlers
  <1>5. TablesInv'
    <2>1. References' /\ SharedCodeExcused'
      BY <1>1, <1>3, Apart DEF TablesInv, References, SharedCodeExcused, Existing
    <2>2. \A o \in Orders : RowOK(o)'
      BY <1>1, <1>3, Apart DEF TablesInv, RowOK, Rows
    <2> QED
      BY <2>1, <2>2 DEF TablesInv
  <1>6. DrawsInv'
    BY <1>1, DrawsSame DEF handlers
  <1>7. ASSUME NEW k \in Handlers
        PROVE  DeleteOK(k)'
    <2>1. DeleteOK(k) /\ todo[k] \subseteq Rows
      BY <1>1 DEF DeletesInv, TypeOK
    <2>2. subject[k] \in Hosts => r \notin todo[k]
      BY <1>1, <2>1, Apart DEF DeleteOK
    <2> QED
      BY <1>1, <1>3, <2>1, <2>2 DEF DeleteOK, handlers
  <1>8. ASSUME NEW q \in Rows
        PROVE  LockOK(q)'
    <2>1. CASE q = r
      <3>1. lock[r] = NULL
        <4> SUFFICES ASSUME lock[r] # NULL PROVE FALSE
          OBVIOUS
        <4>1. lock[r] \in Handlers /\ pc[lock[r]] \in Deleting /\ Names(r, subject[lock[r]])
          BY <1>1 DEF TypeOK, LocksInv, LockOK, Deleting
        <4>2. subject[lock[r]] \in Accts
          BY <1>1, <4>1 DEF DeletesInv, DeleteOK, Deleting
        <4>3. r \in Orders => cleaner[r] = NULL
          BY <1>1 DEF TablesInv, RowOK
        <4> QED
          BY <1>1, <4>1, <4>2, <4>3, Apart DEF Names, Accts
      <3> QED
        BY <1>1, <2>1, <3>1 DEF LockOK
    <2>2. CASE q # r
      BY <1>1, <1>3, <2>2 DEF LocksInv, LockOK, Names, handlers
    <2> QED
      BY <2>1, <2>2
  <1> QED
    BY <1>4, <1>5, <1>6, <1>7, <1>8, InvPartsNext DEF DeletesInv, LocksInv

\* An endpoint that sets the cleaner of an order, which no delete has locked.
LEMMA AssignOrderOK ==
  ASSUME AccountsInv, NEW o \in Orders, AssignOrder(o)
  PROVE  AccountsInv'
  <1>1. /\ TypeOK /\ TablesInv /\ DrawsInv /\ DeletesInv /\ LocksInv
        /\ o \in Present /\ lock[o] = NULL /\ UNCHANGED <<code, host, lock, handlers, raced>>
    BY InvParts DEF AssignOrder
  <1>2. PICK c \in (Cleaners \cap Existing) \cup {NULL} : cleaner' = [cleaner EXCEPT ![o] = c]
    BY DEF AssignOrder
  <1>3. \A q \in Orders : cleaner'[q] = IF q = o THEN c ELSE cleaner[q]
    BY <1>1, <1>2 DEF TypeOK
  <1>4. TypeOK'
    BY <1>1, <1>2 DEF TypeOK, handlers
  <1>5. TablesInv'
    <2>1. References' /\ SharedCodeExcused'
      BY <1>1, <1>3, Apart DEF TablesInv, References, SharedCodeExcused, Existing
    <2>2. \A q \in Orders : RowOK(q)'
      BY <1>1, <1>3, Apart DEF TablesInv, RowOK, Present
    <2> QED
      BY <2>1, <2>2 DEF TablesInv
  <1>6. DrawsInv' /\ DeletesInv'
    BY <1>1, DrawsSame DEF DeletesInv, DeleteOK, handlers
  <1>7. LocksInv'
    BY <1>1, <1>3 DEF LocksInv, LockOK, Names, handlers
  <1> QED
    BY <1>4, <1>5, <1>6, <1>7, InvPartsNext

\* delete_order, of an order that no delete of an account has locked.
LEMMA DropOrderOK ==
  ASSUME AccountsInv, NEW o \in Orders, DropOrder(o)
  PROVE  AccountsInv'
  <1>1. /\ TypeOK /\ TablesInv /\ DrawsInv /\ DeletesInv /\ LocksInv
        /\ o \in Rows /\ lock[o] = NULL /\ UNCHANGED <<code, lock, handlers, raced>>
    BY InvParts DEF DropOrder, Rows
  <1>2. /\ \A q \in Rows : host'[q] = IF q = o THEN Deleted ELSE host[q]
        /\ \A q \in Orders : cleaner'[q] = IF q = o THEN NULL ELSE cleaner[q]
    BY <1>1 DEF TypeOK, DropOrder
  <1>3. TypeOK'
    BY <1>1 DEF TypeOK, DropOrder, handlers
  <1>4. TablesInv'
    <2>1. References' /\ SharedCodeExcused'
      BY <1>1, <1>2, Apart DEF TablesInv, References, SharedCodeExcused, Existing
    <2>2. \A q \in Orders : RowOK(q)'
      BY <1>1, <1>2 DEF TablesInv, RowOK, Rows
    <2> QED
      BY <2>1, <2>2 DEF TablesInv
  <1>5. DrawsInv'
    BY <1>1, DrawsSame DEF handlers
  <1>6. ASSUME NEW k \in Handlers
        PROVE  DeleteOK(k)'
    <2>1. todo[k] \subseteq Rows /\ DeleteOK(k)
      BY <1>1 DEF TypeOK, DeletesInv
    <2> QED
      BY <1>1, <1>2, <2>1 DEF DeleteOK, handlers
  <1>7. LocksInv'
    BY <1>1, <1>2 DEF LocksInv, LockOK, Names, handlers
  <1> QED
    BY <1>3, <1>4, <1>5, <1>6, <1>7, InvPartsNext DEF DeletesInv

------------------------------------------------------------------------------
(* Deletes                                                                 *)

\* The rows that an UPDATE for a host matches have that host.
LEMMA MatchingHost ==
  ASSUME TypeOK, NEW S \in SUBSET Rows, NEW a \in Hosts
  PROVE  \A r \in Matching(S, a) : host[r] = a
  BY Apart DEF TypeOK, Matching, Names

\* A delete goes on to its next UPDATE.
LEMMA UpdateBegins ==
  ASSUME AccountsInv, NEW h \in Handlers, UNCHANGED <<tables, lock, draw, raced>>,
         NEW a \in Accts, NEW S \in SUBSET Rows, NEW place \in {"properties", "orders"},
         pc' = [pc EXCEPT ![h] = place], subject' = [subject EXCEPT ![h] = a],
         todo' = [todo EXCEPT ![h] = Matching(S, a)],
         pc[h] = "idle" \/ subject[h] = a
  PROVE  AccountsInv'
  <1>1. TypeOK /\ TablesInv /\ DrawsInv /\ DeletesInv /\ LocksInv
    BY InvParts
  <1>2. /\ pc'[h] = place /\ subject'[h] = a /\ todo'[h] = Matching(S, a)
        /\ \A k \in Handlers \ {h} :
             pc'[k] = pc[k] /\ subject'[k] = subject[k] /\ todo'[k] = todo[k]
    BY <1>1 DEF TypeOK
  <1>3. Matching(S, a) \in SUBSET Rows
    BY DEF Matching
  <1>4. TypeOK'
    BY <1>1, <1>3 DEF TypeOK, Places, tables
  <1>5. TablesInv'
    BY <1>1, TablesSame
  <1>6. DrawsInv'
    BY <1>1, <1>2, DrawsSame DEF Drawing, tables
  <1>7. ASSUME NEW k \in Handlers
        PROVE  DeleteOK(k)'
    <2>1. CASE k = h
      BY <1>1, <1>2, <2>1, MatchingHost DEF DeleteOK, tables
    <2>2. CASE k # h
      BY <1>1, <1>2, <2>2 DEF DeletesInv, DeleteOK, tables
    <2> QED
      BY <2>1, <2>2
  <1>8. LocksInv'
    <2>1. ASSUME NEW r \in Rows, lock[r] # NULL
          PROVE  pc'[lock[r]] \in Deleting /\ subject'[lock[r]] = subject[lock[r]]
      <3>1. lock[r] \in Handlers /\ pc[lock[r]] \in Deleting
        BY <1>1, <2>1 DEF TypeOK, LocksInv, LockOK, Deleting
      <3>2. CASE lock[r] = h
        BY <1>2, <3>1, <3>2 DEF Deleting
      <3>3. CASE lock[r] # h
        BY <1>2, <3>1, <3>3
      <3> QED
        BY <3>2, <3>3
    <2> QED
      BY <1>1, <2>1, LocksSame DEF tables
  <1> QED
    BY <1>4, <1>5, <1>6, <1>7, <1>8, InvPartsNext DEF DeletesInv

\* The first UPDATE of a delete looks for the rows that name its account.
LEMMA DeleteBeginOK ==
  ASSUME AccountsInv, NEW h \in Handlers, DeleteBegin(h)
  PROVE  AccountsInv'
  <1>1. PICK a \in Accts :
          /\ subject' = [subject EXCEPT ![h] = a]
          /\ \/ /\ a \in Hosts
                /\ pc' = [pc EXCEPT ![h] = "properties"]
                /\ todo' = [todo EXCEPT ![h] = Matching(Properties, a)]
             \/ /\ a \in Cleaners
                /\ pc' = [pc EXCEPT ![h] = "orders"]
                /\ todo' = [todo EXCEPT ![h] = Matching(Orders, a)]
    BY DEF DeleteBegin
  <1>2. /\ Properties \in SUBSET Rows /\ Orders \in SUBSET Rows
        /\ pc[h] = "idle" /\ UNCHANGED <<tables, lock, draw, raced>>
    BY DEF Rows, DeleteBegin
  <1>3. CASE todo' = [todo EXCEPT ![h] = Matching(Properties, a)]
             /\ pc' = [pc EXCEPT ![h] = "properties"]
    BY <1>1, <1>2, <1>3, UpdateBegins
  <1>4. CASE todo' = [todo EXCEPT ![h] = Matching(Orders, a)]
             /\ pc' = [pc EXCEPT ![h] = "orders"]
    BY <1>1, <1>2, <1>4, UpdateBegins
  <1> QED
    BY <1>1, <1>3, <1>4

\* delete_host goes on from its properties to its orders.
LEMMA ClearOrdersOK ==
  ASSUME AccountsInv, NEW h \in Handlers, ClearOrders(h)
  PROVE  AccountsInv'
  <1> DEFINE a == subject[h]
  <1>1. TypeOK /\ DeletesInv /\ pc[h] = "properties"
    BY InvParts DEF ClearOrders
  <1>2. /\ a \in Accts /\ Orders \in SUBSET Rows
        /\ subject' = [subject EXCEPT ![h] = a]
    BY <1>1 DEF TypeOK, DeletesInv, DeleteOK, Rows, ClearOrders
  <1> QED
    BY <1>2, UpdateBegins DEF ClearOrders

\* A row that is locked names the account.
LEMMA LockRowOK ==
  ASSUME AccountsInv, NEW h \in Handlers, LockRow(h)
  PROVE  AccountsInv'
  <1>1. /\ TypeOK /\ TablesInv /\ DrawsInv /\ DeletesInv /\ LocksInv
        /\ UNCHANGED <<tables, pc, subject, draw, raced>>
    BY InvParts DEF LockRow
  <1>2. PICK r \in todo[h] :
          /\ lock[r] = NULL
          /\ todo' = [todo EXCEPT ![h] = @ \ {r}]
          /\ lock' = IF Names(r, subject[h]) THEN [lock EXCEPT ![r] = h] ELSE lock
    BY DEF LockRow
  <1>3. r \in Rows /\ pc[h] \in Deleting
    BY <1>1 DEF TypeOK, DeletesInv, DeleteOK, Deleting
  <1>4. TypeOK'
    BY <1>1, <1>2, <1>3 DEF TypeOK, tables
  <1>5. TablesInv' /\ DrawsInv'
    BY <1>1, TablesSame, DrawsSame DEF tables
  <1>6. ASSUME NEW k \in Handlers
        PROVE  DeleteOK(k)'
    <2>1. todo'[k] \subseteq todo[k]
      BY <1>1, <1>2 DEF TypeOK
    <2> QED
      BY <1>1, <2>1 DEF DeletesInv, DeleteOK, tables
  <1>7. ASSUME NEW q \in Rows
        PROVE  LockOK(q)'
    <2>1. CASE q = r /\ Names(r, subject[h])
      <3>1. lock'[q] = h
        BY <1>1, <1>2, <1>3, <2>1 DEF TypeOK
      <3> QED
        BY <1>1, <1>3, <2>1, <3>1 DEF LockOK, Names, Deleting, tables
    <2>2. CASE ~(q = r /\ Names(r, subject[h]))
      <3>1. lock'[q] = lock[q]
        BY <1>1, <1>2, <1>3, <2>2 DEF TypeOK
      <3> QED
        BY <1>1, <3>1 DEF LocksInv, LockOK, Names, tables
    <2> QED
      BY <2>1, <2>2
  <1> QED
    BY <1>4, <1>5, <1>6, <1>7, InvPartsNext DEF DeletesInv, LocksInv

\* A delete goes on without a row yet to lock.
LEMMA DeleteMoves ==
  ASSUME AccountsInv, NEW h \in Handlers, UNCHANGED <<tables, lock, subject, draw, todo, raced>>,
         pc[h] \in Deleting, todo[h] = {}, NEW place \in {"cleared", "aborting"},
         pc' = [pc EXCEPT ![h] = place],
         place = "cleared" => code[subject[h]] # Unborn
  PROVE  AccountsInv'
  <1>1. TypeOK /\ TablesInv /\ DrawsInv /\ DeletesInv /\ LocksInv
    BY InvParts
  <1>2. pc'[h] = place /\ \A k \in Handlers \ {h} : pc'[k] = pc[k]
    BY <1>1 DEF TypeOK
  <1>3. TypeOK'
    BY <1>1 DEF TypeOK, Places, tables
  <1>4. TablesInv' /\ DrawsInv'
    BY <1>1, <1>2, TablesSame, DrawsSame DEF Drawing, tables
  <1>5. ASSUME NEW k \in Handlers
        PROVE  DeleteOK(k)'
    <2>1. CASE k = h
      BY <1>1, <1>2, <2>1 DEF DeletesInv, DeleteOK, Deleting, tables
    <2>2. CASE k # h
      BY <1>1, <1>2, <2>2 DEF DeletesInv, DeleteOK, tables
    <2> QED
      BY <2>1, <2>2
  <1>6. LocksInv'
    <2>1. ASSUME NEW r \in Rows, lock[r] # NULL
          PROVE  pc'[lock[r]] \in Deleting
      <3>1. lock[r] \in Handlers /\ pc[lock[r]] \in Deleting
        BY <1>1, <2>1 DEF TypeOK, LocksInv, LockOK, Deleting
      <3> QED
        BY <1>2, <3>1 DEF Deleting
    <2> QED
      BY <1>1, <2>1, LocksSame DEF tables
  <1> QED
    BY <1>3, <1>4, <1>5, <1>6, InvPartsNext DEF DeletesInv

\* The SELECT of a delete: its account is there, or the answer is 404.
LEMMA SelectAccountOK ==
  ASSUME AccountsInv, NEW h \in Handlers, SelectAccount(h)
  PROVE  AccountsInv'
  <1>1. CASE subject[h] \in Existing
    <2>1. code[subject[h]] # Unborn
      BY <1>1, Apart DEF Existing
    <2> QED
      BY <1>1, <2>1, DeleteMoves DEF SelectAccount, Deleting
  <1>2. CASE subject[h] \notin Existing
    BY <1>2, DeleteMoves DEF SelectAccount, Deleting
  <1> QED
    BY <1>1, <1>2

\* A request ends, its locks with it, and nothing of it is committed.
LEMMA EndOK ==
  ASSUME AccountsInv, NEW h \in Handlers, Leave(h), UNCHANGED <<tables, raced>>,
         Release(h) \/ (UNCHANGED lock /\ pc[h] \notin Deleting)
  PROVE  AccountsInv'
  <1>1. TypeOK /\ TablesInv /\ DrawsInv /\ DeletesInv /\ LocksInv
    BY InvParts
  <1>2. \A r \in Rows : lock'[r] = IF lock[r] = h THEN NULL ELSE lock[r]
    BY <1>1, Apart, DrawingHasNoLock DEF Release
  <1>3. lock' \in [Rows -> Handlers \cup {NULL}]
    BY <1>1 DEF TypeOK, Release
  <1>4. TypeOK'
    BY <1>1, <1>3, LeaveOK DEF TypeOK, tables
  <1>5. TablesInv'
    BY <1>1, TablesSame
  <1>6. DrawsInv'
    BY <1>1, LeaveOK, DrawsSame DEF Drawing, tables
  <1>7. ASSUME NEW k \in Handlers
        PROVE  DeleteOK(k)'
    <2>1. CASE k = h
      BY <1>1, <2>1, LeaveOK DEF DeleteOK
    <2>2. CASE k # h
      BY <1>1, <2>2, LeaveOK DEF DeletesInv, DeleteOK, tables
    <2> QED
      BY <2>1, <2>2
  <1>8. LocksInv'
    <2>1. ASSUME NEW r \in Rows, lock'[r] # NULL
          PROVE  pc'[lock'[r]] \in Deleting /\ subject'[lock'[r]] = subject[lock'[r]]
      <3>1. /\ lock'[r] = lock[r] /\ lock[r] \in Handlers \ {h}
            /\ pc[lock[r]] \in Deleting
        BY <1>1, <1>2, <2>1 DEF TypeOK, LocksInv, LockOK, Deleting
      <3> QED
        BY <1>1, <3>1, LeaveOK
    <2> QED
      BY <1>1, <1>2, <2>1, LocksSame DEF tables
  <1> QED
    BY <1>4, <1>5, <1>6, <1>7, <1>8, InvPartsNext DEF DeletesInv

\* The account goes with all rows that name it, and with nobody else's lock.
LEMMA DeleteCommitOK ==
  ASSUME AccountsInv, NEW h \in Handlers, DeleteCommit(h)
  PROVE  AccountsInv'
  <1> DEFINE a == subject[h]
  <1>1. /\ TypeOK /\ TablesInv /\ DrawsInv /\ DeletesInv /\ LocksInv
        /\ pc[h] = "cleared" /\ raced' = raced
    BY InvParts DEF DeleteCommit
  <1>2. todo[h] = {} /\ a \in Accts
    BY <1>1 DEF DeletesInv, DeleteOK
  <1>3. CASE Dangling(h)
    BY <1>1, <1>2, <1>3, DeleteMoves DEF DeleteCommit, Deleting
  <1>4. CASE ~Dangling(h)
    <2>1. /\ code' = [code EXCEPT ![a] = Deleted]
          /\ host' = [r \in Rows |-> IF host[r] = a THEN NULL ELSE host[r]]
          /\ cleaner' = [o \in Orders |-> IF cleaner[o] = a THEN NULL ELSE cleaner[o]]
          /\ Release(h) /\ Leave(h)
      BY <1>4 DEF DeleteCommit
    <2>2. \A b \in Accts : code'[b] = IF b = a THEN Deleted ELSE code[b]
      BY <1>1, <2>1 DEF TypeOK
    <2>3. TypeOK'
      <3>1. lock' \in [Rows -> Handlers \cup {NULL}]
        BY <1>1, <2>1 DEF TypeOK, Release
      <3>2. /\ code' \in [Accts -> Codes \cup {Unborn, Deleted}]
            /\ host' \in [Rows -> Hosts \cup {NULL, Unborn, Deleted}]
            /\ cleaner' \in [Orders -> Cleaners \cup {NULL}]
        BY <1>1, <2>1 DEF TypeOK
      <3> QED
        BY <1>1, <2>1, <3>1, <3>2, LeaveOK DEF TypeOK
    <2>4. Existing' = Existing \ {a}
      BY <2>2, Apart DEF Existing
    <2>5. References'
      BY <1>1, <2>1, <2>4, Apart DEF TablesInv, References
    <2>6. SharedCodeExcused'
      <3> SUFFICES ASSUME NEW place \in Drawing, NEW d \in TableOf(place),
                          NEW b \in TableOf(place), d \in Existing', b \in Existing',
                          d # b, code'[d] = code'[b]
                   PROVE  code'[d] \in ShortCodes \/ <<code'[d], place>> \in raced'
        BY DEF SharedCodeExcused, Drawing
      <3>1. /\ d \in Existing /\ b \in Existing /\ code'[d] = code[d] /\ code'[b] = code[b]
        BY <2>2, <2>4 DEF Existing
      <3>2. code[d] \in ShortCodes \/ <<code[d], place>> \in raced
        BY <1>1, <3>1 DEF TablesInv, SharedCodeExcused, Drawing
      <3> QED
        BY <1>1, <3>1, <3>2
    <2>7. ASSUME NEW o \in Orders
          PROVE  RowOK(o)'
      <3>1. o \in Rows /\ RowOK(o)
        BY <1>1 DEF TablesInv, Rows
      <3> QED
        BY <2>1, <3>1, Apart DEF RowOK
    <2>8. ASSUME NEW k \in Handlers
          PROVE  DrawOK(k)'
      <3>1. CASE k = h
        BY <1>1, <2>1, <3>1, LeaveOK DEF DrawOK
      <3>2. CASE k # h
        <4>1. pc'[k] = pc[k] /\ draw'[k] = draw[k] /\ DrawOK(k)
          BY <1>1, <2>1, <3>2, LeaveOK DEF DrawsInv
        <4> SUFFICES ASSUME pc[k] \in Drawing, <<draw[k], pc[k]>> \notin raced
                     PROVE  /\ \A b \in TableOf(pc[k]) : code'[b] # draw[k]
                            /\ \A g \in Handlers : g # k /\ pc'[g] = pc[k] => draw'[g] # draw[k]
          BY <1>1, <4>1 DEF DrawOK, Drawing
        <4>2. /\ draw[k] \in LongCodes
              /\ \A b \in TableOf(pc[k]) : code[b] # draw[k]
              /\ \A g \in Handlers : g # k /\ pc[g] = pc[k] => draw[g] # draw[k]
          BY <4>1 DEF DrawOK, Drawing
        <4>3. ASSUME NEW b \in TableOf(pc[k])
              PROVE  code'[b] # draw[k]
          <5>1. b \in Accts /\ draw[k] # Deleted
            BY <4>2, Apart DEF TableOf, Accts
          <5> QED
            BY <2>2, <4>2, <5>1
        <4>4. ASSUME NEW g \in Handlers, g # k, pc'[g] = pc[k]
              PROVE  draw'[g] # draw[k]
          <5>1. g # h
            BY <1>1, <2>1, <4>4, LeaveOK DEF Drawing
          <5> QED
            BY <1>1, <2>1, <4>2, <4>4, <5>1, LeaveOK
        <4> QED
          BY <4>3, <4>4
      <3> QED
        BY <3>1, <3>2
    <2>9. ASSUME NEW k \in Handlers
          PROVE  DeleteOK(k)'
      <3>1. CASE k = h
        BY <1>1, <2>1, <3>1, LeaveOK DEF DeleteOK
      <3>2. CASE k # h
        <4>1. /\ pc'[k] = pc[k] /\ subject'[k] = subject[k] /\ todo'[k] = todo[k]
              /\ DeleteOK(k) /\ todo[k] \subseteq Rows
          BY <1>1, <2>1, <3>2, LeaveOK DEF DeletesInv, TypeOK
        <4>2. pc[k] = "cleared" => code'[subject[k]] # Unborn
          BY <2>2, <4>1, Apart DEF DeleteOK
        <4> QED
          BY <2>1, <4>1, <4>2 DEF DeleteOK
      <3> QED
        BY <3>1, <3>2
    <2>10. ASSUME NEW r \in Rows
           PROVE  LockOK(r)'
      <3> SUFFICES ASSUME lock'[r] # NULL
                   PROVE  /\ pc'[lock'[r]] \in Deleting
                          /\ \/ host'[r] = subject'[lock'[r]]
                             \/ r \in Orders /\ cleaner'[r] = subject'[lock'[r]]
        BY DEF LockOK, Deleting, Names
      <3>1. lock'[r] = lock[r] /\ lock[r] \in Handlers \ {h}
        BY <1>1, <2>1 DEF TypeOK, Release
      <3>2. pc[lock[r]] \in Deleting /\ Names(r, subject[lock[r]])
        BY <1>1, <3>1, Apart DEF LocksInv, LockOK, Deleting
      <3>3. ~Names(r, a)
        BY <1>4, <3>1 DEF Dangling
      <3>4. host'[r] = host[r] /\ (r \in Orders => cleaner'[r] = cleaner[r])
        BY <2>1, <3>3 DEF Names
      <3>5. pc'[lock[r]] = pc[lock[r]] /\ subject'[lock[r]] = subject[lock[r]]
        BY <1>1, <2>1, <3>1, LeaveOK
      <3>6. CASE host[r] = subject[lock[r]]
        BY <3>1, <3>2, <3>4, <3>5, <3>6
      <3>7. CASE r \in Orders /\ cleaner[r] = subject[lock[r]]
        BY <3>1, <3>2, <3>4, <3>5, <3>7
      <3> QED
        BY <3>2, <3>6, <3>7 DEF Names
    <2> QED
      BY <2>3, <2>5, <2>6, <2>7, <2>8, <2>9, <2>10, InvPartsNext
         DEF TablesInv, DrawsInv, DeletesInv, LocksInv
  <1> QED
    BY <1>3, <1>4

------------------------------------------------------------------------------
(* The whole                                                               *)

\* Empty tables, and no request.
LEMMA InitOK == Init => AccountsInv
  <1> SUFFICES ASSUME Init PROVE AccountsInv
    OBVIOUS
  <1>1. Existing = {}
    BY Apart DEF Init, Existing
  <1>2. TypeOK
    BY DEF Init, TypeOK, Places
  <1>3. TablesInv
    BY <1>1, Apart DEF Init, TablesInv, References, SharedCodeExcused, RowOK, Rows
  <1>4. DrawsInv /\ DeletesInv /\ LocksInv
    BY DEF Init, DrawsInv, DrawOK, DeletesInv, DeleteOK, LocksInv, LockOK
  <1> QED
    BY <1>2, <1>3, <1>4, InvParts

\* Every step keeps the invariant.
LEMMA NextOK == AccountsInv /\ [Next]_vars => AccountsInv'
  <1> SUFFICES ASSUME AccountsInv, [Next]_vars PROVE AccountsInv'
    OBVIOUS
  <1>1. ASSUME NEW h \in Handlers, Arrive(h)
        PROVE  AccountsInv'
    BY <1>1, DrawStepOK, DeleteBeginOK DEF Arrive
  <1>2. ASSUME NEW h \in Handlers, Run(h)
        PROVE  AccountsInv'
    <2>1. CASE Register(h) \/ ClearOrders(h) \/ SelectAccount(h) \/ DeleteCommit(h)
      BY <2>1, RegisterOK, ClearOrdersOK, SelectAccountOK, DeleteCommitOK
    <2>2. CASE RegisterRefused(h)
      BY <2>2, EndOK DEF RegisterRefused, Deleting
    <2>3. CASE Rollback(h)
      BY <2>3, EndOK DEF Rollback
    <2> QED
      BY <1>2, <2>1, <2>2, <2>3 DEF Run
  <1>3. ASSUME NEW h \in Handlers, LockRow(h)
        PROVE  AccountsInv'
    BY <1>3, LockRowOK
  <1>4. ASSUME NEW h \in Handlers, DeadlockAbort(h) \/ Crash(h)
        PROVE  AccountsInv'
    BY <1>4, EndOK DEF DeadlockAbort, Crash
  <1>5. ASSUME NEW a \in Accts, CreateAccount(a)
        PROVE  AccountsInv'
    BY <1>5, CreateAccountOK
  <1>6. ASSUME NEW r \in Rows, EnterRow(r)
        PROVE  AccountsInv'
    BY <1>6, EnterRowOK
  <1>7. ASSUME NEW o \in Orders, AssignOrder(o) \/ DropOrder(o)
        PROVE  AccountsInv'
    BY <1>7, AssignOrderOK, DropOrderOK
  <1>8. CASE UNCHANGED vars
    <2>1. TypeOK /\ TablesInv /\ DrawsInv /\ DeletesInv /\ LocksInv
      BY InvParts
    <2>2. TypeOK'
      BY <1>8, <2>1 DEF vars, tables, handlers, TypeOK
    <2>3. TablesInv' /\ DrawsInv'
      BY <1>8, <2>1, TablesSame, DrawsSame DEF vars, tables, handlers
    <2>4. DeletesInv'
      BY <1>8, <2>1 DEF vars, tables, handlers, DeletesInv, DeleteOK
    <2>5. LocksInv'
      BY <1>8, <2>1 DEF vars, tables, handlers, LocksInv, LockOK, Names
    <2> QED
      BY <2>2, <2>3, <2>4, <2>5, InvPartsNext
  <1> QED
    BY <1>1, <1>2, <1>3, <1>4, <1>5, <1>6, <1>7, <1>8 DEF Next

\* The invariant of the accounts' transactions: it holds whatever the number of
\* requests, and however deadlocks and crashes cut them.
THEOREM AccountsInductive == Spec => []AccountsInv
  BY InitOK, NextOK, PTL DEF Spec

\* No committed property or order names an account that is gone.
THEOREM ReferencesAlways == Spec => []References
  <1>1. AccountsInv => References
    BY DEF AccountsInv
  <1> QED
    BY <1>1, AccountsInductive, PTL

\* Accounts of a table share a code only where nobody looked, or two registrations
\* looked at once.
THEOREM SharedCodesExcusedAlways == Spec => []SharedCodeExcused
  <1>1. AccountsInv => SharedCodeExcused
    BY DEF AccountsInv
  <1> QED
    BY <1>1, AccountsInductive, PTL

------------------------------------------------------------------------------
(* Deadlocks                                                               *)

\* A delete_host that waits for another waits for one of the same host.
LEMMA HostsWaitForTheSame ==
  ASSUME AccountsInv, NEW h \in Handlers, NEW k \in Handlers, k \in WaitsFor(h),
         subject[h] \in Hosts, subject[k] \in Hosts
  PROVE  h # k /\ subject[h] = subject[k]
  <1>1. TypeOK /\ DeletesInv /\ LocksInv
    BY InvParts
  <1>2. PICK r \in todo[h] : lock[r] = k
    BY DEF WaitsFor
  <1>3. k # h /\ k # NULL /\ r \in Rows
    BY <1>1, <1>2, Apart DEF WaitsFor, TypeOK
  <1>4. Names(r, subject[k]) /\ host[r] \in {subject[h], NULL, Deleted}
    BY <1>1, <1>2, <1>3 DEF LocksInv, LockOK, DeletesInv, DeleteOK
  <1>5. host[r] = subject[k]
    <2>1. r \in Orders => cleaner[r] \notin Hosts
      BY <1>1, Apart DEF TypeOK
    <2> QED
      BY <1>4, <2>1 DEF Names
  <1> QED
    BY <1>3, <1>4, <1>5, Apart

\* A deadlock has a delete_cleaner in it, or two deletes of one host.
THEOREM DeadlocksNeedSharedRows == Spec => []DeadlockNeedsSharedRows
  <1>1. AccountsInv => DeadlockNeedsSharedRows
    <2> SUFFICES ASSUME AccountsInv, NEW S \in SUBSET Handlers, Cycle(S),
                        \A h \in S : subject[h] \notin Cleaners
                 PROVE  \E h, k \in S : h # k /\ subject[h] = subject[k]
      BY DEF DeadlockNeedsSharedRows
    <2>1. PICK h \in S : WaitsFor(h) \cap S # {}
      BY DEF Cycle
    <2>2. PICK k \in S : k \in WaitsFor(h)
      BY <2>1
    <2>3. ASSUME NEW g \in S
          PROVE  subject[g] \in Hosts
      <3>1. PICK r \in todo[g] : TRUE
        BY DEF Cycle, WaitsFor
      <3>2. pc[g] \in Deleting
        BY <3>1, InvParts DEF DeletesInv, DeleteOK, Deleting
      <3>3. subject[g] \in Accts
        BY <3>2, InvParts DEF DeletesInv, DeleteOK, Deleting
      <3> QED
        BY <3>3 DEF Accts
    <2> QED
      BY <2>2, <2>3, HostsWaitForTheSame
  <1> QED
    BY <1>1, AccountsInductive, PTL

------------------------------------------------------------------------------
(* The refinement                                                          *)

\* DELETE and COMMIT are one step of the tables: no row that another request has put
\* there names the account.  If the account is gone already, nothing changes.
LEMMA DeleteCommitRefines ==
  ASSUME AccountsInv, NEW h \in Handlers, DeleteCommit(h)
  PROVE  Table!Next \/ UNCHANGED tables
  <1> DEFINE a == subject[h]
  <1>1. TypeOK /\ References /\ a \in Accts /\ code[a] # Unborn
    BY InvParts DEF TablesInv, DeletesInv, DeleteOK, DeleteCommit
  <1>2. CASE UNCHANGED tables
    BY <1>2
  <1>3. CASE ~UNCHANGED tables
    <2>1. /\ code' = [code EXCEPT ![a] = Deleted]
          /\ host' = [r \in Rows |-> IF host[r] = a THEN NULL ELSE host[r]]
          /\ cleaner' = [o \in Orders |-> IF cleaner[o] = a THEN NULL ELSE cleaner[o]]
      BY <1>3 DEF DeleteCommit
    <2>2. a \in Existing
      <3> SUFFICES ASSUME a \notin Existing PROVE FALSE
        OBVIOUS
      <3>1. code[a] = Deleted /\ code' = code
        BY <1>1, <2>1 DEF TypeOK, Existing
      <3>2. ASSUME NEW r \in Rows, host[r] = a
            PROVE  FALSE
        <4>1. host[r] \in Hosts \cup {NULL, Unborn, Deleted}
          BY <1>1 DEF TypeOK
        <4>2. a \in Hosts \cup Cleaners
          BY <1>1 DEF Accts
        <4>3. a \in Hosts
          BY <3>2, <4>1, <4>2, Apart
        <4> QED
          BY <1>1, <3>2, <4>3 DEF References
      <3>3. ASSUME NEW o \in Orders, cleaner[o] = a
            PROVE  FALSE
        <4>1. a # NULL
          BY <1>1, Apart DEF Accts
        <4> QED
          BY <1>1, <3>3, <4>1 DEF References
      <3>4. host' = host /\ cleaner' = cleaner
        BY <1>1, <2>1, <3>2, <3>3 DEF TypeOK
      <3> QED
        BY <1>3, <3>1, <3>4 DEF tables
    <2>3. Table!Close(a)
      BY <2>1, <2>2 DEF Table!Close, Table!Existing, Table!Accounts, Table!Rows,
         Existing, Accts, Rows
    <2> QED
      BY <1>1, <2>3 DEF Table!Next, Table!Accounts, Accts
  <1> QED
    BY <1>2, <1>3

\* Every step is one step of the abstract table, or none.
LEMMA StepRefines == AccountsInv /\ [Next]_vars => [Table!Next]_(Table!vars)
  <1> SUFFICES ASSUME AccountsInv, [Next]_vars PROVE Table!Next \/ UNCHANGED tables
    BY DEF Table!vars, tables
  <1>1. ASSUME NEW h \in Handlers, Arrive(h) \/ LockRow(h) \/ DeadlockAbort(h) \/ Crash(h)
        PROVE  UNCHANGED tables
    BY <1>1 DEF Arrive, Draw, DeleteBegin, LockRow, DeadlockAbort, Crash
  <1>2. ASSUME NEW h \in Handlers, Run(h)
        PROVE  Table!Next \/ UNCHANGED tables
    <2>1. CASE Register(h)
      <3>1. PICK a \in TableOf(pc[h]) : code[a] = Unborn /\ code' = [code EXCEPT ![a] = draw[h]]
        BY <2>1 DEF Register
      <3>2. draw[h] \in Codes /\ a \in Accts
        BY <2>1, InvParts DEF DrawsInv, DrawOK, Register, Codes, TableOf, Accts
      <3>3. Table!Open(a)
        BY <2>1, <3>1, <3>2 DEF Table!Open, Register
      <3> QED
        BY <3>2, <3>3 DEF Table!Next, Table!Accounts, Accts
    <2>2. CASE RegisterRefused(h) \/ ClearOrders(h) \/ SelectAccount(h) \/ Rollback(h)
      BY <2>2 DEF RegisterRefused, ClearOrders, SelectAccount, Rollback
    <2>3. CASE DeleteCommit(h)
      BY <2>3, DeleteCommitRefines
    <2> QED
      BY <1>2, <2>1, <2>2, <2>3 DEF Run
  <1>3. ASSUME NEW a \in Accts, CreateAccount(a)
        PROVE  Table!Next
    <2>1. Table!Open(a)
      BY <1>3 DEF CreateAccount, Table!Open, Codes
    <2> QED
      BY <2>1 DEF Table!Next, Table!Accounts, Accts
  <1>4. ASSUME NEW r \in Rows, EnterRow(r)
        PROVE  Table!Next
    <2>1. Table!Enter(r)
      BY <1>4 DEF EnterRow, Table!Enter, Table!Existing, Table!Accounts, Existing, Accts
    <2> QED
      BY <2>1 DEF Table!Next, Table!Rows, Rows
  <1>5. ASSUME NEW o \in Orders, AssignOrder(o)
        PROVE  Table!Next
    <2>1. Table!Assign(o)
      BY <1>5 DEF AssignOrder, Present, Table!Assign, Table!Existing, Table!Accounts,
         Existing, Accts
    <2> QED
      BY <2>1 DEF Table!Next
  <1>6. ASSUME NEW o \in Orders, DropOrder(o)
        PROVE  Table!Next
    <2>1. Table!Drop(o)
      BY <1>6 DEF DropOrder, Present, Table!Drop
    <2> QED
      BY <2>1 DEF Table!Next
  <1>7. CASE UNCHANGED vars
    BY <1>7 DEF vars
  <1> QED
    BY <1>1, <1>2, <1>3, <1>4, <1>5, <1>6, <1>7 DEF Next

\* The handlers' overlapping transactions change the tables as single steps would: a
\* delete takes an account out of all of its rows at once, or out of none.
THEOREM Refinement == Spec => TableImplemented
  <1>1. Init => Table!Init
    BY DEF Init, Table!Init, Table!Accounts, Table!Rows, Accts, Rows
  <1> QED
    BY <1>1, AccountsInductive, StepRefines, PTL DEF Spec, TableImplemented, Table!Spec
==============================================================================
