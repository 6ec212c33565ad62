---------------------------- MODULE UploadsProofs -----------------------------
(***************************************************************************)
(* Theorems about Uploads, for any orders, files and requests, with the    *)
(* files on disk or in S3.                                                 *)
(***************************************************************************)
EXTENDS Uploads, TLAPS

------------------------------------------------------------------------------
(* Lemmas about the helpers                                                *)

\* A list is not a mark.
LEMMA ListIsNoMark ==
  ASSUME NEW S \in SUBSET Files
  PROVE  S \notin Marks /\ Urls(S) = S
  BY MarksAssumption DEF Marks, Urls

\* The urls of a column are names of files, and those of a mark are none.
LEMMA UrlsType ==
  /\ \A text \in Texts \cup Marks : Urls(text) \in SUBSET Files
  /\ \A text \in Marks : Urls(text) = {}
  BY DEF Texts, Marks, Urls

\* What an upload writes is a list.
LEMMA WritesType ==
  ASSUME TypeOK, NEW h \in Handlers
  PROVE  /\ Urls(loaded[h]) \in SUBSET Files /\ Urls(writes[h]) \in SUBSET Files
         /\ \A o \in Orders : Urls(photos[o]) \in SUBSET Files
  BY UrlsType DEF TypeOK, Texts, Marks

\* The end of a request keeps the requests well typed.
LEMMA DoneType ==
  ASSUME TypeOK, NEW h \in Handlers, Done(h)
  PROVE  /\ pc' \in [Handlers -> {"idle", "stored", "uploading", "putting", "answering"}]
         /\ order' \in [Handlers -> Orders \cup {NULL}]
         /\ file' \in [Handlers -> Files \cup {NULL}]
         /\ loaded' \in [Handlers -> Texts] /\ writes' \in [Handlers -> Texts]
         /\ pc'[h] = "idle" /\ Urls(loaded'[h]) = {} /\ Urls(writes'[h]) = {}
         /\ \A k \in Handlers \ {h} :
              /\ pc'[k] = pc[k] /\ order'[k] = order[k] /\ file'[k] = file[k]
              /\ loaded'[k] = loaded[k] /\ writes'[k] = writes[k]
  <1>1. NULL \in Texts /\ Urls(NULL) = {}
    BY UrlsType DEF Texts, Marks
  <1> QED
    BY <1>1 DEF TypeOK, Done

\* What a written list makes of what is owed.
LEMMA WriteOwed ==
  ASSUME TypeOK, NEW h \in Handlers, NEW lost \in SUBSET Files, Write(h, lost)
  PROVE  /\ owed' \subseteq Orders \X Files
         /\ \A q \in Orders, p \in Files :
              <<q, p>> \in owed' <=>
                \/ <<q, p>> \in owed /\ ~(q = order[h] /\ p \in lost)
                \/ q = order[h] /\ p \in Urls(writes[h])
  <1>1. order[h] \in Orders /\ Urls(writes[h]) \in SUBSET Files
    BY WritesType DEF Write, Present
  <1>2. owed' = (owed \ ({order[h]} \X lost)) \cup ({order[h]} \X Urls(writes[h]))
    BY DEF Write
  <1> QED
    BY <1>1, <1>2 DEF TypeOK

\* A list is written over that of its order, and noted by the uploads that have
\* loaded the list.
LEMMA WritePhotos ==
  ASSUME TypeOK, NEW h \in Handlers, NEW lost \in SUBSET Files, Write(h, lost)
  PROVE  /\ order[h] \in Orders
         /\ photos' \in [Orders -> {Unborn, Deleted} \cup Texts]
         /\ photos'[order[h]] = writes[h]
         /\ \A q \in Orders \ {order[h]} : photos'[q] = photos[q]
         /\ missed' \in [Handlers -> SUBSET Files]
         /\ \A k \in Handlers \ {h} :
              /\ missed[k] \subseteq missed'[k]
              /\ pc[k] = "uploading" /\ order[k] = order[h] =>
                   Urls(writes[h]) \subseteq missed'[k]
  <1>1. order[h] \in Orders /\ writes[h] \in Texts
    BY DEF Write, Present, TypeOK
  <1>2. photos' = [photos EXCEPT ![order[h]] = writes[h]]
    BY DEF Write
  <1>3. missed' = [k \in Handlers |->
                     CASE k = h -> {}
                       [] k # h /\ pc[k] = "uploading" /\ order[k] = order[h] ->
                            missed[k] \cup Urls(writes[h])
                       [] OTHER -> missed[k]]
    BY DEF Write
  <1>4. \A k \in Handlers : missed'[k] \in SUBSET Files
    BY <1>3, WritesType DEF TypeOK
  <1>5. missed' \in [Handlers -> SUBSET Files]
    BY <1>3, <1>4
  <1> QED
    BY <1>1, <1>2, <1>3, <1>5 DEF TypeOK

------------------------------------------------------------------------------
(* The steps of an upload                                                  *)

\* A new file makes no url dead.
LEMMA StoreOK ==
  ASSUME UploadsInv, NEW h \in Handlers, Store(h)
  PROVE  UploadsInv'
  <1>1. PICK p \in Fresh, o \in Orders \cup {NULL} :
          /\ stored' = stored \cup {p}
          /\ pc' = [pc EXCEPT ![h] = IF o = NULL THEN "answering" ELSE "stored"]
          /\ order' = [order EXCEPT ![h] = o]
          /\ file' = [file EXCEPT ![h] = p]
    BY DEF Store, StoreLocal, StoreS3
  <1>2. p \in Files
    BY DEF Fresh
  <1>3. TypeOK'
    BY <1>1, <1>2 DEF UploadsInv, TypeOK, Store
  <1>4. NoDeadLink' /\ UploadsAddUp' /\ voices' \subseteq stored'
    BY <1>1 DEF UploadsInv, NoDeadLink, Served, UploadsAddUp, Store
  <1>5. ASSUME NEW k \in Handlers
        PROVE  UploadOK(k)'
    <2>1. CASE k = h
      BY <1>1, <2>1 DEF UploadsInv, UploadOK, TypeOK, Store
    <2>2. CASE k # h
      BY <1>1, <2>2 DEF UploadsInv, UploadOK, TypeOK, Store
    <2> QED
      BY <2>1, <2>2
  <1> QED
    BY <1>3, <1>4, <1>5 DEF UploadsInv

\* Nor does a new voice note.
LEMMA VoiceOK ==
  ASSUME UploadsInv, NEW p \in Files, UploadVoice(p)
  PROVE  UploadsInv'
  <1>1. TypeOK' /\ NoDeadLink' /\ UploadsAddUp' /\ voices' \subseteq stored'
    BY DEF UploadsInv, TypeOK, NoDeadLink, Served, UploadsAddUp, UploadVoice, handlers
  <1>2. ASSUME NEW k \in Handlers
        PROVE  UploadOK(k)'
    BY DEF UploadsInv, UploadOK, UploadVoice, handlers
  <1> QED
    BY <1>1, <1>2 DEF UploadsInv

\* An upload has loaded all that is owed to its order.
LEMMA UploadLoadOK ==
  ASSUME UploadsInv, NEW h \in Handlers, UploadLoad(h)
  PROVE  UploadsInv'
  <1> DEFINE text == photos[order[h]]
  <1>1. TypeOK /\ UploadOK(h)
    BY DEF UploadsInv
  <1>2. order[h] \in Orders /\ file[h] \in stored /\ pc[h] = "stored"
    BY <1>1 DEF UploadLoad, UploadOK
  <1>3. text \in Texts /\ Urls(text) \in SUBSET Files /\ file[h] \in Files
    <2>1. text \in Texts
      BY <1>1, <1>2 DEF UploadLoad, Present, TypeOK
    <2> QED
      BY <1>1, <1>2, <2>1, UrlsType DEF TypeOK
  <1>4. Urls(text) \cup {file[h]} \in SUBSET Files
    BY <1>3
  <1>5. Urls(Urls(text) \cup {file[h]}) = Urls(text) \cup {file[h]}
    BY <1>4, ListIsNoMark
  <1>6. TypeOK'
    BY <1>1, <1>3, <1>4 DEF TypeOK, Texts, UploadLoad, files
  <1>7. NoDeadLink' /\ UploadsAddUp' /\ voices' \subseteq stored'
    BY DEF UploadsInv, NoDeadLink, Served, UploadsAddUp, UploadLoad, files
  <1>8. /\ pc'[h] = "uploading" /\ loaded'[h] = text
        /\ writes'[h] = Urls(text) \cup {file[h]}
    BY <1>1 DEF TypeOK, UploadLoad
  <1>9. \A p \in Files : <<order[h], p>> \in owed => p \in Urls(text)
    BY <1>2 DEF UploadsInv, UploadsAddUp
  <1>10. \A p \in Urls(text) : p \in stored \cup gone
    BY <1>2 DEF UploadsInv, NoDeadLink, Served
  <1>11. UploadOK(h)'
    BY <1>2, <1>5, <1>8, <1>9, <1>10 DEF UploadOK, UploadLoad, files
  <1>12. ASSUME NEW k \in Handlers \ {h}
         PROVE  UploadOK(k)'
    <2>1. /\ pc'[k] = pc[k] /\ loaded'[k] = loaded[k] /\ writes'[k] = writes[k]
          /\ UNCHANGED <<file, order, missed, owed, stored, gone>>
      BY <1>1 DEF TypeOK, UploadLoad, files
    <2> QED
      BY <2>1 DEF UploadsInv, UploadOK
  <1> QED
    BY <1>6, <1>7, <1>11, <1>12 DEF UploadsInv

\* A request that ends in an error, or with its worker, leaves everything as it is.
LEMMA LeaveOK ==
  ASSUME UploadsInv, NEW h \in Handlers, Leave(h), UNCHANGED <<files, photos, owed>>,
         given' \in SUBSET Files, \A p \in given' : p \in given \cup stored
  PROVE  UploadsInv'
  <1>1. TypeOK /\ Done(h) /\ missed' = [missed EXCEPT ![h] = {}]
    BY DEF UploadsInv, Leave
  <1>2. TypeOK'
    BY <1>1, DoneType DEF TypeOK, files
  <1>3. NoDeadLink' /\ UploadsAddUp' /\ voices' \subseteq stored'
    BY DEF UploadsInv, NoDeadLink, Served, UploadsAddUp, files
  <1>4. ASSUME NEW k \in Handlers
        PROVE  UploadOK(k)'
    <2>1. CASE k = h
      BY <1>1, <2>1, DoneType DEF UploadOK
    <2>2. CASE k # h
      <3>1. missed'[k] = missed[k]
        BY <1>1, <2>2 DEF TypeOK
      <3> QED
        BY <1>1, <2>2, <3>1, DoneType DEF UploadsInv, UploadOK, files
    <2> QED
      BY <2>1, <2>2
  <1> QED
    BY <1>2, <1>3, <1>4 DEF UploadsInv

\* An order that is not there is not written.
LEMMA UploadNoOrderOK ==
  ASSUME UploadsInv, NEW h \in Handlers, UploadNoOrder(h)
  PROVE  UploadsInv'
  <1>1. TypeOK' /\ NoDeadLink' /\ UploadsAddUp' /\ voices' \subseteq stored'
    BY DEF UploadsInv, TypeOK, NoDeadLink, Served, UploadsAddUp, UploadNoOrder, files
  <1>2. ASSUME NEW k \in Handlers
        PROVE  UploadOK(k)'
    BY DEF UploadsInv, TypeOK, UploadOK, UploadNoOrder, files
  <1> QED
    BY <1>1, <1>2 DEF UploadsInv

\* The list that is written has what is owed, but for what was written since it was
\* loaded.
LEMMA UploadCommitOK ==
  ASSUME UploadsInv, NEW h \in Handlers, UploadCommit(h)
  PROVE  UploadsInv'
  <1>1. TypeOK /\ UploadOK(h) /\ pc[h] = "uploading" /\ Write(h, missed[h])
    BY DEF UploadsInv, UploadCommit
  <1>2. missed[h] \in SUBSET Files
    BY <1>1 DEF TypeOK
  <1>3. /\ order[h] \in Orders /\ file[h] \in stored
        /\ writes[h] = Urls(loaded[h]) \cup {file[h]}
        /\ \A p \in Files : <<order[h], p>> \in owed => p \in Urls(loaded[h]) \cup missed[h]
    BY <1>1 DEF UploadOK
  <1>4. Urls(writes[h]) = writes[h]
    <2>1. writes[h] \in SUBSET Files
      BY <1>1, <1>3, WritesType DEF TypeOK
    <2> QED
      BY <2>1, ListIsNoMark
  <1>5. TypeOK'
    BY <1>1, <1>2, WriteOwed, WritePhotos DEF TypeOK, UploadCommit, files
  <1>6. NoDeadLink'
    <2>1. \A p \in Urls(writes[h]) : p \in stored \cup gone
      BY <1>1 DEF UploadOK
    <2>2. \A o \in Orders : \A p \in Urls(photos'[o]) : p \in stored \cup gone
      BY <1>1, <1>2, <2>1, WritePhotos DEF UploadsInv, NoDeadLink, Served
    <2> QED
      BY <2>2 DEF UploadsInv, NoDeadLink, Served, UploadCommit, files
  <1>7. UploadsAddUp'
    <2> SUFFICES ASSUME NEW o \in Orders, NEW p \in Files, <<o, p>> \in owed'
                 PROVE  p \in Urls(photos'[o])
      BY DEF UploadsAddUp
    <2>1. CASE o = order[h]
      <3>1. \/ <<order[h], p>> \in owed /\ p \notin missed[h]
            \/ p \in Urls(writes[h])
        BY <1>1, <1>2, <2>1, WriteOwed
      <3>2. p \in Urls(writes[h])
        BY <1>3, <1>4, <3>1
      <3> QED
        BY <1>1, <1>2, <2>1, <3>2, WritePhotos
    <2>2. CASE o # order[h]
      <3>1. <<o, p>> \in owed
        BY <1>1, <1>2, <2>2, WriteOwed
      <3> QED
        BY <1>1, <1>2, <2>2, <3>1, WritePhotos DEF UploadsInv, UploadsAddUp
    <2> QED
      BY <2>1, <2>2
  <1>8. UploadOK(h)'
    <2>1. pc'[h] = "answering"
      BY <1>1 DEF TypeOK, UploadCommit
    <2> QED
      BY <1>1, <1>3, <2>1 DEF UploadOK, UploadCommit, files
  <1>9. ASSUME NEW k \in Handlers \ {h}
        PROVE  UploadOK(k)'
    <2>1. pc'[k] = pc[k] /\ UNCHANGED <<order, file, loaded, writes, stored, gone>>
      BY <1>1 DEF TypeOK, UploadCommit, files
    <2>2. UploadOK(k)
      BY DEF UploadsInv
    <2>3. ASSUME pc[k] = "uploading", NEW p \in Files, <<order[k], p>> \in owed'
          PROVE  p \in Urls(loaded[k]) \cup missed'[k]
      <3>1. order[k] \in Orders
        BY <2>2, <2>3 DEF UploadOK
      <3>2. CASE <<order[k], p>> \in owed
        BY <1>1, <1>2, <2>2, <2>3, <3>2, WritePhotos DEF UploadOK
      <3>3. CASE <<order[k], p>> \notin owed
        <4>1. order[k] = order[h] /\ p \in Urls(writes[h])
          BY <1>1, <1>2, <2>3, <3>1, <3>3, WriteOwed
        <4> QED
          BY <1>1, <1>2, <2>3, <4>1, WritePhotos
      <3> QED
        BY <3>2, <3>3
    <2> QED
      BY <2>1, <2>2, <2>3 DEF UploadOK
  <1>10. voices' \subseteq stored'
    BY DEF UploadsInv, UploadCommit, files
  <1> QED
    BY <1>5, <1>6, <1>7, <1>8, <1>9, <1>10 DEF UploadsInv

\* The answer is the url of a file that is there.
LEMMA ReplyOK ==
  ASSUME UploadsInv, NEW h \in Handlers, Reply(h)
  PROVE  UploadsInv'
  <1>1. TypeOK /\ UploadOK(h) /\ pc[h] = "answering"
    BY DEF UploadsInv, Reply
  <1>2. file[h] \in stored /\ given' = given \cup {file[h]}
    BY <1>1 DEF UploadOK, Reply
  <1>3. given' \in SUBSET Files /\ \A p \in given' : p \in given \cup stored
    BY <1>1, <1>2 DEF TypeOK
  <1> QED
    BY <1>3, LeaveOK DEF Reply

------------------------------------------------------------------------------
(* The steps of the others                                                 *)

\* A client's list has urls that were given.
LEMMA PutLoadOK ==
  ASSUME UploadsInv, NEW h \in Handlers, PutLoad(h)
  PROVE  UploadsInv'
  <1>1. PICK o \in Present, text \in {NULL, Unreadable} \cup SUBSET given :
          /\ pc' = [pc EXCEPT ![h] = "putting"]
          /\ order' = [order EXCEPT ![h] = o]
          /\ loaded' = [loaded EXCEPT ![h] = photos[o]]
          /\ writes' = [writes EXCEPT ![h] = text]
    BY DEF PutLoad
  <1>2. TypeOK /\ given \in SUBSET Files
    BY DEF UploadsInv, TypeOK
  <1>3. o \in Orders /\ photos[o] \in Texts /\ text \in Texts
    BY <1>2 DEF Present, TypeOK, Texts
  <1>4. TypeOK'
    BY <1>1, <1>2, <1>3 DEF TypeOK, PutLoad, files
  <1>5. NoDeadLink' /\ UploadsAddUp' /\ voices' \subseteq stored'
    BY DEF UploadsInv, NoDeadLink, Served, UploadsAddUp, PutLoad, files
  <1>6. \A p \in Urls(text) : p \in stored \cup gone
    <2>1. Urls(text) \subseteq given
      BY <1>2, UrlsType, ListIsNoMark DEF Marks
    <2> QED
      BY <2>1 DEF UploadsInv, NoDeadLink, Served
  <1>7. \A p \in Urls(photos[o]) : p \in stored \cup gone
    BY <1>3 DEF UploadsInv, NoDeadLink, Served
  <1>8. pc'[h] = "putting" /\ order'[h] = o /\ loaded'[h] = photos[o] /\ writes'[h] = text
    BY <1>1, <1>2 DEF TypeOK
  <1>9. UploadOK(h)'
    BY <1>3, <1>6, <1>7, <1>8 DEF UploadOK, PutLoad, files
  <1>10. ASSUME NEW k \in Handlers \ {h}
         PROVE  UploadOK(k)'
    <2>1. /\ pc'[k] = pc[k] /\ order'[k] = order[k]
          /\ loaded'[k] = loaded[k] /\ writes'[k] = writes[k]
          /\ UNCHANGED <<file, missed, owed, stored, gone>>
      BY <1>1, <1>2 DEF TypeOK, PutLoad, files
    <2> QED
      BY <2>1 DEF UploadsInv, UploadOK
  <1> QED
    BY <1>4, <1>5, <1>9, <1>10 DEF UploadsInv

\* A client's list is all that is owed afterwards, and the uploads that have loaded
\* the one before take note of it.
LEMMA PutWriteOK ==
  ASSUME UploadsInv, NEW h \in Handlers, pc[h] = "putting",
         Write(h, Urls(photos[order[h]])), Done(h), UNCHANGED <<files, given>>
  PROVE  UploadsInv'
  <1> DEFINE lost == Urls(photos[order[h]])
  <1>1. TypeOK /\ UploadOK(h) /\ order[h] \in Orders
    BY DEF UploadsInv, Write, Present
  <1>2. lost \in SUBSET Files /\ Write(h, lost)
    BY <1>1, WritesType
  <1> HIDE DEF lost
  <1>3. TypeOK'
    BY <1>1, <1>2, DoneType, WriteOwed, WritePhotos DEF TypeOK, files
  <1>4. NoDeadLink'
    <2>1. \A p \in Urls(writes[h]) : p \in stored \cup gone
      BY <1>1 DEF UploadOK
    <2>2. \A o \in Orders : \A p \in Urls(photos'[o]) : p \in stored \cup gone
      BY <1>1, <1>2, <2>1, WritePhotos DEF UploadsInv, NoDeadLink, Served
    <2> QED
      BY <2>2 DEF UploadsInv, NoDeadLink, Served, files
  <1>5. UploadsAddUp'
    <2> SUFFICES ASSUME NEW o \in Orders, NEW p \in Files, <<o, p>> \in owed'
                 PROVE  p \in Urls(photos'[o])
      BY DEF UploadsAddUp
    <2>1. CASE o = order[h]
      <3>1. \/ <<order[h], p>> \in owed /\ p \notin lost
            \/ p \in Urls(writes[h])
        BY <1>1, <1>2, <2>1, WriteOwed
      <3>2. <<order[h], p>> \in owed => p \in lost
        BY <1>1 DEF lost, UploadsInv, UploadsAddUp
      <3> QED
        BY <1>1, <1>2, <2>1, <3>1, <3>2, WritePhotos
    <2>2. CASE o # order[h]
      <3>1. <<o, p>> \in owed
        BY <1>1, <1>2, <2>2, WriteOwed
      <3> QED
        BY <1>1, <1>2, <2>2, <3>1, WritePhotos DEF UploadsInv, UploadsAddUp
    <2> QED
      BY <2>1, <2>2
  <1>6. UploadOK(h)'
    BY <1>1, DoneType DEF UploadOK
  <1>7. ASSUME NEW k \in Handlers \ {h}
        PROVE  UploadOK(k)'
    <2>1. /\ pc'[k] = pc[k] /\ order'[k] = order[k] /\ file'[k] = file[k]
          /\ loaded'[k] = loaded[k] /\ writes'[k] = writes[k]
          /\ UNCHANGED <<stored, gone>>
      BY <1>1, DoneType DEF files
    <2>2. UploadOK(k)
      BY DEF UploadsInv
    <2>3. ASSUME pc[k] = "uploading", NEW p \in Files, <<order[k], p>> \in owed'
          PROVE  p \in Urls(loaded[k]) \cup missed'[k]
      <3>1. order[k] \in Orders
        BY <2>2, <2>3 DEF UploadOK
      <3>2. CASE <<order[k], p>> \in owed
        BY <1>1, <1>2, <2>2, <2>3, <3>2, WritePhotos DEF UploadOK
      <3>3. CASE <<order[k], p>> \notin owed
        <4>1. order[k] = order[h] /\ p \in Urls(writes[h])
          BY <1>1, <1>2, <2>3, <3>1, <3>3, WriteOwed
        <4> QED
          BY <1>1, <1>2, <2>3, <4>1, WritePhotos
      <3> QED
        BY <3>2, <3>3
    <2> QED
      BY <2>1, <2>2, <2>3 DEF UploadOK
  <1>8. voices' \subseteq stored'
    BY DEF UploadsInv, files
  <1> QED
    BY <1>3, <1>4, <1>5, <1>6, <1>7, <1>8 DEF UploadsInv

\* A list that is the loaded one is not written.
LEMMA PutCommitOK ==
  ASSUME UploadsInv, NEW h \in Handlers, PutCommit(h)
  PROVE  UploadsInv'
  <1>1. TypeOK /\ pc[h] = "putting" /\ Done(h) /\ UNCHANGED <<files, given>>
    BY DEF UploadsInv, PutCommit
  <1>2. CASE Write(h, Urls(photos[order[h]]))
    BY <1>1, <1>2, PutWriteOK
  <1>3. CASE UNCHANGED <<photos, owed, missed>>
    <2>1. TypeOK'
      BY <1>1, <1>3, DoneType DEF TypeOK, files
    <2>2. NoDeadLink' /\ UploadsAddUp' /\ voices' \subseteq stored'
      BY <1>1, <1>3 DEF UploadsInv, NoDeadLink, Served, UploadsAddUp, files
    <2>3. ASSUME NEW k \in Handlers
          PROVE  UploadOK(k)'
      BY <1>1, <1>3, DoneType DEF UploadsInv, UploadOK, files
    <2> QED
      BY <2>1, <2>2, <2>3 DEF UploadsInv
  <1> QED
    BY <1>2, <1>3 DEF PutCommit

\* A new order has no list, and nothing is owed to it.
LEMMA CreateOrderOK ==
  ASSUME UploadsInv, NEW o \in Orders, CreateOrder(o)
  PROVE  UploadsInv'
  <1>1. TypeOK /\ Urls(NULL) = {} /\ Urls(Unborn) = {}
    BY UrlsType DEF UploadsInv, Marks
  <1>2. \A q \in Orders : Urls(photos'[q]) = Urls(photos[q])
    BY <1>1 DEF TypeOK, CreateOrder
  <1>3. TypeOK' /\ voices' \subseteq stored'
    BY <1>1 DEF UploadsInv, TypeOK, Texts, CreateOrder, files, handlers
  <1>4. NoDeadLink' /\ UploadsAddUp'
    BY <1>2 DEF UploadsInv, NoDeadLink, Served, UploadsAddUp, CreateOrder, files
  <1>5. ASSUME NEW k \in Handlers
        PROVE  UploadOK(k)'
    BY DEF UploadsInv, UploadOK, CreateOrder, files, handlers
  <1> QED
    BY <1>3, <1>4, <1>5 DEF UploadsInv

\* What was owed to a deleted order is not owed.
LEMMA DeleteOrderOK ==
  ASSUME UploadsInv, NEW o \in Orders, DeleteOrder(o)
  PROVE  UploadsInv'
  <1>1. TypeOK /\ Urls(Deleted) = {}
    BY UrlsType DEF UploadsInv, Marks
  <1>2. photos'[o] = Deleted /\ \A q \in Orders \ {o} : photos'[q] = photos[q]
    BY <1>1 DEF TypeOK, DeleteOrder
  <1>3. /\ owed' \subseteq owed
        /\ \A q \in Orders, p \in Files : <<q, p>> \in owed' => q # o
    BY DEF DeleteOrder
  <1>4. TypeOK' /\ voices' \subseteq stored'
    BY <1>1, <1>3 DEF UploadsInv, TypeOK, DeleteOrder, files, handlers
  <1>5. NoDeadLink'
    BY <1>1, <1>2 DEF UploadsInv, NoDeadLink, Served, DeleteOrder, files
  <1>6. UploadsAddUp'
    BY <1>2, <1>3 DEF UploadsInv, UploadsAddUp
  <1>7. ASSUME NEW k \in Handlers
        PROVE  UploadOK(k)'
    BY <1>3 DEF UploadsInv, UploadOK, DeleteOrder, files, handlers
  <1> QED
    BY <1>4, <1>5, <1>6, <1>7 DEF UploadsInv

\* A new container has no requests, and what it lacks was lost with the old one.
LEMMA RedeployOK ==
  ASSUME UploadsInv, Redeploy
  PROVE  UploadsInv'
  <1> DEFINE lost == IF s3 THEN voices ELSE stored
  <1>1. TypeOK /\ NoDeadLink /\ UploadsAddUp /\ voices \subseteq stored
    BY DEF UploadsInv
  <1>2. lost \in SUBSET stored /\ stored' = stored \ lost /\ gone' = gone \cup lost
    BY <1>1 DEF Redeploy
  <1>3. /\ pc' = [h \in Handlers |-> "idle"] /\ order' = [h \in Handlers |-> NULL]
        /\ file' = [h \in Handlers |-> NULL] /\ loaded' = [h \in Handlers |-> NULL]
        /\ writes' = [h \in Handlers |-> NULL] /\ missed' = [h \in Handlers |-> {}]
        /\ voices' = {} /\ UNCHANGED <<s3, photos, given, owed>>
    BY DEF Redeploy
  <1> HIDE DEF lost
  <1>4. NULL \in Texts /\ Urls(NULL) = {}
    BY UrlsType DEF Texts, Marks
  <1>5. TypeOK'
    BY <1>1, <1>2, <1>3, <1>4 DEF TypeOK
  <1>6. NoDeadLink' /\ UploadsAddUp'
    BY <1>1, <1>2, <1>3 DEF NoDeadLink, Served, UploadsAddUp
  <1>7. ASSUME NEW k \in Handlers
        PROVE  UploadOK(k)'
    BY <1>3, <1>4 DEF UploadOK
  <1> QED
    BY <1>3, <1>5, <1>6, <1>7 DEF UploadsInv

------------------------------------------------------------------------------
(* The theorems                                                            *)

\* The invariant holds before any file is stored.
LEMMA InitOK ==
  ASSUME Init
  PROVE  UploadsInv
  <1>1. NULL \in Texts /\ Urls(NULL) = {} /\ Urls(Unborn) = {}
    BY UrlsType DEF Texts, Marks
  <1>2. TypeOK
    BY <1>1 DEF Init, TypeOK
  <1>3. NoDeadLink /\ UploadsAddUp /\ voices \subseteq stored
    BY <1>1 DEF Init, NoDeadLink, UploadsAddUp
  <1>4. ASSUME NEW k \in Handlers
        PROVE  UploadOK(k)
    BY <1>1 DEF Init, UploadOK
  <1> QED
    BY <1>2, <1>3, <1>4 DEF UploadsInv

\* Every step keeps what holds between two steps.
LEMMA NextOK ==
  ASSUME UploadsInv, [Next]_vars
  PROVE  UploadsInv'
  <1>1. ASSUME NEW h \in Handlers, Upload(h)
        PROVE  UploadsInv'
    <2>1. CASE UploadLoadFails(h)
      <3>1. given' \in SUBSET Files
        BY <2>1 DEF UploadsInv, TypeOK, UploadLoadFails
      <3> QED
        BY <2>1, <3>1, LeaveOK DEF UploadLoadFails
    <2> QED
      BY <1>1, <2>1, StoreOK, UploadLoadOK, UploadNoOrderOK, UploadCommitOK, ReplyOK
         DEF Upload
  <1>2. ASSUME NEW h \in Handlers, Put(h)
        PROVE  UploadsInv'
    BY <1>2, PutLoadOK, PutCommitOK DEF Put
  <1>3. ASSUME NEW h \in Handlers, CommitFails(h) \/ Crash(h)
        PROVE  UploadsInv'
    <2>1. given' \in SUBSET Files
      BY <1>3 DEF UploadsInv, TypeOK, CommitFails, Crash
    <2> QED
      BY <1>3, <2>1, LeaveOK DEF CommitFails, Crash
  <1>4. CASE UNCHANGED vars
    <2>1. TypeOK' /\ NoDeadLink' /\ UploadsAddUp' /\ voices' \subseteq stored'
      BY <1>4 DEF UploadsInv, TypeOK, NoDeadLink, Served, UploadsAddUp, vars, files, handlers
    <2>2. ASSUME NEW k \in Handlers
          PROVE  UploadOK(k)'
      BY <1>4 DEF UploadsInv, UploadOK, vars, files, handlers
    <2> QED
      BY <2>1, <2>2 DEF UploadsInv
  <1> QED
    BY <1>1, <1>2, <1>3, <1>4, VoiceOK, CreateOrderOK, DeleteOrderOK, RedeployOK DEF Next

\* What holds between two steps of uploads, clients' lists, crashes and redeployments.
THEOREM UploadsInductive == Spec => []UploadsInv
  <1>1. Init => UploadsInv
    BY InitOK
  <1>2. UploadsInv /\ [Next]_vars => UploadsInv'
    BY NextOK
  <1> QED
    BY <1>1, <1>2, PTL DEF Spec

\* No list and no answer has a url without a file (upload.py:136-160), but for the
\* files of a container that was replaced.
THEOREM NoDeadLinkAlways == Spec => []NoDeadLink
  <1>1. UploadsInv => NoDeadLink
    BY DEF UploadsInv
  <1> QED
    BY <1>1, UploadsInductive, PTL

\* Uploads add up (upload.py:155-158) unless they overlap, or a client writes a list.
THEOREM UploadsAddUpAlways == Spec => []UploadsAddUp
  <1>1. UploadsInv => UploadsAddUp
    BY DEF UploadsInv
  <1> QED
    BY <1>1, UploadsInductive, PTL
==============================================================================
