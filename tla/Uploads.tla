------------------------------- MODULE Uploads -------------------------------
(***************************************************************************)
(* Photos of orders: the files that app/api/upload.py stores, on disk or   *)
(* through app/core/s3.py, and the lists of urls in the orders table that  *)
(* it and update_order write.                                              *)
(*                                                                         *)
(* An upload stores its file, loads the order and writes its whole list; a *)
(* list that a client sends is written over what is there.  The rows are   *)
(* those of OrderTx, with the list as their only column.  A request that   *)
(* ends in an error before it has changed anything is no step: a file type *)
(* that is not allowed, an image that cannot be read, a full disk.         *)
(***************************************************************************)
EXTENDS FiniteSets

CONSTANTS
    Orders,       \* ids of the orders table
    Files,        \* names of files; those of new uploads are taken to be fresh, although an S3
                  \* key has only eight hex digits beside the day
    Handlers,     \* requests that can be in progress at once
    NULL,         \* SQL NULL, and no order, file or list
    Unreadable,   \* a text that is not a JSON list
    Unborn,       \* an id that is not handed out yet
    Deleted       \* the row is gone

ASSUME MarksAssumption ==
    /\ NULL \notin Orders \cup Files
    /\ Cardinality({NULL, Unreadable, Unborn, Deleted}) = 4
    /\ \A S \in SUBSET Files : S \notin {NULL, Unreadable, Unborn, Deleted}

VARIABLES
    s3,         \* whether S3_ENABLED is set
    stored,     \* the files that are there
    voices,     \* those that are voice notes
    photos,     \* completion_photos of each order
    given,      \* the urls that were answered
    pc,         \* where each request stands
    order,      \* the order that it is for
    file,       \* the file that it has stored
    loaded,     \* the list that it has loaded
    writes,     \* the list that it is going to write
    gone,       \* history: the files that were lost with their container
    owed,       \* history: what was written into the list of which order, and has not
                \* been written over by a client's list, or by an upload that had
                \* loaded the list before
    missed      \* history: what was written since an upload loaded its list

files == <<s3, stored, voices, gone>>
handlers == <<pc, order, file, loaded, writes, missed>>
vars == <<files, photos, given, handlers, owed>>

Marks == {NULL, Unreadable, Unborn, Deleted}
Texts == {NULL, Unreadable} \cup SUBSET Files

TypeOK ==
    /\ s3 \in BOOLEAN
    /\ stored \subseteq Files /\ voices \subseteq Files
    /\ given \subseteq Files /\ gone \subseteq Files
    /\ photos \in [Orders -> {Unborn, Deleted} \cup Texts]
    /\ pc \in [Handlers -> {"idle", "stored", "uploading", "putting", "answering"}]
    /\ order \in [Handlers -> Orders \cup {NULL}]
    /\ file \in [Handlers -> Files \cup {NULL}]
    /\ loaded \in [Handlers -> Texts] /\ writes \in [Handlers -> Texts]
    /\ owed \subseteq Orders \X Files
    /\ missed \in [Handlers -> SUBSET Files]

Init ==
    /\ s3 \in BOOLEAN
    /\ stored = {} /\ voices = {} /\ given = {} /\ gone = {}
    /\ photos = [o \in Orders |-> Unborn]
    /\ pc = [h \in Handlers |-> "idle"]
    /\ order = [h \in Handlers |-> NULL] /\ file = [h \in Handlers |-> NULL]
    /\ loaded = [h \in Handlers |-> NULL] /\ writes = [h \in Handlers |-> NULL]
    /\ owed = {}
    /\ missed = [h \in Handlers |-> {}]

Present == {o \in Orders : photos[o] \notin {Unborn, Deleted}}

\* The urls of a text, if it is a list.
Urls(text) == IF text \in Marks THEN {} ELSE text

------------------------------------------------------------------------------
(* Storing a file                                                          *)

\* A name that no upload has drawn.
Fresh == Files \ (stored \cup gone \cup {file[h] : h \in Handlers})

\* get_image, and the static files: the file of a url.
Served(p) == p \in stored

\* upload_image: the file is written.
StoreLocal(p) == ~s3 /\ stored' = stored \cup {p}

\* upload_to_s3: so is the object; where it is refused the request is over.
StoreS3(p) == s3 /\ stored' = stored \cup {p}

\* Mutant: the url is passed on and the file written afterwards.
StoreLater(h) ==
    /\ pc[h] = "idle"
    /\ \E p \in Fresh, o \in Orders \cup {NULL} :
         /\ pc' = [pc EXCEPT ![h] = IF o = NULL THEN "answering" ELSE "stored"]
         /\ order' = [order EXCEPT ![h] = o]
         /\ file' = [file EXCEPT ![h] = p]
    /\ UNCHANGED <<files, photos, given, loaded, writes, missed, owed>>

\* The image is valid and compressed, and stored under a new name.
Store(h) ==
    /\ pc[h] = "idle"
    /\ \E p \in Fresh, o \in Orders \cup {NULL} :
         /\ StoreLocal(p) \/ StoreS3(p)
         /\ pc' = [pc EXCEPT ![h] = IF o = NULL THEN "answering" ELSE "stored"]
         /\ order' = [order EXCEPT ![h] = o]
         /\ file' = [file EXCEPT ![h] = p]
    /\ UNCHANGED <<s3, voices, gone, photos, given, loaded, writes, missed, owed>>

\* upload_voice: no row will name the file; it never goes to S3.
UploadVoice(p) ==
    /\ p \in Fresh
    /\ stored' = stored \cup {p} /\ voices' = voices \cup {p}
    /\ given' = given \cup {p}
    /\ UNCHANGED <<s3, gone, photos, handlers, owed>>

------------------------------------------------------------------------------
(* The list of an order                                                    *)

Done(h) ==
    /\ pc' = [pc EXCEPT ![h] = "idle"]
    /\ order' = [order EXCEPT ![h] = NULL]
    /\ file' = [file EXCEPT ![h] = NULL]
    /\ loaded' = [loaded EXCEPT ![h] = NULL]
    /\ writes' = [writes EXCEPT ![h] = NULL]

\* The request is over.
Leave(h) == Done(h) /\ missed' = [missed EXCEPT ![h] = {}]

\* Mutant: the list begins anew with each upload.
UploadLoadForgets(h) ==
    /\ pc[h] = "stored" /\ order[h] \in Present
    /\ pc' = [pc EXCEPT ![h] = "uploading"]
    /\ loaded' = [loaded EXCEPT ![h] = photos[order[h]]]
    /\ writes' = [writes EXCEPT ![h] = {file[h]}]
    /\ UNCHANGED <<files, photos, given, order, file, missed, owed>>

\* upload_image: SELECT, and append to the list, or to a new one where there is none.
UploadLoad(h) ==
    LET text == photos[order[h]] IN
    /\ pc[h] = "stored" /\ order[h] \in Present /\ text # Unreadable
    /\ pc' = [pc EXCEPT ![h] = "uploading"]
    /\ loaded' = [loaded EXCEPT ![h] = text]
    /\ writes' = [writes EXCEPT ![h] = Urls(text) \cup {file[h]}]
    /\ UNCHANGED <<files, photos, given, order, file, missed, owed>>

\* A text that is no list raises; the file stays where it is.
UploadLoadFails(h) ==
    /\ pc[h] = "stored" /\ order[h] \in Present /\ photos[order[h]] = Unreadable
    /\ Leave(h)
    /\ UNCHANGED <<files, photos, given, owed>>

\* There is no such order, which the answer does not tell.
UploadNoOrder(h) ==
    /\ pc[h] = "stored" /\ order[h] \notin Present
    /\ pc' = [pc EXCEPT ![h] = "answering"]
    /\ UNCHANGED <<files, photos, given, order, file, loaded, writes, missed, owed>>

\* update_order: SELECT, and the text that the client sends, of urls it was given.
PutLoad(h) ==
    /\ pc[h] = "idle"
    /\ \E o \in Present, text \in {NULL, Unreadable} \cup SUBSET given :
         /\ pc' = [pc EXCEPT ![h] = "putting"]
         /\ order' = [order EXCEPT ![h] = o]
         /\ loaded' = [loaded EXCEPT ![h] = photos[o]]
         /\ writes' = [writes EXCEPT ![h] = text]
    /\ UNCHANGED <<files, photos, given, file, missed, owed>>

\* The list of h replaces that of its order, and what is lost with it is not owed.
Write(h, lost) ==
    LET o == order[h] IN
    /\ o \in Present
    /\ photos' = [photos EXCEPT ![o] = writes[h]]
    /\ owed' = (owed \ ({o} \X lost)) \cup ({o} \X Urls(writes[h]))
    /\ missed' = [k \in Handlers |->
                    CASE k = h -> {}
                      [] k # h /\ pc[k] = "uploading" /\ order[k] = o ->
                           missed[k] \cup Urls(writes[h])
                      [] OTHER -> missed[k]]

\* upload_image: UPDATE and COMMIT.
UploadCommit(h) ==
    /\ pc[h] = "uploading"
    /\ Write(h, missed[h])
    /\ pc' = [pc EXCEPT ![h] = "answering"]
    /\ UNCHANGED <<files, given, order, file, loaded, writes>>

\* update_order: UPDATE and COMMIT; a text that is the one it has loaded is not written.
PutCommit(h) ==
    /\ pc[h] = "putting"
    /\ \/ Write(h, Urls(photos[order[h]]))
       \/ writes[h] = loaded[h] /\ UNCHANGED <<photos, owed, missed>>
    /\ Done(h)
    /\ UNCHANGED <<files, given>>

\* The order was deleted meanwhile, or COMMIT fails: 500.
CommitFails(h) ==
    /\ pc[h] \in {"uploading", "putting"}
    /\ Leave(h)
    /\ UNCHANGED <<files, photos, given, owed>>

\* The answer of an upload.
Reply(h) ==
    /\ pc[h] = "answering"
    /\ given' = given \cup {file[h]}
    /\ Leave(h)
    /\ UNCHANGED <<files, photos, owed>>

------------------------------------------------------------------------------
(* Orders, crashes, and the whole                                          *)

CreateOrder(o) ==
    /\ photos[o] = Unborn
    /\ photos' = [photos EXCEPT ![o] = NULL]
    /\ UNCHANGED <<files, given, handlers, owed>>

\* delete_order, which leaves the files.
DeleteOrder(o) ==
    /\ o \in Present
    /\ photos' = [photos EXCEPT ![o] = Deleted]
    /\ owed' = {d \in owed : d[1] # o}
    /\ UNCHANGED <<files, given, handlers>>

\* The worker process dies, or the client is gone and gets no answer.
Crash(h) ==
    /\ pc[h] # "idle"
    /\ Leave(h)
    /\ UNCHANGED <<files, photos, given, owed>>

\* A new container comes up without the files of the old one.  The bucket, and the
\* database, are kept.
Redeploy ==
    LET lost == IF s3 THEN voices ELSE stored
        noHandler(v) == [h \in Handlers |-> v] IN
    /\ lost # {}
    /\ stored' = stored \ lost /\ voices' = {}
    /\ gone' = gone \cup lost
    /\ pc' = noHandler("idle") /\ order' = noHandler(NULL) /\ file' = noHandler(NULL)
    /\ loaded' = noHandler(NULL) /\ writes' = noHandler(NULL) /\ missed' = noHandler({})
    /\ UNCHANGED <<s3, photos, given, owed>>

Upload(h) ==
    \/ Store(h) \/ UploadLoad(h) \/ UploadLoadFails(h) \/ UploadNoOrder(h)
    \/ UploadCommit(h) \/ Reply(h)

Put(h) == PutLoad(h) \/ PutCommit(h)

Next ==
    \/ \E h \in Handlers : Upload(h) \/ Put(h) \/ CommitFails(h) \/ Crash(h)
    \/ \E p \in Files : UploadVoice(p)
    \/ \E o \in Orders : CreateOrder(o) \/ DeleteOrder(o)
    \/ Redeploy

Spec == Init /\ [][Next]_vars

------------------------------------------------------------------------------
(* Properties                                                              *)

\* Every url of a committed list, and every url that a client was given, leads to a
\* file, but for those that were lost when the container was replaced: an upload
\* stores before it writes and answers, wherever it ends.
NoDeadLink ==
    /\ \A p \in given : Served(p) \/ p \in gone
    /\ \A o \in Orders : \A p \in Urls(photos[o]) : Served(p) \/ p \in gone

\* A url stays in the list of its order until a client's list replaces it, or an
\* upload that had loaded the list before.  Without either, any number of uploads add
\* up, and errors, crashes and retries take nothing away.
UploadsAddUp == \A o \in Orders, p \in Files : <<o, p>> \in owed => p \in Urls(photos[o])

------------------------------------------------------------------------------
(* The inductive invariant                                                 *)

\* The file of a request is there.  An upload writes what it has loaded and its own,
\* and what is owed to its order is in there, or was written since.
UploadOK(h) ==
    /\ pc[h] \in {"stored", "uploading", "answering"} => file[h] \in stored
    /\ pc[h] \in {"stored", "uploading", "putting"} => order[h] \in Orders
    /\ pc[h] = "uploading" =>
         /\ writes[h] = Urls(loaded[h]) \cup {file[h]}
         /\ \A p \in Files :
              <<order[h], p>> \in owed => p \in Urls(loaded[h]) \cup missed[h]
    /\ \A p \in Urls(loaded[h]) \cup Urls(writes[h]) : p \in stored \cup gone

\* All that holds between two steps, for the proofs.
UploadsInv ==
    /\ TypeOK /\ NoDeadLink /\ UploadsAddUp
    /\ voices \subseteq stored
    /\ \A h \in Handlers : UploadOK(h)
==============================================================================
