-------------------------- MODULE WsManagerProofs ---------------------------
(***************************************************************************)
(* Theorems about WsManager, for every set of workers, sockets, cleaners   *)
(* and broadcasts.                                                         *)
(***************************************************************************)
EXTENDS WsManager, FiniteSetTheorems, TLAPS

------------------------------------------------------------------------------
(* One lemma for each action                                               *)

\* A socket whose handler has begun, or with a task in its name, has a worker.
LEMMA Situated ==
  ASSUME TypeOK, HomeOK, NEW s \in Sockets
  PROVE  place[s] # "new" \/ stop[s] # "none" \/ listener[s] # "none" => home[s] \in Workers
  BY DEF TypeOK, HomeOK

\* What a worker keeps and what its sockets stand for decides ListeningOK.
LEMMA OtherWorker ==
  ASSUME TypeOK, HomeOK, NEW w \in Workers, ListeningOK(w),
         home' = home, place' = place, conns'[w] = conns[w],
         pubsub'[w] = pubsub[w], task'[w] = task[w],
         \A r \in Sockets : home[r] = w =>
           /\ sub'[r] = sub[r] /\ stop'[r] = stop[r]
           /\ listener'[r] = listener[r] /\ reads'[r] = reads[r]
  PROVE  ListeningOK(w)'
  <1>1. Stopping(w)' = Stopping(w) /\ Starting(w)' = Starting(w)
    BY DEF Stopping, Starting
  <1>2. /\ pubsub[w] # NULL => pubsub[w] \in Sockets /\ home[pubsub[w]] = w
        /\ task[w] # NULL => task[w] \in Sockets /\ home[task[w]] = w
    BY DEF TypeOK, HomeOK
  <1>3. \A s \in Stopping(w) \cup Starting(w) : s \in Sockets /\ home[s] = w
    BY DEF Stopping, Starting
  <1> QED
    BY <1>1, <1>2, <1>3 DEF ListeningOK

\* connect enters a socket under its own worker, and starts to listen only where nothing listens.
LEMMA ConnectKeeps ==
  ASSUME WsInv, NEW s \in Sockets, Connect(s)
  PROVE  WsInv'
  <1>0. TypeOK /\ HomeOK /\ TablesAgree
    BY DEF WsInv
  <1>1. TypeOK'
    <2>1. PICK w \in Workers, c \in Cleaners \cup {NULL} :
            /\ conns' = [conns EXCEPT ![w] = @ \cup {s}]
            /\ home' = [home EXCEPT ![s] = w]
            /\ Register(s, w, c)
            /\ \/ conns[w] = {} /\ StartListening(s, w)
               \/ place' = [place EXCEPT ![s] = "open"] /\ UNCHANGED <<pubsub, sub, disturbed>>
      BY DEF Connect
    <2>2. mapped' \in [Workers -> [Cleaners -> Sockets \cup {NULL}]]
      BY <1>0, <2>1 DEF Register, TypeOK
    <2>3. /\ overlapped' \in SUBSET (Workers \X Cleaners)
          /\ owner' \in [Sockets -> Cleaners \cup {NULL}]
      BY <1>0, <2>1 DEF Register, TypeOK
    <2>4. /\ pubsub' \in [Workers -> Sockets \cup {NULL}]
          /\ sub' \in [Sockets -> {"none", "made", "subscribed", "lost", "closed"}]
          /\ place' \in [Sockets -> {"new", "subscribing", "open", "gone"}]
          /\ disturbed' \in SUBSET Workers
      <3>1. CASE conns[w] = {} /\ StartListening(s, w)
        BY <1>0, <3>1 DEF StartListening, TypeOK
      <3>2. CASE place' = [place EXCEPT ![s] = "open"] /\ UNCHANGED <<pubsub, sub, disturbed>>
        BY <1>0, <3>2 DEF TypeOK
      <3> QED
        BY <2>1, <3>1, <3>2
    <2>5. /\ conns' \in [Workers -> SUBSET Sockets]
          /\ home' \in [Sockets -> Workers \cup {NULL}]
          /\ alive' \in SUBSET Sockets
          /\ UNCHANGED <<task, tasks, stop, cast, inbox, heard>>
      BY <1>0, <2>1 DEF Connect, TypeOK
    <2> QED
      BY <1>0, <2>2, <2>3, <2>4, <2>5 DEF TypeOK, tasks
  <1>2. HomeOK'
    BY <1>0, NullAssumption DEF TypeOK, HomeOK, Connect, Register, StartListening, tables, tasks
  <1>3. TablesAgree'
    BY <1>0, NullAssumption
         DEF TypeOK, HomeOK, TablesAgree, Connect, Register, StartListening, tables, tasks
  <1>4. ASSUME NEW w \in Workers \ disturbed' PROVE ListeningOK(w)'
    <2>1. w \in Workers \ disturbed
      BY DEF Connect, Register, StartListening, tables, tasks
    <2>2. ListeningOK(w)
      BY <2>1 DEF WsInv
    <2> QED
      BY <1>0, <2>2, NullAssumption
         DEF TypeOK, HomeOK, ListeningOK, Stopping, Starting, Connect, Register, StartListening, tables, tasks
  <1> QED
    BY <1>1, <1>2, <1>3, <1>4 DEF WsInv

\* start_listening ends with a task for its own object.
LEMMA SubscribedKeeps ==
  ASSUME WsInv, NEW s \in Sockets, Subscribed(s)
  PROVE  WsInv'
  <1>0. TypeOK /\ HomeOK /\ TablesAgree
    BY DEF WsInv
  <1>1. TypeOK'
    BY <1>0, NullAssumption DEF TypeOK, Subscribed, tables
  <1>2. HomeOK'
    BY <1>0, NullAssumption DEF TypeOK, HomeOK, Subscribed, tables
  <1>3. TablesAgree'
    BY <1>0, NullAssumption DEF TypeOK, HomeOK, TablesAgree, Subscribed, tables
  <1>4. ASSUME NEW w \in Workers \ disturbed' PROVE ListeningOK(w)'
    <2>1. w \in Workers \ disturbed
      BY DEF Subscribed, tables
    <2>2. ListeningOK(w)
      BY <2>1 DEF WsInv
    <2> QED
      BY <1>0, <2>2, NullAssumption
         DEF TypeOK, HomeOK, ListeningOK, Stopping, Starting, Subscribed, tables
  <1> QED
    BY <1>1, <1>2, <1>3, <1>4 DEF WsInv

\* A failed start is a disturbance.
LEMMA SubscribeFailsKeeps ==
  ASSUME WsInv, NEW s \in Sockets, SubscribeFails(s)
  PROVE  WsInv'
  <1>0. TypeOK /\ HomeOK /\ TablesAgree
    BY DEF WsInv
  <1>1. TypeOK'
    BY <1>0, Situated DEF TypeOK, SubscribeFails, tables, listening, tasks
  <1>2. HomeOK'
    BY <1>0, NullAssumption DEF TypeOK, HomeOK, SubscribeFails, tables, listening, tasks
  <1>3. TablesAgree'
    BY <1>0, NullAssumption
         DEF TypeOK, HomeOK, TablesAgree, SubscribeFails, tables, listening, tasks
  <1>4. ASSUME NEW w \in Workers \ disturbed' PROVE ListeningOK(w)'
    <2>1. w \in Workers \ disturbed
      BY DEF SubscribeFails, tables, listening, tasks
    <2>2. ListeningOK(w)
      BY <2>1 DEF WsInv
    <2> QED
      BY <1>0, <2>2, NullAssumption
         DEF TypeOK, HomeOK, ListeningOK, Stopping, Starting, SubscribeFails, tables, listening, tasks
  <1> QED
    BY <1>1, <1>2, <1>3, <1>4 DEF WsInv

\* The server does not notice a client that goes.
LEMMA ClientLeavesKeeps ==
  ASSUME WsInv, NEW s \in Sockets, ClientLeaves(s)
  PROVE  WsInv'
  <1>0. TypeOK /\ HomeOK /\ TablesAgree
    BY DEF WsInv
  <1>1. TypeOK'
    BY <1>0, NullAssumption DEF TypeOK, ClientLeaves, tables, listening, tasks
  <1>2. HomeOK'
    BY <1>0, NullAssumption DEF TypeOK, HomeOK, ClientLeaves, tables, listening, tasks
  <1>3. TablesAgree'
    BY <1>0, NullAssumption
         DEF TypeOK, HomeOK, TablesAgree, ClientLeaves, tables, listening, tasks
  <1>4. ASSUME NEW w \in Workers \ disturbed' PROVE ListeningOK(w)'
    <2>1. w \in Workers \ disturbed
      BY DEF ClientLeaves, tables, listening, tasks
    <2>2. ListeningOK(w)
      BY <2>1 DEF WsInv
    <2> QED
      BY <1>0, <2>2, NullAssumption
         DEF TypeOK, HomeOK, ListeningOK, Stopping, Starting, ClientLeaves, tables, listening, tasks
  <1> QED
    BY <1>1, <1>2, <1>3, <1>4 DEF WsInv

\* disconnect stops the listening when it empties the channel.
LEMMA DisconnectKeeps ==
  ASSUME WsInv, NEW s \in Sockets, Disconnect(s)
  PROVE  WsInv'
  <1>0. TypeOK /\ HomeOK /\ TablesAgree
    BY DEF WsInv
  <1>1. TypeOK'
    BY <1>0, NullAssumption DEF TypeOK, Disconnect, Unmap, tasks
  <1>2. HomeOK'
    BY <1>0, NullAssumption DEF TypeOK, HomeOK, Disconnect, Unmap, tasks
  <1>3. TablesAgree'
    BY <1>0, NullAssumption DEF TypeOK, HomeOK, TablesAgree, Disconnect, Unmap, tasks
  <1>4. ASSUME NEW w \in Workers \ disturbed' PROVE ListeningOK(w)'
    <2>1. w \in Workers \ disturbed
      BY DEF Disconnect, Unmap, tasks
    <2>2. ListeningOK(w)
      BY <2>1 DEF WsInv
    <2> QED
      BY <1>0, <2>2, NullAssumption
         DEF TypeOK, HomeOK, ListeningOK, Stopping, Starting, Disconnect, Unmap, tasks
  <1> QED
    BY <1>1, <1>2, <1>3, <1>4 DEF WsInv

\* A handler that raises leaves the tables as they are.
LEMMA HandlerRaisesKeeps ==
  ASSUME WsInv, NEW s \in Sockets, HandlerRaises(s)
  PROVE  WsInv'
  <1>0. TypeOK /\ HomeOK /\ TablesAgree
    BY DEF WsInv
  <1>1. TypeOK'
    BY <1>0, NullAssumption DEF TypeOK, HandlerRaises, tables, listening, tasks
  <1>2. HomeOK'
    BY <1>0, NullAssumption DEF TypeOK, HomeOK, HandlerRaises, tables, listening, tasks
  <1>3. TablesAgree'
    BY <1>0, NullAssumption
         DEF TypeOK, HomeOK, TablesAgree, HandlerRaises, tables, listening, tasks
  <1>4. ASSUME NEW w \in Workers \ disturbed' PROVE ListeningOK(w)'
    <2>1. w \in Workers \ disturbed
      BY DEF HandlerRaises, tables, listening, tasks
    <2>2. ListeningOK(w)
      BY <2>1 DEF WsInv
    <2> QED
      BY <1>0, <2>2, NullAssumption
         DEF TypeOK, HomeOK, ListeningOK, Stopping, Starting, HandlerRaises, tables, listening, tasks
  <1> QED
    BY <1>1, <1>2, <1>3, <1>4 DEF WsInv

\* stop_listening begins in an empty channel, or is a disturbance.
LEMMA StopBeginKeeps ==
  ASSUME WsInv, NEW s \in Sockets, StopBegin(s)
  PROVE  WsInv'
  <1>0. TypeOK /\ HomeOK /\ TablesAgree
    BY DEF WsInv
  <1>1. TypeOK'
    <2>1. home[s] \in Workers
      BY <1>0, Situated DEF StopBegin
    <2>2. /\ listener' \in [Sockets -> {"none", "created", "reading", "sending", "ended"}]
          /\ batch' \in [Sockets -> SUBSET Sockets]
      <3>1. PICK t \in Sockets \cup {NULL} : Cancel(t)
        BY <1>0, <2>1 DEF StopBegin, TypeOK
      <3>2. CASE t # NULL /\ listener[t] = "sending"
        <4>1. PICK r \in batch[t] :
                /\ batch' = [batch EXCEPT ![t] = @ \ {r}]
                /\ listener' = IF batch[t] = {r} THEN [listener EXCEPT ![t] = "reading"]
                               ELSE listener
          BY <3>1, <3>2 DEF Cancel
        <4> QED
          BY <1>0, <3>2, <4>1 DEF TypeOK
      <3> QED
        BY <1>0, <3>1, <3>2 DEF Cancel, TypeOK
    <2>3. /\ stop' \in [Sockets -> {"none", "created", "unsubscribing", "closing", "ended"}]
          /\ sub' \in [Sockets -> {"none", "made", "subscribed", "lost", "closed"}]
      BY ZenonT(30), <1>0, <2>1 DEF StopBegin, TypeOK
    <2>4. task' \in [Workers -> Sockets \cup {NULL}] /\ disturbed' \in SUBSET Workers
      BY <1>0, <2>1 DEF StopBegin, TypeOK
    <2> QED
      BY <1>0, <2>2, <2>3, <2>4 DEF StopBegin, TypeOK, tables
  <1>2. HomeOK'
    BY <1>0, NullAssumption DEF TypeOK, HomeOK, StopBegin, Cancel, tables
  <1>3. TablesAgree'
    BY <1>0, NullAssumption DEF TypeOK, HomeOK, TablesAgree, StopBegin, Cancel, tables
  <1>4. ASSUME NEW w \in Workers \ disturbed' PROVE ListeningOK(w)'
    <2>1. w \in Workers \ disturbed /\ ListeningOK(w)
      BY DEF StopBegin, WsInv
    <2>2. home[s] \in Workers
      BY <1>0, Situated DEF StopBegin
    <2>3. CASE home[s] # w
      <3>1. \A r \in Sockets : home[r] = w =>
              /\ sub'[r] = sub[r] /\ stop'[r] = stop[r] /\ reads'[r] = reads[r]
        BY <1>0, <2>2, <2>3, NullAssumption DEF TypeOK, HomeOK, StopBegin
      <3>2. \A r \in Sockets : home[r] = w => listener'[r] = listener[r]
        BY <1>0, <2>2, <2>3, NullAssumption DEF TypeOK, HomeOK, StopBegin, Cancel
      <3>3. /\ home' = home /\ place' = place /\ conns'[w] = conns[w]
            /\ pubsub'[w] = pubsub[w] /\ task'[w] = task[w]
        BY <1>0, <2>2, <2>3 DEF TypeOK, StopBegin, tables
      <3> QED
        BY <1>0, <2>1, <3>1, <3>2, <3>3, OtherWorker
    <2>4. CASE home[s] = w
      <3>1. s \in Stopping(w) /\ conns[w] = {} /\ Starting(w) = {}
        BY <1>0, <2>1, <2>4 DEF ListeningOK, Stopping, Starting, StopBegin, TypeOK
      <3>2. Starting(w)' = {} /\ conns'[w] = {} /\ task'[w] = NULL
        BY <1>0, <3>1, <2>2, <2>4 DEF Starting, StopBegin, TypeOK, tables
      <3>3. \A r \in Sockets : home[r] = w =>
              /\ listener'[r] # "created"
              /\ listener'[r] \in {"reading", "sending"} => listener[r] \in {"reading", "sending"}
        BY <1>0, <2>1, <2>4, NullAssumption DEF ListeningOK, StopBegin, Cancel, TypeOK
      <3>4. \A r \in Sockets : sub'[r] # "closed" => sub[r] # "closed"
        BY <1>0 DEF StopBegin, TypeOK
      <3>5. ASSUME NEW r \in Stopping(w)', stop'[r] # "created", pubsub[w] # NULL
            PROVE  sub'[pubsub[w]] = "closed"
        <4>1. CASE r = s
          BY <1>0, <2>4, <3>5, <4>1 DEF Stopping, StopBegin, TypeOK
        <4>2. CASE r # s
          <5>1. r \in Stopping(w) /\ stop[r] # "created"
            BY <1>0, <3>5, <4>2 DEF Stopping, StopBegin, TypeOK, tables
          <5> QED
            BY <1>0, <2>1, <3>4, <3>5, <5>1 DEF ListeningOK, StopBegin, TypeOK
        <4> QED
          BY <4>1, <4>2
      <3> QED
        BY <1>0, <2>1, <3>2, <3>3, <3>4, <3>5
           DEF ListeningOK, Stopping, Starting, StopBegin, TypeOK, tables
    <2> QED
      BY <2>3, <2>4
  <1> QED
    BY <1>1, <1>2, <1>3, <1>4 DEF WsInv

\* The object that is closed is the one that was unsubscribed.
LEMMA StopCloseKeeps ==
  ASSUME WsInv, NEW s \in Sockets, StopClose(s)
  PROVE  WsInv'
  <1>0. TypeOK /\ HomeOK /\ TablesAgree
    BY DEF WsInv
  <1>1. TypeOK'
    BY <1>0, NullAssumption DEF TypeOK, StopClose, tables, tasks
  <1>2. HomeOK'
    BY <1>0, NullAssumption DEF TypeOK, HomeOK, StopClose, tables, tasks
  <1>3. TablesAgree'
    BY <1>0, NullAssumption DEF TypeOK, HomeOK, TablesAgree, StopClose, tables, tasks
  <1>4. ASSUME NEW w \in Workers \ disturbed' PROVE ListeningOK(w)'
    <2>1. w \in Workers \ disturbed /\ ListeningOK(w)
      BY DEF StopClose, WsInv
    <2>2. home[s] \in Workers
      BY <1>0, Situated DEF StopClose
    <2>3. CASE home[s] # w
      <3>1. \A r \in Sockets : home[r] = w =>
              /\ sub'[r] = sub[r] /\ stop'[r] = stop[r]
              /\ listener'[r] = listener[r] /\ reads'[r] = reads[r]
        BY <1>0, <2>2, <2>3, NullAssumption DEF TypeOK, HomeOK, StopClose, tasks
      <3>2. /\ home' = home /\ place' = place /\ conns'[w] = conns[w]
            /\ pubsub'[w] = pubsub[w] /\ task'[w] = task[w]
        BY DEF StopClose, tables
      <3> QED
        BY <1>0, <2>1, <3>1, <3>2, OtherWorker
    <2>4. CASE home[s] = w
      <3>1. s \in Stopping(w) /\ stop[s] # "created"
        BY <2>4 DEF Stopping, StopClose
      <3>2. conns[w] = {} /\ task[w] = NULL /\ Starting(w) = {}
        BY <2>1, <3>1 DEF ListeningOK
      <3>3. \A r \in Sockets : sub'[r] # "closed" => sub[r] # "closed"
        BY <1>0 DEF StopClose, TypeOK
      <3>4. pubsub[w] # NULL => sub'[pubsub[w]] = "closed"
        BY <1>0, <2>1, <2>4, <3>1, <3>3 DEF ListeningOK, StopClose, TypeOK
      <3> QED
        BY <1>0, <2>1, <3>2, <3>3, <3>4
           DEF ListeningOK, Stopping, Starting, StopClose, TypeOK, tables, tasks
    <2> QED
      BY <2>3, <2>4
  <1> QED
    BY <1>1, <1>2, <1>3, <1>4 DEF WsInv

\* The object that is given up hears nothing any more.
LEMMA StopEndKeeps ==
  ASSUME WsInv, NEW s \in Sockets, StopEnd(s)
  PROVE  WsInv'
  <1>0. TypeOK /\ HomeOK /\ TablesAgree
    BY DEF WsInv
  <1>1. TypeOK'
    BY <1>0, NullAssumption DEF TypeOK, StopEnd, tables, tasks
  <1>2. HomeOK'
    BY <1>0, NullAssumption DEF TypeOK, HomeOK, StopEnd, tables, tasks
  <1>3. TablesAgree'
    BY <1>0, NullAssumption DEF TypeOK, HomeOK, TablesAgree, StopEnd, tables, tasks
  <1>4. ASSUME NEW w \in Workers \ disturbed' PROVE ListeningOK(w)'
    <2>1. w \in Workers \ disturbed /\ ListeningOK(w)
      BY DEF StopEnd, WsInv
    <2>2. home[s] \in Workers
      BY <1>0, Situated DEF StopEnd
    <2>3. CASE home[s] # w
      BY <1>0, <2>1, <2>2, <2>3, OtherWorker, NullAssumption
         DEF TypeOK, HomeOK, StopEnd, tables, tasks
    <2>4. CASE home[s] = w
      <3>1. s \in Stopping(w) /\ stop[s] # "created"
        BY <2>4 DEF Stopping, StopEnd
      <3>2. conns[w] = {} /\ task[w] = NULL /\ Starting(w) = {}
        BY <2>1, <3>1 DEF ListeningOK
      <3>3. \A r \in Sockets : home[r] = w /\ listener[r] \in {"reading", "sending"} =>
              reads[r] = r /\ sub[r] = "closed"
        BY <1>0, <2>1, <3>1, NullAssumption DEF ListeningOK, TypeOK
      <3> QED
        BY <1>0, <2>1, <2>2, <2>4, <3>2, <3>3
           DEF ListeningOK, Stopping, Starting, StopEnd, TypeOK, tables, tasks
    <2> QED
      BY <2>3, <2>4
  <1> QED
    BY <1>1, <1>2, <1>3, <1>4 DEF WsInv

\* A task that begins finds the object of its own start.
LEMMA ListenBeginKeeps ==
  ASSUME WsInv, NEW s \in Sockets, ListenBegin(s)
  PROVE  WsInv'
  <1>0. TypeOK /\ HomeOK /\ TablesAgree
    BY DEF WsInv
  <1>1. TypeOK'
    <2>1. pubsub[home[s]] \in Sockets \cup {NULL}
      BY <1>0, Situated DEF ListenBegin, TypeOK
    <2> QED
      BY ZenonT(30), <1>0, <2>1 DEF TypeOK, ListenBegin, Listening, tables
  <1>2. HomeOK'
    BY <1>0, NullAssumption DEF TypeOK, HomeOK, ListenBegin, Subscriptions, Listening, Live, tables
  <1>3. TablesAgree'
    BY <1>0, NullAssumption
         DEF TypeOK, HomeOK, TablesAgree, ListenBegin, Subscriptions, Listening, Live, tables
  <1>4. ASSUME NEW w \in Workers \ disturbed' PROVE ListeningOK(w)'
    <2>1. w \in Workers \ disturbed
      BY DEF ListenBegin, Subscriptions, Listening, Live, tables
    <2>2. ListeningOK(w)
      BY <2>1 DEF WsInv
    <2> QED
      BY <1>0, <2>2, NullAssumption
         DEF TypeOK, HomeOK, ListeningOK, Stopping, Starting, ListenBegin, Subscriptions, Listening, Live, tables
  <1> QED
    BY <1>1, <1>2, <1>3, <1>4 DEF WsInv

\* Taking a message changes no subscription.
LEMMA ListenTakeKeeps ==
  ASSUME WsInv, NEW s \in Sockets, ListenTake(s)
  PROVE  WsInv'
  <1>0. TypeOK /\ HomeOK /\ TablesAgree
    BY DEF WsInv
  <1>1. TypeOK'
    <2>1. home[s] \in Workers /\ reads[s] \in Sockets
      BY <1>0, Situated DEF ListenTake, HomeOK
    <2>2. PICK b \in inbox[reads[s]] :
            /\ inbox' = [inbox EXCEPT ![reads[s]] = @ \ {b}]
            /\ message' = [message EXCEPT ![s] = b]
            /\ batch' = [batch EXCEPT ![s] = conns[home[s]]]
            /\ listener' = IF conns[home[s]] = {} THEN listener
                           ELSE [listener EXCEPT ![s] = "sending"]
      BY DEF ListenTake
    <2>3. b \in Broadcasts
      BY <1>0, <2>1 DEF TypeOK
    <2>4. /\ inbox' \in [Sockets -> SUBSET Broadcasts]
          /\ message' \in [Sockets -> Broadcasts \cup {NULL}]
          /\ batch' \in [Sockets -> SUBSET Sockets]
          /\ listener' \in [Sockets -> {"none", "created", "reading", "sending", "ended"}]
      BY <1>0, <2>1, <2>2, <2>3 DEF TypeOK
    <2> QED
      BY <1>0, <2>4 DEF TypeOK, ListenTake, Listening, tables
  <1>2. HomeOK'
    BY <1>0, NullAssumption DEF TypeOK, HomeOK, ListenTake, Listening, Live, tables
  <1>3. TablesAgree'
    BY <1>0, NullAssumption DEF TypeOK, HomeOK, TablesAgree, ListenTake, Listening, Live, tables
  <1>4. ASSUME NEW w \in Workers \ disturbed' PROVE ListeningOK(w)'
    <2>1. w \in Workers \ disturbed
      BY DEF ListenTake, Listening, Live, tables
    <2>2. ListeningOK(w)
      BY <2>1 DEF WsInv
    <2> QED
      BY <1>0, <2>2, NullAssumption
         DEF TypeOK, HomeOK, ListeningOK, Stopping, Starting, ListenTake, Listening, Live, tables
  <1> QED
    BY <1>1, <1>2, <1>3, <1>4 DEF WsInv

\* Sending a message changes no subscription.
LEMMA ListenSendKeeps ==
  ASSUME WsInv, NEW s \in Sockets, ListenSend(s)
  PROVE  WsInv'
  <1>0. TypeOK /\ HomeOK /\ TablesAgree
    BY DEF WsInv
  <1>1. TypeOK'
    <2>1. message[s] \in Broadcasts
      BY <1>0 DEF ListenSend, HomeOK
    <2>2. PICK r \in batch[s] :
            /\ heard' = IF r \in alive THEN [heard EXCEPT ![r] = @ \cup {message[s]}] ELSE heard
            /\ batch' = [batch EXCEPT ![s] = @ \ {r}]
            /\ listener' = IF batch[s] = {r} THEN [listener EXCEPT ![s] = "reading"]
                           ELSE listener
      BY DEF ListenSend
    <2>3. /\ heard' \in [Sockets -> SUBSET Broadcasts]
          /\ batch' \in [Sockets -> SUBSET Sockets]
          /\ listener' \in [Sockets -> {"none", "created", "reading", "sending", "ended"}]
      BY <1>0, <2>1, <2>2 DEF TypeOK
    <2> QED
      BY <1>0, <2>3 DEF TypeOK, ListenSend, Listening, tables
  <1>2. HomeOK'
    BY <1>0, NullAssumption DEF TypeOK, HomeOK, ListenSend, Listening, Live, tables
  <1>3. TablesAgree'
    BY <1>0, NullAssumption DEF TypeOK, HomeOK, TablesAgree, ListenSend, Listening, Live, tables
  <1>4. ASSUME NEW w \in Workers \ disturbed' PROVE ListeningOK(w)'
    <2>1. w \in Workers \ disturbed
      BY DEF ListenSend, Listening, Live, tables
    <2>2. ListeningOK(w)
      BY <2>1 DEF WsInv
    <2> QED
      BY <1>0, <2>2, NullAssumption
         DEF TypeOK, HomeOK, ListeningOK, Stopping, Starting, ListenSend, Listening, Live, tables
  <1> QED
    BY <1>1, <1>2, <1>3, <1>4 DEF WsInv

\* A read that fails loses the subscription of the task that reads.
LEMMA ListenFailsKeeps ==
  ASSUME WsInv, NEW s \in Sockets, ListenFails(s)
  PROVE  WsInv'
  <1>0. TypeOK /\ HomeOK /\ TablesAgree
    BY DEF WsInv
  <1>1. TypeOK'
    BY <1>0, NullAssumption DEF TypeOK, ListenFails, Live, tables, tasks
  <1>2. HomeOK'
    BY <1>0, NullAssumption DEF TypeOK, HomeOK, ListenFails, Live, tables, tasks
  <1>3. TablesAgree'
    BY <1>0, NullAssumption DEF TypeOK, HomeOK, TablesAgree, ListenFails, Live, tables, tasks
  <1>4. ASSUME NEW w \in Workers \ disturbed' PROVE ListeningOK(w)'
    <2>1. w \in Workers \ disturbed
      BY DEF ListenFails
    <2>2. ListeningOK(w)
      BY <2>1 DEF WsInv
    <2> QED
      BY <1>0, <2>2, NullAssumption
         DEF TypeOK, HomeOK, ListeningOK, Stopping, Starting, ListenFails, Live, tables, tasks
  <1> QED
    BY <1>1, <1>2, <1>3, <1>4 DEF WsInv

\* A connection that is made again leaves its task reading.
LEMMA ListenReconnectsKeeps ==
  ASSUME WsInv, NEW s \in Sockets, ListenReconnects(s)
  PROVE  WsInv'
  <1>0. TypeOK /\ HomeOK /\ TablesAgree
    BY DEF WsInv
  <1>1. TypeOK'
    BY <1>0, NullAssumption DEF TypeOK, ListenReconnects, tables, tasks
  <1>2. HomeOK'
    BY <1>0, NullAssumption DEF TypeOK, HomeOK, ListenReconnects, tables, tasks
  <1>3. TablesAgree'
    BY <1>0, NullAssumption DEF TypeOK, HomeOK, TablesAgree, ListenReconnects, tables, tasks
  <1>4. ASSUME NEW w \in Workers \ disturbed' PROVE ListeningOK(w)'
    <2>1. w \in Workers \ disturbed
      BY DEF ListenReconnects
    <2>2. ListeningOK(w)
      BY <2>1 DEF WsInv
    <2> QED
      BY <1>0, <2>2, NullAssumption
         DEF TypeOK, HomeOK, ListeningOK, Stopping, Starting, ListenReconnects, tables, tasks
  <1> QED
    BY <1>1, <1>2, <1>3, <1>4 DEF WsInv

\* A task ends with its object, or with its object's connection.
LEMMA ListenEndKeeps ==
  ASSUME WsInv, NEW s \in Sockets, ListenEnd(s)
  PROVE  WsInv'
  <1>0. TypeOK /\ HomeOK /\ TablesAgree
    BY DEF WsInv
  <1>1. TypeOK'
    BY <1>0, NullAssumption DEF TypeOK, ListenEnd, Listening, Live, tables
  <1>2. HomeOK'
    BY <1>0, NullAssumption DEF TypeOK, HomeOK, ListenEnd, Listening, Live, tables
  <1>3. TablesAgree'
    BY <1>0, NullAssumption DEF TypeOK, HomeOK, TablesAgree, ListenEnd, Listening, Live, tables
  <1>4. ASSUME NEW w \in Workers \ disturbed' PROVE ListeningOK(w)'
    <2>1. w \in Workers \ disturbed
      BY DEF ListenEnd, Listening, Live, tables
    <2>2. ListeningOK(w)
      BY <2>1 DEF WsInv
    <2> QED
      BY <1>0, <2>2, NullAssumption
         DEF TypeOK, HomeOK, ListeningOK, Stopping, Starting, ListenEnd, Listening, Live, tables
  <1> QED
    BY <1>1, <1>2, <1>3, <1>4 DEF WsInv

\* A broadcast begins.
LEMMA CastBeginKeeps ==
  ASSUME WsInv, NEW b \in Broadcasts, CastBegin(b)
  PROVE  WsInv'
  <1>0. TypeOK /\ HomeOK /\ TablesAgree
    BY DEF WsInv
  <1>1. TypeOK'
    BY <1>0, NullAssumption DEF TypeOK, CastBegin, Outside, Cast, tables, listening, tasks
  <1>2. HomeOK'
    BY <1>0, NullAssumption
         DEF TypeOK, HomeOK, CastBegin, Outside, Cast, tables, listening, tasks
  <1>3. TablesAgree'
    BY <1>0, NullAssumption
         DEF TypeOK, HomeOK, TablesAgree, CastBegin, Outside, Cast, tables, listening, tasks
  <1>4. ASSUME NEW w \in Workers \ disturbed' PROVE ListeningOK(w)'
    <2>1. w \in Workers \ disturbed
      BY DEF CastBegin, Outside, Cast, tables, listening, tasks
    <2>2. ListeningOK(w)
      BY <2>1 DEF WsInv
    <2> QED
      BY <1>0, <2>2, NullAssumption
         DEF TypeOK, HomeOK, ListeningOK, Stopping, Starting, CastBegin, Outside, Cast, tables, listening, tasks
  <1> QED
    BY <1>1, <1>2, <1>3, <1>4 DEF WsInv

\* A broadcast sends.
LEMMA CastSendKeeps ==
  ASSUME WsInv, NEW b \in Broadcasts, CastSend(b)
  PROVE  WsInv'
  <1>0. TypeOK /\ HomeOK /\ TablesAgree
    BY DEF WsInv
  <1>1. TypeOK'
    <2>1. PICK s \in Channel(b) \ cast[b].seen :
            /\ cast' = [cast EXCEPT ![b].seen = @ \cup {s},
                                    ![b].failed = IF s \in alive THEN @ ELSE @ \cup {s}]
            /\ heard' = IF s \in alive THEN [heard EXCEPT ![s] = @ \cup {b}] ELSE heard
      BY DEF CastSend
    <2>2. s \in Sockets
      BY <1>0, <2>1 DEF CastSend, Channel, TypeOK, HomeOK
    <2> DEFINE c == [cast[b] EXCEPT !.seen = @ \cup {s},
                                    !.failed = IF s \in alive THEN @ ELSE @ \cup {s}]
    <2>3. c \in Cast
      <3>1. cast[b] \in Cast
        BY <1>0 DEF TypeOK
      <3> QED
        BY <2>2, <3>1 DEF Cast
    <2>4. cast' = [cast EXCEPT ![b] = c]
      BY <1>0, <2>1 DEF TypeOK
    <2>5. cast' \in [Broadcasts -> Cast] /\ heard' \in [Sockets -> SUBSET Broadcasts]
      BY <1>0, <2>1, <2>2, <2>3, <2>4 DEF TypeOK
    <2> QED
      BY <1>0, <2>5 DEF TypeOK, CastSend, tables, listening, tasks
  <1>2. HomeOK'
    BY <1>0, NullAssumption
         DEF TypeOK, HomeOK, CastSend, Channel, Resized, Cast, tables, listening, tasks
  <1>3. TablesAgree'
    BY <1>0, NullAssumption
         DEF TypeOK, HomeOK, TablesAgree, CastSend, Channel, Resized, Cast, tables, listening, tasks
  <1>4. ASSUME NEW w \in Workers \ disturbed' PROVE ListeningOK(w)'
    <2>1. w \in Workers \ disturbed
      BY DEF CastSend, Channel, Resized, Cast, tables, listening, tasks
    <2>2. ListeningOK(w)
      BY <2>1 DEF WsInv
    <2> QED
      BY <1>0, <2>2, NullAssumption
         DEF TypeOK, HomeOK, ListeningOK, Stopping, Starting, CastSend, Channel, Resized, Cast, tables, listening, tasks
  <1> QED
    BY <1>1, <1>2, <1>3, <1>4 DEF WsInv

\* A broadcast fails.
LEMMA CastRaiseKeeps ==
  ASSUME WsInv, NEW b \in Broadcasts, CastRaise(b)
  PROVE  WsInv'
  <1>0. TypeOK /\ HomeOK /\ TablesAgree
    BY DEF WsInv
  <1>1. TypeOK'
    BY <1>0, NullAssumption DEF TypeOK, CastRaise, Outside, Cast, tables, listening, tasks
  <1>2. HomeOK'
    BY <1>0, NullAssumption
         DEF TypeOK, HomeOK, CastRaise, Outside, Cast, tables, listening, tasks
  <1>3. TablesAgree'
    BY <1>0, NullAssumption
         DEF TypeOK, HomeOK, TablesAgree, CastRaise, Outside, Cast, tables, listening, tasks
  <1>4. ASSUME NEW w \in Workers \ disturbed' PROVE ListeningOK(w)'
    <2>1. w \in Workers \ disturbed
      BY DEF CastRaise, Outside, Cast, tables, listening, tasks
    <2>2. ListeningOK(w)
      BY <2>1 DEF WsInv
    <2> QED
      BY <1>0, <2>2, NullAssumption
         DEF TypeOK, HomeOK, ListeningOK, Stopping, Starting, CastRaise, Outside, Cast, tables, listening, tasks
  <1> QED
    BY <1>1, <1>2, <1>3, <1>4 DEF WsInv

\* A broadcast takes sockets out of the channel, and out of nothing else.
LEMMA CastDropKeeps ==
  ASSUME WsInv, NEW b \in Broadcasts, CastDrop(b)
  PROVE  WsInv'
  <1>0. TypeOK /\ HomeOK /\ TablesAgree
    BY DEF WsInv
  <1>1. TypeOK'
    BY <1>0, NullAssumption DEF TypeOK, CastDrop, Channel, Outside, Cast, listening, tasks
  <1>2. HomeOK'
    BY <1>0, NullAssumption
         DEF TypeOK, HomeOK, CastDrop, Channel, Outside, Cast, listening, tasks
  <1>3. TablesAgree'
    BY <1>0, NullAssumption
         DEF TypeOK, HomeOK, TablesAgree, CastDrop, Channel, Outside, Cast, listening, tasks
  <1>4. ASSUME NEW w \in Workers \ disturbed' PROVE ListeningOK(w)'
    <2>1. w \in Workers \ disturbed
      BY DEF CastDrop, Channel, Outside, Cast, listening, tasks
    <2>2. ListeningOK(w)
      BY <2>1 DEF WsInv
    <2> QED
      BY <1>0, <2>2, NullAssumption
         DEF TypeOK, HomeOK, ListeningOK, Stopping, Starting, CastDrop, Channel, Outside, Cast, listening, tasks
  <1> QED
    BY <1>1, <1>2, <1>3, <1>4 DEF WsInv

\* A broadcast publishes.
LEMMA CastPublishKeeps ==
  ASSUME WsInv, NEW b \in Broadcasts, CastPublish(b)
  PROVE  WsInv'
  <1>0. TypeOK /\ HomeOK /\ TablesAgree
    BY DEF WsInv
  <1>1. TypeOK'
    <2>1. PICK at \in {"published", "raised"} : cast' = [cast EXCEPT ![b].at = at]
      BY DEF CastPublish
    <2>2. [cast[b] EXCEPT !.at = at] \in Cast
      <3>1. cast[b] \in Cast
        BY <1>0 DEF TypeOK
      <3> QED
        BY <2>1, <3>1 DEF Cast
    <2>3. cast' = [cast EXCEPT ![b] = [cast[b] EXCEPT !.at = at]]
      BY <1>0, <2>1 DEF TypeOK
    <2>4. cast' \in [Broadcasts -> Cast]
      BY <1>0, <2>2, <2>3 DEF TypeOK
    <2>5. inbox' \in [Sockets -> SUBSET Broadcasts]
      BY <1>0 DEF TypeOK, CastPublish
    <2> QED
      BY <1>0, <2>4, <2>5 DEF TypeOK, CastPublish, tables, tasks
  <1>2. HomeOK'
    <2>1. ASSUME NEW d \in Broadcasts, cast'[d].at = "sending"
          PROVE  cast[d].at = "sending" /\ cast'[d] = cast[d]
      <3>1. CASE d = b
        <4>1. cast[b] \in Cast /\ cast'[b].at \in {"published", "raised"}
          BY <1>0 DEF CastPublish, TypeOK, Cast
        <4> QED
          BY <2>1, <3>1, <4>1
      <3>2. CASE d # b
        BY <1>0, <2>1, <3>2 DEF CastPublish, TypeOK
      <3> QED
        BY <3>1, <3>2
    <2> QED
      BY <1>0, <2>1 DEF HomeOK, CastPublish, tables, tasks
  <1>3. TablesAgree'
    BY <1>0, NullAssumption DEF TypeOK, HomeOK, TablesAgree, CastPublish, Cast, tables, tasks
  <1>4. ASSUME NEW w \in Workers \ disturbed' PROVE ListeningOK(w)'
    <2>1. w \in Workers \ disturbed
      BY DEF CastPublish, Cast, tables, tasks
    <2>2. ListeningOK(w)
      BY <2>1 DEF WsInv
    <2> QED
      BY <1>0, <2>2, NullAssumption
         DEF TypeOK, HomeOK, ListeningOK, Stopping, Starting, CastPublish, Cast, tables, tasks
  <1> QED
    BY <1>1, <1>2, <1>3, <1>4 DEF WsInv

------------------------------------------------------------------------------
(* Theorems                                                                *)

\* An empty manager satisfies the invariant.
THEOREM InitWs == Init => WsInv
  <1> SUFFICES ASSUME Init PROVE WsInv
    OBVIOUS
  <1>1. TypeOK
    BY DEF Init, TypeOK, Outside, Cast
  <1>2. HomeOK /\ TablesAgree
    BY NullAssumption DEF Init, HomeOK, TablesAgree, Outside
  <1>3. \A w \in Workers \ disturbed : ListeningOK(w)
    BY DEF Init, ListeningOK, Stopping, Starting
  <1> QED
    BY <1>1, <1>2, <1>3 DEF WsInv

\* Every step of a client, a handler, a task or a broadcast keeps it.
THEOREM StepKeeps == WsInv /\ [Next]_vars => WsInv'
  <1> SUFFICES ASSUME WsInv, [Next]_vars PROVE WsInv'
    OBVIOUS
  <1>1. ASSUME NEW s \in Sockets, Resume(s) PROVE WsInv'
    BY <1>1, SubscribedKeeps, DisconnectKeeps, StopBeginKeeps, StopCloseKeeps, StopEndKeeps,
       ListenBeginKeeps, ListenTakeKeeps, ListenSendKeeps, ListenEndKeeps DEF Resume
  <1>2. ASSUME NEW s \in Sockets,
               \/ Connect(s) \/ SubscribeFails(s) \/ ClientLeaves(s)
               \/ HandlerRaises(s) \/ ListenFails(s) \/ ListenReconnects(s)
        PROVE  WsInv'
    BY <1>2, ConnectKeeps, SubscribeFailsKeeps, ClientLeavesKeeps, HandlerRaisesKeeps,
       ListenFailsKeeps, ListenReconnectsKeeps
  <1>3. ASSUME NEW b \in Broadcasts, CastBegin(b) \/ Send(b) PROVE WsInv'
    BY <1>3, CastBeginKeeps, CastSendKeeps, CastRaiseKeeps, CastDropKeeps, CastPublishKeeps
       DEF Send
  <1>4. CASE UNCHANGED vars
    <2>1. TypeOK' /\ HomeOK' /\ TablesAgree'
      BY <1>4 DEF vars, tables, listening, tasks, WsInv, TypeOK, HomeOK, TablesAgree
    <2>2. ASSUME NEW w \in Workers \ disturbed' PROVE ListeningOK(w)'
      <3>1. w \in Workers \ disturbed
        BY <1>4 DEF vars
      <3>2. TypeOK /\ HomeOK /\ ListeningOK(w)
        BY <3>1 DEF WsInv
      <3> QED
        BY <1>4, <3>2, OtherWorker DEF vars, tables, listening, tasks
    <2> QED
      BY <2>1, <2>2 DEF WsInv
  <1> QED
    BY <1>1, <1>2, <1>3, <1>4 DEF Next

\* WsInv holds in every reachable state.
THEOREM WsInductive == Spec => []WsInv
  BY InitWs, StepKeeps, PTL DEF Spec

\* The state is well typed.
THEOREM WsTypeCorrect == Spec => []TypeOK
  <1>1. WsInv => TypeOK
    BY DEF WsInv
  <1> QED
    BY <1>1, WsInductive, PTL

\* The two tables of cleaners agree.
THEOREM TablesAgreeAlways == Spec => []TablesAgree
  <1>1. WsInv => TablesAgree
    BY DEF WsInv
  <1> QED
    BY <1>1, WsInductive, PTL

\* Where no start met a stop, a worker with clients has one task that hears through
\* the object that stop_listening would find, or a read of that object has failed.
THEOREM ListensAlways == Spec => []ListensUnlessDisturbed
  <1>1. WsInv => ListensUnlessDisturbed
    <2> SUFFICES ASSUME WsInv, NEW w \in Workers \ disturbed
                 PROVE  LET lives == {s \in Sockets : home[s] = w /\ Live(s)} IN
                        /\ Settled(w) /\ conns[w] # {} =>
                             /\ task[w] # NULL /\ pubsub[w] # NULL
                             /\ \/ lives = {task[w]} /\ reads[task[w]] = pubsub[w]
                                \/ lives = {} /\ sub[pubsub[w]] = "lost"
                        /\ Cardinality(lives) <= 1
      BY DEF ListensUnlessDisturbed
    <2> DEFINE lives == {s \in Sockets : home[s] = w /\ Live(s)}
    <2>1. TypeOK /\ HomeOK /\ ListeningOK(w)
      BY DEF WsInv
    <2>2. \A s \in lives : pubsub[w] = s /\ reads[s] = s /\ sub[s] = "subscribed"
      BY <2>1 DEF ListeningOK, Live
    <2>3. Cardinality(lives) <= 1
      <3>1. lives = {} \/ \E s \in Sockets : lives = {s}
        BY <2>2
      <3> QED
        BY <3>1, FS_EmptySet, FS_Singleton
    <2>4. ASSUME Settled(w), conns[w] # {}
          PROVE  /\ task[w] # NULL /\ pubsub[w] # NULL
                 /\ \/ lives = {task[w]} /\ reads[task[w]] = pubsub[w]
                    \/ lives = {} /\ sub[pubsub[w]] = "lost"
      <3>1. Starting(w) = {} /\ task[w] # NULL
        BY <2>1, <2>4 DEF ListeningOK, Settled, Starting
      <3>2. task[w] \in Sockets /\ home[task[w]] = w /\ pubsub[w] = task[w]
        BY <2>1, <3>1 DEF TypeOK, HomeOK, ListeningOK
      <3>3. CASE sub[task[w]] = "lost"
        BY <2>2, <3>1, <3>2, <3>3
      <3>4. CASE sub[task[w]] = "subscribed"
        <4>1. listener[task[w]] \in {"reading", "sending"} /\ reads[task[w]] = task[w]
          BY <2>1, <2>4, <3>1, <3>2, <3>4 DEF ListeningOK, Settled
        <4> QED
          BY <2>2, <3>1, <3>2, <3>4, <4>1 DEF Live
      <3> QED
        BY <2>1, <3>1, <3>3, <3>4 DEF ListeningOK
    <2> QED
      BY <2>3, <2>4
  <1> QED
    BY <1>1, WsInductive, PTL
==============================================================================
