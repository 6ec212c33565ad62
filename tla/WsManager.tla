------------------------------ MODULE WsManager ------------------------------
(***************************************************************************)
(* The ConnectionManager of each worker (app/core/websocket.py), with the  *)
(* sockets that app/api/orders.py connects to its channel "orders" and the *)
(* broadcasts that the writers of orders make.                             *)
(*                                                                         *)
(* Everything here runs in one event loop per worker and is cut where it   *)
(* awaits.  What a socket's connect and disconnect create is named after   *)
(* the socket: the pubsub object and the listen task of a connect that     *)
(* starts listening, the stop_listening task of a disconnect.  A socket is *)
(* used once.  Redis delivers a message to every subscribed pubsub object. *)
(***************************************************************************)
EXTENDS Naturals, FiniteSets

CONSTANTS
    Workers,       \* server processes
    Sockets,       \* WebSocket connections
    Cleaners,      \* cleaner ids that a socket can be opened for
    Broadcasts,    \* calls of broadcast("orders", ...)
    Failing,       \* the calls of Redis that can fail
    NULL

ASSUME FailingAssumption == Failing \subseteq {"subscribe", "unsubscribe", "close", "publish", "read"}
ASSUME NullAssumption ==
    NULL \notin Workers /\ NULL \notin Sockets /\ NULL \notin Cleaners

VARIABLES
    conns,       \* channel_connections["orders"] of each worker
    mapped,      \* cleaner_connections
    owner,       \* ws_to_cleaner
    pubsub,      \* self.pubsub: the socket whose connect made it, or NULL
    task,        \* self.pubsub_task: likewise
    home,        \* the worker of a socket
    place,       \* where the handler of a socket stands
    alive,       \* sockets whose client is still there
    sub,         \* state of a pubsub object; "lost": a read of it failed, and its
                 \* connection is closed
    listener,    \* state of a listen task
    reads,       \* the pubsub object that a listen task reads
    message,     \* the message that a listen task is sending
    batch,       \* the sockets it has yet to send it to
    stop,        \* state of a stop_listening task
    cast,        \* the broadcasts
    inbox,       \* what Redis sent to a pubsub object and nobody has read
    heard,       \* which broadcasts a socket was sent
    disturbed,   \* history: workers where a start met an old subscription or a
                 \* stop, or failed
    overlapped   \* history: where a cleaner connected before its old socket's
                 \* disconnect

tables == <<conns, mapped, owner, home, overlapped>>
tasks == <<listener, reads, message, batch>>
listening == <<pubsub, task, sub, tasks, stop, inbox>>
vars == <<tables, listening, place, alive, cast, heard, disturbed>>

Cast == [at     : {"new", "sending", "publishing", "published", "raised"},
         worker : Workers \cup {NULL},
         due    : SUBSET Sockets,      \* the set when the loop began
         seen   : SUBSET Sockets,      \* what the iterator has visited
         failed : SUBSET Sockets]      \* `disconnected`

\* A broadcast outside its loop.
Outside(at, w) == [at |-> at, worker |-> w, due |-> {}, seen |-> {}, failed |-> {}]

TypeOK ==
    /\ conns \in [Workers -> SUBSET Sockets]
    /\ mapped \in [Workers -> [Cleaners -> Sockets \cup {NULL}]]
    /\ owner \in [Sockets -> Cleaners \cup {NULL}]
    /\ pubsub \in [Workers -> Sockets \cup {NULL}]
    /\ task \in [Workers -> Sockets \cup {NULL}]
    /\ home \in [Sockets -> Workers \cup {NULL}]
    /\ place \in [Sockets -> {"new", "subscribing", "open", "gone"}]
    /\ alive \in SUBSET Sockets
    /\ sub \in [Sockets -> {"none", "made", "subscribed", "lost", "closed"}]
    /\ listener \in [Sockets -> {"none", "created", "reading", "sending", "ended"}]
    /\ reads \in [Sockets -> Sockets \cup {NULL}]
    /\ message \in [Sockets -> Broadcasts \cup {NULL}]
    /\ batch \in [Sockets -> SUBSET Sockets]
    /\ stop \in [Sockets -> {"none", "created", "unsubscribing", "closing", "ended"}]
    /\ cast \in [Broadcasts -> Cast]
    /\ inbox \in [Sockets -> SUBSET Broadcasts]
    /\ heard \in [Sockets -> SUBSET Broadcasts]
    /\ disturbed \in SUBSET Workers
    /\ overlapped \in SUBSET (Workers \X Cleaners)

Init ==
    /\ conns = [w \in Workers |-> {}]
    /\ mapped = [w \in Workers |-> [c \in Cleaners |-> NULL]]
    /\ owner = [s \in Sockets |-> NULL]
    /\ pubsub = [w \in Workers |-> NULL]
    /\ task = [w \in Workers |-> NULL]
    /\ home = [s \in Sockets |-> NULL]
    /\ place = [s \in Sockets |-> "new"]
    /\ alive = {}
    /\ sub = [s \in Sockets |-> "none"]
    /\ listener = [s \in Sockets |-> "none"]
    /\ reads = [s \in Sockets |-> NULL]
    /\ message = [s \in Sockets |-> NULL]
    /\ batch = [s \in Sockets |-> {}]
    /\ stop = [s \in Sockets |-> "none"]
    /\ cast = [b \in Broadcasts |-> Outside("new", NULL)]
    /\ inbox = [s \in Sockets |-> {}]
    /\ heard = [s \in Sockets |-> {}]
    /\ disturbed = {}
    /\ overlapped = {}

\* A worker's stop_listening tasks that have not ended.
Stopping(w) == {s \in Sockets : home[s] = w /\ stop[s] \notin {"none", "ended"}}

------------------------------------------------------------------------------
(* connect                                                                 *)

\* The cleaner's id and the socket name each other.
Register(s, w, c) ==
    /\ owner' = [owner EXCEPT ![s] = c]
    /\ mapped' = IF c = NULL THEN mapped ELSE [mapped EXCEPT ![w][c] = s]
    /\ overlapped' = IF c # NULL /\ \E r \in Sockets : home[r] = w /\ owner[r] = c
                     THEN overlapped \cup {<<w, c>>} ELSE overlapped

\* start_listening, up to its await: a new pubsub object takes the old one's place.
StartListening(s, w) ==
    /\ pubsub' = [pubsub EXCEPT ![w] = s]
    /\ sub' = [sub EXCEPT ![s] = "made"]
    /\ place' = [place EXCEPT ![s] = "subscribing"]
    /\ disturbed' = IF pubsub[w] = NULL /\ Stopping(w) = {}
                    THEN disturbed ELSE disturbed \cup {w}

\* connect, after the socket is accepted.  The channel's first socket starts to
\* listen.
Connect(s) ==
    /\ place[s] = "new"
    /\ \E w \in Workers, c \in Cleaners \cup {NULL} :
         /\ conns' = [conns EXCEPT ![w] = @ \cup {s}]
         /\ home' = [home EXCEPT ![s] = w]
         /\ Register(s, w, c)
         /\ \/ conns[w] = {} /\ StartListening(s, w)
            \/ /\ conns[w] # {}
               /\ place' = [place EXCEPT ![s] = "open"]
               /\ UNCHANGED <<pubsub, sub, disturbed>>
    /\ alive' = alive \cup {s}
    /\ UNCHANGED <<task, tasks, stop, cast, inbox, heard>>

\* start_listening goes on when SUBSCRIBE is sent, and creates the listen task.
\* The object may have been closed meanwhile.
Subscribed(s) ==
    /\ place[s] = "subscribing"
    /\ sub' = IF sub[s] = "closed" THEN sub ELSE [sub EXCEPT ![s] = "subscribed"]
    /\ task' = [task EXCEPT ![home[s]] = s]
    /\ listener' = [listener EXCEPT ![s] = "created"]
    /\ place' = [place EXCEPT ![s] = "open"]
    /\ UNCHANGED <<tables, pubsub, alive, reads, message, batch, stop, cast, inbox,
                   heard, disturbed>>

\* Redis fails: connect raises before the handler's try, and nobody disconnects.
SubscribeFails(s) ==
    /\ "subscribe" \in Failing
    /\ place[s] = "subscribing"
    /\ place' = [place EXCEPT ![s] = "gone"]
    /\ alive' = alive \ {s}
    /\ disturbed' = disturbed \cup {home[s]}
    /\ UNCHANGED <<tables, listening, cast, heard>>

------------------------------------------------------------------------------
(* disconnect and stop_listening                                           *)

ClientLeaves(s) ==
    /\ s \in alive
    /\ alive' = alive \ {s}
    /\ UNCHANGED <<tables, listening, place, cast, heard, disturbed>>

\* Mutant: the mapping stays until the cleaner connects again.
UnmapForgotten(s) ==
    /\ owner' = [owner EXCEPT ![s] = NULL]
    /\ UNCHANGED mapped

\* The mapping of the cleaner goes, whichever socket it names.
Unmap(s) ==
    /\ owner' = [owner EXCEPT ![s] = NULL]
    /\ mapped' = IF owner[s] = NULL THEN mapped
                 ELSE [mapped EXCEPT ![home[s]][owner[s]] = NULL]

\* Mutant: every disconnect stops the listening.
DisconnectStops(s) ==
    /\ place[s] = "open" /\ s \notin alive
    /\ conns' = [conns EXCEPT ![home[s]] = @ \ {s}]
    /\ Unmap(s)
    /\ stop' = [stop EXCEPT ![s] = "created"]
    /\ place' = [place EXCEPT ![s] = "gone"]
    /\ UNCHANGED <<home, overlapped, pubsub, task, alive, sub, tasks, cast, inbox,
                   heard, disturbed>>

\* `except WebSocketDisconnect`.
Disconnect(s) ==
    /\ place[s] = "open" /\ s \notin alive
    /\ conns' = [conns EXCEPT ![home[s]] = @ \ {s}]
    /\ Unmap(s)
    /\ stop' = IF conns'[home[s]] = {} THEN [stop EXCEPT ![s] = "created"] ELSE stop
    /\ place' = [place EXCEPT ![s] = "gone"]
    /\ UNCHANGED <<home, overlapped, pubsub, task, alive, sub, tasks, cast, inbox,
                   heard, disturbed>>

\* Any other exception, as from a message that is no JSON object: the handler
\* ends and leaves its socket in the tables.
HandlerRaises(s) ==
    /\ place[s] = "open"
    /\ place' = [place EXCEPT ![s] = "gone"]
    /\ alive' = alive \ {s}
    /\ UNCHANGED <<tables, listening, cast, heard, disturbed>>

\* A cancelled task ends, unless it is sending: then the bare `except` around
\* send_json swallows the CancelledError, and only that send is given up.
Cancel(t) ==
    \/ /\ t # NULL /\ listener[t] = "sending"
       /\ \E r \in batch[t] :
            /\ batch' = [batch EXCEPT ![t] = @ \ {r}]
            /\ listener' = IF batch[t] = {r} THEN [listener EXCEPT ![t] = "reading"]
                           ELSE listener
    \/ /\ t # NULL /\ listener[t] # "sending"
       /\ listener' = [listener EXCEPT ![t] = "ended"]
       /\ UNCHANGED batch
    \/ t = NULL /\ UNCHANGED <<listener, batch>>

\* stop_listening, up to its first await: the listen task is cancelled and the
\* object, if there is one, unsubscribed, or Redis fails.
StopBegin(s) ==
    LET w == home[s]
        p == pubsub[w]
    IN
    /\ stop[s] = "created"
    /\ Cancel(task[w])
    /\ task' = [task EXCEPT ![w] = NULL]
    /\ \/ /\ p # NULL
          /\ sub' = [sub EXCEPT ![p] = "closed"]
          /\ stop' = [stop EXCEPT ![s] = "unsubscribing"]
       \/ /\ p = NULL \/ "unsubscribe" \in Failing
          /\ stop' = [stop EXCEPT ![s] = "ended"]
          /\ UNCHANGED sub
    /\ disturbed' = IF \E r \in Sockets : home[r] = w /\ place[r] = "subscribing"
                    THEN disturbed \cup {w} ELSE disturbed
    /\ UNCHANGED <<tables, pubsub, reads, message, place, alive, cast, inbox, heard>>

\* `await self.pubsub.close()` closes what self.pubsub is by then; if that is
\* None, or the close fails, the task ends with an exception.
StopClose(s) ==
    LET p == pubsub[home[s]]
    IN
    /\ stop[s] = "unsubscribing"
    /\ \/ /\ p # NULL
          /\ sub' = [sub EXCEPT ![p] = "closed"]
          /\ stop' = [stop EXCEPT ![s] = "closing"]
       \/ /\ p = NULL \/ "close" \in Failing
          /\ stop' = [stop EXCEPT ![s] = "ended"]
          /\ UNCHANGED sub
    /\ UNCHANGED <<tables, pubsub, task, tasks, place, alive, cast, inbox, heard, disturbed>>

StopEnd(s) ==
    /\ stop[s] = "closing"
    /\ pubsub' = [pubsub EXCEPT ![home[s]] = NULL]
    /\ stop' = [stop EXCEPT ![s] = "ended"]
    /\ UNCHANGED <<tables, task, place, alive, sub, tasks, cast, inbox, heard, disturbed>>

------------------------------------------------------------------------------
(* listen                                                                  *)

\* A listen task that gets messages.
Live(s) == listener[s] \in {"reading", "sending"} /\ sub[reads[s]] = "subscribed"

Listening(s) ==
    UNCHANGED <<tables, pubsub, task, place, alive, sub, stop, cast, disturbed>>

\* The pubsub objects that listen() takes to be subscribed.
Subscriptions == {p \in Sockets : sub[p] \in {"subscribed", "lost"}}

\* The task begins, and only now looks up self.pubsub.  It ends at once if that is
\* None or has no subscription; it may if another task is reading the object.
ListenBegin(s) ==
    LET p == pubsub[home[s]]
    IN
    /\ listener[s] = "created"
    /\ \/ /\ p \in Subscriptions
          /\ listener' = [listener EXCEPT ![s] = "reading"]
          /\ reads' = [reads EXCEPT ![s] = p]
       \/ /\ \/ p \notin Subscriptions
             \/ \E r \in Sockets : Live(r) /\ reads[r] = p
          /\ listener' = [listener EXCEPT ![s] = "ended"]
          /\ UNCHANGED reads
    /\ Listening(s) /\ UNCHANGED <<message, batch, inbox, heard>>

\* A message comes in, and is to be sent to the channel as it is now.
ListenTake(s) ==
    /\ Live(s) /\ listener[s] = "reading"
    /\ \E b \in inbox[reads[s]] :
         /\ inbox' = [inbox EXCEPT ![reads[s]] = @ \ {b}]
         /\ message' = [message EXCEPT ![s] = b]
         /\ batch' = [batch EXCEPT ![s] = conns[home[s]]]
         /\ listener' = IF conns[home[s]] = {} THEN listener
                        ELSE [listener EXCEPT ![s] = "sending"]
    /\ Listening(s) /\ UNCHANGED <<reads, heard>>

\* Mutant: an exception leaves the loop.
ListenSendUntilOneFails(s) ==
    /\ listener[s] = "sending"
    /\ \E r \in batch[s] :
         /\ heard' = IF r \in alive THEN [heard EXCEPT ![r] = @ \cup {message[s]}] ELSE heard
         /\ batch' = [batch EXCEPT ![s] = IF r \in alive THEN @ \ {r} ELSE {}]
         /\ listener' = IF batch'[s] = {} THEN [listener EXCEPT ![s] = "reading"]
                        ELSE listener
    /\ Listening(s) /\ UNCHANGED <<reads, message, inbox>>

\* One send is over; its failure is swallowed.
ListenSend(s) ==
    /\ listener[s] = "sending"
    /\ \E r \in batch[s] :
         /\ heard' = IF r \in alive THEN [heard EXCEPT ![r] = @ \cup {message[s]}] ELSE heard
         /\ batch' = [batch EXCEPT ![s] = @ \ {r}]
         /\ listener' = IF batch[s] = {r} THEN [listener EXCEPT ![s] = "reading"]
                        ELSE listener
    /\ Listening(s) /\ UNCHANGED <<reads, message, inbox>>

\* Reading fails: nothing came for socket_timeout seconds, or the connection broke.
\* What it held is lost with it.
ListenFails(s) ==
    /\ Live(s) /\ listener[s] = "reading"
    /\ inbox[reads[s]] = {} \/ "read" \in Failing
    /\ sub' = [sub EXCEPT ![reads[s]] = "lost"]
    /\ inbox' = [inbox EXCEPT ![reads[s]] = {}]
    /\ UNCHANGED <<tables, pubsub, task, tasks, place, alive, stop, cast, heard, disturbed>>

\* A redis-py that retries connects again and subscribes anew; so does another task
\* that reads the object.
ListenReconnects(s) ==
    /\ listener[s] = "reading" /\ sub[reads[s]] = "lost"
    /\ sub' = [sub EXCEPT ![reads[s]] = "subscribed"]
    /\ UNCHANGED <<tables, pubsub, task, tasks, place, alive, stop, cast, inbox, heard,
                   disturbed>>

\* The object it reads was closed, or the failure of the read is raised: no `try`
\* holds it, and nobody starts the task again.
ListenEnd(s) ==
    /\ listener[s] = "reading" /\ sub[reads[s]] \in {"closed", "lost"}
    /\ listener' = [listener EXCEPT ![s] = "ended"]
    /\ Listening(s) /\ UNCHANGED <<reads, message, batch, inbox, heard>>

------------------------------------------------------------------------------
(* broadcast                                                               *)

CastBegin(b) ==
    /\ cast[b].at = "new"
    /\ \E w \in Workers :
         cast' = [cast EXCEPT ![b] = [at |-> "sending", worker |-> w, due |-> conns[w],
                                      seen |-> {}, failed |-> {}]]
    /\ UNCHANGED <<tables, listening, place, alive, heard, disturbed>>

\* What the iterator finds when it is asked for the next socket: a set of another
\* size; the sockets that were there all the time, and perhaps newer ones.
Channel(b) == conns[cast[b].worker]
Resized(b) == Cardinality(Channel(b)) # Cardinality(cast[b].due)

\* The next socket is sent the message; one that fails is remembered.
CastSend(b) ==
    /\ cast[b].at = "sending" /\ ~Resized(b)
    /\ \E s \in Channel(b) \ cast[b].seen :
         /\ cast' = [cast EXCEPT ![b].seen = @ \cup {s},
                                 ![b].failed = IF s \in alive THEN @ ELSE @ \cup {s}]
         /\ heard' = IF s \in alive THEN [heard EXCEPT ![s] = @ \cup {b}] ELSE heard
    /\ UNCHANGED <<tables, listening, place, alive, disturbed>>

\* `Set changed size during iteration` leaves broadcast, and its endpoint fails.
CastRaise(b) ==
    /\ cast[b].at = "sending" /\ Resized(b)
    /\ cast' = [cast EXCEPT ![b] = Outside("raised", NULL)]
    /\ UNCHANGED <<tables, listening, place, alive, heard, disturbed>>

\* The loop is over: the failed sockets leave the channel, without disconnect.
CastDrop(b) ==
    /\ cast[b].at = "sending" /\ ~Resized(b)
    /\ Channel(b) \cap cast[b].due \subseteq cast[b].seen
    /\ conns' = [conns EXCEPT ![cast[b].worker] = @ \ cast[b].failed]
    /\ cast' = [cast EXCEPT ![b] = Outside("publishing", NULL)]
    /\ UNCHANGED <<mapped, owner, home, overlapped, listening, place, alive, heard, disturbed>>

\* PUBLISH, to the subscriptions of all workers, or Redis fails.
CastPublish(b) ==
    /\ cast[b].at = "publishing"
    /\ \/ /\ cast' = [cast EXCEPT ![b].at = "published"]
          /\ inbox' = [s \in Sockets |-> IF sub[s] = "subscribed" THEN inbox[s] \cup {b}
                                         ELSE inbox[s]]
       \/ /\ "publish" \in Failing
          /\ cast' = [cast EXCEPT ![b].at = "raised"]
          /\ UNCHANGED inbox
    /\ UNCHANGED <<tables, pubsub, task, place, alive, sub, tasks, stop, heard, disturbed>>

------------------------------------------------------------------------------
Resume(s) ==
    \/ Subscribed(s) \/ Disconnect(s) \/ StopBegin(s) \/ StopClose(s) \/ StopEnd(s)
    \/ ListenBegin(s) \/ ListenTake(s) \/ ListenSend(s) \/ ListenEnd(s)

Send(b) == CastSend(b) \/ CastRaise(b) \/ CastDrop(b) \/ CastPublish(b)

Next ==
    \/ \E s \in Sockets : \/ Connect(s) \/ SubscribeFails(s) \/ ClientLeaves(s)
                          \/ HandlerRaises(s)
                          \/ ListenFails(s) \/ ListenReconnects(s) \/ Resume(s)
    \/ \E b \in Broadcasts : CastBegin(b) \/ Send(b)

Spec == Init /\ [][Next]_vars

\* Every await ends.  No client has to come, leave or cause an exception, no read
\* has to fail and no connection to be made again.
Fairness ==
    /\ \A s \in Sockets : WF_vars(Resume(s))
    /\ \A b \in Broadcasts : WF_vars(Send(b))

FairSpec == Spec /\ Fairness

------------------------------------------------------------------------------
(* Properties                                                              *)

\* Nothing of start_listening or stop_listening is under way in w.
Settled(w) ==
    /\ Stopping(w) = {}
    /\ \A s \in Sockets : home[s] = w => place[s] # "subscribing" /\ listener[s] # "created"

\* A worker with clients has one object that stop_listening will find, and the one
\* task that it will cancel hears the other workers through it, or a read of it has
\* failed; unless a start met a stop or an old subscription.  It never has two tasks
\* that hear.
ListensUnlessDisturbed ==
    \A w \in Workers \ disturbed :
        LET lives == {s \in Sockets : home[s] = w /\ Live(s)} IN
        /\ Settled(w) /\ conns[w] # {} =>
             /\ task[w] # NULL /\ pubsub[w] # NULL
             /\ \/ lives = {task[w]} /\ reads[task[w]] = pubsub[w]
                \/ lives = {} /\ sub[pubsub[w]] = "lost"
        /\ Cardinality(lives) <= 1

\* cleaner_connections and ws_to_cleaner agree: an id never leads to a socket that
\* has disconnected or belongs to someone else, and it leads to the cleaner's
\* socket unless a second one was connected before the first one's disconnect.
TablesAgree ==
    /\ \A w \in Workers, c \in Cleaners :
         mapped[w][c] # NULL => home[mapped[w][c]] = w /\ owner[mapped[w][c]] = c
    /\ \A s \in Sockets :
         owner[s] # NULL /\ <<home[s], owner[s]>> \notin overlapped =>
             mapped[home[s]][owner[s]] = s

------------------------------------------------------------------------------
(* The inductive invariant behind the two                                  *)

\* What belongs to a worker names sockets of that worker.
HomeOK ==
    /\ \A s \in Sockets :
         /\ place[s] = "new" => home[s] = NULL
         /\ home[s] = NULL => owner[s] = NULL /\ listener[s] = "none" /\ stop[s] = "none"
                              /\ place[s] = "new"
         /\ listener[s] \in {"reading", "sending"} =>
              reads[s] \in Sockets /\ home[reads[s]] = home[s]
         /\ listener[s] = "sending" => message[s] \in Broadcasts
    /\ \A b \in Broadcasts : cast[b].at = "sending" => cast[b].worker \in Workers
    /\ \A w \in Workers :
         /\ \A s \in conns[w] : home[s] = w
         /\ pubsub[w] # NULL => home[pubsub[w]] = w
         /\ task[w] # NULL => home[task[w]] = w

\* The sockets in w that are waiting for start_listening.
Starting(w) == {s \in Sockets : home[s] = w /\ place[s] = "subscribing"}

\* The life of a subscription where no start meets a stop.
ListeningOK(w) ==
    /\ conns[w] # {} => Stopping(w) = {} /\ (task[w] # NULL \/ Starting(w) # {})
    /\ \A s \in Starting(w) : pubsub[w] = s /\ sub[s] = "made" /\ task[w] = NULL
    /\ task[w] # NULL =>
         /\ pubsub[w] = task[w] /\ sub[task[w]] \in {"subscribed", "lost"}
         /\ listener[task[w]] \in {"created", "reading", "sending", "ended"}
         /\ sub[task[w]] = "lost" => listener[task[w]] \in {"reading", "ended"}
         /\ listener[task[w]] = "ended" => sub[task[w]] = "lost"
    /\ (\E s \in Stopping(w) : stop[s] # "created") =>
         /\ task[w] = NULL /\ Starting(w) = {}
         /\ pubsub[w] # NULL => sub[pubsub[w]] = "closed"
    /\ \A s \in Sockets : home[s] = w =>
         /\ listener[s] = "created" => task[w] = s
         /\ listener[s] \in {"reading", "sending"} =>
              reads[s] = s /\ (sub[s] # "closed" => pubsub[w] = s)

WsInv ==
    /\ TypeOK /\ HomeOK /\ TablesAgree
    /\ \A w \in Workers \ disturbed : ListeningOK(w)

------------------------------------------------------------------------------
(* Liveness                                                                *)

\* A message that has reached a worker's subscription is sent to every client
\* that is connected there and stays, unless the worker is disturbed or the
\* connection breaks that holds the message.  Silence before it does no harm, once
\* the message is there.
MessageArrives ==
    \A b \in Broadcasts, s \in Sockets :
        LET w == home[s] IN
        (/\ s \in alive /\ s \in conns[w] /\ Settled(w) /\ pubsub[w] # NULL
         /\ b \in inbox[pubsub[w]])
            ~> (\/ b \in heard[s] \/ s \notin alive \/ w \in disturbed
                \/ \E p \in Sockets : home[p] = w /\ sub[p] = "lost")
==============================================================================
