-------------------------------- MODULE Stats --------------------------------
(***************************************************************************)
(* The reports of app/api/stats.py, computed while orders change.          *)
(*                                                                         *)
(* A report is a sequence of SELECTs in one READ COMMITTED transaction:    *)
(* each sees the orders as they are when it starts, and what other         *)
(* requests commit between two of them is in the later numbers only.       *)
(* Those requests appear here by what they commit; how they get there is   *)
(* OrderTx.  Numbers that stand alone (of properties, of cleaners, of      *)
(* orders by hour) and the columns of the cleaners are left out, and so is *)
(* all that is counted by created_at, which nothing sets.                  *)
(***************************************************************************)
EXTENDS Integers, Sequences, FiniteSets, FiniteSetsExt, Functions

CONSTANTS
    Orders,       \* ids of the orders table
    Cleaners,     \* ids of the cleaners table
    Properties,   \* the properties that orders are for
    Others,       \* the statuses that no report asks for: one stands for all of them
    Prices,       \* what clients ask for an order: any number, in whole units here
    MaxPrice,     \* the highest of them, or 0
    MaxCredit,    \* how far below 0 the lowest is, which nothing refuses, or 0
    Day,          \* moments in a day
    Period,       \* days that a report of a period looks back
    Limit,        \* rows of a list, a LIMIT of the queries
    LastMoment,   \* bound: the clock stops here
    Spans,        \* bound: the periods that clients ask for
    MaxMoved,     \* bound: changes of orders during one report
    NULL,         \* SQL NULL, and no report
    Absent        \* no such order

Statuses == {"open", "completed"} \cup Others
Moments == 0..LastMoment
Days == 0..(LastMoment \div Day)

ASSUME StatusAssumption == Others # {} /\ Others \cap {"open", "completed"} = {}
ASSUME PriceAssumption ==
    /\ MaxPrice \in Nat /\ MaxCredit \in Nat
    /\ Prices \subseteq (-MaxCredit)..MaxPrice
ASSUME TimeAssumption ==
    /\ Day \in Nat \ {0} /\ Period \in Nat \ {0}
    /\ LastMoment \in Nat /\ MaxMoved \in Nat
    /\ Spans \subseteq Moments \X Moments
ASSUME SetsAssumption ==
    /\ IsFiniteSet(Orders) /\ IsFiniteSet(Cleaners) /\ IsFiniteSet(Properties)
    /\ IsFiniteSet(Others) /\ Limit \in Nat

VARIABLES
    order,      \* the committed orders
    hired,      \* the cleaners that exist
    now,        \* the clock
    kind,       \* the report in progress
    at,         \* how many of its SELECTs are done
    since,      \* the beginning of its period
    until,      \* the end of its period
    today,      \* the midnight it counts today's orders from
    todo,       \* the rows of its list whose orders are not counted yet
    number,     \* the single numbers it has read
    byDay,      \* revenue of each day
    byStatus,   \* orders of each status
    byCleaner,  \* completed orders of each cleaner
    byProperty, \* orders of each property
    moved,      \* history: changes of orders since the report began
    completion  \* history: when a completed order was last said to be, by a request that
                \* gives the status by its value and not by the enum's name; or NULL

tables == <<order, hired>>
lists == <<byDay, byStatus, byCleaner, byProperty>>
report == <<kind, at, since, until, today, todo, number, lists>>
vars == <<tables, now, report, moved, completion>>

Row == [status : Statuses, completed_at : Moments \cup {NULL},
        cleaner : Cleaners \cup {NULL}, property : Properties, price : Prices]

\* The most that a change of one order makes of a revenue.
Worth == MaxPrice + MaxCredit

\* The SELECTs of each report, in the order of the code.
BasicStats == <<"total", "open", "completed", "revenue">>

\* The one of today's orders goes by created_at and finds none, but the date that it
\* takes is used after it.
Dashboard ==
    <<"by_day", "by_status", "by_property", "today", "today_completed", "today_revenue",
      "total", "revenue">>

RevenueReport == <<"period", "by_day">>
CleanerStats == <<"list">>
PropertyStats == <<"list">>

Plan ==
    [basic |-> BasicStats, dashboard |-> Dashboard, revenue |-> RevenueReport,
     cleaners |-> CleanerStats, properties |-> PropertyStats]

Kinds == DOMAIN Plan

ASSUME MarksAssumption ==
    NULL \notin Cleaners \cup Moments /\ NULL \notin Kinds /\ Absent \notin Row

Counts == {"total", "open", "completed", "today_completed"}
Amounts == {"revenue", "period", "today_revenue"}
Numbers == Counts \cup Amounts

TypeOK ==
    /\ order \in [Orders -> Row \cup {Absent}]
    /\ hired \subseteq Cleaners
    /\ now \in Moments
    /\ kind \in Kinds \cup {NULL}
    /\ at \in 0..8
    /\ since \in Moments /\ until \in Moments /\ today \in Moments
    /\ todo \subseteq Cleaners \cup Properties
    /\ number \in [Numbers -> Int] /\ \A name \in Counts : number[name] \in Nat
    /\ byDay \in [Days -> Int]
    /\ byStatus \in [Statuses -> Nat]
    /\ byCleaner \in [Cleaners -> Nat]
    /\ byProperty \in [Properties -> Nat]
    /\ moved \in Nat
    /\ completion \in [Orders -> Moments \cup {NULL}]

None(S) == [x \in S |-> 0]

NoReport ==
    /\ kind = NULL /\ at = 0 /\ since = 0 /\ until = 0 /\ today = 0 /\ todo = {}
    /\ number = None(Numbers) /\ byDay = None(Days) /\ byStatus = None(Statuses)
    /\ byCleaner = None(Cleaners) /\ byProperty = None(Properties)
    /\ moved = 0

\* The cleaners are there, and no order is.
Init ==
    /\ order = [o \in Orders |-> Absent]
    /\ hired = Cleaners
    /\ now = 0
    /\ NoReport
    /\ completion = [o \in Orders |-> NULL]

------------------------------------------------------------------------------
(* What the queries select                                                 *)

Live == {o \in Orders : order[o] # Absent}
WithStatus(s) == {o \in Live : order[o].status = s}

Completed == WithStatus("completed")

\* Mutant: the status is not asked for.
AnyDone(from, to) ==
    {o \in Live : order[o].completed_at # NULL /\ order[o].completed_at \in from..to}

\* completed_at BETWEEN from AND to, and completed.
Done(from, to) ==
    {o \in Completed :
        order[o].completed_at # NULL /\ order[o].completed_at \in from..to}

\* Mutant: SUM of no rows is NULL.
RevenueOrNull(S) == IF S = {} THEN NULL ELSE SumFunction([o \in S |-> order[o].price])

\* SUM(price), and 0 for no rows.
Revenue(S) == SumFunction([o \in S |-> order[o].price])

\* The single numbers.
Value(name) ==
    CASE name = "total" -> Cardinality(Live)
      [] name = "open" -> Cardinality(WithStatus("open"))
      [] name = "completed" -> Cardinality(Completed)
      [] name = "today_completed" -> Cardinality(Done(today, LastMoment))
      [] name = "today_revenue" -> Revenue(Done(today, LastMoment))
      [] name = "revenue" -> Revenue(Completed)
      [] name = "period" -> Revenue(Done(since, until))

\* Mutant: the days are those of all orders that were completed in the period.
RevenueOfAnyDay ==
    [d \in Days |-> Revenue({o \in AnyDone(since, until) :
                                order[o].completed_at \div Day = d})]

\* GROUP BY date(completed_at).
RevenueByDay ==
    [d \in Days |-> Revenue({o \in Done(since, until) :
                                order[o].completed_at \div Day = d})]

CountByStatus == [s \in Statuses |-> Cardinality(WithStatus(s))]
OrdersOf(p) == {o \in Live : order[o].property = p}

\* The top of the list: at most Limit rows, none of them behind one left out.
CountByProperty(top) ==
    [p \in Properties |-> IF p \in top THEN Cardinality(OrdersOf(p)) ELSE 0]

Tops ==
    {top \in SUBSET Properties :
        /\ Cardinality(top) <= Limit
        /\ \A p \in Properties \ top : Cardinality(top) = Limit \/ OrdersOf(p) = {}
        /\ \A p \in top, q \in Properties \ top :
             Cardinality(OrdersOf(p)) >= Cardinality(OrdersOf(q))}

\* Mutant: the count forgets whose orders it counts.
CompletedOfAny(c) == Completed

CompletedOf(c) == {o \in Completed : order[o].cleaner = c}

------------------------------------------------------------------------------
(* A report                                                                *)

\* The handler begins.  Clients ask for the revenue of a period; that of the dashboard is
\* the last Period days.
Ask(k) ==
    /\ kind = NULL
    /\ kind' = k
    /\ \/ k = "revenue" /\ \E span \in Spans : since' = span[1] /\ until' = span[2]
       \/ k = "dashboard" /\ since' = Max({0, now - Period * Day}) /\ until' = LastMoment
       \/ k \notin {"revenue", "dashboard"} /\ UNCHANGED <<since, until>>
    /\ UNCHANGED <<tables, now, at, today, todo, number, lists, moved, completion>>

\* The next SELECT.
Select ==
    /\ kind # NULL /\ at < Len(Plan[kind])
    /\ at' = at + 1
    /\ LET name == Plan[kind][at + 1] IN
         /\ today' = IF name = "today" THEN now - (now % Day) ELSE today
         /\ number' = IF name \in Numbers THEN [number EXCEPT ![name] = Value(name)] ELSE number
         /\ byDay' = IF name = "by_day" THEN RevenueByDay ELSE byDay
         /\ byStatus' = IF name = "by_status" THEN CountByStatus ELSE byStatus
         /\ IF name = "by_property"
              THEN \E top \in Tops : byProperty' = CountByProperty(top)
              ELSE UNCHANGED byProperty
         /\ IF name = "list"
              THEN LET rows == IF kind = "cleaners" THEN hired ELSE Properties IN
                   \E S \in SUBSET rows :
                      /\ Cardinality(S) = Min({Limit, Cardinality(rows)})
                      /\ todo' = S
              ELSE UNCHANGED todo
    /\ UNCHANGED <<tables, now, kind, since, until, byCleaner, moved, completion>>

\* One SELECT more for each row of the list.
CountOfCleaner(c) ==
    /\ kind = "cleaners" /\ c \in todo
    /\ todo' = todo \ {c}
    /\ byCleaner' = [byCleaner EXCEPT ![c] = Cardinality(CompletedOf(c))]
    /\ UNCHANGED <<tables, now, kind, at, since, until, today, number, byDay, byStatus,
                   byProperty, moved, completion>>

CountOfProperty(p) ==
    /\ kind = "properties" /\ p \in todo
    /\ todo' = todo \ {p}
    /\ byProperty' = [byProperty EXCEPT ![p] = Cardinality(OrdersOf(p))]
    /\ UNCHANGED <<tables, now, kind, at, since, until, today, number, byDay, byStatus,
                   byCleaner, moved, completion>>

\* The answer is sent, and forgotten here.
Reply ==
    /\ kind # NULL /\ at = Len(Plan[kind]) /\ todo = {}
    /\ kind' = NULL /\ at' = 0 /\ since' = 0 /\ until' = 0 /\ today' = 0 /\ moved' = 0
    /\ number' = None(Numbers) /\ byDay' = None(Days) /\ byStatus' = None(Statuses)
    /\ byCleaner' = None(Cleaners) /\ byProperty' = None(Properties)
    /\ UNCHANGED <<tables, now, todo, completion>>

------------------------------------------------------------------------------
(* What other requests commit meanwhile                                    *)

\* n rows change, and only a report in progress counts them.
Moves(n) ==
    /\ moved' = IF kind = NULL THEN 0 ELSE moved + n
    /\ moved' <= MaxMoved

\* now() of a transaction is the time at which it began.
Begun == {t \in Moments : t <= now /\ now <= t + 1}

CreateOrder(o) ==
    /\ order[o] = Absent
    /\ Moves(1)
    /\ \E p \in Properties, price \in Prices :
         order' = [order EXCEPT ![o] =
                     [status |-> "open", completed_at |-> NULL, cleaner |-> NULL,
                      property |-> p, price |-> price]]
    /\ UNCHANGED <<hired, now, report, completion>>

\* accept_order.
AcceptOrder(o) ==
    /\ o \in WithStatus("open")
    /\ Moves(1)
    /\ \E c \in hired, s \in Others :
         order' = [order EXCEPT ![o].status = s, ![o].cleaner = c]
    /\ UNCHANGED <<hired, now, report, completion>>

\* A request that leaves o completed and says so at t, or says nothing: t is NULL.
Said(o, t) ==
    completion' = [completion EXCEPT ![o] =
                     IF order'[o].status # "completed" THEN NULL ELSE IF t = NULL THEN @ ELSE t]

\* Mutant: the time of a first completion stays.
SetStatusDatedOnce(o) ==
    /\ o \in Live
    /\ Moves(1)
    /\ \E s \in Statuses, t \in Begun :
         /\ order' = [order EXCEPT ![o].status = s,
                      ![o].completed_at = IF s = "completed" /\ @ = NULL THEN t ELSE @]
         /\ Said(o, t)
    /\ UNCHANGED <<hired, now, report>>

\* update_order_status.
SetStatus(o) ==
    /\ o \in Live
    /\ Moves(1)
    /\ \E s \in Statuses, t \in Begun :
         /\ order' = [order EXCEPT ![o].status = s,
                                   ![o].completed_at = IF s = "completed" THEN t ELSE @]
         /\ Said(o, t)
    /\ UNCHANGED <<hired, now, report>>

\* update_order writes the fields that the body has.
Write(o, s, t) ==
    \E c \in hired \cup {NULL, order[o].cleaner}, price \in Prices :
        order' = [order EXCEPT ![o] =
            [order[o] EXCEPT !.status = s, !.completed_at = t, !.cleaner = c, !.price = price]]

\* update_order, with a status by its value or without one.  A status that is the one
\* the handler loaded is not written, whatever it is by now, but the time of completion
\* is.
PutStatus(o) ==
    /\ o \in Live
    /\ Moves(1)
    /\ \/ \E s \in (Statuses \ {"completed"}) \cup {order[o].status} :
            Write(o, s, order[o].completed_at) /\ Said(o, NULL)
       \/ \E s \in {"completed", order[o].status}, t \in Begun :
            Write(o, s, t) /\ Said(o, t)
    /\ UNCHANGED <<hired, now, report>>

\* update_order, with the name that the enum has for the status.  COMPLETED is not the
\* "completed" that the code sets the time for.
PutName(o) ==
    /\ o \in Live
    /\ Moves(1)
    /\ Write(o, "completed", order[o].completed_at)
    /\ completion' = [completion EXCEPT ![o] = NULL]
    /\ UNCHANGED <<hired, now, report>>

\* cancel_order, which may overwrite a completion that it has not seen.
Cancel(o) ==
    /\ o \in Live
    /\ Moves(1)
    /\ \E s \in Others : order' = [order EXCEPT ![o].status = s] /\ Said(o, NULL)
    /\ UNCHANGED <<hired, now, report>>

DeleteOrder(o) ==
    /\ o \in Live
    /\ Moves(1)
    /\ order' = [order EXCEPT ![o] = Absent]
    /\ completion' = [completion EXCEPT ![o] = NULL]
    /\ UNCHANGED <<hired, now, report>>

\* delete_cleaner changes all orders of the cleaner at once.
DeleteCleaner(c) ==
    LET held == {o \in Live : order[o].cleaner = c} IN
    /\ c \in hired
    /\ Moves(Cardinality(held))
    /\ hired' = hired \ {c}
    /\ order' = [o \in Orders |-> IF o \in held THEN [order[o] EXCEPT !.cleaner = NULL]
                                   ELSE order[o]]
    /\ UNCHANGED <<now, report, completion>>

Tick ==
    /\ now < LastMoment
    /\ now' = now + 1
    /\ UNCHANGED <<tables, report, moved, completion>>

Change(o) ==
    \/ CreateOrder(o) \/ AcceptOrder(o) \/ SetStatus(o) \/ PutStatus(o)
    \/ PutName(o) \/ Cancel(o) \/ DeleteOrder(o)

Next ==
    \/ \E k \in Kinds : Ask(k)
    \/ Select \/ Reply
    \/ \E c \in Cleaners : CountOfCleaner(c) \/ DeleteCleaner(c)
    \/ \E p \in Properties : CountOfProperty(p)
    \/ \E o \in Orders : Change(o)
    \/ Tick

Spec == Init /\ [][Next]_vars

------------------------------------------------------------------------------
(* Properties                                                              *)

\* The report has read that number or list.
Asked(name) == kind # NULL /\ \E i \in 1..at : Plan[kind][i] = name

Total(f) == SumFunction(f)

\* n orders can be worth no more and no less than this.
Worthy(sum, n) == sum <= MaxPrice * n /\ -sum <= MaxCredit * n

\* The numbers of the front page are read one after the other.  They disagree by no
\* more than the changes in between: with none, no order is counted as open and as
\* completed, or as either and not in the total.
FrontPageAgrees ==
    /\ Asked("completed") => number["open"] + number["completed"] <= number["total"] + moved
    /\ Asked("revenue") => Worthy(number["revenue"], number["total"] + moved)

\* The completed orders that are not of today, by the numbers of the dashboard.
Earlier == byStatus["completed"] - number["today_completed"] + moved

\* A revenue is not above one of more orders, except by the changes in between and by
\* what those orders can be below 0.
Within(n, m) == n <= m + Worth * moved + MaxCredit * Earlier

\* n and m differ by d at most.
Near(n, m, d) == n <= m + d /\ m <= n + d

\* So do the numbers of the dashboard: today is part of the period, the period part
\* of everything, and the statuses and the properties share out all orders.  With no
\* price below 0, today's revenue is not above the period's, nor that above all.
DashboardAgrees ==
    kind = "dashboard" =>
        /\ Asked("by_property") => Total(byProperty) <= Total(byStatus) + moved
        /\ Asked("today_completed") => number["today_completed"] <= byStatus["completed"] + moved
        /\ Asked("today_revenue") =>
             /\ Within(number["today_revenue"], Total(byDay))
             /\ Worthy(number["today_revenue"], number["today_completed"] + moved)
        /\ Asked("total") => Near(Total(byStatus), number["total"], moved)
        /\ Asked("revenue") => Within(Total(byDay), number["revenue"])

\* The days of the revenue report add up to its total.
RevenueAddsUp ==
    kind = "revenue" /\ Asked("by_day") =>
        Near(number["period"], Total(byDay), Worth * moved)

\* A report is read statement by statement while orders change.  Its numbers disagree
\* with each other by no more than the changes in between.
ReportsAgree == FrontPageAgrees /\ DashboardAgrees /\ RevenueAddsUp

\* A list asks for the orders of each of its rows in turn.  Only an order that changes
\* while the rows are counted can be counted for two of them.
CountedOnce ==
    /\ kind = "cleaners" => Total(byCleaner) <= Cardinality(Live) + moved
    /\ kind = "properties" => Total(byProperty) <= Cardinality(Live) + moved

\* A completed order has the time of its present completion, whichever endpoint
\* completed it, however often it was reopened and whatever another request did
\* meanwhile, unless a client named the status as the enum does: the revenue by date
\* counts it in the right day.
DatedByCompletion ==
    \A o \in Completed : completion[o] # NULL =>
        order[o].completed_at = completion[o]

------------------------------------------------------------------------------
(* The inductive invariant: what a report has read, against the orders as  *)
(* they are now, and not only as they were when it read them               *)

\* Before its first SELECT a report has nothing, and without a report nothing moves.
BeginOK ==
    /\ kind = NULL => at = 0 /\ moved = 0
    /\ kind # NULL => at <= Len(Plan[kind])
    /\ at = 0 => todo = {} /\ byCleaner = None(Cleaners) /\ byProperty = None(Properties)

FrontPageOK ==
    kind = "basic" =>
        /\ at >= 1 => Cardinality(Live) <= number["total"] + moved
        /\ at >= 2 => number["open"] + Cardinality(Completed) <= number["total"] + moved
        /\ at >= 3 => number["open"] + number["completed"] <= number["total"] + moved
        /\ at >= 4 => Worthy(number["revenue"], number["total"] + moved)

\* The period is the last days up to the end of time, and today is in it.
DashboardOK ==
    kind = "dashboard" =>
        /\ until = LastMoment /\ (since = 0 \/ since + Day <= now)
        /\ at >= 1 => Near(Revenue(Done(since, until)), Total(byDay), Worth * moved)
        /\ at >= 2 => Cardinality(Completed) <= byStatus["completed"] + moved
                      /\ Near(Cardinality(Live), Total(byStatus), moved)
        /\ at >= 3 => Total(byProperty) <= Total(byStatus) + moved
        /\ at >= 4 => since <= today
        /\ at >= 5 => number["today_completed"] <= byStatus["completed"] + moved
                      /\ Cardinality(Done(today, until)) <= number["today_completed"] + moved
                      /\ Cardinality(Completed \ Done(today, until)) <= Earlier
        /\ at >= 6 => Within(number["today_revenue"], Total(byDay))
                      /\ Worthy(number["today_revenue"], number["today_completed"] + moved)
        /\ at >= 7 => Cardinality(Live) <= number["total"] + moved
                      /\ Near(Total(byStatus), number["total"], moved)
        /\ at >= 8 => Within(Total(byDay), number["revenue"])
                      /\ Worthy(number["revenue"], number["total"] + moved)

RevenueOK ==
    kind = "revenue" =>
        /\ at >= 1 => Near(number["period"], Revenue(Done(since, until)), Worth * moved)
        /\ at >= 2 => Near(number["period"], Total(byDay), Worth * moved)

\* The rows that are counted have no more than the orders that are theirs.
RowsOK ==
    /\ kind = "cleaners" =>
          /\ todo \subseteq Cleaners
          /\ \A c \in todo : byCleaner[c] = 0
          /\ Total(byCleaner)
               <= Cardinality({o \in Live : order[o].cleaner \in Cleaners \ todo}) + moved
    /\ kind # "cleaners" => byCleaner = None(Cleaners)
    /\ kind = "properties" =>
          /\ todo \subseteq Properties
          /\ \A p \in todo : byProperty[p] = 0
          /\ Total(byProperty)
               <= Cardinality({o \in Live : order[o].property \in Properties \ todo}) + moved

StatsInv ==
    /\ TypeOK /\ BeginOK /\ DatedByCompletion
    /\ FrontPageOK /\ DashboardOK /\ RevenueOK /\ RowsOK
==============================================================================
