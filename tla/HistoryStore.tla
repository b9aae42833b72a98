---------------------------- MODULE HistoryStore ----------------------------
(***************************************************************************)
(* The browser's history (web/src/storage/database.ts): two object stores  *)
(* of one IndexedDB database that share one budget of bytes, and the page's *)
(* list of results with its "delete all" (web/src/app/App.tsx).            *)
(*                                                                         *)
(* put() is a chain of transactions with awaits between them: read both    *)
(* stores, delete what the budget asks for, write; if the write fails,     *)
(* read again, delete the oldest row, write again.  Another call, of this  *)
(* tab or of another one, may act between any two of them.                 *)
(*                                                                         *)
(* A row is its key (store, at) and its size; Limit is what budget()       *)
(* answers, and does not change.  IndexedDB itself is external: it serves  *)
(* requests for connections in their order, and deletes the database when  *)
(* every connection is closed.                                             *)
(***************************************************************************)
EXTENDS Naturals, Sequences, FiniteSetsExt

CONSTANTS
  Writers,   \* calls of put() that may be in flight at once
  Sizes,     \* sizes of the JSON of a value
  Limit,     \* budget()
  Calls,     \* a bound: values saved, lists shown and deletions, together
  Failures   \* a bound: requests that fail

Stores == {"speed", "stability"}
Rows == [store : Stores, at : 0..Calls, size : Sizes]
NoRow == [store |-> "none", at |-> 0, size |-> 0]
List == "list"
Delete == "delete"

\* One value fits the budget: a session of a day is a quarter of it.
ASSUME HistoryAssumption ==
  /\ IsFiniteSet(Writers) /\ Writers # {}
  /\ Calls \in Nat /\ Failures \in Nat /\ Limit \in Nat
  /\ Sizes # {} /\ Sizes \subseteq 1..Limit
  /\ {List, Delete} \cap Writers = {}

VARIABLES
  db,        \* the rows stored
  waiting,   \* requests for a connection, in their order
  open,      \* who holds a connection
  stage,     \* where each put() is
  value,     \* the row each put() is to store
  seen,      \* what rows() has read of each store, {} before
  read,      \* the stores rows() has read
  listing,   \* whether list() is under way
  listed,    \* what list() has read
  shown,     \* the rows the page shows
  now,       \* the latest Date.now()
  calls,     \* calls so far
  failures,  \* failures so far
  there,     \* history: the rows stored ever since each put() connected
  raced,     \* history: the put()s during which another one wrote or deleted
  asked,     \* history: when the latest deletion was asked for
  cleared    \* history: when the latest deletion that is done was asked for

work == <<stage, value, seen, read>>
page == <<listing, listed, shown>>
bounds == <<calls, failures>>
history == <<there, raced, asked, cleared>>
vars == <<db, waiting, open, work, page, now, bounds, history>>

Stages == {"idle", "opening", "reading", "writing", "rereading", "rewriting"}

TypeOK ==
  /\ db \subseteq Rows
  /\ waiting \in Seq(Writers \cup {List, Delete})
  /\ open \subseteq Writers \cup {List}
  /\ stage \in [Writers -> Stages]
  /\ value \in [Writers -> Rows \cup {NoRow}]
  /\ seen \in [Writers -> SUBSET Rows]
  /\ read \in [Writers -> SUBSET Stores]
  /\ listing \in {"idle", "waiting", "reading", "read"}
  /\ listed \subseteq Rows /\ shown \subseteq Rows
  /\ {now, asked, cleared} \subseteq 0..Calls
  /\ calls \in 0..Calls /\ failures \in 0..Failures
  /\ there \in [Writers -> SUBSET Rows]
  /\ raced \subseteq Writers

Init ==
  /\ db = {} /\ waiting = <<>> /\ open = {}
  /\ stage = [w \in Writers |-> "idle"] /\ value = [w \in Writers |-> NoRow]
  /\ seen = [w \in Writers |-> {}] /\ read = [w \in Writers |-> {}]
  /\ listing = "idle" /\ listed = {} /\ shown = {}
  /\ now = 0 /\ asked = 0 /\ cleared = 0
  /\ calls = 0 /\ failures = 0
  /\ there = [w \in Writers |-> {}] /\ raced = {}
-----------------------------------------------------------------------------
(* What a put() computes from the rows it has read                         *)

\* The bytes of some rows, as many of each row as its size; counting them adds up the sizes.
Bytes(rows) == {b \in rows \X (1..Limit) : b[2] <= b[1].size}

Total(rows) == Cardinality(Bytes(rows))

SameKey(r, q) == r.store = q.store /\ r.at = q.at

Without(rows, keys) == {r \in rows : \A q \in keys : ~ SameKey(r, q)}

\* The order of the sort: by time; the rows of "speed" are listed first.
Older(r, q) == r.at < q.at \/ (r.at = q.at /\ r.store = "speed" /\ q.store = "stability")

\* Fault: each store has a budget of its own.
DoomedPerStore(rows, row) ==
  LET retained == {r \in Without(rows, {row}) : r.store = row.store}
  IN  {r \in retained : Total({q \in retained : ~ Older(q, r)}) + row.size > Limit}

\* Fault: the new row is not counted.
DoomedLate(rows, row) ==
  LET retained == Without(rows, {row})
  IN  {r \in retained : Total({q \in retained : ~ Older(q, r)}) > Limit}

\* Fault: a store after the other, not both by time.
DoomedInStoreOrder(rows, row) ==
  LET retained == Without(rows, {row})
      first(r, q) == \/ r.store = "speed" /\ q.store = "stability"
                     \/ r.store = q.store /\ r.at < q.at
  IN  {r \in retained : Total({q \in retained : ~ first(q, r)}) + row.size > Limit}

\* evictToBudget(): the oldest rows, until the others and the new one fit.
Doomed(rows, row) ==
  LET retained == Without(rows, {row})
  IN  {r \in retained : Total({q \in retained : ~ Older(q, r)}) + row.size > Limit}

Oldest(rows) == {r \in rows : \A q \in rows : ~ Older(q, r)}
-----------------------------------------------------------------------------
(* put(), for a call w                                                     *)

\* Nothing of a call that has settled matters.
Forgotten(w) ==
  /\ stage' = [stage EXCEPT ![w] = "idle"]
  /\ value' = [value EXCEPT ![w] = NoRow]
  /\ seen' = [seen EXCEPT ![w] = {}]
  /\ read' = [read EXCEPT ![w] = {}]

\* Fault: a put() that fails leaves its connection open.
RejectedLeaks(w) ==
  /\ Forgotten(w)
  /\ UNCHANGED open

\* The promise settles, after the connection is closed.
Settle(w) ==
  /\ Forgotten(w)
  /\ open' = open \ {w}

\* finally, when a step of the try block failed.
Rejected(w) == Settle(w)

\* The rows are as w leaves them: which of them were there before, and whom w has disturbed.
Disturbs(w) ==
  /\ raced' = IF db' = db THEN raced
               ELSE raced \cup {v \in Writers \ {w} : stage[v] \notin {"idle", "opening"}}
  /\ there' = [v \in Writers |-> IF stage'[v] = "idle" THEN {} ELSE there[v] \cap db']

Forget(w) ==
  /\ seen' = [seen EXCEPT ![w] = {}]
  /\ read' = [read EXCEPT ![w] = {}]

Failing == failures < Failures /\ failures' = failures + 1 /\ UNCHANGED calls

Called == calls < Calls /\ calls' = calls + 1 /\ UNCHANGED failures

\* Two calls of one millisecond both still wait for their connections.
Times == {now + 1} \cup {value[v].at : v \in {v \in Writers : stage[v] = "opening" /\ value[v].at = now}}

\* save() or saveStability() with at: Date.now().
Put(w) ==
  /\ stage[w] = "idle" /\ Called
  /\ \E s \in Stores, n \in Sizes, t \in Times :
       /\ value' = [value EXCEPT ![w] = [store |-> s, at |-> t, size |-> n]]
       /\ now' = t
  /\ stage' = [stage EXCEPT ![w] = "opening"]
  /\ waiting' = Append(waiting, w)
  /\ UNCHANGED <<db, open, seen, read, page, history>>

\* rows(): one transaction for each store, in either order.
Read(w, s) ==
  /\ stage[w] \in {"reading", "rereading"} /\ s \notin read[w]
  /\ seen' = [seen EXCEPT ![w] = @ \cup {r \in db : r.store = s}]
  /\ read' = [read EXCEPT ![w] = @ \cup {s}]
  /\ UNCHANGED <<db, waiting, open, stage, value, page, now, bounds, history>>

\* deleteRows() of what was read; by key, whatever is stored there now.
Evict(w) ==
  /\ stage[w] = "reading" /\ read[w] = Stores
  /\ db' = Without(db, Doomed(seen[w], value[w]))
  /\ stage' = [stage EXCEPT ![w] = "writing"]
  /\ Disturbs(w) /\ Forget(w)
  /\ UNCHANGED <<waiting, open, value, page, now, bounds, asked, cleared>>

EvictOldest(w) ==
  /\ stage[w] = "rereading" /\ read[w] = Stores
  /\ db' = Without(db, Oldest(seen[w]))
  /\ stage' = [stage EXCEPT ![w] = "rewriting"]
  /\ Disturbs(w) /\ Forget(w)
  /\ UNCHANGED <<waiting, open, value, page, now, bounds, asked, cleared>>

Stored(w) == Without(db, {value[w]}) \cup {value[w]}

Write(w) ==
  /\ stage[w] \in {"writing", "rewriting"}
  /\ db' = Stored(w)
  /\ Settle(w) /\ Disturbs(w)
  /\ UNCHANGED <<waiting, page, now, bounds, asked, cleared>>

\* The request succeeds, which is all put() waits for, and the transaction aborts.
WriteNotCommitted(w) ==
  /\ stage[w] \in {"writing", "rewriting"}
  /\ Failing /\ Settle(w)
  /\ UNCHANGED db /\ Disturbs(w)
  /\ UNCHANGED <<waiting, page, now, asked, cleared>>

\* The first write fails: once more, with the oldest row gone.
WriteFails(w) ==
  /\ stage[w] = "writing"
  /\ Failing
  /\ stage' = [stage EXCEPT ![w] = "rereading"]
  /\ UNCHANGED <<db, waiting, open, value, seen, read, page, now, history>>

\* A read or a deletion fails, or the second write.
StepFails(w) ==
  /\ stage[w] \in {"reading", "rereading", "rewriting"}
  /\ Failing /\ Rejected(w)
  /\ UNCHANGED db /\ Disturbs(w)
  /\ UNCHANGED <<waiting, page, now, asked, cleared>>
-----------------------------------------------------------------------------
(* The page                                                                *)

\* The history tab is opened.
Show ==
  /\ listing = "idle" /\ Called
  /\ listing' = "waiting"
  /\ waiting' = Append(waiting, List)
  /\ UNCHANGED <<db, open, work, listed, shown, now, history>>

\* Fault: the list is returned, not awaited, in the try block that closes the connection.
ListReadNotAwaited ==
  /\ listing = "reading"
  /\ listing' = "read"
  /\ listed' = {r \in db : r.store = "speed"}
  /\ open' = open \ {List}
  /\ UNCHANGED <<db, waiting, work, shown, now, bounds, history>>

ListRead ==
  /\ listing = "reading"
  /\ listing' = "read"
  /\ listed' = {r \in db : r.store = "speed"}
  /\ UNCHANGED <<db, waiting, open, work, shown, now, bounds, history>>

\* The connection is closed and the page shows the rows.
Listed ==
  /\ listing = "read"
  /\ listing' = "idle" /\ listed' = {}
  /\ shown' = listed
  /\ open' = open \ {List}
  /\ UNCHANGED <<db, waiting, work, now, bounds, history>>

\* "Delete all" is confirmed, in a dialog that takes its time.
Clear ==
  /\ Called /\ \A i \in DOMAIN waiting : waiting[i] # Delete
  /\ waiting' = Append(waiting, Delete)
  /\ now' = now + 1 /\ asked' = now'
  /\ UNCHANGED <<db, open, work, page, there, raced, cleared>>
-----------------------------------------------------------------------------
(* IndexedDB                                                               *)

\* The first request waiting is served: a connection is opened, or refused.
Connect(w) ==
  /\ waiting # <<>> /\ Head(waiting) = w
  /\ waiting' = Tail(waiting)
  /\ open' = open \cup {w}
  /\ stage' = [stage EXCEPT ![w] = "reading"]
  /\ there' = [there EXCEPT ![w] = db]
  /\ raced' = raced \ {w}
  /\ UNCHANGED <<db, value, seen, read, page, now, bounds, asked, cleared>>

Refuse(w) ==
  /\ waiting # <<>> /\ Head(waiting) = w
  /\ Failing
  /\ waiting' = Tail(waiting)
  /\ Forgotten(w)
  /\ UNCHANGED <<db, open, page, now, history>>

ConnectList ==
  /\ waiting # <<>> /\ Head(waiting) = List
  /\ waiting' = Tail(waiting)
  /\ open' = open \cup {List}
  /\ listing' = "reading"
  /\ UNCHANGED <<db, work, listed, shown, now, bounds, history>>

\* The database is deleted when nobody is connected; then the page empties its list.
Cleared ==
  /\ waiting # <<>> /\ Head(waiting) = Delete
  /\ open = {}
  /\ waiting' = Tail(waiting)
  /\ db' = {} /\ shown' = {} /\ cleared' = asked
  /\ UNCHANGED <<open, work, listing, listed, now, bounds, there, raced, asked>>

\* A list that fails leaves the page as it was; so does a deletion.
ListFails ==
  /\ Failing
  /\ listing' = "idle"
  /\ \/ listing = "waiting" /\ Head(waiting) = List /\ waiting' = Tail(waiting) /\ UNCHANGED open
     \/ listing = "reading" /\ open' = open \ {List} /\ UNCHANGED waiting
  /\ UNCHANGED <<db, work, listed, shown, now, history>>

ClearFails ==
  /\ waiting # <<>> /\ Head(waiting) = Delete
  /\ Failing
  /\ waiting' = Tail(waiting)
  /\ UNCHANGED <<db, open, work, page, now, history>>
-----------------------------------------------------------------------------
Steps(w) == (\E s \in Stores : Read(w, s)) \/ Evict(w) \/ EvictOldest(w) \/ Write(w)

Next ==
  \/ \E w \in Writers :
       Put(w) \/ Steps(w) \/ WriteNotCommitted(w) \/ WriteFails(w) \/ StepFails(w)
         \/ Connect(w) \/ Refuse(w)
  \/ Show \/ ConnectList \/ ListRead \/ Listed \/ ListFails \/ Clear \/ Cleared \/ ClearFails

\* IndexedDB answers every request: requests for connections in their order.
Fairness ==
  /\ \A w \in Writers : WF_vars(Steps(w)) /\ WF_vars(Connect(w))
  /\ WF_vars(ConnectList) /\ WF_vars(ListRead) /\ WF_vars(Listed) /\ WF_vars(Cleared)

Spec == Init /\ [][Next]_vars

FairSpec == Spec /\ Fairness
-----------------------------------------------------------------------------
\* Whatever put()s overlap, and whatever was evicted or replaced between the reading and the
\* writing of each, the store exceeds the budget by no more than one value for each other
\* put() in flight (database.ts:69-87, 93-107).
OvershootIsBounded ==
  Total(db) <= Limit + (Cardinality(Writers) - 1) * Max(Sizes)

HistoryInv == TypeOK /\ OvershootIsBounded

\* A put() that no other one disturbed leaves the store within the budget, and had not
\* evicted more than that took: with the last of the rows it evicted the store would exceed
\* it (database.ts:72-86).
UndisturbedFits ==
  [][\A w \in Writers : w \notin raced =>
       /\ Write(w) => Total(db') <= Limit
       /\ Evict(w) => \A r \in db \ db' :
            Total({q \in Without(db, {value[w]}) : ~ Older(q, r)}) + value[w].size > Limit]_vars

\* No row is evicted while an older one, of either store, that has been there ever since the
\* put() connected is kept: the budget is shared by age alone (database.ts:82, 89).
OldestFirst ==
  [][\A w \in Writers : Evict(w) \/ EvictOldest(w) =>
       \A gone \in db \ db', kept \in db' \cap there[w] :
         Older(kept, gone) => SameKey(kept, value[w])]_vars

\* What was stored when "delete all" was confirmed never comes back: not by a put() that was
\* under way, nor into the page by a list that was (App.tsx:314-316, 477-482).
DeletedStaysDeleted == \A r \in db \cup shown : r.at >= cleared

\* Every put() settles, every list is shown and every deletion is carried out, whatever
\* fails and whoever holds a connection (database.ts:93-107, 112-119, 125-130).
RequestsEnd ==
  /\ \A w \in Writers : stage[w] # "idle" ~> stage[w] = "idle"
  /\ listing # "idle" ~> listing = "idle"
  /\ (\E i \in DOMAIN waiting : waiting[i] = Delete)
       ~> (\A i \in DOMAIN waiting : waiting[i] # Delete)
=============================================================================
