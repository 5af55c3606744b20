---------------------------- MODULE PkulawCache ----------------------------
(***************************************************************************)
(* retrieval/sources/pkulaw/cache.py: the SQLite cache in front of the     *)
(* Pkulaw client.  The threads of one document share a CachedPkulawClient  *)
(* and its miss lock; cache_refresh and cache_clear work on the same file. *)
(*                                                                         *)
(* A statement and the commit behind it are one step; between them, and    *)
(* around every call to Pkulaw, other threads may run.  Only cache_refresh *)
(* keeps a transaction open over a call: its deletions stay invisible, and *)
(* the file locked for writing, until the next commit.  Time is counted in *)
(* days, and a day does not end during a lookup or a refresh.              *)
(***************************************************************************)
EXTENDS Integers, FiniteSets

CONSTANTS
  Threads,
  Keys,         \* (kind, key) pairs
  KindOf,       \* the kind of each
  TTL,          \* TTL_SECONDS by status, in days
  Extension,    \* how long an error extends an entry (86400 seconds)
  LeftAges,     \* ages of the rows left behind by earlier runs, in days
  MaxDay,       \* bound on the days
  NoEntry,      \* no row
  NoThread      \* a lock nobody holds

Kinds == {"article", "article_semantic", "law", "law_recognition",
          "law_semantic_query", "law_item"}
Statuses == {"effective", "repealed", "not_found"}

(* Answers of Pkulaw: "nothing" is an empty result, "not_found" the        *)
(* exception PkulawNotFoundError, "mismatch" another article than asked.   *)
Found == {"effective", "repealed"}
Answers == Found \cup {"nothing", "not_found", "fault", "mismatch"}

ASSUME CacheAssumption ==
  /\ KindOf \in [Keys -> Kinds]
  /\ NoThread \notin Threads

(* The extension after an error is shorter than any lifetime. *)
ASSUME LifetimeAssumption ==
  /\ TTL \in [Statuses -> Nat]
  /\ Extension \in Nat
  /\ \A s \in Statuses : Extension <= TTL[s]
  /\ \A s \in Statuses : TTL["effective"] <= TTL[s]
  /\ LeftAges \subseteq Nat /\ MaxDay \in Nat

VARIABLES
  today,
  entry,        \* cache_entries: a row or NoEntry for each key
  pc,           \* where a lookup is
  key,          \* the key it looks up, NoEntry for none
  answer,       \* the last answer of Pkulaw to it
  missLock,     \* holder of _miss_lock
  rows,         \* expired rows cache_refresh has still to look at
  refresh,      \* where cache_refresh is
  purged        \* keys it deleted and did not commit

threadVars == <<pc, key, answer, missLock>>
refreshVars == <<rows, refresh, purged>>
vars == <<today, entry, threadVars, refreshVars>>

(* A row: its status, verified_at, and whether its payload can be          *)
(* returned.  The rest is history: the day Pkulaw last gave the law the    *)
(* status of the row, the day a revalidation last got no answer, and the   *)
(* day one was last told that nothing was found.                           *)
Entry == [status : Statuses, verified : Int, usable : BOOLEAN,
          seen : Int, failed : Int, missed : Int]

(* The place without a row, or without a key, is told from the others. *)
ASSUME RowAssumption == NoEntry \notin Entry /\ NoEntry \notin Keys

PC == {"idle", "drop", "revalidate", "renew", "extend", "reread", "fetch", "store"}

Locked(k) == KindOf[k] \in {"law_semantic_query", "law_item"}
OfOneArticle(k) == KindOf[k] \in {"article", "law_item"}
KeepsTimeliness(k) == KindOf[k] \in {"article", "law", "law_item"}

Cached(k) == entry[k] # NoEntry
Fresh(e) == today - e.verified <= TTL[e.status]
InFile == {k \in Keys : Cached(k)}

(* Rows an earlier run, or an earlier version of the program, left behind. *)
LeftRow(status, age, usable) ==
  [status |-> status, verified |-> -age, usable |-> usable,
   seen |-> -age, failed |-> -age, missed |-> -age]

Init ==
  /\ today = 0
  /\ entry \in [Keys -> {NoEntry} \cup
                        {LeftRow(s, age, usable) : s \in Statuses, age \in LeftAges,
                                                   usable \in BOOLEAN}]
  /\ \A k \in InFile : entry[k].usable \/ entry[k].status # "not_found"
  /\ pc = [t \in Threads |-> "idle"]
  /\ key = [t \in Threads |-> NoEntry] /\ answer = [t \in Threads |-> "none"]
  /\ missLock = NoThread
  /\ rows = {} /\ refresh = "idle" /\ purged = {}

-----------------------------------------------------------------------------
(* One lookup.                                                             *)

Goto(t, where) == pc' = [pc EXCEPT ![t] = where]

(* The lookup returns or raises: with _miss_lock gives the lock back.      *)
Return(t) ==
  /\ Goto(t, "idle")
  /\ key' = [key EXCEPT ![t] = NoEntry]
  /\ answer' = [answer EXCEPT ![t] = "none"]
  /\ missLock' = IF missLock = t THEN NoThread ELSE missLock

Continue(t, where) == Goto(t, where) /\ UNCHANGED <<key, missLock>>

(* Mutant: lookups of all kinds go past the lock. *)
NoMissLock(k) == TRUE
MissLockFree(k) == Locked(k) => missLock = NoThread

(* The row can be returned: an article still is the one asked for, and a   *)
(* repealed law has its dates.                                             *)
Serves(k) == Cached(k) /\ entry[k].usable

Revalidates(k) ==
  /\ Cached(k) /\ entry[k].status = "effective"
  /\ KindOf[k] # "law_semantic_query"

(* The SELECT of _fresh_entry and what follows from the row; kinds behind  *)
(* the miss lock take it first.                                            *)
Lookup(t, k, where) ==
  /\ pc[t] = "idle" /\ MissLockFree(k)
  /\ key' = [key EXCEPT ![t] = k]
  /\ Goto(t, where)
  /\ missLock' = IF Locked(k) THEN t ELSE missLock
  /\ UNCHANGED <<today, entry, answer, refreshVars>>

(* A fresh row is returned at once, and nothing changes.                   *)
Hit(t, k) ==
  /\ pc[t] = "idle" /\ MissLockFree(k)
  /\ Serves(k) /\ Fresh(entry[k])
  /\ UNCHANGED vars

Miss(t, k) == ~Cached(k) /\ Lookup(t, k, "fetch")
Unusable(t, k) == Cached(k) /\ Fresh(entry[k]) /\ ~Serves(k) /\ Lookup(t, k, "drop")
Stale(t, k) == Revalidates(k) /\ ~Fresh(entry[k]) /\ Lookup(t, k, "revalidate")
Expired(t, k) ==
  /\ Cached(k) /\ ~Fresh(entry[k]) /\ ~Revalidates(k)
  /\ Lookup(t, k, "drop")

(* Writing waits for the transaction of cache_refresh.                     *)
CanWrite == purged = {}

(* DELETE; commit *)
Drop(t) ==
  /\ pc[t] = "drop" /\ CanWrite
  /\ entry' = [entry EXCEPT ![key[t]] = NoEntry]
  /\ Continue(t, "fetch")
  /\ UNCHANGED <<today, answer, refreshVars>>

(* SQLite's own timeout ends the wait: OperationalError is not caught.     *)
LockedOut(t) ==
  /\ pc[t] \in {"drop", "renew", "extend", "store"} /\ ~CanWrite
  /\ Return(t)
  /\ UNCHANGED <<today, entry, refreshVars>>

(* get_law_list(title): the law that matches the title decides.  Every     *)
(* PkulawMcpError extends the row, and PkulawNotFoundError is one.         *)
Confirms(a) == a = "effective"
Raises(a) == a \in {"fault", "not_found"}

Revalidate(t, a) ==
  /\ pc[t] = "revalidate"
  /\ answer' = [answer EXCEPT ![t] = a]
  /\ Continue(t, IF Confirms(a) THEN "renew" ELSE IF Raises(a) THEN "extend" ELSE "drop")
  /\ UNCHANGED <<today, entry, refreshVars>>

(* UPDATE verified_at after the answer a: nothing happens to a row that is *)
(* gone, and a row another thread stored is updated like the old one.      *)
Updated(row, day, a) ==
  [row EXCEPT !.verified = day,
              !.seen = IF a = row.status THEN today ELSE @,
              !.failed = IF a = "fault" THEN today ELSE @,
              !.missed = IF a = "not_found" THEN today ELSE @]

Verified(k, day, a) ==
  [j \in Keys |-> IF j = k /\ Cached(j) THEN Updated(entry[j], day, a) ELSE entry[j]]

(* Mutant: an error renews the entry like a confirmation. *)
FullLifetime == today

ExtendedDay == today - TTL["effective"] + Extension

Renew(t) ==
  /\ pc[t] = "renew" /\ CanWrite
  /\ entry' = Verified(key[t], today, answer[t])
  /\ Continue(t, "reread")
  /\ UNCHANGED <<today, answer, refreshVars>>

Extend(t) ==
  /\ pc[t] = "extend" /\ CanWrite
  /\ entry' = Verified(key[t], ExtendedDay, answer[t])
  /\ Continue(t, "reread")
  /\ UNCHANGED <<today, answer, refreshVars>>

(* The row is selected again: another thread may have replaced or removed  *)
(* it, and its age is not looked at.                                       *)
ServeAgain(t) ==
  /\ pc[t] = "reread" /\ Serves(key[t])
  /\ Return(t)
  /\ UNCHANGED <<today, entry, refreshVars>>

RereadElse(t) ==
  /\ pc[t] = "reread" /\ ~Serves(key[t])
  /\ Continue(t, IF Cached(key[t]) THEN "drop" ELSE "fetch")
  /\ UNCHANGED <<today, entry, answer, refreshVars>>

(* What the answer to a fetch is stored as.  law_recognition does not      *)
(* expect the exception; only kinds with a timeliness keep it.             *)
Storable(k, a) ==
  \/ a \in Found
  \/ a = "nothing" /\ ~KeepsTimeliness(k)
  \/ a = "not_found" /\ KindOf[k] # "law_recognition"

StoredAs(k, a) ==
  IF a \notin Found THEN "not_found"
  ELSE IF KeepsTimeliness(k) THEN a ELSE "effective"

Possible(k, a) == (a = "mismatch" => OfOneArticle(k)) /\ (a = "nothing" => ~KeepsTimeliness(k))

Fetch(t, a) ==
  /\ pc[t] = "fetch" /\ Possible(key[t], a)
  /\ \/ /\ Storable(key[t], a)
        /\ Continue(t, "store")
        /\ answer' = [answer EXCEPT ![t] = a]
     \/ ~Storable(key[t], a) /\ Return(t)
  /\ UNCHANGED <<today, entry, refreshVars>>

(* _upsert *)
Row(status) ==
  [status |-> status, verified |-> today, usable |-> TRUE,
   seen |-> today, failed |-> today, missed |-> today]

Store(t) ==
  /\ pc[t] = "store" /\ CanWrite
  /\ entry' = [entry EXCEPT ![key[t]] = Row(StoredAs(key[t], answer[t]))]
  /\ Return(t)
  /\ UNCHANGED <<today, refreshVars>>

-----------------------------------------------------------------------------
(* Management.                                                             *)

(* cache_refresh selects all rows, and acts on those expired by then.      *)
BeginRefresh ==
  /\ refresh = "idle"
  /\ \E k \in InFile : ~Fresh(entry[k])
  /\ rows' = {<<k, entry[k]>> : k \in {j \in InFile : ~Fresh(entry[j])}}
  /\ refresh' = "rows"
  /\ UNCHANGED <<today, entry, threadVars, purged>>

Uncommitted(file) == [k \in Keys |-> IF k \in purged THEN NoEntry ELSE file[k]]

(* A row that is still current: the commit of _revalidate also commits the *)
(* deletions before it.                                                    *)
RefreshKeeps(row, a) ==
  /\ refresh = "rows" /\ row \in rows /\ row[2].status = "effective"
  /\ Confirms(a) \/ Raises(a)
  /\ entry' = Uncommitted(Verified(row[1], IF Confirms(a) THEN today ELSE ExtendedDay, a))
  /\ purged' = {}
  /\ rows' = rows \ {row}
  /\ UNCHANGED <<today, threadVars, refresh>>

(* DELETE without a commit: an effective row that was not confirmed, or    *)
(* any other expired row.                                                  *)
RefreshDrops(row) ==
  /\ refresh = "rows" /\ row \in rows
  /\ purged' = purged \cup {row[1]}
  /\ rows' = rows \ {row}
  /\ UNCHANGED <<today, entry, threadVars, refresh>>

(* Mutant: the deletions are not committed. *)
RolledBack == entry

Purge == Uncommitted(entry)

EndRefresh ==
  /\ refresh = "rows" /\ rows = {}
  /\ entry' = Purge
  /\ purged' = {} /\ refresh' = "idle"
  /\ UNCHANGED <<today, threadVars, rows>>

(* cache_clear *)
Clear ==
  /\ CanWrite /\ InFile # {}
  /\ entry' = [k \in Keys |-> NoEntry]
  /\ UNCHANGED <<today, threadVars, refreshVars>>

Quiet == refresh = "idle" /\ \A t \in Threads : pc[t] = "idle"

NextDay ==
  /\ Quiet /\ today < MaxDay
  /\ today' = today + 1
  /\ UNCHANGED <<entry, threadVars, refreshVars>>

Run(t) ==
  \/ \E k \in Keys :
       Miss(t, k) \/ Hit(t, k) \/ Unusable(t, k) \/ Stale(t, k) \/ Expired(t, k)
  \/ Drop(t) \/ LockedOut(t)
  \/ \E a \in Answers \ {"mismatch"} : Revalidate(t, a)
  \/ Renew(t) \/ Extend(t) \/ ServeAgain(t) \/ RereadElse(t)
  \/ \E a \in Answers : Fetch(t, a)
  \/ Store(t)

Manage ==
  \/ BeginRefresh
  \/ \E row \in rows : (\E a \in Answers : RefreshKeeps(row, a)) \/ RefreshDrops(row)
  \/ EndRefresh
  \/ Clear

Next == (\E t \in Threads : Run(t)) \/ Manage \/ NextDay

Spec == Init /\ [][Next]_vars

-----------------------------------------------------------------------------
TypeOK ==
  /\ today \in 0 .. MaxDay
  /\ entry \in [Keys -> Entry \cup {NoEntry}]
  /\ pc \in [Threads -> PC]
  /\ key \in [Threads -> Keys \cup {NoEntry}]
  /\ answer \in [Threads -> Answers \cup {"none"}]
  /\ missLock \in Threads \cup {NoThread}
  /\ refresh \in {"idle", "rows"}
  /\ rows \subseteq Keys \X Entry
  /\ purged \subseteq Keys

(* What the cache answers with is not older than its status allows:        *)
(* Pkulaw gave the status within its lifetime, or, for a law in force, a   *)
(* revalidation within the extension ended with an error.  That is an      *)
(* outage, as cache.py says, or, what it does not say, a search that was   *)
(* completed and found nothing: PkulawNotFoundError is caught with the     *)
(* others, and a law that is gone is served for another day.  Threads that *)
(* revalidate, replace or extend the same row at the same time do not      *)
(* lengthen any of it.                                                     *)
CouldNotBeAsked(e) == today - e.failed <= Extension
FoundNothing(e) == today - e.missed <= Extension

FreshEnough(e) ==
  \/ today - e.seen <= TTL[e.status]
  \/ e.status = "effective" /\ (CouldNotBeAsked(e) \/ FoundNothing(e))

AnswersAreFresh ==
  /\ \A k \in InFile : Fresh(entry[k]) => FreshEnough(entry[k])
  /\ \A t \in Threads : pc[t] = "reread" /\ Cached(key[t]) => FreshEnough(entry[key[t]])

(* For searches and single items the cache is asked under its lock: no     *)
(* call is spent on what a fresh row already answers.                      *)
NoCallForWhatIsCached ==
  [][\A t \in Threads : \A a \in Answers :
       Fetch(t, a) /\ Locked(key[t]) => ~(Cached(key[t]) /\ Fresh(entry[key[t]]))]_vars

(* cache_refresh leaves no expired row behind, whatever other threads did  *)
(* to the rows since it read them.                                         *)
RefreshLeavesNoneExpired ==
  [][EndRefresh => \A k \in Keys : entry'[k] # NoEntry => Fresh(entry'[k])]_vars
=============================================================================
