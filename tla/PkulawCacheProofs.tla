------------------------- MODULE PkulawCacheProofs -------------------------
(***************************************************************************)
(* Proofs about the Pkulaw cache for any threads, keys, lifetimes and      *)
(* rows left behind: what it answers with is fresh, no call is spent on a  *)
(* row that is, and cache_refresh leaves no expired row.                   *)
(***************************************************************************)
EXTENDS PkulawCache, TLAPS

(* The age of a row is that of its status, or that of an error.            *)
RowTrue(e) ==
  \/ e.verified <= e.seen
  \/ /\ e.status = "effective"
     /\ \E day \in {e.failed, e.missed} : e.verified <= day - TTL["effective"] + Extension

(* A row that somebody revalidates is still that of a law in force, unless *)
(* it was stored on the same day.                                          *)
Current(k) == Cached(k) => entry[k].status = "effective" \/ entry[k].seen = today

(* A row that has just been revalidated.                                   *)
JustAsked(k) ==
  Cached(k) => \/ entry[k].seen = today
               \/ entry[k].status = "effective" /\ today \in {entry[k].failed, entry[k].missed}

FileInv == \A k \in Keys : Cached(k) => RowTrue(entry[k])

(* What a lookup relies on at its place.                                   *)
Reliable(t) ==
  /\ pc[t] # "idle" => key[t] \in Keys
  /\ pc[t] # "idle" /\ Locked(key[t]) => missLock = t
  /\ pc[t] \in {"revalidate", "renew", "extend"} => Current(key[t])
  /\ pc[t] = "renew" => answer[t] = "effective"
  /\ pc[t] = "extend" => Raises(answer[t])
  /\ pc[t] = "reread" => JustAsked(key[t])
  /\ pc[t] = "fetch" /\ Locked(key[t]) => ~Cached(key[t])

(* What cache_refresh has still to do.                                     *)
RefreshInv ==
  /\ refresh = "idle" => rows = {} /\ purged = {}
  /\ \A row \in rows : row[2].status = "effective" => Current(row[1])
  /\ refresh = "rows" =>
       \A k \in Keys : Cached(k) /\ ~Fresh(entry[k]) =>
         k \in purged \/ \E row \in rows : row[1] = k

IInv == TypeOK /\ FileInv /\ (\A t \in Threads : Reliable(t)) /\ RefreshInv

(* The initial state satisfies the inductive invariant. *)
THEOREM InitOK == Init => IInv
  <1> SUFFICES ASSUME Init PROVE IInv
    OBVIOUS
  <1>1. ASSUME NEW s \in Statuses, NEW age \in LeftAges, NEW u \in BOOLEAN
        PROVE  LeftRow(s, age, u) \in Entry /\ RowTrue(LeftRow(s, age, u))
    BY LifetimeAssumption DEF LeftRow, Entry, RowTrue
  <1>2. \A k \in Keys : entry[k] \in Entry \cup {NoEntry} /\ (Cached(k) => RowTrue(entry[k]))
    BY <1>1 DEF Init, Cached
  <1>3. TypeOK
    BY <1>2, LifetimeAssumption DEF Init, TypeOK, PC
  <1>4. FileInv
    BY <1>2 DEF FileInv
  <1>5. (\A t \in Threads : Reliable(t)) /\ RefreshInv
    BY DEF Init, Reliable, RefreshInv
  <1> QED  BY <1>3, <1>4, <1>5 DEF IInv

-----------------------------------------------------------------------------
(* What a step does to a row, other than removing it: it is stored or      *)
(* confirmed today, or extended because of an error today.                 *)
StoredToday(e) ==
  e.seen = today /\ e.verified <= today /\ today - e.verified <= TTL["effective"]
ExtendedToday(e) ==
  e.status = "effective" /\ today \in {e.failed, e.missed} /\ e.verified = ExtendedDay

Gentle(k) ==
  \/ entry'[k] = entry[k]
  \/ entry'[k] = NoEntry
  \/ entry'[k] \in Entry /\ (StoredToday(entry'[k]) \/ ExtendedToday(entry'[k]))

(* Lifetimes as the proofs use them. *)
LEMMA Lifetimes ==
  /\ TTL["effective"] \in Nat /\ Extension \in Nat /\ Extension <= TTL["effective"]
  /\ \A s \in Statuses : TTL[s] \in Nat /\ TTL["effective"] <= TTL[s]
BY LifetimeAssumption DEF Statuses

(* An update of a row whose law was in force, or that is of today.         *)
LEMMA UpdatedGentle ==
  ASSUME TypeOK, NEW k \in Keys, Cached(k), Current(k), NEW a, NEW day,
         \/ Confirms(a) /\ day = today
         \/ Raises(a) /\ day = ExtendedDay
  PROVE  LET e == Updated(entry[k], day, a)
         IN  e \in Entry /\ (StoredToday(e) \/ ExtendedToday(e))
  <1> DEFINE e == Updated(entry[k], day, a)
  <1>1. entry[k] \in Entry /\ today \in Int
    BY DEF TypeOK, Cached
  <1>2. ExtendedDay \in Int /\ ExtendedDay <= today /\ today - ExtendedDay <= TTL["effective"]
    BY <1>1, Lifetimes DEF ExtendedDay
  <1>3. day \in Int /\ day <= today /\ today - day <= TTL["effective"]
    BY <1>1, <1>2, Lifetimes
  <1>4. /\ e \in Entry
        /\ e.status = entry[k].status /\ e.verified = day
        /\ e.seen = IF a = entry[k].status THEN today ELSE entry[k].seen
        /\ e.failed = IF a = "fault" THEN today ELSE entry[k].failed
        /\ e.missed = IF a = "not_found" THEN today ELSE entry[k].missed
    BY <1>1, <1>3 DEF Updated, Entry
  <1>5. CASE entry[k].seen = today \/ a = entry[k].status
    BY <1>3, <1>4, <1>5 DEF StoredToday
  <1>6. CASE entry[k].seen # today /\ a # entry[k].status
    <2>1. entry[k].status = "effective"
      BY <1>6 DEF Current
    <2>2. Raises(a) /\ day = ExtendedDay
      BY <1>6, <2>1 DEF Confirms
    <2> QED  BY <1>4, <2>1, <2>2 DEF ExtendedToday, Raises
  <1> QED  BY <1>4, <1>5, <1>6

(* What is updated together with the rest of the file.                     *)
LEMMA VerifiedGentle ==
  ASSUME TypeOK, NEW j \in Keys, Current(j), NEW a, NEW day, NEW k \in Keys,
         \/ Confirms(a) /\ day = today
         \/ Raises(a) /\ day = ExtendedDay
  PROVE  LET e == Verified(j, day, a)[k]
         IN  /\ ~Cached(k) => e = NoEntry
             /\ k # j => e = entry[k]
             /\ k = j /\ Cached(k) => e \in Entry /\ (StoredToday(e) \/ ExtendedToday(e))
BY UpdatedGentle DEF Verified, Cached

(* A gentle change keeps what is true of a row.                            *)
LEMMA GentleKeeps ==
  ASSUME TypeOK, NEW k \in Keys, Gentle(k), today' = today
  PROVE  /\ entry'[k] \in Entry \cup {NoEntry}
         /\ (Cached(k) => RowTrue(entry[k])) => (entry'[k] # NoEntry => RowTrue(entry'[k]))
         /\ Current(k) => Current(k)'
         /\ JustAsked(k) => JustAsked(k)'
         /\ entry'[k] # entry[k] /\ entry'[k] # NoEntry => today - entry'[k].verified <= TTL[entry'[k].status]
  <1>1. entry[k] \in Entry \cup {NoEntry} /\ today \in Int
    BY DEF TypeOK
  <1>2. ASSUME entry'[k] \in Entry, StoredToday(entry'[k]) \/ ExtendedToday(entry'[k])
        PROVE  /\ RowTrue(entry'[k]) /\ Current(k)' /\ JustAsked(k)'
               /\ today - entry'[k].verified <= TTL[entry'[k].status]
    <2>1. entry'[k].status \in Statuses /\ entry'[k].verified \in Int
      BY <1>2 DEF Entry
    <2>2. CASE StoredToday(entry'[k])
      BY <1>1, <2>1, <2>2, Lifetimes DEF StoredToday, RowTrue, Current, JustAsked
    <2>3. CASE ExtendedToday(entry'[k])
      BY <1>1, <2>1, <2>3, Lifetimes DEF ExtendedToday, ExtendedDay, RowTrue, Current, JustAsked
    <2> QED  BY <1>2, <2>2, <2>3
  <1>3. CASE entry'[k] = entry[k]
    BY <1>1, <1>3 DEF Cached, Current, JustAsked
  <1>4. CASE entry'[k] = NoEntry
    BY <1>1, <1>4 DEF Current, JustAsked, Cached
  <1> QED  BY <1>2, <1>3, <1>4 DEF Gentle

-----------------------------------------------------------------------------
(* Steps within a day: every one of them changes rows gently, and only a   *)
(* store brings a row where there was none.                                *)
FileStep ==
  /\ today' = today
  /\ \A k \in Keys : Gentle(k)
  /\ \A k \in Keys : ~Cached(k) /\ Cached(k)' =>
       \E t \in Threads : pc[t] = "store" /\ key[t] = k /\ key'[t] = NoEntry

LEMMA SameFile == UNCHANGED <<today, entry>> => FileStep
BY DEF FileStep, Gentle, Cached

LEMMA WrittenFile ==
  ASSUME IInv, NEW t \in Threads, Renew(t) \/ Extend(t)
  PROVE  FileStep
  <1>1. TypeOK /\ key[t] \in Keys /\ Current(key[t])
    BY DEF IInv, Reliable, Renew, Extend
  <1>2. PICK day \in {today, ExtendedDay} :
          /\ entry' = Verified(key[t], day, answer[t])
          /\ \/ Confirms(answer[t]) /\ day = today
             \/ Raises(answer[t]) /\ day = ExtendedDay
    BY DEF IInv, Reliable, Renew, Extend, Confirms
  <1>3. \A k \in Keys : Gentle(k) /\ (~Cached(k) => ~Cached(k)')
    BY <1>1, <1>2, VerifiedGentle DEF Gentle, Cached
  <1> QED  BY <1>3 DEF FileStep, Renew, Extend

LEMMA StoredFile ==
  ASSUME IInv, NEW t \in Threads, Store(t)
  PROVE  FileStep
  <1>1. key[t] \in Keys /\ today \in Int /\ key' = [key EXCEPT ![t] = NoEntry]
    BY DEF IInv, Reliable, Store, TypeOK, Return
  <1>2. Row(StoredAs(key[t], answer[t])) \in Entry
    BY <1>1 DEF Row, StoredAs, Entry, Statuses, Found
  <1>3. StoredToday(Row(StoredAs(key[t], answer[t])))
    BY <1>1, Lifetimes DEF Row, StoredToday
  <1>4. \A k \in Keys : entry'[k] = IF k = key[t] THEN Row(StoredAs(key[t], answer[t])) ELSE entry[k]
    BY <1>1 DEF IInv, TypeOK, Store
  <1>5. key'[t] = NoEntry
    BY <1>1 DEF IInv, TypeOK
  <1> QED  BY <1>2, <1>3, <1>4, <1>5 DEF FileStep, Gentle, Cached, Store

LEMMA RefreshedFile ==
  ASSUME IInv, NEW row \in rows, NEW a \in Answers, RefreshKeeps(row, a)
  PROVE  /\ FileStep
         /\ \A k \in Keys : k = row[1] \/ k \in purged =>
              entry'[k] = NoEntry \/ (entry'[k] \in Entry /\ (StoredToday(entry'[k]) \/ ExtendedToday(entry'[k])))
         /\ \A k \in Keys : k # row[1] /\ k \notin purged => entry'[k] = entry[k]
  <1> DEFINE day == IF Confirms(a) THEN today ELSE ExtendedDay
  <1>1. TypeOK /\ row[1] \in Keys /\ Current(row[1])
    BY DEF IInv, TypeOK, RefreshInv, RefreshKeeps
  <1>2. \/ Confirms(a) /\ day = today
        \/ Raises(a) /\ day = ExtendedDay
    BY DEF RefreshKeeps
  <1>3. \A k \in Keys : entry'[k] = IF k \in purged THEN NoEntry ELSE Verified(row[1], day, a)[k]
    BY DEF RefreshKeeps, Uncommitted
  <1> HIDE DEF day
  <1>4. \A k \in Keys :
          LET e == Verified(row[1], day, a)[k]
          IN  /\ ~Cached(k) => e = NoEntry
              /\ k # row[1] => e = entry[k]
              /\ k = row[1] /\ Cached(k) => e \in Entry /\ (StoredToday(e) \/ ExtendedToday(e))
    BY <1>1, <1>2, VerifiedGentle
  <1>5. today' = today
    BY DEF RefreshKeeps
  <1> QED  BY <1>3, <1>4, <1>5 DEF FileStep, Gentle, Cached

LEMMA RemovedFile ==
  ASSUME IInv, today' = today, \A k \in Keys : entry'[k] = entry[k] \/ entry'[k] = NoEntry
  PROVE  FileStep
BY DEF FileStep, Gentle, Cached

LEMMA DayOrFile == IInv /\ Next => NextDay \/ FileStep
  <1> SUFFICES ASSUME IInv, Next, ~NextDay PROVE FileStep
    OBVIOUS
  <1>1. ASSUME NEW t \in Threads, Run(t)
        PROVE  FileStep
    <2>1. CASE UNCHANGED <<today, entry>>
      BY <2>1, SameFile
    <2>2. CASE Drop(t)
      <3>1. \A k \in Keys : entry'[k] = entry[k] \/ entry'[k] = NoEntry
        BY <2>2 DEF Drop, IInv, TypeOK
      <3> QED  BY <2>2, <3>1, RemovedFile DEF Drop
    <2>3. CASE Renew(t) \/ Extend(t)
      BY <2>3, WrittenFile
    <2>4. CASE Store(t)
      BY <2>4, StoredFile
    <2>5. CASE ~Drop(t) /\ ~Renew(t) /\ ~Extend(t) /\ ~Store(t)
      <3>1. UNCHANGED <<today, entry>>
        BY <1>1, <2>5 DEF Run, Miss, Hit, Unusable, Stale, Expired, Lookup, LockedOut, Revalidate,
             ServeAgain, RereadElse, Fetch, vars
      <3> QED  BY <3>1, SameFile
    <2> QED  BY <2>2, <2>3, <2>4, <2>5
  <1>2. CASE Manage
    <2>1. CASE BeginRefresh \/ \E row \in rows : RefreshDrops(row)
      BY <2>1, SameFile DEF BeginRefresh, RefreshDrops
    <2>2. CASE \E row \in rows : \E a \in Answers : RefreshKeeps(row, a)
      BY <2>2, RefreshedFile
    <2>3. CASE EndRefresh \/ Clear
      <3>1. \A k \in Keys : entry'[k] = entry[k] \/ entry'[k] = NoEntry
        BY <2>3 DEF EndRefresh, Clear, Purge, Uncommitted
      <3> QED  BY <2>3, <3>1, RemovedFile DEF EndRefresh, Clear
    <2> QED  BY <1>2, <2>1, <2>2, <2>3 DEF Manage
  <1> QED  BY <1>1, <1>2 DEF Next

-----------------------------------------------------------------------------
(* What a step within a day keeps of the file.                             *)
LEMMA FileKept ==
  ASSUME IInv, FileStep
  PROVE  /\ FileInv'
         /\ \A k \in Keys : Current(k) => Current(k)'
         /\ \A k \in Keys : JustAsked(k) => JustAsked(k)'
         /\ \A k \in Keys : Cached(k)' /\ ~Fresh(entry[k])' => Cached(k) /\ ~Fresh(entry[k])
  <1>1. \A k \in Keys : Gentle(k) /\ today' = today /\ TypeOK
    BY DEF IInv, FileStep
  <1>2. FileInv'
    BY <1>1, GentleKeeps DEF IInv, FileInv, Cached
  <1>3. \A k \in Keys : (Current(k) => Current(k)') /\ (JustAsked(k) => JustAsked(k)')
    BY <1>1, GentleKeeps
  <1>4. ASSUME NEW k \in Keys, Cached(k)', ~Fresh(entry[k])'
        PROVE  Cached(k) /\ ~Fresh(entry[k])
    <2>1. entry'[k] # NoEntry /\ ~(today - entry'[k].verified <= TTL[entry'[k].status])
      BY <1>1, <1>4 DEF Cached, Fresh
    <2>2. entry'[k] = entry[k]
      BY <1>1, <2>1, GentleKeeps
    <2> QED  BY <2>1, <2>2 DEF Cached, Fresh
  <1> QED  BY <1>2, <1>3, <1>4

(* Threads that do not move keep what they rely on, and so do those that   *)
(* wait for the lock of a search.                                          *)
LEMMA Elsewhere ==
  ASSUME IInv, FileStep, NEW t \in Threads,
         pc'[t] = pc[t], key'[t] = key[t], answer'[t] = answer[t],
         missLock = t => missLock' = t
  PROVE  Reliable(t)'
  <1>1. Reliable(t) /\ (\A u \in Threads : Reliable(u))
    BY DEF IInv
  <1>2. CASE pc[t] = "idle"
    BY <1>2 DEF Reliable
  <1>3. CASE pc[t] # "idle"
    <2>1. key[t] \in Keys /\ (Locked(key[t]) => missLock = t)
      BY <1>1, <1>3 DEF Reliable
    <2>2. pc[t] = "fetch" /\ Locked(key[t]) => ~Cached(key[t])'
      BY <1>1, <2>1 DEF Reliable, FileStep
    <2>3. /\ Current(key[t]) => Current(key[t])'
          /\ JustAsked(key[t]) => JustAsked(key[t])'
      BY <2>1, FileKept
    <2> QED  BY <1>1, <1>3, <2>1, <2>2, <2>3 DEF Reliable, Current, JustAsked, Cached
  <1> QED  BY <1>2, <1>3

(* A step of a thread moves that thread, and takes or gives the lock only  *)
(* for itself.                                                             *)
LEMMA RunMoves ==
  ASSUME IInv, NEW u \in Threads, Run(u)
  PROVE  \A t \in Threads \ {u} :
           /\ pc'[t] = pc[t] /\ key'[t] = key[t] /\ answer'[t] = answer[t]
           /\ missLock = t => missLock' = t
BY CacheAssumption DEF IInv, TypeOK, Run, Miss, Hit, Unusable, Stale, Expired, Lookup, MissLockFree,
   Drop, LockedOut, Revalidate, Renew, Extend, ServeAgain, RereadElse, Fetch, Store,
   Return, Continue, Goto, vars, threadVars

(* The thread that moves can rely on what it goes on with.                 *)
LEMMA OwnStep ==
  ASSUME IInv, FileStep, NEW t \in Threads, Run(t)
  PROVE  Reliable(t)'
  <1>1. Reliable(t) /\ TypeOK
    BY DEF IInv
  <1>2. ASSUME Return(t)
        PROVE  Reliable(t)'
    BY <1>1, <1>2 DEF Return, Goto, TypeOK, Reliable
  <1>3. ASSUME NEW k \in Keys, Miss(t, k) \/ Unusable(t, k) \/ Stale(t, k) \/ Expired(t, k)
        PROVE  Reliable(t)'
    BY <1>1, <1>3 DEF Miss, Unusable, Stale, Expired, Lookup, Goto, TypeOK, Reliable, Current,
       Cached, Revalidates
  <1>4. ASSUME NEW k \in Keys, Hit(t, k)
        PROVE  Reliable(t)'
    BY <1>1, <1>4, Elsewhere DEF Hit, vars, threadVars
  <1>5. CASE Drop(t)
    BY <1>1, <1>5 DEF Drop, Continue, Goto, TypeOK, Reliable, Cached
  <1>6. ASSUME NEW a \in Answers \ {"mismatch"}, Revalidate(t, a)
        PROVE  Reliable(t)'
    BY <1>1, <1>6 DEF Revalidate, Continue, Goto, TypeOK, Reliable, Current, Cached, Confirms
  <1>7. CASE Renew(t) \/ Extend(t)
    <2>1. key[t] \in Keys /\ Current(key[t])
      BY <1>1, <1>7 DEF Renew, Extend, Reliable
    <2>2. PICK day \in {today, ExtendedDay} :
            /\ entry' = Verified(key[t], day, answer[t])
            /\ \/ Confirms(answer[t]) /\ day = today
               \/ Raises(answer[t]) /\ day = ExtendedDay
      BY <1>1, <1>7 DEF Reliable, Renew, Extend, Confirms
    <2>3. entry'[key[t]] = NoEntry \/ StoredToday(entry'[key[t]]) \/ ExtendedToday(entry'[key[t]])
      BY <1>1, <2>1, <2>2, VerifiedGentle DEF Cached
    <2>4. pc'[t] = "reread" /\ key' = key /\ missLock' = missLock /\ today' = today
      BY <1>1, <1>7 DEF Renew, Extend, Continue, Goto, TypeOK
    <2>5. JustAsked(key[t])'
      BY <2>3, <2>4 DEF JustAsked, Cached, StoredToday, ExtendedToday
    <2>6. pc[t] # "idle"
      BY <1>7 DEF Renew, Extend
    <2> QED  BY <1>1, <2>1, <2>4, <2>5, <2>6 DEF Reliable, JustAsked, Cached
  <1>8. CASE RereadElse(t)
    BY <1>1, <1>8 DEF RereadElse, Continue, Goto, TypeOK, Reliable, Serves, Cached
  <1>9. ASSUME NEW a \in Answers, Fetch(t, a), pc'[t] = "store", UNCHANGED <<key, missLock>>
        PROVE  Reliable(t)'
    BY <1>1, <1>9 DEF Fetch, Reliable
  <1>10. ASSUME NEW a \in Answers, Fetch(t, a)
         PROVE  Return(t) \/ (pc'[t] = "store" /\ UNCHANGED <<key, missLock>>)
    BY <1>1, <1>10 DEF Fetch, Continue, Goto, TypeOK
  <1> QED
    BY <1>2, <1>3, <1>4, <1>5, <1>6, <1>7, <1>8, <1>9, <1>10
       DEF Run, LockedOut, ServeAgain, Store

(* cache_refresh keeps what it relies on while threads change rows.        *)
LEMMA RefreshWaits ==
  ASSUME IInv, FileStep, UNCHANGED refreshVars
  PROVE  RefreshInv'
  <1>1. RefreshInv /\ rows' = rows /\ purged' = purged /\ refresh' = refresh /\ rows \subseteq Keys \X Entry
    BY DEF IInv, refreshVars, TypeOK
  <1>2. \A row \in rows : row[1] \in Keys
    BY <1>1
  <1>3. \A row \in rows : row[2].status = "effective" => Current(row[1])'
    BY <1>1, <1>2, FileKept DEF RefreshInv
  <1>4. refresh = "rows" =>
          \A k \in Keys : Cached(k)' /\ ~Fresh(entry[k])' => k \in purged \/ \E row \in rows : row[1] = k
    BY <1>1, FileKept DEF RefreshInv
  <1> QED  BY <1>1, <1>3, <1>4 DEF RefreshInv, Current, Cached, Fresh

LEMMA RefreshSteps ==
  ASSUME IInv, FileStep,
         \/ BeginRefresh \/ EndRefresh
         \/ \E row \in rows : (\E a \in Answers : RefreshKeeps(row, a)) \/ RefreshDrops(row)
  PROVE  RefreshInv'
  <1>1. RefreshInv /\ rows \subseteq Keys \X Entry /\ purged \subseteq Keys
    BY DEF IInv, TypeOK
  <1>2. CASE BeginRefresh
    <2>1. /\ refresh' = "rows" /\ today' = today /\ entry' = entry
          /\ rows' = {<<k, entry[k]>> : k \in {j \in InFile : ~Fresh(entry[j])}}
      BY <1>2 DEF BeginRefresh
    <2>2. \A row \in rows' : row[2].status = "effective" => Current(row[1])'
      BY <2>1 DEF Current, Cached
    <2>3. ASSUME NEW k \in Keys, Cached(k)', ~Fresh(entry[k])'
          PROVE  \E row \in rows' : row[1] = k
      <3>1. k \in {j \in InFile : ~Fresh(entry[j])}
        BY <2>1, <2>3 DEF InFile, Cached, Fresh
      <3>2. <<k, entry[k]>> \in rows'
        BY <2>1, <3>1
      <3> QED  BY <3>2
    <2> QED  BY <2>1, <2>2, <2>3 DEF RefreshInv
  <1>3. CASE EndRefresh
    BY <1>3 DEF EndRefresh, RefreshInv
  <1>4. ASSUME NEW row \in rows, NEW a \in Answers, RefreshKeeps(row, a)
        PROVE  RefreshInv'
    <2>1. refresh' = "rows" /\ rows' = rows \ {row} /\ purged' = {}
      BY <1>4 DEF RefreshKeeps
    <2>2. \A r \in rows' : r[2].status = "effective" => Current(r[1])'
      <3>1. \A r \in rows' : r \in rows /\ r[1] \in Keys
        BY <1>1, <2>1
      <3> QED  BY <1>1, <3>1, FileKept DEF RefreshInv
    <2>3. ASSUME NEW k \in Keys, Cached(k)', ~Fresh(entry[k])'
          PROVE  \E r \in rows' : r[1] = k
      <3>1. k # row[1] /\ k \notin purged
        <4>1. ASSUME k = row[1] \/ k \in purged
              PROVE  FALSE
          <5>1. entry'[k] \in Entry /\ (StoredToday(entry'[k]) \/ ExtendedToday(entry'[k])) /\ today' = today
            BY <1>4, <2>3, <4>1, RefreshedFile DEF Cached, FileStep
          <5>2. entry'[k].status \in Statuses /\ entry'[k].verified \in Int /\ today \in Int
            BY <5>1 DEF Entry, IInv, TypeOK
          <5>3. today - entry'[k].verified <= TTL["effective"]
            BY <5>1, <5>2, Lifetimes DEF StoredToday, ExtendedToday, ExtendedDay
          <5> QED  BY <2>3, <5>1, <5>2, <5>3, Lifetimes DEF Fresh
        <4> QED  BY <4>1
      <3>2. Cached(k) /\ ~Fresh(entry[k]) /\ refresh = "rows"
        BY <1>4, <2>3, FileKept DEF RefreshKeeps
      <3> QED  BY <1>1, <2>1, <3>1, <3>2 DEF RefreshInv
    <2> QED  BY <2>1, <2>2, <2>3 DEF RefreshInv
  <1>5. ASSUME NEW row \in rows, RefreshDrops(row)
        PROVE  RefreshInv'
    BY <1>1, <1>5 DEF RefreshDrops, RefreshInv, Current, Cached, Fresh
  <1> QED  BY <1>2, <1>3, <1>4, <1>5

-----------------------------------------------------------------------------
(* The types within a step.                                                *)
LEMMA TypeStep ==
  ASSUME IInv, FileStep, Next
  PROVE  TypeOK'
  <1>1. TypeOK
    BY DEF IInv
  <1>2. entry' \in [Keys -> Entry \cup {NoEntry}]
    <2>1. \A k \in Keys : entry'[k] \in Entry \cup {NoEntry}
      BY <1>1, GentleKeeps DEF FileStep
    <2>2. entry' = [k \in Keys |-> entry'[k]]
      <3>1. ASSUME NEW t \in Threads, Run(t)
            PROVE  entry' = [k \in Keys |-> entry'[k]]
        BY <1>1, <3>1 DEF TypeOK, Run, Miss, Hit, Unusable, Stale, Expired, Lookup, Drop, LockedOut,
           Revalidate, Renew, Extend, Verified, ServeAgain, RereadElse, Fetch, Store, vars
      <3>2. CASE Manage \/ NextDay
        BY <1>1, <3>2 DEF TypeOK, Manage, BeginRefresh, RefreshKeeps, RefreshDrops, EndRefresh, Purge,
           Clear, Uncommitted, NextDay
      <3> QED  BY <3>1, <3>2 DEF Next
    <2> QED  BY <2>1, <2>2
  <1>3. today' \in 0 .. MaxDay
    BY <1>1 DEF TypeOK, FileStep
  <1>4. ASSUME NEW t \in Threads, Run(t)
        PROVE  TypeOK'
    <2>1. Reliable(t)
      BY DEF IInv
    <2>2. UNCHANGED refreshVars
      BY <1>4 DEF Run, Miss, Hit, Unusable, Stale, Expired, Lookup, Drop, LockedOut,
         Revalidate, Renew, Extend, ServeAgain, RereadElse, Fetch, Store, vars
    <2>3. pc' \in [Threads -> PC]
      BY <1>1, <1>4 DEF TypeOK, PC, Run, Miss, Hit, Unusable, Stale, Expired, Lookup, Drop, LockedOut,
         Revalidate, Renew, Extend, ServeAgain, RereadElse, Fetch, Store, Return, Continue, Goto, vars,
         threadVars
    <2>4. key' \in [Threads -> Keys \cup {NoEntry}]
      BY <1>1, <1>4 DEF TypeOK, Run, Miss, Hit, Unusable, Stale, Expired, Lookup, Drop, LockedOut,
         Revalidate, Renew, Extend, ServeAgain, RereadElse, Fetch, Store, Return, Continue, vars,
         threadVars
    <2>5. answer' \in [Threads -> Answers \cup {"none"}]
      BY <1>1, <1>4 DEF TypeOK, Run, Miss, Hit, Unusable, Stale, Expired, Lookup, Drop, LockedOut,
         Revalidate, Renew, Extend, ServeAgain, RereadElse, Fetch, Store, Return, vars, threadVars
    <2>6. missLock' \in Threads \cup {NoThread}
      BY <1>1, <1>4 DEF TypeOK, Run, Miss, Hit, Unusable, Stale, Expired, Lookup, Drop, LockedOut,
         Revalidate, Renew, Extend, ServeAgain, RereadElse, Fetch, Store, Return, Continue, vars,
         threadVars
    <2> QED  BY <1>1, <1>2, <1>3, <2>2, <2>3, <2>4, <2>5, <2>6 DEF TypeOK, refreshVars
  <1>5. CASE Manage \/ NextDay
    <2>1. UNCHANGED threadVars
      BY <1>5 DEF Manage, BeginRefresh, RefreshKeeps, RefreshDrops, EndRefresh, Clear, NextDay
    <2>2. refresh' \in {"idle", "rows"} /\ rows' \subseteq Keys \X Entry /\ purged' \subseteq Keys
      <3>1. CASE BeginRefresh
        BY <1>1, <3>1 DEF BeginRefresh, TypeOK, InFile, Cached
      <3>2. ASSUME NEW row \in rows, RefreshDrops(row) \/ \E a \in Answers : RefreshKeeps(row, a)
            PROVE  refresh' \in {"idle", "rows"} /\ rows' \subseteq Keys \X Entry /\ purged' \subseteq Keys
        <4>1. row[1] \in Keys
          BY <1>1 DEF TypeOK
        <4> QED  BY <1>1, <3>2, <4>1 DEF RefreshDrops, RefreshKeeps, TypeOK
      <3>3. CASE EndRefresh \/ Clear \/ NextDay
        BY <1>1, <3>3 DEF EndRefresh, Clear, NextDay, TypeOK, refreshVars
      <3> QED  BY <1>5, <3>1, <3>2, <3>3 DEF Manage
    <2> QED  BY <1>1, <1>2, <1>3, <2>1, <2>2 DEF TypeOK, threadVars
  <1> QED  BY <1>4, <1>5 DEF Next

(* A day ends when nobody is at work.                                      *)
LEMMA DayStep == IInv /\ NextDay => IInv'
  <1> SUFFICES ASSUME IInv, NextDay PROVE IInv'
    OBVIOUS
  <1>1. TypeOK /\ RefreshInv /\ FileInv /\ \A t \in Threads : pc[t] = "idle"
    BY DEF IInv, NextDay, Quiet
  <1>2. TypeOK'
    BY <1>1, LifetimeAssumption DEF NextDay, TypeOK, threadVars, refreshVars
  <1>3. FileInv' /\ RefreshInv'
    BY <1>1 DEF NextDay, Quiet, FileInv, RefreshInv, Cached, refreshVars, RowTrue
  <1>4. \A t \in Threads : Reliable(t)'
    BY <1>1 DEF NextDay, Reliable, threadVars
  <1> QED  BY <1>2, <1>3, <1>4 DEF IInv

(* Every step preserves the inductive invariant. *)
THEOREM StepOK == IInv /\ [Next]_vars => IInv'
  <1> SUFFICES ASSUME IInv, [Next]_vars PROVE IInv'
    OBVIOUS
  <1>1. CASE UNCHANGED vars
    BY <1>1 DEF vars, threadVars, refreshVars, IInv, TypeOK, FileInv, Reliable, RefreshInv, Cached,
       Current, JustAsked, Fresh, RowTrue
  <1>2. CASE Next /\ FileStep
    <2>1. TypeOK' /\ FileInv'
      BY <1>2, TypeStep, FileKept
    <2>2. \A t \in Threads : Reliable(t)'
      <3>1. ASSUME NEW u \in Threads, Run(u), NEW t \in Threads
            PROVE  Reliable(t)'
        BY <1>2, <3>1, RunMoves, OwnStep, Elsewhere
      <3>2. ASSUME Manage \/ NextDay, NEW t \in Threads
            PROVE  Reliable(t)'
        <4>1. UNCHANGED threadVars
          BY <3>2 DEF Manage, BeginRefresh, RefreshKeeps, RefreshDrops, EndRefresh, Clear, NextDay
        <4> QED  BY <1>2, <4>1, Elsewhere DEF threadVars
      <3> QED  BY <1>2, <3>1, <3>2 DEF Next
    <2>3. RefreshInv'
      <3>1. CASE UNCHANGED refreshVars
        BY <1>2, <3>1, RefreshWaits
      <3>2. CASE ~UNCHANGED refreshVars
        <4>1. \/ BeginRefresh \/ EndRefresh
              \/ \E row \in rows : (\E a \in Answers : RefreshKeeps(row, a)) \/ RefreshDrops(row)
          BY <1>2, <3>2 DEF Next, Manage, Clear, NextDay, Run, Miss, Hit, Unusable, Stale, Expired, Lookup,
             Drop, LockedOut, Revalidate, Renew, Extend, ServeAgain, RereadElse, Fetch, Store, vars
        <4> QED  BY <1>2, <4>1, RefreshSteps
      <3> QED  BY <3>1, <3>2
    <2> QED  BY <2>1, <2>2, <2>3 DEF IInv
  <1>3. CASE NextDay
    BY <1>3, DayStep
  <1> QED  BY <1>1, <1>2, <1>3, DayOrFile

-----------------------------------------------------------------------------
(* The state of the cache is as described at every step. *)
THEOREM Invariance == Spec => []IInv
BY InitOK, StepOK, PTL DEF Spec

(* The variables keep their types. *)
THEOREM TypeCorrect == Spec => []TypeOK
BY Invariance, PTL DEF IInv

LEMMA FreshAnswers == IInv => AnswersAreFresh
  <1> SUFFICES ASSUME IInv PROVE AnswersAreFresh
    OBVIOUS
  <1>1. \A k \in Keys : Cached(k) =>
          /\ entry[k].status \in Statuses /\ entry[k].verified \in Int /\ entry[k].seen \in Int
          /\ entry[k].failed \in Int /\ entry[k].missed \in Int /\ today \in Int
    BY DEF IInv, TypeOK, Entry, Cached
  <1>2. ASSUME NEW k \in Keys, Cached(k), Fresh(entry[k])
        PROVE  FreshEnough(entry[k])
    <2>1. RowTrue(entry[k])
      BY <1>2 DEF IInv, FileInv
    <2> QED  BY <1>1, <1>2, <2>1, Lifetimes
       DEF RowTrue, Fresh, FreshEnough, CouldNotBeAsked, FoundNothing
  <1>3. ASSUME NEW t \in Threads, pc[t] = "reread", Cached(key[t])
        PROVE  FreshEnough(entry[key[t]])
    <2>1. key[t] \in Keys /\ JustAsked(key[t])
      BY <1>3 DEF IInv, Reliable
    <2> QED  BY <1>1, <1>3, <2>1, Lifetimes
       DEF JustAsked, FreshEnough, CouldNotBeAsked, FoundNothing
  <1> QED  BY <1>2, <1>3 DEF AnswersAreFresh, InFile

(* Whatever threads and cache_refresh do to one row at the same time, what *)
(* the cache answers with is within the lifetime of its status, or, for a  *)
(* law in force, within the extension after a revalidation that could not  *)
(* ask Pkulaw or was told that nothing was found.                          *)
THEOREM AnswersFresh == Spec => []AnswersAreFresh
BY Invariance, FreshAnswers, PTL

(* No search or single item is asked of Pkulaw that a fresh row answers.   *)
THEOREM NoWastedCall == Spec => NoCallForWhatIsCached
  <1>1. IInv => [\A t \in Threads : \A a \in Answers :
                   Fetch(t, a) /\ Locked(key[t]) => ~(Cached(key[t]) /\ Fresh(entry[key[t]]))]_vars
    BY DEF IInv, Reliable, Fetch
  <1> QED  BY <1>1, Invariance, PTL DEF NoCallForWhatIsCached

(* When cache_refresh ends, every row that is left is fresh.               *)
THEOREM RefreshComplete == Spec => RefreshLeavesNoneExpired
  <1>1. IInv => [EndRefresh => \A k \in Keys : entry'[k] # NoEntry => Fresh(entry'[k])]_vars
    <2> SUFFICES ASSUME IInv, EndRefresh, NEW k \in Keys, entry'[k] # NoEntry
                 PROVE  Fresh(entry'[k])
      OBVIOUS
    <2>1. k \notin purged /\ entry'[k] = entry[k]
      BY DEF EndRefresh, Purge, Uncommitted
    <2> QED  BY <2>1 DEF IInv, RefreshInv, EndRefresh, Cached
  <1> QED  BY <1>1, Invariance, PTL DEF RefreshLeavesNoneExpired
=============================================================================
