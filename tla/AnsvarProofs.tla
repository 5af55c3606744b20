---------------------------- MODULE AnsvarProofs ----------------------------
(***************************************************************************)
(* Proofs about AnsvarSource with the client and the authorisation below   *)
(* it, for any set-ups, documents, threads and number of lookups: a token  *)
(* that was refused is not sent again, an absence that is told or cached   *)
(* rests on an answer, and locks are taken in one order and left.          *)
(***************************************************************************)
EXTENDS AnsvarSource, TLAPS

-----------------------------------------------------------------------------
(* What a thread knows is a record of these fields; a step changes one.    *)

Fields ==
  {"pc", "op", "wants", "purpose", "post", "header", "again", "reply", "said", "held", "second",
   "bearer", "refused", "retried", "err", "reasons", "result", "left"}

Shape(r) == r = [x \in Fields |-> r[x]]

Shaped ==
  /\ config \in Configs
  /\ th = [t \in Threads |-> th[t]]
  /\ \A t \in Threads : Shape(th[t])

(* A step of one thread, seen from the others. *)
Moved(t) ==
  /\ Shaped' /\ config' = config /\ Threads' = Threads
  /\ \A u \in Threads : Doc(u)' = Doc(u)
  /\ \A u \in Threads \ {t} : th'[u] = th[u]

LEMMA Home ==
  ASSUME Shaped, NEW t \in Threads
  PROVE  Doc(t) \in Docs /\ t # NoThread
BY ConfigAssumption DEF Shaped, Configuration, Threads, Doc

LEMMA StepMoves ==
  ASSUME Shaped, NEW t \in Threads, NEW r, Shape(r), Step(t, r), config' = config
  PROVE  Moved(t) /\ th'[t] = r
<1>1. Threads' = Threads /\ \A u \in Threads : Doc(u)' = Doc(u)
  BY DEF Threads, Doc
<1>2. th' = [u \in Threads |-> IF u = t THEN r ELSE th[u]]
  BY DEF Shaped, Step
<1>3. th' = [u \in Threads |-> th'[u]] /\ th'[t] = r /\ \A u \in Threads \ {t} : th'[u] = th[u]
  BY <1>2
<1> QED
  BY <1>1, <1>3 DEF Moved, Shaped, Shape

-----------------------------------------------------------------------------
(* What the tokens in memory, on file and in the hands of threads rely on. *)

(* Steps that are taken under the lock of the client. *)
UnderLock == {"refresh", "invalidate", "login", "save", "credentials", "handover"}
Marking == {"mark", "marked"}

Typed ==
  /\ mem \in [Docs -> TokenRecord \cup {NoTokens}]
  /\ file \in TokenRecord \cup {NoTokens, Torn}
  /\ authLock \in [Docs -> Threads \cup {NoThread}]

(* A copy of the tokens would have this bearer sent. *)
Offers(copy, n) == copy \in TokenRecord /\ copy.access = n /\ ~copy.marked

(* What a thread holds where it is.  A service account has no file, and    *)
(* nothing to mark.                                                        *)
Holds(t) ==
  /\ th[t].pc \in UnderLock => authLock[Doc(t)] = t
  /\ authLock[Doc(t)] = t => th[t].pc \in UnderLock \/ (th[t].pc = "bearer" /\ th[t].second)
  /\ th[t].held \in TokenRecord \cup {NoTokens}
  /\ th[t].pc \in {"refresh", "save"} \cup Marking => th[t].held \in TokenRecord
  /\ th[t].pc \in Marking => th[t].held.marked
  /\ config.auth = "service" =>
       th[t].pc \notin {"refresh", "invalidate", "login", "save"} \cup Marking
  /\ th[t].pc \in {"credentials", "handover"} => config.auth = "service"

ServiceUnmarked ==
  config.auth = "service" => \A d \in Docs : mem[d] \in TokenRecord => ~mem[d].marked

(* Tokens that are new, until they are on file: nobody has sent them, and  *)
(* no other document has them but as expired.                              *)
Fresh(s) ==
  th[s].pc = "save" =>
    /\ \A u \in Threads : th[u].bearer # th[s].held.access /\ th[u].refused # th[s].held.access
    /\ \A d \in Docs \ {Doc(s)} : ~Offers(mem[d], th[s].held.access)
    /\ ~Offers(file, th[s].held.access)
    /\ \A u \in Threads \ {s} : th[u].pc = "save" => th[u].held.access # th[s].held.access

(* A token that was refused and marked is nowhere this document would take *)
(* it from: while nothing is in memory, that is the file.                  *)
Gone(u) ==
  th[u].retried =>
    /\ th[u].refused # NoTokens
    /\ th[u].pc # "expire" =>
         /\ ~Offers(mem[Doc(u)], th[u].refused)
         /\ config.auth # "service" /\ mem[Doc(u)] = NoTokens => ~Offers(file, th[u].refused)

Unsent(u) == th[u].pc = "send" /\ th[u].retried => th[u].bearer # th[u].refused

TokenInv ==
  /\ Typed /\ ServiceUnmarked
  /\ \A t \in Threads : th[t].retried \in BOOLEAN /\ Holds(t) /\ Fresh(t) /\ Gone(t) /\ Unsent(t)

-----------------------------------------------------------------------------
(* A step that leaves the tokens alone.                                    *)
LEMMA QuietTokens ==
  ASSUME Shaped, TokenInv, NEW t \in Threads, Moved(t), UNCHANGED <<mem, file, authLock>>,
         th[t].pc \notin UnderLock \cup {"bearer", "expire"},
         th'[t].pc \notin UnderLock \cup Marking \cup {"expire", "send"},
         th'[t].held \in {th[t].held, NoTokens},
         th'[t].bearer \in {th[t].bearer, NoTokens},
         \/ th'[t].refused = th[t].refused /\ th'[t].retried = th[t].retried
         \/ th'[t].refused = NoTokens /\ th'[t].retried = FALSE
  PROVE  TokenInv'
<1>1. Typed' /\ ServiceUnmarked'
  BY DEF Moved, TokenInv, Typed, ServiceUnmarked
<1>2. ASSUME NEW u \in Threads
      PROVE  (th[u].retried \in BOOLEAN /\ Holds(u) /\ Gone(u) /\ Unsent(u))'
  <2>1. th[u].retried \in BOOLEAN /\ Holds(u) /\ Gone(u) /\ Unsent(u)
    BY DEF TokenInv
  <2>2. Doc(u)' = Doc(u) /\ config' = config
    BY DEF Moved
  <2>3. CASE u # t
    <3>1. th'[u] = th[u]
      BY <2>3 DEF Moved
    <3> QED
      BY <2>1, <2>2, <3>1 DEF Holds, Gone, Unsent, Offers
  <2>4. CASE u = t
    <3>1. Holds(t)'
      BY <2>1, <2>2, <2>4 DEF Holds, UnderLock, Marking
    <3>2. Gone(t)' /\ Unsent(t)'
      BY <2>1, <2>2, <2>4 DEF Gone, Unsent, Offers
    <3> QED
      BY <2>1, <2>4, <3>1, <3>2
  <2> QED
    BY <2>3, <2>4
<1>3. ASSUME NEW s \in Threads PROVE Fresh(s)'
  <2> SUFFICES ASSUME th'[s].pc = "save" PROVE Fresh(s)'
    BY DEF Fresh
  <2>1. s # t /\ th'[s] = th[s] /\ Doc(s)' = Doc(s)
    BY DEF Moved, UnderLock
  <2>2. Fresh(s) /\ th[s].held \in TokenRecord
    BY <2>1 DEF TokenInv, Holds
  <2>3. th[s].held.access # NoTokens
    BY <2>2, TokenAssumption DEF TokenRecord
  <2>4. \A u \in Threads : th'[u].bearer # th[s].held.access /\ th'[u].refused # th[s].held.access
    BY <2>1, <2>2, <2>3 DEF Fresh, Moved
  <2>5. \A u \in Threads \ {s} : th'[u].pc = "save" => th'[u].held.access # th[s].held.access
    BY <2>1, <2>2 DEF Fresh, Moved, UnderLock
  <2> QED
    BY <2>1, <2>2, <2>4, <2>5 DEF Fresh, Moved, Offers
<1> QED
  BY <1>1, <1>2, <1>3 DEF TokenInv, Moved

-----------------------------------------------------------------------------
(* A step that takes, makes, marks or drops tokens.                        *)

(* What is in use is not given out again. *)
LEMMA InUseIs ==
  ASSUME Shaped, TokenInv
  PROVE  /\ \A t \in Threads : th[t].bearer \in InUse /\ th[t].refused \in InUse
         /\ \A t \in Threads : th[t].held \in TokenRecord => th[t].held.access \in InUse
         /\ \A d \in Docs : mem[d] \in TokenRecord => mem[d].access \in InUse
         /\ file \in TokenRecord => file.access \in InUse
<1>1. \A c \in Copies : c \in TokenRecord => c.access \in InUse
  BY TokenAssumption DEF InUse, Records
<1>2. /\ \A t \in Threads : th[t].held \in Copies
      /\ \A d \in Docs : mem[d] \in Copies
      /\ file \in Copies
  BY DEF Copies
<1>3. \A t \in Threads : th[t].bearer \in InUse /\ th[t].refused \in InUse
  BY DEF InUse
<1> QED
  BY <1>1, <1>2, <1>3

LEMMA NewTokenIsNew ==
  ASSUME NameLeft
  PROVE  NewToken \in Tokens /\ NewToken \notin InUse
BY DEF NameLeft, NewToken

(* Where a token that is offered comes from. *)
Offered(t) ==
  /\ \A d \in Docs, n \in Tokens : Offers(mem'[d], n) =>
       \/ Offers(mem[d], n)
       \/ d = Doc(t) /\ mem[d] = NoTokens /\ Offers(file, n) /\ config.auth # "service"
       \/ d = Doc(t) /\ n \notin InUse
  /\ \A n \in Tokens : Offers(file', n) =>
       Offers(file, n) \/ (th[t].pc = "save" /\ th[t].held.access = n)
  /\ \A d \in Docs : mem'[d] = NoTokens /\ config.auth # "service" =>
       mem[d] = NoTokens \/ file' = NoTokens

LockKept(t) ==
  \A d \in Docs : authLock'[d] # authLock[d] =>
    d = Doc(t) /\ authLock[d] \in {NoThread, t} /\ authLock'[d] \in {NoThread, t}

(* No token that another thread is about to save is used. *)
NotAnothers(t, n) == \A s \in Threads \ {t} : th[s].pc = "save" => n # th[s].held.access

(* A token about to be saved is new. *)
SavesNew(t) ==
  th'[t].pc = "save" =>
    /\ th'[t].held \in TokenRecord /\ th'[t].held.access \notin InUse
    /\ th'[t].bearer = th[t].bearer /\ th'[t].refused = th[t].refused
    /\ file' = Torn

LEMMA TokenStep ==
  ASSUME Shaped, TokenInv, NEW t \in Threads, Moved(t), Typed', ServiceUnmarked',
         Offered(t), LockKept(t), SavesNew(t), Holds(t)', Unsent(t)',
         NotAnothers(t, th'[t].bearer), NotAnothers(t, th'[t].refused),
         th'[t].retried \in BOOLEAN,
         \/ Gone(t)'
         \/ /\ th[t].pc # "expire"
            /\ th'[t].retried = th[t].retried /\ th'[t].refused = th[t].refused
  PROVE  TokenInv'
<1> USE DEF Typed
<1>1. ASSUME NEW u \in Threads, u # t
      PROVE  th'[u] = th[u] /\ Doc(u)' = Doc(u) /\ Doc(u) \in Docs /\ u # NoThread
  BY <1>1, Home DEF Moved
<1>2. config' = config /\ Threads' = Threads /\ Doc(t)' = Doc(t) /\ Doc(t) \in Docs
  BY Home DEF Moved
<1>3. ASSUME NEW u \in Threads, u # t PROVE (th[u].retried \in BOOLEAN /\ Holds(u) /\ Unsent(u))'
  <2>1. th[u].retried \in BOOLEAN /\ Holds(u) /\ Unsent(u)
    BY DEF TokenInv
  <2>2. /\ th[u].pc \in UnderLock => authLock'[Doc(u)] = u
        /\ authLock'[Doc(u)] = u => authLock[Doc(u)] = u
    BY <1>1, <1>3, <2>1 DEF Holds, LockKept
  <2> QED
    BY <1>1, <1>2, <1>3, <2>1, <2>2 DEF Holds, Unsent
<1>4. ASSUME NEW u \in Threads,
             th'[u].retried = th[u].retried, th'[u].refused = th[u].refused,
             th[u].pc # "expire" \/ th'[u].pc = "expire"
      PROVE  Gone(u)'
  <2> SUFFICES ASSUME th[u].retried PROVE Gone(u)'
    BY <1>4 DEF Gone
  <2>1. Gone(u) /\ Doc(u) \in Docs /\ Doc(u)' = Doc(u)
    BY <1>1, <1>2 DEF TokenInv
  <2> SUFFICES ASSUME th'[u].pc # "expire"
               PROVE  /\ ~Offers(mem'[Doc(u)], th[u].refused)
                      /\ config.auth # "service" /\ mem'[Doc(u)] = NoTokens =>
                           ~Offers(file', th[u].refused)
    BY <1>2, <1>4, <2>1 DEF Gone, Offers
  <2>2. /\ ~Offers(mem[Doc(u)], th[u].refused)
        /\ config.auth # "service" /\ mem[Doc(u)] = NoTokens => ~Offers(file, th[u].refused)
    BY <1>4, <2>1 DEF Gone
  <2>3. th[u].refused \in InUse
    BY InUseIs
  <2>4. ~Offers(mem'[Doc(u)], th[u].refused)
    <3>1. Offers(mem'[Doc(u)], th[u].refused) => th[u].refused \in Tokens
      BY DEF Offers, TokenRecord
    <3> QED
      BY <2>1, <2>2, <2>3, <3>1 DEF Offered
  <2>5. ASSUME config.auth # "service", mem'[Doc(u)] = NoTokens
        PROVE  ~Offers(file', th[u].refused)
    <3>1. CASE file' = NoTokens
      BY <3>1, TokenAssumption DEF Offers
    <3>2. CASE file' # NoTokens
      <4>1. mem[Doc(u)] = NoTokens
        BY <2>1, <2>5, <3>2 DEF Offered
      <4>2. Offers(file', th[u].refused) => th[u].refused \in Tokens
        BY DEF Offers, TokenRecord
      <4>3. th[t].pc = "save" => th[t].held.access # th[u].refused
        BY DEF TokenInv, Fresh
      <4> QED
        BY <2>2, <2>5, <4>1, <4>2, <4>3 DEF Offered
    <3> QED
      BY <3>1, <3>2
  <2> QED
    BY <2>4, <2>5
<1>5. \A u \in Threads : Gone(u)'
  <2>1. ASSUME NEW u \in Threads, u # t PROVE Gone(u)'
    BY <1>1, <1>4, <2>1
  <2>2. Gone(t)'
    BY <1>4
  <2> QED
    BY <2>1, <2>2
<1>6. ASSUME NEW s \in Threads, s # t PROVE Fresh(s)'
  <2> SUFFICES ASSUME th[s].pc = "save" PROVE Fresh(s)'
    BY <1>1, <1>6 DEF Fresh
  <2> DEFINE n == th[s].held.access
  <2>1. Fresh(s) /\ th[s].held \in TokenRecord /\ n \in Tokens /\ n \in InUse
    <3>1. Fresh(s) /\ th[s].held \in TokenRecord
      BY DEF TokenInv, Holds
    <3> QED
      BY <3>1, InUseIs DEF TokenRecord
  <2>2. \A u \in Threads : th'[u].bearer # n /\ th'[u].refused # n
    BY <1>1, <1>6, <2>1 DEF Fresh, NotAnothers
  <2>3. \A d \in Docs \ {Doc(s)} : ~Offers(mem'[d], n)
    BY <2>1 DEF Fresh, Offered
  <2>4. ~Offers(file', n)
    BY <1>6, <2>1 DEF Fresh, Offered
  <2>5. \A u \in Threads \ {s} : th'[u].pc = "save" => th'[u].held.access # n
    BY <1>1, <2>1 DEF Fresh, SavesNew
  <2> QED
    BY <1>1, <1>2, <1>6, <2>2, <2>3, <2>4, <2>5 DEF Fresh, Offers
<1>7. Fresh(t)'
  <2> SUFFICES ASSUME th'[t].pc = "save" PROVE Fresh(t)'
    BY DEF Fresh
  <2> DEFINE n == th'[t].held.access
  <2>1. /\ th'[t].held \in TokenRecord /\ n \in Tokens /\ n \notin InUse /\ file' = Torn
        /\ th'[t].bearer = th[t].bearer /\ th'[t].refused = th[t].refused
    BY DEF SavesNew, TokenRecord
  <2>2. ASSUME NEW u \in Threads PROVE th'[u].bearer # n /\ th'[u].refused # n
    <3>1. th[u].bearer \in InUse /\ th[u].refused \in InUse
      BY InUseIs
    <3>2. CASE u # t
      BY <1>1, <2>1, <3>1, <3>2
    <3>3. CASE u = t
      BY <2>1, <3>1, <3>3
    <3> QED
      BY <3>2, <3>3
  <2>3. ASSUME NEW d \in Docs \ {Doc(t)} PROVE ~Offers(mem'[d], n)
    <3>1. Offers(mem'[d], n) => Offers(mem[d], n)
      BY <2>1 DEF Offered
    <3>2. ~Offers(mem[d], n)
      BY <2>1, InUseIs DEF Offers
    <3> QED
      BY <3>1, <3>2
  <2>4. ~Offers(file', n)
    BY <2>1, TokenAssumption DEF Offers
  <2>5. ASSUME NEW u \in Threads \ {t}, th'[u].pc = "save" PROVE th'[u].held.access # n
    <3>1. th[u].pc = "save" /\ th'[u] = th[u]
      BY <1>1, <2>5
    <3>2. th[u].held.access \in InUse
      BY <3>1, InUseIs DEF TokenInv, Holds
    <3> QED
      BY <2>1, <3>1, <3>2
  <2> QED
    BY <1>2, <2>2, <2>3, <2>4, <2>5 DEF Fresh, Offers
<1> QED
  BY <1>2, <1>3, <1>5, <1>6, <1>7 DEF TokenInv

-----------------------------------------------------------------------------
(* The parts that steps are made of.                                       *)

LEMMA Others ==
  ASSUME Shaped, TokenInv, NEW t \in Threads
  PROVE  /\ NotAnothers(t, th[t].bearer)
         /\ NotAnothers(t, th[t].refused)
         /\ NotAnothers(t, NoTokens)
<1>1. \A s \in Threads : Fresh(s) /\ Holds(s)
  BY DEF TokenInv
<1> QED
  BY <1>1, TokenAssumption DEF NotAnothers, Fresh, Holds, TokenRecord

LEMMA SameTokens ==
  ASSUME TokenInv, NEW t \in Threads, UNCHANGED <<mem, file, config>>
  PROVE  Offered(t) /\ ServiceUnmarked'
BY DEF TokenInv, Offered, ServiceUnmarked

LEMMA Locking ==
  ASSUME Shaped, Typed, NEW t \in Threads, UNCHANGED config,
         \/ Release(t)
         \/ Take(t) /\ LockFree(t)
         \/ UNCHANGED authLock
  PROVE  /\ authLock' \in [Docs -> (Threads \cup {NoThread})']
         /\ LockKept(t)
         /\ Take(t) => authLock'[Doc(t)] = t
         /\ Release(t) => authLock'[Doc(t)] # t
<1>1. Doc(t) \in Docs /\ Threads' = Threads /\ t # NoThread
  BY Home DEF Threads
<1> QED
  BY <1>1 DEF Typed, Release, Take, LockFree, LockKept

(* A step of the authorisation says nothing of the citation, and leaves    *)
(* the request what it is.                                                 *)
Unasked(t) ==
  /\ th'[t].reasons = th[t].reasons /\ th'[t].op = th[t].op
  /\ th'[t].err \in {th[t].err} \cup Errors
  /\ th'[t].pc \notin {"idle", "probe", "store", "told"}

Authorising(t) ==
  Unasked(t) /\ th'[t].post = th[t].post
    /\ th'[t].pc \in UnderLock \cup Marking \cup {"bearer", "send", "failed"}

(* HandOver and FailAuth, whatever became of the tokens. *)
LEMMA HandOverStep ==
  ASSUME Shaped, TokenInv, NEW t \in Threads, NEW n, HandOver(t, n), UNCHANGED config,
         (mem \in [Docs -> TokenRecord \cup {NoTokens}])',
         (file \in TokenRecord \cup {NoTokens, Torn})', ServiceUnmarked',
         Offered(t), NotAnothers(t, n), th[t].pc # "expire",
         th[t].retried => n # th[t].refused
  PROVE  TokenInv' /\ Moved(t) /\ Authorising(t)
<1> DEFINE r == [th[t] EXCEPT !.pc = "send", !.bearer = n, !.held = NoTokens, !.second = FALSE]
<1>1. Shape(r) /\ r.pc = "send" /\ r.bearer = n /\ r.held = NoTokens /\ r.refused = th[t].refused
      /\ r.retried = th[t].retried /\ r.reasons = th[t].reasons /\ r.err = th[t].err
      /\ r.op = th[t].op /\ r.post = th[t].post
  <2>1. Shape(th[t])
    BY DEF Shaped
  <2>2. Shape(r)
    BY <2>1 DEF Shape, Fields
  <2> QED
    BY <2>1, <2>2 DEF Shape, Fields
<1>2. Moved(t) /\ th'[t] = r
  BY <1>1, StepMoves DEF HandOver
<1>3. Typed' /\ LockKept(t) /\ authLock'[Doc(t)] # t /\ Doc(t)' = Doc(t)
  BY <1>2, Locking DEF HandOver, Typed, TokenInv, Moved
<1>4. Holds(t)' /\ Unsent(t)' /\ SavesNew(t)
  BY <1>1, <1>2, <1>3 DEF Holds, Unsent, SavesNew, UnderLock, Marking
<1>5. th[t].retried \in BOOLEAN
  BY DEF TokenInv
<1>6. Authorising(t)
  BY <1>1, <1>2 DEF Authorising, Unasked
<1> QED
  BY <1>1, <1>2, <1>3, <1>4, <1>5, <1>6, Others, TokenStep

LEMMA FailAuthStep ==
  ASSUME Shaped, TokenInv, NEW t \in Threads, NEW err \in Errors, FailAuth(t, err), UNCHANGED config,
         (mem \in [Docs -> TokenRecord \cup {NoTokens}])',
         (file \in TokenRecord \cup {NoTokens, Torn})', ServiceUnmarked',
         Offered(t), th[t].pc # "expire"
  PROVE  TokenInv' /\ Moved(t) /\ Authorising(t)
<1> DEFINE r == [th[t] EXCEPT !.pc = "failed", !.err = err, !.held = NoTokens, !.second = FALSE]
<1>1. Shape(r) /\ r.pc = "failed" /\ r.bearer = th[t].bearer /\ r.held = NoTokens
      /\ r.refused = th[t].refused /\ r.retried = th[t].retried
      /\ r.reasons = th[t].reasons /\ r.err = err /\ r.op = th[t].op /\ r.post = th[t].post
  <2>1. Shape(th[t])
    BY DEF Shaped
  <2>2. Shape(r)
    BY <2>1 DEF Shape, Fields
  <2> QED
    BY <2>1, <2>2 DEF Shape, Fields
<1>2. Moved(t) /\ th'[t] = r
  BY <1>1, StepMoves DEF FailAuth
<1>3. Typed' /\ LockKept(t) /\ authLock'[Doc(t)] # t /\ Doc(t)' = Doc(t)
  BY <1>2, Locking DEF FailAuth, Typed, TokenInv, Moved
<1>4. Holds(t)' /\ Unsent(t)' /\ SavesNew(t)
  BY <1>1, <1>2, <1>3 DEF Holds, Unsent, SavesNew, UnderLock, Marking
<1>5. th[t].retried \in BOOLEAN
  BY DEF TokenInv
<1>6. Authorising(t)
  BY <1>1, <1>2 DEF Authorising, Unasked
<1> QED
  BY <1>1, <1>2, <1>3, <1>4, <1>5, <1>6, Others, TokenStep

(* Every other step of the authorisation: the thread knows the request it  *)
(* is about, and has perhaps other tokens in hand.                         *)
Kept(r, old) ==
  /\ Shape(r)
  /\ r.bearer = old.bearer /\ r.refused = old.refused /\ r.retried = old.retried
  /\ r.reasons = old.reasons /\ r.err = old.err /\ r.op = old.op /\ r.post = old.post

LEMMA OnTheWay ==
  ASSUME Shaped, TokenInv, NEW t \in Threads, NEW r, Kept(r, th[t]), Step(t, r),
         r.pc \in UnderLock \cup Marking \cup {"bearer"},
         Typed', ServiceUnmarked', UNCHANGED config, Offered(t), LockKept(t),
         r.pc \in UnderLock => authLock'[Doc(t)] = t,
         authLock'[Doc(t)] = t => r.pc \in UnderLock \/ (r.pc = "bearer" /\ r.second),
         r.held \in TokenRecord \cup {NoTokens},
         r.pc \in {"refresh", "save"} \cup Marking => r.held \in TokenRecord,
         r.pc \in Marking => r.held.marked,
         r.pc \in {"refresh", "invalidate", "login", "save"} \cup Marking =>
           config.auth # "service",
         r.pc \in {"credentials", "handover"} => config.auth = "service",
         r.pc = "save" => r.held.access \notin InUse /\ file' = Torn,
         th[t].pc = "expire" =>
           /\ ~Offers(mem'[Doc(t)], th[t].refused)
           /\ config.auth # "service" /\ mem'[Doc(t)] = NoTokens => ~Offers(file', th[t].refused)
  PROVE  TokenInv' /\ Moved(t) /\ Authorising(t)
<1>1. Moved(t) /\ th'[t] = r
  BY StepMoves DEF Kept
<1>2. Doc(t)' = Doc(t) /\ config' = config
  BY <1>1 DEF Moved
<1>3. Authorising(t)
  BY <1>1 DEF Authorising, Unasked, UnderLock, Marking, Kept
<1>4. Holds(t)'
  BY <1>1, <1>2 DEF Holds
<1>5. Unsent(t)' /\ SavesNew(t)
  BY <1>1 DEF Unsent, SavesNew, UnderLock, Marking, Kept
<1>6. th[t].retried \in BOOLEAN /\ Gone(t)
  BY DEF TokenInv
<1>7. ASSUME th[t].pc = "expire" PROVE Gone(t)'
  <2>1. th'[t].refused = th[t].refused /\ th'[t].retried = th[t].retried
    BY <1>1 DEF Kept
  <2>2. th[t].retried => th[t].refused # NoTokens
    BY <1>6 DEF Gone
  <2>3. /\ ~Offers(mem'[Doc(t)], th[t].refused)
        /\ config.auth # "service" /\ mem'[Doc(t)] = NoTokens => ~Offers(file', th[t].refused)
    BY <1>7
  <2> QED
    BY <1>2, <2>1, <2>2, <2>3 DEF Gone, Offers
<1>8. th'[t].bearer = th[t].bearer /\ th'[t].refused = th[t].refused /\ th'[t].retried = th[t].retried
  BY <1>1 DEF Kept
<1> QED
  BY <1>1, <1>3, <1>4, <1>5, <1>6, <1>7, <1>8, Others, TokenStep

-----------------------------------------------------------------------------
(* The authorisation, handler by handler.                                  *)

LEMMA StaticBearerStep ==
  ASSUME Shaped, TokenInv, NEW t \in Threads, StaticBearer(t), UNCHANGED config
  PROVE  TokenInv' /\ Moved(t) /\ Authorising(t)
<1>1. HandOver(t, NoTokens) /\ UNCHANGED <<mem, file>> /\ th[t].pc # "expire"
  BY DEF StaticBearer, At
<1>2. th[t].retried => NoTokens # th[t].refused
  BY DEF TokenInv, Gone
<1>3. /\ (mem \in [Docs -> TokenRecord \cup {NoTokens}])'
      /\ (file \in TokenRecord \cup {NoTokens, Torn})'
  BY <1>1 DEF TokenInv, Typed
<1> QED
  BY <1>1, <1>2, <1>3, SameTokens, Others, HandOverStep

LEMMA GetBearerStep ==
  ASSUME Shaped, TokenInv, NEW t \in Threads, GetBearer(t), UNCHANGED config
  PROVE  TokenInv' /\ Moved(t) /\ Authorising(t)
<1> DEFINE r == Loaded(Doc(t))
<1>1. /\ th[t].pc = "bearer" /\ config.auth = "oauth" /\ LockFree(t) /\ file' = file
      /\ mem' = [mem EXCEPT ![Doc(t)] = r] /\ Doc(t) \in Docs
  BY Home DEF GetBearer, At
<1>2. r \in TokenRecord \cup {NoTokens}
  BY <1>1 DEF TokenInv, Typed, Loaded
<1>3. /\ (mem \in [Docs -> TokenRecord \cup {NoTokens}])'
      /\ (file \in TokenRecord \cup {NoTokens, Torn})'
  BY <1>1, <1>2 DEF TokenInv, Typed
<1>4. ServiceUnmarked'
  BY <1>1 DEF ServiceUnmarked
<1>5. Offered(t)
  BY <1>1 DEF Offered, Loaded, TokenInv, Typed
<1>6. CASE r # NoTokens /\ ~Expired(r)
  <2>1. HandOver(t, r.access) /\ ~r.marked /\ r \in TokenRecord
    BY <1>2, <1>6 DEF GetBearer, Expired
  <2>2. Offers(mem[Doc(t)], r.access) \/ (mem[Doc(t)] = NoTokens /\ Offers(file, r.access))
    BY <2>1 DEF Loaded, Offers
  <2>3. th[t].retried => r.access # th[t].refused
    BY <1>1, <2>2 DEF TokenInv, Gone
  <2>4. NotAnothers(t, r.access)
    <3> SUFFICES ASSUME NEW s \in Threads \ {t}, th[s].pc = "save"
                 PROVE  r.access # th[s].held.access
      BY DEF NotAnothers
    <3>1. Fresh(s) /\ Doc(s) # Doc(t)
      BY <1>1, Home DEF TokenInv, Holds, UnderLock, LockFree
    <3> QED
      BY <1>1, <2>2, <3>1 DEF Fresh
  <2> QED
    BY <1>1, <1>3, <1>4, <1>5, <2>1, <2>3, <2>4, HandOverStep
<1>7. CASE ~(r # NoTokens /\ ~Expired(r))
  <2>1. Take(t) /\ Typed' /\ LockKept(t) /\ authLock'[Doc(t)] = t
    <3>1. Take(t)
      BY <1>7 DEF GetBearer
    <3> QED
      BY <1>1, <1>3, <3>1, Locking DEF TokenInv, Typed
  <2>2. Shape(th[t]) /\ th[t].held \in TokenRecord \cup {NoTokens}
    BY DEF Shaped, TokenInv, Holds
  <2>3. CASE r # NoTokens /\ r.refresh # NoTokens
    <3> DEFINE new == [th[t] EXCEPT !.pc = "refresh", !.held = r]
    <3>1. Step(t, new)
      BY <1>7, <2>3 DEF GetBearer
    <3>2. Kept(new, th[t]) /\ new.pc = "refresh" /\ new.held = r /\ r \in TokenRecord
      BY <1>2, <2>2, <2>3 DEF Shape, Kept, Fields
    <3> HIDE DEF new, r
    <3>3. new.pc \in UnderLock \cup Marking \cup {"bearer"} /\ new.pc \notin Marking
      BY <3>2 DEF UnderLock, Marking
    <3>4. config.auth # "service" /\ th[t].pc # "expire" /\ UNCHANGED config
      BY <1>1
    <3> QED
      BY <1>4, <1>5, <2>1, <3>1, <3>2, <3>3, <3>4, OnTheWay
  <2>4. CASE ~(r # NoTokens /\ r.refresh # NoTokens)
    <3> DEFINE new == [th[t] EXCEPT !.pc = "login"]
    <3>1. Step(t, new)
      BY <1>7, <2>4 DEF GetBearer, Goto
    <3>2. Kept(new, th[t]) /\ new.pc = "login" /\ new.held = th[t].held
      BY <2>2 DEF Shape, Kept, Fields
    <3> HIDE DEF new
    <3>3. new.pc \in UnderLock \cup Marking \cup {"bearer"} /\ new.pc \notin Marking
      BY <3>2 DEF UnderLock, Marking
    <3>4. config.auth # "service" /\ th[t].pc # "expire" /\ UNCHANGED config
      BY <1>1
    <3> QED
      BY <1>4, <1>5, <2>1, <2>2, <3>1, <3>2, <3>3, <3>4, OnTheWay
  <2> QED
    BY <2>3, <2>4
<1> QED
  BY <1>6, <1>7

(* New tokens, from the server, on their way to the file. *)
LEMMA NewTokensStep ==
  ASSUME Shaped, TokenInv, NEW t \in Threads, th[t].pc \in {"refresh", "login"},
         NEW r \in TokenRecord, r.access \notin InUse, ~r.marked,
         OpenFile(Doc(t), r), Step(t, [th[t] EXCEPT !.pc = "save", !.held = r]),
         UNCHANGED <<authLock, config>>
  PROVE  TokenInv' /\ Moved(t) /\ Authorising(t)
<1> DEFINE new == [th[t] EXCEPT !.pc = "save", !.held = r]
<1>1. Kept(new, th[t]) /\ new.pc = "save" /\ new.held = r
  BY DEF Shaped, Shape, Kept, Fields
<1>2. mem' = [mem EXCEPT ![Doc(t)] = r] /\ file' = Torn /\ Doc(t) \in Docs
  BY Home DEF OpenFile
<1>3. Typed' /\ LockKept(t)
  BY <1>2, Locking DEF TokenInv, Typed
<1>4. ServiceUnmarked'
  BY <1>2 DEF TokenInv, Typed, ServiceUnmarked
<1>5. Offered(t)
  BY <1>2, TokenAssumption DEF Offered, Offers, TokenInv, Typed
<1>6. authLock'[Doc(t)] = t /\ config.auth # "service"
  BY DEF TokenInv, Holds, UnderLock
<1>7. new.pc \in UnderLock /\ new.pc \notin Marking
  BY <1>1 DEF UnderLock, Marking
<1>8. Step(t, new)
  OBVIOUS
<1> HIDE DEF new
<1> QED
  BY <1>1, <1>2, <1>3, <1>4, <1>5, <1>6, <1>7, <1>8, OnTheWay

LEMMA RefreshAcceptedStep ==
  ASSUME Shaped, TokenInv, NEW t \in Threads, RefreshAccepted(t), UNCHANGED config
  PROVE  TokenInv' /\ Moved(t) /\ Authorising(t)
<1>1. PICK rotates \in BOOLEAN :
        LET old == th[t].held.refresh
            r == [access |-> NewToken, refresh |-> IF rotates THEN NewToken ELSE old,
                  marked |-> FALSE]
        IN /\ OpenFile(Doc(t), r)
           /\ Step(t, [th[t] EXCEPT !.pc = "save", !.held = r])
  BY DEF RefreshAccepted
<1> DEFINE r == [access |-> NewToken,
                 refresh |-> IF rotates THEN NewToken ELSE th[t].held.refresh,
                 marked |-> FALSE]
<1>2. th[t].pc = "refresh" /\ th[t].held \in TokenRecord /\ NameLeft /\ UNCHANGED authLock
  BY DEF RefreshAccepted, At, TokenInv, Holds
<1>3. r \in TokenRecord /\ r.access \notin InUse /\ ~r.marked
  BY <1>2, NewTokenIsNew DEF TokenRecord
<1>4. OpenFile(Doc(t), r) /\ Step(t, [th[t] EXCEPT !.pc = "save", !.held = r])
  BY <1>1
<1> HIDE DEF r
<1> QED
  BY <1>2, <1>3, <1>4, NewTokensStep

LEMMA LoginStep ==
  ASSUME Shaped, TokenInv, NEW t \in Threads, Login(t), UNCHANGED config
  PROVE  TokenInv' /\ Moved(t) /\ Authorising(t)
<1>1. PICK offline \in BOOLEAN :
        LET r == [access |-> NewToken, refresh |-> IF offline THEN NewToken ELSE NoTokens,
                  marked |-> FALSE]
        IN /\ OpenFile(Doc(t), r)
           /\ Step(t, [th[t] EXCEPT !.pc = "save", !.held = r])
  BY DEF Login
<1> DEFINE r == [access |-> NewToken, refresh |-> IF offline THEN NewToken ELSE NoTokens,
                 marked |-> FALSE]
<1>2. th[t].pc = "login" /\ NameLeft /\ UNCHANGED authLock
  BY DEF Login, At
<1>3. r \in TokenRecord /\ r.access \notin InUse /\ ~r.marked
  BY <1>2, NewTokenIsNew DEF TokenRecord
<1>4. OpenFile(Doc(t), r) /\ Step(t, [th[t] EXCEPT !.pc = "save", !.held = r])
  BY <1>1
<1> HIDE DEF r
<1> QED
  BY <1>2, <1>3, <1>4, NewTokensStep

(* Tokens are dropped, in memory and on file. *)
LEMMA Cleared ==
  ASSUME Shaped, TokenInv, NEW t \in Threads, Clear(Doc(t)), UNCHANGED config
  PROVE  /\ (mem \in [Docs -> TokenRecord \cup {NoTokens}])'
         /\ (file \in TokenRecord \cup {NoTokens, Torn})'
         /\ ServiceUnmarked' /\ Offered(t)
         /\ mem'[Doc(t)] = NoTokens /\ file' = NoTokens
<1>1. mem' = [mem EXCEPT ![Doc(t)] = NoTokens] /\ file' = NoTokens /\ Doc(t) \in Docs
  BY Home DEF Clear
<1>2. mem \in [Docs -> TokenRecord \cup {NoTokens}] /\ ServiceUnmarked
  BY DEF TokenInv, Typed
<1>3. Offered(t)
  BY <1>1, <1>2, TokenAssumption DEF Offered, Offers
<1>4. ServiceUnmarked'
  BY <1>1, <1>2, TokenAssumption DEF ServiceUnmarked
<1> QED
  BY <1>1, <1>2, <1>3, <1>4

LEMMA RefreshRefusedStep ==
  ASSUME Shaped, TokenInv, NEW t \in Threads, RefreshRefused(t), UNCHANGED config
  PROVE  TokenInv' /\ Moved(t) /\ Authorising(t)
<1>1. th[t].pc = "refresh" /\ Clear(Doc(t)) /\ authLock[Doc(t)] = t /\ config.auth # "service"
  BY DEF RefreshRefused, At, TokenInv, Holds, UnderLock
<1>2. CASE th[t].second
  <2>1. FailAuth(t, "fault") /\ "fault" \in Errors
    BY <1>2 DEF RefreshRefused, Errors
  <2> QED
    BY <1>1, <2>1, Cleared, FailAuthStep
<1>3. CASE ~th[t].second
  <2> DEFINE new == [th[t] EXCEPT !.pc = "invalidate", !.held = NoTokens]
  <2>1. Step(t, new) /\ UNCHANGED authLock
    BY <1>3 DEF RefreshRefused
  <2>2. Kept(new, th[t]) /\ new.pc = "invalidate" /\ new.held = NoTokens
    BY DEF Shaped, Shape, Kept, Fields
  <2> HIDE DEF new
  <2>3. new.pc \in UnderLock /\ new.pc \notin Marking
    BY <2>2 DEF UnderLock, Marking
  <2>4. Typed' /\ LockKept(t)
    BY <1>1, <2>1, Cleared, Locking DEF TokenInv, Typed
  <2> QED
    BY <1>1, <2>1, <2>2, <2>3, <2>4, Cleared, OnTheWay
<1> QED
  BY <1>2, <1>3

LEMMA AuthFailures ==
  ASSUME Shaped, TokenInv, NEW t \in Threads, UNCHANGED config,
         RefreshBroken(t) \/ LoginFails(t) \/ CredentialsFail(t)
  PROVE  TokenInv' /\ Moved(t) /\ Authorising(t)
<1>1. PICK err \in {"fault", "raised"} : FailAuth(t, err)
  BY DEF RefreshBroken, LoginFails, CredentialsFail
<1>2. UNCHANGED <<mem, file>> /\ th[t].pc # "expire" /\ err \in Errors
  BY DEF RefreshBroken, LoginFails, CredentialsFail, At, Errors
<1>3. /\ (mem \in [Docs -> TokenRecord \cup {NoTokens}])'
      /\ (file \in TokenRecord \cup {NoTokens, Torn})'
  BY <1>2 DEF TokenInv, Typed
<1> QED
  BY <1>1, <1>2, <1>3, SameTokens, FailAuthStep

LEMMA InvalidateStep ==
  ASSUME Shaped, TokenInv, NEW t \in Threads, Invalidate(t), UNCHANGED config
  PROVE  TokenInv' /\ Moved(t) /\ Authorising(t)
<1> DEFINE new == [th[t] EXCEPT !.pc = "bearer", !.second = TRUE]
<1>1. th[t].pc = "invalidate" /\ Clear(Doc(t)) /\ Step(t, new) /\ UNCHANGED authLock
  BY DEF Invalidate, At
<1>2. Kept(new, th[t]) /\ new.pc = "bearer" /\ new.held = th[t].held /\ new.second
  BY DEF Shaped, Shape, Kept, Fields
<1> HIDE DEF new
<1>3. new.pc \notin UnderLock \cup Marking
  BY <1>2 DEF UnderLock, Marking
<1>4. Typed' /\ LockKept(t) /\ th[t].held \in TokenRecord \cup {NoTokens}
  BY <1>1, Cleared, Locking DEF TokenInv, Typed, Holds
<1> QED
  BY <1>1, <1>2, <1>3, <1>4, Cleared, OnTheWay

(* The tokens saved are new to every document; now they are on file, or    *)
(* the file is gone.                                                       *)
LEMMA SaveTokensStep ==
  ASSUME Shaped, TokenInv, NEW t \in Threads, SaveTokens(t), UNCHANGED config
  PROVE  TokenInv' /\ Moved(t) /\ Authorising(t)
<1> DEFINE n == th[t].held.access
<1>1. /\ th[t].pc = "save" /\ UNCHANGED mem
      /\ file' = IF file = NoTokens THEN NoTokens ELSE th[t].held
  BY DEF SaveTokens, WriteFile, Unlinked, At
<1>2. Holds(t) /\ Fresh(t) /\ Typed /\ ServiceUnmarked /\ \A s \in Threads : Fresh(s)
  BY DEF TokenInv
<1>3. /\ (mem \in [Docs -> TokenRecord \cup {NoTokens}])'
      /\ (file \in TokenRecord \cup {NoTokens, Torn})' /\ ServiceUnmarked'
  BY <1>1, <1>2 DEF Typed, Holds, ServiceUnmarked
<1>4. Offered(t)
  BY <1>1, TokenAssumption DEF Offered, Offers
<1>5. CASE Unlinked
  <2>1. FailAuth(t, "raised") /\ "raised" \in Errors
    BY <1>5 DEF SaveTokens, Errors
  <2> QED
    BY <1>1, <1>3, <1>4, <2>1, FailAuthStep
<1>6. CASE ~Unlinked
  <2>1. HandOver(t, n)
    BY <1>6 DEF SaveTokens
  <2>2. NotAnothers(t, n) /\ n # th[t].refused
    BY <1>1, <1>2 DEF NotAnothers, Fresh
  <2> QED
    BY <1>1, <1>3, <1>4, <2>1, <2>2, HandOverStep
<1> QED
  BY <1>5, <1>6

LEMMA ServiceBearerStep ==
  ASSUME Shaped, TokenInv, NEW t \in Threads, ServiceBearer(t), UNCHANGED config
  PROVE  TokenInv' /\ Moved(t) /\ Authorising(t)
<1>1. PICK where \in {"handover", "credentials"} : Goto(t, where)
  BY DEF ServiceBearer
<1> DEFINE new == [th[t] EXCEPT !.pc = where]
<1>2. /\ th[t].pc = "bearer" /\ config.auth = "service" /\ LockFree(t) /\ Take(t)
      /\ UNCHANGED <<mem, file>> /\ Step(t, new)
  BY <1>1 DEF ServiceBearer, At, Goto
<1>3. Kept(new, th[t]) /\ new.pc = where /\ new.held = th[t].held
  BY DEF Shaped, Shape, Kept, Fields
<1> HIDE DEF new
<1>4. /\ new.pc \in UnderLock /\ new.pc \notin Marking
      /\ new.pc \notin {"refresh", "invalidate", "login", "save"}
  BY <1>3 DEF UnderLock, Marking
<1>5. Typed' /\ LockKept(t) /\ authLock'[Doc(t)] = t /\ th[t].held \in TokenRecord \cup {NoTokens}
  BY <1>2, Locking DEF TokenInv, Typed, Holds
<1> QED
  BY <1>2, <1>3, <1>4, <1>5, SameTokens, OnTheWay

LEMMA CredentialsStep ==
  ASSUME Shaped, TokenInv, NEW t \in Threads, Credentials(t), UNCHANGED config
  PROVE  TokenInv' /\ Moved(t) /\ Authorising(t)
<1> DEFINE r == [access |-> NewToken, refresh |-> NoTokens, marked |-> FALSE]
           new == [th[t] EXCEPT !.pc = "handover"]
<1>1. /\ th[t].pc = "credentials" /\ NameLeft /\ UNCHANGED <<file, authLock>> /\ Doc(t) \in Docs
      /\ mem' = [mem EXCEPT ![Doc(t)] = r] /\ Step(t, new)
  BY Home DEF Credentials, At, Goto
<1>2. config.auth = "service" /\ authLock[Doc(t)] = t /\ th[t].held \in TokenRecord \cup {NoTokens}
  BY <1>1 DEF TokenInv, Holds, UnderLock
<1>3. Kept(new, th[t]) /\ new.pc = "handover" /\ new.held = th[t].held
  BY DEF Shaped, Shape, Kept, Fields
<1>4. r \in TokenRecord /\ r.access \notin InUse /\ ~r.marked
  BY <1>1, NewTokenIsNew DEF TokenRecord
<1> HIDE DEF new, r
<1>5. Typed' /\ LockKept(t)
  BY <1>1, <1>4, Locking DEF TokenInv, Typed
<1>6. ServiceUnmarked'
  BY <1>1, <1>4 DEF TokenInv, Typed, ServiceUnmarked
<1>7. Offered(t)
  BY <1>1, <1>2, <1>4 DEF TokenInv, Typed, Offered, Offers
<1>8. /\ new.pc \in UnderLock /\ new.pc \notin Marking
      /\ new.pc \notin {"refresh", "invalidate", "login", "save"}
  BY <1>3 DEF UnderLock, Marking
<1> QED
  BY <1>1, <1>2, <1>3, <1>5, <1>6, <1>7, <1>8, OnTheWay

LEMMA ServiceHandOverStep ==
  ASSUME Shaped, TokenInv, NEW t \in Threads, ServiceHandOver(t), UNCHANGED config
  PROVE  TokenInv' /\ Moved(t) /\ Authorising(t)
<1> DEFINE r == mem[Doc(t)]
<1>1. th[t].pc = "handover" /\ UNCHANGED <<mem, file>> /\ Doc(t) \in Docs
  BY Home DEF ServiceHandOver, At
<1>2. config.auth = "service" /\ authLock[Doc(t)] = t
  BY <1>1 DEF TokenInv, Holds, UnderLock
<1>3. /\ (mem \in [Docs -> TokenRecord \cup {NoTokens}])'
      /\ (file \in TokenRecord \cup {NoTokens, Torn})'
  BY <1>1 DEF TokenInv, Typed
<1>4. CASE r = NoTokens
  <2>1. FailAuth(t, "raised") /\ "raised" \in Errors
    BY <1>4 DEF ServiceHandOver, Errors
  <2> QED
    BY <1>1, <1>3, <2>1, SameTokens, FailAuthStep
<1>5. CASE r # NoTokens
  <2>1. HandOver(t, r.access)
    BY <1>5 DEF ServiceHandOver
  <2>2. Offers(r, r.access)
    BY <1>1, <1>2, <1>5 DEF TokenInv, Typed, ServiceUnmarked, Offers
  <2>3. NotAnothers(t, r.access)
    <3>1. \A s \in Threads : th[s].pc # "save"
      BY <1>2 DEF TokenInv, Holds
    <3> QED
      BY <3>1 DEF NotAnothers
  <2>4. th[t].retried => r.access # th[t].refused
    BY <1>1, <2>2 DEF TokenInv, Gone
  <2> QED
    BY <1>1, <1>3, <2>1, <2>3, <2>4, SameTokens, HandOverStep
<1> QED
  BY <1>4, <1>5

(* A token that was refused is dropped, or marked in memory: whatever this *)
(* document takes next, it is not that one.                                *)
LEMMA ExpireStep ==
  ASSUME Shaped, TokenInv, NEW t \in Threads, Expire(t), UNCHANGED config
  PROVE  TokenInv' /\ Moved(t) /\ Authorising(t)
<1> DEFINE r == Loaded(Doc(t))
           back == [th[t] EXCEPT !.pc = "bearer"]
           marking == [th[t] EXCEPT !.pc = "mark", !.held = Mark(r)]
<1>1. th[t].pc = "expire" /\ UNCHANGED <<file, authLock>> /\ Doc(t) \in Docs
  BY Home DEF Expire, At
<1>2. /\ Typed /\ ServiceUnmarked /\ th[t].held \in TokenRecord \cup {NoTokens}
      /\ authLock'[Doc(t)] # t
  BY <1>1 DEF TokenInv, Holds, UnderLock
<1>3. /\ Kept(back, th[t]) /\ back.pc = "bearer" /\ back.held = th[t].held
      /\ Kept(marking, th[t]) /\ marking.pc = "mark" /\ marking.held = Mark(r)
  BY DEF Shaped, Shape, Kept, Fields
<1>4. back.pc \notin UnderLock \cup Marking /\ marking.pc \in Marking \ UnderLock
  BY <1>3 DEF UnderLock, Marking
<1>5. LockKept(t) /\ authLock' \in [Docs -> (Threads \cup {NoThread})']
  BY <1>1, <1>2, Locking
<1>6. CASE config.auth = "service"
  <2>1. mem' = [mem EXCEPT ![Doc(t)] = NoTokens] /\ Step(t, back)
    BY <1>6 DEF Expire, Goto
  <2>2. Typed'
    BY <1>1, <1>2, <1>5, <2>1 DEF Typed
  <2>3. ServiceUnmarked' /\ Offered(t) /\ ~Offers(mem'[Doc(t)], th[t].refused)
    BY <1>1, <1>2, <1>6, <2>1, TokenAssumption DEF Typed, ServiceUnmarked, Offered, Offers
  <2> HIDE DEF back, marking
  <2> QED
    BY <1>1, <1>2, <1>3, <1>4, <1>5, <1>6, <2>1, <2>2, <2>3, OnTheWay
<1>7. CASE config.auth # "service" /\ r = NoTokens
  <2>1. UNCHANGED mem /\ Step(t, back)
    BY <1>7 DEF Expire, Goto
  <2>2. Typed'
    BY <1>1, <1>2, <1>5, <2>1 DEF Typed
  <2>3. ~Offers(mem'[Doc(t)], th[t].refused) /\ ~Offers(file', th[t].refused)
    BY <1>1, <1>7, <2>1, TokenAssumption DEF Loaded, Offers
  <2> HIDE DEF back, marking
  <2> QED
    BY <1>1, <1>2, <1>3, <1>4, <1>5, <2>1, <2>2, <2>3, SameTokens, OnTheWay
<1>8. CASE config.auth # "service" /\ r # NoTokens
  <2>1. mem' = [mem EXCEPT ![Doc(t)] = Mark(r)] /\ Step(t, marking)
    BY <1>8 DEF Expire
  <2>2. Mark(r) \in TokenRecord /\ Mark(r).marked
    BY <1>1, <1>2, <1>8 DEF Typed, Loaded, Mark, TokenRecord
  <2> HIDE DEF back, marking
  <2>3. Typed'
    BY <1>1, <1>2, <1>5, <2>1, <2>2 DEF Typed
  <2>4. ServiceUnmarked'
    BY <1>8 DEF ServiceUnmarked
  <2>5. /\ Offered(t) /\ ~Offers(mem'[Doc(t)], th[t].refused)
        /\ mem'[Doc(t)] # NoTokens
    BY <1>1, <1>2, <2>1, <2>2, TokenAssumption DEF Typed, Offered, Offers
  <2> QED
    BY <1>1, <1>2, <1>3, <1>4, <1>5, <1>8, <2>1, <2>2, <2>3, <2>4, <2>5, OnTheWay
<1> QED
  BY <1>6, <1>7, <1>8

LEMMA OpenMarkedStep ==
  ASSUME Shaped, TokenInv, NEW t \in Threads, OpenMarked(t), UNCHANGED config
  PROVE  TokenInv' /\ Moved(t) /\ Authorising(t)
<1> DEFINE new == [th[t] EXCEPT !.pc = "marked"]
<1>1. /\ th[t].pc = "mark" /\ UNCHANGED authLock /\ Doc(t) \in Docs /\ Step(t, new)
      /\ mem' = [mem EXCEPT ![Doc(t)] = th[t].held] /\ file' = Torn
  BY Home DEF OpenMarked, OpenFile, At, Goto
<1>2. /\ th[t].held \in TokenRecord /\ th[t].held.marked /\ config.auth # "service"
      /\ Typed /\ authLock'[Doc(t)] # t
  BY <1>1 DEF TokenInv, Holds, UnderLock, Marking
<1>3. Kept(new, th[t]) /\ new.pc = "marked" /\ new.held = th[t].held
  BY DEF Shaped, Shape, Kept, Fields
<1> HIDE DEF new
<1>4. new.pc \in Marking \ UnderLock
  BY <1>3 DEF UnderLock, Marking
<1>5. Typed' /\ LockKept(t) /\ ServiceUnmarked'
  BY <1>1, <1>2, Locking DEF Typed, ServiceUnmarked
<1>6. Offered(t)
  BY <1>1, <1>2, TokenAssumption DEF Typed, Offered, Offers
<1> QED
  BY <1>1, <1>2, <1>3, <1>4, <1>5, <1>6, OnTheWay

LEMMA WriteMarkedStep ==
  ASSUME Shaped, TokenInv, NEW t \in Threads, WriteMarked(t), UNCHANGED config
  PROVE  TokenInv' /\ Moved(t) /\ Authorising(t)
<1> DEFINE new == [th[t] EXCEPT !.pc = "bearer", !.held = NoTokens]
<1>1. /\ th[t].pc = "marked" /\ UNCHANGED mem
      /\ file' = IF file = NoTokens THEN NoTokens ELSE th[t].held
  BY DEF WriteMarked, WriteFile, Unlinked, At
<1>2. /\ th[t].held \in TokenRecord /\ th[t].held.marked /\ config.auth # "service"
      /\ Typed /\ ServiceUnmarked /\ authLock[Doc(t)] # t
  BY <1>1 DEF TokenInv, Holds, UnderLock, Marking
<1>3. Offered(t)
  BY <1>1, <1>2, TokenAssumption DEF Offered, Offers
<1>4. /\ (mem \in [Docs -> TokenRecord \cup {NoTokens}])'
      /\ (file \in TokenRecord \cup {NoTokens, Torn})' /\ ServiceUnmarked'
  BY <1>1, <1>2 DEF Typed, ServiceUnmarked
<1>5. CASE Unlinked
  <2>1. FailAuth(t, "raised") /\ "raised" \in Errors
    BY <1>5 DEF WriteMarked, Errors
  <2> HIDE DEF new
  <2> QED
    BY <1>1, <1>3, <1>4, <2>1, FailAuthStep
<1>6. CASE ~Unlinked
  <2>1. Step(t, new) /\ UNCHANGED authLock
    BY <1>6 DEF WriteMarked
  <2>2. Kept(new, th[t]) /\ new.pc = "bearer" /\ new.held = NoTokens
    BY DEF Shaped, Shape, Kept, Fields
  <2> HIDE DEF new
  <2>3. new.pc \notin UnderLock \cup Marking
    BY <2>2 DEF UnderLock, Marking
  <2>4. Typed' /\ LockKept(t)
    BY <1>2, <1>4, <2>1, Locking DEF Typed
  <2> QED
    BY <1>1, <1>2, <1>3, <1>4, <2>1, <2>2, <2>3, <2>4, OnTheWay
<1> QED
  BY <1>5, <1>6

LEMMA AuthSteps ==
  ASSUME Shaped, TokenInv, NEW t \in Threads, AuthStep(t), UNCHANGED config
  PROVE  TokenInv' /\ Moved(t) /\ Authorising(t)
BY StaticBearerStep, GetBearerStep, RefreshAcceptedStep, RefreshRefusedStep, AuthFailures,
   InvalidateStep, LoginStep, SaveTokensStep, ServiceBearerStep, CredentialsStep,
   ServiceHandOverStep, ExpireStep, OpenMarkedStep, WriteMarkedStep
   DEF AuthStep

-----------------------------------------------------------------------------
(* The client and the source leave the tokens alone.                       *)

(* No token that is in use, none that is sought. *)
Quiet(r, old) ==
  /\ Shape(r)
  /\ r.pc \notin UnderLock \cup Marking \cup {"expire", "send"}
  /\ r.held \in {old.held, NoTokens} /\ r.bearer \in {old.bearer, NoTokens}
  /\ \/ r.refused = old.refused /\ r.retried = old.retried
     \/ r.refused = NoTokens /\ r.retried = FALSE

LEMMA QuietStep ==
  ASSUME Shaped, TokenInv, NEW t \in Threads, NEW r, Quiet(r, th[t]), Step(t, r),
         UNCHANGED <<config, mem, file, authLock>>, th[t].pc \notin UnderLock \cup {"bearer", "expire"}
  PROVE  TokenInv' /\ Moved(t) /\ th'[t] = r
<1>1. Moved(t) /\ th'[t] = r
  BY StepMoves DEF Quiet
<1> QED
  BY <1>1, QuietTokens DEF Quiet

-----------------------------------------------------------------------------
(* What an absence rests on, on its way from the gateway to the cache and  *)
(* to the caller.                                                          *)

Grounded(row) ==
  row # NoRow => (row.found <=> row.because.what = "hit") /\ (row.found \/ Grounds(row.because))

Rests(reasons) == \A why \in reasons : Grounds(why)

(* The search said so. *)
Searched(reasons) == \E why \in reasons : why.to = "search" /\ why.what # "unreferenced"

(* A result that says that something is missing has its reasons. *)
Reasoned(r) ==
  r.pc = "told" /\ r.result \in {"law_missing", "article_missing"} =>
    r.reasons # {} /\ (r.result = "law_missing" => Searched(r.reasons))

Informed(r) ==
  /\ Rests(r.reasons) /\ r.err \in Errors
  /\ r.pc = "probe" => r.op \in Keys /\ config.cached
  /\ r.pc = "store" => \/ r.reply = "hit"
                       \/ Grounds([to |-> r.op, what |-> r.reply, said |-> r.said])
  /\ Reasoned(r)

SourceInv ==
  /\ cache = [k \in Keys |-> cache[k]]
  /\ \A k \in Keys : Grounded(cache[k])
  /\ \A t \in Threads : Informed(th[t])

(* Where a thread is that holds a lock; the handshake is two requests. *)
Sending == UnderLock \cup Marking \cup {"bearer", "expire", "send", "failed"}

Locked(t) ==
  /\ HeldMissLock(t) =>
       config.cached /\ th[t].op \in Keys /\ th[t].pc \notin {"idle", "told", "probe"}
  /\ writer = t => HeldMissLock(t)
  /\ sessionLock[Doc(t)] = t =>
       /\ th[t].pc \in Sending
       /\ th[t].pc # "failed" => th[t].post \in {"initialize", "notify"}

LockInv ==
  /\ missLock = [d \in Docs |-> missLock[d]] /\ sessionLock = [d \in Docs |-> sessionLock[d]]
  /\ \A t \in Threads : Locked(t)

Inv == Shaped /\ TokenInv /\ SourceInv

-----------------------------------------------------------------------------
(* The client, handler by handler.                                         *)

(* A thread goes on, and says nothing of the citation. *)
Mild(r, old) ==
  /\ Quiet(r, old)
  /\ r.reasons = old.reasons /\ r.op = old.op /\ r.err \in {old.err} \cup Errors
  /\ r.pc \notin {"idle", "probe", "store", "told"}

LEMMA MildStep ==
  ASSUME Shaped, TokenInv, NEW t \in Threads, NEW r, Mild(r, th[t]), Step(t, r),
         UNCHANGED <<config, mem, file, authLock>>, th[t].pc \notin UnderLock \cup {"bearer", "expire"}
  PROVE  TokenInv' /\ Moved(t) /\ Unasked(t)
BY QuietStep DEF Mild, Unasked

LEMMA MildRecord ==
  ASSUME NEW old, Shape(old)
  PROVE  /\ \A where \in {"name", "uninitialise", "session"} :
              Mild([old EXCEPT !.pc = where], old)
         /\ \A what : Mild([old EXCEPT !.pc = "session", !.purpose = what], old)
         /\ Mild([old EXCEPT !.pc = "errored", !.purpose = "list", !.err = "fault"], old)
<1>1. ASSUME NEW where \in {"name", "uninitialise", "session"}
      PROVE  Mild([old EXCEPT !.pc = where], old)
  BY DEF Mild, Quiet, Shape, Fields, UnderLock, Marking
<1>2. ASSUME NEW what PROVE Mild([old EXCEPT !.pc = "session", !.purpose = what], old)
  BY DEF Mild, Quiet, Shape, Fields, UnderLock, Marking
<1>3. Mild([old EXCEPT !.pc = "errored", !.purpose = "list", !.err = "fault"], old)
  BY DEF Mild, Quiet, Shape, Fields, UnderLock, Marking, Errors
<1> QED
  BY <1>1, <1>2, <1>3

(* A request starts, and is over. *)
LEMMA PostStep ==
  ASSUME Shaped, TokenInv, NEW t \in Threads, NEW what, NEW header, Post(t, what, header),
         UNCHANGED <<config, mem, file, authLock>>,
         th[t].pc \notin UnderLock \cup {"bearer", "expire"}
  PROVE  /\ TokenInv' /\ Moved(t) /\ Unasked(t)
         /\ th'[t].pc = "bearer" /\ th'[t].post = what
<1> DEFINE r == [th[t] EXCEPT !.pc = "bearer", !.post = what, !.header = header,
                              !.retried = FALSE, !.refused = NoTokens, !.second = FALSE]
<1>1. Shape(r) /\ r.pc = "bearer" /\ r.post = what
  BY DEF Shaped, Shape, Fields
<1>2. Mild(r, th[t])
  BY <1>1 DEF Shaped, Mild, Quiet, Shape, Fields, UnderLock, Marking
<1>3. Step(t, r)
  BY DEF Post
<1> HIDE DEF r
<1>4. th'[t] = r
  BY <1>1, <1>3, StepMoves
<1> QED
  BY <1>1, <1>2, <1>3, <1>4, MildStep

LEMMA SentIs ==
  ASSUME Shaped, NEW t \in Threads
  PROVE  LET r == Sent(t)
         IN /\ Shape(r) /\ r.held = th[t].held /\ r.bearer = NoTokens /\ r.refused = NoTokens
            /\ r.retried = FALSE /\ r.reasons = th[t].reasons /\ r.err = th[t].err
            /\ r.op = th[t].op
BY DEF Shaped, Sent, Shape, Fields

LEMMA FailStep ==
  ASSUME Shaped, TokenInv, NEW t \in Threads, NEW err \in Errors,
         Step(t, [Sent(t) EXCEPT !.pc = "failed", !.err = err]),
         UNCHANGED <<config, mem, file, authLock>>,
         th[t].pc \notin UnderLock \cup {"bearer", "expire"}
  PROVE  TokenInv' /\ Moved(t) /\ Unasked(t) /\ th'[t].pc = "failed"
<1> DEFINE old == Sent(t)
           r == [old EXCEPT !.pc = "failed", !.err = err]
<1>1. /\ Shape(old) /\ old.held = th[t].held /\ old.bearer = NoTokens /\ old.refused = NoTokens
      /\ old.retried = FALSE /\ old.reasons = th[t].reasons /\ old.err = th[t].err
      /\ old.op = th[t].op
  BY SentIs
<1> HIDE DEF old
<1>2. Mild(r, th[t]) /\ Shape(r) /\ r.pc = "failed"
  BY <1>1 DEF Mild, Quiet, Shape, Fields, UnderLock, Marking
<1>3. Step(t, r)
  BY DEF old
<1> HIDE DEF r
<1>4. th'[t] = r
  BY <1>2, <1>3, StepMoves
<1> QED
  BY <1>2, <1>3, <1>4, MildStep

LEMMA SentStep ==
  ASSUME Shaped, TokenInv, NEW t \in Threads, NEW err \in {th[t].err} \cup Errors,
         UNCHANGED <<config, mem, file, authLock>>, th[t].pc \notin UnderLock \cup {"bearer", "expire"},
         \/ Step(t, [Sent(t) EXCEPT !.pc = "name"])
         \/ \E reply \in Replies : Step(t, [Sent(t) EXCEPT !.pc = "answered", !.reply = reply])
         \/ Step(t, [Sent(t) EXCEPT !.pc = "errored", !.err = err])
         \/ Step(t, [Sent(t) EXCEPT !.pc = "errored"])
         \/ Step(t, [Sent(t) EXCEPT !.pc = "drop", !.again = TRUE, !.err = err])
  PROVE  TokenInv' /\ Moved(t) /\ Unasked(t)
<1> DEFINE old == Sent(t)
<1>1. /\ Shape(old) /\ old.held = th[t].held /\ old.bearer = NoTokens /\ old.refused = NoTokens
      /\ old.retried = FALSE /\ old.reasons = th[t].reasons /\ old.err = th[t].err
      /\ old.op = th[t].op
  BY SentIs
<1> HIDE DEF old
<1>2. Mild([old EXCEPT !.pc = "name"], th[t])
  BY <1>1 DEF Mild, Quiet, Shape, Fields, UnderLock, Marking
<1>3. ASSUME NEW reply PROVE Mild([old EXCEPT !.pc = "answered", !.reply = reply], th[t])
  BY <1>1 DEF Mild, Quiet, Shape, Fields, UnderLock, Marking
<1>4. Mild([old EXCEPT !.pc = "errored", !.err = err], th[t])
  BY <1>1 DEF Mild, Quiet, Shape, Fields, UnderLock, Marking
<1>5. Mild([old EXCEPT !.pc = "errored"], th[t])
  BY <1>1 DEF Mild, Quiet, Shape, Fields, UnderLock, Marking
<1>6. Mild([old EXCEPT !.pc = "drop", !.again = TRUE, !.err = err], th[t])
  BY <1>1 DEF Mild, Quiet, Shape, Fields, UnderLock, Marking
<1>7. \E r : Mild(r, th[t]) /\ Step(t, r)
  BY <1>2, <1>3, <1>4, <1>5, <1>6 DEF old
<1> QED
  BY <1>7, MildStep

LEMMA ResolveStep ==
  ASSUME Shaped, TokenInv, NEW t \in Threads, Resolve(t), UNCHANGED config
  PROVE  TokenInv' /\ Moved(t) /\ Unasked(t)
<1>1. th[t].pc = "resolve" /\ UNCHANGED <<mem, file, authLock>> /\ Shape(th[t])
  BY DEF Resolve, At, Shaped, authVars
<1>2. PICK r : Step(t, r) /\ Mild(r, th[t])
  BY <1>1, MildRecord DEF Resolve, Goto
<1> QED
  BY <1>1, <1>2, MildStep DEF UnderLock

LEMMA NameToolStep ==
  ASSUME Shaped, TokenInv, NEW t \in Threads, NameTool(t), UNCHANGED config
  PROVE  TokenInv' /\ Moved(t) /\ Unasked(t)
<1>1. th[t].pc = "name" /\ UNCHANGED <<mem, file, authLock>> /\ Shape(th[t])
  BY DEF NameTool, At, Shaped, authVars
<1>2. PICK r : Step(t, r) /\ Mild(r, th[t])
  BY <1>1, MildRecord DEF NameTool
<1> QED
  BY <1>1, <1>2, MildStep DEF UnderLock

LEMMA DropSteps ==
  ASSUME Shaped, TokenInv, NEW t \in Threads, DropSession(t) \/ Uninitialise(t), UNCHANGED config
  PROVE  TokenInv' /\ Moved(t) /\ Unasked(t)
<1>1. /\ th[t].pc \in {"drop", "uninitialise"} /\ UNCHANGED <<mem, file, authLock>>
      /\ Shape(th[t])
  BY DEF DropSession, Uninitialise, At, Shaped, authVars
<1>2. PICK r : Step(t, r) /\ Mild(r, th[t])
  BY <1>1, MildRecord DEF DropSession, Uninitialise, Goto
<1> QED
  BY <1>1, <1>2, MildStep DEF UnderLock

LEMMA SessionSteps ==
  ASSUME Shaped, TokenInv, NEW t \in Threads, UNCHANGED config,
         UseSession(t) \/ Handshake(t) \/ HandshakeAnswered(t)
  PROVE  TokenInv' /\ Moved(t) /\ Unasked(t)
<1>1. th[t].pc \notin UnderLock \cup {"bearer", "expire"} /\ UNCHANGED <<mem, file, authLock>>
  BY DEF UseSession, Handshake, HandshakeAnswered, At, authVars, UnderLock
<1>2. PICK what, header : Post(t, what, header)
  BY DEF UseSession, Handshake, HandshakeAnswered
<1> QED
  BY <1>1, <1>2, PostStep

LEMMA AnswerSteps ==
  ASSUME Shaped, TokenInv, NEW t \in Threads, UNCHANGED config,
         \/ \E offered \in {{}, {"search"}, Kinds} : ListAnswered(t, offered)
         \/ \E reply \in Replies : CallAnswered(t, reply)
         \/ \E err \in Errors : Refused(t, err)
         \/ \E gone \in BOOLEAN : Failed(t, gone)
  PROVE  TokenInv' /\ Moved(t) /\ Unasked(t)
<1>1. th[t].pc \notin UnderLock \cup {"bearer", "expire"} /\ UNCHANGED <<mem, file, authLock>> /\ "fault" \in Errors
  BY DEF ListAnswered, CallAnswered, Refused, Failed, At, authVars, Errors, UnderLock
<1>2. CASE \E offered \in {{}, {"search"}, Kinds} : ListAnswered(t, offered)
  BY <1>1, <1>2, SentStep DEF ListAnswered
<1>3. CASE \E reply \in Replies : CallAnswered(t, reply)
  BY <1>1, <1>3, SentStep DEF CallAnswered
<1>4. CASE \E err \in Errors : Refused(t, err)
  BY <1>1, <1>4, FailStep DEF Refused
<1>5. CASE \E gone \in BOOLEAN : Failed(t, gone)
  BY <1>1, <1>5, SentStep DEF Failed
<1> QED
  BY <1>2, <1>3, <1>4, <1>5

(* The token the server has refused is the one to be marked. *)
LEMMA UnauthorisedStep ==
  ASSUME Shaped, TokenInv, NEW t \in Threads, Unauthorised(t), UNCHANGED config
  PROVE  /\ TokenInv' /\ Moved(t) /\ Unasked(t)
         /\ th'[t].pc = "failed" \/ (th'[t].pc = "expire" /\ th'[t].post = th[t].post)
<1>1. /\ th[t].pc = "send" /\ th[t].bearer # NoTokens /\ UNCHANGED <<mem, file, authLock>>
      /\ authLock'[Doc(t)] # t
  BY DEF Unauthorised, At, authVars, Accepted, TokenInv, Holds, UnderLock
<1>2. CASE th[t].retried
  BY <1>1, <1>2, FailStep DEF Unauthorised, Errors, UnderLock
<1>3. CASE ~th[t].retried
  <2> DEFINE r == [th[t] EXCEPT !.pc = "expire", !.retried = TRUE, !.refused = th[t].bearer]
  <2>1. Step(t, r) /\ Shape(th[t])
    BY <1>3 DEF Unauthorised, Shaped
  <2>2. /\ Shape(r) /\ r.pc = "expire" /\ r.held = th[t].held /\ r.bearer = th[t].bearer
        /\ r.refused = th[t].bearer /\ r.retried = TRUE /\ r.op = th[t].op
        /\ r.post = th[t].post /\ r.reasons = th[t].reasons /\ r.err = th[t].err
    <3>1. Shape(r)
      BY <2>1 DEF Shape, Fields
    <3> QED
      BY <2>1, <3>1 DEF Shape, Fields
  <2> HIDE DEF r
  <2>3. Moved(t) /\ th'[t] = r /\ config' = config /\ Doc(t)' = Doc(t)
    BY <2>1, <2>2, StepMoves DEF Moved
  <2>4. Typed' /\ ServiceUnmarked' /\ Offered(t) /\ LockKept(t)
    BY <1>1, SameTokens, Locking DEF TokenInv, Typed
  <2>5. Holds(t)' /\ Unsent(t)' /\ SavesNew(t) /\ Unasked(t)
    <3>1. Holds(t)'
      BY <1>1, <2>2, <2>3 DEF Holds, TokenInv, UnderLock, Marking
    <3> QED
      BY <2>2, <2>3, <3>1 DEF Unsent, SavesNew, Unasked
  <2>6. Gone(t)'
    BY <1>1, <2>2, <2>3 DEF Gone
  <2> QED
    BY <1>1, <2>2, <2>3, <2>4, <2>5, <2>6, Others, TokenStep
<1> QED
  BY <1>2, <1>3

LEMMA ClientSteps ==
  ASSUME Shaped, TokenInv, NEW t \in Threads, ClientStep(t), UNCHANGED config
  PROVE  TokenInv' /\ Moved(t) /\ Unasked(t)
BY AuthSteps, ResolveStep, NameToolStep, DropSteps, SessionSteps, AnswerSteps, UnauthorisedStep
   DEF ClientStep, Authorising

-----------------------------------------------------------------------------
(* The source and its cache, handler by handler.                           *)

(* What lookup makes its next record from. *)
Carries(r, old) ==
  /\ Shape(r) /\ r.held = old.held /\ r.bearer = old.bearer
  /\ r.refused = old.refused /\ r.retried = old.retried
  /\ Rests(r.reasons) /\ r.err \in Errors

LEMMA ResultIs ==
  ASSUME NEW r, Rests(r.reasons), NEW old, NEW result,
         result \in {"law_missing", "article_missing"} => r.reasons # {},
         result = "law_missing" => Searched(r.reasons)
  PROVE  Quiet(Result(r, result), old) /\ Informed(Result(r, result))
<1> DEFINE new == Result(r, result)
<1>1. /\ Shape(new) /\ new.pc = "told" /\ new.held = NoTokens /\ new.bearer = NoTokens
      /\ new.refused = NoTokens /\ new.retried = FALSE /\ new.err = "fault"
      /\ new.reasons = r.reasons /\ new.result = result
  BY DEF Result, Start, Shape, Fields
<1> HIDE DEF new
<1>2. Quiet(new, old) /\ Informed(new)
  BY <1>1 DEF Quiet, Informed, Reasoned, UnderLock, Marking, Errors
<1> QED
  BY <1>2 DEF new

LEMMA AskIs ==
  ASSUME NEW r, NEW old, Carries(r, old), NEW op \in Ops
  PROVE  Quiet(Ask(r, op), old) /\ Informed(Ask(r, op))
<1> DEFINE new == Ask(r, op)
<1>1. /\ Shape(new) /\ new.held = old.held /\ new.bearer = old.bearer
      /\ new.refused = old.refused /\ new.retried = old.retried
      /\ Rests(new.reasons) /\ new.err \in Errors /\ new.op = op
      /\ new.pc = IF op = "search" \/ ~config.cached THEN "resolve" ELSE "probe"
  BY DEF Carries, Ask, Shape, Fields, Errors
<1> HIDE DEF new
<1>2. Quiet(new, old) /\ Informed(new)
  BY <1>1 DEF Quiet, Informed, Reasoned, UnderLock, Marking, Ops
<1> QED
  BY <1>2 DEF new

LEMMA OnwardIs ==
  ASSUME NEW r, NEW old, Carries(r, old), NEW found, ~found => r.reasons # {}
  PROVE  Quiet(Onward(r, found), old) /\ Informed(Onward(r, found))
BY ResultIs, AskIs DEF Onward, Carries, Ops

LEMMA WithIs ==
  ASSUME Shaped, SourceInv, NEW t \in Threads, NEW why, why.what # "hit" => Grounds(why)
  PROVE  /\ Carries(With(t, why), th[t])
         /\ why.what # "hit" => why \in With(t, why).reasons
         /\ With(t, why).op = th[t].op
<1> DEFINE old == th[t]
           reasons == IF why.what = "hit" THEN old.reasons ELSE old.reasons \cup {why}
           new == [old EXCEPT !.reasons = reasons]
<1>1. Shape(old) /\ Informed(old) /\ With(t, why) = new
  BY DEF Shaped, SourceInv, With
<1>2. Rests(reasons) /\ (why.what # "hit" => why \in reasons)
  BY <1>1 DEF Rests, Informed
<1> HIDE DEF old, reasons
<1>3. /\ Shape(new) /\ new.held = old.held /\ new.bearer = old.bearer
      /\ new.refused = old.refused /\ new.retried = old.retried
      /\ new.reasons = reasons /\ new.err = old.err /\ new.op = old.op
  BY <1>1 DEF Shape, Fields
<1> HIDE DEF new
<1>4. Carries(new, old)
  BY <1>1, <1>2, <1>3 DEF Carries, Informed
<1> QED
  BY <1>1, <1>2, <1>3, <1>4 DEF old

(* A record that is new to a thread, and to the cache. *)
Answers(t, r) == Step(t, r) /\ Quiet(r, th[t]) /\ Informed(r)

LEMMA SourceKept ==
  ASSUME SourceInv, NEW t \in Threads, Moved(t), Informed(th'[t]),
         \/ UNCHANGED cache
         \/ \E k, row : cache' = [cache EXCEPT ![k] = row] /\ Grounded(row)
  PROVE  SourceInv'
<1>1. cache' = [k \in Keys |-> cache'[k]] /\ \A k \in Keys : Grounded(cache'[k])
  <2>1. CASE UNCHANGED cache
    BY <2>1 DEF SourceInv
  <2>2. ASSUME NEW key, NEW row, cache' = [cache EXCEPT ![key] = row], Grounded(row)
        PROVE  cache' = [k \in Keys |-> cache'[k]] /\ \A k \in Keys : Grounded(cache'[k])
    <3>1. cache = [k \in Keys |-> cache[k]] /\ \A k \in Keys : Grounded(cache[k])
      BY DEF SourceInv
    <3>2. cache' = [k \in Keys |-> IF k = key THEN row ELSE cache[k]]
      BY <2>2, <3>1
    <3> QED
      BY <2>2, <3>1, <3>2
  <2> QED
    BY <2>1, <2>2
<1>2. \A u \in Threads : Informed(th'[u])
  BY DEF Moved, SourceInv
<1> QED
  BY <1>1, <1>2 DEF SourceInv, Moved, Grounded, Informed, Reasoned

LEMMA AnswersStep ==
  ASSUME Inv, NEW t \in Threads, NEW r, Answers(t, r),
         UNCHANGED <<config, mem, file, authLock>>, th[t].pc \notin UnderLock \cup {"bearer", "expire"},
         \/ UNCHANGED cache
         \/ \E k, row : cache' = [cache EXCEPT ![k] = row] /\ Grounded(row)
  PROVE  Inv' /\ Moved(t) /\ th'[t] = r
<1>1. TokenInv' /\ Moved(t) /\ th'[t] = r
  BY QuietStep DEF Inv, Answers
<1>2. SourceInv'
  BY <1>1, SourceKept DEF Inv, Answers
<1> QED
  BY <1>1, <1>2 DEF Inv, Moved

LEMMA LookupStep ==
  ASSUME Inv, NEW t \in Threads, NEW wants, Lookup(t, wants), UNCHANGED config
  PROVE  Inv' /\ Moved(t)
<1> DEFINE old == th[t]
           r == [old EXCEPT !.wants = wants, !.reasons = {}, !.result = "none", !.left = @ - 1]
           op == IF wants = "article" THEN "exact" ELSE "search"
<1>1. old.pc = "idle" /\ UNCHANGED <<mem, file, authLock, cache>> /\ Step(t, Ask(r, op))
  BY DEF Lookup, At, authVars, sourceVars
<1>2. Shape(old) /\ old.err \in Errors
  BY DEF Inv, Shaped, SourceInv, Informed
<1> HIDE DEF old
<1>3. Carries(r, old) /\ op \in Ops
  BY <1>2 DEF Carries, Shape, Fields, Ops, Keys, Rests
<1> HIDE DEF r, op
<1>4. Answers(t, Ask(r, op))
  BY <1>1, <1>3, AskIs DEF Answers, old
<1> QED
  BY <1>1, <1>4, AnswersStep DEF old, UnderLock

LEMMA ReturnStep ==
  ASSUME Inv, NEW t \in Threads, Return(t), UNCHANGED config
  PROVE  Inv' /\ Moved(t)
<1> DEFINE r == [Start EXCEPT !.left = th[t].left]
<1>1. th[t].pc = "told" /\ UNCHANGED <<mem, file, authLock, cache>> /\ Step(t, r)
  BY DEF Return, At, authVars, sourceVars
<1>2. /\ Shape(r) /\ r.pc = "idle" /\ r.held = NoTokens /\ r.bearer = NoTokens
      /\ r.refused = NoTokens /\ r.retried = FALSE /\ r.err = "fault" /\ r.reasons = {}
  BY DEF Start, Shape, Fields
<1> HIDE DEF r
<1>3. Answers(t, r)
  BY <1>1, <1>2 DEF Answers, Quiet, Informed, Reasoned, Rests, UnderLock, Marking, Errors
<1> QED
  BY <1>1, <1>3, AnswersStep DEF UnderLock

(* The text of an article, or that there is none, with what it rests on. *)
LEMMA OnwardStep ==
  ASSUME Inv, NEW t \in Threads, NEW found, NEW why, found <=> why.what = "hit",
         found \/ Grounds(why), Step(t, Onward(With(t, why), found))
  PROVE  Answers(t, Onward(With(t, why), found))
<1>1. Carries(With(t, why), th[t]) /\ (~found => With(t, why).reasons # {})
  BY WithIs DEF Inv
<1>2. Quiet(Onward(With(t, why), found), th[t]) /\ Informed(Onward(With(t, why), found))
  BY <1>1, OnwardIs
<1> QED
  BY <1>2 DEF Answers

LEMMA CacheHitStep ==
  ASSUME Inv, NEW t \in Threads, CacheHit(t), UNCHANGED config
  PROVE  Inv' /\ Moved(t)
<1> DEFINE row == cache[th[t].op]
<1>1. /\ th[t].pc = "probe" /\ UNCHANGED <<mem, file, authLock, cache>> /\ row # NoRow
      /\ Step(t, Onward(With(t, row.because), row.found))
  BY DEF CacheHit, At, authVars, sourceVars
<1>2. Grounded(row)
  BY <1>1 DEF Inv, SourceInv, Informed
<1> HIDE DEF row
<1>3. Answers(t, Onward(With(t, row.because), row.found))
  BY <1>1, <1>2, OnwardStep DEF Grounded
<1> QED
  BY <1>1, <1>3, AnswersStep DEF UnderLock

LEMMA CacheLookedAt ==
  ASSUME Inv, NEW t \in Threads, CacheMiss(t) \/ CacheStale(t), UNCHANGED config
  PROVE  Inv' /\ Moved(t) /\ th'[t].pc = "resolve" /\ th'[t].op = th[t].op
<1> DEFINE old == th[t]
           r == [old EXCEPT !.pc = "resolve"]
<1>1. old.pc = "probe" /\ UNCHANGED <<mem, file, authLock, cache>> /\ Step(t, r)
  BY DEF CacheMiss, CacheStale, At, Goto, authVars
<1>2. Shape(old) /\ Informed(old)
  BY DEF Inv, Shaped, SourceInv
<1> HIDE DEF old
<1>3. Quiet(r, old) /\ Informed(r) /\ r.pc = "resolve" /\ r.op = old.op
  BY <1>2 DEF Shape, Fields, Quiet, Informed, Reasoned, UnderLock, Marking
<1> HIDE DEF r
<1>4. Answers(t, r)
  BY <1>1, <1>3 DEF Answers, old
<1> QED
  BY <1>1, <1>3, <1>4, AnswersStep DEF old, UnderLock

LEMMA ResultStep ==
  ASSUME Inv, NEW t \in Threads, NEW result, Step(t, Result(th[t], result)),
         result \notin {"law_missing", "article_missing"}
  PROVE  Answers(t, Result(th[t], result))
BY ResultIs DEF Answers, Inv, SourceInv, Informed

LEMMA CacheLockedStep ==
  ASSUME Inv, NEW t \in Threads, CacheLocked(t), UNCHANGED config
  PROVE  Inv' /\ Moved(t)
<1>1. /\ th[t].pc \in {"probe", "store"} /\ UNCHANGED <<mem, file, authLock, cache>>
      /\ Step(t, Result(th[t], "raised"))
  BY DEF CacheLocked, At, authVars
<1>2. Answers(t, Result(th[t], "raised"))
  BY <1>1, ResultStep
<1> QED
  BY <1>1, <1>2, AnswersStep DEF UnderLock

LEMMA GiveStep ==
  ASSUME Inv, NEW t \in Threads, NEW what, NEW said, Give(t, what, said),
         what = "hit" \/ Grounds(Why(t, what, said)),
         UNCHANGED <<config, mem, file, authLock, cache>>, th[t].pc \notin UnderLock \cup {"bearer", "expire"}
  PROVE  /\ Inv' /\ Moved(t)
         /\ config.cached => th'[t].pc = "store" /\ th'[t].op = th[t].op
<1>1. CASE config.cached
  <2> DEFINE old == th[t]
             r == [old EXCEPT !.pc = "store", !.reply = what, !.said = said]
  <2>1. Step(t, r) /\ (what = "hit" \/ Grounds([to |-> old.op, what |-> what, said |-> said]))
    BY <1>1 DEF Give, Why
  <2>2. Shape(old) /\ Informed(old)
    BY DEF Inv, Shaped, SourceInv
  <2> HIDE DEF old
  <2>3. /\ Shape(r) /\ r.pc = "store" /\ r.reply = what /\ r.said = said /\ r.op = old.op
        /\ r.reasons = old.reasons /\ r.err = old.err /\ r.held = old.held
        /\ r.bearer = old.bearer /\ r.refused = old.refused /\ r.retried = old.retried
    BY <2>2 DEF Shape, Fields
  <2> HIDE DEF r
  <2>4. Quiet(r, old) /\ Informed(r)
    BY <2>1, <2>2, <2>3 DEF Quiet, Informed, Reasoned, UnderLock, Marking
  <2>5. Answers(t, r)
    BY <2>1, <2>4 DEF Answers, old
  <2> QED
    BY <2>3, <2>5, AnswersStep DEF old, UnderLock
<1>2. CASE ~config.cached
  <2> DEFINE why == Why(t, what, said)
  <2>1. Step(t, Onward(With(t, why), what = "hit"))
    BY <1>2 DEF Give
  <2>2. why.what = what /\ (what = "hit" \/ Grounds(why))
    BY DEF Why
  <2> HIDE DEF why
  <2>3. Answers(t, Onward(With(t, why), what = "hit"))
    BY <2>1, <2>2, OnwardStep
  <2> QED
    BY <1>2, <2>3, AnswersStep DEF UnderLock
<1> QED
  BY <1>1, <1>2

LEMMA ArticleAnswerStep ==
  ASSUME Inv, NEW t \in Threads, ArticleAnswer(t), UNCHANGED config
  PROVE  Inv' /\ Moved(t)
<1>1. /\ th[t].pc = "answered" /\ UNCHANGED <<mem, file, authLock, cache>>
      /\ th[t].reply \in {"hit", "absent"} /\ Give(t, th[t].reply, FALSE)
  BY DEF ArticleAnswer, At, authVars, sourceVars
<1>2. th[t].reply = "hit" \/ Grounds(Why(t, th[t].reply, FALSE))
  BY <1>1 DEF Why, Grounds, Answered
<1> QED
  BY <1>1, <1>2, GiveStep DEF UnderLock

(* An error that is taken for an absence says "not found", and is none of  *)
(* the quota or the package.                                               *)
LEMMA ArticleErrorStep ==
  ASSUME Inv, NEW t \in Threads, NEW kind, NEW says \in BOOLEAN, ArticleError(t, kind, says),
         UNCHANGED config
  PROVE  Inv' /\ Moved(t)
<1>1. /\ th[t].pc \in {"answered", "errored"} /\ UNCHANGED <<mem, file, authLock>>
      /\ UNCHANGED cache
  BY DEF ArticleError, At, authVars, sourceVars
<1>2. CASE th[t].purpose = "call" /\ MeansAbsence(kind, says)
  <2>1. Grounds(Why(t, kind, says))
    <3>1. says /\ kind \in {"fault", "lost"} /\ th[t].op \in Keys
      BY <1>2 DEF ArticleError, MeansAbsence, PayloadErrors, Inv, SourceInv, Informed, Errors
    <3> QED
      BY <3>1 DEF Grounds, Mistaken, Why, Keys
  <2>2. Give(t, kind, says)
    BY <1>2 DEF ArticleError
  <2> QED
    BY <1>1, <2>1, <2>2, GiveStep DEF UnderLock
<1>3. CASE ~(th[t].purpose = "call" /\ MeansAbsence(kind, says))
  <2>1. PICK result \in {"raised", "source_error"} : Step(t, Result(th[t], result))
    BY <1>3 DEF ArticleError
  <2>2. Answers(t, Result(th[t], result))
    BY <2>1, ResultStep
  <2> QED
    BY <1>1, <2>2, AnswersStep DEF UnderLock
<1> QED
  BY <1>2, <1>3

LEMMA StoreAnswerStep ==
  ASSUME Inv, NEW t \in Threads, StoreAnswer(t), UNCHANGED config
  PROVE  Inv' /\ Moved(t)
<1> DEFINE found == th[t].reply = "hit"
           why == Why(t, th[t].reply, th[t].said)
           row == [found |-> found, stale |-> FALSE, because |-> why]
<1>1. /\ th[t].pc = "store" /\ UNCHANGED <<mem, file, authLock>>
      /\ cache' = [cache EXCEPT ![th[t].op] = row]
      /\ Step(t, Onward(With(t, why), found))
  BY DEF StoreAnswer, Store, At, authVars
<1>2. (found <=> why.what = "hit") /\ (found \/ Grounds(why))
  BY <1>1 DEF Inv, SourceInv, Informed, Why
<1>3. Grounded(row)
  BY <1>2 DEF Grounded
<1> HIDE DEF found, why, row
<1>4. Answers(t, Onward(With(t, why), found))
  BY <1>1, <1>2, OnwardStep
<1> QED
  BY <1>1, <1>3, <1>4, AnswersStep DEF UnderLock

(* What the search found, or that it found nothing. *)
LEMMA AfterSearchStep ==
  ASSUME Inv, NEW t \in Threads, th[t].op = "search", th[t].pc \in {"answered", "errored"},
         NEW what, NEW said, what = "hit" \/ Grounds(Why(t, what, said)),
         Step(t, AfterSearch(With(t, Why(t, what, said)), what)),
         UNCHANGED <<config, mem, file, authLock, cache>>
  PROVE  Inv' /\ Moved(t)
<1> DEFINE why == Why(t, what, said)
           r == With(t, why)
<1>1. why.to = "search" /\ why.what = what /\ (what = "hit" \/ Grounds(why))
  BY DEF Why
<1> HIDE DEF why
<1>2. Carries(r, th[t]) /\ (what # "hit" => why \in r.reasons)
  BY <1>1, WithIs DEF Inv
<1>3. Step(t, AfterSearch(r, what))
  BY DEF why
<1> HIDE DEF r
<1>4. Rests(r.reasons)
  BY <1>2 DEF Carries
<1>5. Quiet(AfterSearch(r, what), th[t]) /\ Informed(AfterSearch(r, what))
  <2>1. CASE what = "hit"
    BY <1>2, <1>4, <2>1, AskIs, ResultIs DEF AfterSearch, Ops, Keys
  <2>2. CASE what = "unreferenced"
    BY <1>2, <1>4, <2>2, ResultIs DEF AfterSearch
  <2>3. CASE what \notin {"hit", "unreferenced"}
    <3>1. AfterSearch(r, what) = Result(r, "law_missing")
      BY <2>3 DEF AfterSearch
    <3>2. Searched(r.reasons)
      BY <1>1, <1>2, <2>3 DEF Searched
    <3> QED
      BY <1>2, <1>4, <2>3, <3>1, <3>2, ResultIs
  <2> QED
    BY <2>1, <2>2, <2>3
<1>6. Answers(t, AfterSearch(r, what))
  BY <1>3, <1>5 DEF Answers
<1> QED
  BY <1>6, AnswersStep DEF UnderLock

LEMMA SearchAnswerStep ==
  ASSUME Inv, NEW t \in Threads, NEW what, SearchAnswer(t, what), UNCHANGED config
  PROVE  Inv' /\ Moved(t)
<1>1. /\ th[t].pc = "answered" /\ th[t].op = "search"
      /\ UNCHANGED <<mem, file, authLock, cache>>
      /\ what \in {"hit", "unreferenced", "elsewhere", "absent"}
      /\ Step(t, AfterSearch(With(t, Why(t, what, FALSE)), what))
  BY DEF SearchAnswer, At, authVars, sourceVars
<1>2. what = "hit" \/ Grounds(Why(t, what, FALSE))
  BY <1>1 DEF Why, Grounds, Answered
<1> QED
  BY <1>1, <1>2, AfterSearchStep

(* An error of the payload that says "not found" is an empty list. *)
LEMMA SearchErrorStep ==
  ASSUME Inv, NEW t \in Threads, NEW says \in BOOLEAN, SearchError(t, says), UNCHANGED config
  PROVE  Inv' /\ Moved(t)
<1>1. /\ th[t].pc \in {"answered", "errored"} /\ th[t].op = "search"
      /\ UNCHANGED <<mem, file, authLock, cache>>
  BY DEF SearchError, At, authVars, sourceVars
<1>2. CASE th[t].pc = "answered" /\ says
  <2> DEFINE what == th[t].reply
  <2>1. what \in {"limit", "fault"} /\ Step(t, AfterSearch(With(t, Why(t, what, says)), what))
    BY <1>2 DEF SearchError, PayloadErrors, At
  <2>2. Grounds(Why(t, what, says))
    BY <1>1, <1>2, <2>1 DEF Why, Grounds, Mistaken
  <2> HIDE DEF what
  <2> QED
    BY <1>1, <2>1, <2>2, AfterSearchStep
<1>3. CASE ~(th[t].pc = "answered" /\ says)
  <2>1. PICK result \in {"raised", "source_error"} : Step(t, Result(th[t], result))
    BY <1>3 DEF SearchError, At
  <2>2. Answers(t, Result(th[t], result))
    BY <2>1, ResultStep
  <2> QED
    BY <1>1, <2>2, AnswersStep DEF UnderLock
<1> QED
  BY <1>2, <1>3

-----------------------------------------------------------------------------
(* The invariant, over every step.                                         *)

LEMMA Initially ==
  ASSUME Init
  PROVE  Inv
<1>1. /\ config \in Configs /\ th = [t \in Threads |-> Start]
      /\ mem = [d \in Docs |-> NoTokens] /\ authLock = [d \in Docs |-> NoThread]
  BY DEF Init
<1>2. /\ Shape(Start) /\ Start.pc = "idle" /\ Start.held = NoTokens /\ Start.bearer = NoTokens
      /\ Start.retried = FALSE /\ Start.err = "fault" /\ Start.reasons = {}
  BY DEF Start, Shape, Fields
<1>3. \A t \in Threads : th[t] = Start
  BY <1>1
<1>4. Shaped
  BY <1>1, <1>2, <1>3 DEF Shaped
<1>5. Typed /\ ServiceUnmarked
  <2>1. ASSUME NEW n \in Tokens
        PROVE  [access |-> n, refresh |-> n, marked |-> FALSE] \in TokenRecord
    BY DEF TokenRecord
  <2>2. (CHOOSE n \in Tokens : TRUE) \in Tokens
    BY TokenAssumption
  <2>3. file \in TokenRecord \cup {NoTokens, Torn}
    BY <2>1, <2>2 DEF Init
  <2> QED
    BY <1>1, <2>3, TokenAssumption DEF Typed, ServiceUnmarked
<1>6. TokenInv
  <2>1. \A t \in Threads : authLock[Doc(t)] # t
    BY <1>1, <1>4, Home
  <2> QED
    BY <1>2, <1>3, <1>5, <2>1
       DEF TokenInv, Holds, Fresh, Gone, Unsent, UnderLock, Marking
<1>7. SourceInv
  <2>1. cache = [k \in Keys |-> cache[k]] /\ \A k \in Keys : Grounded(cache[k])
    <3>1. \/ cache = [k \in Keys |-> NoRow]
          \/ cache = [k \in Keys |->
                         [found |-> TRUE, stale |-> TRUE,
                          because |-> [to |-> k, what |-> "hit", said |-> FALSE]]]
      BY DEF Init
    <3> QED
      BY <3>1 DEF Grounded
  <2>2. Informed(Start)
    BY <1>2 DEF Informed, Reasoned, Rests, Errors
  <2> QED
    BY <1>3, <2>1, <2>2 DEF SourceInv
<1> QED
  BY <1>4, <1>6, <1>7 DEF Inv

LEMMA ClientKeeps ==
  ASSUME Inv, NEW t \in Threads, ClientStep(t), UNCHANGED <<config, sourceVars>>
  PROVE  Inv'
<1>1. TokenInv' /\ Moved(t) /\ Unasked(t)
  BY ClientSteps DEF Inv
<1>2. Informed(th[t]) /\ UNCHANGED cache
  BY DEF Inv, SourceInv, sourceVars
<1>3. Informed(th'[t])
  BY <1>1, <1>2 DEF Unasked, Informed, Reasoned
<1> QED
  BY <1>1, <1>2, <1>3, SourceKept DEF Inv, Moved

(* Tokens that end, and sessions, are nothing the invariant is about. *)
LEMMA OutsideKeeps ==
  ASSUME Inv, Outside
  PROVE  Inv'
<1>1. UNCHANGED <<config, cache, mem, file, authLock>> /\ Threads' = Threads
  BY DEF Outside, TokenEnds, GatewayRestarts, authVars, sourceVars, Threads
<1>2. \A t \in Threads : Doc(t)' = Doc(t)
  BY <1>1 DEF Doc
<1>3. CASE TokenEnds
  <2>1. UNCHANGED th
    BY <1>3 DEF TokenEnds
  <2>2. Shaped' /\ SourceInv'
    BY <1>1, <2>1 DEF Inv, Shaped, SourceInv, Shape, Grounded, Informed, Reasoned
  <2>3. TokenInv'
    BY <1>1, <1>2, <2>1
       DEF Inv, TokenInv, Typed, ServiceUnmarked, Holds, Fresh, Gone, Unsent, Offers
  <2> QED
    BY <2>2, <2>3 DEF Inv
<1>4. CASE GatewayRestarts
  <2>1. th' = [t \in Threads |-> [th[t] EXCEPT !.header = Dead(th[t].header)]]
    BY <1>4 DEF GatewayRestarts
  <2>2. ASSUME NEW t \in Threads
        PROVE  /\ Shape(th'[t])
               /\ \A x \in Fields \ {"header"} : th'[t][x] = th[t][x]
    <3>1. Shape(th[t]) /\ th'[t] = [th[t] EXCEPT !.header = Dead(th[t].header)]
      BY <2>1 DEF Inv, Shaped
    <3> QED
      BY <3>1 DEF Shape, Fields
  <2>3. ASSUME NEW t \in Threads
        PROVE  /\ th'[t].pc = th[t].pc /\ th'[t].held = th[t].held
               /\ th'[t].bearer = th[t].bearer /\ th'[t].refused = th[t].refused
               /\ th'[t].retried = th[t].retried /\ th'[t].reasons = th[t].reasons
               /\ th'[t].err = th[t].err /\ th'[t].op = th[t].op
               /\ th'[t].reply = th[t].reply /\ th'[t].said = th[t].said
               /\ th'[t].result = th[t].result
               /\ th'[t].second = th[t].second /\ th'[t].post = th[t].post
    BY <2>2 DEF Fields
  <2>4. Shaped'
    BY <1>1, <2>1, <2>2 DEF Inv, Shaped, Shape
  <2>5. SourceInv'
    BY <1>1, <2>3 DEF Inv, SourceInv, Grounded, Informed, Reasoned
  <2>6. TokenInv'
    <3>1. Typed' /\ ServiceUnmarked'
      BY <1>1 DEF Inv, TokenInv, Typed, ServiceUnmarked
    <3>2. \A t \in Threads : (th[t].retried \in BOOLEAN /\ Holds(t) /\ Unsent(t))'
      BY <1>1, <1>2, <2>3 DEF Inv, TokenInv, Holds, Unsent
    <3>3. \A t \in Threads : Gone(t)'
      BY <1>1, <1>2, <2>3 DEF Inv, TokenInv, Gone, Offers
    <3>4. \A t \in Threads : Fresh(t)'
      BY <1>1, <1>2, <2>3 DEF Inv, TokenInv, Fresh, Offers
    <3> QED
      BY <1>1, <3>1, <3>2, <3>3, <3>4 DEF TokenInv
  <2> QED
    BY <2>4, <2>5, <2>6 DEF Inv
<1> QED
  BY <1>3, <1>4 DEF Outside

LEMMA Stuttering ==
  ASSUME Inv, UNCHANGED vars
  PROVE  Inv'
<1>1. UNCHANGED <<config, cache, mem, file, authLock, th>> /\ Threads' = Threads
  BY DEF vars, authVars, sourceVars, Threads
<1>2. \A t \in Threads : Doc(t)' = Doc(t)
  BY <1>1 DEF Doc
<1>3. Shaped' /\ SourceInv'
  BY <1>1 DEF Inv, Shaped, SourceInv, Shape, Grounded, Informed, Reasoned
<1>4. TokenInv'
  BY <1>1, <1>2
     DEF Inv, TokenInv, Typed, ServiceUnmarked, Holds, Fresh, Gone, Unsent, Offers
<1> QED
  BY <1>3, <1>4 DEF Inv

LEMMA NextKeeps ==
  ASSUME Inv, Next
  PROVE  Inv'
<1>1. ASSUME NEW t \in Threads, Begin(t) PROVE Inv'
  BY <1>1, LookupStep DEF Begin
<1>2. ASSUME NEW t \in Threads, Run(t) PROVE Inv'
  BY <1>2, ClientKeeps, CacheHitStep, CacheLookedAt, CacheLockedStep, ArticleAnswerStep,
     StoreAnswerStep, ArticleErrorStep, SearchAnswerStep, SearchErrorStep, ReturnStep DEF Run
<1> QED
  BY <1>1, <1>2, OutsideKeeps DEF Next

-----------------------------------------------------------------------------
(* The locks.                                                              *)

(* A step of this thread takes or leaves no lock but its own document's,   *)
(* and none that another holds.                                            *)
Turns(old, new, t) ==
  \/ new = old
  \/ new = [old EXCEPT ![Doc(t)] = t] /\ old[Doc(t)] = NoThread
  \/ new = [old EXCEPT ![Doc(t)] = NoThread] /\ old[Doc(t)] = t

LEMMA Leaving ==
  ASSUME Shaped, NEW t \in Threads, NEW old, old = [d \in Docs |-> old[d]],
         NEW new, new = [old EXCEPT ![Doc(t)] = IF old[Doc(t)] = t THEN NoThread ELSE old[Doc(t)]]
  PROVE  Turns(old, new, t) /\ new[Doc(t)] # t
BY Home DEF Turns

LEMMA LocksKept ==
  ASSUME Shaped, LockInv, NEW t \in Threads, Moved(t), Locked(t)',
         Turns(missLock, missLock', t), Turns(sessionLock, sessionLock', t),
         writer' # writer => writer' \in {t, NoThread}
  PROVE  LockInv'
<1>1. /\ missLock' = [d \in Docs |-> missLock'[d]]
      /\ sessionLock' = [d \in Docs |-> sessionLock'[d]]
  BY DEF LockInv, Turns
<1>2. ASSUME NEW u \in Threads, u # t PROVE Locked(u)'
  <2>1. u # NoThread /\ Doc(u) \in Docs /\ th'[u] = th[u] /\ Doc(u)' = Doc(u) /\ config' = config
    BY <1>2, Home DEF Moved
  <2>2. /\ missLock'[Doc(u)] = u <=> missLock[Doc(u)] = u
        /\ sessionLock'[Doc(u)] = u => sessionLock[Doc(u)] = u
    BY <1>2, <2>1 DEF LockInv, Turns
  <2>3. writer' = u => writer = u
    BY <1>2, <2>1
  <2>4. Locked(u)
    BY DEF LockInv
  <2> QED
    BY <2>1, <2>2, <2>3, <2>4 DEF Locked, HeldMissLock
<1> QED
  BY <1>1, <1>2 DEF LockInv, Moved

(* The lock of the handshake is left where the handshake ends. *)
LEMMA SessionLocked ==
  ASSUME Shaped, TokenInv, LockInv, NEW t \in Threads, ClientStep(t), UNCHANGED config
  PROVE  /\ Turns(sessionLock, sessionLock', t)
         /\ sessionLock'[Doc(t)] = t =>
              /\ th'[t].pc \in Sending
              /\ th'[t].pc # "failed" => th'[t].post \in {"initialize", "notify"}
<1> USE DEF At
<1>1. /\ sessionLock = [d \in Docs |-> sessionLock[d]]
      /\ sessionLock[Doc(t)] = t =>
           /\ th[t].pc \in Sending
           /\ th[t].pc # "failed" => th[t].post \in {"initialize", "notify"}
  BY DEF LockInv, Locked
<1>2. CASE AuthStep(t) /\ UNCHANGED clientVars
  <2>1. Authorising(t) /\ UNCHANGED sessionLock /\ th[t].pc # "failed"
    BY <1>2, AuthSteps
       DEF clientVars, AuthStep, StaticBearer, GetBearer, RefreshAccepted, RefreshRefused,
           RefreshBroken, LoginFails, CredentialsFail, Invalidate, Login, SaveTokens,
           ServiceBearer, Credentials, ServiceHandOver, Expire, OpenMarked, WriteMarked
  <2> QED
    BY <1>1, <2>1 DEF Authorising, Turns, Sending
<1>3. ASSUME UNCHANGED sessionLock,
             \/ th[t].pc \notin Sending
             \/ th[t].pc = "send" /\ th[t].post \notin {"initialize", "notify"}
      PROVE  Turns(sessionLock, sessionLock', t) /\ sessionLock'[Doc(t)] # t
  BY <1>1, <1>3 DEF Turns
<1>4. CASE \/ Resolve(t) \/ NameTool(t) \/ UseSession(t) \/ DropSession(t) \/ Uninitialise(t)
           \/ \E offered \in {{}, {"search"}, Kinds} : ListAnswered(t, offered)
           \/ \E reply \in Replies : CallAnswered(t, reply)
  BY <1>3, <1>4
     DEF Resolve, NameTool, UseSession, DropSession, Uninitialise, ListAnswered, CallAnswered,
         clientVars, Sending, UnderLock, Marking
<1>5. CASE Handshake(t)
  <2>1. Post(t, "initialize", "none") /\ UNCHANGED <<mem, file, authLock>> /\ th[t].pc = "session"
    BY <1>5 DEF Handshake, authVars
  <2>2. th'[t].pc = "bearer" /\ th'[t].post = "initialize"
    BY <2>1, PostStep DEF UnderLock
  <2> QED
    BY <1>5, <2>2 DEF Handshake, Turns, Sending
<1>6. CASE HandshakeAnswered(t)
  <2>1. UNCHANGED <<mem, file, authLock>> /\ th[t].pc = "send"
    BY <1>6 DEF HandshakeAnswered, authVars
  <2>2. CASE \E id : Post(t, "notify", id) /\ UNCHANGED sessionLock
    <3>1. th'[t].pc = "bearer" /\ th'[t].post = "notify"
      BY <2>1, <2>2, PostStep DEF UnderLock
    <3> QED
      BY <2>2, <3>1 DEF Turns, Sending
  <2>3. CASE LeaveSessionLock(t)
    BY <1>1, <2>3, Leaving DEF LeaveSessionLock
  <2> QED
    BY <1>6, <2>2, <2>3 DEF HandshakeAnswered
<1>7. CASE Unauthorised(t)
  <2>1. UNCHANGED sessionLock /\ th[t].pc = "send"
    BY <1>7 DEF Unauthorised, clientVars
  <2>2. th'[t].pc = "failed" \/ (th'[t].pc = "expire" /\ th'[t].post = th[t].post)
    BY <1>7, UnauthorisedStep
  <2> QED
    BY <1>1, <2>1, <2>2 DEF Turns, Sending
<1>8. CASE \E err \in Errors : Refused(t, err)
  <2>1. th'[t].pc = "failed" /\ UNCHANGED sessionLock
    BY <1>8, FailStep DEF Refused, clientVars, authVars, UnderLock
  <2> QED
    BY <2>1 DEF Turns, Sending
<1>9. CASE \E gone \in BOOLEAN : Failed(t, gone)
  BY <1>1, <1>9, Leaving DEF Failed, LeaveOnError, LeaveSessionLock
<1> QED
  BY <1>2, <1>4, <1>5, <1>6, <1>7, <1>8, <1>9 DEF ClientStep

LEMMA ClientLocks ==
  ASSUME Inv, LockInv, NEW t \in Threads, ClientStep(t), UNCHANGED <<config, sourceVars>>
  PROVE  LockInv'
<1>1. Moved(t) /\ Unasked(t) /\ UNCHANGED <<missLock, writer>>
  BY ClientSteps DEF Inv, sourceVars
<1>2. Locked(t)'
  <2>1. Locked(t) /\ Doc(t)' = Doc(t) /\ config' = config
    BY <1>1 DEF LockInv, Moved
  <2> QED
    BY <1>1, <2>1, SessionLocked DEF Inv, Locked, HeldMissLock, Unasked
<1> QED
  BY <1>1, <1>2, SessionLocked, LocksKept DEF Inv, Turns

(* The source takes and leaves _miss_lock, and is nowhere inside the       *)
(* handshake.                                                              *)
LEMMA MissLocked ==
  ASSUME Inv, LockInv, NEW t \in Threads, Moved(t), Turns(missLock, missLock', t),
         UNCHANGED sessionLock, th[t].pc \notin Sending,
         writer' # writer => writer' \in {t, NoThread},
         writer' = t => missLock'[Doc(t)] = t,
         missLock'[Doc(t)] = t =>
           config.cached /\ th'[t].op \in Keys /\ th'[t].pc \notin {"idle", "told", "probe"}
  PROVE  LockInv'
<1>1. sessionLock'[Doc(t)] # t /\ Doc(t)' = Doc(t) /\ config' = config
  BY DEF LockInv, Locked, Moved
<1>2. Locked(t)'
  BY <1>1 DEF Locked, HeldMissLock
<1> QED
  BY <1>2, LocksKept DEF Inv, Turns

LEMMA CacheLocks ==
  ASSUME Inv, LockInv, NEW t \in Threads, UNCHANGED config,
         CacheHit(t) \/ CacheMiss(t) \/ CacheStale(t) \/ CacheLocked(t) \/ StoreAnswer(t)
  PROVE  LockInv'
<1>1. /\ th[t].pc \in {"probe", "store"} /\ UNCHANGED sessionLock /\ th[t].pc \notin Sending
      /\ th[t].pc = "probe" => missLock[Doc(t)] # t
      /\ missLock = [d \in Docs |-> missLock[d]] /\ Doc(t) \in Docs /\ t # NoThread
  BY Home DEF CacheHit, CacheMiss, CacheStale, CacheLocked, StoreAnswer, At, clientVars,
     Sending, UnderLock, Marking, Inv, LockInv, Locked, HeldMissLock
<1>2. writer = t => missLock[Doc(t)] = t
  BY DEF LockInv, Locked, HeldMissLock
<1>3. CASE CacheHit(t)
  <2>1. UNCHANGED <<missLock, writer>> /\ th[t].pc = "probe"
    BY <1>3 DEF CacheHit, At, sourceVars
  <2> QED
    BY <1>1, <1>2, <1>3, <2>1, CacheHitStep, MissLocked DEF Turns
<1>4. CASE CacheMiss(t) \/ CacheStale(t)
  <2>1. /\ missLock' = [missLock EXCEPT ![Doc(t)] = t] /\ missLock[Doc(t)] = NoThread
        /\ writer' \in {writer, t} /\ th[t].pc = "probe"
    BY <1>4 DEF CacheMiss, CacheStale, MissLockFree, At
  <2>2. Moved(t) /\ th'[t].pc = "resolve" /\ th'[t].op = th[t].op
    BY <1>4, CacheLookedAt
  <2>3. th[t].op \in Keys /\ config.cached
    BY <2>1 DEF Inv, SourceInv, Informed
  <2> QED
    BY <1>1, <2>1, <2>2, <2>3, MissLocked DEF Turns
<1>5. CASE CacheLocked(t) \/ StoreAnswer(t)
  <2>1. Moved(t)
    BY <1>5, CacheLockedStep, StoreAnswerStep
  <2>2. /\ LeaveMissLock(t) /\ writer' # t
        /\ writer' # writer => writer' = NoThread
    BY <1>1, <1>5 DEF CacheLocked, StoreAnswer, Store
  <2>3. Turns(missLock, missLock', t) /\ missLock'[Doc(t)] # t
    BY <1>1, <2>2, Leaving DEF LeaveMissLock, Inv
  <2> QED
    BY <1>1, <2>1, <2>2, <2>3, MissLocked
<1> QED
  BY <1>3, <1>4, <1>5

LEMMA ArticleLocks ==
  ASSUME Inv, LockInv, NEW t \in Threads, UNCHANGED config,
         \/ ArticleAnswer(t)
         \/ \E kind \in Errors \cup Replies, says \in BOOLEAN : ArticleError(t, kind, says)
  PROVE  LockInv'
<1>1. /\ th[t].pc \notin Sending /\ UNCHANGED sessionLock /\ th[t].op \in Keys
      /\ missLock = [d \in Docs |-> missLock[d]]
      /\ missLock[Doc(t)] = t => config.cached
      /\ writer = t => missLock[Doc(t)] = t
  BY DEF ArticleAnswer, ArticleError, At, clientVars, Sending, UnderLock, Marking, Inv,
     LockInv, Locked, HeldMissLock
<1>2. Moved(t)
  BY ArticleAnswerStep, ArticleErrorStep
<1>3. CASE \E what, said : Give(t, what, said) /\ UNCHANGED sourceVars
  <2>1. UNCHANGED <<missLock, writer>>
    BY <1>3 DEF sourceVars
  <2>2. config.cached => th'[t].pc = "store" /\ th'[t].op = th[t].op
    <3> SUFFICES ASSUME config.cached PROVE th'[t].pc = "store" /\ th'[t].op = th[t].op
      OBVIOUS
    <3>1. PICK what, said : Step(t, [th[t] EXCEPT !.pc = "store", !.reply = what, !.said = said])
      BY <1>3 DEF Give
    <3> DEFINE r == [th[t] EXCEPT !.pc = "store", !.reply = what, !.said = said]
    <3>2. Shape(th[t])
      BY DEF Inv, Shaped
    <3>3. Shape(r) /\ r.pc = "store" /\ r.op = th[t].op
      BY <3>2 DEF Shape, Fields
    <3>4. Step(t, r)
      BY <3>1
    <3> HIDE DEF r
    <3> QED
      BY <3>3, <3>4, StepMoves DEF Inv
  <2> QED
    BY <1>1, <1>2, <2>1, <2>2, MissLocked DEF Turns
<1>4. CASE /\ LeaveMissLock(t)
           /\ writer' = IF writer = t THEN NoThread ELSE writer
  <2>1. Turns(missLock, missLock', t) /\ missLock'[Doc(t)] # t
    BY <1>1, <1>4, Leaving DEF LeaveMissLock, Inv
  <2>2. writer' # t /\ (writer' # writer => writer' = NoThread)
    BY <1>4, Home DEF Inv
  <2> QED
    BY <1>1, <1>2, <2>1, <2>2, MissLocked
<1> QED
  BY <1>3, <1>4 DEF ArticleAnswer, ArticleError

LEMMA OtherLocks ==
  ASSUME Inv, LockInv, NEW t \in Threads, UNCHANGED config,
         \/ \E wants : Lookup(t, wants)
         \/ \E what : SearchAnswer(t, what)
         \/ \E says \in BOOLEAN : SearchError(t, says)
         \/ Return(t)
  PROVE  LockInv'
<1>1. /\ UNCHANGED <<missLock, sessionLock, writer>> /\ th[t].pc \notin Sending
      /\ th[t].op = "search" \/ th[t].pc \in {"idle", "told"}
  BY DEF Lookup, SearchAnswer, SearchError, Return, At, clientVars, sourceVars, Sending,
     UnderLock, Marking
<1>2. missLock[Doc(t)] # t /\ writer # t
  BY <1>1 DEF LockInv, Locked, HeldMissLock, Keys
<1>3. Moved(t)
  BY LookupStep, SearchAnswerStep, SearchErrorStep, ReturnStep
<1> QED
  BY <1>1, <1>2, <1>3, MissLocked DEF Turns

LEMMA OutsideLocks ==
  ASSUME Inv, LockInv, Outside \/ UNCHANGED vars
  PROVE  LockInv'
<1>1. /\ UNCHANGED <<config, missLock, sessionLock, writer>> /\ Threads' = Threads
      /\ \A t \in Threads : Doc(t)' = Doc(t)
  BY DEF Outside, TokenEnds, GatewayRestarts, clientVars, sourceVars, vars, Threads, Doc
<1>2. ASSUME NEW t \in Threads
      PROVE  th'[t].pc = th[t].pc /\ th'[t].op = th[t].op /\ th'[t].post = th[t].post
  <2>1. CASE UNCHANGED th
    BY <2>1
  <2>2. CASE GatewayRestarts
    <3>1. th'[t] = [th[t] EXCEPT !.header = Dead(th[t].header)] /\ Shape(th[t])
      BY <2>2 DEF GatewayRestarts, Inv, Shaped
    <3> QED
      BY <3>1 DEF Shape, Fields
  <2> QED
    BY <2>1, <2>2 DEF Outside, TokenEnds, vars
<1>3. ASSUME NEW t \in Threads PROVE Locked(t)'
  BY <1>1, <1>2, <1>3 DEF LockInv, Locked, HeldMissLock
<1> QED
  BY <1>1, <1>3 DEF LockInv

LEMMA NextLocks ==
  ASSUME Inv, LockInv, Next
  PROVE  LockInv'
<1>1. ASSUME NEW t \in Threads, Begin(t) PROVE LockInv'
  BY <1>1, OtherLocks DEF Begin
<1>2. ASSUME NEW t \in Threads, Run(t) PROVE LockInv'
  BY <1>2, ClientLocks, CacheLocks, ArticleLocks, OtherLocks DEF Run
<1> QED
  BY <1>1, <1>2, OutsideLocks DEF Next

LEMMA LocksInitially ==
  ASSUME Init
  PROVE  LockInv
<1>1. /\ missLock = [d \in Docs |-> NoThread] /\ sessionLock = [d \in Docs |-> NoThread]
      /\ writer = NoThread
  BY DEF Init
<1>2. \A t \in Threads : Doc(t) \in Docs /\ t # NoThread
  BY Initially, Home DEF Inv
<1> QED
  BY <1>1, <1>2 DEF LockInv, Locked, HeldMissLock

-----------------------------------------------------------------------------
(* What every thread holds, marks and remembers is as the code relies on,  *)
(* in any number of threads, documents and lookups: the invariant the two  *)
(* theorems below rest on.                                                 *)
THEOREM TokensAccounted == Spec => []Inv
<1>1. Inv /\ [Next]_vars => Inv'
  BY NextKeeps, Stuttering
<1> QED
  BY Initially, <1>1, PTL DEF Spec

(* A request that was refused with 401 is not sent again with the same     *)
(* token (client.py:371-373): expire_access_token has marked or dropped    *)
(* the copy this document would take it from, and no thread brings it      *)
(* back, though it runs without _auth_lock.                                *)
THEOREM RefusedNotReused == Spec => []RefusedTokenNotReused
<1>1. Inv => RefusedTokenNotReused
  BY DEF Inv, TokenInv, Unsent, RefusedTokenNotReused, At
<1> QED
  BY <1>1, TokensAccounted, PTL

(* No absence is told or cached but on the word of the gateway, or of an   *)
(* error that says "not found" (client.py:129, 159): for a law one in the  *)
(* payload of the search, of any class; for an article one of no class of  *)
(* its own, in the payload, the transport or the login.  No other error    *)
(* becomes one (statutes.py:4-7).                                          *)
THEOREM AbsenceGrounded == Spec => []AbsenceRestsOnAnswer
<1>1. Inv => AbsenceRestsOnAnswer
  BY DEF Inv, SourceInv, Grounded, Informed, Reasoned, Rests, Searched, AbsenceRestsOnAnswer, At
<1> QED
  BY <1>1, TokensAccounted, PTL

(* Locks are taken in one order, and on every way a lookup can end,        *)
(* errors included, all of them are left (cache.py:75, client.py:304 and   *)
(* 102): no two threads, of one document or of several, wait for each      *)
(* other.                                                                  *)
THEOREM LocksOrdered == Spec => []LocksInOrder
<1>1. Inv /\ LockInv /\ [Next]_vars => LockInv'
  BY NextLocks, OutsideLocks
<1>2. Inv /\ LockInv => LocksInOrder
  <2> SUFFICES ASSUME Inv, LockInv, NEW t \in Threads
               PROVE  /\ th[t].pc \in {"idle", "told", "probe"} => ~HeldMissLock(t) /\ writer # t
                      /\ th[t].pc \in {"idle", "told", "probe", "session", "store"} =>
                           sessionLock[Doc(t)] # t /\ ~HasLock(t)
    BY DEF LocksInOrder
  <2>1. Locked(t) /\ Holds(t)
    BY DEF Inv, TokenInv, LockInv
  <2> QED
    BY <2>1 DEF Locked, Holds, HasLock, Sending, UnderLock, Marking
<1>3. Spec => []LockInv
  BY <1>1, LocksInitially, TokensAccounted, PTL DEF Spec
<1> QED
  BY <1>2, <1>3, TokensAccounted, PTL
=============================================================================
