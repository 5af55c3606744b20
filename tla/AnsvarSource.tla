---------------------------- MODULE AnsvarSource ----------------------------
(***************************************************************************)
(* retrieval/sources/ansvar/statutes.py and cache.py: the lookup of a      *)
(* foreign citation, with the seven-day cache in front of                  *)
(* get_article_text.  Each document has its source and client; the cache   *)
(* file is everybody's.  All lookups are about one citation: the exact     *)
(* request and the request by the identifier the search found are its two  *)
(* keys.                                                                   *)
(***************************************************************************)
EXTENDS AnsvarClient

CONSTANTS
  Configs,      \* the set-ups looked at: records of Configuration
  Lookups,      \* lookups of each thread
  NoRow         \* no row in provision_cache

VARIABLES
  cache,        \* provision_cache
  missLock,     \* holder of the _miss_lock of each document
  writer        \* thread whose transaction keeps the file locked for writing

sourceVars == <<cache, missLock, writer>>
vars == <<config, authVars, clientVars, sourceVars, th>>

Configuration(c) ==
  /\ c.auth \in Auth
  /\ c.doc \in [DOMAIN c.doc -> Docs]
  /\ c.stateful \in BOOLEAN     \* the gateway gives sessions
  /\ c.confusing \in BOOLEAN    \* other errors may speak of a session, or of a 404
  /\ c.discovers \in BOOLEAN    \* the tools are not named by the environment
  /\ c.cached \in BOOLEAN       \* cache_enabled()
  /\ c.warm \in BOOLEAN         \* earlier lookups have made the handshake
  /\ c.saved \in BOOLEAN        \* an earlier run has left tokens on file
  /\ c.asks \subseteq {"law", "article"}

ASSUME ConfigAssumption ==
  \A c \in Configs : Configuration(c) /\ NoThread \notin DOMAIN c.doc

Keys == {"exact", "article"}
Ops == Keys \cup {"search"}
Results == {"found", "article_missing", "law_missing", "law_only", "source_error", "raised"}

(* Why a search or a request came back with nothing: what was asked, what  *)
(* came of it, and whether that was an error that says "not found".        *)
Outcomes == Replies \cup Errors \cup {"elsewhere", "unreferenced"}
Reason == [to : Ops, what : Outcomes, said : BOOLEAN]

(* A row: the text, or that there is none; stale when it is older than     *)
(* seven days.  because is history: what the row was made of.              *)
Row == [found : BOOLEAN, stale : BOOLEAN, because : Reason]

ASSUME RowAssumption == NoRow \notin Row

Start ==
  [pc |-> "idle", op |-> "search", wants |-> "law", purpose |-> "call", post |-> "call",
   header |-> "none", again |-> FALSE, reply |-> "absent", said |-> FALSE,
   held |-> NoTokens, second |-> FALSE, bearer |-> NoTokens, refused |-> NoTokens,
   retried |-> FALSE, err |-> "fault", reasons |-> {}, result |-> "none", left |-> Lookups]

(* Tokens of an earlier run may be on file, in a program that logs in;     *)
(* rows of earlier runs in the cache.                                      *)
Init ==
  /\ config \in Configs
  /\ mem = [d \in Docs |-> NoTokens]
  /\ file = IF config.saved
            THEN LET n == CHOOSE n \in Tokens : TRUE
                 IN [access |-> n, refresh |-> n, marked |-> FALSE]
            ELSE NoTokens
  /\ authLock = [d \in Docs |-> NoThread]
  /\ lapsed = {} /\ revoked = {} /\ ended = 0
  /\ refreshable = {r.refresh : r \in {file} \ {NoTokens}}
  /\ session = [d \in Docs |-> IF config.warm /\ config.stateful THEN "live" ELSE "none"]
  /\ initialized = [d \in Docs |-> config.warm]
  /\ sessionLock = [d \in Docs |-> NoThread]
  /\ tools = [d \in Docs |-> {}]
  /\ named = [d \in Docs |-> IF config.discovers THEN {} ELSE Kinds]
  /\ cache \in {[k \in Keys |-> NoRow]} \cup
              IF config.cached
              THEN {[k \in Keys |-> [found |-> TRUE, stale |-> TRUE,
                                      because |-> [to |-> k, what |-> "hit", said |-> FALSE]]]}
              ELSE {}
  /\ missLock = [d \in Docs |-> NoThread] /\ writer = NoThread
  /\ th = [t \in Threads |-> Start]

-----------------------------------------------------------------------------
(* AnsvarSource.lookup.                                                    *)

(* One call of the client: over the cache for the text of an article.      *)
Ask(r, op) ==
  [r EXCEPT !.op = op, !.again = FALSE, !.purpose = "call", !.reply = "absent", !.said = FALSE,
            !.err = "fault",
            !.pc = IF op = "search" \/ ~config.cached THEN "resolve" ELSE "probe"]

Lookup(t, wants) ==
  /\ At(t, "idle") /\ th[t].left > 0
  /\ Step(t, Ask([th[t] EXCEPT !.wants = wants, !.reasons = {}, !.result = "none",
                               !.left = @ - 1],
                  IF wants = "article" THEN "exact" ELSE "search"))
  /\ UNCHANGED <<authVars, clientVars, sourceVars>>

(* The LookupResult, and the exception that escapes: the caller has it     *)
(* once the thread is free again.                                          *)
Result(r, result) ==
  [Start EXCEPT !.pc = "told", !.result = result, !.left = r.left, !.reasons = r.reasons]

Return(t) ==
  /\ At(t, "told")
  /\ Step(t, [Start EXCEPT !.left = th[t].left])
  /\ UNCHANGED <<authVars, clientVars, sourceVars>>

(* What follows from the text of an article, or from there being none.     *)
Onward(r, found) ==
  IF found THEN Result(r, "found")
  ELSE IF r.op = "exact" THEN Ask(r, "search")
  ELSE Result(r, "article_missing")

(* _pick_match takes no record of another jurisdiction; a record with no   *)
(* identifier and no arguments leaves nothing to ask for.                  *)
AfterSearch(r, what) ==
  IF what = "hit"
  THEN IF r.wants = "article" THEN Ask(r, "article") ELSE Result(r, "law_only")
  ELSE Result(r, IF what = "unreferenced" THEN "article_missing" ELSE "law_missing")

(* Why there was nothing is kept for the history.                          *)
Why(t, what, said) == [to |-> th[t].op, what |-> what, said |-> said]
With(t, why) == [th[t] EXCEPT !.reasons = IF why.what = "hit" THEN @ ELSE @ \cup {why}]

-----------------------------------------------------------------------------
(* CachedAnsvarClient.get_article_text.                                    *)

MissLockFree(t) == missLock[Doc(t)] = NoThread
HeldMissLock(t) == missLock[Doc(t)] = t
LeaveMissLock(t) == missLock' = [missLock EXCEPT ![Doc(t)] = IF @ = t THEN NoThread ELSE @]

(* A fresh row answers.                                                    *)
CacheHit(t) ==
  /\ At(t, "probe") /\ MissLockFree(t)
  /\ LET row == cache[th[t].op] IN
     /\ row # NoRow /\ ~row.stale
     /\ Step(t, Onward(With(t, row.because), row.found))
  /\ UNCHANGED <<authVars, clientVars, sourceVars>>

CacheMiss(t) ==
  /\ At(t, "probe") /\ MissLockFree(t) /\ cache[th[t].op] = NoRow
  /\ missLock' = [missLock EXCEPT ![Doc(t)] = t]
  /\ Goto(t, "resolve")
  /\ UNCHANGED <<authVars, clientVars, cache, writer>>

(* The row is deleted; the transaction stays open until the answer is      *)
(* stored, so that the others go on reading the old row.                   *)
CacheStale(t) ==
  /\ At(t, "probe") /\ MissLockFree(t) /\ writer = NoThread
  /\ cache[th[t].op] # NoRow /\ cache[th[t].op].stale
  /\ missLock' = [missLock EXCEPT ![Doc(t)] = t]
  /\ writer' = t
  /\ Goto(t, "resolve")
  /\ UNCHANGED <<authVars, clientVars, cache>>

Store(t, row) ==
  /\ cache' = [cache EXCEPT ![th[t].op] = row]
  /\ writer' = NoThread
  /\ LeaveMissLock(t)

(* SQLite waits five seconds for the lock of another connection; its       *)
(* OperationalError is no AnsvarMcpError.                                  *)
CacheLocked(t) ==
  /\ At(t, "probe") \/ (At(t, "store") /\ ~(writer = t))
  /\ writer \notin {t, NoThread}
  /\ At(t, "probe") => MissLockFree(t) /\ cache[th[t].op] # NoRow /\ cache[th[t].op].stale
  /\ LeaveMissLock(t)
  /\ Step(t, Result(th[t], "raised"))
  /\ UNCHANGED <<authVars, clientVars, cache, writer>>

-----------------------------------------------------------------------------
(* What the client makes of an answer or an error, and lookup of that.     *)

(* get_article_text takes an AnsvarMcpError that is no subclass for an     *)
(* absence if it says "not found", whatever raised it: the gateway, HTTP,  *)
(* the OAuth server.  Any may say so (says).  An error in finding the tool *)
(* (purpose) is raised before that.                                        *)
(* Mutant: the subclasses are not told apart. *)
AnyError(kind, says) == says /\ kind # "raised"
MeansAbsence(kind, says) == says /\ kind \notin {"limit", "raised"}

PayloadErrors == {"limit", "fault"}

(* The text of an article arrived, or its absence.                         *)
Give(t, what, said) ==
  IF config.cached
  THEN Step(t, [th[t] EXCEPT !.pc = "store", !.reply = what, !.said = said])
  ELSE Step(t, Onward(With(t, Why(t, what, said)), what = "hit"))

ArticleAnswer(t) ==
  /\ At(t, "answered") /\ th[t].op \in Keys /\ th[t].reply \in {"hit", "absent"}
  /\ Give(t, th[t].reply, FALSE)
  /\ UNCHANGED <<authVars, clientVars, sourceVars>>

StoreAnswer(t) ==
  /\ At(t, "store") /\ writer \in {t, NoThread}
  /\ LET found == th[t].reply = "hit"
         why == Why(t, th[t].reply, th[t].said)
     IN /\ Store(t, [found |-> found, stale |-> FALSE, because |-> why])
        /\ Step(t, Onward(With(t, why), found))
  /\ UNCHANGED <<authVars, clientVars>>

(* Errors in the payload and errors of the transport, in a request for an  *)
(* article; with conn rolls a deletion back.                               *)
ArticleError(t, kind, says) ==
  /\ th[t].op \in Keys
  /\ \/ At(t, "answered") /\ kind = th[t].reply /\ kind \in PayloadErrors
     \/ At(t, "errored") /\ kind = th[t].err
  /\ IF th[t].purpose = "call" /\ MeansAbsence(kind, says)
     THEN Give(t, kind, says) /\ UNCHANGED sourceVars
     ELSE /\ Step(t, Result(th[t], IF kind = "raised" THEN "raised" ELSE "source_error"))
          /\ LeaveMissLock(t)
          /\ writer' = IF writer = t THEN NoThread ELSE writer
          /\ UNCHANGED cache
  /\ UNCHANGED <<authVars, clientVars>>

SearchAnswer(t, what) ==
  /\ At(t, "answered") /\ th[t].op = "search"
  /\ \/ /\ th[t].reply = "hit" /\ what \in {"hit", "unreferenced", "elsewhere"}
        /\ what = "unreferenced" => th[t].wants = "article"
     \/ th[t].reply = "absent" /\ what = "absent"
  /\ Step(t, AfterSearch(With(t, Why(t, what, FALSE)), what))
  /\ UNCHANGED <<authVars, clientVars, sourceVars>>

(* search_law takes every error of the payload that says "not found" for   *)
(* an empty list, of whatever class, and none of the transport.            *)
SearchError(t, says) ==
  /\ th[t].op = "search"
  /\ \/ /\ At(t, "answered") /\ th[t].reply \in PayloadErrors
        /\ Step(t, IF says THEN AfterSearch(With(t, Why(t, th[t].reply, says)), th[t].reply)
                   ELSE Result(th[t], "source_error"))
     \/ /\ At(t, "errored")
        /\ Step(t, Result(th[t], IF th[t].err = "raised" THEN "raised" ELSE "source_error"))
  /\ UNCHANGED <<authVars, clientVars, sourceVars>>

-----------------------------------------------------------------------------
Run(t) ==
  \/ ClientStep(t) /\ UNCHANGED <<config, sourceVars>>
  \/ /\ UNCHANGED config
     /\ \/ CacheHit(t) \/ CacheMiss(t) \/ CacheStale(t) \/ CacheLocked(t)
        \/ ArticleAnswer(t) \/ StoreAnswer(t)
        \/ \E kind \in Errors \cup Replies, says \in BOOLEAN : ArticleError(t, kind, says)
        \/ \E what \in Outcomes : SearchAnswer(t, what)
        \/ \E says \in BOOLEAN : SearchError(t, says)
        \/ Return(t)

Begin(t) == \E wants \in config.asks : Lookup(t, wants) /\ UNCHANGED config

Outside ==
  /\ UNCHANGED <<config, sourceVars>>
  /\ \/ TokenEnds /\ UNCHANGED clientVars
     \/ GatewayRestarts

Next == Outside \/ \E t \in Threads : Begin(t) \/ Run(t)

(* The operating system always runs some thread that can go on: urlopen    *)
(* has a timeout, and the wait for the user's login one of five minutes.   *)
Fairness == WF_vars(\E t \in Threads : Run(t))

Spec == Init /\ [][Next]_vars /\ Fairness

-----------------------------------------------------------------------------
TypeOK ==
  /\ Configuration(config)
  /\ ClientTypeOK
  /\ cache \in [Keys -> Row \cup {NoRow}]
  /\ missLock \in [Docs -> Threads \cup {NoThread}]
  /\ writer \in Threads \cup {NoThread}
  /\ \A t \in Threads :
       /\ th[t].op \in Ops /\ th[t].header \in Headers
       /\ th[t].result \in Results \cup {"none"}

(* What is told or cached as the absence of a law or of its article rests  *)
(* on an answer of the gateway, over all retries, sessions, documents and  *)
(* rows, as statutes.py:4-7 wants it, or on an error that says "not        *)
(* found", which the code cannot tell from one (client.py:129, 159):       *)
(*   - asked for an article, any error of the transport or of the OAuth    *)
(*     server, but never the quota or the package;                         *)
(*   - asked for a law, any error in the payload, even of the quota or the *)
(*     package, but never one of the transport.                            *)
(* No other error is, and a law is only absent if the search said so.      *)
Answered(why) == why.what \in {"absent", "elsewhere", "unreferenced"}
Mistaken(why) ==
  /\ why.said
  /\ why.what \in IF why.to = "search" THEN {"limit", "fault"} ELSE {"lost", "fault"}
Grounds(why) == Answered(why) \/ Mistaken(why)

AbsenceRestsOnAnswer ==
  /\ \A k \in Keys : cache[k] # NoRow /\ ~cache[k].found => Grounds(cache[k].because)
  /\ \A t \in Threads : At(t, "told") /\ th[t].result \in {"law_missing", "article_missing"} =>
       /\ th[t].reasons # {} /\ \A why \in th[t].reasons : Grounds(why)
       /\ th[t].result = "law_missing" =>
            \E why \in th[t].reasons : why.to = "search" /\ why.what # "unreferenced"

(* Locks are taken in one order, _miss_lock with the lock on the cache     *)
(* file, _session_lock, _auth_lock: a thread that waits for one holds none *)
(* of those behind it, and once its lookup is over, on every error path,   *)
(* it holds none at all.  No two threads wait for each other.              *)
LocksInOrder ==
  \A t \in Threads :
    /\ th[t].pc \in {"idle", "told", "probe"} => ~HeldMissLock(t) /\ writer # t
    /\ th[t].pc \in {"idle", "told", "probe", "session", "store"} =>
         sessionLock[Doc(t)] # t /\ ~HasLock(t)

(* Every lookup ends: with _miss_lock, _session_lock and _auth_lock taken  *)
(* inside one another, errors at every place, sessions lost and tokens     *)
(* refused, no thread is left waiting.                                     *)
AllIdle == \A t \in Threads : At(t, "idle")
LookupsEnd == ~AllIdle ~> AllIdle
=============================================================================
