---------------------------- MODULE PkulawClient ----------------------------
(***************************************************************************)
(* retrieval/sources/pkulaw/client.py: the threads of the running          *)
(* documents calling Pkulaw.  The threads of one document share a client,  *)
(* with a lock around its first request (the probe), a lock around every   *)
(* request and a circuit breaker; all clients share one HTTP pool, of one  *)
(* connection.                                                             *)
(*                                                                         *)
(* A lock is taken in one step with the circuit check that follows it.     *)
(* Time is abstract: an open circuit may expire, and a wait for the pool   *)
(* may time out, at any moment.  A thread makes a given number of calls.   *)
(***************************************************************************)
EXTENDS Integers, FiniteSets

CONSTANTS
  Threads,
  Clients,      \* PkulawMcpClient objects, one per running document
  ClientOf,     \* the client each thread calls through
  MaxAttempts,  \* posts of one call
  MaxCalls,     \* calls of one thread
  NoThread      \* a lock or connection nobody holds

ASSUME ClientAssumption ==
  /\ ClientOf \in [Threads -> Clients]
  /\ NoThread \notin Threads

ASSUME BoundAssumption ==
  /\ MaxAttempts \in Nat \ {0}
  /\ MaxCalls \in Nat

VARIABLES
  pc,           \* where a thread is in _call_tool
  role,         \* how its call passed the probe
  attempt,      \* attempts made by its call
  service,      \* last_failure_was_service_error
  calls,        \* calls it has yet to make
  probe,        \* _initial_probe of a client
  probeLock,    \* holder of _probe_lock
  requestLock,  \* holder of _request_lock
  circuit,      \* "open" while _circuit_open_until lies ahead
  conn          \* holder of the pool's connection

threadVars == <<pc, role, attempt, service, calls>>
clientVars == <<probe, probeLock, requestLock, circuit>>
vars == <<threadVars, clientVars, conn>>

PC == {"idle", "want_probe", "check", "want_request", "connect", "post",
       "backoff", "end_probe"}
Roles == {"none", "queued", "direct", "prober"}

Calling(t) == pc[t] # "idle"
InRequest(t) == pc[t] \in {"connect", "post", "backoff"}

(* Nobody is calling; a client may have made its first call before.        *)
Init ==
  /\ pc = [t \in Threads |-> "idle"]
  /\ role = [t \in Threads |-> "none"]
  /\ attempt = [t \in Threads |-> 0]
  /\ service = [t \in Threads |-> FALSE]
  /\ calls \in [Threads -> {MaxCalls}]
  /\ probe \in [Clients -> BOOLEAN]
  /\ probeLock = [c \in Clients |-> NoThread]
  /\ requestLock = [c \in Clients |-> NoThread]
  /\ circuit = [c \in Clients |-> "closed"]
  /\ conn = NoThread

-----------------------------------------------------------------------------
Goto(t, where) == pc' = [pc EXCEPT ![t] = where]

(* Mutant: only a thread that meets the running probe waits for it. *)
ProbeRunning(t) == probeLock[ClientOf[t]] # NoThread

(* _call_tool reads _initial_probe without a lock. *)
ProbePending(t) == probe[ClientOf[t]]

Call(t) ==
  /\ pc[t] = "idle" /\ calls[t] > 0
  /\ calls' = [calls EXCEPT ![t] = @ - 1]
  /\ Goto(t, IF ProbePending(t) THEN "want_probe" ELSE "check")
  /\ role' = [role EXCEPT ![t] = IF ProbePending(t) THEN "queued" ELSE "direct"]
  /\ UNCHANGED <<attempt, service, clientVars, conn>>

(* _raise_if_circuit_open raises: the call fails without a request. *)
Paused(t) == circuit[ClientOf[t]] = "open"

(* with self._probe_lock: whoever finds the probe undone makes it, holding *)
(* the lock; the others give the lock back.                                *)
ProbePaused(t) ==
  /\ pc[t] = "want_probe" /\ probeLock[ClientOf[t]] = NoThread
  /\ Paused(t)
  /\ Goto(t, "idle")
  /\ UNCHANGED <<role, attempt, service, calls, clientVars, conn>>

BecomeProber(t) ==
  /\ pc[t] = "want_probe" /\ probeLock[ClientOf[t]] = NoThread
  /\ ~Paused(t) /\ probe[ClientOf[t]]
  /\ probeLock' = [probeLock EXCEPT ![ClientOf[t]] = t]
  /\ role' = [role EXCEPT ![t] = "prober"]
  /\ Goto(t, "want_request")
  /\ UNCHANGED <<attempt, service, calls, probe, requestLock, circuit, conn>>

ProbeDone(t) ==
  /\ pc[t] = "want_probe" /\ probeLock[ClientOf[t]] = NoThread
  /\ ~Paused(t) /\ ~probe[ClientOf[t]]
  /\ Goto(t, "check")
  /\ UNCHANGED <<role, attempt, service, calls, clientVars, conn>>

Check(t) ==
  /\ pc[t] = "check"
  /\ Goto(t, IF Paused(t) THEN "idle" ELSE "want_request")
  /\ UNCHANGED <<role, attempt, service, calls, clientVars, conn>>

(* Mutant: the prober forgets that it holds the probe lock. *)
LeaveTheProbe(t) == "idle"

(* Where a call goes when it is over: the prober still ends the probe. *)
Leave(t) == IF role[t] = "prober" THEN "end_probe" ELSE "idle"

(* Mutants: the circuit is not looked at again; the lock is not taken.     *)
NotRechecked(t) == FALSE
NoQueue(t) == TRUE

(* _serialized_tool_call checks the circuit again once it has the lock. *)
PausedInLock(t) == Paused(t)
RequestLockFree(t) == requestLock[ClientOf[t]] = NoThread

RequestPaused(t) ==
  /\ pc[t] = "want_request" /\ RequestLockFree(t)
  /\ PausedInLock(t)
  /\ Goto(t, Leave(t))
  /\ UNCHANGED <<role, attempt, service, calls, clientVars, conn>>

BeginRequest(t) ==
  /\ pc[t] = "want_request" /\ RequestLockFree(t)
  /\ ~PausedInLock(t)
  /\ requestLock' = [requestLock EXCEPT ![ClientOf[t]] = t]
  /\ attempt' = [attempt EXCEPT ![t] = 1]
  /\ service' = [service EXCEPT ![t] = FALSE]
  /\ Goto(t, "connect")
  /\ UNCHANGED <<role, calls, probe, probeLock, circuit, conn>>

(* The pool hands out its one connection. *)
Connect(t) ==
  /\ pc[t] = "connect" /\ conn = NoThread
  /\ conn' = t
  /\ Goto(t, "post")
  /\ UNCHANGED <<role, attempt, service, calls, clientVars>>

(* The call is over: the request lock is released, and an answer that is   *)
(* known to repeat opens the circuit.                                      *)
EndCall(t, opens) ==
  /\ Goto(t, Leave(t))
  /\ requestLock' = [requestLock EXCEPT ![ClientOf[t]] = NoThread]
  /\ circuit' = IF opens THEN [circuit EXCEPT ![ClientOf[t]] = "open"] ELSE circuit
  /\ UNCHANGED <<role, attempt, calls, probe, probeLock>>

(* Mutants: one attempt more; attempts that are not counted; a network     *)
(* error after a 5xx still counts as one.                                  *)
OneAttemptMore(t) == attempt[t] <= MaxAttempts
SameAttempt(t) == attempt[t]
ServiceErrorStays(t) == service' = service

AttemptsLeft(t) == attempt[t] < MaxAttempts
NextAttempt(t) == attempt[t] + 1
NotServiceError(t) == service' = [service EXCEPT ![t] = FALSE]

(* The three attempts are used up: only a gateway 5xx opens the circuit.   *)
Exhausted(t) ==
  /\ ~AttemptsLeft(t)
  /\ EndCall(t, service'[t])

(* Mutant: the request lock is given back for the time of the backoff. *)
TryAgainUnlocked(t) ==
  /\ AttemptsLeft(t)
  /\ Goto(t, "backoff")
  /\ requestLock' = [requestLock EXCEPT ![ClientOf[t]] = NoThread]
  /\ UNCHANGED <<role, attempt, calls, probe, probeLock, circuit>>

TryAgain(t) ==
  /\ AttemptsLeft(t)
  /\ Goto(t, "backoff")
  /\ UNCHANGED <<role, attempt, calls, clientVars>>

Answered(t, opens) ==
  /\ pc[t] = "post" /\ conn' = NoThread
  /\ service' = service
  /\ EndCall(t, opens)

Succeeds(t) == Answered(t, FALSE)

(* A 4xx is never tried again; 401, 403 and 429 open the circuit.          *)
Rejected(t) ==
  \E answer \in {"auth", "quota", "refused"} :
    Answered(t, answer \in {"auth", "quota"})

ServiceError(t) ==
  /\ pc[t] = "post" /\ conn' = NoThread
  /\ service' = [service EXCEPT ![t] = TRUE]
  /\ Exhausted(t) \/ TryAgain(t)

(* httpx.HTTPError: the exchange broke off, or the pool's connection did   *)
(* not come free within its timeout.                                       *)
NetworkError(t) ==
  /\ \/ pc[t] = "post" /\ conn' = NoThread
     \/ pc[t] = "connect" /\ conn # NoThread /\ conn' = conn
  /\ NotServiceError(t)
  /\ Exhausted(t) \/ TryAgain(t)

Retry(t) ==
  /\ pc[t] = "backoff"
  /\ attempt' = [attempt EXCEPT ![t] = NextAttempt(t)]
  /\ Goto(t, "connect")
  /\ UNCHANGED <<role, service, calls, clientVars, conn>>

(* finally: _initial_probe = False; then the probe lock is released.       *)
EndProbe(t) ==
  /\ pc[t] = "end_probe"
  /\ probe' = [probe EXCEPT ![ClientOf[t]] = FALSE]
  /\ probeLock' = [probeLock EXCEPT ![ClientOf[t]] = NoThread]
  /\ Goto(t, "idle")
  /\ UNCHANGED <<role, attempt, service, calls, requestLock, circuit, conn>>

(* The pause of a circuit runs out. *)
Expire(c) ==
  /\ circuit[c] = "open"
  /\ circuit' = [circuit EXCEPT ![c] = "closed"]
  /\ UNCHANGED <<threadVars, probe, probeLock, requestLock, conn>>

Run(t) ==
  \/ Call(t)
  \/ ProbePaused(t) \/ BecomeProber(t) \/ ProbeDone(t) \/ Check(t)
  \/ RequestPaused(t) \/ BeginRequest(t) \/ Connect(t)
  \/ Succeeds(t) \/ Rejected(t) \/ ServiceError(t) \/ NetworkError(t) \/ Retry(t)
  \/ EndProbe(t)

AllDone == \A t \in Threads : pc[t] = "idle" /\ calls[t] = 0

Done == AllDone /\ UNCHANGED vars

Next == (\E t \in Threads : Run(t)) \/ (\E c \in Clients : Expire(c)) \/ Done

Spec == Init /\ [][Next]_vars

(* Every exchange has a timeout and every thread is scheduled; the locks   *)
(* need not be fair, and no pause needs to expire.                         *)
FairSpec == Spec /\ \A t \in Threads : WF_vars(Run(t))

-----------------------------------------------------------------------------
TypeOK ==
  /\ pc \in [Threads -> PC]
  /\ role \in [Threads -> Roles]
  /\ attempt \in [Threads -> 0 .. MaxAttempts]
  /\ service \in [Threads -> BOOLEAN]
  /\ calls \in [Threads -> 0 .. MaxCalls]
  /\ probe \in [Clients -> BOOLEAN]
  /\ probeLock \in [Clients -> Threads \cup {NoThread}]
  /\ requestLock \in [Clients -> Threads \cup {NoThread}]
  /\ circuit \in [Clients -> {"open", "closed"}]
  /\ conn \in Threads \cup {NoThread}

(* No request of a document is on its way while its circuit is open: the   *)
(* check before the queue may be stale by the time the lock is had, the    *)
(* one inside the lock may not.                                            *)
NoRequestWhilePaused ==
  \A t \in Threads : InRequest(t) => circuit[ClientOf[t]] = "closed"

(* Until the first request of a document has ended, it is the only one:    *)
(* threads that read _initial_probe before or while the probe runs never   *)
(* reach the gateway beside it.                                            *)
SingleFlightProbe ==
  \A t \in Threads : InRequest(t) /\ probe[ClientOf[t]] => role[t] = "prober"

(* A request waits for the pool's only connection, and can time out on it, *)
(* only because of another document: the request lock keeps the threads of *)
(* one document off each other.                                            *)
PoolHeldByOthersOnly ==
  \A t \in Threads :
    pc[t] = "connect" /\ conn # NoThread => ClientOf[conn] # ClientOf[t]

(* How far into its call a thread is. *)
Stage == [idle |-> 0, want_probe |-> 1, check |-> 2, want_request |-> 3,
          connect |-> 4, post |-> 5, backoff |-> 6, end_probe |-> 7]

(* t waits for what u holds: the probe, the queue or the connection.       *)
Behind(t, u) ==
  \/ pc[t] = "want_probe" /\ probeLock[ClientOf[t]] = u
  \/ pc[t] = "want_request" /\ requestLock[ClientOf[t]] = u
  \/ pc[t] = "connect" /\ conn = u

(* Who waits for a thread waits for one further on in its call.  So the    *)
(* two locks of a document and the connection of all of them never close a *)
(* circle, and a thread that has ended its call holds nothing.             *)
WaitsLeadOn ==
  \A t, u \in Threads : Behind(t, u) => Stage[pc[u]] > Stage[pc[t]]

(* A step that keeps t in its call takes it further, or from one attempt   *)
(* to the next as long as there are any; an attempt is never made twice.   *)
Further(t) ==
  \/ /\ Stage[pc'[t]] > Stage[pc[t]]
     /\ InRequest(t) => attempt'[t] = attempt[t]
  \/ /\ InRequest(t) /\ pc'[t] = "connect"
     /\ attempt'[t] = attempt[t] + 1 /\ attempt'[t] <= MaxAttempts

(* Whatever the gateway does, a call of a thread is used up by a number of *)
(* steps that is bounded beforehand: no two failures send it in a circle.  *)
CallsLeadOn ==
  [][\A t \in Threads :
       \/ UNCHANGED <<pc[t], calls[t]>>
       \/ pc[t] = "idle" /\ calls'[t] < calls[t]
       \/ pc[t] # "idle" /\ calls'[t] = calls[t] /\ (pc'[t] = "idle" \/ Further(t))]_vars

(* A broken connection concerns its own request only and never pauses the  *)
(* document (client.py: connection and TLS jitter must not block the       *)
(* others), whatever its earlier attempts met.                             *)
NetworkErrorsNeverPause ==
  [][\A t \in Threads : NetworkError(t) => UNCHANGED circuit]_vars

(* The requests of a document, as Pkulaw sees them: those of the thread    *)
(* that holds its request lock.                                            *)
Serving(c) == requestLock[c] # NoThread

Phase == [c \in Clients |-> IF Serving(c) THEN pc[requestLock[c]] ELSE "free"]
Posts == [c \in Clients |-> IF Serving(c) THEN attempt[requestLock[c]] ELSE 0]
Pausing == {c \in Clients : circuit[c] = "open"}
Line == {ClientOf[t] : t \in Threads \cap {conn}}

Caller == INSTANCE PkulawCaller WITH
  Callers <- Clients, MaxPosts <- MaxAttempts,
  phase <- Phase, posts <- Posts, pausing <- Pausing, line <- Line

(* The threads of a document are to Pkulaw one caller that makes one call  *)
(* after the other: no call of another thread comes between two posts of a *)
(* call, its posts are counted, and the document pauses only at the end of *)
(* a call whose last post went out, whatever the probe, the locks and the  *)
(* pool let the threads do meanwhile (client.py: one queue over one        *)
(* connection, so that concurrent handshakes do not make the gateway time  *)
(* out).                                                                   *)
LooksLikeOneCaller == Caller!Spec

(* Every call of every document returns. *)
AllCallsReturn == <>AllDone
=============================================================================
