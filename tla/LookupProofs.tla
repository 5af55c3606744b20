---------------------------- MODULE LookupProofs ----------------------------
(***************************************************************************)
(* Proofs about the way to Pkulaw: the client that the threads of all      *)
(* documents call through (PkulawClient), for any set of threads and       *)
(* clients and any number of attempts, and the lookup of one statute       *)
(* (StatuteLookup), for any number of title shapes, any worlds, any        *)
(* versions and any number of tries: what the lookup says does not exist   *)
(* does not exist.                                                         *)
(***************************************************************************)
EXTENDS StatuteLookup, PkulawClient, TLAPS

(* The request lock of a client is held exactly by its thread in a request. *)
QueueInv ==
  /\ \A t \in Threads : InRequest(t) => requestLock[ClientOf[t]] = t
  /\ \A c \in Clients : requestLock[c] # NoThread =>
       /\ requestLock[c] \in Threads
       /\ InRequest(requestLock[c])
       /\ ClientOf[requestLock[c]] = c

(* Only the prober passes the probe before it is done. *)
ProbeInv ==
  \A t \in Threads :
    pc[t] \in {"check", "want_request", "connect", "post", "backoff"} /\ role[t] # "prober" =>
      ~probe[ClientOf[t]]

(* The probe lock of a client is held exactly by its prober, from its      *)
(* first step towards the request to the end of the probe.                 *)
Probing(t) ==
  role[t] = "prober" /\ pc[t] \in {"want_request", "connect", "post", "backoff", "end_probe"}

ProberInv ==
  /\ \A t \in Threads : Probing(t) => probeLock[ClientOf[t]] = t
  /\ \A c \in Clients : probeLock[c] # NoThread =>
       /\ probeLock[c] \in Threads
       /\ Probing(probeLock[c])
       /\ ClientOf[probeLock[c]] = c
  /\ \A t \in Threads : pc[t] = "end_probe" => role[t] = "prober"
  /\ \A t \in Threads : pc[t] \in {"want_probe", "check"} => role[t] # "prober"

(* The connection is held exactly by the thread in an exchange. *)
ConnInv ==
  /\ conn # NoThread => conn \in Threads /\ pc[conn] = "post"
  /\ \A t \in Threads : pc[t] = "post" => conn = t

(* A thread backs off only before another attempt. *)
BackoffInv == \A t \in Threads : pc[t] = "backoff" => attempt[t] < MaxAttempts

IInv ==
  /\ TypeOK /\ BackoffInv /\ QueueInv /\ ProbeInv /\ ProberInv /\ ConnInv
  /\ NoRequestWhilePaused

(* The initial state satisfies the inductive invariant. *)
THEOREM InitOK == Init => IInv
BY ClientAssumption, BoundAssumption
   DEF Init, IInv, TypeOK, BackoffInv, QueueInv, ProbeInv, ProberInv, Probing, ConnInv,
       NoRequestWhilePaused, InRequest, PC, Roles

-----------------------------------------------------------------------------
(* The ways a step of one thread can move it, with what it leaves alone:   *)
(* outside a request, into one, within one, and out of one.                *)
Outside(t) ==
  Call(t) \/ ProbePaused(t) \/ BecomeProber(t) \/ ProbeDone(t) \/ Check(t)
  \/ RequestPaused(t) \/ EndProbe(t)
Within(t) ==
  \/ Connect(t) \/ Retry(t)
  \/ ServiceError(t) /\ TryAgain(t)
  \/ NetworkError(t) /\ TryAgain(t)
Out(t) ==
  \/ Succeeds(t) \/ Rejected(t)
  \/ ServiceError(t) /\ Exhausted(t)
  \/ NetworkError(t) /\ Exhausted(t)

(* Every step of a thread is of one of these kinds. *)
LEMMA RunCases ==
  ASSUME NEW t \in Threads, Run(t)
  PROVE  Outside(t) \/ BeginRequest(t) \/ Within(t) \/ Out(t)
BY DEF Run, Outside, Within, Out, ServiceError, NetworkError

(* A call ends from inside a request, for this thread only. *)
LEMMA OutOnlyEnds ==
  ASSUME TypeOK, NEW t \in Threads, Out(t)
  PROVE  /\ pc[t] \in {"connect", "post"}
         /\ \E opens \in BOOLEAN : EndCall(t, opens)
         /\ \/ conn' = conn /\ pc[t] = "connect"
            \/ conn' = NoThread /\ pc[t] = "post"
         /\ service' \in [Threads -> BOOLEAN]
<1>1. CASE Succeeds(t)
  BY <1>1 DEF Succeeds, Answered, TypeOK
<1>2. CASE Rejected(t)
  <2>1. PICK answer \in {"auth", "quota", "refused"} :
          Answered(t, answer \in {"auth", "quota"})
    BY <1>2 DEF Rejected
  <2>2. (answer \in {"auth", "quota"}) \in BOOLEAN
    OBVIOUS
  <2> QED BY <2>1, <2>2 DEF Answered, TypeOK
<1>3. CASE ServiceError(t) /\ Exhausted(t)
  <2>1. service' \in [Threads -> BOOLEAN]
    BY <1>3 DEF ServiceError, TypeOK
  <2>2. service'[t] \in BOOLEAN
    BY <2>1
  <2>3. EndCall(t, service'[t])
    BY <1>3 DEF Exhausted
  <2> QED BY <1>3, <2>1, <2>2, <2>3 DEF ServiceError
<1>4. CASE NetworkError(t) /\ Exhausted(t)
  <2>1. service' \in [Threads -> BOOLEAN]
    BY <1>4 DEF NetworkError, NotServiceError, TypeOK
  <2>2. service'[t] \in BOOLEAN
    BY <2>1
  <2>3. EndCall(t, service'[t])
    BY <1>4 DEF Exhausted
  <2> QED BY <1>4, <2>1, <2>2, <2>3 DEF NetworkError
<1> QED BY <1>1, <1>2, <1>3, <1>4 DEF Out

(* A step within a request moves the thread and the connection only. *)
LEMMA WithinOnlyMoves ==
  ASSUME TypeOK, BackoffInv, NEW t \in Threads, Within(t)
  PROVE  /\ pc[t] \in {"connect", "post", "backoff"}
         /\ \E where \in {"connect", "post", "backoff"} :
              /\ pc' = [pc EXCEPT ![t] = where]
              /\ where = "backoff" => AttemptsLeft(t) /\ attempt' = attempt
              /\ \A u \in Threads \ {t} : attempt'[u] = attempt[u]
              /\ \/ conn' = t /\ conn = NoThread /\ where = "post" /\ pc[t] # "post"
                 \/ conn' = NoThread /\ where # "post" /\ pc[t] = "post"
                 \/ conn' = conn /\ where # "post" /\ pc[t] # "post"
         /\ UNCHANGED <<role, calls, clientVars>>
         /\ attempt' \in [Threads -> 0 .. MaxAttempts]
         /\ service' \in [Threads -> BOOLEAN]
<1> DEFINE Moves(where) ==
      /\ pc' = [pc EXCEPT ![t] = where]
      /\ where = "backoff" => AttemptsLeft(t) /\ attempt' = attempt
      /\ \A u \in Threads \ {t} : attempt'[u] = attempt[u]
      /\ \/ conn' = t /\ conn = NoThread /\ where = "post" /\ pc[t] # "post"
         \/ conn' = NoThread /\ where # "post" /\ pc[t] = "post"
         \/ conn' = conn /\ where # "post" /\ pc[t] # "post"
<1>1. CASE Connect(t)
  <2>1. Moves("post")
    BY <1>1 DEF Connect, Goto
  <2> QED BY <1>1, <2>1 DEF Connect, TypeOK
<1>2. CASE Retry(t)
  <2>1. Moves("connect")
    BY <1>2 DEF Retry, Goto, TypeOK
  <2>2. attempt' \in [Threads -> 0 .. MaxAttempts]
    BY <1>2, BoundAssumption DEF Retry, NextAttempt, BackoffInv, TypeOK
  <2> QED BY <1>2, <2>1, <2>2 DEF Retry, TypeOK
<1>3. CASE ServiceError(t) /\ TryAgain(t)
  <2>1. Moves("backoff")
    BY <1>3 DEF ServiceError, TryAgain, Goto
  <2> QED BY <1>3, <2>1 DEF ServiceError, TryAgain, TypeOK
<1>4. CASE NetworkError(t) /\ TryAgain(t)
  <2>1. Moves("backoff")
    BY <1>4 DEF NetworkError, TryAgain, Goto
  <2> QED BY <1>4, <2>1 DEF NetworkError, NotServiceError, TryAgain, TypeOK
<1> QED BY <1>1, <1>2, <1>3, <1>4 DEF Within

(* A step outside a request leaves requests, circuit and connection alone. *)
LEMMA OutsideMoves ==
  ASSUME TypeOK, NEW t \in Threads, Outside(t)
  PROVE  /\ ~InRequest(t)
         /\ \E where \in {"idle", "want_probe", "check", "want_request", "end_probe"} :
              pc' = [pc EXCEPT ![t] = where]
         /\ UNCHANGED <<attempt, service, requestLock, circuit, conn>>
         /\ role' \in [Threads -> Roles] /\ calls' \in [Threads -> 0 .. MaxCalls]
         /\ probe' \in [Clients -> BOOLEAN]
         /\ probeLock' \in [Clients -> Threads \cup {NoThread}]
<1> USE ClientAssumption, BoundAssumption DEF InRequest, Goto, TypeOK
<1>1. CASE Call(t)
  <2>1. pc' = [pc EXCEPT ![t] = "want_probe"] \/ pc' = [pc EXCEPT ![t] = "check"]
    BY <1>1 DEF Call
  <2>2. calls' \in [Threads -> 0 .. MaxCalls]
    BY <1>1 DEF Call
  <2>3. role' \in [Threads -> Roles]
    BY <1>1 DEF Call, Roles
  <2> QED BY <1>1, <2>1, <2>2, <2>3 DEF Call, clientVars
<1>2. CASE ProbePaused(t) \/ ProbeDone(t) \/ Check(t)
  BY <1>2 DEF ProbePaused, ProbeDone, Check, clientVars
<1>3. CASE BecomeProber(t)
  BY <1>3 DEF BecomeProber, Roles
<1>4. CASE RequestPaused(t)
  BY <1>4 DEF RequestPaused, Leave, clientVars
<1>5. CASE EndProbe(t)
  BY <1>5 DEF EndProbe
<1> QED BY <1>1, <1>2, <1>3, <1>4, <1>5 DEF Outside

-----------------------------------------------------------------------------
(* Steps preserve the types and keep a backoff for calls with attempts left. *)
LEMMA TypeStep == IInv /\ [Next]_vars => TypeOK' /\ BackoffInv'
<1> SUFFICES ASSUME IInv, [Next]_vars PROVE TypeOK' /\ BackoffInv'
  OBVIOUS
<1> USE ClientAssumption, BoundAssumption DEF IInv
<1>1. ASSUME NEW t \in Threads, Run(t) PROVE TypeOK' /\ BackoffInv'
  <2>1. CASE Outside(t)
    BY <2>1, OutsideMoves DEF TypeOK, BackoffInv, PC
  <2>2. CASE BeginRequest(t)
    BY <2>2 DEF BeginRequest, Goto, TypeOK, BackoffInv, PC
  <2>3. CASE Within(t)
    <3>1. PICK where \in {"connect", "post", "backoff"} :
            /\ pc' = [pc EXCEPT ![t] = where]
            /\ where = "backoff" => AttemptsLeft(t) /\ attempt' = attempt
            /\ \A u \in Threads \ {t} : attempt'[u] = attempt[u]
            /\ conn' \in {t, NoThread, conn}
      BY <2>3, WithinOnlyMoves
    <3>2. pc' \in [Threads -> PC] /\ conn' \in Threads \cup {NoThread}
      BY <3>1 DEF TypeOK, PC
    <3>3. BackoffInv'
      BY <3>1 DEF TypeOK, BackoffInv, AttemptsLeft
    <3>4. /\ UNCHANGED <<role, calls, clientVars>>
          /\ attempt' \in [Threads -> 0 .. MaxAttempts]
          /\ service' \in [Threads -> BOOLEAN]
      BY <2>3, WithinOnlyMoves
    <3> QED BY <3>2, <3>3, <3>4 DEF TypeOK, clientVars
  <2>4. CASE Out(t)
    <3>1. PICK opens \in BOOLEAN : EndCall(t, opens)
      BY <2>4, OutOnlyEnds
    <3>2. pc' \in [Threads -> PC] /\ \A u \in Threads : pc'[u] = "backoff" => pc[u] = "backoff"
      BY <3>1 DEF EndCall, Goto, Leave, TypeOK, PC
    <3>3. circuit' \in [Clients -> {"open", "closed"}]
      BY <3>1 DEF EndCall, TypeOK
    <3>5. requestLock' \in [Clients -> Threads \cup {NoThread}]
      BY <3>1 DEF EndCall, TypeOK
    <3>6. UNCHANGED <<role, attempt, calls, probe, probeLock>>
      BY <3>1 DEF EndCall
    <3> QED BY <2>4, <3>2, <3>3, <3>5, <3>6, OutOnlyEnds DEF TypeOK, BackoffInv
  <2> QED BY <1>1, <2>1, <2>2, <2>3, <2>4, RunCases
<1>2. ASSUME NEW c \in Clients, Expire(c) PROVE TypeOK' /\ BackoffInv'
  BY <1>2 DEF Expire, threadVars, TypeOK, BackoffInv
<1>3. CASE UNCHANGED vars
  BY <1>3 DEF vars, threadVars, clientVars, TypeOK, BackoffInv
<1> QED BY <1>1, <1>2, <1>3 DEF Next, Done

(* Steps preserve the queue's invariant and the circuit's promise. *)
LEMMA QueueStep == IInv /\ [Next]_vars => QueueInv' /\ NoRequestWhilePaused'
<1> SUFFICES ASSUME IInv, [Next]_vars PROVE QueueInv' /\ NoRequestWhilePaused'
  OBVIOUS
<1> USE ClientAssumption DEF IInv, QueueInv, NoRequestWhilePaused, InRequest, TypeOK
<1>1. ASSUME NEW t \in Threads, Run(t) PROVE QueueInv' /\ NoRequestWhilePaused'
  <2>1. CASE Outside(t)
    BY <2>1, OutsideMoves
  <2>2. CASE BeginRequest(t)
    BY <2>2 DEF BeginRequest, RequestLockFree, PausedInLock, Paused, Goto
  <2>3. CASE Within(t)
    BY <2>3, WithinOnlyMoves DEF clientVars
  <2>4. CASE Out(t)
    <3>1. PICK opens \in BOOLEAN : EndCall(t, opens)
      BY <2>4, OutOnlyEnds
    <3>2. InRequest(t) /\ requestLock[ClientOf[t]] = t
      BY <2>4, OutOnlyEnds
    <3>3. /\ pc' = [pc EXCEPT ![t] = Leave(t)]
          /\ Leave(t) \in {"end_probe", "idle"}
          /\ requestLock' = [requestLock EXCEPT ![ClientOf[t]] = NoThread]
          /\ \A c \in Clients : c # ClientOf[t] => circuit'[c] = circuit[c]
      BY <3>1 DEF EndCall, Goto, Leave
    <3>4. ASSUME NEW u \in Threads, InRequest(u)'
          PROVE  u # t /\ InRequest(u) /\ ClientOf[u] # ClientOf[t]
      BY <3>2, <3>3, <3>4
    <3> QED BY <3>2, <3>3, <3>4
  <2> QED BY <1>1, <2>1, <2>2, <2>3, <2>4, RunCases
<1>2. ASSUME NEW c \in Clients, Expire(c) PROVE QueueInv' /\ NoRequestWhilePaused'
  BY <1>2 DEF Expire, threadVars
<1>3. CASE UNCHANGED vars
  BY <1>3 DEF vars, threadVars, clientVars
<1> QED BY <1>1, <1>2, <1>3 DEF Next, Done

(* Steps preserve that only the prober passes an unfinished probe. *)
LEMMA ProbeStep == IInv /\ [Next]_vars => ProbeInv'
<1> SUFFICES ASSUME IInv, [Next]_vars PROVE ProbeInv'
  OBVIOUS
<1> USE ClientAssumption DEF IInv, ProbeInv, TypeOK
<1>1. ASSUME NEW t \in Threads, Run(t) PROVE ProbeInv'
  <2>1. CASE Call(t)
    BY <2>1 DEF Call, Goto, ProbePending, clientVars
  <2>2. CASE ProbePaused(t) \/ ProbeDone(t) \/ Check(t) \/ RequestPaused(t)
    BY <2>2 DEF ProbePaused, ProbeDone, Check, RequestPaused, Leave, Goto, clientVars
  <2>3. CASE BecomeProber(t)
    BY <2>3 DEF BecomeProber, Goto
  <2>4. CASE BeginRequest(t)
    BY <2>4 DEF BeginRequest, Goto
  <2>5. CASE EndProbe(t)
    BY <2>5 DEF EndProbe, Goto
  <2>6. CASE Within(t)
    BY <2>6, WithinOnlyMoves DEF clientVars
  <2>7. CASE Out(t)
    BY <2>7, OutOnlyEnds DEF EndCall, Goto, Leave
  <2> QED BY <1>1, <2>1, <2>2, <2>3, <2>4, <2>5, <2>6, <2>7, RunCases DEF Outside
<1>2. ASSUME NEW c \in Clients, Expire(c) PROVE ProbeInv'
  BY <1>2 DEF Expire, threadVars
<1>3. CASE UNCHANGED vars
  BY <1>3 DEF vars, threadVars, clientVars
<1> QED BY <1>1, <1>2, <1>3 DEF Next, Done

(* Steps preserve that the probe lock belongs to the prober. *)
LEMMA ProberStep == IInv /\ [Next]_vars => ProberInv'
<1> SUFFICES ASSUME IInv, [Next]_vars PROVE ProberInv'
  OBVIOUS
<1> USE ClientAssumption DEF IInv, ProberInv, Probing, TypeOK
<1>1. ASSUME NEW t \in Threads, Run(t) PROVE ProberInv'
  <2>1. CASE Call(t)
    BY <2>1 DEF Call, Goto, clientVars
  <2>2. CASE ProbePaused(t) \/ ProbeDone(t) \/ Check(t)
    BY <2>2 DEF ProbePaused, ProbeDone, Check, Goto, clientVars
  <2>3. CASE RequestPaused(t)
    BY <2>3 DEF RequestPaused, Leave, Goto, clientVars
  <2>4. CASE BecomeProber(t)
    BY <2>4 DEF BecomeProber, Goto
  <2>5. CASE BeginRequest(t)
    BY <2>5 DEF BeginRequest, Goto
  <2>6. CASE EndProbe(t)
    <3>1. Probing(t) /\ probeLock[ClientOf[t]] = t
      BY <2>6 DEF EndProbe
    <3> QED BY <2>6, <3>1 DEF EndProbe, Goto
  <2>7. CASE Within(t)
    BY <2>7, WithinOnlyMoves DEF clientVars
  <2>8. CASE Out(t)
    BY <2>8, OutOnlyEnds DEF EndCall, Goto, Leave
  <2> QED BY <1>1, <2>1, <2>2, <2>3, <2>4, <2>5, <2>6, <2>7, <2>8, RunCases DEF Outside
<1>2. ASSUME NEW c \in Clients, Expire(c) PROVE ProberInv'
  BY <1>2 DEF Expire, threadVars
<1>3. CASE UNCHANGED vars
  BY <1>3 DEF vars, threadVars, clientVars
<1> QED BY <1>1, <1>2, <1>3 DEF Next, Done

(* Steps preserve that a connection is held during an exchange only. *)
LEMMA ConnStep == IInv /\ [Next]_vars => ConnInv'
<1> SUFFICES ASSUME IInv, [Next]_vars PROVE ConnInv'
  OBVIOUS
<1> USE ClientAssumption DEF IInv, ConnInv, TypeOK
<1>1. ASSUME NEW t \in Threads, Run(t) PROVE ConnInv'
  <2>1. CASE Outside(t)
    BY <2>1, OutsideMoves DEF InRequest
  <2>2. CASE BeginRequest(t)
    BY <2>2 DEF BeginRequest, Goto
  <2>3. CASE Within(t)
    <3>1. PICK where \in {"connect", "post", "backoff"} :
            /\ pc' = [pc EXCEPT ![t] = where]
            /\ \/ conn' = t /\ conn = NoThread /\ where = "post"
               \/ conn' = NoThread /\ where # "post" /\ pc[t] = "post"
               \/ conn' = conn /\ where # "post" /\ pc[t] # "post"
      BY <2>3, WithinOnlyMoves
    <3>2. pc'[t] = where /\ \A u \in Threads : u # t => pc'[u] = pc[u]
      BY <3>1
    <3> QED BY <3>1, <3>2
  <2>4. CASE Out(t)
    BY <2>4, OutOnlyEnds, ClientAssumption DEF EndCall, Goto, Leave
  <2> QED BY <1>1, <2>1, <2>2, <2>3, <2>4, RunCases
<1>2. ASSUME NEW c \in Clients, Expire(c) PROVE ConnInv'
  BY <1>2 DEF Expire, threadVars
<1>3. CASE UNCHANGED vars
  BY <1>3 DEF vars, threadVars
<1> QED BY <1>1, <1>2, <1>3 DEF Next, Done

-----------------------------------------------------------------------------
(* Every reachable state of the client satisfies the inductive invariant.  *)
THEOREM InductiveInvariant == Spec => []IInv
<1>1. IInv /\ [Next]_vars => IInv'
  BY TypeStep, QueueStep, ProbeStep, ProberStep, ConnStep DEF IInv
<1> QED BY InitOK, <1>1, PTL DEF Spec

(* Type correctness of the client's state. *)
THEOREM TypeCorrect == Spec => []TypeOK
<1>1. IInv => TypeOK
  BY DEF IInv
<1> QED BY <1>1, InductiveInvariant, PTL

(* No request is on its way while the circuit of its document is open. *)
THEOREM CircuitStopsRequests == Spec => []NoRequestWhilePaused
<1>1. IInv => NoRequestWhilePaused
  BY DEF IInv
<1> QED BY <1>1, InductiveInvariant, PTL

(* Until the probe of a document has ended it is its only request. *)
THEOREM ProbeIsSingleFlight == Spec => []SingleFlightProbe
<1>1. IInv => SingleFlightProbe
  BY DEF IInv, ProbeInv, SingleFlightProbe, InRequest
<1> QED BY <1>1, InductiveInvariant, PTL

(* Threads of one document never compete for the pool's connection. *)
THEOREM PoolSharedAcrossDocumentsOnly == Spec => []PoolHeldByOthersOnly
<1>1. IInv => PoolHeldByOthersOnly
  <2> SUFFICES ASSUME IInv, NEW t \in Threads, pc[t] = "connect", conn # NoThread
               PROVE  ClientOf[conn] # ClientOf[t]
    BY DEF PoolHeldByOthersOnly
  <2>1. conn \in Threads /\ InRequest(conn) /\ InRequest(t) /\ conn # t
    BY DEF IInv, ConnInv, InRequest
  <2>2. requestLock[ClientOf[conn]] = conn /\ requestLock[ClientOf[t]] = t
    BY <2>1 DEF IInv, QueueInv
  <2> QED BY <2>1, <2>2
<1> QED BY <1>1, InductiveInvariant, PTL

(* Nobody waits for a thread that is not further on than itself, so no     *)
(* waits close a circle, whoever the threads and documents are.            *)
THEOREM WaitsAreOrdered == Spec => []WaitsLeadOn
<1>1. IInv => WaitsLeadOn
  <2> SUFFICES ASSUME IInv, NEW t \in Threads, NEW u \in Threads, Behind(t, u)
               PROVE  Stage[pc[u]] > Stage[pc[t]]
    BY DEF WaitsLeadOn
  <2> USE ClientAssumption DEF IInv, TypeOK
  <2>1. ClientOf[t] \in Clients /\ u # NoThread
    OBVIOUS
  <2>2. CASE pc[t] = "want_probe" /\ probeLock[ClientOf[t]] = u
    <3>1. pc[u] \in {"want_request", "connect", "post", "backoff", "end_probe"}
      BY <2>1, <2>2 DEF ProberInv, Probing
    <3> QED BY <2>2, <3>1 DEF Stage
  <2>3. CASE pc[t] = "want_request" /\ requestLock[ClientOf[t]] = u
    <3>1. pc[u] \in {"connect", "post", "backoff"}
      BY <2>1, <2>3 DEF QueueInv, InRequest
    <3> QED BY <2>3, <3>1 DEF Stage
  <2>4. CASE pc[t] = "connect" /\ conn = u
    <3>1. pc[u] = "post"
      BY <2>1, <2>4 DEF ConnInv
    <3> QED BY <2>4, <3>1 DEF Stage
  <2> QED BY <2>2, <2>3, <2>4 DEF Behind
<1> QED BY <1>1, InductiveInvariant, PTL

(* What a step does to one call: nothing, or it leads it on. *)
LeadsOn(t) ==
  \/ UNCHANGED <<pc[t], calls[t]>>
  \/ pc[t] = "idle" /\ calls'[t] < calls[t]
  \/ pc[t] # "idle" /\ calls'[t] = calls[t] /\ (pc'[t] = "idle" \/ Further(t))

(* A step of a thread does nothing to the calls of the others. *)
LEMMA OthersStay ==
  ASSUME IInv, NEW u \in Threads, Run(u), NEW t \in Threads, t # u
  PROVE  UNCHANGED <<pc[t], calls[t]>>
<1> USE DEF IInv, TypeOK
<1>1. CASE Outside(u)
  <2>1. calls'[t] = calls[t]
    BY <1>1 DEF Outside, Call, ProbePaused, BecomeProber, ProbeDone, Check, RequestPaused, EndProbe
  <2> QED BY <1>1, <2>1, OutsideMoves
<1>2. CASE BeginRequest(u)
  BY <1>2 DEF BeginRequest, Goto
<1>3. CASE Within(u)
  BY <1>3, WithinOnlyMoves
<1>4. CASE Out(u)
  BY <1>4, OutOnlyEnds DEF EndCall, Goto
<1> QED BY <1>1, <1>2, <1>3, <1>4, RunCases

(* A step of a thread leads its own call on. *)
LEMMA OwnLeadsOn ==
  ASSUME IInv, NEW t \in Threads, Run(t)
  PROVE  LeadsOn(t)
<1> USE DEF IInv, TypeOK, LeadsOn
<1>1. CASE Call(t)
  <2>1. calls[t] \in Nat /\ calls'[t] = calls[t] - 1
    BY <1>1, BoundAssumption DEF Call
  <2> QED BY <1>1, <2>1 DEF Call
<1>2. CASE ProbePaused(t)
  BY <1>2 DEF ProbePaused, Goto
<1>3. CASE BecomeProber(t)
  BY <1>3 DEF BecomeProber, Goto, Further, Stage, InRequest
<1>4. CASE ProbeDone(t)
  BY <1>4 DEF ProbeDone, Goto, Further, Stage, InRequest
<1>5. CASE Check(t)
  BY <1>5 DEF Check, Goto, Further, Stage, InRequest
<1>6. CASE RequestPaused(t)
  BY <1>6 DEF RequestPaused, Leave, Goto, Further, Stage, InRequest
<1>7. CASE EndProbe(t)
  BY <1>7 DEF EndProbe, Goto
<1>8. CASE BeginRequest(t)
  BY <1>8 DEF BeginRequest, Goto, Further, Stage, InRequest
<1>9. CASE Connect(t)
  BY <1>9 DEF Connect, Goto, Further, Stage, InRequest
<1>10. CASE Retry(t)
  <2>1. attempt'[t] = attempt[t] + 1 /\ attempt'[t] <= MaxAttempts
    BY <1>10, BoundAssumption DEF Retry, NextAttempt, BackoffInv
  <2> QED BY <1>10, <2>1 DEF Retry, Goto, Further, InRequest
<1>11. CASE (ServiceError(t) \/ NetworkError(t)) /\ TryAgain(t)
  <2>1. pc[t] \in {"connect", "post"}
    BY <1>11 DEF ServiceError, NetworkError
  <2> QED BY <1>11, <2>1 DEF TryAgain, Goto, Further, Stage, InRequest
<1>12. CASE Out(t)
  <2>1. pc[t] \in {"connect", "post"} /\ pc' = [pc EXCEPT ![t] = Leave(t)]
        /\ UNCHANGED <<attempt, calls>>
    BY <1>12, OutOnlyEnds DEF EndCall, Goto
  <2> QED BY <2>1 DEF Leave, Further, Stage, InRequest
<1> QED BY <1>1, <1>2, <1>3, <1>4, <1>5, <1>6, <1>7, <1>8, <1>9, <1>10, <1>11, <1>12, RunCases
        DEF Outside, Within

(* Every call is used up by a bounded number of steps: the measure that    *)
(* liveness rests on, for any number of attempts.                          *)
THEOREM CallsAreBounded == Spec => CallsLeadOn
<1>1. IInv /\ [Next]_vars => [\A t \in Threads : LeadsOn(t)]_vars
  <2> SUFFICES ASSUME IInv, Next, NEW t \in Threads PROVE LeadsOn(t)
    OBVIOUS
  <2>1. ASSUME NEW u \in Threads, Run(u) PROVE LeadsOn(t)
    BY <2>1, OthersStay, OwnLeadsOn DEF LeadsOn
  <2>2. ASSUME NEW c \in Clients, Expire(c) PROVE LeadsOn(t)
    BY <2>2 DEF Expire, threadVars, LeadsOn
  <2>3. CASE Done
    BY <2>3 DEF Done, vars, threadVars, LeadsOn
  <2> QED BY <2>1, <2>2, <2>3 DEF Next
<1> QED BY <1>1, InductiveInvariant, PTL DEF Spec, CallsLeadOn, LeadsOn

(* A network error never opens the circuit, whatever came before it. *)
THEOREM NetworkErrorsArePrivate == Spec => NetworkErrorsNeverPause
<1>1. IInv /\ [Next]_vars => [\A t \in Threads : NetworkError(t) => UNCHANGED circuit]_vars
  <2> SUFFICES ASSUME IInv, NEW t \in Threads, NetworkError(t) PROVE circuit' = circuit
    OBVIOUS
  <2>1. service'[t] = FALSE
    BY DEF NetworkError, NotServiceError, IInv, TypeOK
  <2>2. CASE Exhausted(t)
    BY <2>1, <2>2 DEF Exhausted, EndCall
  <2>3. CASE TryAgain(t)
    BY <2>3 DEF TryAgain, clientVars
  <2> QED BY <2>2, <2>3 DEF NetworkError
<1> QED BY <1>1, InductiveInvariant, PTL DEF Spec, NetworkErrorsNeverPause

-----------------------------------------------------------------------------
(* The document as one caller.                                             *)

(* The thread in a request is the one its document is seen through.        *)
LEMMA SeenThrough ==
  ASSUME IInv, NEW t \in Threads, InRequest(t)
  PROVE  /\ ClientOf[t] \in Clients /\ requestLock[ClientOf[t]] = t
         /\ Phase[ClientOf[t]] = pc[t] /\ Posts[ClientOf[t]] = attempt[t]
         /\ \A c \in Clients : c # ClientOf[t] => requestLock[c] # t
BY ClientAssumption DEF IInv, QueueInv, Phase, Posts, Serving

(* Who is on the line: the thread that posts, of another document than the *)
(* one that waits for it.                                                  *)
LEMMA OnTheLine ==
  ASSUME IInv, NEW t \in Threads
  PROVE  /\ conn = NoThread => Line = {}
         /\ pc[t] = "post" => Line = {ClientOf[t]}
         /\ pc[t] = "connect" /\ conn # NoThread => Line \notin {{}, {ClientOf[t]}}
<1> USE ClientAssumption DEF IInv, ConnInv, Line
<1>1. conn = NoThread => Line = {}
  OBVIOUS
<1>2. pc[t] = "post" => Line = {ClientOf[t]}
  OBVIOUS
<1>3. ASSUME pc[t] = "connect", conn # NoThread PROVE Line \notin {{}, {ClientOf[t]}}
  <2>1. conn \in Threads /\ InRequest(conn) /\ InRequest(t) /\ conn # t
    BY <1>3 DEF InRequest
  <2>2. ClientOf[conn] # ClientOf[t]
    BY <2>1, SeenThrough
  <2>3. Line = {ClientOf[conn]}
    BY <2>1
  <2> QED BY <2>2, <2>3
<1> QED BY <1>1, <1>2, <1>3

(* A function that differs from another one at one place.                  *)
LEMMA OnePlace ==
  ASSUME NEW S, NEW c \in S, NEW w, NEW f, NEW g,
         f = [d \in S |-> f[d]], g = [d \in S |-> g[d]],
         \A d \in S : g[d] = IF d = c THEN w ELSE f[d]
  PROVE  g = [f EXCEPT ![c] = w]
<1>1. [f EXCEPT ![c] = w] = [d \in S |-> IF d = c THEN w ELSE f[d]]
  OBVIOUS
<1>2. g = [d \in S |-> IF d = c THEN w ELSE f[d]]
  OBVIOUS
<1> QED BY <1>1, <1>2

(* What is seen are functions on the clients, before and after a step.     *)
LEMMA SeenShape ==
  /\ Phase = [c \in Clients |-> Phase[c]] /\ Phase' = [c \in Clients |-> Phase'[c]]
  /\ Posts = [c \in Clients |-> Posts[c]] /\ Posts' = [c \in Clients |-> Posts'[c]]
BY DEF Phase, Posts

(* What a step of a thread in a request changes of what is seen.           *)
LEMMA SeenStep ==
  ASSUME IInv, NEW t \in Threads, InRequest(t), NEW where,
         pc' = [pc EXCEPT ![t] = where], requestLock' = requestLock,
         attempt' \in [Threads -> Int],
         \A u \in Threads \ {t} : attempt'[u] = attempt[u]
  PROVE  /\ Phase' = [Phase EXCEPT ![ClientOf[t]] = where]
         /\ Posts' = [Posts EXCEPT ![ClientOf[t]] = attempt'[t]]
<1>1. /\ ClientOf[t] \in Clients /\ requestLock[ClientOf[t]] = t /\ t # NoThread
      /\ \A c \in Clients : c # ClientOf[t] => requestLock[c] # t
  BY SeenThrough, ClientAssumption
<1>2. pc'[t] = where /\ \A u \in Threads : u # t => pc'[u] = pc[u]
  BY DEF IInv, TypeOK
<1>3. \A c \in Clients : requestLock[c] # NoThread => requestLock[c] \in Threads
  BY DEF IInv, QueueInv
<1>4. ASSUME NEW c \in Clients
      PROVE  /\ Phase'[c] = IF c = ClientOf[t] THEN where ELSE Phase[c]
             /\ Posts'[c] = IF c = ClientOf[t] THEN attempt'[t] ELSE Posts[c]
  BY <1>1, <1>2, <1>3 DEF Phase, Posts, Serving
<1> QED BY <1>1, <1>4, SeenShape, OnePlace

(* What is seen at the end of a call.                                      *)
LEMMA SeenEnd ==
  ASSUME IInv, NEW t \in Threads, InRequest(t), NEW opens \in BOOLEAN, EndCall(t, opens)
  PROVE  /\ Phase' = [Phase EXCEPT ![ClientOf[t]] = "free"]
         /\ Posts' = [Posts EXCEPT ![ClientOf[t]] = 0]
         /\ Pausing' = IF opens THEN Pausing \cup {ClientOf[t]} ELSE Pausing
<1>1. /\ ClientOf[t] \in Clients /\ requestLock[ClientOf[t]] = t
      /\ \A c \in Clients : c # ClientOf[t] => requestLock[c] # t
  BY SeenThrough
<1>2. /\ requestLock' = [requestLock EXCEPT ![ClientOf[t]] = NoThread] /\ attempt' = attempt
      /\ circuit' = IF opens THEN [circuit EXCEPT ![ClientOf[t]] = "open"] ELSE circuit
      /\ \A u \in Threads : u # t => pc'[u] = pc[u]
  BY DEF EndCall, Goto, IInv, TypeOK
<1>3. \A c \in Clients : requestLock[c] # NoThread => requestLock[c] \in Threads
  BY DEF IInv, QueueInv
<1>4. \A c \in Clients : requestLock'[c] = IF c = ClientOf[t] THEN NoThread ELSE requestLock[c]
  BY <1>1, <1>2 DEF IInv, TypeOK
<1>5. ASSUME NEW c \in Clients
      PROVE  /\ Phase'[c] = IF c = ClientOf[t] THEN "free" ELSE Phase[c]
             /\ Posts'[c] = IF c = ClientOf[t] THEN 0 ELSE Posts[c]
  BY <1>1, <1>2, <1>3, <1>4 DEF Phase, Posts, Serving
<1>6. \A c \in Clients : circuit'[c] = IF opens /\ c = ClientOf[t] THEN "open" ELSE circuit[c]
  BY <1>2 DEF IInv, TypeOK
<1>7. Pausing' = IF opens THEN Pausing \cup {ClientOf[t]} ELSE Pausing
  BY <1>1, <1>6 DEF Pausing
<1>8. Phase' = [Phase EXCEPT ![ClientOf[t]] = "free"]
  BY <1>1, <1>5, SeenShape, OnePlace
<1>9. Posts' = [Posts EXCEPT ![ClientOf[t]] = 0]
  BY <1>1, <1>5, SeenShape, OnePlace
<1> QED BY <1>7, <1>8, <1>9

(* A step of a thread is a step of its document's caller, or not seen.     *)
LEMMA SeenRun ==
  ASSUME IInv, IInv', NEW t \in Threads, Run(t)
  PROVE  [Caller!Next]_Caller!vars
<1> DEFINE c == ClientOf[t]
<1>0. c \in Clients /\ t # NoThread
  BY ClientAssumption
<1>1. CASE Outside(t)
  <2>1. /\ \E where : pc' = [pc EXCEPT ![t] = where]
        /\ ~InRequest(t) /\ UNCHANGED <<attempt, requestLock, circuit, conn>>
    BY <1>1, OutsideMoves DEF IInv
  <2>2. \A d \in Clients : requestLock[d] # NoThread =>
          requestLock[d] \in Threads /\ requestLock[d] # t
    BY <2>1 DEF IInv, QueueInv
  <2>3. \A u \in Threads : u # t => pc'[u] = pc[u]
    BY <2>1 DEF IInv, TypeOK
  <2>4. Phase' = Phase /\ Posts' = Posts /\ Pausing' = Pausing /\ Line' = Line
    BY <2>1, <2>2, <2>3 DEF Phase, Posts, Pausing, Line, Serving
  <2> QED BY <2>4 DEF Caller!vars
<1>2. CASE BeginRequest(t)
  <2>1. /\ requestLock[c] = NoThread /\ circuit[c] # "open"
        /\ requestLock' = [requestLock EXCEPT ![c] = t]
        /\ attempt' = [attempt EXCEPT ![t] = 1] /\ pc' = [pc EXCEPT ![t] = "connect"]
        /\ circuit' = circuit /\ conn' = conn
        /\ ~InRequest(t)
    BY <1>2 DEF BeginRequest, RequestLockFree, PausedInLock, Paused, Goto, InRequest
  <2>2. \A d \in Clients : requestLock[d] # NoThread =>
          requestLock[d] \in Threads /\ requestLock[d] # t
    BY <2>1 DEF IInv, QueueInv
  <2>3. \A u \in Threads : u # t => pc'[u] = pc[u] /\ attempt'[u] = attempt[u]
    BY <2>1 DEF IInv, TypeOK
  <2>4. pc'[t] = "connect" /\ attempt'[t] = 1 /\ requestLock'[c] = t
    BY <2>1, <1>0 DEF IInv, TypeOK
  <2>5. \A d \in Clients : d # c => requestLock'[d] = requestLock[d]
    BY <2>1 DEF IInv, TypeOK
  <2>6. ASSUME NEW d \in Clients
        PROVE  /\ Phase'[d] = IF d = c THEN "connect" ELSE Phase[d]
               /\ Posts'[d] = IF d = c THEN 1 ELSE Posts[d]
    <3>1. CASE d = c
      BY <3>1, <2>4, <1>0 DEF Phase, Posts, Serving
    <3>2. CASE d # c
      BY <3>2, <2>2, <2>3, <2>5 DEF Phase, Posts, Serving
    <3> QED BY <3>1, <3>2
  <2>7. Phase' = [Phase EXCEPT ![c] = "connect"] /\ Posts' = [Posts EXCEPT ![c] = 1]
    BY <1>0, <2>6 DEF Phase, Posts
  <2>8. Phase[c] = "free" /\ c \notin Pausing /\ Pausing' = Pausing /\ Line' = Line
    BY <1>0, <2>1 DEF Phase, Pausing, Line, Serving
  <2>9. Caller!Begin(c)
    BY <2>7, <2>8 DEF Caller!Begin, Caller!Move
  <2> QED BY <1>0, <2>9 DEF Caller!Next
<1>3. CASE Within(t)
  <2>1. InRequest(t) /\ requestLock' = requestLock /\ attempt' \in [Threads -> Int]
        /\ Pausing' = Pausing
    BY <1>3, WithinOnlyMoves DEF IInv, TypeOK, InRequest, clientVars, Pausing
  <2>2. Phase[c] = pc[t] /\ Posts[c] = attempt[t]
    BY <2>1, SeenThrough
  <2>3. CASE Connect(t)
    <3>1. Phase' = [Phase EXCEPT ![c] = "post"] /\ Posts' = [Posts EXCEPT ![c] = attempt[t]]
      BY <2>1, <2>3, SeenStep DEF Connect, Goto
    <3>2. Line = {} /\ Line' = {c} /\ pc[t] = "connect"
      BY <2>3, OnTheLine DEF Connect, Line
    <3>3. Caller!Post(c)
      BY <2>1, <2>2, <3>1, <3>2 DEF Caller!Post, Caller!Move
    <3> QED BY <1>0, <3>3 DEF Caller!Next
  <2>4. CASE Retry(t)
    <3>1. /\ pc[t] = "backoff" /\ pc' = [pc EXCEPT ![t] = "connect"] /\ conn' = conn
          /\ attempt' = [attempt EXCEPT ![t] = attempt[t] + 1]
      BY <2>4 DEF Retry, NextAttempt, Goto
    <3>2. /\ attempt'[t] = attempt[t] + 1
          /\ \A u \in Threads \ {t} : attempt'[u] = attempt[u]
      BY <3>1 DEF IInv, TypeOK
    <3>3. /\ Phase' = [Phase EXCEPT ![c] = "connect"]
          /\ Posts' = [Posts EXCEPT ![c] = attempt[t] + 1]
      BY <2>1, <3>1, <3>2, SeenStep
    <3>4. Line' = Line
      BY <3>1 DEF Line
    <3>5. Caller!PostAgain(c)
      BY <2>1, <2>2, <3>1, <3>3, <3>4 DEF Caller!PostAgain, Caller!Move
    <3> QED BY <1>0, <3>5 DEF Caller!Next
  <2>5. ASSUME TryAgain(t),
               \/ pc[t] = "post" /\ conn' = NoThread
               \/ pc[t] = "connect" /\ conn # NoThread /\ conn' = conn
        PROVE  Caller!BackOff(c)
    <3>1. /\ Phase' = [Phase EXCEPT ![c] = "backoff"]
          /\ Posts' = [Posts EXCEPT ![c] = attempt[t]]
      BY <2>1, <2>5, SeenStep DEF TryAgain, Goto
    <3>2. attempt[t] < MaxAttempts
      BY <2>5 DEF TryAgain, AttemptsLeft
    <3>3. \/ pc[t] = "post" /\ Line = {c} /\ Line' = {}
          \/ pc[t] = "connect" /\ Line \notin {{}, {c}} /\ Line' = Line
      BY <2>5, OnTheLine, ClientAssumption DEF Line
    <3> QED BY <2>1, <2>2, <3>1, <3>2, <3>3 DEF Caller!BackOff, Caller!Move
  <2>6. CASE (ServiceError(t) \/ NetworkError(t)) /\ TryAgain(t)
    <3>1. Caller!BackOff(c)
      BY <2>5, <2>6 DEF ServiceError, NetworkError
    <3> QED BY <1>0, <3>1 DEF Caller!Next
  <2> QED BY <1>3, <2>3, <2>4, <2>6 DEF Within
<1>4. CASE Out(t)
  <2>1. InRequest(t)
    BY <1>4, OutOnlyEnds DEF IInv, InRequest
  <2>2. Phase[c] = pc[t] /\ Posts[c] = attempt[t]
    BY <2>1, SeenThrough
  <2>3. PICK opens \in BOOLEAN : EndCall(t, opens)
    BY <1>4, OutOnlyEnds DEF IInv
  <2>4. Phase' = [Phase EXCEPT ![c] = "free"] /\ Posts' = [Posts EXCEPT ![c] = 0]
    BY <2>1, <2>3, SeenEnd
  <2>5. Pausing' \in {Pausing, Pausing \cup {c}}
    BY <2>1, <2>3, SeenEnd
  <2>6. CASE pc[t] = "post" /\ conn' = NoThread
    <3>1. Line = {c} /\ Line' = {}
      BY <2>6, OnTheLine, ClientAssumption DEF Line
    <3>2. Caller!End(c)
      BY <2>2, <2>4, <2>5, <2>6, <3>1 DEF Caller!End, Caller!Move
    <3> QED BY <1>0, <3>2 DEF Caller!Next
  <2>7. CASE pc[t] = "connect"
    <3>1. NetworkError(t) /\ Exhausted(t)
      BY <1>4, <2>7 DEF Out, Succeeds, Rejected, Answered, ServiceError
    <3>2. conn # NoThread /\ conn' = conn /\ service' = [service EXCEPT ![t] = FALSE]
      BY <2>7, <3>1 DEF NetworkError, NotServiceError
    <3>3. service'[t] = FALSE /\ EndCall(t, service'[t])
      BY <3>1, <3>2 DEF Exhausted, IInv, TypeOK
    <3>4. Pausing' = Pausing
      BY <2>1, <3>3, SeenEnd
    <3>5. attempt[t] = MaxAttempts
      BY <3>1, BoundAssumption DEF Exhausted, AttemptsLeft, IInv, TypeOK
    <3>6. Line \notin {{}, {c}} /\ Line' = Line
      BY <2>7, <3>2, OnTheLine DEF Line
    <3>7. Caller!GiveUp(c)
      BY <2>2, <2>4, <2>7, <3>4, <3>5, <3>6 DEF Caller!GiveUp, Caller!Move
    <3> QED BY <1>0, <3>7 DEF Caller!Next
  <2> QED BY <1>4, <2>6, <2>7, OutOnlyEnds DEF IInv
<1> QED BY <1>1, <1>2, <1>3, <1>4, RunCases

(* To Pkulaw a document is one caller that makes one call after the other, *)
(* however many threads share its client, its probe and its locks.         *)
THEOREM ImplementsOneCaller == Spec => LooksLikeOneCaller
<1>1. Init => Caller!Init
  <2> SUFFICES ASSUME Init PROVE Caller!Init
    OBVIOUS
  <2>1. Line = {}
    BY ClientAssumption DEF Init, Line
  <2> QED BY <2>1 DEF Init, Caller!Init, Phase, Posts, Pausing, Serving
<1>2. IInv /\ IInv' /\ [Next]_vars => [Caller!Next]_Caller!vars
  <2> SUFFICES ASSUME IInv, IInv', [Next]_vars PROVE [Caller!Next]_Caller!vars
    OBVIOUS
  <2>1. ASSUME NEW t \in Threads, Run(t) PROVE [Caller!Next]_Caller!vars
    BY <2>1, SeenRun
  <2>2. ASSUME NEW c \in Clients, Expire(c) PROVE [Caller!Next]_Caller!vars
    <3>1. circuit' = [circuit EXCEPT ![c] = "closed"] /\ UNCHANGED <<pc, attempt, requestLock, conn>>
      BY <2>2 DEF Expire, threadVars
    <3>2. Pausing' = Pausing \ {c}
      BY <3>1 DEF Pausing, IInv, TypeOK
    <3>3. Phase' = Phase /\ Posts' = Posts /\ Line' = Line
      BY <3>1 DEF Phase, Posts, Line, Serving
    <3> QED BY <3>2, <3>3 DEF Caller!Next, Caller!Resume
  <2>3. CASE UNCHANGED vars
    BY <2>3 DEF vars, threadVars, clientVars, Caller!vars, Phase, Posts, Pausing, Line, Serving
  <2> QED BY <2>1, <2>2, <2>3 DEF Next, Done
<1> QED BY <1>1, <1>2, InductiveInvariant, PTL DEF Spec, LooksLikeOneCaller, Caller!Spec

-----------------------------------------------------------------------------
(* The lookup of one statute.                                              *)

(* The shapes up to n do not lead to the article. *)
Silent(n) == \A s \in 1 .. n : ~(s \in world.known /\ world.article)

(* The law is not known under the shapes up to n. *)
Unknown(n) == \A s \in 1 .. n : s \notin world.known

AfterItem == {"law_search", "law_recognition", "canonical_item", "canonical_search",
              "law_semantic_exact", "law_keyword"}

(* The routes between the loop of get_article and that of the keywords. *)
BetweenLoops == {"law_recognition", "canonical_item", "canonical_search", "law_semantic_exact"}

(* Why the double signal is true: while law_item is silent, its calls have *)
(* refuted the article under every shape that was tried.                   *)
ItemRefutes ==
  /\ (route = "law_item" /\ itemAbsent) => Silent(shape - 1)
  /\ (route \in AfterItem /\ itemAbsent) => Silent(Shapes)
  /\ signal = "double_signal" => ~world.article

(* Why "not found" is true: the keyword search refutes the shapes one by   *)
(* one, and a failure ends it.                                             *)
KeywordRefutes ==
  /\ route \in BetweenLoops => shape = 1
  /\ route = "law_keyword" => Unknown(shape - 1)
  /\ (route = "title_keyword" /\ recognized # "canonical") => Unknown(shape - 1)
  /\ recognized = "canonical" => world.canonical
  /\ (route = "title_keyword" /\ recognized = "canonical") => shape = 1
  /\ route = "corpus" => related
  /\ (route = "law_semantic" /\ ~related) => Unknown(Shapes)
  /\ status = "law_not_found" => route = "done" /\ Unknown(Shapes)

(* What the chain has been told. *)
ToldTruth ==
  /\ at # "returned" => result.status = "none"
  /\ remote.status = "law_not_found" => Unknown(Shapes)
  /\ result.status = "law_not_found" => Unknown(Shapes) /\ ~HasEvidence(local)

LookupInv == LookupTypeOK /\ ItemRefutes /\ KeywordRefutes /\ ToldTruth

RouteInv == RoutesTypeOK /\ ItemRefutes /\ KeywordRefutes

(* The next shape is a shape. *)
LEMMA ShapeType ==
  ASSUME RoutesTypeOK, NEW r \in Routes, NextShapeOr(r)
  PROVE  shape' \in 1 .. Shapes /\ route' \in Routes
BY ShapeAssumption DEF NextShapeOr, RoutesTypeOK

(* One more shape is refuted by its answer. *)
LEMMA OneMore ==
  ASSUME RoutesTypeOK
  PROVE  /\ \A answer : (Silent(shape - 1) /\ answer \in ExactAnswers(shape \in world.known)
                           /\ answer = "not_found") => Silent(shape)
         /\ (Unknown(shape - 1) /\ shape \notin world.known) => Unknown(shape)
         /\ Silent(0) /\ Unknown(0)
  <1>1. \A s \in 1 .. shape : s = shape \/ s \in 1 .. (shape - 1)
    BY ShapeAssumption DEF RoutesTypeOK
  <1> QED  BY <1>1 DEF Silent, Unknown, ExactAnswers

(* A refuted last shape refutes all. *)
LEMMA AllShapes ==
  ASSUME RoutesTypeOK, ~(shape < Shapes)
  PROVE  shape = Shapes
BY ShapeAssumption DEF RoutesTypeOK

(* Begin: a new lookup has refuted nothing yet. *)
LEMMA BeginKeeps ==
  ASSUME RouteInv, Begin
  PROVE  RouteInv'
  <1>1. RoutesTypeOK'
    <2>1. FirstRoute \in Routes /\ "none" \in Statuses
      BY DEF FirstRoute, Routes, NumberedRoutes, ExactRoutes, CanonicalRoutes, TitleRoutes, Statuses
    <2>2. 1 \in 1 .. Shapes
      BY ShapeAssumption
    <2> QED  BY <2>1, <2>2 DEF RouteInv, RoutesTypeOK, Begin
  <1>2. shape' - 1 = 0 /\ Silent(0)' /\ Unknown(0)'
    BY DEF Begin, Silent, Unknown
  <1>3. ItemRefutes' /\ KeywordRefutes'
    BY <1>2 DEF Begin, FirstRoute, ItemRefutes, KeywordRefutes, AfterItem, BetweenLoops
  <1> QED  BY <1>1, <1>3 DEF RouteInv

(* The routes of a numbered citation keep the invariant. *)
LEMMA NumberedKeeps ==
  ASSUME RouteInv,
         \/ \E answer \in {"hit", "mismatched", "not_found", "error"} :
              LawItem(answer) \/ LawSearch(answer) \/ CanonicalRetry(answer)
         \/ \E r \in {"none", "same", "canonical"} : Recognize(r)
         \/ \E found \in {"article", "others", "nothing"} : SemanticExact(found)
         \/ \E answer \in {"listed", "unlisted", "error"} : Keyword(answer)
  PROVE  RouteInv'
  <1> USE ShapeAssumption DEF RouteInv, flags
  <1>t. RoutesTypeOK  OBVIOUS
  <1>1. ASSUME NEW answer \in {"hit", "mismatched", "not_found", "error"}, LawItem(answer)
        PROVE  RouteInv'
    <2>1. RoutesTypeOK'
      BY <1>1, ShapeType DEF LawItem, RoutesTypeOK, End, Accepted, NextShapeOr, Routes, Statuses,
         NumberedRoutes, ExactRoutes, CanonicalRoutes, TitleRoutes
    <2>2. ASSUME itemAbsent'
          PROVE  Silent(shape) /\ route = "law_item"
      BY <1>1, <1>t, <2>2, OneMore DEF LawItem, ItemRefutes, Contradicts, RoutesTypeOK
    <2>3. \A n : Silent(n) => Silent(n)'
      BY <1>1 DEF LawItem, Silent
    <2>4. ASSUME itemAbsent', route' = "law_item"
          PROVE  Silent(shape - 1)'
      BY <1>1, <1>t, <2>2, <2>3, <2>4
         DEF LawItem, NextShapeOr, Accepted, End, RoutesTypeOK
    <2>5. ASSUME itemAbsent', route' \in AfterItem
          PROVE  Silent(Shapes)'
      BY <1>1, <1>t, <2>2, <2>3, <2>5, AllShapes
         DEF LawItem, NextShapeOr, Accepted, End, AfterItem
    <2>6. ItemRefutes'
      BY <1>1, <2>4, <2>5 DEF LawItem, ItemRefutes
    <2>7. KeywordRefutes'
      BY <1>1 DEF LawItem, KeywordRefutes, BetweenLoops, End, Accepted, NextShapeOr, Unknown
    <2> QED  BY <2>1, <2>6, <2>7
  <1>2. ASSUME NEW answer \in {"hit", "mismatched", "not_found", "error"}, LawSearch(answer)
        PROVE  RouteInv'
    <2>1. RoutesTypeOK'
      BY <1>2, ShapeType DEF LawSearch, RoutesTypeOK, End, Accepted, NextShapeOr, Routes, Statuses,
         NumberedRoutes, ExactRoutes, CanonicalRoutes, TitleRoutes
    <2>2. ItemRefutes'
      BY <1>2 DEF LawSearch, ItemRefutes, End, Accepted, NextShapeOr, AfterItem, Silent
    <2>3. KeywordRefutes'
      BY <1>2 DEF LawSearch, KeywordRefutes, BetweenLoops, End, Accepted, NextShapeOr, Unknown
    <2> QED  BY <2>1, <2>2, <2>3
  <1>3. ASSUME NEW answer \in {"hit", "mismatched", "not_found", "error"}, CanonicalRetry(answer)
        PROVE  RouteInv'
    <2>1. RoutesTypeOK'
      BY <1>3 DEF CanonicalRetry, RoutesTypeOK, End, Accepted, Routes, Statuses,
         NumberedRoutes, ExactRoutes, CanonicalRoutes, TitleRoutes
    <2>2. ItemRefutes'
      BY <1>3 DEF CanonicalRetry, ItemRefutes, End, Accepted, AfterItem, CanonicalRoutes, Silent
    <2>3. KeywordRefutes'
      BY <1>3 DEF CanonicalRetry, KeywordRefutes, BetweenLoops, End, Accepted, CanonicalRoutes, Unknown
    <2> QED  BY <2>1, <2>2, <2>3
  <1>4. ASSUME NEW r \in {"none", "same", "canonical"}, Recognize(r)
        PROVE  RouteInv'
    <2>1. RoutesTypeOK'
      BY <1>4 DEF Recognize, RoutesTypeOK, Routes, NumberedRoutes, ExactRoutes, CanonicalRoutes,
         TitleRoutes
    <2>2. ItemRefutes'
      BY <1>4 DEF Recognize, ItemRefutes, AfterItem, Silent
    <2>3. KeywordRefutes'
      BY <1>4 DEF Recognize, KeywordRefutes, BetweenLoops, Recognitions, Unknown
    <2> QED  BY <2>1, <2>2, <2>3
  <1>5. ASSUME NEW found \in {"article", "others", "nothing"}, SemanticExact(found)
        PROVE  RouteInv'
    <2>1. RoutesTypeOK'
      BY <1>5 DEF SemanticExact, RoutesTypeOK, End, Routes, Statuses, NumberedRoutes, ExactRoutes,
         CanonicalRoutes, TitleRoutes
    <2>2. ItemRefutes'
      BY <1>5 DEF SemanticExact, ItemRefutes, End, AfterItem, Silent
    <2>3. KeywordRefutes'
      BY <1>5 DEF SemanticExact, KeywordRefutes, End, Unknown, BetweenLoops
    <2> QED  BY <2>1, <2>2, <2>3
  <1>6. ASSUME NEW answer \in {"listed", "unlisted", "error"}, Keyword(answer)
        PROVE  RouteInv'
    <2>1. RoutesTypeOK'
      BY <1>6 DEF Keyword, RoutesTypeOK, End, Routes, Statuses, NumberedRoutes, ExactRoutes,
         CanonicalRoutes, TitleRoutes, MissingArticle, KeywordFails, NextShapeOr
    <2>2. ItemRefutes'
      BY <1>6 DEF Keyword, ItemRefutes, End, AfterItem, Silent, MissingArticle, KeywordFails,
         NextShapeOr, Listings, RoutesTypeOK
    <2>3. KeywordRefutes'
      BY <1>6, <1>t, OneMore, AllShapes
         DEF Keyword, KeywordRefutes, End, Unknown, MissingArticle, KeywordFails, NextShapeOr,
             Listings, BetweenLoops, RoutesTypeOK
    <2> QED  BY <2>1, <2>2, <2>3
  <1> QED  BY <1>1, <1>2, <1>3, <1>4, <1>5, <1>6

(* The routes of a citation without an article number keep the invariant. *)
LEMMA TitleKeeps ==
  ASSUME RouteInv,
         \/ \E r \in {"none", "same", "canonical"} : RecognizeTitle(r)
         \/ \E answer \in {"listed", "unlisted", "error"} : TitleKeyword(answer)
         \/ \E hit \in BOOLEAN : Corpus(hit)
         \/ \E answer \in {"articles", "nothing", "error"} : Semantic(answer)
  PROVE  RouteInv'
  <1> USE ShapeAssumption DEF RouteInv, flags
  <1>t. RoutesTypeOK  OBVIOUS
  <1>1. ASSUME NEW r \in {"none", "same", "canonical"}, RecognizeTitle(r)
        PROVE  RouteInv'
    <2>1. RoutesTypeOK'
      BY <1>1 DEF RecognizeTitle, RoutesTypeOK, Routes, NumberedRoutes, ExactRoutes,
         CanonicalRoutes, TitleRoutes, NextShapeOr
    <2>2. ItemRefutes'
      BY <1>1 DEF RecognizeTitle, ItemRefutes, AfterItem, Silent, NextShapeOr
    <2>3. KeywordRefutes'
      BY <1>1 DEF RecognizeTitle, KeywordRefutes, Recognitions, Unknown, NextShapeOr, BetweenLoops
    <2> QED  BY <2>1, <2>2, <2>3
  <1>2. ASSUME NEW answer \in {"listed", "unlisted", "error"}, TitleKeyword(answer)
        PROVE  RouteInv'
    <2>1. RoutesTypeOK'
      BY <1>2 DEF TitleKeyword, RoutesTypeOK, End, Routes, Statuses, NumberedRoutes, ExactRoutes,
         CanonicalRoutes, TitleRoutes, KeywordFails, NextShapeOr
    <2>2. ItemRefutes'
      BY <1>2 DEF TitleKeyword, ItemRefutes, End, AfterItem, Silent, KeywordFails, NextShapeOr
    <2>3. CASE answer = "error" \/ answer = "listed"
      <3>1. route' \in {"done", "law_semantic", "corpus"} /\ (related' \/ route' = "done")
        BY <1>2, <2>3 DEF TitleKeyword, KeywordFails, End
      <3>2. recognized' = recognized /\ world' = world /\ status' # "law_not_found"
        BY <1>2, <2>3 DEF TitleKeyword, KeywordRefutes, KeywordFails, End
      <3>3. KeywordRefutes'
        BY <3>1, <3>2 DEF KeywordRefutes, BetweenLoops
      <3> QED  BY <2>1, <2>2, <3>3
    <2>4. CASE answer = "unlisted"
      <3>1. recognized # "canonical" /\ shape \notin world.known
        BY <1>2, <2>4 DEF TitleKeyword, TitleKnown, Listings, KeywordRefutes
      <3>2. Unknown(shape)
        BY <1>2, <1>t, <3>1, OneMore DEF TitleKeyword, KeywordRefutes
      <3>3. \A n : Unknown(n) => Unknown(n)'
        BY <1>2 DEF TitleKeyword, Unknown
      <3>4. recognized' = recognized /\ status' = status /\ status # "law_not_found"
        BY <1>2, <2>4 DEF TitleKeyword, KeywordRefutes
      <3>5. CASE shape < Shapes
        <4>1. route' = "title_keyword" /\ shape' - 1 = shape
          BY <1>2, <1>t, <2>4, <3>5 DEF TitleKeyword, NextShapeOr, RoutesTypeOK
        <4>2. KeywordRefutes'
          BY <3>1, <3>2, <3>3, <3>4, <4>1 DEF KeywordRefutes, BetweenLoops
        <4> QED  BY <2>1, <2>2, <4>2
      <3>6. CASE ~(shape < Shapes)
        <4>1. route' = "law_semantic" /\ shape = Shapes
          BY <1>2, <1>t, <2>4, <3>6, AllShapes DEF TitleKeyword, NextShapeOr
        <4>2. KeywordRefutes'
          BY <3>1, <3>2, <3>3, <3>4, <4>1 DEF KeywordRefutes, BetweenLoops
        <4> QED  BY <2>1, <2>2, <4>2
      <3> QED  BY <3>5, <3>6
    <2> QED  BY <2>3, <2>4
  <1>3. ASSUME NEW hit \in BOOLEAN, Corpus(hit)
        PROVE  RouteInv'
    <2>1. RoutesTypeOK'
      BY <1>3 DEF Corpus, RoutesTypeOK, End, Routes, Statuses, NumberedRoutes, ExactRoutes,
         CanonicalRoutes, TitleRoutes
    <2>2. ItemRefutes' /\ KeywordRefutes'
      BY <1>3 DEF Corpus, ItemRefutes, KeywordRefutes, End, AfterItem, Silent, Unknown, BetweenLoops
    <2> QED  BY <2>1, <2>2
  <1>4. ASSUME NEW answer \in {"articles", "nothing", "error"}, Semantic(answer)
        PROVE  RouteInv'
    <2>1. RoutesTypeOK'
      BY <1>4 DEF Semantic, RoutesTypeOK, End, Routes, Statuses, NumberedRoutes, ExactRoutes,
         CanonicalRoutes, TitleRoutes
    <2>2. ItemRefutes' /\ KeywordRefutes'
      BY <1>4 DEF Semantic, ItemRefutes, KeywordRefutes, End, AfterItem, Silent, Unknown, BetweenLoops
    <2> QED  BY <2>1, <2>2
  <1> QED  BY <1>1, <1>2, <1>3, <1>4

(* Whatever the routes do. *)
LEMMA RouteStepKeeps ==
  ASSUME RouteInv, RouteStep
  PROVE  RouteInv' /\ UNCHANGED <<world, ask>>
  <1>1. RouteInv'
    BY NumberedKeeps, TitleKeeps DEF RouteStep
  <1>2. UNCHANGED <<world, ask>>
    BY DEF RouteStep, LawItem, LawSearch, CanonicalRetry, Recognize, RecognizeTitle, SemanticExact,
       Keyword, TitleKeyword, Corpus, Semantic
  <1> QED  BY <1>1, <1>2

-----------------------------------------------------------------------------
(* The initial state satisfies the inductive invariant. *)
THEOREM LookupInitOK == LookupInit => LookupInv
  <1> SUFFICES ASSUME LookupInit PROVE LookupInv
    OBVIOUS
  <1>1. RoutesTypeOK
    <2>1. 1 \in 1 .. Shapes
      BY ShapeAssumption
    <2> QED  BY <2>1 DEF LookupInit, RoutesInit, RoutesTypeOK, Routes, Statuses
  <1>2. NoResult \in Results /\ NoResult.status = "none"
    BY DEF NoResult, Results, Statuses
  <1>3. LookupTypeOK
    BY <1>1, <1>2, TriesAssumption DEF LookupInit, LookupTypeOK
  <1>4. ItemRefutes /\ KeywordRefutes
    BY DEF LookupInit, RoutesInit, ItemRefutes, KeywordRefutes, AfterItem, BetweenLoops
  <1>5. ToldTruth
    BY <1>2 DEF LookupInit, ToldTruth
  <1> QED  BY <1>3, <1>4, <1>5 DEF LookupInv

(* What the sources return is a result. *)
LEMMA ResultTypes ==
  ASSUME RoutesTypeOK
  PROVE  LocalResults \subseteq Results /\ RemoteResults \subseteq Results
  <1>1. LocalStatuses \subseteq Statuses /\ status \in Statuses
    BY DEF LocalStatuses, Statuses, Found, Partial, RoutesTypeOK
  <1> QED  BY <1>1 DEF LocalResults, RemoteResults, Unfounded, Results

(* A result of Pkulaw has the status its routes ended with. *)
LEMMA RemoteStatus ==
  ASSUME NEW r \in RemoteResults
  PROVE  r.status = status
BY DEF RemoteResults, Unfounded

(* Every step of the chain keeps the inductive invariant. *)
THEOREM LookupStepOK == LookupInv /\ [LookupNext]_lookupVars => LookupInv'
  <1> SUFFICES ASSUME LookupInv, [LookupNext]_lookupVars PROVE LookupInv'
    OBVIOUS
  <1>r. RouteInv /\ RoutesTypeOK /\ LookupTypeOK /\ ToldTruth
    BY DEF LookupInv, LookupTypeOK, RouteInv
  <1>f. ASSUME RouteInv', LookupTypeOK', ToldTruth'
        PROVE  LookupInv'
    BY <1>f DEF LookupInv, RouteInv
  <1>n. \A n : Unknown(n) /\ UNCHANGED world => Unknown(n)'
    BY DEF Unknown
  <1>u. ASSUME UNCHANGED routeVars
        PROVE  RouteInv' /\ RoutesTypeOK'
    BY <1>u, <1>r DEF routeVars, flags, RouteInv, RoutesTypeOK, ItemRefutes, KeywordRefutes,
       Silent, Unknown
  <1>1. ASSUME NEW r \in LocalResults, AskLocal(r)
        PROVE  LookupInv'
    <2>1. r \in Results
      BY <1>r, ResultTypes
    <2>2. RouteInv' /\ RoutesTypeOK' /\ UNCHANGED world
      BY <1>1, <1>r, <1>u, BeginKeeps DEF AskLocal, RouteInv, routeVars, Begin
    <2>3. LookupTypeOK'
      BY <1>1, <1>r, <2>1, <2>2, TriesAssumption DEF AskLocal, LookupTypeOK, Return
    <2>4. ToldTruth'
      <3>1. remote' = remote
        BY <1>1 DEF AskLocal
      <3>2. CASE Complete(r) /\ ask # "related"
        BY <1>1, <1>r, <1>n, <2>2, <3>1, <3>2 DEF AskLocal, Return, Complete, Found, ToldTruth
      <3>3. CASE ~(Complete(r) /\ ask # "related")
        BY <1>1, <1>r, <1>n, <2>2, <3>1, <3>3 DEF AskLocal, ToldTruth
      <3> QED  BY <3>2, <3>3
    <2> QED  BY <1>f, <2>2, <2>3, <2>4
  <1>2. ASSUME AskPkulaw
        PROVE  LookupInv'
    <2>1. RouteInv' /\ RoutesTypeOK' /\ UNCHANGED world /\ UNCHANGED chainVars
      BY <1>2, <1>r, RouteStepKeeps DEF AskPkulaw, RouteInv
    <2>2. LookupTypeOK' /\ ToldTruth'
      BY <1>r, <1>n, <2>1 DEF LookupTypeOK, ToldTruth, chainVars, HasEvidence
    <2> QED  BY <1>f, <2>1, <2>2
  <1>3. ASSUME RetryPkulaw
        PROVE  LookupInv'
    <2>1. RouteInv' /\ RoutesTypeOK' /\ UNCHANGED world
      BY <1>3, <1>r, BeginKeeps DEF RetryPkulaw, RouteInv, Begin
    <2>2. LookupTypeOK'
      BY <1>3, <1>r, <2>1, TriesAssumption DEF RetryPkulaw, Retryable, LookupTypeOK
    <2>3. ToldTruth'
      BY <1>3, <1>r, <1>n, <2>1 DEF RetryPkulaw, ToldTruth, HasEvidence
    <2> QED  BY <1>f, <2>1, <2>2, <2>3
  <1>4. ASSUME NEW r \in RemoteResults, TakePkulaw(r)
        PROVE  LookupInv'
    <2>1. RouteInv' /\ RoutesTypeOK' /\ UNCHANGED world
      BY <1>4, <1>u DEF TakePkulaw, routeVars
    <2>2. r \in Results /\ r.status = status
      BY <1>r, ResultTypes, RemoteStatus
    <2>3. Linked(r) \in Results /\ Linked(r).status = local.status
      BY <1>r DEF Linked, Results, LookupTypeOK
    <2>4. Best(r) \in Results
      BY <1>r, <2>2, <2>3 DEF Best, LookupTypeOK
    <2>5. LookupTypeOK'
      BY <1>4, <1>r, <2>1, <2>2, <2>4 DEF TakePkulaw, LookupTypeOK, Return
    <2>6. r.status = "law_not_found" => Unknown(Shapes)'
      BY <1>r, <1>n, <2>1, <2>2 DEF RouteInv, KeywordRefutes
    <2>7. Best(r).status = "law_not_found" => r.status = "law_not_found" /\ ~HasEvidence(local)
      BY <2>3 DEF Best, HasEvidence, Found, Partial
    <2>8. ToldTruth'
      BY <1>4, <1>r, <2>6, <2>7 DEF TakePkulaw, Return, ToldTruth, HasEvidence
    <2> QED  BY <1>f, <2>1, <2>5, <2>8
  <1>5. ASSUME NothingRecalled \/ NoModel \/ ModelFails \/ ModelRejects \/ ModelKeeps
        PROVE  LookupInv'
    <2>1. /\ UNCHANGED routeVars /\ local' = local /\ remote' = remote /\ tries' = tries
          /\ at' = "returned"
      BY <1>5 DEF NothingRecalled, NoModel, ModelFails, ModelRejects, ModelKeeps, Return
    <2>2. RouteInv' /\ RoutesTypeOK' /\ UNCHANGED world
      BY <1>u, <2>1 DEF routeVars
    <2>3. Base \in Results /\ remote \in Results
      BY <1>r DEF Base, LookupTypeOK
    <2>4. AnyRecalled => HasEvidence(Base)
      BY DEF AnyRecalled, Recalled, HasEvidence, Base
    <2>5. /\ result' \in Results
          /\ result'.status = "law_not_found" => result' = remote /\ ~HasEvidence(local)
      <3>1. CASE NothingRecalled
        BY <2>3, <3>1 DEF NothingRecalled, Return, Empty, Results, Statuses, HasEvidence, Base
      <3>2. CASE NoModel
        BY <2>3, <2>4, <3>2 DEF NoModel, Return, HasEvidence, Found, Partial
      <3>3. CASE ModelFails \/ ModelRejects
        BY <2>3, <3>3 DEF ModelFails, ModelRejects, Return, Empty, Results, Statuses
      <3>4. CASE ModelKeeps
        BY <2>3, <3>4 DEF ModelKeeps, Return, Results, Statuses
      <3> QED  BY <1>5, <3>1, <3>2, <3>3, <3>4
    <2>6. failure' \in {"none", "related_pending", "model_unavailable", "all_rejected"}
      BY <1>5, <1>r DEF NothingRecalled, NoModel, ModelFails, ModelRejects, ModelKeeps, LookupTypeOK
    <2>7. LookupTypeOK'
      BY <1>r, <2>1, <2>2, <2>5, <2>6 DEF LookupTypeOK
    <2>8. ToldTruth'
      BY <1>r, <1>n, <2>1, <2>2, <2>5 DEF ToldTruth, HasEvidence
    <2> QED  BY <1>f, <2>2, <2>7, <2>8
  <1>6. CASE UNCHANGED lookupVars
    <2>1. UNCHANGED routeVars /\ UNCHANGED chainVars
      BY <1>6 DEF lookupVars
    <2>2. RouteInv' /\ RoutesTypeOK' /\ UNCHANGED world
      BY <1>u, <2>1 DEF routeVars
    <2>3. LookupTypeOK' /\ ToldTruth'
      BY <1>r, <1>n, <2>1, <2>2 DEF LookupTypeOK, ToldTruth, chainVars, HasEvidence
    <2> QED  BY <1>f, <2>2, <2>3
  <1> QED  BY <1>1, <1>2, <1>3, <1>4, <1>5, <1>6 DEF LookupNext

(* The inductive invariant holds in every lookup. *)
THEOREM LookupInvariance == LookupSpec => []LookupInv
BY LookupInitOK, LookupStepOK, PTL DEF LookupSpec

(* The types of the lookup. *)
THEOREM LookupTypeCorrect == LookupSpec => []LookupTypeOK
BY LookupInvariance, PTL DEF LookupInv

(* A lookup says that a law does not exist only if neither the local       *)
(* library nor Pkulaw has it under the titles it was asked for, whatever   *)
(* calls failed on the way.                                                *)
THEOREM NotFoundTrue == LookupSpec => []NotFoundIsTrue
  <1>1. LookupInv => NotFoundIsTrue
    <2> SUFFICES ASSUME LookupInv, result.status = "law_not_found"
                 PROVE  world.known = {} /\ ~HasEvidence(local)
      BY DEF NotFoundIsTrue
    <2>1. Unknown(Shapes) /\ ~HasEvidence(local)
      BY DEF LookupInv, ToldTruth
    <2>2. world.known \subseteq 1 .. Shapes
      BY WorldAssumption DEF LookupInv, LookupTypeOK, RoutesTypeOK
    <2> QED  BY <2>1, <2>2 DEF Unknown
  <1> QED  BY <1>1, LookupInvariance, PTL

(* The double signal of absence is true, whatever calls failed.            *)
THEOREM DoubleSignalTrue == LookupSpec => []DoubleSignalIsTrue
  <1>1. LookupInv => DoubleSignalIsTrue
    BY DEF LookupInv, ItemRefutes, DoubleSignalIsTrue
  <1> QED  BY <1>1, LookupInvariance, PTL

-----------------------------------------------------------------------------
(* What is kept of the results on the way to the one that is returned.     *)
Kept ==
  /\ local.from = "local"
  /\ at \in {"local", "pkulaw"} => remote.status = "none"
  /\ at = "model" => ask = "related"
  /\ BestAnswerWins
  /\ LinkBelongsToText

(* A result of the local library, and one of Pkulaw.                       *)
LEMMA ResultFields ==
  /\ \A r \in LocalResults : r.from = "local"
  /\ \A r \in RemoteResults : r.link \in {"none", "usable"}
BY DEF LocalResults, RemoteResults, Unfounded

LEMMA KeptInit == LookupInit => Kept
  <1> SUFFICES ASSUME LookupInit PROVE Kept
    OBVIOUS
  <1>1. at = "local" /\ local = NoResult /\ remote = NoResult
    BY DEF LookupInit
  <1> QED  BY <1>1 DEF Kept, BestAnswerWins, LinkBelongsToText, NoResult

(* The chain's result is worth as much as either source's, and its link is *)
(* its own or one that was lent.                                           *)
LEMMA BestKeeps ==
  ASSUME LookupInv, local.from = "local", NEW r \in RemoteResults
  PROVE  /\ Worth(Best(r)) >= Worth(local) /\ Worth(Best(r)) >= Worth(r)
         /\ local.status \in Found => Best(r).from = "local"
         /\ Best(r).status \in Found =>
              \/ Best(r).link = "none"
              \/ /\ Best(r).link = "usable"
                 /\ r.link = "usable" /\ r.version = Best(r).version
                 /\ r.from = Best(r).from \/ (r.version # "none" /\ r.title = "requested")
  <1>1. local \in Results /\ r \in Results
    BY ResultTypes DEF LookupInv, LookupTypeOK
  <1>2. /\ Linked(r).status = local.status /\ Linked(r).from = local.from
        /\ Linked(r).version = local.version
        /\ Linked(r).link = IF MayLend(r) THEN "usable" ELSE "none"
    BY <1>1 DEF Linked, Results
  <1>3. Found \cap Partial = {}
    BY DEF Found, Partial
  <1>4. CASE local.status \in Found
    <2>1. Best(r) = Linked(r)
      BY <1>4 DEF Best
    <2>2. Worth(Best(r)) = 2 /\ Worth(local) = 2 /\ Worth(r) \in {0, 1, 2}
      BY <1>2, <1>4, <2>1 DEF Worth
    <2> QED  BY <1>2, <1>4, <2>1, <2>2 DEF MayLend
  <1>5. CASE local.status \notin Found /\ local.status \in Partial /\ ~HasEvidence(r)
    <2>1. Best(r) = local
      BY <1>5 DEF Best
    <2>2. Worth(local) = 1 /\ Worth(r) = 0
      BY <1>5 DEF Worth, HasEvidence
    <2> QED  BY <1>5, <2>1, <2>2
  <1>6. CASE local.status \notin Found /\ ~(local.status \in Partial /\ ~HasEvidence(r))
    <2>1. Best(r) = r
      BY <1>6 DEF Best
    <2>2. Worth(r) >= Worth(local) /\ Worth(r) \in {0, 1, 2}
      BY <1>3, <1>6 DEF Worth, HasEvidence
    <2>3. r.link \in {"none", "usable"}
      BY ResultFields
    <2> QED  BY <1>6, <2>1, <2>2, <2>3
  <1> QED  BY <1>4, <1>5, <1>6

(* Every step keeps it.                                                    *)
LEMMA KeptStep == LookupInv /\ Kept /\ [LookupNext]_lookupVars => Kept'
  <1> SUFFICES ASSUME LookupInv, Kept, [LookupNext]_lookupVars PROVE Kept'
    OBVIOUS
  <1>1. ASSUME NEW r \in LocalResults, AskLocal(r)
        PROVE  Kept'
    <2>1. local' = r /\ r.from = "local" /\ remote' = remote /\ remote.status = "none"
      BY <1>1, ResultFields DEF AskLocal, Kept
    <2>2. CASE Complete(r) /\ ask # "related"
      <3>1. at' = "returned" /\ result' = r
        BY <1>1, <2>2 DEF AskLocal, Return
      <3>2. r.link = "usable" /\ Worth(r) = 2 /\ Worth(remote) = 0
        BY <2>1, <2>2 DEF Complete, Worth, Found, Partial
      <3>3. BestAnswerWins'
        BY <2>1, <3>1, <3>2 DEF BestAnswerWins, Worth
      <3>4. LinkBelongsToText'
        BY <2>1, <3>1, <3>2 DEF LinkBelongsToText
      <3> QED  BY <2>1, <3>1, <3>3, <3>4 DEF Kept
    <2>3. CASE ~(Complete(r) /\ ask # "related")
      <3>1. at' = "pkulaw"
        BY <1>1, <2>3 DEF AskLocal
      <3> QED  BY <2>1, <3>1 DEF Kept, BestAnswerWins, LinkBelongsToText
    <2> QED  BY <2>2, <2>3
  <1>2. ASSUME NEW r \in RemoteResults, TakePkulaw(r)
        PROVE  Kept'
    <2>1. local' = local /\ remote' = r /\ ask' = ask /\ local.from = "local"
      BY <1>2 DEF TakePkulaw, Kept, routeVars
    <2>2. CASE ask = "related"
      BY <1>2, <2>1, <2>2 DEF TakePkulaw, Kept, BestAnswerWins, LinkBelongsToText
    <2>3. CASE ask # "related"
      <3>1. at' = "returned" /\ result' = Best(r)
        BY <1>2, <2>3 DEF TakePkulaw, Return
      <3>2. BestAnswerWins' /\ LinkBelongsToText'
        BY <2>1, <3>1, BestKeeps DEF BestAnswerWins, LinkBelongsToText, Worth
      <3> QED  BY <2>1, <3>1, <3>2 DEF Kept
    <2> QED  BY <2>2, <2>3
  <1>3. ASSUME NothingRecalled \/ NoModel \/ ModelFails \/ ModelRejects \/ ModelKeeps
        PROVE  Kept'
    <2>1. local' = local /\ ask' = ask /\ ask = "related" /\ at' = "returned"
      BY <1>3 DEF NothingRecalled, NoModel, ModelFails, ModelRejects, ModelKeeps, Return, Kept, routeVars
    <2> QED  BY <2>1 DEF Kept, BestAnswerWins, LinkBelongsToText
  <1>4. ASSUME AskPkulaw \/ RetryPkulaw
        PROVE  Kept'
    <2>1. UNCHANGED <<at, local, remote, result>> /\ at = "pkulaw"
      BY <1>4 DEF AskPkulaw, RetryPkulaw, chainVars
    <2> QED  BY <2>1 DEF Kept, BestAnswerWins, LinkBelongsToText
  <1>5. CASE UNCHANGED lookupVars
    BY <1>5 DEF lookupVars, chainVars, routeVars, Kept, BestAnswerWins, LinkBelongsToText, Worth
  <1> QED  BY <1>1, <1>2, <1>3, <1>4, <1>5 DEF LookupNext

LEMMA KeptAlways == LookupSpec => []Kept
BY KeptInit, KeptStep, LookupInvariance, PTL DEF LookupSpec

(* No source's better result is lost and local text is never replaced,     *)
(* whatever fails, for any versions and any number of tries.               *)
THEOREM BestAnswer == LookupSpec => []BestAnswerWins
BY KeptAlways, PTL DEF Kept

(* Within a try of Pkulaw a step goes to a later route or the next title.  *)
LEMMA RoutesLeadOn ==
  ASSUME RoutesTypeOK, RouteStep
  PROVE  \/ RouteOrder[route'] > RouteOrder[route]
         \/ route' = route /\ shape' = shape + 1 /\ shape' <= Shapes
  <1> DEFINE On == \/ RouteOrder[route'] > RouteOrder[route]
                   \/ route' = route /\ shape' = shape + 1 /\ shape' <= Shapes
  <1>n. ASSUME NEW r, NextShapeOr(r), RouteOrder[r] > RouteOrder[route]
        PROVE  On
    BY <1>n, ShapeAssumption DEF NextShapeOr, RoutesTypeOK
  <1>1. ASSUME NEW answer \in {"hit", "mismatched", "not_found", "error"}, LawItem(answer)
        PROVE  On
    BY <1>1, <1>n DEF LawItem, End, RouteOrder
  <1>2. ASSUME NEW answer \in {"hit", "mismatched", "not_found", "error"}, LawSearch(answer)
        PROVE  On
    BY <1>2, <1>n DEF LawSearch, End, RouteOrder
  <1>3. ASSUME NEW answer \in {"hit", "mismatched", "not_found", "error"}, CanonicalRetry(answer)
        PROVE  On
    BY <1>3 DEF CanonicalRetry, CanonicalRoutes, End, RouteOrder
  <1>4. ASSUME NEW r \in {"none", "same", "canonical"}, Recognize(r) \/ RecognizeTitle(r)
        PROVE  On
    BY <1>4, <1>n DEF Recognize, RecognizeTitle, RouteOrder
  <1>5. ASSUME NEW found \in {"article", "others", "nothing"}, SemanticExact(found)
        PROVE  On
    BY <1>5 DEF SemanticExact, End, RouteOrder
  <1>6. ASSUME NEW answer \in {"listed", "unlisted", "error"}, Keyword(answer)
        PROVE  On
    BY <1>6, <1>n DEF Keyword, KeywordFails, MissingArticle, End, RouteOrder
  <1>7. ASSUME NEW answer \in {"listed", "unlisted", "error"}, TitleKeyword(answer)
        PROVE  On
    BY <1>7, <1>n DEF TitleKeyword, KeywordFails, End, RouteOrder
  <1>8. ASSUME NEW hit \in BOOLEAN, Corpus(hit)
        PROVE  On
    BY <1>8 DEF Corpus, End, RouteOrder
  <1>9. ASSUME NEW answer \in {"articles", "nothing", "error"}, Semantic(answer)
        PROVE  On
    BY <1>9 DEF Semantic, End, RouteOrder
  <1> QED  BY <1>1, <1>2, <1>3, <1>4, <1>5, <1>6, <1>7, <1>8, <1>9 DEF RouteStep

(* A lookup makes no more calls than its tries, routes and titles allow,   *)
(* whatever fails: the measure that its end rests on, for any number of    *)
(* titles and tries.                                                       *)
THEOREM LookupBounded == LookupSpec => LookupLeadsOn
  <1> DEFINE On ==
        \/ ChainOrder[at'] > ChainOrder[at]
        \/ at' = at /\ tries' = tries + 1 /\ tries' <= MaxTries
        \/ UNCHANGED <<at, tries>> /\ RouteOrder[route'] > RouteOrder[route]
        \/ UNCHANGED <<at, tries, route>> /\ shape' = shape + 1 /\ shape' <= Shapes
  <1>1. LookupInv /\ [LookupNext]_lookupVars => [On]_lookupVars
    <2> SUFFICES ASSUME LookupInv, LookupNext PROVE On
      OBVIOUS
    <2>1. ASSUME NEW r \in LocalResults, AskLocal(r)
          PROVE  On
      BY <2>1 DEF AskLocal, Return, ChainOrder
    <2>2. CASE AskPkulaw
      BY <2>2, RoutesLeadOn DEF AskPkulaw, chainVars, LookupInv, LookupTypeOK
    <2>3. CASE RetryPkulaw
      BY <2>3, TriesAssumption DEF RetryPkulaw, Retryable, LookupInv, LookupTypeOK
    <2>4. ASSUME NEW r \in RemoteResults, TakePkulaw(r)
          PROVE  On
      BY <2>4 DEF TakePkulaw, Return, ChainOrder
    <2>5. CASE NothingRecalled \/ NoModel \/ ModelFails \/ ModelRejects \/ ModelKeeps
      BY <2>5 DEF NothingRecalled, NoModel, ModelFails, ModelRejects, ModelKeeps, Return, ChainOrder
    <2> QED  BY <2>1, <2>2, <2>3, <2>4, <2>5 DEF LookupNext
  <1> QED  BY <1>1, LookupInvariance, PTL DEF LookupSpec, LookupLeadsOn

(* A link that is returned works and shows the version of its text.        *)
THEOREM LinkTrue == LookupSpec => []LinkBelongsToText
BY KeptAlways, PTL DEF Kept
=============================================================================
