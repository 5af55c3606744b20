---------------------------- MODULE CheckStream ----------------------------
(***************************************************************************)
(* apps/api/app.py, POST /api/checks: the check of a document runs in the  *)
(* thread pool of the event loop while the response is streamed.  As long  *)
(* as the check is not done the stream sends a blank every 15 seconds, so  *)
(* that the Word add-in's web view does not give up; then one JSON object, *)
(* the response or a "__stream_error__", and the stream ends.              *)
(*                                                                         *)
(* asyncio.wait_for says with TimeoutError that the check is not done yet. *)
(* A check that raises TimeoutError itself looks the same to the loop.     *)
(***************************************************************************)
EXTENDS Integers, FiniteSets

CONSTANTS
  MaxChecks,    \* bound on the requests made
  MaxWorkers    \* threads of the executor

ASSUME StreamAssumption ==
  /\ MaxChecks \in Nat
  /\ MaxWorkers \in Nat \ {0}

VARIABLES
  job,          \* the check of each request in the executor, and how it ended
  stream,       \* the response of each request
  final         \* the object it ended with

serverVars == <<job, stream, final>>

Requests == 1 .. MaxChecks

(* How _run_document_check ends: a response, a TimeoutError of a source, or *)
(* another exception, an HTTPException among them.                         *)
Outcomes == {"response", "timeout", "error"}
Jobs == {"none", "queued", "running"} \cup Outcomes

ServerInit ==
  /\ job = [r \in Requests |-> "none"]
  /\ stream = [r \in Requests |-> "none"]
  /\ final = [r \in Requests |-> "none"]

(* check_document: the request was validated. *)
Accept(r) ==
  /\ stream[r] = "none"
  /\ job' = [job EXCEPT ![r] = "queued"]
  /\ stream' = [stream EXCEPT ![r] = "open"]
  /\ UNCHANGED final

StartJob(r) ==
  /\ job[r] = "queued"
  /\ Cardinality({q \in Requests : job[q] = "running"}) < MaxWorkers
  /\ job' = [job EXCEPT ![r] = "running"]
  /\ UNCHANGED <<stream, final>>

EndJob(r, outcome) ==
  /\ job[r] = "running"
  /\ job' = [job EXCEPT ![r] = outcome]
  /\ UNCHANGED <<stream, final>>

(* Mutant: any exception of the check is taken for "not done yet".         *)
LooksPendingOnError(r) == job[r] \in {"queued", "running", "timeout", "error"}

(* except asyncio.TimeoutError *)
LooksPending(r) == job[r] \in {"queued", "running", "timeout"}

(* Until then the loop sends blanks and changes nothing else.              *)
Answer(r) ==
  /\ stream[r] = "open" /\ ~LooksPending(r)
  /\ final' = [final EXCEPT ![r] = IF job[r] = "response" THEN "response" ELSE "error"]
  /\ stream' = [stream EXCEPT ![r] = "closed"]
  /\ UNCHANGED job

(* The client is gone or the connection broke: the stream is cancelled,    *)
(* the check itself is shielded and goes on.                               *)
Cancel(r) == stream' = [stream EXCEPT ![r] = IF @ = "open" THEN "cancelled" ELSE @]

ServerStep(r) ==
  \/ StartJob(r)
  \/ \E outcome \in Outcomes : EndJob(r, outcome)
  \/ Answer(r)
=============================================================================
