---------------------------- MODULE PkulawCaller ----------------------------
(***************************************************************************)
(* What retrieval/sources/pkulaw/client.py promises of a document towards  *)
(* Pkulaw: however many threads look up its citations, it behaves like one *)
(* caller that makes one call after the other.  A call is posted, posted   *)
(* again after a failure, up to a number of times, and is over before the  *)
(* next one begins.  The caller pauses only at the end of a call whose     *)
(* last post went out, and begins no call while it pauses.  The callers    *)
(* take turns on one connection.                                           *)
(*                                                                         *)
(* PkulawClient, with its threads, locks and probe, implements it.         *)
(***************************************************************************)
EXTENDS Integers

CONSTANTS
  Callers,   \* one per running document
  MaxPosts   \* posts of one call

VARIABLES
  phase,   \* where the call of a caller is
  posts,   \* the number of its present post
  pausing, \* the callers that pause
  line     \* the caller that is posting, if any

vars == <<phase, posts, pausing, line>>

Init ==
  /\ phase = [c \in Callers |-> "free"]
  /\ posts = [c \in Callers |-> 0]
  /\ pausing = {}
  /\ line = {}

Move(c, where, n) ==
  /\ phase' = [phase EXCEPT ![c] = where]
  /\ posts' = [posts EXCEPT ![c] = n]

Begin(c) ==
  /\ phase[c] = "free" /\ c \notin pausing
  /\ Move(c, "connect", 1)
  /\ UNCHANGED <<pausing, line>>

Post(c) ==
  /\ phase[c] = "connect" /\ line = {}
  /\ line' = {c}
  /\ Move(c, "post", posts[c])
  /\ UNCHANGED pausing

(* The answer is there, or the last post failed.                           *)
End(c) ==
  /\ phase[c] = "post" /\ line = {c}
  /\ line' = {}
  /\ Move(c, "free", 0)
  /\ pausing' \in {pausing, pausing \cup {c}}

(* The line did not come free in time for the last post: nobody pauses.    *)
GiveUp(c) ==
  /\ phase[c] = "connect" /\ line \notin {{}, {c}}
  /\ posts[c] = MaxPosts
  /\ Move(c, "free", 0)
  /\ UNCHANGED <<pausing, line>>

(* A post failed, or the line did not come free in time. *)
BackOff(c) ==
  /\ \/ phase[c] = "post" /\ line = {c} /\ line' = {}
     \/ phase[c] = "connect" /\ line \notin {{}, {c}} /\ line' = line
  /\ posts[c] < MaxPosts
  /\ Move(c, "backoff", posts[c])
  /\ UNCHANGED pausing

PostAgain(c) ==
  /\ phase[c] = "backoff"
  /\ Move(c, "connect", posts[c] + 1)
  /\ UNCHANGED <<pausing, line>>

Resume(c) ==
  /\ pausing' = pausing \ {c}
  /\ UNCHANGED <<phase, posts, line>>

Next ==
  \E c \in Callers :
    Begin(c) \/ Post(c) \/ End(c) \/ GiveUp(c) \/ BackOff(c) \/ PostAgain(c) \/ Resume(c)

Spec == Init /\ [][Next]_vars
=============================================================================
