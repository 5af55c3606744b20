---------------------------- MODULE AnsvarClient ----------------------------
(***************************************************************************)
(* retrieval/sources/ansvar/client.py: a call to the Ansvar gateway.  The  *)
(* threads of one document share the client: its MCP session, the list of  *)
(* tools and the names taken from it.  Only the handshake is under a lock; *)
(* a session that was lost is dropped without it, in two assignments, and  *)
(* the call is tried once more.                                            *)
(*                                                                         *)
(* A session is live, or dead once the gateway has restarted; the three    *)
(* attempts of _post_raw after a network error are one failure.            *)
(***************************************************************************)
EXTENDS AnsvarAuth

VARIABLES
  session,      \* _session_id of each document's client
  initialized,  \* _initialized
  sessionLock,  \* holder of _session_lock
  tools,        \* _tools: the kinds among them
  named         \* the kinds whose tool has a name

clientVars == <<session, initialized, sessionLock, tools, named>>

Kinds == {"search", "article"}
Headers == {"none", "live", "dead"}

(* What the gateway says to a tool: a record or a text, nothing of use,    *)
(* that the quota or the package does not allow it ("limit"), or an error  *)
(* of no class of its own ("fault").                                       *)
Replies == {"hit", "absent", "limit", "fault"}

(* "lost": HTTP 404, or the complaint that a request names no session, for *)
(* a session that is not there; "fault": any other AnsvarMcpError.         *)
Errors == {"fault", "lost", "raised"}

Kind(t) == IF th[t].op = "search" THEN "search" ELSE "article"

-----------------------------------------------------------------------------
(* _resolve_search_tool, _resolve_article_tool and list_tools.             *)

Resolve(t) ==
  /\ At(t, "resolve")
  /\ LET d == Doc(t) IN
     IF Kind(t) \in named[d]
     THEN Step(t, [th[t] EXCEPT !.pc = "session", !.purpose = "call"])
     ELSE IF tools[d] = {} THEN Step(t, [th[t] EXCEPT !.pc = "session", !.purpose = "list"])
     ELSE IF Kind(t) \in tools[d] THEN Goto(t, "name")
     ELSE Step(t, [th[t] EXCEPT !.pc = "errored", !.purpose = "list", !.err = "fault"])
  /\ UNCHANGED <<authVars, clientVars>>

(* The name and the schema, which only shapes the arguments of the call.   *)
NameTool(t) ==
  /\ At(t, "name")
  /\ named' = [named EXCEPT ![Doc(t)] = @ \cup {Kind(t)}]
  /\ Step(t, [th[t] EXCEPT !.pc = "session", !.purpose = "call"])
  /\ UNCHANGED <<authVars, session, initialized, sessionLock, tools>>

-----------------------------------------------------------------------------
(* _ensure_session: purpose is what the session is for.                    *)

(* The request is over: what it was sent with is forgotten.                *)
Sent(t) ==
  [th[t] EXCEPT !.post = "call", !.header = "none", !.bearer = NoTokens, !.refused = NoTokens,
                !.retried = FALSE]

(* _post_raw starts: the bearer comes first, and 401 is answered once.     *)
Post(t, what, header) ==
  Step(t, [th[t] EXCEPT !.pc = "bearer", !.post = what, !.header = header,
                        !.retried = FALSE, !.refused = NoTokens, !.second = FALSE])

UseSession(t) ==
  /\ At(t, "session") /\ initialized[Doc(t)]
  /\ Post(t, th[t].purpose, session[Doc(t)])
  /\ UNCHANGED <<authVars, clientVars>>

Handshake(t) ==
  /\ At(t, "session") /\ ~initialized[Doc(t)] /\ sessionLock[Doc(t)] = NoThread
  /\ sessionLock' = [sessionLock EXCEPT ![Doc(t)] = t]
  /\ Post(t, "initialize", "none")
  /\ UNCHANGED <<authVars, session, initialized, tools, named>>

LeaveSessionLock(t) ==
  sessionLock' = [sessionLock EXCEPT ![Doc(t)] = IF @ = t THEN NoThread ELSE @]

(* Mutant: an error of the handshake leaves _session_lock taken. *)
KeepSessionLock(t) == UNCHANGED sessionLock
LeaveOnError(t) == LeaveSessionLock(t)

-----------------------------------------------------------------------------
(* The answer to a request that was sent.                                  *)

Accepted(t) == th[t].bearer = NoTokens \/ Honoured(th[t].bearer)
HeaderRefused(t) == config.stateful /\ th[t].post # "initialize" /\ th[t].header # "live"

(* The two requests of the handshake; the session it returns is the one    *)
(* the gateway named, whatever the client holds by then.                   *)
HandshakeAnswered(t) ==
  /\ At(t, "send") /\ Accepted(t) /\ ~HeaderRefused(t)
  /\ \/ /\ th[t].post = "initialize"
        /\ LET id == IF config.stateful THEN "live" ELSE "none" IN
           /\ session' = [session EXCEPT ![Doc(t)] = id]
           /\ Post(t, "notify", id)
        /\ UNCHANGED <<initialized, sessionLock>>
     \/ /\ th[t].post = "notify"
        /\ initialized' = [initialized EXCEPT ![Doc(t)] = TRUE]
        /\ LeaveSessionLock(t)
        /\ Post(t, th[t].purpose, th[t].header)
        /\ UNCHANGED session
  /\ UNCHANGED <<authVars, tools, named>>

(* tools/list.  A list that is empty is asked for again the next time.     *)
ListAnswered(t, offered) ==
  /\ At(t, "send") /\ Accepted(t) /\ ~HeaderRefused(t) /\ th[t].post = "list"
  /\ tools' = [tools EXCEPT ![Doc(t)] = offered]
  /\ IF Kind(t) \in offered THEN Step(t, [Sent(t) EXCEPT !.pc = "name"])
     ELSE Step(t, [Sent(t) EXCEPT !.pc = "errored", !.err = "fault"])
  /\ UNCHANGED <<authVars, session, initialized, sessionLock, named>>

(* tools/call: what the payload says is for get_article_text or search_law *)
(* to read; it is no error of the transport, and never tried again.        *)
CallAnswered(t, reply) ==
  /\ At(t, "send") /\ Accepted(t) /\ ~HeaderRefused(t) /\ th[t].post = "call"
  /\ Step(t, [Sent(t) EXCEPT !.pc = "answered", !.reply = reply])
  /\ UNCHANGED <<authVars, clientVars>>

(* 401: the token is marked and the request sent once more, but for a      *)
(* token the user set.                                                     *)
Unauthorised(t) ==
  /\ At(t, "send") /\ ~Accepted(t)
  /\ IF th[t].retried THEN Step(t, [Sent(t) EXCEPT !.pc = "failed", !.err = "fault"])
     ELSE Step(t, [th[t] EXCEPT !.pc = "expire", !.retried = TRUE, !.refused = th[t].bearer])
  /\ UNCHANGED <<authVars, clientVars>>

(* Every other failure of _post_raw; a body that is no JSON, or breaks off *)
(* while it is read, raises an exception nothing there catches.            *)
Refused(t, err) ==
  /\ At(t, "send")
  /\ err = "lost" => HeaderRefused(t)
  /\ Step(t, [Sent(t) EXCEPT !.pc = "failed", !.err = err])
  /\ UNCHANGED <<authVars, clientVars>>

(* The exception leaves _ensure_session, and _call_tool decides by the     *)
(* words of an AnsvarMcpError: if they are of a session, or hold a 404,    *)
(* the session counts as gone; it is dropped and the call tried again,     *)
(* once.  An error of a proxy or of the OAuth server may say so, too.      *)
SaysGone(err, gone) ==
  gone \in IF err = "fault" /\ config.confusing THEN BOOLEAN ELSE {err = "lost"}

Failed(t, gone) ==
  /\ At(t, "failed") /\ SaysGone(th[t].err, gone)
  /\ LeaveOnError(t)
  /\ IF th[t].purpose = "call" /\ gone /\ ~th[t].again
     THEN Step(t, [Sent(t) EXCEPT !.pc = "drop", !.again = TRUE, !.err = "fault"])
     ELSE Step(t, [Sent(t) EXCEPT !.pc = "errored"])
  /\ UNCHANGED <<authVars, session, initialized, tools, named>>

DropSession(t) ==
  /\ At(t, "drop")
  /\ session' = [session EXCEPT ![Doc(t)] = "none"]
  /\ Goto(t, "uninitialise")
  /\ UNCHANGED <<authVars, initialized, sessionLock, tools, named>>

Uninitialise(t) ==
  /\ At(t, "uninitialise")
  /\ initialized' = [initialized EXCEPT ![Doc(t)] = FALSE]
  /\ Goto(t, "session")
  /\ UNCHANGED <<authVars, session, sessionLock, tools, named>>

-----------------------------------------------------------------------------
ClientStep(t) ==
  \/ AuthStep(t) /\ UNCHANGED clientVars
  \/ Resolve(t) \/ NameTool(t)
  \/ UseSession(t) \/ Handshake(t)
  \/ HandshakeAnswered(t)
  \/ \E offered \in {{}, {"search"}, Kinds} : ListAnswered(t, offered)
  \/ \E reply \in Replies : CallAnswered(t, reply)
  \/ Unauthorised(t)
  \/ \E err \in Errors : Refused(t, err)
  \/ \E gone \in BOOLEAN : Failed(t, gone)
  \/ DropSession(t) \/ Uninitialise(t)

(* The gateway restarts and knows no session any more.                     *)
Dead(header) == IF header = "live" THEN "dead" ELSE header
GatewayRestarts ==
  /\ config.stateful
  /\ session' = [d \in Docs |-> Dead(session[d])]
  /\ th' = [t \in Threads |-> [th[t] EXCEPT !.header = Dead(@)]]
  /\ UNCHANGED <<authVars, initialized, sessionLock, tools, named>>

ClientTypeOK ==
  /\ AuthTypeOK
  /\ session \in [Docs -> Headers]
  /\ initialized \in [Docs -> BOOLEAN]
  /\ sessionLock \in [Docs -> Threads \cup {NoThread}]
  /\ tools \in [Docs -> SUBSET Kinds] /\ named \in [Docs -> SUBSET Kinds]

(* A request that was refused with 401 is not sent again with the token    *)
(* that was refused: marking it takes hold, whichever copies other threads *)
(* and documents write back meanwhile (client.py:371-373).                 *)
RefusedTokenNotReused ==
  \A t \in Threads : At(t, "send") /\ th[t].retried => th[t].bearer # th[t].refused
=============================================================================
