----------------------------- MODULE AnsvarAuth -----------------------------
(***************************************************************************)
(* retrieval/sources/ansvar/auth.py: where the bearer of a request to the  *)
(* Ansvar gateway comes from.  The threads of one document share an        *)
(* AnsvarOAuth object and the _auth_lock of its client; the objects of all *)
(* documents share one token file.  expire_access_token is called after a  *)
(* 401 WITHOUT the lock.                                                   *)
(*                                                                         *)
(* A token is a name; a name no copy holds any more is given to the next   *)
(* one.  The id of the registered client is left out: a refresh may be     *)
(* refused at any time, whatever the reason.  Writing the file is two      *)
(* steps, since it is emptied when it is opened.                           *)
(***************************************************************************)
EXTENDS Naturals, FiniteSets

CONSTANTS
  Docs,         \* documents under check, each with its client
  Tokens,       \* names of access and refresh tokens
  NoTokens,     \* nothing in memory, no file, no token
  MaxEnded,     \* bound on the access tokens that end
  Torn,         \* the file while it is being written
  NoThread      \* a lock nobody holds

VARIABLES
  config,       \* how the environment variables set the program up
  mem,          \* _tokens of each document's AnsvarOAuth
  file,         \* ansvar_tokens.json
  authLock,     \* holder of the _auth_lock of each document
  lapsed,       \* access tokens whose lifetime is over
  revoked,      \* access tokens the server refuses before that
  ended,        \* access tokens ended so far
  refreshable,  \* refresh tokens the server has not replaced
  th            \* what each thread is doing

serverVars == <<lapsed, revoked, refreshable>>
authVars == <<mem, file, authLock, ended, serverVars>>

(* "static": ANSVAR_ACCESS_TOKEN; "service": ANSVAR_CLIENT_ID and _SECRET; *)
(* "oauth": the login of the user in the browser.                          *)
Auth == {"static", "service", "oauth"}

Threads == DOMAIN config.doc
Doc(t) == config.doc[t]

TokenRecord == [access : Tokens, refresh : Tokens \cup {NoTokens}, marked : BOOLEAN]

(* Nothing, and a file that was cut off, are told from tokens. *)
ASSUME TokenAssumption ==
  /\ Tokens # {} /\ NoTokens \notin Tokens /\ NoTokens # Torn
  /\ NoTokens \notin TokenRecord /\ Torn \notin TokenRecord

Copies == {mem[d] : d \in Docs} \cup {file} \cup {th[t].held : t \in Threads}
Records == {c \in Copies : c \notin {NoTokens, Torn}}
InUse == {r.access : r \in Records} \cup {r.refresh : r \in Records}
           \cup {th[t].bearer : t \in Threads} \cup {th[t].refused : t \in Threads}

(* The next token of the server, as long as a name is left: the bound on   *)
(* the tokens.  What it held against the name is over, and against the     *)
(* names nobody has.                                                       *)
NameLeft == Tokens \ InUse # {}
NewToken == CHOOSE n \in Tokens : n \notin InUse

Issue(replaced, refresh) ==
  /\ lapsed' = lapsed \cap InUse /\ revoked' = revoked \cap InUse
  /\ refreshable' = ((refreshable \cap InUse) \ replaced) \cup refresh

(* expires_at is over, or was set to 0.                                    *)
Expired(r) == r.marked \/ r.access \in lapsed
Honoured(n) == n \notin lapsed \cup revoked

(* A thread goes on, with what it knows now.                               *)
Step(t, new) == th' = [th EXCEPT ![t] = new]
Goto(t, where) == Step(t, [th[t] EXCEPT !.pc = where])
At(t, where) == th[t].pc = where

HasLock(t) == authLock[Doc(t)] = t
LockFree(t) == authLock[Doc(t)] \in {NoThread, t}
Take(t) == authLock' = [authLock EXCEPT ![Doc(t)] = t]
Release(t) == authLock' = [authLock EXCEPT ![Doc(t)] = IF @ = t THEN NoThread ELSE @]

-----------------------------------------------------------------------------
(* _load_tokens, _save_tokens, _clear_tokens.                              *)

(* The file is read only when nothing is in memory; a file cut off in the  *)
(* middle counts as none.                                                  *)
Loaded(d) == IF mem[d] = NoTokens /\ file # Torn THEN file ELSE mem[d]

(* The first half of _save_tokens: memory, and the file opened.            *)
OpenFile(d, r) ==
  /\ mem' = [mem EXCEPT ![d] = r]
  /\ file' = Torn

(* The second half: a file that was unlinked meanwhile stays away, and     *)
(* os.chmod does not find it.                                              *)
Unlinked == file = NoTokens
WriteFile(r) ==
  /\ file' = IF Unlinked THEN NoTokens ELSE r
  /\ UNCHANGED mem

Clear(d) ==
  /\ mem' = [mem EXCEPT ![d] = NoTokens]
  /\ file' = NoTokens

-----------------------------------------------------------------------------
(* _bearer and get_bearer.                                                 *)

(* The bearer goes into the header of the request; the lock is given back. *)
HandOver(t, n) ==
  /\ Step(t, [th[t] EXCEPT !.pc = "send", !.bearer = n, !.held = NoTokens, !.second = FALSE])
  /\ Release(t)

(* An AnsvarAuthError, which _post_raw turns into an AnsvarMcpError        *)
(* ("fault"), or an exception nobody turns into one ("raised").            *)
FailAuth(t, err) ==
  /\ Step(t, [th[t] EXCEPT !.pc = "failed", !.err = err, !.held = NoTokens, !.second = FALSE])
  /\ Release(t)

StaticBearer(t) ==
  /\ At(t, "bearer") /\ config.auth = "static"
  /\ HandOver(t, NoTokens)
  /\ UNCHANGED <<mem, file, serverVars>>

GetBearer(t) ==
  /\ At(t, "bearer") /\ config.auth = "oauth" /\ LockFree(t)
  /\ LET r == Loaded(Doc(t)) IN
     /\ mem' = [mem EXCEPT ![Doc(t)] = r]
     /\ IF r # NoTokens /\ ~Expired(r)
        THEN HandOver(t, r.access)
        ELSE /\ Take(t)
             /\ IF r # NoTokens /\ r.refresh # NoTokens
                THEN Step(t, [th[t] EXCEPT !.pc = "refresh", !.held = r])
                ELSE Goto(t, "login")
  /\ UNCHANGED <<file, serverVars>>

(* The server may put a new refresh token in the place of the old one; it  *)
(* names none when the old one stays good.                                 *)
RefreshAccepted(t) ==
  /\ At(t, "refresh") /\ th[t].held.refresh \in refreshable /\ NameLeft
  /\ \E rotates \in BOOLEAN :
       LET n == NewToken
           old == th[t].held.refresh
           r == [access |-> n, refresh |-> IF rotates THEN n ELSE old, marked |-> FALSE]
       IN /\ Issue(IF rotates THEN {old} ELSE {}, IF rotates THEN {n} ELSE {})
          /\ OpenFile(Doc(t), r)
          /\ Step(t, [th[t] EXCEPT !.pc = "save", !.held = r])
  /\ UNCHANGED authLock

(* The tokens are cleared, in memory and for every document, and           *)
(* AnsvarAuthExpired is raised; the first time _bearer catches it.         *)
RefreshRefused(t) ==
  /\ At(t, "refresh")
  /\ Clear(Doc(t))
  /\ IF th[t].second THEN FailAuth(t, "fault")
     ELSE Step(t, [th[t] EXCEPT !.pc = "invalidate", !.held = NoTokens]) /\ UNCHANGED authLock
  /\ UNCHANGED serverVars

(* _discover turns a network error into AnsvarAuthError, _post_token lets  *)
(* it through.                                                             *)
RefreshBroken(t) ==
  /\ At(t, "refresh")
  /\ \E err \in {"fault", "raised"} : FailAuth(t, err)
  /\ UNCHANGED <<mem, file, serverVars>>

(* invalidate, before the second get_bearer.                               *)
Invalidate(t) ==
  /\ At(t, "invalidate")
  /\ Clear(Doc(t))
  /\ Step(t, [th[t] EXCEPT !.pc = "bearer", !.second = TRUE])
  /\ UNCHANGED <<authLock, serverVars>>

(* _full_authorization_flow: the user logs in in the browser; offline      *)
(* access, hence a refresh token, is for the server to grant.              *)
Login(t) ==
  /\ At(t, "login") /\ NameLeft
  /\ \E offline \in BOOLEAN :
       LET n == NewToken
           r == [access |-> n, refresh |-> IF offline THEN n ELSE NoTokens, marked |-> FALSE]
       IN /\ Issue({}, IF offline THEN {n} ELSE {})
          /\ OpenFile(Doc(t), r)
          /\ Step(t, [th[t] EXCEPT !.pc = "save", !.held = r])
  /\ UNCHANGED authLock

(* No code within five minutes, a refusal, or no network.                  *)
LoginFails(t) ==
  /\ At(t, "login")
  /\ \E err \in {"fault", "raised"} : FailAuth(t, err)
  /\ UNCHANGED <<mem, file, serverVars>>

SaveTokens(t) ==
  /\ At(t, "save")
  /\ WriteFile(th[t].held)
  /\ IF Unlinked THEN FailAuth(t, "raised") ELSE HandOver(t, th[t].held.access)
  /\ UNCHANGED serverVars

(* A service account keeps its token in memory only, and reads it from     *)
(* there again after the check.                                            *)
ServiceBearer(t) ==
  /\ At(t, "bearer") /\ config.auth = "service" /\ LockFree(t)
  /\ Take(t)
  /\ LET r == mem[Doc(t)] IN
     Goto(t, IF r # NoTokens /\ ~Expired(r) THEN "handover" ELSE "credentials")
  /\ UNCHANGED <<mem, file, serverVars>>

Credentials(t) ==
  /\ At(t, "credentials") /\ NameLeft
  /\ LET n == NewToken IN
     /\ mem' = [mem EXCEPT ![Doc(t)] = [access |-> n, refresh |-> NoTokens, marked |-> FALSE]]
     /\ Issue({}, {})
  /\ Goto(t, "handover")
  /\ UNCHANGED <<file, authLock>>

CredentialsFail(t) ==
  /\ At(t, "credentials")
  /\ \E err \in {"fault", "raised"} : FailAuth(t, err)
  /\ UNCHANGED <<mem, file, serverVars>>

ServiceHandOver(t) ==
  /\ At(t, "handover")
  /\ IF mem[Doc(t)] = NoTokens THEN FailAuth(t, "raised") ELSE HandOver(t, mem[Doc(t)].access)
  /\ UNCHANGED <<mem, file, serverVars>>

-----------------------------------------------------------------------------
(* expire_access_token, after a 401.                                       *)

(* Mutant: expires_at is left as it is. *)
LeftAsItIs(r) == r
Mark(r) == [r EXCEPT !.marked = TRUE]

Expire(t) ==
  /\ At(t, "expire")
  /\ LET d == Doc(t)
         r == Loaded(d)
     IN IF config.auth = "service"
        THEN mem' = [mem EXCEPT ![d] = NoTokens] /\ Goto(t, "bearer")
        ELSE IF r = NoTokens
        THEN mem' = mem /\ Goto(t, "bearer")
        ELSE /\ mem' = [mem EXCEPT ![d] = Mark(r)]
             /\ Step(t, [th[t] EXCEPT !.pc = "mark", !.held = Mark(r)])
  /\ UNCHANGED <<file, authLock, serverVars>>

OpenMarked(t) ==
  /\ At(t, "mark")
  /\ OpenFile(Doc(t), th[t].held)
  /\ Goto(t, "marked")
  /\ UNCHANGED <<authLock, serverVars>>

WriteMarked(t) ==
  /\ At(t, "marked")
  /\ WriteFile(th[t].held)
  /\ IF Unlinked THEN FailAuth(t, "raised")
     ELSE Step(t, [th[t] EXCEPT !.pc = "bearer", !.held = NoTokens]) /\ UNCHANGED authLock
  /\ UNCHANGED serverVars

-----------------------------------------------------------------------------
AuthStep(t) ==
  /\ UNCHANGED ended
  /\ \/ StaticBearer(t) \/ GetBearer(t)
     \/ RefreshAccepted(t) \/ RefreshRefused(t) \/ RefreshBroken(t) \/ Invalidate(t)
     \/ Login(t) \/ LoginFails(t) \/ SaveTokens(t)
     \/ ServiceBearer(t) \/ Credentials(t) \/ CredentialsFail(t) \/ ServiceHandOver(t)
     \/ Expire(t) \/ OpenMarked(t) \/ WriteMarked(t)

(* The server, or its clock, is done with an access token.                 *)
TokenEnds ==
  /\ ended < MaxEnded /\ ended' = ended + 1
  /\ \E n \in {r.access : r \in Records} :
       /\ Honoured(n)
       /\ \/ lapsed' = lapsed \cup {n} /\ UNCHANGED revoked
          \/ revoked' = revoked \cup {n} /\ UNCHANGED lapsed
  /\ UNCHANGED <<mem, file, authLock, refreshable, th>>

AuthTypeOK ==
  /\ mem \in [Docs -> TokenRecord \cup {NoTokens}]
  /\ file \in TokenRecord \cup {NoTokens, Torn}
  /\ authLock \in [Docs -> Threads \cup {NoThread}]
  /\ ended \in 0 .. MaxEnded
  /\ lapsed \subseteq Tokens /\ revoked \subseteq Tokens /\ refreshable \subseteq Tokens
=============================================================================
