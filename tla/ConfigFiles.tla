---------------------------- MODULE ConfigFiles ----------------------------
(***************************************************************************)
(* The access token and the docs token under ~/.config/rwx, written in     *)
(* place by every rwx process without a lock (internal/config/             *)
(* file_backend.go, accesstoken, docstoken, cli/service_docs_token.go).    *)
(* Opening for writing empties a file; the one write that follows fills    *)
(* it or fails, which leaves what the file holds by then, be it nothing or *)
(* what another process has written since.  (A write that cannot even open *)
(* the file changes nothing.)  An access token found only in the old       *)
(* directory ~/.mint is copied to the new one.  Tokens of one kind have    *)
(* one length and are written at once, so that writes that overlap leave   *)
(* one of them.                                                            *)
(***************************************************************************)
EXTENDS Naturals

CONSTANTS
  Users,      \* processes
  Tokens,     \* access tokens
  NoToken,    \* an empty file
  Absent,     \* no file
  MaxLogins   \* bound: logins

ASSUME ConfigFilesAssumption == NoToken # Absent /\ {NoToken, Absent} \cap Tokens = {}

VARIABLES
  access,     \* accesstoken in the primary directory
  old,        \* accesstoken in ~/.mint, only read
  docs,       \* docs_token: the token, as the access token it was issued to, and AuthToken
  user,       \* control and locals of each process
  logins,     \* what the bound counts
  last,       \* the token of the last login that succeeded (of the properties, as what follows)
  raced,      \* a migration overwrote a login
  mixed       \* a docs token was issued to another access token than the one read

cfVars == <<access, old, docs, user, logins, last, raced, mixed>>
ghosts == <<logins, last, raced, mixed>>

NoDocs == [token |-> NoToken, auth |-> NoToken]
AtRest == [at |-> "rest", provided |-> NoToken, auth |-> NoToken, token |-> NoToken, began |-> 0]

ConfigFilesTypeOK ==
  /\ access \in Tokens \cup {NoToken, Absent} /\ old \in Tokens \cup {Absent}
  /\ docs \in [token : Tokens \cup {NoToken}, auth : Tokens \cup {NoToken}]
  /\ user \in [Users -> [at : {"rest", "login", "auth", "migrate", "copy", "cache", "create", "store", "fill", "done"},
                         provided : Tokens \cup {NoToken}, auth : Tokens \cup {NoToken},
                         token : Tokens \cup {NoToken}, began : 0 .. MaxLogins]]
  /\ logins \in 0 .. MaxLogins /\ last \in Tokens \cup {Absent}
  /\ raced \in BOOLEAN /\ mixed \in BOOLEAN

ConfigFilesInit ==
  /\ access = Absent /\ old \in Tokens \cup {Absent}
  /\ docs = NoDocs
  /\ user = [u \in Users |-> AtRest]
  /\ logins = 0 /\ last = old /\ raced = FALSE /\ mixed = FALSE

Is(u, l) == user[u].at = l
Becomes(u, loc) == user' = [user EXCEPT ![u] = loc]

(* Login: accesstoken.Set opens the file with O_TRUNC, then writes; the user is told of a failure. *)
BeginLogin(u) ==
  /\ Is(u, "rest") /\ logins < MaxLogins
  /\ \E t \in Tokens : Becomes(u, [AtRest EXCEPT !.at = "login", !.token = t])
  /\ access' = NoToken
  /\ logins' = logins + 1
  /\ UNCHANGED <<old, docs, last, raced, mixed>>
WriteLogin(u) ==
  /\ Is(u, "login")
  /\ \/ access' = user[u].token /\ last' = user[u].token
     \/ UNCHANGED <<access, last>>
  /\ Becomes(u, AtRest)
  /\ UNCHANGED <<old, docs, logins, raced, mixed>>

(***************************************************************************)
(* resolveDocsToken of rwx docs, with the access token given to this       *)
(* process by flag or environment, if any.                                 *)
(***************************************************************************)
BeginDocs(u) ==
  /\ Is(u, "rest")
  /\ \E t \in Tokens \cup {NoToken} : Becomes(u, [AtRest EXCEPT !.at = "auth", !.provided = t])
  /\ UNCHANGED <<access, old, docs, ghosts>>

(* FileBackend.Get: the old directory counts only where the file is missing. *)
ReadAuthOldFirst(u) ==
  /\ Is(u, "auth")
  /\ IF old # Absent THEN Becomes(u, [user[u] EXCEPT !.at = "migrate", !.auth = old, !.began = logins])
     ELSE IF access \in Tokens THEN Becomes(u, [user[u] EXCEPT !.at = "cache", !.auth = access])
     ELSE Becomes(u, AtRest)
  /\ UNCHANGED <<access, old, docs, ghosts>>
ReadAuth(u) ==
  /\ Is(u, "auth")
  /\ \/ access \in Tokens /\ Becomes(u, [user[u] EXCEPT !.at = "cache", !.auth = access])
     \/ /\ access = Absent /\ old # Absent
        /\ Becomes(u, [user[u] EXCEPT !.at = "migrate", !.auth = old, !.began = logins])
     \/ (access = NoToken \/ (access = Absent /\ old = Absent)) /\ Becomes(u, AtRest)
  /\ UNCHANGED <<access, old, docs, ghosts>>

(* The copy is a Set as any other; where it fails the command has no token. *)
Migrate(u) ==
  /\ Is(u, "migrate")
  /\ \/ access' = NoToken /\ Becomes(u, [user[u] EXCEPT !.at = "copy"])
     \/ Becomes(u, AtRest) /\ UNCHANGED access
  /\ raced' = (raced \/ (access' # access /\ logins # user[u].began))
  /\ UNCHANGED <<old, docs, logins, last, mixed>>
CopyOld(u) ==
  /\ Is(u, "copy")
  /\ \/ /\ access' = user[u].auth
        /\ Becomes(u, [user[u] EXCEPT !.at = "cache"])
        /\ raced' = (raced \/ logins # user[u].began)
     \/ Becomes(u, AtRest) /\ UNCHANGED <<access, raced>>
  /\ UNCHANGED <<old, docs, logins, last, mixed>>

CachedToken(u) == docs.token # NoToken
UsableFor(u) == docs.token # NoToken /\ docs.auth = user[u].auth
ReadDocs(u) ==
  /\ Is(u, "cache")
  /\ Becomes(u, IF UsableFor(u) THEN [user[u] EXCEPT !.at = "done", !.token = docs.token]
                                ELSE [user[u] EXCEPT !.at = "create"])
  /\ UNCHANGED <<access, old, docs, ghosts>>

(* CreateDocsToken under the token provided, else the one in the file by now. *)
CreateDocsToken(u) ==
  /\ Is(u, "create")
  /\ LET sent == IF user[u].provided # NoToken THEN user[u].provided ELSE access
     IN  IF sent \in Tokens
           THEN \/ /\ Becomes(u, [user[u] EXCEPT !.at = "store", !.token = sent])
                   /\ mixed' = (mixed \/ sent # user[u].auth)
                \/ Becomes(u, AtRest) /\ UNCHANGED mixed
           ELSE Becomes(u, AtRest) /\ UNCHANGED mixed
  /\ UNCHANGED <<access, old, docs, logins, last, raced>>

(* A failed Set is ignored: the token is used once. *)
StoreDocs(u) ==
  /\ Is(u, "store")
  /\ \/ docs' = NoDocs /\ Becomes(u, [user[u] EXCEPT !.at = "fill"])
     \/ Becomes(u, [user[u] EXCEPT !.at = "done"]) /\ UNCHANGED docs
  /\ UNCHANGED <<access, old, ghosts>>
FillDocs(u) ==
  /\ Is(u, "fill")
  /\ docs' \in {[token |-> user[u].token, auth |-> user[u].auth], docs}
  /\ Becomes(u, [user[u] EXCEPT !.at = "done"])
  /\ UNCHANGED <<access, old, ghosts>>

UseDocs(u) == Is(u, "done") /\ Becomes(u, AtRest) /\ UNCHANGED <<access, old, docs, ghosts>>

ConfigFilesNext ==
  \E u \in Users :
    \/ BeginLogin(u) \/ WriteLogin(u) \/ BeginDocs(u) \/ ReadAuth(u) \/ Migrate(u) \/ CopyOld(u)
    \/ ReadDocs(u) \/ CreateDocsToken(u) \/ StoreDocs(u) \/ FillDocs(u) \/ UseDocs(u)

ConfigFilesSpec == ConfigFilesInit /\ [][ConfigFilesNext]_cfVars

-----------------------------------------------------------------------------
(***************************************************************************)
(* As long as no migration that began before a login ends after it, the    *)
(* token a command reads is that of the last login that said it succeeded, *)
(* or the one in the old directory while none has: a login or a migration  *)
(* that fails half-way, beside others, brings no other token back.  (It    *)
(* may leave none, and then the command says so.)                          *)
(***************************************************************************)
LastLoginIsRead == ~raced /\ access \in Tokens => access = last

(***************************************************************************)
(* Unless some command was run with a token of its own or across a login,  *)
(* docs requests carry the docs token of the account that is logged in,    *)
(* not the cached one of an account used before.                           *)
(***************************************************************************)
DocsTokenFitsLogin ==
  \A u \in Users : user[u].at \in {"store", "fill", "done"} /\ ~mixed => user[u].token = user[u].auth
=============================================================================
