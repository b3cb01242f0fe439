---------------------------- MODULE LocalProofs ----------------------------
(***************************************************************************)
(* The files in the user's directories that rwx processes write without a  *)
(* lock: the tokens, the extracted language server and the patches of      *)
(* runs, for every set of processes and any number of logins and signals.  *)
(***************************************************************************)
EXTENDS ConfigFiles, LspBundle, RunPatch, TLAPS

-----------------------------------------------------------------------------
(* The tokens.  The file is missing only before the first login, so that a
   migration has begun before every login; and what the files hold came with
   its login, unless one of the two accidents has happened. *)
UserStates == [at : {"rest", "login", "auth", "migrate", "copy", "cache", "create", "store", "fill", "done"},
               provided : Tokens \cup {NoToken}, auth : Tokens \cup {NoToken},
               token : Tokens \cup {NoToken}, began : Nat]
TokensTyped ==
  /\ user \in [Users -> UserStates]
  /\ access \in Tokens \cup {NoToken, Absent} /\ old \in Tokens \cup {Absent}
  /\ docs \in [token : Tokens \cup {NoToken}, auth : Tokens \cup {NoToken}]
  /\ logins \in Nat
MigrationsPrecedeLogins ==
  /\ access = Absent => logins = 0
  /\ logins = 0 => last = old
  /\ \A u \in Users :
       /\ user[u].at = "login" => logins # 0
       /\ user[u].at \in {"migrate", "copy"} => user[u].began = 0 /\ user[u].auth = old
DocsFit == ~mixed /\ docs.token # NoToken => docs.token = docs.auth

TokensInv == TokensTyped /\ MigrationsPrecedeLogins /\ DocsFit /\ LastLoginIsRead /\ DocsTokenFitsLogin

LEMMA TokensInit == ConfigFilesInit => TokensInv
  BY ConfigFilesAssumption
     DEF ConfigFilesInit, TokensInv, TokensTyped, UserStates, AtRest, NoDocs, MigrationsPrecedeLogins, DocsFit,
         LastLoginIsRead, DocsTokenFitsLogin

LEMMA UserMoves ==
  ASSUME TokensTyped, NEW u \in Users, NEW loc \in UserStates, Becomes(u, loc)
  PROVE  /\ user' \in [Users -> UserStates]
         /\ user'[u] = loc
         /\ \A w \in Users \ {u} : user'[w] = user[w]
  BY DEF TokensTyped, Becomes

(* A step of one process that leaves the files and the logins as they are. *)
LEMMA UserStep ==
  ASSUME TokensInv, NEW u \in Users, NEW loc \in UserStates, Becomes(u, loc),
         UNCHANGED <<access, old, docs, logins, last>>, raced => raced', mixed => mixed',
         loc.at # "login",
         loc.at \in {"migrate", "copy"} => loc.began = 0 /\ loc.auth = old,
         loc.at \in {"store", "fill", "done"} /\ ~mixed' => loc.token = loc.auth
  PROVE  TokensInv'
<1>1. /\ user' \in [Users -> UserStates]
      /\ user'[u] = loc
      /\ \A w \in Users \ {u} : user'[w] = user[w]
  BY UserMoves DEF TokensInv
<1>. QED
  BY <1>1 DEF TokensInv, TokensTyped, MigrationsPrecedeLogins, DocsFit, LastLoginIsRead, DocsTokenFitsLogin

LEMMA TokensNext == TokensInv /\ [ConfigFilesNext]_cfVars => TokensInv'
<1>. SUFFICES ASSUME TokensInv, [ConfigFilesNext]_cfVars PROVE TokensInv'
  OBVIOUS
<1>0. AtRest \in UserStates /\ AtRest.at = "rest"
  BY DEF AtRest, UserStates
<1>1. ASSUME NEW u \in Users, BeginLogin(u) PROVE TokensInv'
  <2>1. PICK t \in Tokens : Becomes(u, [AtRest EXCEPT !.at = "login", !.token = t])
    BY <1>1 DEF BeginLogin
  <2>. DEFINE loc == [AtRest EXCEPT !.at = "login", !.token = t]
  <2>2. loc \in UserStates /\ loc.at = "login"
    BY <1>0 DEF UserStates
  <2>. HIDE DEF loc
  <2>3. /\ user' \in [Users -> UserStates]
        /\ user'[u] = loc
        /\ \A w \in Users \ {u} : user'[w] = user[w]
    BY <2>1, <2>2, UserMoves DEF TokensInv, loc
  <2>4. UNCHANGED <<old, docs, last, raced, mixed>> /\ access' = NoToken /\ logins' = logins + 1
    BY <1>1 DEF BeginLogin
  <2>. QED
    BY <2>2, <2>3, <2>4, ConfigFilesAssumption
       DEF TokensInv, TokensTyped, MigrationsPrecedeLogins, DocsFit, LastLoginIsRead, DocsTokenFitsLogin
<1>2. ASSUME NEW u \in Users, WriteLogin(u) PROVE TokensInv'
  <2>1. /\ user' \in [Users -> UserStates]
        /\ user'[u] = AtRest
        /\ \A w \in Users \ {u} : user'[w] = user[w]
    BY <1>0, <1>2, UserMoves DEF TokensInv, WriteLogin
  <2>2. \/ access' = user[u].token /\ last' = user[u].token
        \/ UNCHANGED <<access, last>>
    BY <1>2 DEF WriteLogin
  <2>. QED
    BY <1>0, <1>2, <2>1, <2>2, ConfigFilesAssumption
       DEF WriteLogin, Is, TokensInv, TokensTyped, UserStates, MigrationsPrecedeLogins, DocsFit, LastLoginIsRead,
           DocsTokenFitsLogin
<1>3. ASSUME NEW u \in Users, BeginDocs(u) PROVE TokensInv'
  <2>1. PICK t \in Tokens \cup {NoToken} : Becomes(u, [AtRest EXCEPT !.at = "auth", !.provided = t])
    BY <1>3 DEF BeginDocs
  <2>. DEFINE loc == [AtRest EXCEPT !.at = "auth", !.provided = t]
  <2>2. loc \in UserStates /\ loc.at = "auth"
    BY <1>0 DEF UserStates
  <2>. HIDE DEF loc
  <2>. QED
    BY <1>3, <2>1, <2>2, UserStep DEF loc, BeginDocs, ghosts
<1>4. ASSUME NEW u \in Users, ReadAuth(u) PROVE TokensInv'
  <2>1. user[u] \in UserStates /\ UNCHANGED <<access, old, docs, logins, last, raced, mixed>>
    BY <1>4 DEF TokensInv, TokensTyped, ReadAuth, ghosts
  <2>2. CASE access \in Tokens /\ Becomes(u, [user[u] EXCEPT !.at = "cache", !.auth = access])
    <3>. DEFINE loc == [user[u] EXCEPT !.at = "cache", !.auth = access]
    <3>1. loc \in UserStates /\ loc.at = "cache"
      BY <2>1, <2>2 DEF UserStates
    <3>. HIDE DEF loc
    <3>. QED
      BY <2>1, <2>2, <3>1, UserStep DEF loc
  <2>3. CASE /\ access = Absent /\ old # Absent
             /\ Becomes(u, [user[u] EXCEPT !.at = "migrate", !.auth = old, !.began = logins])
    <3>. DEFINE loc == [user[u] EXCEPT !.at = "migrate", !.auth = old, !.began = logins]
    <3>1. logins = 0 /\ old \in Tokens
      BY <2>3 DEF TokensInv, TokensTyped, MigrationsPrecedeLogins
    <3>2. loc \in UserStates /\ loc.at = "migrate" /\ loc.began = 0 /\ loc.auth = old
      BY <2>1, <3>1 DEF UserStates
    <3>. HIDE DEF loc
    <3>. QED
      BY <2>1, <2>3, <3>2, UserStep DEF loc
  <2>4. CASE Becomes(u, AtRest)
    BY <1>0, <2>1, <2>4, UserStep
  <2>. QED
    BY <1>4, <2>2, <2>3, <2>4 DEF ReadAuth
<1>5. ASSUME NEW u \in Users, Migrate(u) PROVE TokensInv'
  <2>1. user[u] \in UserStates /\ user[u].at = "migrate" /\ UNCHANGED <<old, docs, logins, last, mixed>>
    BY <1>5 DEF TokensInv, TokensTyped, Migrate, Is
  <2>2. CASE access' = NoToken /\ Becomes(u, [user[u] EXCEPT !.at = "copy"])
    <3>. DEFINE loc == [user[u] EXCEPT !.at = "copy"]
    <3>1. loc \in UserStates /\ loc.at = "copy" /\ loc.began = user[u].began /\ loc.auth = user[u].auth
      BY <2>1 DEF UserStates
    <3>. HIDE DEF loc
    <3>2. /\ user' \in [Users -> UserStates]
          /\ user'[u] = loc
          /\ \A w \in Users \ {u} : user'[w] = user[w]
      BY <2>2, <3>1, UserMoves DEF TokensInv, loc
    <3>. QED
      BY <2>1, <2>2, <3>1, <3>2, ConfigFilesAssumption
         DEF TokensInv, TokensTyped, MigrationsPrecedeLogins, DocsFit, LastLoginIsRead, DocsTokenFitsLogin
  <2>3. CASE Becomes(u, AtRest) /\ UNCHANGED access
    <3>1. raced => raced'
      BY <1>5, <2>3 DEF Migrate
    <3>. QED
      BY <1>0, <2>1, <2>3, <3>1, UserStep
  <2>. QED
    BY <1>5, <2>2, <2>3 DEF Migrate
<1>6. ASSUME NEW u \in Users, CopyOld(u), access' = user[u].auth, Becomes(u, [user[u] EXCEPT !.at = "cache"]),
             raced' = (raced \/ logins # user[u].began)
      PROVE  TokensInv'
  <2>. DEFINE loc == [user[u] EXCEPT !.at = "cache"]
  <2>1. /\ user[u] \in UserStates /\ user[u].at = "copy" /\ user[u].began = 0 /\ user[u].auth = old
        /\ user[u].auth \in Tokens \cup {NoToken}
    BY <1>6 DEF TokensInv, TokensTyped, UserStates, MigrationsPrecedeLogins, CopyOld, Is
  <2>2. loc \in UserStates /\ loc.at = "cache"
    BY <2>1 DEF UserStates
  <2>. HIDE DEF loc
  <2>3. /\ user' \in [Users -> UserStates]
        /\ user'[u] = loc
        /\ \A w \in Users \ {u} : user'[w] = user[w]
    BY <1>6, <2>2, UserMoves DEF TokensInv, CopyOld, loc
  <2>4. access' = old /\ UNCHANGED <<old, docs, logins, last, mixed>> /\ raced' = (raced \/ logins # 0)
    BY <1>6, <2>1 DEF CopyOld
  <2>5. TokensTyped'
    BY <2>1, <2>3, <2>4 DEF TokensInv, TokensTyped
  <2>6. MigrationsPrecedeLogins'
    BY <2>1, <2>2, <2>3, <2>4, ConfigFilesAssumption DEF TokensInv, TokensTyped, MigrationsPrecedeLogins
  <2>7. DocsFit' /\ DocsTokenFitsLogin'
    BY <2>2, <2>3, <2>4 DEF TokensInv, DocsFit, DocsTokenFitsLogin
  <2>8. LastLoginIsRead'
    BY <2>4 DEF TokensInv, TokensTyped, MigrationsPrecedeLogins, LastLoginIsRead
  <2>. QED
    BY <2>5, <2>6, <2>7, <2>8 DEF TokensInv
<1>13. ASSUME NEW u \in Users, CopyOld(u), Becomes(u, AtRest), UNCHANGED <<access, raced>> PROVE TokensInv'
  <2>1. UNCHANGED <<old, docs, logins, last, mixed>>
    BY <1>13 DEF CopyOld
  <2>. QED
    BY <1>0, <1>13, <2>1, UserStep
<1>14. ASSUME NEW u \in Users, CopyOld(u) PROVE TokensInv'
  BY <1>6, <1>13, <1>14 DEF CopyOld
<1>7. ASSUME NEW u \in Users, ReadDocs(u) PROVE TokensInv'
  <2>1. user[u] \in UserStates /\ UNCHANGED <<access, old, docs, logins, last, raced, mixed>>
    BY <1>7 DEF TokensInv, TokensTyped, ReadDocs, ghosts
  <2>2. CASE UsableFor(u)
    <3>. DEFINE loc == [user[u] EXCEPT !.at = "done", !.token = docs.token]
    <3>1. docs.token \in Tokens \cup {NoToken} /\ docs.auth = user[u].auth /\ (~mixed => docs.token = docs.auth)
      BY <2>2 DEF UsableFor, TokensInv, TokensTyped, DocsFit
    <3>2. loc \in UserStates /\ loc.at = "done" /\ loc.token = docs.token /\ loc.auth = user[u].auth
      BY <2>1, <3>1 DEF UserStates
    <3>3. Becomes(u, loc)
      BY <1>7, <2>2 DEF ReadDocs
    <3>. HIDE DEF loc
    <3>. QED
      BY <2>1, <3>1, <3>2, <3>3, UserStep
  <2>3. CASE ~UsableFor(u)
    <3>. DEFINE loc == [user[u] EXCEPT !.at = "create"]
    <3>1. loc \in UserStates /\ loc.at = "create"
      BY <2>1 DEF UserStates
    <3>2. Becomes(u, loc)
      BY <1>7, <2>3 DEF ReadDocs
    <3>. HIDE DEF loc
    <3>. QED
      BY <2>1, <3>1, <3>2, UserStep
  <2>. QED
    BY <2>2, <2>3
<1>8. ASSUME NEW u \in Users, CreateDocsToken(u) PROVE TokensInv'
  <2>. DEFINE sent == IF user[u].provided # NoToken THEN user[u].provided ELSE access
  <2>1. user[u] \in UserStates /\ UNCHANGED <<access, old, docs, logins, last, raced>>
    BY <1>8 DEF TokensInv, TokensTyped, CreateDocsToken
  <2>2. CASE /\ sent \in Tokens /\ Becomes(u, [user[u] EXCEPT !.at = "store", !.token = sent])
             /\ mixed' = (mixed \/ sent # user[u].auth)
    <3>. HIDE DEF sent
    <3>. DEFINE loc == [user[u] EXCEPT !.at = "store", !.token = sent]
    <3>1. loc \in UserStates /\ loc.at = "store" /\ loc.token = sent /\ loc.auth = user[u].auth
      BY <2>1, <2>2 DEF UserStates
    <3>2. Becomes(u, loc)
      BY <2>2
    <3>. HIDE DEF loc
    <3>. QED
      BY <2>1, <2>2, <3>1, <3>2, UserStep
  <2>3. CASE Becomes(u, AtRest) /\ UNCHANGED mixed
    BY <1>0, <2>1, <2>3, UserStep
  <2>. QED
    BY <1>8, <2>2, <2>3 DEF CreateDocsToken
<1>9. ASSUME NEW u \in Users, NEW s \in {"fill", "done"}, user[u].at \in {"store", "fill"},
             Becomes(u, [user[u] EXCEPT !.at = s]), UNCHANGED <<access, old, logins, last, raced, mixed>>,
             docs' \in {docs, NoDocs, [token |-> user[u].token, auth |-> user[u].auth]}
      PROVE  TokensInv'
  <2>. DEFINE loc == [user[u] EXCEPT !.at = s]
  <2>1. user[u] \in UserStates /\ (~mixed => user[u].token = user[u].auth)
    BY <1>9 DEF TokensInv, TokensTyped, DocsTokenFitsLogin
  <2>2. loc \in UserStates /\ loc.at = s /\ loc.token = user[u].token /\ loc.auth = user[u].auth
    BY <2>1 DEF UserStates
  <2>3. Becomes(u, loc)
    BY <1>9
  <2>. HIDE DEF loc
  <2>4. /\ user' \in [Users -> UserStates]
        /\ user'[u] = loc
        /\ \A w \in Users \ {u} : user'[w] = user[w]
    BY <2>2, <2>3, UserMoves DEF TokensInv
  <2>5. DocsFit'
    BY <1>9, <2>1 DEF TokensInv, DocsFit, NoDocs
  <2>6. (docs \in [token : Tokens \cup {NoToken}, auth : Tokens \cup {NoToken}])'
    BY <1>9, <2>1 DEF TokensInv, TokensTyped, UserStates, NoDocs
  <2>. QED
    BY <1>9, <2>1, <2>2, <2>4, <2>5, <2>6
       DEF TokensInv, TokensTyped, MigrationsPrecedeLogins, LastLoginIsRead, DocsTokenFitsLogin
<1>10. ASSUME NEW u \in Users, StoreDocs(u) \/ FillDocs(u) PROVE TokensInv'
  BY <1>9, <1>10 DEF StoreDocs, FillDocs, Is, ghosts
<1>11. ASSUME NEW u \in Users, UseDocs(u) PROVE TokensInv'
  BY <1>0, <1>11, UserStep DEF UseDocs, ghosts
<1>12. CASE UNCHANGED cfVars
  BY <1>12 DEF cfVars, TokensInv, TokensTyped, MigrationsPrecedeLogins, DocsFit, LastLoginIsRead, DocsTokenFitsLogin
<1>. QED
  BY <1>1, <1>2, <1>3, <1>4, <1>5, <1>7, <1>8, <1>10, <1>11, <1>12, <1>14 DEF ConfigFilesNext

LEMMA AlwaysTokensInv == ConfigFilesSpec => []TokensInv
  BY TokensInit, TokensNext, PTL DEF ConfigFilesSpec

(* Where a command reads a token it is that of the last login that succeeded, whichever
   processes migrate, log in and fail at it meanwhile, unless a migration overran a login. *)
THEOREM LoginsAreRead == ConfigFilesSpec => []LastLoginIsRead
<1>1. TokensInv => LastLoginIsRead
  BY DEF TokensInv
<1>. QED
  BY <1>1, AlwaysTokensInv, PTL

(* Docs requests carry a docs token of the account that is logged in. *)
THEOREM DocsTokensFit == ConfigFilesSpec => []DocsTokenFitsLogin
<1>1. TokensInv => DocsTokenFitsLogin
  BY DEF TokensInv
<1>. QED
  BY <1>1, AlwaysTokensInv, PTL

-----------------------------------------------------------------------------
(* The language server.  While extractions do not overlap, the one in progress
   works without a marker; it knows which files are still to be written as long as no
   process of another version removes them. *)
LinterStates == [at : {"rest", "stat", "wipe", "mkdir", "write", "fill", "mark", "undo", "serve"},
                 todo : SUBSET Parts]
BundleTyped ==
  /\ part \in [Parts -> {"none", "partial", "whole"}]
  /\ linter \in [Linters -> LinterStates]
OneExtraction == \A l, k \in Linters : Extracting(l) /\ Extracting(k) => l = k
ExtractsUnmarked == \A l \in Linters : Extracting(l) => ~marker
Written ==
  \A l \in Linters : \A f \in Parts \ linter[l].todo :
    /\ linter[l].at = "write" => part[f] = "whole"
    /\ linter[l].at = "fill" => part[f] # "none"
MarkedIsWhole == (marker => Whole) /\ \A l \in Linters : linter[l].at = "serve" => marker

BundleInv ==
  /\ BundleTyped
  /\ ~crossed => OneExtraction /\ ExtractsUnmarked
  /\ ~crossed /\ ~cleaned => MarkedIsWhole /\ Written

LEMMA BundleInit == LspBundleInit => BundleInv
  BY DEF LspBundleInit, BundleInv, BundleTyped, LinterStates, NotLinting, OneExtraction, ExtractsUnmarked,
         MarkedIsWhole, Written, Extracting

LEMMA LinterGoes ==
  ASSUME BundleTyped, NEW l \in Linters, NEW step, NEW todo, Goes(l, step, todo),
         step \in {"rest", "stat", "wipe", "mkdir", "write", "fill", "mark", "undo", "serve"}, todo \subseteq Parts
  PROVE  /\ linter' \in [Linters -> LinterStates]
         /\ linter'[l] = [at |-> step, todo |-> todo]
         /\ \A k \in Linters \ {l} : linter'[k] = linter[k]
  BY DEF BundleTyped, LinterStates, Goes

(* A step of one process: what it needs of the files, the marker and the others. *)
LEMMA BundleStep ==
  ASSUME BundleInv, NEW l \in Linters, NEW step, NEW todo, Goes(l, step, todo),
         step \in {"rest", "stat", "wipe", "mkdir", "write", "fill", "mark", "undo", "serve"}, todo \subseteq Parts,
         part' \in [Parts -> {"none", "partial", "whole"}], crossed => crossed', cleaned => cleaned', marker => marker',
         ~crossed' /\ step \notin {"rest", "stat", "serve"} => ~marker' /\ \A k \in Linters \ {l} : ~Extracting(k),
         ~crossed' /\ (part' # part \/ marker' # marker) => \A k \in Linters \ {l} : ~Extracting(k),
         ~crossed' /\ ~cleaned /\ marker' => Whole',
         ~crossed' /\ ~cleaned /\ step = "serve" => marker',
         step = "write" => \A f \in Parts \ todo : ~crossed' /\ ~cleaned => part'[f] = "whole",
         step = "fill" => \A f \in Parts \ todo : ~crossed' /\ ~cleaned => part'[f] # "none"
  PROVE  BundleInv'
<1>1. /\ linter' \in [Linters -> LinterStates]
      /\ linter'[l] = [at |-> step, todo |-> todo]
      /\ \A k \in Linters \ {l} : linter'[k] = linter[k]
  BY LinterGoes DEF BundleInv
<1>2. BundleTyped'
  BY <1>1 DEF BundleTyped
<1>3. linter'[l].at = step /\ linter'[l].todo = todo
  BY <1>1
<1>4. ASSUME ~crossed' PROVE (OneExtraction /\ ExtractsUnmarked)'
  <2>1. OneExtraction /\ ExtractsUnmarked
    BY <1>4 DEF BundleInv
  <2>2. OneExtraction'
    BY <1>1, <1>3, <1>4, <2>1 DEF OneExtraction, Extracting
  <2>3. ExtractsUnmarked'
    BY <1>1, <1>3, <1>4, <2>1 DEF ExtractsUnmarked, Extracting
  <2>. QED
    BY <2>2, <2>3
<1>5. ASSUME ~crossed', ~cleaned' PROVE (MarkedIsWhole /\ Written)'
  <2>1. MarkedIsWhole /\ Written /\ ~cleaned
    BY <1>5 DEF BundleInv
  <2>2. MarkedIsWhole'
    BY <1>1, <1>3, <1>5, <2>1 DEF MarkedIsWhole
  <2>3. SUFFICES ASSUME NEW k \in Linters, NEW f \in Parts \ linter'[k].todo
                 PROVE  /\ linter'[k].at = "write" => part'[f] = "whole"
                        /\ linter'[k].at = "fill" => part'[f] # "none"
    BY <2>2 DEF Written
  <2>4. CASE k = l
    BY <1>3, <1>5, <2>1, <2>4
  <2>5. CASE k # l /\ Extracting(k)
    BY <1>1, <1>5, <2>1, <2>5 DEF Written
  <2>6. CASE k # l /\ ~Extracting(k)
    BY <1>1, <2>6 DEF Extracting
  <2>. QED
    BY <2>4, <2>5, <2>6
<1>. QED
  BY <1>2, <1>4, <1>5 DEF BundleInv

LEMMA BundleNext == BundleInv /\ [LspBundleNext]_lbVars => BundleInv'
<1>. SUFFICES ASSUME BundleInv, [LspBundleNext]_lbVars PROVE BundleInv'
  OBVIOUS
<1>0. part \in [Parts -> {"none", "partial", "whole"}] /\ linter \in [Linters -> LinterStates]
  BY DEF BundleInv, BundleTyped
<1>a. ~crossed /\ ~cleaned => (marker => Whole)
  BY DEF BundleInv, MarkedIsWhole
<1>b. ASSUME NEW l \in Linters, Extracting(l)
      PROVE  ~crossed => ~marker /\ \A k \in Linters \ {l} : ~Extracting(k)
  BY <1>b DEF BundleInv, OneExtraction, ExtractsUnmarked
<1>1. ASSUME NEW l \in Linters, BeginLint(l) \/ Leave(l) PROVE BundleInv'
  <2>1. UNCHANGED <<part, marker, crossed, cleaned>> /\ (Goes(l, "stat", {}) \/ Goes(l, "rest", {}))
    BY <1>1 DEF BeginLint, Leave, Same
  <2>2. Whole' = Whole
    BY <2>1 DEF Whole
  <2>. QED
    BY <1>0, <1>a, <2>1, <2>2, BundleStep
<1>2. ASSUME NEW l \in Linters, Stat(l) PROVE BundleInv'
  <2>1. UNCHANGED <<part, marker, cleaned>> /\ (crossed => crossed')
    BY <1>2 DEF Stat
  <2>2. Whole' = Whole
    BY <2>1 DEF Whole
  <2>3. CASE marker
    <3>1. Goes(l, "serve", {})
      BY <1>2, <2>3 DEF Stat
    <3>. QED
      BY <1>0, <1>a, <2>1, <2>2, <2>3, <3>1, BundleStep
  <2>4. CASE ~marker
    <3>1. Goes(l, "wipe", {}) /\ (~crossed' => \A k \in Linters \ {l} : ~Extracting(k))
      BY <1>2, <2>4 DEF Stat
    <3>. QED
      BY <1>0, <2>1, <2>4, <3>1, BundleStep
  <2>. QED
    BY <2>3, <2>4
<1>3. ASSUME NEW l \in Linters, RemoveEntry(l) PROVE BundleInv'
  <2>1. /\ Extracting(l) /\ linter[l].at \notin {"write", "fill"} /\ UNCHANGED <<linter, crossed, cleaned>>
        /\ part' \in [Parts -> {"none", "partial", "whole"}] /\ (marker' => marker)
    BY <1>0, <1>3 DEF RemoveEntry, EntryRemoved, Extracting, LinterAt
  <2>2. BundleTyped'
    BY <1>0, <2>1 DEF BundleTyped
  <2>3. ASSUME ~crossed PROVE (OneExtraction /\ ExtractsUnmarked)' /\ ~marker'
    <3>1. OneExtraction /\ ExtractsUnmarked /\ ~marker
      BY <1>b, <2>1, <2>3 DEF BundleInv
    <3>. QED
      BY <2>1, <3>1 DEF OneExtraction, ExtractsUnmarked, Extracting
  <2>4. ASSUME ~crossed, ~cleaned PROVE (MarkedIsWhole /\ Written)'
    <3>1. MarkedIsWhole /\ ~marker
      BY <1>b, <2>1, <2>4 DEF BundleInv
    <3>2. \A k \in Linters : linter[k].at \notin {"write", "fill"}
      BY <1>b, <2>1, <2>4 DEF Extracting
    <3>. QED
      BY <2>1, <2>3, <2>4, <3>1, <3>2 DEF MarkedIsWhole, Written
  <2>. QED
    BY <2>1, <2>2, <2>3, <2>4 DEF BundleInv
<1>4. ASSUME NEW l \in Linters, Extracting(l), NEW s \in {"rest", "mkdir", "undo"}, Goes(l, s, {}),
             UNCHANGED <<part, marker, crossed>>, cleaned => cleaned'
      PROVE  BundleInv'
  <2>1. Whole' = Whole
    BY <1>4 DEF Whole
  <2>. QED
    BY <1>0, <1>a, <1>b, <1>4, <2>1, BundleStep
<1>5. ASSUME NEW l \in Linters, Removed(l) PROVE BundleInv'
  <2>1. PICK s \in {"mkdir", "rest"} :
          /\ Extracting(l) /\ UNCHANGED <<part, marker, crossed>> /\ Goes(l, s, {}) /\ ~marker
          /\ cleaned' = (cleaned /\ \E k \in Linters : LinterAt(k, "serve"))
    BY <1>5 DEF Removed, Extracting, LinterAt
  <2>2. CASE \E k \in Linters : LinterAt(k, "serve")
    BY <1>4, <2>1, <2>2
  <2>3. CASE ~\E k \in Linters : LinterAt(k, "serve")
    <3>1. \A k \in Linters : linter[k].at # "serve"
      BY <2>3 DEF LinterAt
    <3>2. /\ linter' \in [Linters -> LinterStates]
          /\ linter'[l] = [at |-> s, todo |-> {}]
          /\ \A k \in Linters \ {l} : linter'[k] = linter[k]
      BY <2>1, LinterGoes DEF BundleInv
    <3>3. BundleTyped'
      BY <1>0, <2>1, <3>2 DEF BundleTyped
    <3>4. ASSUME ~crossed PROVE (OneExtraction /\ ExtractsUnmarked /\ MarkedIsWhole /\ Written)'
      <4>1. \A k \in Linters \ {l} : ~Extracting(k)
        BY <1>b, <2>1, <3>4
      <4>2. \A k \in Linters \ {l} : linter'[k].at \in {"rest", "stat"}
        BY <3>1, <3>2, <4>1 DEF Extracting
      <4>3. OneExtraction' /\ ExtractsUnmarked'
        BY <2>1, <4>2 DEF OneExtraction, ExtractsUnmarked, Extracting
      <4>. QED
        BY <2>1, <3>2, <4>2, <4>3 DEF MarkedIsWhole, Written
    <3>. QED
      BY <2>1, <3>3, <3>4 DEF BundleInv
  <2>. QED
    BY <2>2, <2>3
<1>6. ASSUME NEW l \in Linters, MakeBundleDir(l) PROVE BundleInv'
  <2>1. Extracting(l) /\ UNCHANGED <<part, marker, crossed, cleaned>> /\ Goes(l, "write", Parts)
    BY <1>6 DEF MakeBundleDir, Extracting, LinterAt
  <2>2. ~crossed => ~marker /\ \A k \in Linters \ {l} : ~Extracting(k)
    BY <1>b, <2>1
  <2>. QED
    BY <1>0, <2>1, <2>2, BundleStep
<1>7. ASSUME NEW l \in Linters, WritePart(l) PROVE BundleInv'
  <2>1. Extracting(l) /\ linter[l].at = "write" /\ linter[l].todo \subseteq Parts /\ UNCHANGED <<marker, crossed, cleaned>>
    BY <1>0, <1>7 DEF WritePart, LinterStates, Extracting, LinterAt
  <2>2. ~crossed => ~marker /\ \A k \in Linters \ {l} : ~Extracting(k)
    BY <1>b, <2>1
  <2>3. ASSUME NEW f \in linter[l].todo, part' = [part EXCEPT ![f] = "partial"], Goes(l, "fill", linter[l].todo \ {f})
        PROVE  BundleInv'
    <3>1. part' \in [Parts -> {"none", "partial", "whole"}]
      BY <1>0, <2>1, <2>3
    <3>2. \A g \in Parts \ (linter[l].todo \ {f}) : ~crossed' /\ ~cleaned => part'[g] # "none"
      BY <1>0, <2>1, <2>3 DEF BundleInv, Written
    <3>. QED
      BY <2>1, <2>2, <2>3, <3>1, <3>2, BundleStep
  <2>4. CASE Goes(l, "undo", {}) /\ UNCHANGED part
    <3>1. cleaned => cleaned'
      BY <2>1
    <3>. QED
      BY <1>4, <2>1, <2>4, <3>1
  <2>. QED
    BY <1>7, <2>3, <2>4 DEF WritePart
<1>8. ASSUME NEW l \in Linters, FillPart(l) PROVE BundleInv'
  <2>1. Extracting(l) /\ linter[l].at = "fill" /\ linter[l].todo \subseteq Parts /\ UNCHANGED <<marker, crossed, cleaned>>
    BY <1>0, <1>8 DEF FillPart, LinterStates, Extracting, LinterAt
  <2>2. ~crossed => ~marker /\ \A k \in Linters \ {l} : ~Extracting(k)
    BY <1>b, <2>1
  <2>3. ASSUME part' = [f \in Parts |-> IF part[f] = "partial" THEN "whole" ELSE part[f]],
               Goes(l, "write", linter[l].todo)
        PROVE  BundleInv'
    <3>1. part' \in [Parts -> {"none", "partial", "whole"}]
      BY <1>0, <2>3
    <3>2. \A g \in Parts \ linter[l].todo : ~crossed' /\ ~cleaned => part'[g] = "whole"
      BY <1>0, <2>1, <2>3 DEF BundleInv, Written
    <3>. QED
      BY <2>1, <2>2, <2>3, <3>1, <3>2, BundleStep
  <2>4. CASE Goes(l, "undo", {}) /\ UNCHANGED part
    <3>1. cleaned => cleaned'
      BY <2>1
    <3>. QED
      BY <1>4, <2>1, <2>4, <3>1
  <2>. QED
    BY <1>8, <2>3, <2>4 DEF FillPart
<1>9. ASSUME NEW l \in Linters, Mark(l) PROVE BundleInv'
  <2>1. Extracting(l) /\ linter[l].at = "write" /\ linter[l].todo = {} /\ UNCHANGED <<part, crossed, cleaned>>
    BY <1>9 DEF Mark, Extracting, LinterAt
  <2>2. ~crossed => ~marker /\ \A k \in Linters \ {l} : ~Extracting(k)
    BY <1>b, <2>1
  <2>3. ASSUME marker' = TRUE, Goes(l, "serve", {}) PROVE BundleInv'
    <3>1. ~crossed' /\ ~cleaned => Whole'
      BY <2>1 DEF BundleInv, Written, Whole
    <3>. QED
      BY <1>0, <2>1, <2>2, <2>3, <3>1, BundleStep
  <2>4. CASE Goes(l, "undo", {}) /\ UNCHANGED marker
    <3>1. cleaned => cleaned'
      BY <2>1
    <3>. QED
      BY <1>4, <2>1, <2>4, <3>1
  <2>. QED
    BY <1>9, <2>3, <2>4 DEF Mark
<1>11. ASSUME NEW o \in Others, BeginClean(o) \/ EndClean(o) PROVE BundleInv'
  <2>1. UNCHANGED <<part, marker, linter, crossed, cleaned>>
    BY <1>11 DEF BeginClean, EndClean
  <2>. QED
    BY <2>1 DEF BundleInv, BundleTyped, OneExtraction, ExtractsUnmarked, MarkedIsWhole, Written, Extracting, Whole
<1>12. ASSUME NEW o \in Others, CleanEntry(o) PROVE BundleInv'
  <2>1. /\ UNCHANGED <<linter, crossed>> /\ cleaned' = TRUE
        /\ part' \in [Parts -> {"none", "partial", "whole"}] /\ (marker' => marker)
    BY <1>0, <1>12 DEF CleanEntry, EntryRemoved
  <2>. QED
    BY <1>0, <2>1 DEF BundleInv, BundleTyped, OneExtraction, ExtractsUnmarked, Extracting
<1>10. CASE UNCHANGED lbVars
  BY <1>10 DEF lbVars, BundleInv, BundleTyped, OneExtraction, ExtractsUnmarked, MarkedIsWhole, Written, Extracting, Whole
<1>. QED
  BY <1>1, <1>2, <1>3, <1>5, <1>6, <1>7, <1>8, <1>9, <1>10, <1>11, <1>12 DEF LspBundleNext

(* node is given a complete language server, whatever killed the processes which
   extracted it before, wherever their writes failed and whichever versions have
   removed it since, unless two extractions overlapped or a removal left it damaged. *)
THEOREM ServedIsWhole == LspBundleSpec => []ServedBundleIsWhole
<1>1. BundleInv => ServedBundleIsWhole
  BY DEF BundleInv, MarkedIsWhole, ServedBundleIsWhole, LinterAt
<1>. QED
  BY <1>1, BundleInit, BundleNext, PTL DEF LspBundleSpec

-----------------------------------------------------------------------------
(* The patches of runs. *)
RunStates ==
  [at : {"rest", "generate", "mkdir", "open", "fill", "read", "upload", "sent", "stop", "remove", "ended"},
   dir : Dirs, commit : Commits, dirty : BOOLEAN, wanted : BOOLEAN, usable : BOOLEAN, utf8 : BOOLEAN,
   linked : BOOLEAN, sent : BOOLEAN, error : BOOLEAN, upload : SUBSET SUBSET Runs, alone : BOOLEAN, raced : BOOLEAN]
PatchTyped ==
  /\ run \in [Runs -> RunStates]
  /\ patch \in [Dirs -> [Commits -> [exists : BOOLEAN, of : SUBSET Runs]]]
  /\ handler \in [Runs -> {"off", "armed", "caught", "raise"}]

Making(r) == run[r].at \in {"generate", "mkdir", "open", "fill"}
Clean(d) == patch[d] = [c \in Commits |-> NoPatch]
Only(d, c, S) == patch[d] = [x \in Commits |-> IF x = c THEN [exists |-> TRUE, of |-> S] ELSE NoPatch]

(* The bytes of a run's changes are in its own directory, and only once it has
   made the patch and until it, or the handler of its signals, has removed them. *)
BytesKept(r) ==
  /\ Bytes(r) => ~Making(r) /\ run[r].at # "rest"
  /\ \A d \in Dirs, c \in Commits : Going(r) /\ r \in patch[d][c].of => d = run[r].dir
  /\ Going(r) /\ handler[r] = "raise" /\ ~run[r].raced => ~Making(r) /\ ~Bytes(r)
  /\ run[r].at = "ended" /\ ~run[r].raced => ~Bytes(r)
(* Wanted changes are sent, or there is an error. *)
Warned(r) ==
  /\ Going(r) /\ ~run[r].usable => run[r].error
  /\ run[r].at \in {"read", "upload", "sent"} /\ run[r].dirty /\ run[r].wanted /\ ~run[r].sent => run[r].error
(* What a run that has the directory to itself finds there. *)
OwnPatch(r) ==
  Going(r) /\ run[r].alone /\ handler[r] = "armed" =>
    /\ Making(r) => ~run[r].sent
    /\ Making(r) /\ run[r].at # "fill" => Clean(run[r].dir)
    /\ run[r].at = "fill" => run[r].linked /\ Only(run[r].dir, run[r].commit, {})
    /\ run[r].at \in {"read", "upload", "sent"} =>
         IF run[r].sent THEN Only(run[r].dir, run[r].commit, {r}) ELSE run[r].error \/ Clean(run[r].dir)
    /\ run[r].at \in {"upload", "sent"} /\ run[r].utf8 =>
         IF run[r].sent THEN run[r].upload = {{r}} ELSE run[r].error \/ run[r].upload = {}
RunOK(r) == BytesKept(r) /\ Warned(r) /\ OwnPatch(r)
AloneInDirectory ==
  \A r \in Runs : Going(r) /\ run[r].alone => \A k \in Runs \ {r} : Going(k) => run[k].dir # run[r].dir

PatchInv == PatchTyped /\ AloneInDirectory /\ \A r \in Runs : RunOK(r)

LEMMA AloneSet ==
  ASSUME NEW m \in RunStates, NEW a \in BOOLEAN, NEW n, n = [m EXCEPT !.alone = a]
  PROVE  /\ n \in RunStates /\ n.at = m.at /\ n.dir = m.dir /\ n.alone = a
         /\ n.sent = m.sent /\ n.raced = m.raced /\ n.usable = m.usable /\ n.error = m.error
  BY DEF RunStates

LEMMA NoRunTyped == NoRun \in RunStates /\ NoRun.at = "rest"
  BY CommitsAssumption DEF NoRun, RunStates, Dirs

LEMMA PatchInit == RunPatchInit => PatchInv
<1>. SUFFICES ASSUME RunPatchInit PROVE PatchInv
  OBVIOUS
<1>1. PatchTyped
  BY NoRunTyped DEF RunPatchInit, PatchTyped, NoPatch
<1>2. ASSUME NEW r \in Runs PROVE run[r].at = "rest" /\ ~Bytes(r)
  BY NoRunTyped DEF RunPatchInit, Bytes, NoPatch
<1>. QED
  BY <1>1, <1>2 DEF PatchInv, AloneInDirectory, RunOK, BytesKept, Warned, OwnPatch, Going, Making

(* What becomes of the other runs in a step. *)
LEMMA OtherRunOK ==
  ASSUME NEW k \in Runs, RunOK(k), handler'[k] = handler[k],
         run'[k].at = run[k].at, run'[k].dir = run[k].dir, run'[k].commit = run[k].commit,
         run'[k].dirty = run[k].dirty, run'[k].wanted = run[k].wanted, run'[k].usable = run[k].usable,
         run'[k].utf8 = run[k].utf8, run'[k].sent = run[k].sent, run'[k].error = run[k].error,
         run'[k].upload = run[k].upload, run'[k].raced = run[k].raced, run'[k].alone => run[k].alone,
         \A d \in Dirs, c \in Commits : k \in patch'[d][c].of => k \in patch[d][c].of,
         Going(k) /\ run'[k].alone => patch'[run[k].dir] = patch[run[k].dir] /\ run'[k].linked = run[k].linked
  PROVE  RunOK(k)'
<1>1. Bytes(k)' => Bytes(k)
  BY DEF Bytes
<1>2. Going(k)' = Going(k) /\ Making(k)' = Making(k)
  BY DEF Going, Making
<1>3. BytesKept(k)'
  BY <1>1, <1>2 DEF RunOK, BytesKept
<1>4. Warned(k)'
  BY <1>2 DEF RunOK, Warned
<1>5. OwnPatch(k)'
  BY <1>2 DEF RunOK, OwnPatch, Clean, Only
<1>. QED
  BY <1>3, <1>4, <1>5 DEF RunOK

LEMMA AloneStays ==
  ASSUME AloneInDirectory,
         \A k \in Runs : Going(k)' => Going(k) /\ run'[k].dir = run[k].dir /\ (run'[k].alone => run[k].alone)
  PROVE  AloneInDirectory'
  BY DEF AloneInDirectory

(* A step of one run that leaves the others alone: the files it changes are in its directory. *)
LEMMA OwnStep ==
  ASSUME PatchInv, NEW r \in Runs, NEW rec \in RunStates, Set(r, rec), Going(r), PatchTyped',
         rec.at # "ended" => rec.dir = run[r].dir /\ (rec.alone => run[r].alone),
         rec.at # "rest",
         \A k \in Runs \ {r} : handler'[k] = handler[k],
         \A d \in Dirs \ {run[r].dir} : patch'[d] = patch[d],
         \A k \in Runs \ {r} : \A d \in Dirs, c \in Commits : k \in patch'[d][c].of => k \in patch[d][c].of,
         RunOK(r)'
  PROVE  PatchInv'
<1>1. run'[r] = rec /\ \A k \in Runs \ {r} : run'[k] = run[k]
  BY DEF PatchInv, PatchTyped, Set
<1>2. AloneInDirectory'
  BY <1>1, AloneStays DEF PatchInv, Going
<1>3. ASSUME NEW k \in Runs \ {r} PROVE RunOK(k)'
  <2>1. Going(k) /\ run[k].alone => run[k].dir # run[r].dir
    BY DEF PatchInv, AloneInDirectory
  <2>2. Going(k) /\ run[k].alone => patch'[run[k].dir] = patch[run[k].dir]
    BY <2>1 DEF PatchInv, PatchTyped, RunStates
  <2>. QED
    BY <1>1, <2>2, OtherRunOK DEF PatchInv
<1>. QED
  BY <1>2, <1>3 DEF PatchInv

(* Steps that leave the files and the handlers. *)
LEMMA QuietStep ==
  ASSUME PatchInv, NEW r \in Runs, NEW rec \in RunStates, Set(r, rec), Going(r), UNCHANGED <<patch, handler>>,
         rec.at \notin {"rest", "ended"}, rec.dir = run[r].dir, rec.commit = run[r].commit, rec.alone = run[r].alone,
         rec.raced = run[r].raced, rec.sent = run[r].sent, run[r].error => rec.error, rec.usable = run[r].usable,
         rec.at \in {"generate", "mkdir", "open"} => run[r].at \in {"generate", "mkdir", "open"},
         rec.at = "fill" => FALSE,
         rec.at \in {"read", "upload", "sent"} /\ rec.dirty /\ rec.wanted /\ ~rec.sent => rec.error,
         rec.at \in {"read", "upload", "sent"} =>
            run[r].at \in {"read", "upload", "sent", "generate"} \/ (Making(r) /\ rec.error),
         rec.at \in {"upload", "sent"} /\ rec.utf8 /\ rec.alone /\ handler[r] = "armed" =>
            IF rec.sent THEN rec.upload = {{r}} ELSE rec.error \/ rec.upload = {}
  PROVE  PatchInv'
<1>1. run'[r] = rec /\ run' \in [Runs -> RunStates]
  BY DEF PatchInv, PatchTyped, Set
<1>2. PatchTyped'
  BY <1>1 DEF PatchInv, PatchTyped
<1>3. Bytes(r)' = Bytes(r)
  BY DEF Bytes
<1>4. BytesKept(r)'
  BY <1>1, <1>3 DEF PatchInv, RunOK, BytesKept, Going, Making
<1>5. Warned(r)'
  BY <1>1 DEF PatchInv, RunOK, Warned, Going
<1>6. OwnPatch(r)'
  <2>1. SUFFICES ASSUME rec.alone, handler[r] = "armed"
                 PROVE  (/\ Making(r) => ~run[r].sent
                         /\ Making(r) /\ run[r].at # "fill" => Clean(run[r].dir)
                         /\ run[r].at = "fill" => run[r].linked /\ Only(run[r].dir, run[r].commit, {})
                         /\ run[r].at \in {"read", "upload", "sent"} =>
                              IF run[r].sent THEN Only(run[r].dir, run[r].commit, {r})
                                             ELSE run[r].error \/ Clean(run[r].dir)
                         /\ run[r].at \in {"upload", "sent"} /\ run[r].utf8 =>
                              IF run[r].sent THEN run[r].upload = {{r}} ELSE run[r].error \/ run[r].upload = {})'
    BY <1>1 DEF OwnPatch
  <2>2. /\ Making(r) => ~rec.sent
        /\ Making(r) /\ run[r].at # "fill" => Clean(rec.dir)
        /\ run[r].at \in {"read", "upload", "sent"} =>
             IF rec.sent THEN Only(rec.dir, rec.commit, {r}) ELSE run[r].error \/ Clean(rec.dir)
    BY <2>1 DEF PatchInv, RunOK, OwnPatch
  <2>3. Making(r)' => Making(r) /\ run[r].at # "fill" /\ rec.at # "fill"
    BY <1>1 DEF Making
  <2>4. Clean(rec.dir) => Clean(run[r].dir)'
    BY <1>1 DEF Clean
  <2>5. Only(rec.dir, rec.commit, {r}) => Only(run[r].dir, run[r].commit, {r})'
    BY <1>1 DEF Only
  <2>6. Making(r) /\ rec.error => ~rec.sent
    BY <2>2
  <2>7. rec.at \in {"read", "upload", "sent"} =>
          IF rec.sent THEN Only(rec.dir, rec.commit, {r}) ELSE rec.error \/ Clean(rec.dir)
    BY <2>2, <2>6 DEF Making
  <2>. QED
    BY <1>1, <2>2, <2>3, <2>4, <2>5, <2>7, <2>1
<1>. QED
  BY <1>1, <1>2, <1>4, <1>5, <1>6, OwnStep DEF RunOK

Steps == {"rest", "generate", "mkdir", "open", "fill", "read", "upload", "sent", "stop", "remove", "ended"}
(* Records of a run that differ in its step, its error, its upload and the name of its file. *)
SameRun(x, y) ==
  /\ x.dir = y.dir /\ x.commit = y.commit /\ x.dirty = y.dirty /\ x.wanted = y.wanted /\ x.usable = y.usable
  /\ x.utf8 = y.utf8 /\ x.sent = y.sent /\ x.alone = y.alone /\ x.raced = y.raced

LEMMA MovesTo ==
  ASSUME NEW x \in RunStates, NEW a \in Steps
  PROVE  LET y == [x EXCEPT !.at = a]
         IN  /\ y \in RunStates /\ SameRun(y, x)
             /\ y.at = a /\ y.error = x.error /\ y.upload = x.upload /\ y.linked = x.linked
  BY DEF RunStates, Steps, SameRun

LEMMA WarnsAndReads ==
  ASSUME NEW r \in Runs, run[r] \in RunStates
  PROVE  /\ Warn(r) \in RunStates /\ SameRun(Warn(r), run[r])
         /\ Warn(r).at = "read" /\ Warn(r).error
  BY DEF RunStates, SameRun, Warn

LEMMA RunTyped == ASSUME PatchInv, NEW r \in Runs PROVE run[r] \in RunStates
  BY DEF PatchInv, PatchTyped

(* A run that is making its patch cannot do so and goes on without. *)
LEMMA WarnInv ==
  ASSUME PatchInv, NEW r \in Runs, Making(r), run[r].at # "rest", Set(r, Warn(r)), UNCHANGED <<patch, handler>>
  PROVE  PatchInv'
<1>1. Warn(r) \in RunStates /\ SameRun(Warn(r), run[r]) /\ Warn(r).at = "read" /\ Warn(r).error
  BY WarnsAndReads, RunTyped
<1>. QED
  BY <1>1, QuietStep DEF SameRun, Making, Going

LEMMA GenerateInv == ASSUME PatchInv, NEW r \in Runs, Generate(r) PROVE PatchInv'
<1>1. Going(r) /\ run[r].at = "generate" /\ UNCHANGED <<patch, handler>> /\ run[r] \in RunStates /\ RunOK(r)
  BY RunTyped DEF Generate, RunAt, Going, PatchInv
<1>2. CASE /\ ~(run[r].usable /\ run[r].wanted /\ run[r].dirty)
           /\ Set(r, [run[r] EXCEPT !.at = "read"])
  <2>. DEFINE rec == [run[r] EXCEPT !.at = "read"]
  <2>1. /\ rec \in RunStates /\ SameRun(rec, run[r])
        /\ rec.at = "read" /\ rec.error = run[r].error
    BY <1>1, MovesTo DEF Steps
  <2>2. Set(r, rec)
    BY <1>2
  <2>3. rec.dirty /\ rec.wanted => rec.error
    BY <1>1, <1>2, <2>1 DEF RunOK, Warned, SameRun
  <2>. HIDE DEF rec
  <2>. QED
    BY <1>1, <2>1, <2>2, <2>3, QuietStep DEF SameRun
<1>3. CASE Set(r, Warn(r))
  BY <1>1, <1>3, WarnInv DEF Making
<1>4. ASSUME NEW a \in {"mkdir", "stop"}, Set(r, [run[r] EXCEPT !.at = a]) PROVE PatchInv'
  <2>. DEFINE rec == [run[r] EXCEPT !.at = a]
  <2>0. a \in Steps
    BY <1>4 DEF Steps
  <2>1. /\ rec \in RunStates /\ SameRun(rec, run[r])
        /\ rec.at = a /\ rec.error = run[r].error
    BY <1>1, <2>0, MovesTo
  <2>2. Set(r, rec)
    BY <1>4
  <2>. HIDE DEF rec
  <2>. QED
    BY <1>1, <2>1, <2>2, QuietStep DEF SameRun
<1>. QED
  BY <1>1, <1>2, <1>3, <1>4 DEF Generate

LEMMA MakeDirInv == ASSUME PatchInv, NEW r \in Runs, MakeDir(r) PROVE PatchInv'
<1>1. Going(r) /\ run[r].at = "mkdir" /\ UNCHANGED <<patch, handler>> /\ run[r] \in RunStates
  BY RunTyped DEF MakeDir, RunAt, Going
<1>2. CASE Set(r, [run[r] EXCEPT !.at = "open"])
  <2>. DEFINE rec == [run[r] EXCEPT !.at = "open"]
  <2>1. /\ rec \in RunStates /\ SameRun(rec, run[r])
        /\ rec.at = "open" /\ rec.error = run[r].error
    BY <1>1, MovesTo DEF Steps
  <2>2. Set(r, rec)
    BY <1>2
  <2>. HIDE DEF rec
  <2>. QED
    BY <1>1, <2>1, <2>2, QuietStep DEF SameRun
<1>. QED
  BY <1>1, <1>2, WarnInv DEF MakeDir, Making

LEMMA OpenFileInv == ASSUME PatchInv, NEW r \in Runs, OpenFile(r) PROVE PatchInv'
<1>1. Going(r) /\ run[r].at = "open" /\ UNCHANGED handler /\ run[r] \in RunStates /\ RunOK(r)
  BY RunTyped DEF OpenFile, RunAt, Going, PatchInv
<1>2. CASE Set(r, Warn(r)) /\ UNCHANGED patch
  BY <1>1, <1>2, WarnInv DEF Making
<1>3. CASE /\ patch' = [patch EXCEPT ![run[r].dir][run[r].commit] = [exists |-> TRUE, of |-> {}]]
           /\ Set(r, [run[r] EXCEPT !.at = "fill", !.linked = TRUE])
  <2>. DEFINE rec == [run[r] EXCEPT !.at = "fill", !.linked = TRUE]
  <2>. PICK d \in Dirs, c \in Commits : d = run[r].dir /\ c = run[r].commit
    BY <1>1 DEF RunStates
  <2>1. /\ rec \in RunStates /\ SameRun(rec, run[r])
        /\ rec.at = "fill" /\ rec.linked /\ rec.error = run[r].error
    BY <1>1 DEF RunStates, SameRun
  <2>2. Set(r, rec) 
    BY <1>3
  <2>3. /\ patch' \in [Dirs -> [Commits -> [exists : BOOLEAN, of : SUBSET Runs]]]
        /\ \A e \in Dirs \ {d} : patch'[e] = patch[e]
        /\ patch'[d] = [patch[d] EXCEPT ![c] = [exists |-> TRUE, of |-> {}]]
        /\ \A k : \A e \in Dirs, x \in Commits : k \in patch'[e][x].of => k \in patch[e][x].of
    BY <1>3, <2>2 DEF PatchInv, PatchTyped
  <2>. HIDE DEF rec
  <2>4. run'[r] = rec /\ run' \in [Runs -> RunStates]
    BY <2>1, <2>2 DEF PatchInv, PatchTyped, Set
  <2>5. PatchTyped'
    BY <1>1, <2>3, <2>4 DEF PatchInv, PatchTyped
  <2>6. Clean(d) => Only(d, c, {})'
    <3>1. ASSUME Clean(d)
          PROVE  patch'[d] = [x \in Commits |-> IF x = c THEN [exists |-> TRUE, of |-> {}] ELSE NoPatch]
      BY <2>3, <3>1 DEF Clean
    <3>. QED
      BY <3>1 DEF Only
  <2>7. BytesKept(r)'
    <3>1. ~Bytes(r)'
      BY <1>1, <2>3 DEF RunOK, BytesKept, Bytes, Making
    <3>. QED
      BY <2>1, <2>4, <3>1, <1>1 DEF BytesKept, Bytes, RunOK, Making, SameRun
  <2>8. Warned(r)'
    BY <1>1, <2>1, <2>4 DEF RunOK, Warned, SameRun, Going
  <2>9. OwnPatch(r)'
    <3>1. run[r].alone /\ handler[r] = "armed" => ~run[r].sent /\ Clean(d)
      BY <1>1 DEF RunOK, OwnPatch, Making
    <3>2. rec.dir = d /\ rec.commit = c
      BY <2>1 DEF SameRun
    <3>3. Only(d, c, {})' => Only(run[r].dir, run[r].commit, {})'
      BY <2>4, <3>2 DEF Only
    <3>. QED
      BY <1>1, <2>1, <2>4, <2>6, <3>1, <3>3 DEF OwnPatch, SameRun
  <2>. QED
    BY <1>1, <2>1, <2>2, <2>3, <2>5, <2>7, <2>8, <2>9, OwnStep DEF SameRun, RunOK
<1>. QED
  BY <1>2, <1>3 DEF OpenFile

LEMMA FillFileInv == ASSUME PatchInv, NEW r \in Runs, FillFile(r) PROVE PatchInv'
<1>1. Going(r) /\ run[r].at = "fill" /\ UNCHANGED handler /\ run[r] \in RunStates /\ RunOK(r)
  BY RunTyped DEF FillFile, RunAt, Going, PatchInv
<1>2. CASE Set(r, [Warn(r) EXCEPT !.linked = FALSE]) /\ UNCHANGED patch
  <2>. DEFINE rec == [Warn(r) EXCEPT !.linked = FALSE]
  <2>1. /\ rec \in RunStates /\ SameRun(rec, run[r])
        /\ rec.at = "read" /\ rec.error
    <3>1. PICK w : w = Warn(r)
      OBVIOUS
    <3>2. w \in RunStates /\ SameRun(w, run[r]) /\ w.at = "read" /\ w.error
      BY <1>1, <3>1, WarnsAndReads
    <3>3. rec = [w EXCEPT !.linked = FALSE]
      BY <3>1
    <3>. HIDE DEF rec
    <3>4. rec \in RunStates /\ SameRun(rec, w) /\ rec.at = w.at /\ rec.error = w.error
      BY <3>2, <3>3 DEF RunStates, SameRun
    <3>. QED
      BY <3>2, <3>4 DEF SameRun
  <2>2. Set(r, rec)
    BY <1>2
  <2>. HIDE DEF rec
  <2>. QED
    BY <1>1, <1>2, <2>1, <2>2, QuietStep DEF SameRun, Making
<1>3. CASE /\ Set(r, [run[r] EXCEPT !.at = "read", !.sent = TRUE, !.linked = FALSE])
           /\ IF run[r].linked
                THEN patch' = [patch EXCEPT ![run[r].dir][run[r].commit].of = @ \cup {r}]
                ELSE UNCHANGED patch
  <2>. DEFINE rec == [run[r] EXCEPT !.at = "read", !.sent = TRUE, !.linked = FALSE]
  <2>. PICK d \in Dirs, c \in Commits : d = run[r].dir /\ c = run[r].commit
    BY <1>1 DEF RunStates
  <2>1. /\ rec \in RunStates /\ rec.dir = d /\ rec.commit = c /\ rec.alone = run[r].alone
        /\ rec.usable = run[r].usable /\ rec.raced = run[r].raced
        /\ rec.at = "read" /\ rec.sent /\ rec.error = run[r].error
    BY <1>1 DEF RunStates
  <2>2. Set(r, rec) 
    BY <1>3
  <2>3. /\ patch' \in [Dirs -> [Commits -> [exists : BOOLEAN, of : SUBSET Runs]]]
        /\ \A e \in Dirs \ {d} : patch'[e] = patch[e]
        /\ run[r].linked => patch'[d] = [patch[d] EXCEPT ![c] = [exists |-> patch[d][c].exists, of |-> patch[d][c].of \cup {r}]]
        /\ \A k \in Runs \ {r} : \A e \in Dirs, x \in Commits : k \in patch'[e][x].of => k \in patch[e][x].of
    <3>. DEFINE filled == [exists |-> patch[d][c].exists, of |-> patch[d][c].of \cup {r}]
    <3>1. patch \in [Dirs -> [Commits -> [exists : BOOLEAN, of : SUBSET Runs]]]
      BY DEF PatchInv, PatchTyped
    <3>0. patch[d][c] \in [exists : BOOLEAN, of : SUBSET Runs]
      BY <3>1
    <3>2. [patch[d][c] EXCEPT !.of = @ \cup {r}] = filled /\ filled \in [exists : BOOLEAN, of : SUBSET Runs]
      <4>1. PICK e \in [exists : BOOLEAN, of : SUBSET Runs] : e = patch[d][c]
        BY <3>0
      <4>2. /\ [e EXCEPT !.of = @ \cup {r}] = [exists |-> e.exists, of |-> e.of \cup {r}]
            /\ [exists |-> e.exists, of |-> e.of \cup {r}] \in [exists : BOOLEAN, of : SUBSET Runs]
        OBVIOUS
      <4>. QED
        BY <4>1, <4>2
    <3>3. run[r].linked => patch' = [patch EXCEPT ![d][c] = filled]
      BY <1>3, <3>1, <3>2
    <3>4. ~run[r].linked => patch' = patch
      BY <1>3
    <3>5. filled.of = patch[d][c].of \cup {r}
      OBVIOUS
    <3>. HIDE DEF filled
    <3>6. CASE run[r].linked
      <4>1. patch' = [patch EXCEPT ![d][c] = filled]
        BY <3>3, <3>6
      <4>2. patch' \in [Dirs -> [Commits -> [exists : BOOLEAN, of : SUBSET Runs]]]
        BY <3>1, <3>2, <4>1
      <4>3. patch'[d] = [patch[d] EXCEPT ![c] = filled] /\ \A e \in Dirs \ {d} : patch'[e] = patch[e]
        BY <3>1, <4>1
      <4>4. \A k \in Runs \ {r} : \A e \in Dirs, x \in Commits : k \in patch'[e][x].of => k \in patch[e][x].of
        BY <3>1, <3>5, <4>3
      <4>. QED
        BY <4>2, <4>3, <4>4 DEF filled
    <3>. QED
      BY <3>1, <3>4, <3>6
  <2>. HIDE DEF rec
  <2>4. run'[r] = rec /\ run' \in [Runs -> RunStates]
    BY <2>1, <2>2 DEF PatchInv, PatchTyped, Set
  <2>5. PatchTyped'
    BY <1>1, <2>3, <2>4 DEF PatchInv, PatchTyped
  <2>6. run[r].linked /\ Only(d, c, {}) => Only(d, c, {r})'
    <3>1. SUFFICES ASSUME run[r].linked, Only(d, c, {}) PROVE Only(d, c, {r})'
      OBVIOUS
    <3>2. patch[d][c] = [exists |-> TRUE, of |-> {}]
      BY <3>1 DEF Only
    <3>3. [exists |-> patch[d][c].exists, of |-> patch[d][c].of \cup {r}] = [exists |-> TRUE, of |-> {r}]
      BY <3>2
    <3>4. patch'[d] = [patch[d] EXCEPT ![c] = [exists |-> TRUE, of |-> {r}]]
      BY <2>3, <3>1, <3>3
    <3>5. patch'[d] = [x \in Commits |-> IF x = c THEN [exists |-> TRUE, of |-> {r}] ELSE NoPatch]
      <4>1. ASSUME NEW v, NEW w
            PROVE  [[x \in Commits |-> IF x = c THEN v ELSE NoPatch] EXCEPT ![c] = w]
                     = [x \in Commits |-> IF x = c THEN w ELSE NoPatch]
        OBVIOUS
      <4>. QED
        BY <3>1, <3>4, <4>1 DEF Only
    <3>. QED
      BY <3>5 DEF Only
  <2>7. BytesKept(r)'
    <3>1. \A e \in Dirs, x \in Commits : r \in patch'[e][x].of => e = d
      BY <1>1, <2>3 DEF RunOK, BytesKept, Bytes, Making
    <3>2. handler[r] = "raise" => run[r].raced
      BY <1>1 DEF RunOK, BytesKept, Making
    <3>. QED
      BY <1>1, <2>1, <2>4, <3>1, <3>2 DEF BytesKept, Making
  <2>8. Warned(r)'
    BY <1>1, <2>1, <2>4 DEF RunOK, Warned, Going
  <2>9. OwnPatch(r)'
    <3>1. run[r].alone /\ handler[r] = "armed" => run[r].linked /\ Only(d, c, {})
      BY <1>1 DEF RunOK, OwnPatch
    <3>0. run'[r].dir = d /\ run'[r].commit = c
      BY <2>1, <2>4
    <3>2. Only(d, c, {r})' => Only(run[r].dir, run[r].commit, {r})'
      BY <3>0, Zenon DEF Only
    <3>. QED
      BY <1>1, <2>1, <2>4, <2>6, <3>1, <3>2 DEF OwnPatch, Making
  <2>. QED
    BY <1>1, <2>1, <2>2, <2>3, <2>5, <2>7, <2>8, <2>9, OwnStep DEF RunOK
<1>. QED
  BY <1>2, <1>3 DEF FillFile

(* A run that has a directory with nothing but its patch to itself reads its patch. *)
LEMMA OwnPatchIsRead ==
  ASSUME NEW r \in Runs, run[r] \in RunStates, run[r].utf8, Only(run[r].dir, run[r].commit, {r})
  PROVE  PatchesRead(r) = {{r}}
<1>1. /\ run[r].commit \in Commits
      /\ \A c \in Commits : patch[run[r].dir][c] = IF c = run[r].commit THEN [exists |-> TRUE, of |-> {r}] ELSE NoPatch
  BY DEF Only, RunStates
<1>2. \A c \in Commits : patch[run[r].dir][c].exists <=> c = run[r].commit
  BY <1>1 DEF NoPatch
<1>3. patch[run[r].dir][run[r].commit].of = {r}
  BY <1>1
<1>. QED
  BY <1>1, <1>2, <1>3 DEF PatchesRead

LEMMA NothingIsRead == ASSUME NEW r \in Runs, Clean(run[r].dir) PROVE PatchesRead(r) = {}
  BY DEF Clean, NoPatch, PatchesRead

LEMMA ReadDirectoryInv == ASSUME PatchInv, NEW r \in Runs, ReadDirectory(r) PROVE PatchInv'
<1>1. /\ Going(r) /\ run[r].at \in {"read", "upload"} /\ UNCHANGED <<patch, handler>> /\ run[r] \in RunStates
      /\ RunOK(r)
  BY RunTyped DEF ReadDirectory, RunAt, Going, PatchInv
<1>2. run[r].dirty /\ run[r].wanted /\ ~run[r].sent => run[r].error
  BY <1>1 DEF RunOK, Warned
<1>3. CASE Set(r, [run[r] EXCEPT !.at = "upload", !.upload = PatchesRead(r)])
  <2>. DEFINE rec == [run[r] EXCEPT !.at = "upload", !.upload = PatchesRead(r)]
  <2>1. PatchesRead(r) \in SUBSET SUBSET Runs
    BY <1>1 DEF PatchesRead, PatchInv, PatchTyped, RunStates
  <2>2. /\ rec \in RunStates /\ SameRun(rec, run[r])
        /\ rec.at = "upload" /\ rec.error = run[r].error /\ rec.upload = PatchesRead(r)
    BY <1>1, <2>1 DEF RunStates, SameRun
  <2>3. Set(r, rec)
    BY <1>3
  <2>4. run[r].utf8 /\ run[r].alone /\ handler[r] = "armed" =>
          IF run[r].sent THEN PatchesRead(r) = {{r}} ELSE run[r].error \/ PatchesRead(r) = {}
    BY <1>1, OwnPatchIsRead, NothingIsRead DEF RunOK, OwnPatch
  <2>. HIDE DEF rec
  <2>. QED
    BY <1>1, <1>2, <2>2, <2>3, <2>4, QuietStep DEF SameRun
<1>4. CASE RunAt(r, "upload") /\ FilesMayVanish(r) /\ Set(r, [run[r] EXCEPT !.upload = {}])
  <2>. DEFINE rec == [run[r] EXCEPT !.upload = {}]
  <2>1. /\ rec \in RunStates /\ SameRun(rec, run[r])
        /\ rec.at = "upload" /\ rec.error = run[r].error
    BY <1>1, <1>4 DEF RunStates, SameRun, RunAt
  <2>2. Set(r, rec)
    BY <1>4
  <2>3. ~(run[r].alone /\ handler[r] = "armed")
    BY <1>4 DEF FilesMayVanish
  <2>. HIDE DEF rec
  <2>. QED
    BY <1>1, <1>2, <2>1, <2>2, <2>3, QuietStep DEF SameRun
<1>5. CASE Set(r, [run[r] EXCEPT !.at = "stop"])
  <2>. DEFINE rec == [run[r] EXCEPT !.at = "stop"]
  <2>1. rec \in RunStates /\ SameRun(rec, run[r]) /\ rec.at = "stop" /\ rec.error = run[r].error
    BY <1>1, MovesTo DEF Steps
  <2>2. Set(r, rec)
    BY <1>5
  <2>. HIDE DEF rec
  <2>. QED
    BY <1>1, <2>1, <2>2, QuietStep DEF SameRun
<1>. QED
  BY <1>3, <1>4, <1>5 DEF ReadDirectory

LEMMA UploadInv == ASSUME PatchInv, NEW r \in Runs, Upload(r) \/ AwaitDeferred(r) PROVE PatchInv'
<1>1. /\ Going(r) /\ run[r].at \in {"upload", "sent"} /\ UNCHANGED <<patch, handler>> /\ run[r] \in RunStates
      /\ RunOK(r)
  BY RunTyped DEF Upload, AwaitDeferred, RunAt, Going, PatchInv
<1>2. PICK a \in {"sent", "stop"} : Set(r, [run[r] EXCEPT !.at = a])
  BY DEF Upload, AwaitDeferred
<1>. DEFINE rec == [run[r] EXCEPT !.at = a]
<1>3. a \in Steps
  BY DEF Steps
<1>4. rec \in RunStates /\ SameRun(rec, run[r]) /\ rec.at = a /\ rec.error = run[r].error /\ rec.upload = run[r].upload
  BY <1>1, <1>3, MovesTo
<1>5. Set(r, rec)
  BY <1>2
<1>6. /\ run[r].dirty /\ run[r].wanted /\ ~run[r].sent => run[r].error
      /\ run[r].utf8 /\ run[r].alone /\ handler[r] = "armed" =>
           IF run[r].sent THEN run[r].upload = {{r}} ELSE run[r].error \/ run[r].upload = {}
  BY <1>1 DEF RunOK, Warned, OwnPatch
<1>. HIDE DEF rec
<1>. QED
  BY <1>1, <1>4, <1>5, <1>6, QuietStep DEF SameRun

LEMMA StopHandlerInv == ASSUME PatchInv, NEW r \in Runs, StopHandler(r) PROVE PatchInv'
<1>1. Going(r) /\ run[r].at = "stop" /\ UNCHANGED patch /\ run[r] \in RunStates /\ RunOK(r)
  BY RunTyped DEF StopHandler, RunAt, Going, PatchInv
<1>. DEFINE rec == [run[r] EXCEPT !.at = "remove"]
<1>2. rec \in RunStates /\ SameRun(rec, run[r]) /\ rec.at = "remove" /\ rec.error = run[r].error
  BY <1>1, MovesTo DEF Steps
<1>3. Set(r, rec)
  BY DEF StopHandler
<1>. HIDE DEF rec
<1>4. /\ run'[r] = rec /\ run' \in [Runs -> RunStates] /\ handler' \in [Runs -> {"off", "armed", "caught", "raise"}]
      /\ (handler'[r] = "raise" => handler[r] = "raise") /\ \A k \in Runs \ {r} : handler'[k] = handler[k]
  BY <1>2, <1>3 DEF PatchInv, PatchTyped, Set, StopHandler
<1>5. PatchTyped' /\ Bytes(r)' = Bytes(r)
  BY <1>1, <1>4 DEF PatchInv, PatchTyped, Bytes
<1>6. RunOK(r)'
  BY <1>1, <1>2, <1>4, <1>5 DEF RunOK, BytesKept, Warned, OwnPatch, Going, Making, SameRun
<1>. QED
  BY <1>1, <1>2, <1>3, <1>4, <1>5, <1>6, OwnStep DEF SameRun

-----------------------------------------------------------------------------
(* The ends of a run. *)
LEMMA EndedTyped ==
  ASSUME NEW r \in Runs, run[r] \in RunStates, NEW x \in BOOLEAN
  PROVE  /\ Ended(r, x) \in RunStates /\ Ended(r, x).at = "ended" /\ Ended(r, x).raced = x
<1>1. run[r].utf8 \in BOOLEAN
  BY DEF RunStates
<1>. QED
  BY <1>1, NoRunTyped DEF Ended, RunStates

LEMMA EndInv ==
  ASSUME PatchInv, NEW r \in Runs, Going(r), NEW x \in BOOLEAN, Set(r, Ended(r, x)), UNCHANGED patch,
         handler' \in [Runs -> {"off", "armed", "caught", "raise"}], \A k \in Runs \ {r} : handler'[k] = handler[k],
         ~x => ~Bytes(r)
  PROVE  PatchInv'
<1>1. Ended(r, x) \in RunStates /\ Ended(r, x).at = "ended" /\ Ended(r, x).raced = x
  BY EndedTyped, RunTyped
<1>2. run'[r] = Ended(r, x) /\ run' \in [Runs -> RunStates]
  BY <1>1 DEF PatchInv, PatchTyped, Set
<1>3. PatchTyped' /\ Bytes(r)' = Bytes(r)
  BY <1>2 DEF PatchInv, PatchTyped, Bytes
<1>4. RunOK(r)'
  BY <1>1, <1>2, <1>3 DEF RunOK, BytesKept, Warned, OwnPatch, Going, Making
<1>. QED
  BY <1>1, <1>3, <1>4, OwnStep

LEMMA SignalInv == ASSUME PatchInv, NEW r \in Runs, Signal(r) PROVE PatchInv'
<1>1. Going(r) /\ UNCHANGED patch
  BY DEF Signal
<1>2. CASE handler[r] = "armed"
  <2>1. /\ UNCHANGED run /\ handler' \in [Runs -> {"off", "armed", "caught", "raise"}]
        /\ handler'[r] = "caught" /\ \A k \in Runs \ {r} : handler'[k] = handler[k]
    BY <1>2 DEF Signal, PatchInv, PatchTyped
  <2>2. PatchTyped' /\ AloneInDirectory'
    BY <1>1, <2>1 DEF PatchInv, PatchTyped, AloneInDirectory, Going
  <2>3. RunOK(r)'
    BY <1>1, <2>1 DEF PatchInv, RunOK, BytesKept, Warned, OwnPatch, Going, Making, Bytes
  <2>4. ASSUME NEW k \in Runs \ {r} PROVE RunOK(k)'
    BY <1>1, <2>1, OtherRunOK DEF PatchInv
  <2>. QED
    BY <2>2, <2>3, <2>4 DEF PatchInv
<1>3. CASE handler[r] # "armed"
  <2>1. UNCHANGED handler /\ Set(r, Ended(r, TRUE))
    BY <1>3 DEF Signal
  <2>. QED
    BY <1>1, <2>1, EndInv DEF PatchInv, PatchTyped
<1>. QED
  BY <1>2, <1>3

LEMMA RaiseInv == ASSUME PatchInv, NEW r \in Runs, Raise(r) PROVE PatchInv'
<1>1. /\ Going(r) /\ UNCHANGED patch /\ handler[r] = "raise" /\ Set(r, Ended(r, run[r].raced))
      /\ run[r] \in RunStates /\ RunOK(r)
  BY RunTyped DEF Raise, PatchInv
<1>2. /\ handler' \in [Runs -> {"off", "armed", "caught", "raise"}]
      /\ \A k \in Runs \ {r} : handler'[k] = handler[k]
  BY DEF Raise, PatchInv, PatchTyped
<1>3. run[r].raced \in BOOLEAN /\ (~run[r].raced => ~Bytes(r))
  BY <1>1 DEF RunStates, RunOK, BytesKept
<1>. QED
  BY <1>1, <1>2, <1>3, EndInv

LEMMA KillInv == ASSUME PatchInv, NEW r \in Runs, Kill(r) PROVE PatchInv'
<1>1. Going(r) /\ UNCHANGED patch /\ Set(r, Ended(r, TRUE))
  BY DEF Kill
<1>2. /\ handler' \in [Runs -> {"off", "armed", "caught", "raise"}]
      /\ \A k \in Runs \ {r} : handler'[k] = handler[k]
  BY DEF Kill, PatchInv, PatchTyped
<1>. QED
  BY <1>1, <1>2, EndInv

(* The directory is removed, with what the run itself left there. *)
LEMMA RemoveAllInv ==
  ASSUME PatchInv, NEW r \in Runs, Going(r), NEW rec \in RunStates, RemoveAll(r, rec),
         handler' \in [Runs -> {"off", "armed", "caught", "raise"}], \A k \in Runs \ {r} : handler'[k] = handler[k],
         handler'[r] # "armed", rec.at # "rest",
         rec.at # "ended" => SameRun(rec, [run[r] EXCEPT !.raced = rec.raced]) /\ rec.at = run[r].at
                             /\ rec.error = run[r].error /\ (Making(r) => rec.raced)
  PROVE  PatchInv'
<1>. DEFINE d == run[r].dir
            end == [rec EXCEPT !.linked = FALSE]
            unlink(k) == IF Going(k) /\ run[k].dir = d THEN [run[k] EXCEPT !.linked = FALSE] ELSE run[k]
<1>1. run[r] \in RunStates /\ RunOK(r)
  BY RunTyped DEF PatchInv
<1>2. /\ end \in RunStates /\ SameRun(end, rec) /\ end.at = rec.at /\ end.error = rec.error
  BY DEF RunStates, SameRun
<1>3. ASSUME NEW k \in Runs
      PROVE  /\ unlink(k) \in RunStates /\ SameRun(unlink(k), run[k]) /\ unlink(k).at = run[k].at
             /\ unlink(k).error = run[k].error /\ unlink(k).upload = run[k].upload
             /\ ~(Going(k) /\ run[k].dir = d) => unlink(k).linked = run[k].linked
  <2>1. PICK x \in RunStates : x = run[k]
    BY RunTyped
  <2>2. PICK y : y = [x EXCEPT !.linked = FALSE]
    OBVIOUS
  <2>3. y \in RunStates /\ SameRun(y, x) /\ y.at = x.at /\ y.error = x.error /\ y.upload = x.upload
    BY <2>2 DEF RunStates, SameRun
  <2>4. SameRun(x, x)
    BY DEF SameRun
  <2>5. unlink(k) = IF Going(k) /\ run[k].dir = d THEN y ELSE x
    BY <2>1, <2>2
  <2>. HIDE DEF unlink
  <2>. QED
    BY <2>1, <2>3, <2>4, <2>5
<1>4. patch' = Clear(d) /\ run' = [k \in Runs |-> IF k = r THEN end ELSE unlink(k)]
  BY DEF RemoveAll
<1>5. d \in Dirs
  BY <1>1 DEF RunStates
<1>6. /\ patch' \in [Dirs -> [Commits -> [exists : BOOLEAN, of : SUBSET Runs]]]
      /\ \A e \in Dirs \ {d} : patch'[e] = patch[e]
      /\ \A c \in Commits : patch'[d][c].of = {}
  BY <1>4, <1>5 DEF PatchInv, PatchTyped, Clear, NoPatch
<1>7. run'[r] = end /\ \A k \in Runs \ {r} : run'[k] = unlink(k)
  BY <1>4
<1>8. run' \in [Runs -> RunStates]
  BY <1>2, <1>3, <1>4
<1>. HIDE DEF end, unlink
<1>9. PatchTyped'
  BY <1>6, <1>8 DEF PatchTyped
<1>10. AloneInDirectory'
  <2>1. \A k \in Runs : Going(k)' => Going(k) /\ run'[k].dir = run[k].dir /\ (run'[k].alone => run[k].alone)
    <3>1. ASSUME NEW k \in Runs \ {r}, Going(k)' PROVE Going(k) /\ run'[k].dir = run[k].dir /\ (run'[k].alone => run[k].alone)
      BY <1>3, <1>7, <3>1 DEF Going, SameRun
    <3>2. ASSUME Going(r)' PROVE run'[r].dir = run[r].dir /\ (run'[r].alone => run[r].alone)
      BY <1>1, <1>2, <1>7, <3>2 DEF Going, SameRun, RunStates
    <3>. QED
      BY <3>1, <3>2
  <2>. QED
    BY <2>1, AloneStays DEF PatchInv
<1>11. ASSUME NEW k \in Runs \ {r} PROVE RunOK(k)'
  <2>1. Going(k) /\ run[k].alone => run[k].dir # d /\ run[k].dir \in Dirs
    BY RunTyped DEF PatchInv, AloneInDirectory, RunStates
  <2>2. Going(k) /\ run[k].alone => patch'[run[k].dir] = patch[run[k].dir] /\ run'[k].linked = run[k].linked
    BY <1>3, <1>6, <1>7, <2>1
  <2>3. \A e \in Dirs, c \in Commits : k \in patch'[e][c].of => k \in patch[e][c].of
    BY <1>6
  <2>. QED
    BY <1>3, <1>7, <2>2, <2>3, OtherRunOK DEF PatchInv, SameRun
<1>12. ~Bytes(r)'
  <2>1. \A e \in Dirs, c \in Commits : r \in patch[e][c].of => e = d
    BY <1>1 DEF RunOK, BytesKept
  <2>. QED
    BY <1>6, <2>1 DEF Bytes
<1>13. RunOK(r)'
  <2>1. BytesKept(r)'
    <3>1. \A e \in Dirs, c \in Commits : r \notin patch'[e][c].of
      BY <1>12 DEF Bytes
    <3>2. Going(r)' /\ run'[r].raced = FALSE => ~Making(r)'
      BY <1>1, <1>2, <1>7 DEF Going, Making, SameRun
    <3>. QED
      BY <1>12, <3>1, <3>2, <1>8 DEF BytesKept, RunStates
  <2>2. Warned(r)'
    BY <1>1, <1>2, <1>7 DEF RunOK, Warned, Going, SameRun, RunStates
  <2>3. OwnPatch(r)'
    BY DEF OwnPatch
  <2>. QED
    BY <2>1, <2>2, <2>3 DEF RunOK
<1>. QED
  BY <1>9, <1>10, <1>11, <1>13 DEF PatchInv

LEMMA RemovePatchesInv == ASSUME PatchInv, NEW r \in Runs, RemovePatches(r) PROVE PatchInv'
<1>1. Going(r) /\ RemoveAll(r, Ended(r, run[r].raced)) /\ run[r].raced \in BOOLEAN /\ run[r] \in RunStates
  BY RunTyped DEF RemovePatches, RunAt, Going, RunStates
<1>2. Ended(r, run[r].raced) \in RunStates /\ Ended(r, run[r].raced).at = "ended"
  BY <1>1, EndedTyped
<1>3. /\ handler' \in [Runs -> {"off", "armed", "caught", "raise"}] /\ handler'[r] = "off"
      /\ \A k \in Runs \ {r} : handler'[k] = handler[k]
  BY DEF RemovePatches, PatchInv, PatchTyped
<1>. QED
  BY <1>1, <1>2, <1>3, RemoveAllInv

LEMMA HandleSignalInv == ASSUME PatchInv, NEW r \in Runs, HandleSignal(r) PROVE PatchInv'
<1>. DEFINE made == run[r].at \in {"generate", "mkdir", "open", "fill"}
            rec == [run[r] EXCEPT !.raced = made]
<1>1. Going(r) /\ RemoveAll(r, rec) /\ run[r] \in RunStates
  BY RunTyped DEF HandleSignal
<1>0. made \in BOOLEAN /\ (Making(r) => made)
  BY DEF Making
<1>. HIDE DEF made
<1>2. /\ rec \in RunStates /\ rec.at = run[r].at /\ rec.error = run[r].error /\ (Making(r) => rec.raced)
      /\ SameRun(rec, [run[r] EXCEPT !.raced = rec.raced])
  BY <1>0, <1>1 DEF RunStates, SameRun
<1>3. /\ handler' \in [Runs -> {"off", "armed", "caught", "raise"}] /\ handler'[r] = "raise"
      /\ \A k \in Runs \ {r} : handler'[k] = handler[k]
  BY DEF HandleSignal, PatchInv, PatchTyped
<1>. HIDE DEF rec
<1>. QED
  BY <1>1, <1>2, <1>3, RemoveAllInv DEF Going

-----------------------------------------------------------------------------
(* The start of a run: the others in the directory have it to themselves no more. *)
LEMMA BeginRunInv == ASSUME PatchInv, NEW r \in Runs, BeginRun(r) PROVE PatchInv'
<1>1. PICK d \in {Shared, r}, c \in Commits, dirty, wanted, usable, utf8 \in BOOLEAN :
        /\ dirty \/ utf8
        /\ LET alone == patch[d] = [x \in Commits |-> NoPatch] /\ \A k \in Runs : Going(k) => run[k].dir # d
               me == [NoRun EXCEPT !.at = "generate", !.dir = d, !.commit = c, !.dirty = dirty, !.wanted = wanted,
                                  !.usable = usable, !.utf8 = utf8, !.error = ~usable, !.alone = alone]
           IN  run' = [k \in Runs |-> IF k = r THEN me
                                      ELSE IF Going(k) /\ run[k].dir = d THEN [run[k] EXCEPT !.alone = FALSE] ELSE run[k]]
  BY ZenonT(60) DEF BeginRun
<1>. DEFINE alone == patch[d] = [x \in Commits |-> NoPatch] /\ \A k \in Runs : Going(k) => run[k].dir # d
            me == [NoRun EXCEPT !.at = "generate", !.dir = d, !.commit = c, !.dirty = dirty, !.wanted = wanted,
                               !.usable = usable, !.utf8 = utf8, !.error = ~usable, !.alone = alone]
            other(k) == IF Going(k) /\ run[k].dir = d THEN [run[k] EXCEPT !.alone = FALSE] ELSE run[k]
<1>2. d \in Dirs /\ alone \in BOOLEAN
  BY DEF Dirs
<1>. HIDE DEF alone
<1>3. /\ me \in RunStates /\ me.at = "generate" /\ me.dir = d /\ me.alone = alone /\ ~me.sent
      /\ (~me.usable => me.error) /\ ~me.raced
  <2>. DEFINE m1 == [NoRun EXCEPT !.at = "generate", !.dir = d, !.commit = c]
              m2 == [m1 EXCEPT !.dirty = dirty, !.wanted = wanted, !.usable = usable]
              m3 == [m2 EXCEPT !.utf8 = utf8, !.error = ~usable, !.alone = alone]
  <2>1. me = m3
    OBVIOUS
  <2>. HIDE DEF me
  <2>2. m1 \in RunStates /\ m1.at = "generate" /\ m1.dir = d /\ ~m1.sent /\ ~m1.raced
    <3>1. ~NoRun.sent /\ ~NoRun.raced
      BY DEF NoRun
    <3>. QED
      BY <1>2, <3>1, NoRunTyped DEF RunStates
  <2>. HIDE DEF m1
  <2>3. /\ m2 \in RunStates /\ m2.at = "generate" /\ m2.dir = d /\ ~m2.sent /\ ~m2.raced
        /\ m2.usable = usable
    BY <2>2, ZenonT(30) DEF RunStates
  <2>. HIDE DEF m2
  <2>4. /\ m3 \in RunStates /\ m3.at = "generate" /\ m3.dir = d /\ m3.alone = alone /\ ~m3.sent /\ ~m3.raced
        /\ m3.usable = usable /\ m3.error = ~usable
    <3>1. PICK m \in RunStates : m = [m2 EXCEPT !.utf8 = utf8, !.error = ~usable]
      BY <2>3 DEF RunStates
    <3>2. m.at = m2.at /\ m.dir = m2.dir /\ m.sent = m2.sent /\ m.raced = m2.raced /\ m.usable = m2.usable
          /\ m.error = ~usable
      BY <2>3, <3>1 DEF RunStates
    <3>3. PICK a \in BOOLEAN : a = alone
      BY <1>2
    <3>4. PICK n : n = [m EXCEPT !.alone = a]
      OBVIOUS
    <3>5. m3 = n
      BY <3>1, <3>3, <3>4
    <3>6. /\ n \in RunStates /\ n.at = m.at /\ n.dir = m.dir /\ n.alone = a
          /\ n.sent = m.sent /\ n.raced = m.raced /\ n.usable = m.usable /\ n.error = m.error
      BY <3>4, AloneSet
    <3>. HIDE DEF m3
    <3>. QED
      BY <2>3, <3>2, <3>3, <3>5, <3>6
  <2>. QED
    BY <2>1, <2>4
<1>4. ASSUME NEW k \in Runs
      PROVE  /\ other(k) \in RunStates /\ other(k).at = run[k].at
             /\ other(k).dir = run[k].dir /\ other(k).commit = run[k].commit /\ other(k).dirty = run[k].dirty
             /\ other(k).wanted = run[k].wanted /\ other(k).usable = run[k].usable /\ other(k).utf8 = run[k].utf8
             /\ other(k).sent = run[k].sent /\ other(k).error = run[k].error /\ other(k).upload = run[k].upload
             /\ other(k).raced = run[k].raced /\ other(k).linked = run[k].linked
             /\ other(k).alone => run[k].alone
             /\ Going(k) /\ other(k).alone => run[k].dir # d
  BY RunTyped DEF RunStates
<1>5. run' = [k \in Runs |-> IF k = r THEN me ELSE other(k)]
  BY <1>1 DEF alone
<1>. HIDE DEF me, other
<1>6. run'[r] = me /\ (\A k \in Runs \ {r} : run'[k] = other(k)) /\ run' \in [Runs -> RunStates]
  BY <1>3, <1>4, <1>5
<1>7. /\ UNCHANGED patch /\ run[r].at = "rest" /\ ~Bytes(r)
      /\ handler' \in [Runs -> {"off", "armed", "caught", "raise"}] /\ handler'[r] = "armed"
      /\ \A k \in Runs \ {r} : handler'[k] = handler[k]
  BY DEF BeginRun, RunAt, PatchInv, PatchTyped, RunOK, BytesKept
<1>8. PatchTyped'
  BY <1>6, <1>7 DEF PatchInv, PatchTyped
<1>9. AloneInDirectory'
  <2>. SUFFICES ASSUME NEW j \in Runs, NEW k \in Runs \ {j}, Going(j)', Going(k)', run'[j].alone
                PROVE  run'[k].dir # run'[j].dir
    BY DEF AloneInDirectory
  <2>1. CASE j = r
    <3>1. Going(k) /\ alone
      BY <1>3, <1>4, <1>6, <2>1 DEF Going
    <3>. QED
      BY <1>3, <1>4, <1>6, <2>1, <3>1 DEF alone
  <2>2. CASE k = r
    <3>1. Going(j) /\ other(j).alone
      BY <1>4, <1>6, <2>2 DEF Going
    <3>. QED
      BY <1>3, <1>4, <1>6, <2>2, <3>1
  <2>3. CASE j # r /\ k # r
    <3>1. Going(j) /\ Going(k) /\ run[j].alone
      BY <1>4, <1>6, <2>3 DEF Going
    <3>. QED
      BY <1>4, <1>6, <2>3, <3>1 DEF PatchInv, AloneInDirectory
  <2>. QED
    BY <2>1, <2>2, <2>3
<1>10. ASSUME NEW k \in Runs \ {r} PROVE RunOK(k)'
  BY <1>4, <1>6, <1>7, OtherRunOK DEF PatchInv
<1>11. RunOK(r)'
  <2>1. Bytes(r)' = FALSE
    BY <1>7 DEF Bytes
  <2>2. BytesKept(r)'
    BY <1>3, <1>6, <1>7, <2>1 DEF BytesKept, Bytes
  <2>3. Warned(r)'
    BY <1>3, <1>6 DEF Warned
  <2>4. alone => Clean(run[r].dir)'
    BY <1>3, <1>6, <1>7 DEF Clean, alone
  <2>5. OwnPatch(r)'
    BY <1>3, <1>6, <2>4 DEF OwnPatch
  <2>. QED
    BY <2>2, <2>3, <2>5 DEF RunOK
<1>. QED
  BY <1>8, <1>9, <1>10, <1>11 DEF PatchInv

LEMMA PatchNext == PatchInv /\ [RunPatchNext]_rpVars => PatchInv'
<1>. SUFFICES ASSUME PatchInv, [RunPatchNext]_rpVars PROVE PatchInv'
  OBVIOUS
<1>1. CASE UNCHANGED rpVars
  BY <1>1 DEF rpVars, PatchInv, PatchTyped, AloneInDirectory, RunOK, BytesKept, Warned, OwnPatch, Going, Making, Bytes,
              Clean, Only
<1>. QED
  BY <1>1, BeginRunInv, GenerateInv, MakeDirInv, OpenFileInv, FillFileInv, ReadDirectoryInv, UploadInv, StopHandlerInv,
     RemovePatchesInv, SignalInv, HandleSignalInv, RaiseInv, KillInv DEF RunPatchNext

LEMMA AlwaysPatchInv == RunPatchSpec => []PatchInv
  BY PatchInit, PatchNext, PTL DEF RunPatchSpec

(* A run that ends, by itself or by a signal it handles, leaves no copy of the
   user's changes behind, whichever runs share its directory. *)
THEOREM PatchesAreRemoved == RunPatchSpec => []PatchIsRemoved
<1>1. PatchInv => PatchIsRemoved
  BY DEF PatchInv, RunOK, BytesKept, PatchIsRemoved, RunAt
<1>. QED
  BY <1>1, AlwaysPatchInv, PTL

(* A run that had its directory to itself uploaded just the patch it reports, and
   changes that were not sent are reported as an error. *)
THEOREM UploadsAreAsSaid == RunPatchSpec => []UploadIsAsSaid
<1>1. PatchInv => UploadIsAsSaid
  BY DEF PatchInv, RunOK, Warned, OwnPatch, UploadIsAsSaid, RunAt, Going
<1>. QED
  BY <1>1, AlwaysPatchInv, PTL
=============================================================================
