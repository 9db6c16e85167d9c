---------------------------- MODULE SettingsFile ----------------------------
(***************************************************************************)
(* The settings file of the web server: what WebServerManager::save writes *)
(* every 30 seconds and WebServerManager::load reads at the next start.    *)
(* It holds the web settings, the accounts with their permissions and the  *)
(* refresh tokens.  API requests change all three in memory and then call  *)
(* setDirty; the timer writes only when isDirty is set, clears it before   *)
(* it reads anything, and reads the three parts one after another, each    *)
(* under a lock of its own.  The process may be killed at any point.       *)
(*                                                                         *)
(* An account is a WebUser object: two accounts may carry one name, and a  *)
(* request keeps the object it has found after it was removed.             *)
(***************************************************************************)
EXTENDS Naturals, FiniteSets

CONSTANTS Names,        \* user names
          Accounts,     \* WebUser objects
          NameOf,       \* the name each account carries
          Tokens,       \* refresh tokens
          Passwords,    \* passwords an account may have
          Values,       \* values of a web setting
          DefaultValue, \* the setting's default
          Threads,      \* server threads that handle requests
          Mixes,        \* bound: what happens in a behaviour: requests, token expiry
          Nobody,       \* a null WebUserPtr, an empty map slot
          Absent        \* no such element in the file

Perms    == {"admin", "limited", "none"}
Events   == {"add", "update", "password", "remove", "login", "refresh", "set", "reset", "expire"}

ASSUME SettingsAssumption ==
  /\ NameOf \in [Accounts -> Names]
  /\ \A n \in Names : \E a \in Accounts : NameOf[a] = n
  /\ DefaultValue \in Values
  /\ Mixes \subseteq SUBSET Events
  /\ Nobody \notin Accounts
  /\ Passwords # {}
  /\ Absent \notin Names \cup Perms \cup Passwords

VARIABLES mix,     \* what happens in this behaviour
          serving, \* the server has been started
          web,     \* value of the web setting
          users,   \* WebUserManager::users, name -> account
          perm,    \* WebUser::permissions of every account
          password,\* WebUser::password of every account
          owner,   \* WebUserManager::refreshTokens, token -> account
          expired, \* tokens older than REFRESH_TOKEN_VALIDITY_DAYS
          dirty,   \* WebServerManager::isDirty
          op,      \* the request each thread is handling
          saver,   \* the running save(): its position and its XML tree
          file,    \* contents of the settings file
          lost,    \* history: the last write failed
          silent,  \* history: the web setting was changed without setDirty
          unsaid   \* history: accounts whose password was, by a request that failed

vars == <<mix, serving, web, users, perm, password, owner, expired, dirty, op, saver,
          file, lost, silent, unsaid>>

\* The content of the file: the three elements save() adds to the tree.
Tree == [web : Values,
         users : [Names -> Perms \cup {Absent}],
         passwords : [Names -> Passwords \cup {Absent}],
         tokens : [Tokens -> Names \cup {Absent}]]

Empty == [web |-> DefaultValue, users |-> [n \in Names |-> Absent],
          passwords |-> [n \in Names |-> Absent],
          tokens |-> [k \in Tokens |-> Absent]]

AnyPassword == CHOOSE w \in Passwords : TRUE

\* Where a request is; `then` is where it goes on after removing tokens.
Idle == [pc |-> "idle", acct |-> Nobody, perm |-> "none", toks |-> {}, then |-> "due"]
Op   == [pc : {"idle", "add", "parse", "fill", "list", "erase", "dirty", "unregister",
               "issue", "due"},
         acct : Accounts \cup {Nobody}, perm : Perms, toks : SUBSET Tokens,
         then : {"due", "unregister", "issue"}]

TypeOK == /\ mix \in Mixes
          /\ serving \in BOOLEAN
          /\ web \in Values
          /\ users \in [Names -> Accounts \cup {Nobody}]
          /\ perm \in [Accounts -> Perms]
          /\ password \in [Accounts -> Passwords]
          /\ unsaid \in SUBSET Accounts
          /\ owner \in [Tokens -> Accounts \cup {Nobody}]
          /\ expired \in SUBSET Tokens
          /\ dirty \in BOOLEAN
          /\ op \in [Threads -> Op]
          /\ saver \in [pc : {"idle", "web", "users", "tokens", "write"}, xml : Tree]
          /\ file \in Tree
          /\ lost \in BOOLEAN
          /\ silent \in BOOLEAN

-----------------------------------------------------------------------------
Registered == {a \in Accounts : users[NameOf[a]] = a}

\* No map and no request refers to the object: its memory is free.
Free(a)  == /\ a \notin Registered
            /\ \A k \in Tokens : owner[k] # a
            /\ \A t \in Threads : op[t].acct # a
\* A uuid that nothing in memory or in the file remembers.
Fresh(k) == /\ owner[k] = Nobody
            /\ file.tokens[k] = Absent
            /\ saver.xml.tokens[k] = Absent
            /\ \A t \in Threads : k \notin op[t].toks

\* What on(SaveSettings) puts in the tree for the accounts and for the tokens.
UsersImage  == [n \in Names |-> IF users[n] = Nobody THEN Absent ELSE perm[users[n]]]
PasswordsImage == [n \in Names |-> IF users[n] = Nobody THEN Absent ELSE password[users[n]]]
\* Mutant of the next: writes the account object instead of its name.
TokensImageObject == [k \in Tokens |-> IF owner[k] = Nobody THEN Absent ELSE owner[k]]
TokensImage == [k \in Tokens |-> IF owner[k] = Nobody THEN Absent ELSE NameOf[owner[k]]]

\* An account without a Permissions attribute is loaded as an administrator.
LoadedPerm(p)  == IF p = "none" THEN "admin" ELSE p
LoadedUser(n)  == CHOOSE a \in Accounts : NameOf[a] = n
LoadedUsers    == [n \in Names |-> IF file.users[n] = Absent THEN Nobody ELSE LoadedUser(n)]
LoadedTokens   == [k \in Tokens |->
                     IF file.tokens[k] = Absent \/ k \in expired THEN Nobody
                       ELSE LoadedUsers[file.tokens[k]]]

\* The process has just loaded a file with an administrator and a token.
Init == /\ mix \in Mixes
        /\ serving = FALSE
        /\ web = DefaultValue
        /\ password = [a \in Accounts |-> AnyPassword]
        /\ \E registered \in [Names -> {"admin", Absent}], k \in Tokens, n \in Names :
             /\ registered[n] = "admin"
             /\ file = [web |-> DefaultValue, users |-> registered,
                        passwords |-> [m \in Names |-> IF registered[m] = Absent THEN Absent
                                                         ELSE AnyPassword],
                        tokens |-> [Empty.tokens EXCEPT ![k] = n]]
        /\ users = LoadedUsers
        /\ perm = [a \in Accounts |-> "admin"]
        /\ expired = {}
        /\ owner = LoadedTokens
        /\ dirty = FALSE
        /\ op = [t \in Threads |-> Idle]
        /\ saver = [pc |-> "idle", xml |-> Empty]
        /\ lost = FALSE
        /\ silent = FALSE
        /\ unsaid = {}

-----------------------------------------------------------------------------
(* Requests                                                                *)
Begin(t, step) == op' = [op EXCEPT ![t] = step]
Goto(t, pc)    == op' = [op EXCEPT ![t].pc = pc]

\* handleAddUser: builds the account; addUser refuses a name that is taken.
\* When the server is not running, the application's own dialog does the same.
\* Bound: passwords only differ in behaviours that change them.
AddUser(t, a, p, w) ==
  /\ "add" \in mix
  /\ w = AnyPassword \/ "password" \in mix
  /\ op[t].pc = "idle"
  /\ Free(a)
  /\ users[NameOf[a]] = Nobody
  /\ perm' = [perm EXCEPT ![a] = p]
  /\ password' = [password EXCEPT ![a] = w]
  /\ unsaid' = unsaid \ {a}
  /\ Begin(t, [Idle EXCEPT !.pc = "add", !.acct = a])
  /\ UNCHANGED <<mix, serving, web, users, owner, expired, dirty, saver, file, lost, silent>>

\* addUser: emplace under the write lock, without effect if the name has been
\* taken since; setDirty follows either way.
Emplace(t) ==
  LET a == op[t].acct IN
  /\ op[t].pc = "add"
  /\ users' = [users EXCEPT ![NameOf[a]] = IF @ = Nobody THEN a ELSE @]
  /\ Goto(t, "due")
  /\ UNCHANGED <<mix, serving, web, perm, password, owner, expired, dirty,
                 saver, file, lost, silent, unsaid>>

\* handleUpdateUser, parseUser: the password is assigned to the registered
\* account (without one in the request nothing is: w is the old one) ...
\* Bound: a behaviour changes passwords or permissions.
UpdateUser(t, a, w) ==
  /\ {"update", "password"} \cap mix # {}
  /\ w = password[a] \/ "password" \in mix
  /\ serving
  /\ op[t].pc = "idle"
  /\ a \in Registered
  /\ password' = [password EXCEPT ![a] = w]
  /\ Begin(t, [Idle EXCEPT !.pc = "parse", !.acct = a])
  /\ UNCHANGED <<mix, serving, web, users, perm, owner, expired, dirty, saver, file,
                 lost, silent, unsaid>>

\* updateUser follows: tokens are removed too unless users change their own account.
Updated(t) == \E pc \in {"due", "list"} :
                op' = [op EXCEPT ![t] = [@ EXCEPT !.pc = pc, !.perm = "none"]]

\* ... before the permissions are parsed.  There are none in the request, or they
\* have the wrong type and the request fails without updateUser and setDirty ...
ParsePermissions(t) ==
  LET a == op[t].acct IN
  /\ op[t].pc = "parse"
  /\ \/ Updated(t) /\ UNCHANGED unsaid
     \/ Begin(t, Idle) /\ unsaid' = unsaid \cup {a}
  /\ UNCHANGED <<mix, serving, web, users, perm, password, owner, expired, dirty, saver,
                 file, lost, silent>>

\* ... or setPermissions clears those of the account in place (an empty list
\* counts as none in the request; one that names no permission there is, which
\* leaves the account with none, is not tried) ...
ClearPermissions(t, p) ==
  LET a == op[t].acct IN
  /\ "update" \in mix
  /\ op[t].pc = "parse"
  /\ p # "none"
  /\ perm' = [perm EXCEPT ![a] = "none"]
  /\ op' = [op EXCEPT ![t] = [@ EXCEPT !.pc = "fill", !.perm = p]]
  /\ UNCHANGED <<mix, serving, web, users, password, owner, expired, dirty, saver, file,
                 lost, silent, unsaid>>

\* ... and then sets them one by one.  Nothing keeps save() from reading in
\* between.
FillPermissions(t) ==
  LET a == op[t].acct IN
  /\ op[t].pc = "fill"
  /\ perm' = [perm EXCEPT ![a] = op[t].perm]
  /\ Updated(t)
  /\ UNCHANGED <<mix, serving, web, users, password, owner, expired, dirty,
                 saver, file, lost, silent, unsaid>>

\* removeUser: finds the account, then removes its tokens.
RemoveUser(t, a) ==
  /\ "remove" \in mix
  /\ serving
  /\ op[t].pc = "idle"
  /\ a \in Registered
  /\ Begin(t, [Idle EXCEPT !.pc = "list", !.acct = a, !.then = "unregister"])
  /\ UNCHANGED <<mix, serving, web, users, perm, password, owner, expired,
                 dirty, saver, file, lost, silent, unsaid>>

\* removeRefreshTokens, first half: lists the account's tokens under the read lock.
ListTokens(t) ==
  /\ op[t].pc = "list"
  /\ op' = [op EXCEPT ![t] = [@ EXCEPT !.pc = "erase",
                                       !.toks = {k \in Tokens : owner[k] = op[t].acct}]]
  /\ UNCHANGED <<mix, serving, web, users, perm, password, owner, expired,
                 dirty, saver, file, lost, silent, unsaid>>

\* removeUser erases by name: whatever account carries it by now.
Unregister(t) ==
  /\ op[t].pc = "unregister"
  /\ users' = [users EXCEPT ![NameOf[op[t].acct]] = Nobody]
  /\ Goto(t, "due")
  /\ UNCHANGED <<mix, serving, web, perm, password, owner, expired, dirty,
                 saver, file, lost, silent, unsaid>>

\* handleLogin with a password: createSession calls setDirty for the login time.
Login(t, a) ==
  /\ "login" \in mix
  /\ serving
  /\ op[t].pc = "idle"
  /\ a \in Registered
  /\ dirty' = TRUE
  /\ Begin(t, [Idle EXCEPT !.pc = "issue", !.acct = a])
  /\ UNCHANGED <<mix, serving, web, users, perm, password, owner, expired,
                 saver, file, lost, silent, unsaid>>

\* handleLogin with a refresh token: found under the read lock, erased later.
\* The token's age is not looked at, only whether it is still in the map.
UseToken(t, k) ==
  /\ "refresh" \in mix
  /\ serving
  /\ op[t].pc = "idle"
  /\ owner[k] # Nobody
  /\ Begin(t, [Idle EXCEPT !.pc = "erase", !.acct = owner[k], !.toks = {k}, !.then = "issue"])
  /\ UNCHANGED <<mix, serving, web, users, perm, password, owner, expired,
                 dirty, saver, file, lost, silent, unsaid>>

\* Mutant: the erased tokens are not reported with setDirty.
EraseTokensClean(t) ==
  /\ op[t].pc = "erase"
  /\ owner' = [k \in Tokens |-> IF k \in op[t].toks THEN Nobody ELSE owner[k]]
  /\ Goto(t, op[t].then)
  /\ UNCHANGED <<mix, serving, web, users, perm, password, expired, dirty,
                 saver, file, lost, silent, unsaid>>

\* The listed or exchanged tokens are erased under the write lock.
EraseTokens(t) ==
  /\ op[t].pc = "erase"
  /\ owner' = [k \in Tokens |-> IF k \in op[t].toks THEN Nobody ELSE owner[k]]
  /\ Goto(t, "dirty")
  /\ UNCHANGED <<mix, serving, web, users, perm, password, expired, dirty,
                 saver, file, lost, silent, unsaid>>

\* createRefreshToken: the account found at the start may be gone by now.
IssueToken(t, k) ==
  /\ op[t].pc = "issue"
  /\ Fresh(k)
  /\ owner' = [owner EXCEPT ![k] = op[t].acct]
  /\ expired' = expired \ {k}
  /\ op' = [op EXCEPT ![t] = [@ EXCEPT !.pc = "due", !.toks = {}]]
  /\ UNCHANGED <<mix, serving, web, users, perm, password, dirty, saver,
                 file, lost, silent, unsaid>>

\* Mutant: a complete request does not call setDirty either.
SetValuesClean(t, v) ==
  /\ "set" \in mix
  /\ serving
  /\ op[t].pc = "idle"
  /\ web' = v
  /\ UNCHANGED <<mix, serving, users, perm, password, owner, expired, dirty,
                 op, saver, file, lost, silent, unsaid>>

\* handleSetValues assigns the settings one by one, then calls setDirty; an
\* unknown key further on makes it throw and leaves the change unreported.
SetValues(t, v) ==
  /\ "set" \in mix
  /\ serving
  /\ op[t].pc = "idle"
  /\ web' = v
  /\ \/ Begin(t, [Idle EXCEPT !.pc = "due"]) /\ silent' = silent
     \/ UNCHANGED op /\ silent' = TRUE
  /\ UNCHANGED <<mix, serving, users, perm, password, owner, expired, dirty,
                 saver, file, lost, unsaid>>

\* handleResetValues does not call setDirty at all.
ResetValues ==
  /\ "reset" \in mix
  /\ serving
  /\ web # DefaultValue
  /\ web' = DefaultValue
  /\ silent' = TRUE
  /\ UNCHANGED <<mix, serving, users, perm, password, owner, expired, dirty,
                 op, saver, file, lost, unsaid>>

\* Mutant: requests that end with setDirty do not set it.
SetDirtyNot(t) ==
  /\ op[t].pc \in {"dirty", "due"}
  /\ op' = [op EXCEPT ![t] = IF @.pc = "due" THEN Idle
                              ELSE [@ EXCEPT !.pc = op[t].then, !.toks = {}]]
  /\ UNCHANGED <<mix, serving, web, users, perm, password, owner, expired,
                 dirty, saver, file, lost, silent, unsaid>>

\* setDirty, a step of its own after the change it reports.
SetDirty(t) ==
  /\ op[t].pc \in {"dirty", "due"}
  /\ dirty' = TRUE
  /\ op' = [op EXCEPT ![t] = IF @.pc = "due" THEN Idle
                              ELSE [@ EXCEPT !.pc = op[t].then, !.toks = {}]]
  /\ UNCHANGED <<mix, serving, web, users, perm, password, owner, expired,
                 saver, file, lost, silent, unsaid>>

-----------------------------------------------------------------------------
(* Timers, the file, and the life of the process                           *)

\* A token passes REFRESH_TOKEN_VALIDITY_DAYS.
Expire(k) ==
  /\ "expire" \in mix
  /\ owner[k] # Nobody
  /\ expired' = expired \cup {k}
  /\ UNCHANGED <<mix, serving, web, users, perm, password, owner, dirty, op,
                 saver, file, lost, silent, unsaid>>

\* checkExpiredTokens: erased from the map, but the file is not reported dirty.
CheckExpiredTokens ==
  /\ serving
  /\ \E k \in expired : owner[k] # Nobody
  /\ owner' = [k \in Tokens |-> IF k \in expired THEN Nobody ELSE owner[k]]
  /\ UNCHANGED <<mix, serving, web, users, perm, password, expired, dirty,
                 op, saver, file, lost, silent, unsaid>>

SaveStep(pc, xml) == saver' = [pc |-> pc, xml |-> xml]

\* save, called by minuteTimer, or by the application while the server is not
\* running: returns at once unless isDirty, which it clears before anything else.
SaveBegin ==
  /\ saver.pc = "idle"
  /\ dirty
  /\ dirty' = FALSE
  /\ SaveStep("web", Empty)
  /\ UNCHANGED <<mix, serving, web, users, perm, password, owner, expired,
                 op, file, lost, silent, unsaid>>

SaveWeb ==
  /\ saver.pc = "web"
  /\ SaveStep("users", [saver.xml EXCEPT !.web = web])
  /\ silent' = FALSE
  /\ UNCHANGED <<mix, serving, web, users, perm, password, owner, expired,
                 dirty, op, file, lost, unsaid>>

\* on(SaveSettings) reads the accounts under a first read lock ...
SaveUsers ==
  /\ saver.pc = "users"
  /\ SaveStep("tokens", [saver.xml EXCEPT !.users = UsersImage, !.passwords = PasswordsImage])
  /\ unsaid' = {}
  /\ UNCHANGED <<mix, serving, web, users, perm, password, owner, expired, dirty, op, file,
                 lost, silent>>

\* ... and the tokens under a second one.
SaveTokens ==
  /\ saver.pc = "tokens"
  /\ SaveStep("write", [saver.xml EXCEPT !.tokens = TokensImage])
  /\ UNCHANGED <<mix, serving, web, users, perm, password, owner, expired,
                 dirty, op, file, lost, silent, unsaid>>

\* Mutant: isDirty is cleared when the file has been written.
WriteFileClears ==
  /\ saver.pc = "write"
  /\ SaveStep("idle", Empty)
  /\ file' = saver.xml /\ lost' = FALSE
  /\ dirty' = FALSE
  /\ UNCHANGED <<mix, serving, web, users, perm, password, owner, expired,
                 op, silent, unsaid>>

\* saveSettingFile replaces the file or fails; a failure is logged and isDirty
\* stays cleared.
WriteFile ==
  /\ saver.pc = "write"
  /\ SaveStep("idle", Empty)
  /\ \/ file' = saver.xml /\ lost' = FALSE
     \/ UNCHANGED file /\ lost' = TRUE
  /\ UNCHANGED <<mix, serving, web, users, perm, password, owner, expired,
                 dirty, op, silent, unsaid>>

\* start: refuses to run without any account.
Start ==
  /\ ~serving
  /\ \E n \in Names : users[n] # Nobody
  /\ serving' = TRUE
  /\ UNCHANGED <<mix, web, users, perm, password, owner, expired, dirty, op,
                 saver, file, lost, silent, unsaid>>

\* stop: joins the threads that handle requests and run the timers.  It does
\* not save.
Stop ==
  /\ serving
  /\ \A t \in Threads : op[t].pc = "idle"
  /\ saver.pc = "idle"
  /\ serving' = FALSE
  /\ UNCHANGED <<mix, web, users, perm, password, owner, expired, dirty, op,
                 saver, file, lost, silent, unsaid>>

\* The process ends, anywhere, and the next one loads the file.
Restart ==
  /\ serving' = FALSE
  /\ web' = file.web
  /\ users' = LoadedUsers
  /\ perm' = [a \in Accounts |->
                IF LoadedUsers[NameOf[a]] = a THEN LoadedPerm(file.users[NameOf[a]]) ELSE "admin"]
  /\ password' = [a \in Accounts |->
                    IF LoadedUsers[NameOf[a]] = a THEN file.passwords[NameOf[a]] ELSE AnyPassword]
  /\ unsaid' = {}
  /\ owner' = LoadedTokens
  /\ dirty' = FALSE
  /\ op' = [t \in Threads |-> Idle]
  /\ saver' = [pc |-> "idle", xml |-> Empty]
  /\ lost' = FALSE
  /\ silent' = FALSE
  /\ UNCHANGED <<mix, expired, file>>

Request(t) ==
  \/ \E a \in Accounts : \/ \E p \in Perms, w \in Passwords : AddUser(t, a, p, w)
                         \/ \E w \in Passwords : UpdateUser(t, a, w)
                         \/ RemoveUser(t, a)
                         \/ Login(t, a)
  \/ \E k \in Tokens : UseToken(t, k)
  \/ \E v \in Values : SetValues(t, v)

\* A request that has begun is carried on by its thread.
Continue(t) ==
  \/ Emplace(t) \/ ParsePermissions(t) \/ FillPermissions(t) \/ ListTokens(t)
  \/ EraseTokens(t) \/ Unregister(t) \/ SetDirty(t)
  \/ \E p \in Perms : ClearPermissions(t, p)
  \/ \E k \in Tokens : IssueToken(t, k)

Save == SaveBegin \/ SaveWeb \/ SaveUsers \/ SaveTokens \/ WriteFile

Next == \/ \E t \in Threads : Request(t) \/ Continue(t)
        \/ ResetValues
        \/ \E k \in Tokens : Expire(k)
        \/ CheckExpiredTokens
        \/ Save
        \/ Start
        \/ Stop
        \/ Restart

\* minuteTimer keeps calling save while the server runs, and a thread finishes
\* the request it handles.
Fairness == /\ \A t \in Threads : WF_vars(Continue(t))
            /\ WF_vars(serving /\ Save)

Spec == Init /\ [][Next]_vars
FairSpec == Spec /\ Fairness

-----------------------------------------------------------------------------
\* A request has changed the accounts or the tokens and will still call setDirty.
ReportsUsers(t)  == \/ op[t].pc \in {"fill", "due"}
                    \/ op[t].pc \in {"list", "erase", "dirty"} /\ op[t].then = "due"
ReportsTokens(t) == op[t].pc \in {"dirty", "due"}

\* Accounts whose password was set by a request that has failed or still may.
Unreported == unsaid \cup {a \in Accounts : \E t \in Threads : op[t].pc = "parse" /\ op[t].acct = a}

\* The copy holds the account as it is, or as it was before a restart loaded it.
SameUser(copied, held) == copied = held \/ (held # Absent /\ held = LoadedPerm(copied))
SameUsers(copy)  == \A n \in Names :
                      /\ SameUser(copy.users[n], UsersImage[n])
                      /\ copy.passwords[n] = PasswordsImage[n] \/ users[n] \in Unreported
SameTokens(copy) == \A k \in Tokens \ expired :
                      \/ copy[k] = TokensImage[k]
                      \/ TokensImage[k] = Absent /\ copy[k] # Absent /\ users[copy[k]] = Nobody

(* What the settings file, or the tree that is about to replace it, lacks  *)
(* of the accounts in memory is not forgotten: isDirty is set, or the      *)
(* request that made the change has yet to set it, or the last write       *)
(* failed.  The exception is a password set by a request that then fails:  *)
(* it is valid at once, but saved only when something else is.             *)
AccountsAreDue ==
  /\ saver.pc \in {"tokens", "write"}
       => dirty \/ (\E t \in Threads : ReportsUsers(t)) \/ SameUsers(saver.xml)
  /\ saver.pc = "idle"
       => dirty \/ lost \/ (\E t \in Threads : ReportsUsers(t)) \/ SameUsers(file)

(* The same of the refresh tokens, except those that have expired and      *)
(* those of an account that a torn save or its removal left without a user.*)
TokensAreDue ==
  /\ saver.pc = "write"
       => dirty \/ (\E t \in Threads : ReportsTokens(t)) \/ SameTokens(saver.xml.tokens)
  /\ saver.pc = "idle"
       => dirty \/ lost \/ (\E t \in Threads : ReportsTokens(t)) \/ SameTokens(file.tokens)

(* And of the settings, but for two requests: a reset and a request with a *)
(* key that does not exist change settings that are saved only when        *)
(* something else calls setDirty.                                          *)
SettingsAreDue ==
  LET reported == dirty \/ silent \/ \E t \in Threads : op[t].pc = "due" IN
  /\ saver.pc \in {"users", "tokens", "write"} => reported \/ web = saver.xml.web
  /\ saver.pc = "idle" => reported \/ lost \/ web = file.web

(* A refresh token that was exchanged or revoked does not stay valid in    *)
(* the file: as long as the server runs and writes succeed, it is removed  *)
(* from the file, so that a restart does not bring it back.                *)
SpentTokenLeavesFile ==
  \A k \in Tokens :
    (serving /\ owner[k] = Nobody /\ file.tokens[k] # Absent)
      ~> (file.tokens[k] = Absent \/ k \in expired \/ lost \/ ~serving)

(* "Set as admin mainly for compatibility with old accounts if no          *)
(* permissions were found" (WebUserManager.cpp:340): nobody becomes an     *)
(* administrator but through a request, or from a file that says so.       *)
IsAdmin(n) == users[n] # Nobody /\ perm[users[n]] = "admin"
AdminIsGranted ==
  [][\A n \in Names : IsAdmin(n)' =>
       \/ IsAdmin(n) \/ file.users[n] = "admin"
       \/ \E t \in Threads : op[t].pc \in {"add", "fill"} /\ op[t].acct = users'[n]]_vars
=============================================================================
