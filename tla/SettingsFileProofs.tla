------------------------- MODULE SettingsFileProofs -------------------------
(***************************************************************************)
(* Theorems about SettingsFile, for any sets of names, accounts, tokens    *)
(* and threads and any mix of requests: what memory has and the file lacks *)
(* is always about to be written, or one of the named reasons applies.     *)
(***************************************************************************)
EXTENDS SettingsFile, TLAPS

\* The account that is loaded for a name carries it.
LEMMA LoadedUserNamed ==
  ASSUME NEW n \in Names
  PROVE  LoadedUser(n) \in Accounts /\ NameOf[LoadedUser(n)] = n
BY SettingsAssumption DEF LoadedUser

\* What a restart loads has the types of the maps.
LEMMA LoadedTyped ==
  ASSUME TypeOK
  PROVE  /\ LoadedUsers \in [Names -> Accounts \cup {Nobody}]
         /\ LoadedTokens \in [Tokens -> Accounts \cup {Nobody}]
<1>1. LoadedUsers \in [Names -> Accounts \cup {Nobody}]
  BY LoadedUserNamed DEF LoadedUsers
<1>2. \A k \in Tokens : file.tokens[k] \in Names \cup {Absent}
  BY DEF TypeOK, Tree
<1>3. QED
  BY <1>1, <1>2 DEF LoadedTokens

\* What save() puts in the tree has the types of the tree.
LEMMA ImagesTyped ==
  ASSUME TypeOK
  PROVE  /\ UsersImage \in [Names -> Perms \cup {Absent}]
         /\ PasswordsImage \in [Names -> Passwords \cup {Absent}]
         /\ TokensImage \in [Tokens -> Names \cup {Absent}]
BY SettingsAssumption DEF TypeOK, UsersImage, PasswordsImage, TokensImage

-----------------------------------------------------------------------------
(* What requests know: a registered account carries the name it is         *)
(* registered under, a request in progress acts on an account, a change    *)
(* of permissions is reported right after the tokens are removed, and an   *)
(* account is saved with its password.                                     *)
ActsOnAccount(r) ==
  \/ r.pc \in {"add", "parse", "fill", "list", "erase", "issue", "unregister"}
  \/ r.pc = "dirty" /\ r.then # "due"
Named == \A n \in Names : users[n] # Nobody => NameOf[users[n]] = n
Acts  == \A t \in Threads : /\ ActsOnAccount(op[t]) => op[t].acct \in Accounts
                            /\ op[t].pc \in {"parse", "fill"} => op[t].then = "due"
Paired == \A tree \in {file, saver.xml}, n \in Names :
            tree.users[n] = Absent <=> tree.passwords[n] = Absent
Known == Named /\ Acts /\ Paired

\* The variables of SettingsFile keep their types.
LEMMA TypeInit == Init => TypeOK
<1> SUFFICES ASSUME Init PROVE TypeOK
  OBVIOUS
<1>1. file \in Tree /\ Empty \in Tree /\ AnyPassword \in Passwords
  BY SettingsAssumption DEF Init, Tree, Empty, Perms, AnyPassword
<1>2. LoadedUsers \in [Names -> Accounts \cup {Nobody}]
  BY LoadedUserNamed DEF LoadedUsers
<1>3. LoadedTokens \in [Tokens -> Accounts \cup {Nobody}]
  BY <1>1, <1>2 DEF LoadedTokens, Tree
<1>4. op \in [Threads -> Op]
  BY DEF Init, Idle, Op, Perms
<1>5. saver \in [pc : {"idle", "web", "users", "tokens", "write"}, xml : Tree]
  BY <1>1 DEF Init
<1>6. QED
  BY <1>1, <1>2, <1>3, <1>4, <1>5, SettingsAssumption DEF Init, TypeOK, Perms

LEMMA TypeStep == TypeOK /\ Known /\ [Next]_vars => TypeOK'
<1> SUFFICES ASSUME TypeOK, Known, [Next]_vars PROVE TypeOK'
  OBVIOUS
<1> USE DEF TypeOK
<1>1. Idle \in Op
  BY DEF Idle, Op, Perms
<1>2. ASSUME NEW t \in Threads, Request(t) PROVE TypeOK'
  <2>1. ASSUME NEW a \in Accounts, NEW p \in Perms, NEW w \in Passwords, AddUser(t, a, p, w)
        PROVE  TypeOK'
    BY <2>1 DEF AddUser, Begin, Op, Idle, Perms
  <2>2. ASSUME NEW a \in Accounts, NEW w \in Passwords, UpdateUser(t, a, w) PROVE TypeOK'
    BY <2>2 DEF UpdateUser, Begin, Op, Idle, Perms
  <2>3. ASSUME NEW a \in Accounts, RemoveUser(t, a) PROVE TypeOK'
    BY <2>3 DEF RemoveUser, Begin, Op, Idle, Perms
  <2>4. ASSUME NEW a \in Accounts, Login(t, a) PROVE TypeOK'
    BY <2>4 DEF Login, Begin, Op, Idle, Perms
  <2>5. ASSUME NEW k \in Tokens, UseToken(t, k) PROVE TypeOK'
    BY <2>5 DEF UseToken, Begin, Op, Idle, Perms
  <2>6. ASSUME NEW v \in Values, SetValues(t, v) PROVE TypeOK'
    <3>1. [Idle EXCEPT !.pc = "due"] \in Op
      BY DEF Op, Idle, Perms
    <3>2. op' \in [Threads -> Op] /\ silent' \in BOOLEAN
      BY <2>6, <3>1 DEF SetValues, Begin
    <3>3. QED
      BY <2>6, <3>2 DEF SetValues
  <2>7. QED
    BY <1>2, <2>1, <2>2, <2>3, <2>4, <2>5, <2>6 DEF Request
<1>3. ASSUME NEW t \in Threads, Continue(t) PROVE TypeOK'
  <2>10. ASSUME Updated(t) PROVE op' \in [Threads -> Op]
    <3>1. PICK pc \in {"due", "list"} :
            op' = [op EXCEPT ![t] = [@ EXCEPT !.pc = pc, !.perm = "none"]]
      BY <2>10 DEF Updated
    <3>2. [op[t] EXCEPT !.pc = pc, !.perm = "none"] \in Op
      BY DEF Op, Perms
    <3>3. QED
      BY <3>1, <3>2
  <2>11. CASE ParsePermissions(t)
    <3>1. op' \in [Threads -> Op]
      BY <1>1, <2>10, <2>11 DEF ParsePermissions, Begin
    <3>2. op[t].acct \in Accounts
      BY <2>11 DEF ParsePermissions, Known, Acts, ActsOnAccount
    <3>3. unsaid' \in SUBSET Accounts
      BY <2>11, <3>2 DEF ParsePermissions
    <3>4. QED
      BY <2>11, <3>1, <3>3 DEF ParsePermissions
  <2>12. ASSUME NEW p \in Perms, ClearPermissions(t, p) PROVE TypeOK'
    <3>1. [op[t] EXCEPT !.pc = "fill", !.perm = p] \in Op
      BY DEF Op
    <3>2. op' \in [Threads -> Op]
      BY <2>12, <3>1 DEF ClearPermissions
    <3>3. perm' \in [Accounts -> Perms]
      BY <2>12 DEF ClearPermissions, Perms
    <3>4. QED
      BY <2>12, <3>2, <3>3 DEF ClearPermissions
  <2>1. CASE Emplace(t)
    BY <2>1 DEF Emplace, Goto, Op
  <2>2. CASE FillPermissions(t)
    <3>1. op[t].perm \in Perms
      BY DEF Op
    <3>2. op' \in [Threads -> Op]
      BY <2>2, <2>10 DEF FillPermissions
    <3>3. QED
      BY <2>2, <3>1, <3>2 DEF FillPermissions
  <2>3. CASE ListTokens(t)
    <3>1. {k \in Tokens : owner[k] = op[t].acct} \in SUBSET Tokens
      OBVIOUS
    <3>2. op' \in [Threads -> Op]
      BY <2>3, <3>1 DEF ListTokens, Op
    <3>3. QED
      BY <2>3, <3>2 DEF ListTokens
  <2>4. CASE EraseTokens(t)
    BY <2>4 DEF EraseTokens, Goto, Op
  <2>5. CASE Unregister(t)
    BY <2>5 DEF Unregister, Goto, Op
  <2>6. CASE SetDirty(t)
    BY <2>6, <1>1 DEF SetDirty, Op
  <2>7. ASSUME NEW k \in Tokens, IssueToken(t, k) PROVE TypeOK'
    <3>1. op' \in [Threads -> Op]
      BY <2>7 DEF IssueToken, Op
    <3>2. owner' \in [Tokens -> Accounts \cup {Nobody}]
      BY <2>7 DEF IssueToken, Op
    <3>3. QED
      BY <2>7, <3>1, <3>2 DEF IssueToken
  <2>8. QED
    BY <1>3, <2>1, <2>2, <2>3, <2>4, <2>5, <2>6, <2>7, <2>11, <2>12 DEF Continue
<1>4. CASE ResetValues
  BY <1>4, SettingsAssumption DEF ResetValues
<1>5. ASSUME NEW k \in Tokens, Expire(k) PROVE TypeOK'
  BY <1>5 DEF Expire
<1>6. CASE CheckExpiredTokens
  BY <1>6 DEF CheckExpiredTokens
<1>7. CASE Save
  <2>1. Empty \in Tree
    BY SettingsAssumption DEF Empty, Tree
  <2>2. CASE SaveBegin
    BY <2>1, <2>2 DEF SaveBegin, SaveStep
  <2>3. CASE SaveWeb
    BY <2>3 DEF SaveWeb, SaveStep, Tree
  <2>4. CASE SaveUsers
    BY <2>4, ImagesTyped DEF SaveUsers, SaveStep, Tree
  <2>5. CASE SaveTokens
    BY <2>5, ImagesTyped DEF SaveTokens, SaveStep, Tree
  <2>6. CASE WriteFile
    BY <2>1, <2>6 DEF WriteFile, SaveStep
  <2>7. QED
    BY <1>7, <2>2, <2>3, <2>4, <2>5, <2>6 DEF Save
<1>8. CASE Start
  BY <1>8 DEF Start
<1>9. CASE Stop
  BY <1>9 DEF Stop
<1>10. CASE Restart
  <2>1. Empty \in Tree
    BY SettingsAssumption DEF Empty, Tree
  <2>2. perm' \in [Accounts -> Perms]
    BY <1>10, SettingsAssumption, LoadedUserNamed
       DEF Restart, LoadedPerm, LoadedUsers, Tree, Perms
  <2>3. password' \in [Accounts -> Passwords]
    <3>1. AnyPassword \in Passwords
      BY SettingsAssumption DEF AnyPassword
    <3>2. ASSUME NEW a \in Accounts, LoadedUsers[NameOf[a]] = a
          PROVE  file.passwords[NameOf[a]] \in Passwords
      <4>1. NameOf[a] \in Names /\ file.users[NameOf[a]] # Absent
        BY <3>2, SettingsAssumption DEF LoadedUsers
      <4>2. file.passwords[NameOf[a]] # Absent
        BY <4>1 DEF Known, Paired
      <4>3. QED
        BY <4>1, <4>2 DEF Tree
    <3>3. QED
      BY <1>10, <3>1, <3>2 DEF Restart
  <2>4. QED
    BY <1>10, <1>1, <2>1, <2>2, <2>3, LoadedTyped DEF Restart, Tree
<1>11. CASE UNCHANGED vars
  BY <1>11 DEF vars
<1>12. QED
  BY <1>2, <1>3, <1>4, <1>5, <1>6, <1>7, <1>8, <1>9, <1>10, <1>11 DEF Next

-----------------------------------------------------------------------------
LEMMA KnownInit == Init => Known
<1> SUFFICES ASSUME Init PROVE Known
  OBVIOUS
<1>1. Named /\ Acts
  BY LoadedUserNamed DEF Init, Named, Acts, ActsOnAccount, Idle, LoadedUsers
<1>2. AnyPassword # Absent
  BY SettingsAssumption DEF AnyPassword
<1>3. Paired
  BY <1>2 DEF Init, Paired, Empty
<1>4. QED
  BY <1>1, <1>3 DEF Known

\* A step that leaves the users alone and every thread but t.
LEMMA OtherThreadsAct ==
  ASSUME TypeOK, Acts, NEW t \in Threads, NEW r \in Op,
         op' = [op EXCEPT ![t] = r],
         ActsOnAccount(r) => r.acct \in Accounts,
         r.pc \in {"parse", "fill"} => r.then = "due"
  PROVE  Acts'
BY DEF TypeOK, Acts, ActsOnAccount, Op

LEMMA NamedStep == TypeOK /\ Named /\ Acts /\ [Next]_vars => (Named /\ Acts)'
<1> SUFFICES ASSUME TypeOK, Named, Acts, [Next]_vars PROVE (Named /\ Acts)'
  OBVIOUS
<1>1. Idle \in Op /\ Nobody \notin Accounts
  BY SettingsAssumption DEF Idle, Op, Perms
<1>2. ASSUME NEW t \in Threads, Request(t) PROVE (Named /\ Acts)'
  <2>1. ASSUME NEW a \in Accounts, NEW p \in Perms, NEW w \in Passwords, AddUser(t, a, p, w)
        PROVE  (Named /\ Acts)'
    BY <2>1, OtherThreadsAct DEF AddUser, Begin, Op, Idle, ActsOnAccount, Named, Perms
  <2>2. ASSUME NEW a \in Accounts, NEW w \in Passwords, UpdateUser(t, a, w)
        PROVE  (Named /\ Acts)'
    BY <2>2, OtherThreadsAct DEF UpdateUser, Begin, Op, Idle, ActsOnAccount, Named, Perms
  <2>3. ASSUME NEW a \in Accounts, RemoveUser(t, a) PROVE (Named /\ Acts)'
    BY <2>3, OtherThreadsAct DEF RemoveUser, Begin, Op, Idle, ActsOnAccount, Named, Perms
  <2>4. ASSUME NEW a \in Accounts, Login(t, a) PROVE (Named /\ Acts)'
    BY <2>4, OtherThreadsAct DEF Login, Begin, Op, Idle, ActsOnAccount, Named, Perms
  <2>5. ASSUME NEW k \in Tokens, UseToken(t, k) PROVE (Named /\ Acts)'
    <3>1. owner[k] \in Accounts
      BY <2>5 DEF UseToken, TypeOK
    <3>2. QED
      BY <2>5, <3>1, OtherThreadsAct DEF UseToken, Begin, Op, Idle, ActsOnAccount, Named, Perms
  <2>6. ASSUME NEW v \in Values, SetValues(t, v) PROVE (Named /\ Acts)'
    <3>1. [Idle EXCEPT !.pc = "due"] \in Op /\ ~ActsOnAccount([Idle EXCEPT !.pc = "due"])
      BY DEF Idle, Op, Perms, ActsOnAccount
    <3>2. CASE op' = [op EXCEPT ![t] = [Idle EXCEPT !.pc = "due"]]
      BY <2>6, <3>1, <3>2, OtherThreadsAct DEF SetValues, Named, Idle
    <3>3. CASE UNCHANGED op
      BY <2>6, <3>3 DEF SetValues, Named, Acts
    <3>4. QED
      BY <2>6, <3>2, <3>3 DEF SetValues, Begin
  <2>7. QED
    BY <1>2, <2>1, <2>2, <2>3, <2>4, <2>5, <2>6 DEF Request
<1>3. ASSUME NEW t \in Threads, Continue(t) PROVE (Named /\ Acts)'
  <2>1. CASE Emplace(t)
    <3>1. op[t].acct \in Accounts
      BY <2>1 DEF Emplace, Acts, ActsOnAccount
    <3>2. Named'
      BY <2>1, <3>1, <1>1 DEF Emplace, Named, TypeOK
    <3>3. Acts'
      BY <2>1 DEF Emplace, Goto, Acts, ActsOnAccount, TypeOK, Op
    <3>4. QED
      BY <3>2, <3>3
  <2>10. ASSUME Updated(t), op[t].pc \in {"parse", "fill"} PROVE Acts'
    <3>1. PICK pc \in {"due", "list"} :
            op' = [op EXCEPT ![t] = [@ EXCEPT !.pc = pc, !.perm = "none"]]
      BY <2>10 DEF Updated
    <3>2. QED
      BY <2>10, <3>1 DEF Acts, ActsOnAccount, TypeOK, Op
  <2>2. CASE FillPermissions(t)
    BY <2>2, <2>10 DEF FillPermissions, Named
  <2>11. CASE ParsePermissions(t)
    <3>1. CASE Updated(t)
      BY <2>11, <2>10, <3>1 DEF ParsePermissions, Named
    <3>2. CASE Begin(t, Idle)
      BY <2>11, <3>2, <1>1, OtherThreadsAct DEF ParsePermissions, Begin, Idle, ActsOnAccount, Named
    <3>3. QED
      BY <2>11, <3>1, <3>2 DEF ParsePermissions
  <2>12. ASSUME NEW p \in Perms, ClearPermissions(t, p) PROVE (Named /\ Acts)'
    <3>1. Acts'
      BY <2>12 DEF ClearPermissions, Acts, ActsOnAccount, TypeOK, Op
    <3>2. QED
      BY <2>12, <3>1 DEF ClearPermissions, Named
  <2>3. CASE ListTokens(t)
    BY <2>3 DEF ListTokens, Named, Acts, ActsOnAccount, TypeOK, Op
  <2>4. CASE EraseTokens(t)
    BY <2>4 DEF EraseTokens, Goto, Named, Acts, ActsOnAccount, TypeOK, Op
  <2>5. CASE Unregister(t)
    BY <2>5 DEF Unregister, Goto, Named, Acts, ActsOnAccount, TypeOK, Op
  <2>6. CASE SetDirty(t)
    <3>1. op[t].pc = "due" \/ (op[t].pc = "dirty" /\ op[t].then \in {"due", "issue", "unregister"})
      BY <2>6 DEF SetDirty, TypeOK, Op
    <3>2. Acts'
      BY <2>6, <3>1 DEF SetDirty, Idle, Acts, ActsOnAccount, TypeOK, Op
    <3>3. QED
      BY <2>6, <3>2 DEF SetDirty, Named
  <2>7. ASSUME NEW k \in Tokens, IssueToken(t, k) PROVE (Named /\ Acts)'
    BY <2>7 DEF IssueToken, Named, Acts, ActsOnAccount, TypeOK, Op
  <2>8. QED
    BY <1>3, <2>1, <2>2, <2>3, <2>4, <2>5, <2>6, <2>7, <2>11, <2>12 DEF Continue
<1>4. CASE Restart
  BY <1>4, LoadedUserNamed DEF Restart, Named, Acts, ActsOnAccount, Idle, LoadedUsers
<1>5. CASE \/ ResetValues \/ CheckExpiredTokens \/ Save \/ Start \/ Stop \/ UNCHANGED vars
           \/ \E k \in Tokens : Expire(k)
  <2>1. UNCHANGED <<users, op>>
    BY <1>5 DEF ResetValues, CheckExpiredTokens, Save, SaveBegin, SaveWeb, SaveUsers, SaveTokens,
                WriteFile, Start, Stop, vars, Expire
  <2>2. QED
    BY <2>1 DEF Named, Acts
<1>6. QED
  BY <1>2, <1>3, <1>4, <1>5 DEF Next

\* Only save() makes a tree, only a write replaces the file.
LEMMA PairedStep == TypeOK /\ Paired /\ [Next]_vars => Paired'
<1> SUFFICES ASSUME TypeOK, Paired, [Next]_vars PROVE Paired'
  OBVIOUS
<1>1. CASE SaveBegin
  BY <1>1 DEF SaveBegin, SaveStep, Empty, Paired
<1>2. CASE SaveWeb \/ SaveTokens
  <2>1. /\ saver'.xml.users = saver.xml.users /\ saver'.xml.passwords = saver.xml.passwords
        /\ UNCHANGED file
    BY <1>2 DEF SaveWeb, SaveTokens, SaveStep, TypeOK, Tree
  <2>2. QED
    BY <2>1 DEF Paired
<1>3. CASE SaveUsers
  <2>1. saver'.xml.users = UsersImage /\ saver'.xml.passwords = PasswordsImage /\ UNCHANGED file
    BY <1>3 DEF SaveUsers, SaveStep, TypeOK, Tree
  <2>2. \A n \in Names : UsersImage[n] = Absent <=> PasswordsImage[n] = Absent
    BY SettingsAssumption DEF UsersImage, PasswordsImage, TypeOK
  <2>3. QED
    BY <2>1, <2>2 DEF Paired
<1>4. CASE WriteFile
  BY <1>4 DEF WriteFile, SaveStep, Empty, Paired
<1>5. CASE Restart
  BY <1>5 DEF Restart, Empty, Paired
<1>6. ASSUME UNCHANGED <<saver, file>> PROVE Paired'
  BY <1>6 DEF Paired
<1>7. ASSUME NEW t \in Threads, Request(t) \/ Continue(t) PROVE UNCHANGED <<saver, file>>
  BY <1>7 DEF Request, AddUser, UpdateUser, RemoveUser, Login, UseToken, SetValues,
              Continue, Emplace, ParsePermissions, ClearPermissions, FillPermissions, ListTokens,
              EraseTokens, Unregister, SetDirty, IssueToken
<1>8. CASE \/ ResetValues \/ CheckExpiredTokens \/ Start \/ Stop \/ UNCHANGED vars
           \/ \E k \in Tokens : Expire(k)
  BY <1>6, <1>8 DEF ResetValues, CheckExpiredTokens, Start, Stop, vars, Expire
<1>9. QED
  BY <1>1, <1>2, <1>3, <1>4, <1>5, <1>6, <1>7, <1>8 DEF Next, Save

LEMMA KnownStep == TypeOK /\ Known /\ [Next]_vars => Known'
BY NamedStep, PairedStep DEF Known

THEOREM TypeCorrect == Spec => []TypeOK
<1>1. Init => TypeOK /\ Known
  BY TypeInit, KnownInit
<1>2. TypeOK /\ Known /\ [Next]_vars => (TypeOK /\ Known)'
  BY TypeStep, KnownStep
<1>3. QED
  BY <1>1, <1>2, PTL DEF Spec

-----------------------------------------------------------------------------
\* A step that leaves the accounts as they are, but for passwords of requests
\* that may fail.
SameAccounts ==
  /\ users' = users /\ UsersImage' = UsersImage
  /\ \A n \in Names : \/ PasswordsImage'[n] = PasswordsImage[n]
                       \/ users[n] \in Unreported'
  /\ \A n \in Names : users[n] \in Unreported => users[n] \in Unreported'

\* A step that is or stays reported, or that leaves the accounts as they are.
LEMMA AccountsStayDue ==
  ASSUME AccountsAreDue, UNCHANGED <<saver, file, lost>>,
         \/ dirty' \/ \E t \in Threads : ReportsUsers(t)'
         \/ /\ SameAccounts
            /\ dirty => dirty'
            /\ \A t \in Threads : ReportsUsers(t) => ReportsUsers(t)'
  PROVE  AccountsAreDue'
<1> DEFINE reported == dirty \/ \E t \in Threads : ReportsUsers(t)
<1>1. CASE reported'
  BY <1>1 DEF AccountsAreDue
<1>2. CASE ~reported'
  <2>1. SameAccounts /\ ~reported
    BY <1>2
  <2>2. SameUsers(saver.xml) => SameUsers(saver.xml)'
    BY <2>1 DEF SameUsers, SameAccounts
  <2>3. SameUsers(file) => SameUsers(file)'
    BY <2>1 DEF SameUsers, SameAccounts
  <2>4. QED
    BY <2>1, <2>2, <2>3 DEF AccountsAreDue
<1>3. QED
  BY <1>1, <1>2

\* The accounts a restart loads are those of the file.
LEMMA LoadedAccountsSame ==
  ASSUME TypeOK, file' = file, users' = LoadedUsers, Paired,
         password' = [a \in Accounts |->
                        IF LoadedUsers[NameOf[a]] = a THEN file.passwords[NameOf[a]]
                                                      ELSE AnyPassword],
         perm' = [a \in Accounts |->
                    IF LoadedUsers[NameOf[a]] = a THEN LoadedPerm(file.users[NameOf[a]])
                                                  ELSE "admin"]
  PROVE  SameUsers(file)'
<1> SUFFICES ASSUME NEW n \in Names
             PROVE  /\ SameUser(file.users[n], UsersImage'[n])
                    /\ file.passwords[n] = PasswordsImage'[n]
  BY DEF SameUsers, SameUser, LoadedPerm
<1>1. file.users[n] \in Perms \cup {Absent}
  BY DEF TypeOK, Tree
<1>2. CASE file.users[n] = Absent
  BY <1>2 DEF UsersImage, PasswordsImage, LoadedUsers, SameUser, Paired
<1>3. CASE file.users[n] # Absent
  <2>1. users'[n] = LoadedUser(n) /\ users'[n] \in Accounts /\ NameOf[users'[n]] = n
    BY <1>3, LoadedUserNamed DEF LoadedUsers
  <2>2. perm'[users'[n]] = LoadedPerm(file.users[n])
    BY <2>1
  <2>3. UsersImage'[n] = LoadedPerm(file.users[n])
    BY <2>1, <2>2, SettingsAssumption DEF UsersImage
  <2>4. SameUser(file.users[n], UsersImage'[n])
    BY <1>1, <1>3, <2>3, SettingsAssumption DEF SameUser, LoadedPerm, Perms
  <2>5. LoadedUsers[n] = users'[n]
    OBVIOUS
  <2>6. password'[users'[n]] = file.passwords[n]
    BY <2>1, <2>5
  <2>7. PasswordsImage'[n] = file.passwords[n]
    BY <2>1, <2>6, SettingsAssumption DEF PasswordsImage
  <2>8. QED
    BY <2>4, <2>7
<1>4. QED
  BY <1>2, <1>3

LEMMA AccountsInit == Init => AccountsAreDue
<1> SUFFICES ASSUME Init PROVE AccountsAreDue
  OBVIOUS
<1>1. PICK registered \in [Names -> {"admin", Absent}] :
        /\ file.users = registered
        /\ file.passwords = [m \in Names |-> IF registered[m] = Absent THEN Absent
                                                                   ELSE AnyPassword]
  BY DEF Init
<1>2. ASSUME NEW n \in Names PROVE SameUser(file.users[n], UsersImage[n])
  BY <1>1, LoadedUserNamed, SettingsAssumption
     DEF Init, SameUser, UsersImage, LoadedUsers, LoadedPerm, Perms
<1>6. ASSUME NEW n \in Names PROVE file.passwords[n] = PasswordsImage[n]
  BY <1>1, LoadedUserNamed, SettingsAssumption DEF Init, PasswordsImage, LoadedUsers
<1>3. SameUsers(file)
  BY <1>2, <1>6 DEF SameUsers
<1>4. saver.pc = "idle"
  BY DEF Init
<1>5. QED
  BY <1>3, <1>4 DEF AccountsAreDue

LEMMA AccountsStep ==
  ASSUME TypeOK, Known, AccountsAreDue, [Next]_vars
  PROVE  AccountsAreDue'
<1>1. ASSUME NEW t \in Threads, Request(t) PROVE AccountsAreDue'
  <2>1. ASSUME NEW a \in Accounts, NEW p \in Perms, NEW w \in Passwords, AddUser(t, a, p, w)
        PROVE  AccountsAreDue'
    <3>1. \A n \in Names : users[n] # a
      BY <2>1 DEF AddUser, Free, Registered, Known, Named
    <3>5. \A n \in Names : users[n] \in Unreported => users[n] \in Unreported'
      BY <2>1, <3>1 DEF AddUser, Begin, Idle, Unreported, TypeOK
    <3>2. SameAccounts
      BY <2>1, <3>1, <3>5 DEF AddUser, SameAccounts, UsersImage, PasswordsImage, TypeOK
    <3>3. \A s \in Threads : ReportsUsers(s) => ReportsUsers(s)'
      BY <2>1 DEF AddUser, Begin, Idle, ReportsUsers, TypeOK
    <3>4. QED
      BY <2>1, <3>2, <3>3, AccountsStayDue DEF AddUser
  <2>2. ASSUME NEW a \in Accounts, NEW w \in Passwords, UpdateUser(t, a, w)
        PROVE  AccountsAreDue'
    <3>1. op[t].pc = "idle" /\ op'[t].pc = "parse" /\ op'[t].acct = a
          /\ \A s \in Threads \ {t} : op'[s] = op[s]
      BY <2>2 DEF UpdateUser, Begin, Idle, TypeOK
    <3>2. Unreported \subseteq Unreported' /\ a \in Unreported'
      BY <2>2, <3>1 DEF UpdateUser, Unreported
    <3>3. SameAccounts
      BY <2>2, <3>2 DEF UpdateUser, SameAccounts, UsersImage, PasswordsImage, TypeOK
    <3>4. \A s \in Threads : ReportsUsers(s) => ReportsUsers(s)'
      BY <3>1 DEF ReportsUsers
    <3>5. QED
      BY <2>2, <3>3, <3>4, AccountsStayDue DEF UpdateUser
  <2>3. ASSUME UNCHANGED <<users, perm, password, unsaid, saver, file, lost>>,
               op[t].pc = "idle", dirty => dirty', \A s \in Threads \ {t} : op'[s] = op[s]
        PROVE  AccountsAreDue'
    <3>1. SameAccounts /\ \A s \in Threads : ReportsUsers(s) => ReportsUsers(s)'
      BY <2>3 DEF SameAccounts, Unreported, UsersImage, PasswordsImage, ReportsUsers
    <3>2. QED
      BY <2>3, <3>1, AccountsStayDue
  <2>4. ASSUME NEW a \in Accounts, RemoveUser(t, a) \/ Login(t, a) PROVE AccountsAreDue'
    BY <2>3, <2>4 DEF RemoveUser, Login, Begin, TypeOK
  <2>5. ASSUME NEW k \in Tokens, UseToken(t, k) PROVE AccountsAreDue'
    BY <2>3, <2>5 DEF UseToken, Begin, TypeOK
  <2>6. ASSUME NEW v \in Values, SetValues(t, v) PROVE AccountsAreDue'
    <3>1. \A s \in Threads \ {t} : op'[s] = op[s]
      BY <2>6 DEF SetValues, Begin, TypeOK
    <3>2. QED
      BY <2>3, <2>6, <3>1 DEF SetValues
  <2>7. QED
    BY <1>1, <2>1, <2>2, <2>4, <2>5, <2>6 DEF Request
<1>2. ASSUME NEW t \in Threads, Continue(t) PROVE AccountsAreDue'
  <2>1. CASE Emplace(t)
    <3>1. ReportsUsers(t)'
      BY <2>1 DEF Emplace, Goto, ReportsUsers, TypeOK, Op
    <3>2. QED
      BY <2>1, <3>1, AccountsStayDue DEF Emplace
  <2>10. ASSUME Updated(t), op[t].pc \in {"parse", "fill"} PROVE ReportsUsers(t)'
    <3>1. PICK pc \in {"due", "list"} :
            op' = [op EXCEPT ![t] = [@ EXCEPT !.pc = pc, !.perm = "none"]]
      BY <2>10 DEF Updated
    <3>2. QED
      BY <2>10, <3>1 DEF ReportsUsers, TypeOK, Op, Known, Acts
  <2>2. CASE FillPermissions(t)
    BY <2>2, <2>10, AccountsStayDue DEF FillPermissions
  <2>11. CASE ParsePermissions(t)
    <3>1. CASE Updated(t)
      BY <2>11, <2>10, <3>1, AccountsStayDue DEF ParsePermissions
    <3>2. CASE Begin(t, Idle) /\ unsaid' = unsaid \cup {op[t].acct}
      <4>1. Unreported \subseteq Unreported'
        BY <2>11, <3>2 DEF ParsePermissions, Begin, Unreported, TypeOK
      <4>2. SameAccounts /\ \A s \in Threads : ReportsUsers(s) => ReportsUsers(s)'
        BY <2>11, <3>2, <4>1 DEF ParsePermissions, Begin, SameAccounts, UsersImage, PasswordsImage,
                                 ReportsUsers, TypeOK
      <4>3. QED
        BY <2>11, <4>2, AccountsStayDue DEF ParsePermissions
    <3>3. QED
      BY <2>11, <3>1, <3>2 DEF ParsePermissions
  <2>12. ASSUME NEW p \in Perms, ClearPermissions(t, p) PROVE AccountsAreDue'
    <3>1. ReportsUsers(t)'
      BY <2>12 DEF ClearPermissions, ReportsUsers, TypeOK, Op
    <3>2. QED
      BY <2>12, <3>1, AccountsStayDue DEF ClearPermissions
  <2>3. CASE ListTokens(t)
    <3>1. SameAccounts /\ \A s \in Threads : ReportsUsers(s) => ReportsUsers(s)'
      BY <2>3 DEF ListTokens, SameAccounts, Unreported, UsersImage, PasswordsImage, ReportsUsers,
                 TypeOK, Op
    <3>2. QED
      BY <2>3, <3>1, AccountsStayDue DEF ListTokens
  <2>4. CASE EraseTokens(t)
    <3>1. SameAccounts /\ \A s \in Threads : ReportsUsers(s) => ReportsUsers(s)'
      BY <2>4 DEF EraseTokens, Goto, SameAccounts, Unreported, UsersImage, PasswordsImage, ReportsUsers,
                 TypeOK, Op
    <3>2. QED
      BY <2>4, <3>1, AccountsStayDue DEF EraseTokens
  <2>5. CASE Unregister(t)
    <3>1. ReportsUsers(t)'
      BY <2>5 DEF Unregister, Goto, ReportsUsers, TypeOK, Op
    <3>2. QED
      BY <2>5, <3>1, AccountsStayDue DEF Unregister
  <2>6. CASE SetDirty(t)
    BY <2>6, AccountsStayDue DEF SetDirty
  <2>7. ASSUME NEW k \in Tokens, IssueToken(t, k) PROVE AccountsAreDue'
    <3>1. ReportsUsers(t)'
      BY <2>7 DEF IssueToken, ReportsUsers, TypeOK, Op
    <3>2. QED
      BY <2>7, <3>1, AccountsStayDue DEF IssueToken
  <2>8. QED
    BY <1>2, <2>1, <2>2, <2>3, <2>4, <2>5, <2>6, <2>7, <2>11, <2>12 DEF Continue
<1>3. CASE \/ ResetValues \/ CheckExpiredTokens \/ Start \/ Stop \/ UNCHANGED vars
           \/ \E k \in Tokens : Expire(k)
  <2>1. UNCHANGED <<users, perm, password, unsaid, op, saver, file, lost, dirty>>
    BY <1>3 DEF ResetValues, CheckExpiredTokens, Start, Stop, vars, Expire
  <2>2. SameAccounts /\ \A s \in Threads : ReportsUsers(s) => ReportsUsers(s)'
    BY <2>1 DEF SameAccounts, Unreported, UsersImage, PasswordsImage, ReportsUsers
  <2>3. QED
    BY <2>1, <2>2, AccountsStayDue
<1>4. CASE SaveBegin \/ SaveWeb
  BY <1>4 DEF SaveBegin, SaveWeb, SaveStep, AccountsAreDue
<1>5. CASE SaveUsers
  <2>1. /\ saver'.pc = "tokens" /\ saver'.xml.users = UsersImage /\ UsersImage' = UsersImage
        /\ saver'.xml.passwords = PasswordsImage /\ PasswordsImage' = PasswordsImage
    BY <1>5 DEF SaveUsers, SaveStep, UsersImage, PasswordsImage, TypeOK, Tree
  <2>2. SameUsers(saver.xml)'
    BY <2>1 DEF SameUsers, SameUser
  <2>3. QED
    BY <2>1, <2>2 DEF AccountsAreDue
<1>10. ASSUME UNCHANGED <<users, perm, password, unsaid, dirty, op>>
       PROVE  /\ UsersImage' = UsersImage /\ PasswordsImage' = PasswordsImage
              /\ Unreported' = Unreported
              /\ \A t \in Threads : ReportsUsers(t)' <=> ReportsUsers(t)
  BY <1>10 DEF UsersImage, PasswordsImage, Unreported, ReportsUsers
<1>6. CASE SaveTokens
  <2>1. /\ saver.pc = "tokens" /\ saver'.pc = "write" /\ saver'.xml.users = saver.xml.users
        /\ saver'.xml.passwords = saver.xml.passwords
        /\ UNCHANGED <<users, perm, password, unsaid, dirty, op, lost, file>>
    BY <1>6 DEF SaveTokens, SaveStep, TypeOK, Tree
  <2>2. SameUsers(saver.xml) => SameUsers(saver.xml)'
    BY <2>1, <1>10 DEF SameUsers, SameUser, LoadedPerm
  <2>3. QED
    BY <2>1, <2>2, <1>10 DEF AccountsAreDue
<1>7. CASE WriteFile
  <2>1. /\ saver.pc = "write" /\ saver'.pc = "idle" /\ (lost' \/ file' = saver.xml)
        /\ UNCHANGED <<users, perm, password, unsaid, dirty, op>>
    BY <1>7 DEF WriteFile, SaveStep
  <2>2. \A t \in Threads : ReportsUsers(t)' <=> ReportsUsers(t)
    BY <2>1, <1>10
  <2>3. file' = saver.xml => (SameUsers(file)' <=> SameUsers(saver.xml))
    BY <2>1, <1>10 DEF SameUsers, SameUser, LoadedPerm
  <2>4. dirty \/ (\E t \in Threads : ReportsUsers(t)) \/ SameUsers(saver.xml)
    BY <2>1 DEF AccountsAreDue
  <2>5. dirty' \/ lost' \/ (\E t \in Threads : ReportsUsers(t)') \/ SameUsers(file)'
    BY <2>1, <2>2, <2>3, <2>4
  <2>6. QED
    BY <2>1, <2>5 DEF AccountsAreDue
<1>8. CASE Restart
  <2>1. SameUsers(file)' /\ saver'.pc = "idle"
    BY <1>8, LoadedAccountsSame DEF Restart, Known
  <2>2. QED
    BY <2>1 DEF AccountsAreDue
<1>9. QED
  BY <1>1, <1>2, <1>3, <1>4, <1>5, <1>6, <1>7, <1>8 DEF Next, Save

\* For all constants: a change of the accounts that the file lacks is about to
\* be saved, or the last write failed.
THEOREM AccountsAreDueHolds == Spec => []AccountsAreDue
<1>1. Init => TypeOK /\ Known /\ AccountsAreDue
  BY TypeInit, KnownInit, AccountsInit
<1>2. TypeOK /\ Known /\ AccountsAreDue /\ [Next]_vars => (TypeOK /\ Known /\ AccountsAreDue)'
  BY TypeStep, KnownStep, AccountsStep
<1>3. QED
  BY <1>1, <1>2, PTL DEF Spec

-----------------------------------------------------------------------------
\* The same two lemmas for the tokens.
LEMMA TokensStayDue ==
  ASSUME TokensAreDue, UNCHANGED <<saver, file, lost>>,
         \/ dirty' \/ \E t \in Threads : ReportsTokens(t)'
         \/ /\ \A k \in Tokens \ expired' : TokensImage'[k] = TokensImage[k]
            /\ \A n \in Names : users[n] = Nobody => users'[n] = Nobody
            /\ expired \subseteq expired'
            /\ dirty => dirty'
            /\ \A t \in Threads : ReportsTokens(t) => ReportsTokens(t)',
         TypeOK
  PROVE  TokensAreDue'
<1> DEFINE reported == dirty \/ \E t \in Threads : ReportsTokens(t)
<1>1. CASE reported'
  BY <1>1 DEF TokensAreDue
<1>2. CASE ~reported'
  <2>1. /\ ~reported /\ expired \subseteq expired'
        /\ \A k \in Tokens \ expired' : TokensImage'[k] = TokensImage[k]
        /\ \A n \in Names : users[n] = Nobody => users'[n] = Nobody
    BY <1>2
  <2>2. ASSUME NEW copy \in [Tokens -> Names \cup {Absent}], SameTokens(copy)
        PROVE  SameTokens(copy)'
    <3> SUFFICES ASSUME NEW k \in Tokens \ expired'
                 PROVE  \/ copy[k] = TokensImage'[k]
                        \/ /\ TokensImage'[k] = Absent /\ copy[k] # Absent
                           /\ users'[copy[k]] = Nobody
      BY DEF SameTokens
    <3>1. k \in Tokens \ expired /\ copy[k] \in Names \cup {Absent}
      BY <2>1
    <3>2. QED
      BY <2>1, <2>2, <3>1 DEF SameTokens
  <2>3. saver.xml.tokens \in [Tokens -> Names \cup {Absent}]
        /\ file.tokens \in [Tokens -> Names \cup {Absent}]
    BY DEF TypeOK, Tree
  <2>4. /\ SameTokens(saver.xml.tokens) => SameTokens(saver.xml.tokens)'
        /\ SameTokens(file.tokens) => SameTokens(file.tokens)'
    BY <2>2, <2>3 DEF SameTokens
  <2>5. QED
    BY <2>1, <2>4 DEF TokensAreDue
<1>3. QED
  BY <1>1, <1>2

\* The tokens a restart loads are those of the file, but for the expired ones
\* and those whose account is gone.
LEMMA LoadedTokensSame ==
  ASSUME TypeOK, UNCHANGED <<file, expired>>, users' = LoadedUsers, owner' = LoadedTokens
  PROVE  SameTokens(file.tokens)'
<1> SUFFICES ASSUME NEW k \in Tokens \ expired
             PROVE  \/ file.tokens[k] = TokensImage'[k]
                    \/ /\ TokensImage'[k] = Absent /\ file.tokens[k] # Absent
                       /\ users'[file.tokens[k]] = Nobody
  BY DEF SameTokens
<1>1. file.tokens[k] \in Names \cup {Absent}
  BY DEF TypeOK, Tree
<1>2. CASE file.tokens[k] = Absent
  BY <1>2 DEF TokensImage, LoadedTokens
<1>3. CASE file.tokens[k] # Absent
  <2>1. owner'[k] = LoadedUsers[file.tokens[k]]
    BY <1>3 DEF LoadedTokens
  <2>2. CASE LoadedUsers[file.tokens[k]] = Nobody
    BY <1>3, <2>1, <2>2 DEF TokensImage
  <2>3. CASE LoadedUsers[file.tokens[k]] # Nobody
    BY <1>1, <1>3, <2>1, <2>3, LoadedUserNamed DEF TokensImage, LoadedUsers
  <2>4. QED
    BY <2>2, <2>3
<1>4. QED
  BY <1>2, <1>3

LEMMA TokensInit == Init => TokensAreDue
<1> SUFFICES ASSUME Init PROVE TokensAreDue
  OBVIOUS
<1>1. TypeOK
  BY TypeInit
<1>2. SameTokens(file.tokens)
  <2> SUFFICES ASSUME NEW k \in Tokens \ expired
               PROVE  \/ file.tokens[k] = TokensImage[k]
                      \/ /\ TokensImage[k] = Absent /\ file.tokens[k] # Absent
                         /\ users[file.tokens[k]] = Nobody
    BY DEF SameTokens
  <2>1. file.tokens[k] \in Names \cup {Absent} /\ owner = LoadedTokens /\ users = LoadedUsers
    BY <1>1 DEF TypeOK, Tree, Init
  <2>2. CASE file.tokens[k] = Absent
    BY <2>1, <2>2 DEF TokensImage, LoadedTokens
  <2>3. CASE file.tokens[k] # Absent
    BY <2>1, <2>3, LoadedUserNamed DEF TokensImage, LoadedTokens, LoadedUsers
  <2>4. QED
    BY <2>2, <2>3
<1>3. QED
  BY <1>2 DEF Init, TokensAreDue

LEMMA TokensStep ==
  ASSUME TypeOK, Known, TokensAreDue, [Next]_vars
  PROVE  TokensAreDue'
<1>1. ASSUME NEW t \in Threads, UNCHANGED <<users, owner, expired, saver, file, lost>>,
             op[t].pc \in {"idle", "parse", "fill", "list"}, dirty => dirty',
             \A s \in Threads \ {t} : op'[s] = op[s]
      PROVE  TokensAreDue'
  <2>1. TokensImage' = TokensImage /\ \A s \in Threads : ReportsTokens(s) => ReportsTokens(s)'
    BY <1>1 DEF TokensImage, ReportsTokens
  <2>2. QED
    BY <1>1, <2>1, TokensStayDue
<1>2. ASSUME NEW t \in Threads, Request(t) PROVE TokensAreDue'
  <2>1. ASSUME NEW a \in Accounts, NEW p \in Perms, NEW w \in Passwords,
             AddUser(t, a, p, w) \/ UpdateUser(t, a, w)
        PROVE  TokensAreDue'
    BY <1>1, <2>1 DEF AddUser, UpdateUser, Begin, TypeOK
  <2>2. ASSUME NEW a \in Accounts, RemoveUser(t, a) \/ Login(t, a) PROVE TokensAreDue'
    BY <1>1, <2>2 DEF RemoveUser, Login, Begin, TypeOK
  <2>3. ASSUME NEW k \in Tokens, UseToken(t, k) PROVE TokensAreDue'
    BY <1>1, <2>3 DEF UseToken, Begin, TypeOK
  <2>4. ASSUME NEW v \in Values, SetValues(t, v) PROVE TokensAreDue'
    <3>1. \A s \in Threads \ {t} : op'[s] = op[s]
      BY <2>4 DEF SetValues, Begin, TypeOK
    <3>2. QED
      BY <1>1, <2>4, <3>1 DEF SetValues
  <2>5. QED
    BY <1>2, <2>1, <2>2, <2>3, <2>4 DEF Request, Perms
<1>3. ASSUME NEW t \in Threads, Continue(t) PROVE TokensAreDue'
  <2>1. ASSUME UNCHANGED <<saver, file, lost>>, op'[t].pc \in {"due", "dirty"} \/ dirty'
        PROVE  TokensAreDue'
    BY <2>1, TokensStayDue DEF ReportsTokens
  <2>2. CASE Emplace(t)
    BY <2>1, <2>2 DEF Emplace, Goto, TypeOK, Op
  <2>3. CASE FillPermissions(t)
    <3>1. \A s \in Threads \ {t} : op'[s] = op[s]
      BY <2>3 DEF FillPermissions, Updated, TypeOK
    <3>2. QED
      BY <1>1, <2>3, <3>1 DEF FillPermissions
  <2>10. CASE ParsePermissions(t)
    <3>1. \A s \in Threads \ {t} : op'[s] = op[s]
      BY <2>10 DEF ParsePermissions, Updated, Begin, TypeOK
    <3>2. QED
      BY <1>1, <2>10, <3>1 DEF ParsePermissions
  <2>11. ASSUME NEW p \in Perms, ClearPermissions(t, p) PROVE TokensAreDue'
    <3>1. \A s \in Threads \ {t} : op'[s] = op[s]
      BY <2>11 DEF ClearPermissions, TypeOK
    <3>2. QED
      BY <1>1, <2>11, <3>1 DEF ClearPermissions
  <2>4. CASE ListTokens(t)
    BY <1>1, <2>4 DEF ListTokens, TypeOK
  <2>5. CASE EraseTokens(t)
    BY <2>1, <2>5 DEF EraseTokens, Goto, TypeOK, Op
  <2>6. CASE Unregister(t)
    BY <2>1, <2>6 DEF Unregister, Goto, TypeOK, Op
  <2>7. CASE SetDirty(t)
    BY <2>1, <2>7 DEF SetDirty
  <2>8. ASSUME NEW k \in Tokens, IssueToken(t, k) PROVE TokensAreDue'
    BY <2>1, <2>8 DEF IssueToken, TypeOK, Op
  <2>9. QED
    BY <1>3, <2>2, <2>3, <2>4, <2>5, <2>6, <2>7, <2>8, <2>10, <2>11 DEF Continue
<1>4. CASE \/ ResetValues \/ CheckExpiredTokens \/ Start \/ Stop \/ UNCHANGED vars
           \/ \E k \in Tokens : Expire(k)
  <2>1. UNCHANGED <<users, op, saver, file, lost, dirty>> /\ expired \subseteq expired'
    BY <1>4 DEF ResetValues, CheckExpiredTokens, Start, Stop, vars, Expire
  <2>2. \A k \in Tokens \ expired' : TokensImage'[k] = TokensImage[k]
    BY <1>4 DEF ResetValues, CheckExpiredTokens, Start, Stop, vars, Expire, TokensImage
  <2>3. \A t \in Threads : ReportsTokens(t) => ReportsTokens(t)'
    BY <2>1 DEF ReportsTokens
  <2>4. QED
    BY <2>1, <2>2, <2>3, TokensStayDue
<1>5. CASE SaveBegin \/ SaveWeb \/ SaveUsers
  BY <1>5 DEF SaveBegin, SaveWeb, SaveUsers, SaveStep, TokensAreDue
<1>6. CASE SaveTokens
  <2>1. saver'.pc = "write" /\ saver'.xml.tokens = TokensImage /\ TokensImage' = TokensImage
    BY <1>6 DEF SaveTokens, SaveStep, TokensImage, TypeOK, Tree
  <2>2. SameTokens(saver.xml.tokens)'
    BY <2>1 DEF SameTokens
  <2>3. QED
    BY <2>1, <2>2 DEF TokensAreDue
<1>7. CASE WriteFile
  <2>1. /\ saver.pc = "write" /\ saver'.pc = "idle" /\ (lost' \/ file' = saver.xml)
        /\ TokensImage' = TokensImage /\ UNCHANGED <<dirty, op, users, expired>>
    BY <1>7 DEF WriteFile, SaveStep, TokensImage
  <2>2. \A t \in Threads : ReportsTokens(t)' <=> ReportsTokens(t)
    BY <2>1 DEF ReportsTokens
  <2>3. file' = saver.xml => (SameTokens(file.tokens)' <=> SameTokens(saver.xml.tokens))
    BY <2>1 DEF SameTokens
  <2>4. dirty \/ (\E t \in Threads : ReportsTokens(t)) \/ SameTokens(saver.xml.tokens)
    BY <2>1 DEF TokensAreDue
  <2>5. dirty' \/ lost' \/ (\E t \in Threads : ReportsTokens(t)') \/ SameTokens(file.tokens)'
    BY <2>1, <2>2, <2>3, <2>4
  <2>6. QED
    BY <2>1, <2>5 DEF TokensAreDue
<1>8. CASE Restart
  <2>1. SameTokens(file.tokens)' /\ saver'.pc = "idle"
    BY <1>8, LoadedTokensSame DEF Restart
  <2>2. QED
    BY <2>1 DEF TokensAreDue
<1>9. QED
  BY <1>2, <1>3, <1>4, <1>5, <1>6, <1>7, <1>8 DEF Next, Save

\* For all constants: a token in memory that the file lacks, or one that is
\* gone and still in the file, is about to be saved, or the last write failed.
THEOREM TokensAreDueHolds == Spec => []TokensAreDue
<1>1. Init => TypeOK /\ Known /\ TokensAreDue
  BY TypeInit, KnownInit, TokensInit
<1>2. TypeOK /\ Known /\ TokensAreDue /\ [Next]_vars => (TypeOK /\ Known /\ TokensAreDue)'
  BY TypeStep, KnownStep, TokensStep
<1>3. QED
  BY <1>1, <1>2, PTL DEF Spec

-----------------------------------------------------------------------------
LEMMA SettingsInit == Init => SettingsAreDue
<1> SUFFICES ASSUME Init PROVE SettingsAreDue
  OBVIOUS
<1>1. saver.pc = "idle" /\ web = file.web
  BY DEF Init
<1>2. QED
  BY <1>1 DEF SettingsAreDue

LEMMA SettingsStep ==
  ASSUME TypeOK, SettingsAreDue, [Next]_vars
  PROVE  SettingsAreDue'
<1> DEFINE reported == dirty \/ silent \/ \E t \in Threads : op[t].pc = "due"
<1>1. ASSUME UNCHANGED <<saver, file, lost>>, reported' \/ (web' = web /\ (reported => reported'))
      PROVE  SettingsAreDue'
  BY <1>1 DEF SettingsAreDue
<1>2. ASSUME NEW t \in Threads, op[t].pc # "due", \A s \in Threads \ {t} : op'[s] = op[s],
             dirty => dirty', silent => silent'
      PROVE  reported => reported'
  BY <1>2
<1>3. ASSUME NEW t \in Threads, Request(t) PROVE SettingsAreDue'
  <2>1. ASSUME NEW a \in Accounts, NEW p \in Perms, NEW w \in Passwords,
             AddUser(t, a, p, w) \/ UpdateUser(t, a, w)
        PROVE  SettingsAreDue'
    BY <1>1, <1>2, <2>1 DEF AddUser, UpdateUser, Begin, TypeOK
  <2>2. ASSUME NEW a \in Accounts, RemoveUser(t, a) \/ Login(t, a) PROVE SettingsAreDue'
    BY <1>1, <1>2, <2>2 DEF RemoveUser, Login, Begin, TypeOK
  <2>3. ASSUME NEW k \in Tokens, UseToken(t, k) PROVE SettingsAreDue'
    BY <1>1, <1>2, <2>3 DEF UseToken, Begin, TypeOK
  <2>4. ASSUME NEW v \in Values, SetValues(t, v) PROVE SettingsAreDue'
    <3>1. CASE op' = [op EXCEPT ![t] = [Idle EXCEPT !.pc = "due"]]
      <4>1. op'[t].pc = "due"
        BY <3>1 DEF TypeOK, Idle
      <4>2. QED
        BY <1>1, <2>4, <4>1 DEF SetValues
    <3>2. CASE silent' = TRUE
      BY <1>1, <2>4, <3>2 DEF SetValues
    <3>3. QED
      BY <2>4, <3>1, <3>2 DEF SetValues, Begin
  <2>5. QED
    BY <1>3, <2>1, <2>2, <2>3, <2>4 DEF Request, Perms
<1>4. ASSUME NEW t \in Threads, Continue(t) PROVE SettingsAreDue'
  <2>1. CASE SetDirty(t)
    BY <1>1, <2>1 DEF SetDirty
  <2>2. CASE ~SetDirty(t)
    <3>1. UNCHANGED <<saver, file, lost, web, dirty, silent>> /\ op[t].pc # "due"
      BY <1>4, <2>2 DEF Continue, Emplace, ParsePermissions, ClearPermissions, FillPermissions,
                        ListTokens, EraseTokens, Unregister, IssueToken
    <3>2. \A s \in Threads \ {t} : op'[s] = op[s]
      BY <1>4, <2>2 DEF Continue, Emplace, ParsePermissions, ClearPermissions, FillPermissions,
                        ListTokens, EraseTokens, Unregister, IssueToken, Updated, Begin, Goto, TypeOK
    <3>3. QED
      BY <1>1, <1>2, <3>1, <3>2
  <2>3. QED
    BY <2>1, <2>2
<1>5. CASE \/ ResetValues \/ CheckExpiredTokens \/ Start \/ Stop \/ UNCHANGED vars
           \/ \E k \in Tokens : Expire(k)
  BY <1>1, <1>5 DEF ResetValues, CheckExpiredTokens, Start, Stop, vars, Expire
<1>6. CASE SaveBegin
  BY <1>6 DEF SaveBegin, SaveStep, SettingsAreDue
<1>7. CASE SaveWeb
  <2>1. saver'.pc = "users" /\ saver'.xml.web = web'
    BY <1>7 DEF SaveWeb, SaveStep, TypeOK, Tree
  <2>2. QED
    BY <2>1 DEF SettingsAreDue
<1>8. CASE SaveUsers \/ SaveTokens
  <2>1. /\ saver.pc \in {"users", "tokens"} /\ saver'.pc \in {"tokens", "write"}
        /\ saver'.xml.web = saver.xml.web /\ UNCHANGED <<web, dirty, op, silent>>
    <3>1. CASE SaveUsers
      BY <3>1 DEF SaveUsers, SaveStep, TypeOK, Tree
    <3>2. CASE SaveTokens
      BY <3>2 DEF SaveTokens, SaveStep, TypeOK, Tree
    <3>3. QED
      BY <1>8, <3>1, <3>2
  <2>2. QED
    BY <2>1 DEF SettingsAreDue
<1>9. CASE WriteFile
  BY <1>9 DEF WriteFile, SaveStep, SettingsAreDue
<1>10. CASE Restart
  BY <1>10 DEF Restart, SettingsAreDue
<1>11. QED
  BY <1>3, <1>4, <1>5, <1>6, <1>7, <1>8, <1>9, <1>10 DEF Next, Save

\* For all constants: a setting that differs from the file is about to be saved,
\* or was changed by one of the two requests that do not call setDirty, or the
\* last write failed.
THEOREM SettingsAreDueHolds == Spec => []SettingsAreDue
<1>1. Init => TypeOK /\ Known /\ SettingsAreDue
  BY TypeInit, KnownInit, SettingsInit
<1>2. TypeOK /\ Known /\ SettingsAreDue /\ [Next]_vars => (TypeOK /\ Known /\ SettingsAreDue)'
  BY TypeStep, KnownStep, SettingsStep
<1>3. QED
  BY <1>1, <1>2, PTL DEF Spec
=============================================================================
